SPECIFICATION FairSpec
CONSTANT Threads = {t1, t2, t3}
INVARIANTS WordCountsUsers SleepersHaveWaker
PROPERTIES ImplementsRWLock ReaderProgress WriterProgress
