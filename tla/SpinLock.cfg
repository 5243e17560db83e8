SPECIFICATION FairSpec
CONSTANTS
  Threads = {t1, t2, t3}
  MaxNumTries = 10
INVARIANTS NoDataRace
PROPERTIES ImplementsLock WaitersYield
