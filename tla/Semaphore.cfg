\* One permit: the fewest for which a queue of three is long enough to starve
\* one of them.  The theorems hold for any number.
SPECIFICATION FairSpec
CONSTANTS
  Threads = {t1, t2, t3, t4, t5}
  InitialCount = 1
  MaxTickets = 6
INVARIANTS FreeSemaphoreWakes
PROPERTIES ImplementsFairSemaphore EveryWaiterServed
\* Once MaxTickets calls have been served every thread is idle.
CHECK_DEADLOCK FALSE
