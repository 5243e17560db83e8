\* The smallest semaphore whose waiters can be forgotten: two permits.
SPECIFICATION Spec
CONSTANTS
  Threads = {t1, t2, t3}
  InitialCount = 2
  MaxTickets = 6
INVARIANT NoStrandedWaiter
CHECK_DEADLOCK FALSE
