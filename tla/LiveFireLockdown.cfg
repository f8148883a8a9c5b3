SPECIFICATION LiveSpec
CONSTANTS
  Threads = {t1, t2}
INVARIANT LockdownCloses
CHECK_DEADLOCK FALSE
