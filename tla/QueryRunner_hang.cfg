SPECIFICATION FairSpec
CONSTANTS
  Thread = {t1, t2, t3}
  m_taskCount = 2
  None = None
PROPERTY RunEnds
\* The threads that are left wait for one that has gone.
CHECK_DEADLOCK FALSE
