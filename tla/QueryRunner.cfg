SPECIFICATION FairSpec
CONSTANTS
  Thread = {t1, t2, t3, t4, t5}
  m_taskCount = 7
  None = None
INVARIANTS EveryTaskOnce ResultsComplete NobodyStranded
PROPERTY RunEnds
\* The program stops when Run returns.
CHECK_DEADLOCK FALSE
