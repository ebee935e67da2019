SPECIFICATION FairSpec
CONSTANTS
  Producer = {p1, p2, p3}
  Consumer = {c1, c2}
  Owner = {o1}
  m_capacity = 2
  MaxItems = 2
INVARIANTS TypeOK FinishedIsDrained WakeUpsSuffice
PROPERTIES OffersEnd ItemsAreTaken ShutdownReturns
\* The queue is shut down in the end.
CHECK_DEADLOCK FALSE
