SPECIFICATION IndexSpec
CONSTANTS
  Adder = {a1}
  Deleter = {d1}
  Reader = {}
  Slice = {1, 2}
  List = {1, 2, 3, 4, 5}
  m_sliceCapacity = 1
  QueueCapacity = 1
  None = None
INVARIANTS StoppedIsDrained BlocksAccounted
PROPERTIES StopReturns RecyclingEnds
\* A stopped index, and a Delete that waits for the recycler, may stand still.
CHECK_DEADLOCK FALSE
