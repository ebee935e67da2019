SPECIFICATION MCSpec
CONSTANTS
  Slice = {"s1", "s2"}
  m_sliceCapacity = 2
INVARIANT Complete
