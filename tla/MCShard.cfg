SPECIFICATION Spec
CONSTANTS
  Adder = {a1}
  Deleter = {d1}
  Reader = {r1}
  Slice = {s1, s2}
  List = {l1, l2, l3, l4, l5}
  m_sliceCapacity = 2
  QueueCapacity = 1
  None = None
SYMMETRY Symmetric
INVARIANTS NothingFreedInUse NoLeakNoDoubleFree IndexedIsServed AssertionsHold
