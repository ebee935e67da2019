SPECIFICATION IngestionSpec
CONSTANTS
  Adder = {a1, a2}
  Deleter = {d1, d2}
  DocId = {1, 2, 3}
  MaxAdds = 3
  None = None
  LOG2_CAPACITY = 2
  m_maxGramSize = 2
  Manifests <- MCManifests
  Deletable = {1}
  m_sliceCapacity = 2
INVARIANT ContainedIsServed
INVARIANT ServedCanBeDeleted
INVARIANT DeleteIsNotStale
INVARIANT CountCoversServed
INVARIANT FirstSliceComplete
INVARIANT IndexedAsWritten
INVARIANT EverythingIngested
INVARIANT CachedWasAdded
PROPERTY DocumentSetSpec
PROPERTY NeverTwice
PROPERTY IngestionEnds
CHECK_DEADLOCK FALSE
