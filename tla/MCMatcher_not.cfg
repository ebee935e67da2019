SPECIFICATION Spec
CONSTANTS
  ShardCount = 2
  TermRows <- MCTermRows
  c_maxRankValue = 2
  c_maxRowsPerQuery = 20
  c_maxGramSize = 2
  targetRowCount = 20
  targetCrossProductTermCount = 2
  None = None
  c_rowFieldSize = 64
  Queries <- MCQueries
  Plans <- MCPlans
  TreeHeight = 12
  SliceCount <- MCSliceCount
  QuadwordsPerRow = 4
  c_bitsPerQuadword = 2
  m_maxGramSize = 2
  InitialDocuments <- MCInitialDocuments
  AddedColumn <- MCAddedColumn
  AddedDocument <- MCAddedDocument
  DeletableColumns <- MCDeletableColumns
INVARIANT NegationBetween
CHECK_DEADLOCK FALSE
