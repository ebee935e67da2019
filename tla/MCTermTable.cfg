SPECIFICATION Spec
CONSTANTS
  c_maxRankValue = 1
  c_maxIdfX10Value = 2
  Frequency <- MCFrequency
  FrequencyAtRank <- MCFrequencyAtRank
  IdfX10 <- MCIdfX10
  UnknownFrequency = 1
  density = 48
  adhocFrequency = 16
  Treatments <- MCTreatments
  randomSkipDistance = 2
  MaxTerms = 4
INVARIANT WithinDensity
INVARIANT RowsApart
CHECK_DEADLOCK FALSE
