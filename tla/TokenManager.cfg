SPECIFICATION FairSpec
CONSTANTS
  Thread = {t1, t2, t3}
  MaxSerial = 2
  MaxTrackers = 2
INVARIANTS CountsExact TrackersCompleteInOrder
PROPERTIES GracePeriodSpec TrackerWaitsEnd
\* Threads may be stopped or aborted, or out of tokens.
CHECK_DEADLOCK FALSE
