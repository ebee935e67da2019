SPECIFICATION FairSpec
CONSTANTS
  Thread = {t1, t2}
  MaxSerial = 2
  MaxTrackers = 0
PROPERTY ShutdownReturns
CHECK_DEADLOCK FALSE
