SPECIFICATION Spec
CONSTANTS
  BYTE = 6
  INT256_LENGTH = 4
  TMP_SIZE = 5
  MAX_TICKER_LEN = 2
  Requests <- MCRequests
INVARIANTS
  TypeOK
  DigitsSoFar
  TextReadsBack
  TextIsCanonical
  TextWithinBuffer
  RefusedIfTooLong
  IInv
CHECK_DEADLOCK FALSE
