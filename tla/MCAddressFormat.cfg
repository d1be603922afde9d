SPECIFICATION Spec
CONSTANTS
  ADDRESS_LENGTH = 2
  Addresses <- MCAddresses
  keccak <- MCkeccak
INVARIANTS
  TypeOK
  AddressReadsBack
  ChecksumAsOthers
  IInv
CHECK_DEADLOCK FALSE
