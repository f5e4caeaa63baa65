SPECIFICATION IceFairSpec
CONSTANTS
  a1 = a1
  old = old
  None = None
  Agent = {a1}
  NameLengths = {4, 90, 91, 92, 110, 112}
  Addresses <- MCAddresses
  TransactionId <- MCTransactionId
  OtherTraffic <- MCOtherTraffic
INVARIANTS AddressLearned PairAgreed OthersIgnored UsableWhenPadded
PROPERTIES ChecksSucceed
