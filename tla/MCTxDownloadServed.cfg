\* three peers, one transaction: no announcement is left waiting
SPECIFICATION FairSpec
CONSTANTS
  TxHashes <- SingleHashes
  Txs <- SingleTxs
  LowBits <- SingleLowBits
  Peers = {1, 2, 3}
  PreferredPeers = {1}
  WtxidPeers = {2}
  MaxAnnouncements = 1
  MaxInFlight = 1
  NonprefDelay = 1
  TxidDelay = 1
  OverloadedDelay = 1
  GetdataInterval = 1
  MaxSetBack = 1
  MaxLowBits = 3
  NoPeer = NoPeer
INVARIANT SanityCheck
PROPERTY CandidatesServed
