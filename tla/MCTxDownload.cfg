\* two peers, a transaction with its parent: the choices of the tracker
SPECIFICATION Spec
CONSTANTS
  TxHashes <- FamilyHashes
  Txs <- FamilyTxs
  LowBits <- FamilyLowBits
  Peers = {1, 2}
  PreferredPeers = {1}
  WtxidPeers = {2}
  MaxAnnouncements = 2
  MaxInFlight = 1
  NonprefDelay = 1
  TxidDelay = 1
  OverloadedDelay = 1
  GetdataInterval = 1
  MaxSetBack = 1
  MaxLowBits = 3
  NoPeer = NoPeer
INVARIANT PeerInfoExact
PROPERTY ImplementsTxTracker
