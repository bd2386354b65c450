SPECIFICATION FairSpec
CONSTANTS
  Symbols = {"X"}
  Accounts = {"house", "alice", "bob"}
  DefaultAccount = "house"
  LegacyCash = 20
  LegacyPosition = 20
  FeeUnit = 2
  RiskUnit = 2
  MaxOrderId = 5
  StartCash <- Cash8
  StartPosition <- Units3
  StartRisk <- AllCash
  StartFee <- TakerFee
  OrderRequests <- ContinuousOrders
  MarketRequests <- ContinuousMarket
  StopRequests <- None
  Amendments <- Changes
  StopAmendments <- None
  PhaseChoices <- None
  BandChoices <- None
  FeeChoices <- None
  RiskChoices <- None
  StateChoices <- None
  Calls = {"cancel"}
INVARIANTS
  OwnersRest
  ReservesBacked
  RestCovered
  Solvent
  NoNakedShort
  LedgerReconciles
  Uncrossed
  FokAllOrNothing
  ReplaceSafe
PROPERTIES
  NeverRests
  CallsReturn
