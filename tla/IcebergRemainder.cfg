SPECIFICATION Spec
CONSTANTS
  Symbols = {"X"}
  Accounts = {"house", "alice", "bob"}
  DefaultAccount = "house"
  LegacyCash = 20
  LegacyPosition = 20
  FeeUnit = 2
  RiskUnit = 2
  MaxOrderId = 3
  StartCash <- Cash6
  StartPosition <- Units3
  StartRisk <- AllCash
  StartFee <- NoFees
  OrderRequests <- IcebergOrders
  MarketRequests <- None
  StopRequests <- None
  Amendments <- None
  StopAmendments <- None
  PhaseChoices <- None
  BandChoices <- None
  FeeChoices <- None
  RiskChoices <- None
  StateChoices <- None
  Calls = {}
INVARIANTS
  OwnersRest
