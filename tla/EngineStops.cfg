SPECIFICATION Spec
CONSTANTS
  Symbols = {"X"}
  Accounts = {"house", "alice", "bob"}
  DefaultAccount = "house"
  LegacyCash = 20
  LegacyPosition = 20
  FeeUnit = 2
  RiskUnit = 2
  MaxOrderId = 6
  StartCash <- Cash6
  StartPosition <- Units3
  StartRisk <- AllCash
  StartFee <- NoFees
  OrderRequests <- StopOrders
  MarketRequests <- None
  StopRequests <- StopInputs
  Amendments <- None
  StopAmendments <- StopChanges
  PhaseChoices <- HaltPhase
  BandChoices <- Band12
  FeeChoices <- None
  RiskChoices <- None
  StateChoices <- None
  Calls = {"cancel", "halt", "clear_bands"}
INVARIANTS
  StopsCurrent
PROPERTIES
  NoTradeWhileHalted
