SPECIFICATION Spec
CONSTANTS
  Symbols = {"X"}
  Accounts = {"house", "alice"}
  DefaultAccount = "house"
  LegacyCash = 20
  LegacyPosition = 20
  FeeUnit = 2
  RiskUnit = 2
  MaxOrderId = 3
  StartCash <- Cash6
  StartPosition <- Units3
  StartRisk <- AllCash
  StartFee <- NoFees
  OrderRequests <- AllOrders
  MarketRequests <- AllMarket
  StopRequests <- AllStops
  Amendments <- AllChanges
  StopAmendments <- AllStopChanges
  PhaseChoices <- AllPhases
  BandChoices <- Band12
  FeeChoices <- AllFees
  RiskChoices <- AllRisks
  StateChoices <- AllStates
  Calls = {"halt", "resume", "clear_bands", "cancel", "uncross"}
INVARIANTS
  TypeOK
  WellShaped
  BookOwned
