SPECIFICATION Spec
CONSTANTS
  Symbols = {"X"}
  Accounts = {"house", "alice", "bob"}
  DefaultAccount = "house"
  LegacyCash = 20
  LegacyPosition = 20
  FeeUnit = 2
  RiskUnit = 2
  MaxOrderId = 4
  StartCash <- Cash6
  StartPosition <- Units3
  StartRisk <- AllCash
  StartFee <- NoFees
  OrderRequests <- AuctionDisplayed
  MarketRequests <- None
  StopRequests <- None
  Amendments <- None
  StopAmendments <- None
  PhaseChoices <- Opening
  BandChoices <- None
  FeeChoices <- None
  RiskChoices <- ShortRisks
  StateChoices <- None
  Calls = {"cancel", "uncross"}
INVARIANTS
  ReservesBacked
  UncrossComplete
