SPECIFICATION StartedSpec
CONSTANTS
  r1 = r1 r2 = r2
  Requests = {r1, r2}
  Variants = {1, 2}
  Versions = {1, 2, 3}
  BomItems = {1, 2, 3, 4}
  Operations = {11}
  ByProducts = {12}
  Components <- Kinds
  PlannedOrders = {1, 2, 3}
  Production = {1, 3}
  VariantMade <- Making
  QuantityMade <- Pieces
  VersionMade <- BillOf
  Supplied = {2}
  WorkOrders = {1, 2, 3, 4, 5}
  Quantities = {1, 2}
  Consumptions <- SomeConsumptions
  OnHand <- PiecesOnHand
  CostPrice <- Costs
  None = None
  RecentRequests = 3
  MaxRequests = 14
INVARIANTS OneActiveVersion TreesStayWhole ApprovalsMatchOrders ProductionAddsUp
PROPERTIES CancelledOrdersRest
CHECK_DEADLOCK FALSE
