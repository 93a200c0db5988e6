SPECIFICATION StartedSpec
CONSTANTS
  r1 = r1 r2 = r2
  Requests = {r1, r2}
  Orders = {1, 2}
  Items <- ThreeItems
  OrderOf <- OrderOfItem
  Ordered <- OrderedPieces
  VariantOf <- VariantOfItem
  Manufactured = {1}
  OnHand <- PiecesOnHand
  Arrivals = {1}
  Dispatches <- SomeDispatches
  Bundles <- SomeBundles
  Payments = {1, 2}
  Price = 2
  Tolerance = 1
  None = None
  FreshRequests = 3
  MaxRequests = 12
INVARIANTS DeliveriesAddUp InvoicesCoverDeliveries ReceiptsAddUp
PROPERTIES ClosedOrdersRest RequestsEnd
CHECK_DEADLOCK FALSE
