SPECIFICATION Spec
CONSTANTS
  r1 = r1
  Requests = {r1}
  Orders = {1, 2}
  Items <- ThreeItems
  OrderOf <- OrderOfItem
  Ordered <- OrderedPieces
  VariantOf <- VariantOfItem
  Manufactured = {1}
  OnHand <- EnoughOnHand
  Arrivals = {1}
  Dispatches <- SomeDispatches
  Bundles = {}
  Payments = {1, 2}
  Price = 2
  Tolerance = 1
  None = None
  FreshRequests = 2
  MaxRequests = 2
INVARIANT ReservationServesItsOrder
CHECK_DEADLOCK FALSE
