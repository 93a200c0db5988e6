SPECIFICATION Spec
CONSTANTS
  r1 = r1 r2 = r2
  Requests = {r1, r2}
  Orders = {1, 2}
  Items <- ThreeItems
  OrderOf <- OrderOfItem
  Ordered <- OrderedPieces
  Quantities = {1, 2}
  Deliveries <- SomeDeliveries
  Payments = {1}
  Price = 2
  Tolerance = 1
  None = None
  FreshRequests = 4
  MaxRequests = 5
INVARIANT ReceiptInvoicedOnce
CHECK_DEADLOCK FALSE
