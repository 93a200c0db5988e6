SPECIFICATION FairSpec
CONSTANTS
  r1 = r1 r2 = r2 r3 = r3
  none = none
  Requests = {r1, r2}
  Skus <- TwoSkus
  Warehouses <- TwoWarehouses
  Existing <- SomeMovements
  Templates <- SomeTemplates
  Documents <- SomeDocuments
  None = none
  MaxCount = 2
  MaxRequests = 4
INVARIANTS NonNegativeStock OpnameAdjustsDifference ViewAgreesWithHelper
PROPERTIES FinalStaysFinal RequestsEnd
CHECK_DEADLOCK FALSE
