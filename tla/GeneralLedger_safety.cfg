SPECIFICATION SettledSpec
CONSTANTS
  r1 = r1 r2 = r2
  p1 = p1 p2 = p2
  sale1 = sale1
  cash = cash  revenue = revenue
  None = None
  Requests = {r1, r2}
  Periods = {p1, p2}
  Accounts = {cash, revenue}
  Entries <- ThreeEntries
  Refs = {sale1}
  Tolerance = 1
  MaxRequests = 7
INVARIANTS BooksInv NoDraftInClosedPeriod AutoPostDelivers
PROPERTIES ClosedPeriodFrozen RequestsEnd KeepsBooks
CHECK_DEADLOCK FALSE
