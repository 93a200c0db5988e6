SPECIFICATION Spec
CONSTANTS
  r1 = r1 r2 = r2
  p1 = p1
  sale1 = sale1 sale2 = sale2 sale3 = sale3
  cash = cash  revenue = revenue
  None = None
  Requests = {r1, r2}
  Periods = {p1}
  Accounts = {cash, revenue}
  Entries <- OneEntry
  Refs = {sale1, sale2, sale3}
  Tolerance = 1
  MaxRequests = 3
INVARIANTS ClosingBalanceExact
CHECK_DEADLOCK FALSE
