SPECIFICATION StartedSpec
CONSTANTS
  r1 = r1 r2 = r2
  Requests = {r1, r2}
  Year = Year OtherYear = OtherYear
  Years = {Year, OtherYear}
  YearSpan <- Spans
  PeriodIds = {1, 2, 3}
  PeriodRequests <- SomePeriods
  Bank = Bank
  BankAccounts = {Bank}
  BankIds = {1, 2}
  ReconIds = {1, 2}
  Differences = {1, 2}
  NoId = NoId
  PR = PR Rfq = Rfq Quotation = Quotation
  PurchaseRequests = {PR}
  Rfqs = {Rfq}
  Quotations = {Quotation}
  Supplier = Supplier s2 = s2
  Suppliers = {Supplier, s2}
  Width = Width Height = Height
  Parameters = {Width, Height}
  MinOf <- LowerLimits
  MaxOf <- UpperLimits
  Checklists = {1, 2}
  Forms <- SomeForms
  Inspections = {1, 2}
  Answers <- SomeAnswers
  Scratch = Scratch
  DefectTypes = {Scratch}
  RecentRequests = 4
  MaxRequests = 11
INVARIANTS CalendarWhole ReconciledByBalance QuotesCarryOneAnswer
PROPERTIES ConcludedInspectionsRest
CHECK_DEADLOCK FALSE
