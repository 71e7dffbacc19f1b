CONSTANTS
    Orgs = {o1, o2}
    Invoices = {"INV-1"}
    Amounts = {0, 1, 2}
    Ids = {1, 2, 3}
    Horizon = 5
    MonthLength = 2
    LedgerRetention = 3
    LeapDays = {4}
SYMMETRY Symmetry
SPECIFICATION BillingSpec
INVARIANTS GrantedOnce 
PROPERTIES LedgerKept
CHECK_DEADLOCK FALSE
