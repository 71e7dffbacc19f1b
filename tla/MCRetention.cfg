CONSTANTS
    Orgs = {o1}
    Invoices = {"INV-1"}
    Amounts = {1}
    Ids = {1, 2, 3, 4}
    Horizon = 3
    MonthLength = 2
    LedgerRetention = 2
    LeapDays = {2}
    DefaultRetention = 2
    Retentions = {1, 2}
    LeadRetention = 1
    Grace = 2
    LinkTtl = 1
    StatementTtl = 1
    Stock = {1, 2}
    MaxCall = 1
    PageSize = 1
    MaxSweep = 0
    MaxFaults = 1
SPECIFICATION Spec
INVARIANTS PurgedIsEmpty LinkWorks ExportIsComplete 
 
