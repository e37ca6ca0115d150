SPECIFICATION Spec
CONSTANTS
    i1 = i1
    i2 = i2
    c1 = c1
    u = u
    x = x
    Items <- MCItems
    Clients <- MCClients
    Updates <- MCUpdates
    Exports <- MCExports
    MaxLogs = 1
    None = None
INVARIANTS TypeOK Erased ExportComplete
PROPERTY GoneAtLast
