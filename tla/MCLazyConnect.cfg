\* Two operations of one client, which may connect at the same time, and one of
\* another client.  Three inodes suffice: who creates the file has none open.  One
\* retry makes every branch of connect_at reachable for each.
CONSTANTS
    c1 = c1  c2 = c2
    o1 = o1  o2 = o2  o3 = o3
    Clients = {c1, c2}
    Openers = {o1, o2, o3}
    ClientOf <- Owners
    Probers = {}
    Inodes = {i1, i2, i3}
    None = None
    MaxRetries = 1
SPECIFICATION FairConnectSpec
INVARIANT HandleKeepsItsLock
PROPERTY OperationsReturn
