\* Two openers and one probe: a holder, the opener that removes its LOCK file,
\* and each of them caught between opening the file and locking it.  Three
\* inodes suffice for every descriptor and the name; the code's three retries.
CONSTANTS
    Openers = {o1, o2}
    Probers = {p1}
    Inodes = {i1, i2, i3}
    None = None
    MaxRetries = 3
SPECIFICATION LockSpec
INVARIANTS ExclusiveUntilUsurped ProbeSeesTheHolder
