CONSTANTS
    a1 = a1  a2 = a2  p1 = p1  k1 = k1  r1 = r1
    c1 = c1  c2 = c2  old = old  new = new  None = None
    Agents = {a1, a2}
    Starts = {p1}
    Stops = {k1}
    Reapers = {r1}
    Cells = {c1}
    CellOf <- OneCell
    ConfigOf <- MixedConfig
    Proxied = {}
    Interruptible = {a2}
SPECIFICATION Spec
INVARIANT OneshotHasOwner
PROPERTY PersistentStays
CHECK_DEADLOCK FALSE
