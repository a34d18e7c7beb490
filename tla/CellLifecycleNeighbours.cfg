CONSTANTS
    a1 = a1  a2 = a2  p1 = p1  k1 = k1  r1 = r1
    c1 = c1  c2 = c2  old = old  new = new  None = None
    Agents = {a1, a2}
    Starts = {}
    Stops = {}
    Reapers = {r1}
    Cells = {c1, c2}
    CellOf <- TwoCells
    ConfigOf <- SameConfig
    Proxied = {c1}
    Interruptible = {}
SPECIFICATION LiveSpec
PROPERTY OneshotStops
CHECK_DEADLOCK FALSE
