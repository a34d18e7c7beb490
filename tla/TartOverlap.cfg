\* `cell build` and a session that builds its template, of one cell.
SPECIFICATION TartSpec
CONSTANTS
    c1 = c1
    b1 = b1
    s1 = s1
    Nil = Nil
    Stacks = {"go"}
    MacCells = {c1}
    Builds = {b1}
    Sessions = {s1}
    StackOf <- GoStack
    MacOf <- OneCell
INVARIANTS
    TemplatesProvisioned
CHECK_DEADLOCK FALSE
