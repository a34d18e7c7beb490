\* `cell build --stage=base` and a session of a cell with the default stack.
SPECIFICATION TartSpec
CONSTANTS
    c1 = c1
    b1 = b1
    s1 = s1
    Nil = Nil
    Stacks = {"base"}
    MacCells = {c1}
    Builds = {b1}
    Sessions = {s1}
    StackOf <- BaseStack
    MacOf <- OneCell
INVARIANTS
    AgentHasStack
CHECK_DEADLOCK FALSE
