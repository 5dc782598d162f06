SPECIFICATION Spec
CONSTANTS
    p1 = p1
    p2 = p2
    Procs = {p1, p2}
    old = old
    new = new
    weak = weak
    r1 = r1
    r2 = r2
    Policies <- MCPolicies
    Blocked <- MCBlocked
    Review <- MCReview
    Resolvers <- MCResolvers
    First = old
    Assigned <- MCAssigned
    Faults = {"command", "io", "crash", "resolver"}
    MaxCommands = 5
    None = None
SYMMETRY Symmetry
CONSTRAINT Bound
INVARIANTS CompleteIsEvidenced StateMatchesBind
PROPERTIES RollbackKeepsTrust
CHECK_DEADLOCK FALSE
