CONSTANTS
    o1 = o1
    o2 = o2
    n1 = n1
    n2 = n2
    Objs = {o1}
    Names = {n1}
    NameOf <- MC_OneName
    MaxPartition = 2
    MaxMembers = 1
    MaxFaults = 1
    MaxEdits = 2
    DescribeErrors = {"Server"}
    EventualConsistency = FALSE
    ForeignGroups = TRUE
SPECIFICATION Spec
INVARIANT NoOrphanedGroup
INVARIANT FinalizerGuardsGroup
INVARIANT ReconcileGuard
PROPERTY UnmanagedIsFinal
PROPERTY GroupDeletedOnlyForItsObject
CHECK_DEADLOCK FALSE
