CONSTANTS
    o1 = o1
    o2 = o2
    n1 = n1
    n2 = n2
    Objs = {o1}
    Names = {n1}
    NameOf <- MC_OneName
    MaxPartition = 2
    MaxMembers = 0
    MaxFaults = 1
    MaxEdits = 0
    DescribeErrors = {"Client"}
    EventualConsistency = FALSE
    ForeignGroups = FALSE
SPECIFICATION Spec
INVARIANT NoOrphanedGroup
CHECK_DEADLOCK FALSE
