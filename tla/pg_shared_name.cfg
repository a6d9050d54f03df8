CONSTANTS
    o1 = o1
    o2 = o2
    n1 = n1
    n2 = n2
    Objs = {o1, o2}
    Names = {n1}
    NameOf <- MC_SharedName
    MaxPartition = 1
    MaxMembers = 0
    MaxFaults = 0
    MaxEdits = 0
    DescribeErrors = {"Server"}
    EventualConsistency = FALSE
    ForeignGroups = FALSE
SPECIFICATION Spec
PROPERTY GroupDeletedOnlyForItsObject
CHECK_DEADLOCK FALSE
