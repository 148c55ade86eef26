SPECIFICATION Spec
CONSTANTS
    u = u
    p = p
    q = q
    k = k
    h = h
    f = f
    admin = admin
    local = local
    pool = pool
    Address <- MCAddress
    Account <- MCMembers
    Foundation = f
    Admin = admin
    RoleAddr = local
    Pool = pool
    Asks <- MCMemberAsks
    Payers = {u, p, k, h, f}
    NGroup = 2
    GroupLevel = 1
    InitMoney <- MCInitMoney
    Gifts = {}
    Terms <- MCMemberTerms
    Losses <- MCNoLosses
    RepairPays <- MCNoRepairs
    MaxTime = 5
    Day = 2
    Days = 2
    Levels <- MCLevels
SYMMETRY MCSymmetry
CHECK_DEADLOCK FALSE
INVARIANTS MembersAgree LeftAtGroup0Only EndedInTurn GroupSums
