SPECIFICATION Spec
CONSTANTS
    u = u
    p = p
    q = q
    k = k
    h = h
    f = f
    admin = admin
    local = local
    pool = pool
    Address <- MCAddress
    Account <- MCOwners
    Foundation = f
    Admin = admin
    RoleAddr = local
    Pool = pool
    Asks <- MCOwnerAsks
    Payers = {u}
    NGroup = 1
    GroupLevel = 1
    InitMoney <- MCInitMoney
    Gifts = {8}
    Terms <- MCOwnerTerms
    Losses <- MCLosses
    RepairPays <- MCRepairs
    MaxTime = 7
    Day = 2
    Days = 3
    Levels <- MCLevels
CHECK_DEADLOCK FALSE
INVARIANTS TypeOK PriceOfRunning PaidAccounted NoSpanPaidTwice LevelEarned
