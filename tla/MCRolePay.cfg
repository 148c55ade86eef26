SPECIFICATION Spec
CONSTANTS
    u = u
    p = p
    q = q
    k = k
    h = h
    f = f
    admin = admin
    local = local
    pool = pool
    Address <- MCAddress
    Account <- MCPayers
    Foundation = f
    Admin = admin
    RoleAddr = local
    Pool = pool
    Asks <- MCPayAsks
    Payers = {u}
    NGroup = 1
    GroupLevel = 1
    InitMoney <- MCRichMoney
    Gifts = {}
    Terms <- MCPayTerms
    Losses <- MCPayLosses
    RepairPays <- MCPayRepairs
    MaxTime = 8
    Day = 2
    Days = 4
    Levels <- MCLevels
CHECK_DEADLOCK FALSE
INVARIANTS PaidWithinPay
