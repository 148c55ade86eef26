SPECIFICATION Spec
CONSTANTS
    u = u
    p = p
    q = q
    k = k
    h = h
    f = f
    rm = rm
    local = local
    repair = repair
    Address <- MCAddress
    User = {u}
    Provider = {p}
    Keeper = {k}
    Foundation = f
    RoleMgr = rm
    FsAddr = local
    Repair = repair
    Level = 1
    Period = 1
    Word = 8
    InitMoney <- MCInitMoney
    Terms <- MCTerms
    Money <- MCMoney
    Claims <- MCFullClaims
    Payers = {u}
    MaxTime = 2
    MaxAllowance = 260
CHECK_DEADLOCK FALSE
INVARIANTS ManageCovers
