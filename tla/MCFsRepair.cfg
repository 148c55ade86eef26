SPECIFICATION Spec
CONSTANTS
    u = u
    p = p
    q = q
    k = k
    h = h
    f = f
    rm = rm
    local = local
    repair = repair
    Address <- MCAddress
    User = {u}
    Provider = {p, q}
    Keeper = {k}
    Foundation = f
    RoleMgr = rm
    FsAddr = local
    Repair = repair
    Level = 1
    Period = 2
    Word = 8
    InitMoney <- MCRepairInitMoney
    Terms <- MCRepairTerms
    Money <- MCRepairMoney
    Claims <- MCRepairClaims
    Payers = {u}
    MaxTime = 1
    MaxAllowance = 210
CHECK_DEADLOCK FALSE
INVARIANTS BooksBalance PriceOfOpenOrders
PROPERTY OrdersInTurn
