SPECIFICATION Spec
CONSTANTS
    u = u
    p = p
    q = q
    k = k
    h = h
    f = f
    rm = rm
    local = local
    repair = repair
    Address <- MCAddress
    User = {u}
    Provider = {p}
    Keeper = {k, h}
    Foundation = f
    RoleMgr = rm
    FsAddr = local
    Repair = repair
    Level = 1
    Period = 1
    Word = 8
    InitMoney <- MCInitMoney
    Terms <- MCTerms
    Money <- MCMoney
    Claims <- MCClaims
    Payers = {u}
    MaxTime = 2
    MaxAllowance = 260
SYMMETRY MCSymmetry
CHECK_DEADLOCK FALSE
INVARIANTS TypeOK SharesWithinPot PaidOnce PaidAsAccrued PriceOfOpenOrders BooksBalance ShownIsPaid
