SPECIFICATION Spec
CONSTANTS
    f = f
    u = u
    adm = adm
    rm = rm
    pool = pool
    Address <- MCAddress
    User <- MCUser
    Admin = adm
    Foundation = f
    RoleMgr = rm
    Pool = pool
    NToken = 2
    PledgeKeeper = 2
    PledgePro = 1
    InitMoney <- MCInitMoney
    Amounts <- MCAmounts
    Recipients = {pool}
    MaxReward = 2
    MaxAllowance = 1
INVARIANTS TypeOK DepositLocked Backed SolventUnlessTorn
PROPERTIES OnlyOwnWithdrawLowers
