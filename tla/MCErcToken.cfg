SPECIFICATION Spec
CONSTANTS
    admin = admin
    a1 = a1
    a2 = a2
    Address <- MCAddress
    Supply = 2
    Amounts <- MCAmounts
    DropLists <- MCDropLists
    Pairs <- MCPairs
    MaxSupply = 3
    MaxDebt = 1
    MaxGranted = 2
INVARIANTS TypeOK Conserved AllowanceAccounted
PROPERTIES DropsByConsent NoOverdraft
