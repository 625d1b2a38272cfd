\* Three lenders share up to three units of the token.
SPECIFICATION AquaSpec
CONSTANTS
    a = a
    b = b
    c = c
    Users = {a, b, c}
    NoOne = NoOne
    Aqua = Aqua
    ReserveCallers = {a}
    MaxUint = 3
    Amounts = {0, 1, 2, 3}
INVARIANTS
    ReservedWithinProvided
    Solvent
    SupplyConserved
PROPERTY StakeBacked
