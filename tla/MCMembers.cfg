CONSTANTS
    Accounts = {a1, a2, a3, a4, a5}
    StringLimit = 4

SPECIFICATION Spec

INVARIANTS
    TypeOK
