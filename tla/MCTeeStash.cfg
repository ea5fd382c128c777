CONSTANTS
    Controllers = {c1, c2, c3}
    Stashes = {s1, s2}
    Podr2Keys = {k1, k2}
    Enclaves = {e1, e2}
    MaxWhitelist = 2
    PunishBound = 1
    NoKey = NoKey

SPECIFICATION Spec

INVARIANTS
    StashRegisteredOnce

