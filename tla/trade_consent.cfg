SPECIFICATION Spec
CONSTANTS
    p1 = p1
    p2 = p2
    p3 = p3
    potion = potion
    elixir = elixir
    Null = Null
    Absent = Absent
    Players = {p1, p2}
    Addrs = {a1, a2}
    SessionIds = {s1}
    MapIds = {m1}
    Items = {potion}
    Types = {1}
    TypeOf <- MCTypeOf
    MaxSlotPos = 2
    MaxItemCount = 3
    Amounts <- MCAmounts
    MaxOffers = 1
    PoolSize = 2
    InitialRows <- MCInitialRows
SYMMETRY Symmetry
INVARIANT ExchangeAfterBothReady
CHECK_DEADLOCK FALSE
