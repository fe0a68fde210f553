SPECIFICATION Spec
CONSTANTS
    p1 = p1
    p2 = p2
    p3 = p3
    potion = potion
    elixir = elixir
    Null = Null
    Absent = Absent
    Players = {p1, p2, p3}
    Addrs = {a1, a2, a3}
    SessionIds = {s1, s2}
    MapIds = {m1}
    Items = {potion, elixir}
    Types = {1}
    TypeOf <- MCTypeOf
    MaxSlotPos = 2
    MaxItemCount = 3
    Amounts <- MCAmounts
    MaxOffers = 2
    PoolSize = 2
    InitialRows <- MCInitialRows
SYMMETRY Symmetry
INVARIANTS RowsSound ConsentedTrade SessionTableSound
CHECK_DEADLOCK FALSE
PROPERTY TradeIsAtomicExchange
CONSTRAINT MCBound
