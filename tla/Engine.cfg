\* Three orders of one producer: two may rest and the third trade with both,
\* more than the outbound ring holds, or reach the position limit.
SPECIFICATION Spec
CONSTANTS
    Sources = {"synth"}
    InCapacity = 1
    OutCapacity = 1
    PoolSize = 3
    MaxQty = 2
    MaxLong = 2
    MaxShort = 1
    MaxOrders = 3
    NoOrder = NoOrder
    NoSlot = NoSlot
INVARIANTS TypeOK JournalBeforeReport ReportsOrdered RiskBounded
CHECK_DEADLOCK FALSE
