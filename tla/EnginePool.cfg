\* One client's messages while the engine works on other orders.
SPECIFICATION Spec
CONSTANTS
    Sources = {"recv", "synth"}
    InCapacity = 1
    OutCapacity = 1
    PoolSize = 3
    MaxQty = 1
    MaxLong = 2
    MaxShort = 1
    MaxOrders = 2
    NoOrder = NoOrder
    NoSlot = NoSlot
INVARIANTS SlotsNotShared
CHECK_DEADLOCK FALSE
