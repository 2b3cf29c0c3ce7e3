\* Quotes keep arriving while the engine stops.
SPECIFICATION Spec
CONSTANTS
    Sources = {"feed"}
    InCapacity = 1
    OutCapacity = 1
    PoolSize = 2
    MaxQty = 1
    MaxLong = 2
    MaxShort = 1
    MaxOrders = 2
    NoOrder = NoOrder
    NoSlot = NoSlot
PROPERTIES StopReturns
CHECK_DEADLOCK FALSE
