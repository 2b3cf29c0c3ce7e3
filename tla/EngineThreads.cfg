\* All three producers, an inbound ring of one slot so that each of them meets a
\* full one, and a stop at any moment.
SPECIFICATION Spec
CONSTANTS
    Sources = {"recv", "feed", "synth"}
    InCapacity = 1
    OutCapacity = 1
    PoolSize = 2
    MaxQty = 1
    MaxLong = 2
    MaxShort = 1
    MaxOrders = 2
    NoOrder = NoOrder
    NoSlot = NoSlot
 
PROPERTIES EngineNeverStalls 
CHECK_DEADLOCK FALSE
