\* Four orders for three slots: partial fills, sweeps over two prices, a drop, and a
\* crash at any step with any prefix of the journal on disk.
SPECIFICATION RecoverySpec
CONSTANTS
    Ids = {1, 2, 3, 4}
    MinPrice = 1
    MaxPrice = 2
    MaxQty = 2
    PoolSize = 3
    UniqueIds = TRUE
    DirectAdd = FALSE
    MaxClock = 4
    NoOrder = NoOrder
    NoTrade = NoTrade
    NoSlot = NoSlot
    End = End
    Dangling = Dangling
INVARIANTS BookRebuilt TradesReproduced ReplayHasRoom
CHECK_DEADLOCK FALSE
