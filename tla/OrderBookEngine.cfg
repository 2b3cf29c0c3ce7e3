\* Every public operation, OrderBook::add among them; live ids are not reused.
\* Four orders over three slots, so that slots are reused.
SPECIFICATION Spec
CONSTANTS
    Ids = {a, b, c}
    MinPrice = 1
    MaxPrice = 2
    MaxQty = 2
    PoolSize = 3
    UniqueIds = TRUE
    DirectAdd = TRUE
    MaxClock = 4
    NoOrder = NoOrder
    NoTrade = NoTrade
    NoSlot = NoSlot
    End = End
    Dangling = Dangling
INVARIANTS TypeOK PoolPartition LevelsWellFormed LevelAccounting MapSound RestingInMap BestFresh
PROPERTIES ImplementsPriceTime
SYMMETRY IdSymmetry
CHECK_DEADLOCK FALSE
