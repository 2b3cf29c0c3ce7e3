\* One producer that spins and the consumer, as the design intends: two
\* slots, indices that wrap after three laps of the ring.
SPECIFICATION FairSpec
CONSTANTS
    Producers = {p1}
    Spinners = {p1}
    Items = {a, b, c}
    NoItem = NoItem
    Capacity = 2
    Laps = 3
INVARIANTS TypeOK NoSlotRace
PROPERTIES ImplementsQueue PushCompletes EverythingConsumed
