\* The engine's inbound ring as it is wired: more than one thread pushes
\* (engine.cpp:163, engine.cpp:236, feed_handler.hpp:85).
SPECIFICATION Spec
CONSTANTS
    Producers = {recv, feed}
    Spinners = {recv, feed}
    Items = {a, b}
    NoItem = NoItem
    Capacity = 2
    Laps = 2
INVARIANTS NoSlotRace
