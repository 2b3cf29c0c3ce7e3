\* Three messages of two parts, read in pieces of up to two messages, four datagrams,
\* one without a quote, lost, repeated and reordered at will, and a pool that runs dry.
SPECIFICATION Spec
CONSTANTS
    Parts = 2
    BufParts = 4
    MaxMessages = 3
    PoolSize = 3
    NoMessage = NoMessage
    Datagrams = {1, 2, 3, 4}
    Quotes = {1, 2, 4}
    MaxHandled = 4
    NoQuote = NoQuote
    Capacity = 2
INVARIANTS OrdersGenuine WholeReadsKept NoSilentLoss BboCurrent
CHECK_DEADLOCK FALSE
