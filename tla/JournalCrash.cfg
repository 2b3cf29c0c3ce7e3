\* Three processes on one file, crashes and failed writes at any point; blocks
\* of up to three records, payloads that replay refuses, and one that is
\* larger than a block.
SPECIFICATION Spec
CONSTANTS
    Lens = {1, 3, 6}
    BlockSize = 6
    MaxPayload = 2
    FileBlocks = 4
    MaxRecords = 4
    MaxSessions = 3
    DiskMayFail = TRUE
INVARIANTS TypeOK Durable ReplayOrdered
PROPERTIES WrittenOnce
CHECK_DEADLOCK FALSE
