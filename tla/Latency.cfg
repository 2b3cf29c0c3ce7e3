\* p50 alone, and three percentiles in one walk, while samples come in.
SPECIFICATION Spec
CONSTANTS
    Buckets = 4
    Reports = {{500}, {500, 900, 999}}
    MaxSamples = 5
INVARIANTS EveryTargetMet 
CHECK_DEADLOCK FALSE
