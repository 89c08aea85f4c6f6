\* Counts are neither lost nor duplicated, and frames never dropped from a
\* trace, except through a racy write; the drain terminates.
CONSTANTS
    None = None
    Hashes <- MCHashes
    Comms <- MCComms
    Collectors <- MCTwoCollectors
    Cap = 1
    MaxCalls = 3
SPECIFICATION Spec
INVARIANT TypeOK
INVARIANT ExactlyOnceUnlessRaced
INVARIANT TracesKeepShapeUnlessRaced
