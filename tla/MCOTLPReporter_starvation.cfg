\* With traces smaller than the set of active traces, a sample whose trace
\* information was evicted is put back on every tick and never exported.
CONSTANTS
    None = None
    Hashes <- MCHashes
    Comms <- MCComms
    Collectors <- MCOneCollector
    Cap = 1
    MaxCalls = 3
SPECIFICATION Spec
PROPERTY EventuallyExported
