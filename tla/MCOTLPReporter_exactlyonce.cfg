\* Spec section 8 claims exactly-once draining; a count report racing
\* getProfile is lost or duplicated.
CONSTANTS
    None = None
    Hashes <- MCHashes
    Comms <- MCComms
    Collectors <- MCOneCollector
    Cap = 2
    MaxCalls = 4
SPECIFICATION Spec
INVARIANT ExactlyOnce
