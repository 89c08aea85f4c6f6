\* Spec section 4.2 says samples without trace shape are put back; a count
\* that arrives before ReportFramesForTrace is encoded without frames.
CONSTANTS
    None = None
    Hashes <- MCHashes
    Comms <- MCComms
    Collectors <- MCOneCollector
    Cap = 2
    MaxCalls = 2
SPECIFICATION Spec
INVARIANT EncodedSamplesHaveFrames
