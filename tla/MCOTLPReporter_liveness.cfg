\* The reporting loop, StartOTLP included, implements the export driver;
\* Stop shuts the loop and the connection down.
CONSTANTS
    None = None
    Hashes <- MCHashes
    Comms <- MCComms
    Collectors <- MCOneCollector
    Cap = 2
    MaxCalls = 3
SPECIFICATION Spec
PROPERTY ExportDriverRefined
PROPERTY StopShutsDown
