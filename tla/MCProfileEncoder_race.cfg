\* getProfile reads a frames map while FrameMetadata writes it in place.
CONSTANTS
    None = None
    Snapshot <- MCSnapshot
    Addrs <- MCAddrs
    Collectors <- MCOneCollector
    Symbols <- MCSymbols
    FuncNames <- MCFuncNames
    SrcPaths <- MCSrcPaths
    ExecPaths <- MCExecPaths
    PathBase <- MCPathBase
    BuildIDs <- MCBuildIDs
    BuildIDMode = "linker"
    Cap = 1
    MaxCalls = 3
    HostKeys <- MCHostKeys
    HostVals <- MCHostVals
    HostCap = 2
SPECIFICATION Spec
INVARIANT NoDataRaces
