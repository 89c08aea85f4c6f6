\* The tables of one snapshot against concurrent metadata reports.
CONSTANTS
    None = None
    Snapshot <- MCSnapshot
    Addrs <- MCAddrs
    Collectors <- MCTwoCollectors
    Symbols <- MCSymbols
    FuncNames <- MCFuncNames
    SrcPaths <- MCSrcPaths
    ExecPaths <- MCExecPaths
    PathBase <- MCPathBase
    BuildIDs <- MCBuildIDs
    BuildIDMode = "linker"
    Cap = 1
    MaxCalls = 3
    HostKeys <- MCHostKeys
    HostVals <- MCHostVals
    HostCap = 2
SPECIFICATION Spec
INVARIANT TypeOK
INVARIANT TablesInjectiveAndMinimal
INVARIANT MappingPerFile
INVARIANT FramePathKeptUnlessRaced
INVARIANT ResourceComplete
INVARIANT SampleRefsResolve
