\* One attempt per file at a time; no empty or partial extraction is left
\* in the cache directory, across failures, kills and restarts.
CONSTANTS
    None = None
    FileIDs <- MCFileIDs
    Callers <- MCOneCaller
    Cap = 2
    MaxCalls = 3
    MaxCrashes = 1
SPECIFICATION Spec
INVARIANT TypeOK
INVARIANT SingleAttemptPerFile
INVARIANT CacheHoldsOnlyCompleteExtractions
