\* In keepTextSection mode a successful upload removes f.Name(), which is
\* the traced executable itself.
CONSTANTS
    None = None
    FileIDs <- MCFileIDs
    Callers <- MCOneCaller
    Cap = 2
    MaxCalls = 3
    MaxCrashes = 1
SPECIFICATION Spec
INVARIANT OriginalNeverDeleted
