\* Spec section 4.4: Upload is a no-op only while an upload for the file is
\* in flight; the false marker left by the deferred Add blocks it forever.
CONSTANTS
    None = None
    FileIDs <- MCFileIDs
    Callers <- MCOneCaller
    Cap = 2
    MaxCalls = 3
    MaxCrashes = 1
SPECIFICATION Spec
INVARIANT NoSpuriousSuppression
