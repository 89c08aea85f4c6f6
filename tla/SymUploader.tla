----------------------------- MODULE SymUploader -----------------------------
(***************************************************************************)
(* ParcaSymbolUploader (src/unnamed/part_000, package symuploader).        *)
(* ExecutableMetadata calls Upload(fileID, path, buildID) on a caller      *)
(* thread; Upload checks the retry and singleflight caches, marks the file *)
(* in flight and spawns a goroutine running attemptUpload: authorize,      *)
(* materialise the payload (the original binary when keepTextSection, or   *)
(* a debug-only extraction cached in the cache directory), initiate, PUT   *)
(* to the signed URL, mark finished, remove the uploaded file; the         *)
(* deferred singleflight.Add(fileID, false) runs on every exit path.       *)
(*                                                                         *)
(* Remote answers and filesystem errors are nondeterministic.  The agent   *)
(* process can be killed (and the uploader panics on one error path);      *)
(* files on disk survive, the caches and goroutines do not, and            *)
(* NewParcaSymbolUploader empties the cache directory on the next start.   *)
(* The retry cache stores only false; its entries are "durable" (Add) or   *)
(* "timed" (AddWithLifetime 5 min), and a timed entry may expire at any    *)
(* moment.                                                                 *)
(***************************************************************************)
EXTENDS Naturals, Sequences, FiniteSets, LRU

CONSTANTS
    FileIDs,     \* executables (file IDs); each has one path and build ID
    Callers,     \* threads calling ExecutableMetadata -> Upload
    Cap,         \* cacheSize of the retry and singleflight caches
    MaxCalls,    \* bound on Upload calls
    MaxCrashes   \* bound on agent kills and panics

VARIABLES
    keep,        \* keepTextSection (config.NoExtractDebuginfo), fixed
    retry,       \* LRU FileID -> "durable" | "timed"
    sf,          \* LRU FileID -> BOOLEAN (singleflight)
    orig,        \* the executable at path: "present" | "empty" | "gone"
    cache,       \* <tmp>/<fileID>: "absent" | "empty" | "full"
    calls,       \* Upload calls made
    upc,         \* caller program counter within Upload
    ufile,       \* file ID of the caller's current Upload
    att,         \* attempt goroutines: [file, pc, src]
    uploads,     \* payloads PUT to a signed URL: [file, src]
    down,        \* the agent process is not running
    crashes,     \* kills and panics so far
    suppressed,  \* history: Upload returned "already uploading" for a
                 \* file with no attempt in flight
    deleted      \* history: originals the uploader removed

vars == <<keep, retry, sf, orig, cache, calls, upc, ufile, att, uploads,
          down, crashes, suppressed, deleted>>

AttemptPCs == {"authorize", "open_original_keep", "stat_cache", "create",
               "open_original", "extract", "initiate", "put", "finish",
               "remove_file", "release", "ended"}
Sources == {"binary", "debug"}   \* original file or extracted debug info

\* Attempts of file f that have not returned yet.
Running(f) == {a \in DOMAIN att : att[a].file = f /\ att[a].pc # "ended"}

\* Set attempt a's pc (and nothing else of att).
Goto(a, pc) == att' = [att EXCEPT ![a].pc = pc]

\* u.retry.Add(fileID, false) / AddWithLifetime(fileID, false, 5*time.Minute)
RetryAdd(f, kind) == retry' = LRUAdd(retry, f, kind, Cap)

Live == ~down

-----------------------------------------------------------------------------
(* Upload, lines 84-108, on a caller thread.                               *)

\* buildID == "" returns; otherwise retry.Get: an entry (always false)
\* returns.  A timed entry that has expired is gone (see Expire).
UploadCheckRetry(c, f, hasBuildID) ==
    /\ Live /\ upc[c] = "idle" /\ calls < MaxCalls
    /\ calls' = calls + 1
    /\ ufile' = [ufile EXCEPT ![c] = f]
    /\ IF hasBuildID
       THEN /\ retry' = LRUGet(retry, f)
            /\ upc' = [upc EXCEPT ![c] = IF LRUPeek(retry, f) = None
                                         THEN "sf_get" ELSE "idle"]
       ELSE UNCHANGED <<retry, upc>>
    /\ UNCHANGED <<keep, sf, orig, cache, att, uploads, down, crashes,
                   suppressed, deleted>>

\* singleflight, ok := u.singleflight.Get(fileID); if ok || singleflight
\* return.
UploadCheckSingleflight(c) ==
    LET f == ufile[c]
    IN /\ Live /\ upc[c] = "sf_get"
       /\ sf' = LRUGet(sf, f)
       /\ upc' = [upc EXCEPT ![c] = IF LRUPeek(sf, f) = None THEN "sf_add"
                                    ELSE "idle"]
       /\ suppressed' = (suppressed \/
                         (LRUPeek(sf, f) # None /\ Running(f) = {}))
       /\ UNCHANGED <<keep, retry, orig, cache, calls, ufile, att, uploads,
                      down, crashes, deleted>>

\* Mutant: the in-flight marker is not written before the goroutine starts.
UploadMarkInFlightNoMarker(c) ==
    LET f == ufile[c]
    IN /\ Live /\ upc[c] = "sf_add"
       /\ att' = Append(att, [file |-> f, pc |-> "authorize", src |-> None])
       /\ upc' = [upc EXCEPT ![c] = "idle"]
       /\ UNCHANGED <<keep, retry, sf, orig, cache, calls, ufile, uploads,
                      down, crashes, suppressed, deleted>>

\* u.singleflight.Add(fileID, true); go func() { ... attemptUpload ... }()
UploadMarkInFlight(c) ==
    LET f == ufile[c]
    IN /\ Live /\ upc[c] = "sf_add"
       /\ sf' = LRUAdd(sf, f, TRUE, Cap)
       /\ att' = Append(att, [file |-> f, pc |-> "authorize", src |-> None])
       /\ upc' = [upc EXCEPT ![c] = "idle"]
       /\ UNCHANGED <<keep, retry, orig, cache, calls, ufile, uploads, down,
                      crashes, suppressed, deleted>>

-----------------------------------------------------------------------------
(* attemptUpload, lines 110-270, on the attempt's goroutine.  A step is    *)
(* enabled for an attempt at that pc of a live process.                    *)

Step(a, pc) == Live /\ a \in DOMAIN att /\ att[a].pc = pc

\* ShouldInitiateUpload: an error returns; a refusal records a retry state,
\* timed when the reason is ReasonUploadInProgress.
Authorize(a) ==
    LET f == att[a].file
    IN /\ Step(a, "authorize")
       /\ \/ Goto(a, "release") /\ UNCHANGED retry
          \/ RetryAdd(f, "timed") /\ Goto(a, "release")
          \/ RetryAdd(f, "durable") /\ Goto(a, "release")
          \/ Goto(a, IF keep THEN "open_original_keep" ELSE "stat_cache")
             /\ UNCHANGED retry
       /\ UNCHANGED <<keep, sf, orig, cache, calls, upc, ufile, uploads, down,
                      crashes, suppressed, deleted>>

\* keepTextSection: os.Open(path) and Stat.  A missing file returns nil, an
\* empty one is never to be uploaded, an open or stat error returns it.
OpenOriginalKeep(a) ==
    LET f == att[a].file
    IN /\ Step(a, "open_original_keep")
       /\ \/ orig[f] = "gone" /\ Goto(a, "release") /\ UNCHANGED retry
          \/ orig[f] # "gone" /\ Goto(a, "release") /\ UNCHANGED retry
          \/ orig[f] = "empty" /\ RetryAdd(f, "durable") /\ Goto(a, "release")
          \/ /\ orig[f] = "present" /\ UNCHANGED retry
             /\ att' = [att EXCEPT ![a].pc = "initiate", ![a].src = "binary"]
       /\ UNCHANGED <<keep, sf, orig, cache, calls, upc, ufile, uploads, down,
                      crashes, suppressed, deleted>>

\* Extraction mode: os.Stat(cachedFile).  An existing file is opened and
\* stat'ed: an empty one "should have never been left behind" and is
\* removed; a missing one is to be extracted; any other error returns.
StatCache(a) ==
    LET f == att[a].file
    IN /\ Step(a, "stat_cache")
       /\ \/ cache[f] = "absent" /\ Goto(a, "create") /\ UNCHANGED cache
          \/ Goto(a, "release") /\ UNCHANGED cache    \* stat/open error
          \/ /\ cache[f] = "empty" /\ Goto(a, "release")
             /\ cache' = [cache EXCEPT ![f] = "absent"]
          \/ /\ cache[f] = "full" /\ UNCHANGED cache
             /\ att' = [att EXCEPT ![a].pc = "initiate", ![a].src = "debug"]
       /\ UNCHANGED <<keep, retry, sf, orig, calls, upc, ufile, uploads, down,
                      crashes, suppressed, deleted>>

\* f, err = os.Create(...): on an error f is nil and os.Remove(f.Name())
\* dereferences it; the panic in the goroutine kills the agent.
Create(a) ==
    LET f == att[a].file
    IN /\ Step(a, "create")
       /\ \/ /\ Goto(a, "open_original")
             /\ cache' = [cache EXCEPT ![f] = "empty"]
             /\ UNCHANGED <<down, crashes>>
          \/ /\ crashes < MaxCrashes
             /\ down' = TRUE /\ crashes' = crashes + 1
             /\ UNCHANGED <<att, cache>>
       /\ UNCHANGED <<keep, retry, sf, orig, calls, upc, ufile, uploads,
                      suppressed, deleted>>

\* os.Open(path): the cache file is removed on a missing original (nil) and
\* on any other error (returned).
OpenOriginal(a) ==
    LET f == att[a].file
    IN /\ Step(a, "open_original")
       /\ \/ /\ Goto(a, "release")          \* missing, or another error
             /\ cache' = [cache EXCEPT ![f] = "absent"]
          \/ orig[f] # "gone" /\ Goto(a, "extract") /\ UNCHANGED cache
       /\ UNCHANGED <<keep, retry, sf, orig, calls, upc, ufile, uploads, down,
                      crashes, suppressed, deleted>>

\* Mutant: an empty extraction sets the retry state but leaves the file.
ExtractKeepsEmpty(a) ==
    LET f == att[a].file
    IN /\ Step(a, "extract")
       /\ \/ /\ Goto(a, "release") /\ UNCHANGED retry
             /\ cache' = [cache EXCEPT ![f] = "absent"]
          \/ Goto(a, "release") /\ RetryAdd(f, "timed") /\ UNCHANGED cache
          \/ /\ orig[f] # "empty"
             /\ att' = [att EXCEPT ![a].pc = "initiate", ![a].src = "debug"]
             /\ cache' = [cache EXCEPT ![f] = "full"] /\ UNCHANGED retry
       /\ UNCHANGED <<keep, sf, orig, calls, upc, ufile, uploads, down,
                      crashes, suppressed, deleted>>

\* elfwriter.OnlyKeepDebug, Seek and Stat: any error removes the cache
\* file; an empty result removes it and sets a timed retry state.
Extract(a) ==
    LET f == att[a].file
    IN /\ Step(a, "extract")
       /\ \/ /\ Goto(a, "release") /\ UNCHANGED retry
             /\ cache' = [cache EXCEPT ![f] = "absent"]
          \/ /\ Goto(a, "release") /\ RetryAdd(f, "timed")
             /\ cache' = [cache EXCEPT ![f] = "absent"]
          \/ /\ orig[f] # "empty"   \* the descriptor outlives an unlink
             /\ att' = [att EXCEPT ![a].pc = "initiate", ![a].src = "debug"]
             /\ cache' = [cache EXCEPT ![f] = "full"] /\ UNCHANGED retry
       /\ UNCHANGED <<keep, sf, orig, calls, upc, ufile, uploads, down,
                      crashes, suppressed, deleted>>

\* InitiateUpload: an error returns; no instructions, or a strategy other
\* than the signed URL, records a durable retry state.
Initiate(a) ==
    LET f == att[a].file
    IN /\ Step(a, "initiate")
       /\ \/ Goto(a, "release") /\ UNCHANGED retry
          \/ RetryAdd(f, "durable") /\ Goto(a, "release")
          \/ Goto(a, "put") /\ UNCHANGED retry
       /\ UNCHANGED <<keep, sf, orig, cache, calls, upc, ufile, uploads, down,
                      crashes, suppressed, deleted>>

\* uploadViaSignedURL: a request error or a non-2xx status returns it.
Put(a) ==
    /\ Step(a, "put")
    /\ \/ Goto(a, "release") /\ UNCHANGED uploads
       \/ /\ Goto(a, "finish")
          /\ uploads' =
                uploads \cup {[file |-> att[a].file, src |-> att[a].src]}
    /\ UNCHANGED <<keep, retry, sf, orig, cache, calls, upc, ufile, down,
                   crashes, suppressed, deleted>>

\* MarkUploadFinished: an error returns; success records a durable state.
Finish(a) ==
    /\ Step(a, "finish")
    /\ \/ Goto(a, "release") /\ UNCHANGED retry
       \/ RetryAdd(att[a].file, "durable") /\ Goto(a, "remove_file")
    /\ UNCHANGED <<keep, sf, orig, cache, calls, upc, ufile, uploads, down,
                   crashes, suppressed, deleted>>

\* os.Remove(f.Name()): f is the cache file, or in keepTextSection mode the
\* original executable opened at path.  A failure is only logged.
RemoveFile(a) ==
    LET f == att[a].file
    IN /\ Step(a, "remove_file")
       /\ Goto(a, "release")
       /\ \/ UNCHANGED <<orig, cache, deleted>>
          \/ /\ att[a].src = "binary" /\ orig[f] # "gone"
             /\ orig' = [orig EXCEPT ![f] = "gone"]
             /\ deleted' = deleted \cup {f}
             /\ UNCHANGED cache
          \/ /\ att[a].src = "debug"
             /\ cache' = [cache EXCEPT ![f] = "absent"]
             /\ UNCHANGED <<orig, deleted>>
       /\ UNCHANGED <<keep, retry, sf, calls, upc, ufile, uploads, down,
                      crashes, suppressed>>

\* The deferred u.singleflight.Add(fileID, false) of attemptUpload and of
\* the goroutine (the same write twice).
Release(a) ==
    /\ Step(a, "release")
    /\ sf' = LRUAdd(sf, att[a].file, FALSE, Cap)
    /\ Goto(a, "ended")
    /\ UNCHANGED <<keep, retry, orig, cache, calls, upc, ufile, uploads, down,
                   crashes, suppressed, deleted>>

-----------------------------------------------------------------------------
(* Environment.                                                            *)

\* A timed retry entry outlives its 5 minute lifetime.
Expire(f) ==
    /\ LRUPeek(retry, f) = "timed"
    /\ retry' = LRURemove(retry, f)
    /\ UNCHANGED <<keep, sf, orig, cache, calls, upc, ufile, att, uploads,
                   down, crashes, suppressed, deleted>>

\* The executable disappears from its path (the process is gone).
Vanish(f) ==
    /\ orig[f] # "gone"
    /\ orig' = [orig EXCEPT ![f] = "gone"]
    /\ UNCHANGED <<keep, retry, sf, cache, calls, upc, ufile, att, uploads,
                   down, crashes, suppressed, deleted>>

\* The agent is killed: goroutines and in-memory caches are lost, files in
\* the cache directory stay.
Crash ==
    /\ Live /\ crashes < MaxCrashes
    /\ down' = TRUE /\ crashes' = crashes + 1
    /\ UNCHANGED <<keep, retry, sf, orig, cache, calls, upc, ufile, att,
                   uploads, suppressed, deleted>>

\* The agent starts again: NewParcaSymbolUploader (lines 33-78) creates
\* empty retry and singleflight caches and removes every file of the cache
\* directory.
Restart ==
    /\ down
    /\ down' = FALSE
    /\ retry' = LRUEmpty(FileIDs)
    /\ sf' = LRUEmpty(FileIDs)
    /\ cache' = [f \in FileIDs |-> "absent"]
    /\ upc' = [c \in Callers |-> "idle"]
    /\ att' = [a \in DOMAIN att |-> [att[a] EXCEPT !.pc = "ended"]]
    /\ UNCHANGED <<keep, orig, calls, ufile, uploads, crashes,
                   suppressed, deleted>>

\* All Upload calls are made and returned, and no attempt is left.
Terminated ==
    /\ calls = MaxCalls /\ Live
    /\ \A c \in Callers : upc[c] = "idle"
    /\ \A a \in DOMAIN att : att[a].pc = "ended"
    /\ UNCHANGED vars

-----------------------------------------------------------------------------

Init ==
    /\ keep \in BOOLEAN
    /\ retry = LRUEmpty(FileIDs)
    /\ sf = LRUEmpty(FileIDs)
    /\ orig \in [FileIDs -> {"present", "empty"}]
    /\ cache = [f \in FileIDs |-> "absent"]
    /\ calls = 0
    /\ upc = [c \in Callers |-> "idle"]
    /\ ufile = [c \in Callers |-> CHOOSE f \in FileIDs : TRUE]
    /\ att = <<>>
    /\ uploads = {}
    /\ down = FALSE
    /\ crashes = 0
    /\ suppressed = FALSE
    /\ deleted = {}

\* One step of attempt a.
AttemptStep(a) ==
    \/ Authorize(a) \/ OpenOriginalKeep(a) \/ StatCache(a) \/ Create(a)
    \/ OpenOriginal(a) \/ Extract(a) \/ Initiate(a) \/ Put(a) \/ Finish(a)
    \/ RemoveFile(a) \/ Release(a)

Next ==
    \/ \E c \in Callers :
          \/ \E f \in FileIDs, b \in BOOLEAN : UploadCheckRetry(c, f, b)
          \/ UploadCheckSingleflight(c)
          \/ UploadMarkInFlight(c)
    \/ \E a \in 1..MaxCalls : AttemptStep(a)
    \/ \E f \in FileIDs : Expire(f) \/ Vanish(f)
    \/ Crash \/ Restart \/ Terminated

Spec == Init /\ [][Next]_vars

-----------------------------------------------------------------------------
(* Properties                                                              *)

\* Types, and the retry and singleflight caches within their capacity.
TypeOK ==
    /\ keep \in BOOLEAN
    /\ retry.val \in [FileIDs -> {"durable", "timed", None}]
    /\ sf.val \in [FileIDs -> BOOLEAN \cup {None}]
    /\ LRUConsistent(retry, Cap) /\ LRUConsistent(sf, Cap)
    /\ orig \in [FileIDs -> {"present", "empty", "gone"}]
    /\ cache \in [FileIDs -> {"absent", "empty", "full"}]
    /\ upc \in [Callers -> {"idle", "sf_get", "sf_add"}]
    /\ \A a \in DOMAIN att : att[a].pc \in AttemptPCs
    /\ uploads \subseteq [file : FileIDs, src : Sources]

\* The singleflight guard of Upload: at most one attempt per file ID is in
\* flight, across repeated Upload calls, failures, retries and restarts.
SingleAttemptPerFile == \A f \in FileIDs : Cardinality(Running(f)) <= 1

\* Every exit path of attemptUpload in extraction mode removes a cache file
\* it could not complete, so whenever no attempt for a file is running its
\* cache file is either absent or a complete extraction: a later attempt
\* never reuses an empty or half-written file.
CacheHoldsOnlyCompleteExtractions ==
    \A f \in FileIDs :
        Live /\ Running(f) = {} => cache[f] \in {"absent", "full"}

\* Spec section 4.4: Upload is a no-op "if an upload for this FileID is
\* already in flight"; the in-flight marker is cleared when the attempt
\* concludes.  So Upload never returns at the singleflight check while no
\* attempt for the file is running.
NoSpuriousSuppression == ~suppressed

\* The uploader removes only its own cached extractions (spec section 4.4:
\* "delete the locally cached extracted file"), never the traced
\* executable it read in keepTextSection mode.
OriginalNeverDeleted == deleted = {}

=============================================================================
