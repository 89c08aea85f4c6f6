--------------------------- MODULE ProfileEncoder ---------------------------
(***************************************************************************)
(* The metadata side of the OTLP reporter (reporter/otlp_reporter.go) and  *)
(* the per-frame encoding of getProfile that reads it.                     *)
(*                                                                         *)
(* Collector threads call ReportFallbackSymbol, ExecutableMetadata and     *)
(* FrameMetadata, which write the fallbackSymbols, executables and frames  *)
(* caches.  The reporting goroutine walks the frames of the drained traces *)
(* (lines 581-738) and builds the string, function and mapping tables of   *)
(* the profile, reading the same caches.  Each cache call is one atomic    *)
(* step; the frames cache holds Go maps (FileID -> address -> sourceInfo)  *)
(* that FrameMetadata mutates in place, outside any lock, so a map write   *)
(* is a window of two steps: the runtime's "writing" flag is set between   *)
(* them, and a map access by another goroutine inside that window is a     *)
(* data race.                                                              *)
(*                                                                         *)
(* Strings and names are model values.  A table (stringMap, funcMap,       *)
(* fileIDtoMapping with profile.Mapping) is a sequence of its values in    *)
(* index order, so the Go index of a value is its position minus one and   *)
(* the 1-based reference the code writes is its position.                  *)
(***************************************************************************)
EXTENDS Naturals, Sequences, FiniteSets, SequencesExt, LRU

CONSTANTS
    Snapshot,    \* the drained samples in encoding order: a sequence of
                 \*   [hash, labels, frames], frames a sequence of
                 \*   [kind, file, addr], labels a LabelOrder name -> value
    Addrs,       \* addresses / line numbers of frames
    Collectors,  \* collector threads
    Symbols,     \* kernel fallback symbols
    FuncNames,   \* function names of interpreted frames
    SrcPaths,    \* non-empty source file paths of interpreted frames
    ExecPaths,   \* executable file names passed to ExecutableMetadata
    PathBase,    \* path.Base of each element of ExecPaths
    BuildIDs,    \* build ids passed to ExecutableMetadata
    BuildIDMode, \* r.otlpBuildIDMode: "linker", "hash" or anything else
    Cap,         \* capacity of each metadata cache
    MaxCalls,    \* bound on the collector calls of a behaviour
    HostKeys,    \* the host metadata keys (hostmetadata.json)
    HostVals,    \* host metadata values
    HostCap      \* capacity of the hostmetadata cache (115)

\* The labels getTraceLabels emits, in the order it emits them.
LabelOrder == <<"comm", "podName", "podNamespace", "containerName",
                "apmServiceName">>

\* The frames of all samples, in encoding order, and the number of frames
\* of the samples before sample k.
SampleFrames == [k \in DOMAIN Snapshot |-> Snapshot[k].frames]
Trace == FlattenSeq(SampleFrames)
FramesBefore(k) == Len(FlattenSeq(SubSeq(SampleFrames, 1, k - 1)))

Frames == {Trace[i] : i \in DOMAIN Trace}
Files == {t.file : t \in Frames}
KernelFrameIDs ==
    {<<t.file, t.addr>> : t \in {u \in Frames : u.kind = "kernel"}}
InterpFiles ==
    {t.file : t \in {u \in Frames : u.kind \notin {"native", "kernel", "abort"}}}
NativeFiles == {t.file : t \in {u \in Frames : u.kind = "native"}}

\* A sourceInfo (line number and offset abstracted away), and a map id.
SourceInfo == [fn : FuncNames, path : SrcPaths \cup {""}]

\* The non-empty maps a ReportHostMetadata call can carry.
HostMaps == UNION {[D -> HostVals] : D \in SUBSET HostKeys \ {{}}}
MapIds == 1..MaxCalls

VARIABLES
    fallback,     \* r.fallbackSymbols: FrameID -> symbol
    executables,  \* r.executables: FileID -> execInfo
    frames,       \* r.frames: FileID -> map id
    store,        \* the Go maps: map id -> address -> sourceInfo or None
    nmaps,        \* map ids allocated by make()
    writers,      \* map id -> collectors inside a write to that map
    raced,        \* a map was read while a write to it was in progress
    calls,        \* collector calls started
    cpc,          \* collector program counter
    carg,         \* the arguments of the collector's current call
    cmap,         \* the map id a collector's frames.Get returned
    ei,           \* next frame of Trace to encode
    sn,           \* the sample of Snapshot being encoded
    lidx,         \* locationIndex
    cur,          \* the sample being built: LocationsStartIndex,
                  \*   StacktraceIdIndex, and (history) len(Location) then
    samplesOut,   \* profile.Sample
    epc,          \* reporting goroutine: "frame", "read_addr" or "done"
    emap,         \* the map id the encoder's frames.Get returned
    strs,         \* stringMap, in index order
    funcs,        \* funcMap, in index order
    mappings,     \* profile.Mapping, in index order
    f2m,          \* fileIDtoMapping: FileID -> index or None
    locs,         \* profile.Location: [mapping, func] references, 0 = unset
    pathKept,     \* history: <<FileID, address>> whose entry in the cached
                  \*   map got a non-empty path (until the FileID's eviction)
    frameRaced,   \* history: a FrameMetadata write lost to another thread's
                  \*   (frames.Add over a map added meanwhile, or two
                  \*   writes to one map overlapping)
    hostmetadata, \* r.hostmetadata: host key -> value
    chost,        \* the part of its metadataMap a collector has yet to add
    rkeys,        \* getResource: the keys hostmetadata.Keys() returned
    rk,           \* getResource: the position of the loop in rkeys
    ri,           \* getResource: i, the next attribute to fill
    attrs         \* getResource: attributes, None for a nil *KeyValue

cacheVars == <<fallback, executables, frames, store, nmaps, writers, raced,
               pathKept, frameRaced>>
collVars == <<calls, cpc, carg, cmap>>
sampleVars == <<sn, lidx, cur, samplesOut>>
encVars == <<ei, epc, emap, strs, funcs, mappings, f2m, locs,
             sampleVars>>
hostVars == <<hostmetadata, chost, rkeys, rk, ri, attrs>>
vars == <<cacheVars, collVars, encVars, hostVars>>

NoArg == [file |-> None, addr |-> None, val |-> None]

Init ==
    /\ fallback = LRUEmpty(KernelFrameIDs)
    /\ executables = LRUEmpty(NativeFiles)
    /\ frames = LRUEmpty(InterpFiles)
    /\ store = [m \in MapIds |-> [a \in Addrs |-> None]]
    /\ nmaps = 0
    /\ writers = [m \in MapIds |-> {}]
    /\ raced = FALSE
    /\ calls = 0
    /\ cpc = [c \in Collectors |-> "idle"]
    /\ carg = [c \in Collectors |-> NoArg]
    /\ cmap = [c \in Collectors |-> None]
    /\ ei = 1
    /\ sn = 1
    /\ lidx = 0
    /\ cur = [start |-> 0, stack |-> 0, at |-> 0]
    /\ samplesOut = <<>>
    /\ epc = "sample"
    /\ emap = None
    /\ strs = <<"", "samples", "count", "cpu", "nanoseconds">>
    /\ funcs = <<>>
    /\ mappings = <<>>
    /\ f2m = [f \in Files |-> None]
    /\ locs = <<>>
    /\ pathKept = {}
    /\ frameRaced = FALSE
    /\ hostmetadata = LRUEmpty(HostKeys)
    /\ chost = [c \in Collectors |-> <<>>]
    /\ rkeys = <<>>
    /\ rk = 1
    /\ ri = 1
    /\ attrs = <<>>

-----------------------------------------------------------------------------
(* Collector threads                                                       *)

StartCall(c, arg, pc) ==
    /\ cpc[c] = "idle" /\ calls < MaxCalls
    /\ calls' = calls + 1
    /\ carg' = [carg EXCEPT ![c] = arg]
    /\ cpc' = [cpc EXCEPT ![c] = pc]

\* ReportFallbackSymbol: fallbackSymbols.Peek; return if present.
FallbackPeek(c, fid, sym) ==
    /\ StartCall(c, [file |-> fid[1], addr |-> fid[2], val |-> sym],
                 IF LRUPeek(fallback, fid) # None THEN "idle" ELSE "fb_add")
    /\ UNCHANGED <<cacheVars, cmap, encVars>>

\* ReportFallbackSymbol: fallbackSymbols.Add(frameID, symbol).
FallbackAdd(c) ==
    LET fid == <<carg[c].file, carg[c].addr>>
    IN  /\ cpc[c] = "fb_add"
        /\ fallback' = LRUAdd(fallback, fid, carg[c].val, Cap)
        /\ cpc' = [cpc EXCEPT ![c] = "idle"]
        /\ UNCHANGED <<executables, frames, store, nmaps, writers, raced,
                       pathKept, frameRaced, calls, carg, cmap, ei, epc,
                       emap, strs, funcs, mappings, f2m, locs, sampleVars>>

\* The base name ExecutableMetadata caches: path.Base, with "/" (a blob
\* without a file name) replaced by "<anonymous-blob>".
ExecBaseName(p) == IF PathBase[p] = "/" THEN "<anonymous-blob>" ELSE PathBase[p]

\* ExecutableMetadata: the Upload call is the symbol uploader's business
\* (SymUploader.tla) and writes none of this state; then executables.Add.
ExecutableMetadata(c, f, p, b) ==
    /\ cpc[c] = "idle" /\ calls < MaxCalls
    /\ calls' = calls + 1
    /\ executables' = LRUAdd(executables, f,
                             [fileName |-> ExecBaseName(p), buildID |-> b], Cap)
    /\ UNCHANGED <<fallback, frames, store, nmaps, writers, raced,
                   pathKept, frameRaced, cpc, carg, cmap, encVars>>

\* FrameMetadata: frames.Get(fileID).  A hit continues with the in-place
\* write into the cached map, a miss with make() and frames.Add.
FrameMetaGet(c, f, a, info) ==
    /\ StartCall(c, [file |-> f, addr |-> a, val |-> info],
                 IF LRUPeek(frames, f) # None THEN "fm_write" ELSE "fm_create")
    /\ cmap' = [cmap EXCEPT ![c] = LRUPeek(frames, f)]
    /\ frames' = LRUGet(frames, f)
    /\ UNCHANGED <<fallback, executables, store, nmaps, writers, raced,
                   pathKept, frameRaced, encVars>>

\* Mutant: the incoming filePath is written even when it is empty.
FrameMetaWriteBeginNoMerge(c) ==
    LET m == cmap[c]
    IN  /\ cpc[c] = "fm_write"
        /\ writers' = [writers EXCEPT ![m] = @ \cup {c}]
        /\ frameRaced' = (frameRaced \/ writers[m] # {})
        /\ cpc' = [cpc EXCEPT ![c] = "fm_write_end"]
        /\ UNCHANGED <<fallback, executables, frames, store, nmaps, raced,
                       pathKept, calls, carg, cmap, encVars>>

\* The write v[addressOrLine] = sourceInfo{...} begins: an empty filePath
\* is first replaced by the path of the existing entry, read from the map.
FrameMetaWriteBegin(c) ==
    LET m    == cmap[c]
        a    == carg[c].addr
        info == carg[c].val
        old  == store[m][a]
    IN  /\ cpc[c] = "fm_write"
        /\ writers' = [writers EXCEPT ![m] = @ \cup {c}]
        /\ frameRaced' = (frameRaced \/ writers[m] # {})
        /\ carg' = [carg EXCEPT ![c].val.path =
                      IF info.path = "" /\ old # None THEN old.path
                      ELSE info.path]
        /\ cpc' = [cpc EXCEPT ![c] = "fm_write_end"]
        /\ UNCHANGED <<fallback, executables, frames, store, nmaps, raced,
                       pathKept, calls, cmap, encVars>>

\* The entry a FrameMetadata call with arguments arg writes into map m,
\* when m is the one the frames cache c holds for the file and the path is
\* non-empty.
KeptBy(m, arg, c) ==
    IF LRUPeek(c, arg.file) = m /\ arg.val.path # ""
    THEN {<<arg.file, arg.addr>>} ELSE {}

\* The map write completes and FrameMetadata returns.
FrameMetaWriteEnd(c) ==
    LET m == cmap[c]
    IN  /\ cpc[c] = "fm_write_end"
        /\ store' = [store EXCEPT ![m][carg[c].addr] = carg[c].val]
        /\ writers' = [writers EXCEPT ![m] = @ \ {c}]
        /\ pathKept' = pathKept \cup KeptBy(m, carg[c], frames)
        /\ cpc' = [cpc EXCEPT ![c] = "idle"]
        /\ UNCHANGED <<fallback, executables, frames, nmaps, raced,
                       frameRaced, calls, carg, cmap, encVars>>

\* make() a map holding the one entry (not yet shared), then frames.Add,
\* which replaces whatever map another thread added in the meantime.
FrameMetaCreate(c) ==
    LET m == nmaps + 1
    IN  /\ cpc[c] = "fm_create"
        /\ nmaps' = m
        /\ store' = [store EXCEPT ![m][carg[c].addr] = carg[c].val]
        /\ frames' = LRUAdd(frames, carg[c].file, m, Cap)
        /\ frameRaced' = (frameRaced \/ LRUPeek(frames, carg[c].file) # None)
        /\ pathKept' =
              {p \in pathKept : p[1] # LRUVictim(frames, carg[c].file, Cap)}
              \cup KeptBy(m, carg[c], frames')
        /\ cpc' = [cpc EXCEPT ![c] = "idle"]
        /\ UNCHANGED <<fallback, executables, writers, raced,
                       calls, carg, cmap, encVars>>

-----------------------------------------------------------------------------
(* The table helpers of getProfile                                         *)

\* The 1-based reference the code writes for v (its index + 1): the
\* position of v in t, or the next free position.
InternRef(t, v) ==
    IF \E i \in DOMAIN t : t[i] = v THEN CHOOSE i \in DOMAIN t : t[i] = v
    ELSE Len(t) + 1

\* Mutant: the lookup of an existing entry is skipped.
InternNoLookup(t, v) == Append(t, v)

\* getStringMapIndex: the table with v added at index len(table) unless it
\* is already present.
Intern(t, v) == IF \E i \in DOMAIN t : t[i] = v THEN t ELSE Append(t, v)

\* createFunctionEntry(funcMap, name, fileName): the table after it and the
\* reference (index + 1) the caller stores.
CreateFunctionEntry(t, name, file) ==
    LET key == [name |-> name, file |-> file]
    IN  [table |-> Intern(t, key), ref |-> InternRef(t, key)]

\* Mutant: getDummyMappingIndex without its fileIDtoMapping lookup.
DummyMappingNoLookup(f, s) ==
    [f2m  |-> [f2m EXCEPT ![f] = Len(mappings)],
     maps |-> Append(mappings,
                         [file |-> f, name |-> "DUMMY", buildID |-> f]),
     strs |-> Intern(Intern(s, "DUMMY"), f)]

\* The mapping tables and string table s after getDummyMappingIndex(f):
\* a known FileID keeps its mapping, a new one gets a "DUMMY" mapping whose
\* build id is the FileID's hash.
DummyMapping(f, s) ==
    IF f2m[f] # None
    THEN [f2m |-> f2m, maps |-> mappings, strs |-> s]
    ELSE [f2m  |-> [f2m EXCEPT ![f] = Len(mappings)],
          maps |-> Append(mappings,
                         [file |-> f, name |-> "DUMMY", buildID |-> f]),
          strs |-> Intern(Intern(s, "DUMMY"), f)]

-----------------------------------------------------------------------------
(* The reporting goroutine: one iteration of the frame loop per step       *)

Frame == Trace[ei]

\* The first frame after the frames of the current sample.
InSample == FramesBefore(sn + 1) + 1

\* getTraceLabels(stringMap, trace): for each non-empty label in code
\* order, the key's and the value's string indices; the string table after
\* it and the labels.
TraceLabels(t, labels) ==
    LET step(acc, n) ==
          IF labels[n] = "" THEN acc
          ELSE LET t1 == Intern(acc.strs, n)
               IN  [strs   |-> Intern(t1, labels[n]),
                    labels |-> Append(acc.labels,
                                 [key |-> InternRef(acc.strs, n) - 1,
                                  str |-> InternRef(t1, labels[n]) - 1])]
    IN  FoldLeft(step, [strs |-> t, labels |-> <<>>], LabelOrder)

\* An iteration of "for traceHash, sampleInfo := range samplesCpy" starts:
\* LocationsStartIndex = locationIndex, StacktraceIdIndex is the string
\* index of the hash.  (The traces.Get and the timestamps are modelled in
\* OTLPReporter and SampleTimes.)
EncSampleStart ==
    LET h == Snapshot[sn].hash
    IN  /\ epc = "sample" /\ sn <= Len(Snapshot)
        /\ cur' = [start |-> lidx, stack |-> InternRef(strs, h) - 1,
                   at |-> Len(locs)]
        /\ strs' = Intern(strs, h)
        /\ epc' = "frame"
        /\ UNCHANGED <<cacheVars, collVars, ei, emap, funcs, mappings, f2m,
                       locs, sn, lidx, samplesOut>>

\* After the frame loop: Label = getTraceLabels, LocationsLength is the
\* number of frame types, locationIndex advances by it, and the sample is
\* appended to profile.Sample.
EncSampleEnd ==
    LET tl == TraceLabels(strs, Snapshot[sn].labels)
        n  == Len(Snapshot[sn].frames)
    IN  /\ epc = "frame" /\ ei = InSample
        /\ strs' = tl.strs
        /\ samplesOut' = Append(samplesOut,
                             [start |-> cur.start, len |-> n,
                              stack |-> cur.stack, labels |-> tl.labels,
                              at |-> cur.at, upto |-> Len(locs)])
        /\ lidx' = lidx + n
        /\ sn' = sn + 1
        /\ epc' = "sample"
        /\ UNCHANGED <<cacheVars, collVars, ei, emap, funcs, mappings, f2m,
                       locs, cur>>

\* Every iteration starts with TypeIndex: getStringMapIndex(frame type).
TypeStrs == Intern(strs, Frame.kind)

\* The location of the current frame is appended and the loop moves on.
EmitLoc(mapRef, funcRef) ==
    /\ locs' = Append(locs, [mapping |-> mapRef, func |-> funcRef])
    /\ ei' = ei + 1

\* A kernel or interpreted frame: a line with the function entry
\* (name, file) and a dummy mapping.
EmitDummy(name, file) ==
    LET dm == DummyMapping(Frame.file, TypeStrs)
        fn == CreateFunctionEntry(funcs, name, file)
    IN  /\ funcs' = fn.table
        /\ f2m' = dm.f2m
        /\ mappings' = dm.maps
        /\ strs' = dm.strs
        /\ EmitLoc(dm.f2m[Frame.file] + 1, fn.ref)

\* case libpf.NativeFrame: a FileID seen before reuses its mapping; a new
\* one gets a mapping with the executable's name (executables.Get, or
\* "UNKNOWN") and a build id chosen by otlpBuildIDMode: the cached build id
\* ("" for an unknown executable) for "linker", the FileID hash for
\* "hash", "UNKNOWN" otherwise.
EncNative ==
    LET f    == Frame.file
        e    == LRUPeek(executables, f)
        name == IF e # None THEN e.fileName ELSE "UNKNOWN"
        bid  == CASE BuildIDMode = "linker" ->
                       IF e # None THEN e.buildID ELSE ""
                  [] BuildIDMode = "hash"   -> f
                  [] OTHER                  -> "UNKNOWN"
    IN  /\ epc = "frame" /\ ei < InSample /\ Frame.kind = "native"
        /\ IF f2m[f] # None
           THEN /\ strs' = TypeStrs
                /\ UNCHANGED <<executables, f2m, mappings>>
                /\ EmitLoc(f2m[f] + 1, 0)
           ELSE /\ executables' = LRUGet(executables, f)
                /\ f2m' = [f2m EXCEPT ![f] = Len(mappings)]
                /\ mappings' =
                      Append(mappings,
                             [file |-> f, name |-> name, buildID |-> bid])
                /\ strs' = Intern(Intern(TypeStrs, name), bid)
                /\ EmitLoc(Len(mappings) + 1, 0)
        /\ UNCHANGED <<fallback, frames, store, nmaps, writers, raced,
                       pathKept, frameRaced, collVars, epc, emap, funcs,
                       sampleVars>>

\* case libpf.KernelFrame: frameIDtoFunction is never written, so its
\* lookup always misses; the symbol is fallbackSymbols.Get(frameID), or
\* "UNKNOWN", and the function entry is (symbol, "vmlinux").
EncKernel ==
    LET fid == <<Frame.file, Frame.addr>>
        sym == IF LRUPeek(fallback, fid) # None THEN LRUPeek(fallback, fid)
               ELSE "UNKNOWN"
    IN  /\ epc = "frame" /\ ei < InSample /\ Frame.kind = "kernel"
        /\ fallback' = LRUGet(fallback, fid)
        /\ EmitDummy(sym, "vmlinux")
        /\ UNCHANGED <<executables, frames, store, nmaps, writers, raced,
                       pathKept, frameRaced, collVars, epc, emap,
                       sampleVars>>

\* Mutant: an abort frame gets no location.
EncAbortNoLocation ==
    /\ epc = "frame" /\ ei < InSample /\ Frame.kind = "abort"
    /\ strs' = TypeStrs
    /\ ei' = ei + 1
    /\ UNCHANGED <<cacheVars, collVars, epc, emap, funcs, mappings, f2m,
                   locs, sampleVars>>

\* case libpf.AbortFrame: a location with no line and no mapping.
EncAbort ==
    /\ epc = "frame" /\ ei < InSample /\ Frame.kind = "abort"
    /\ strs' = TypeStrs
    /\ EmitLoc(0, 0)
    /\ UNCHANGED <<cacheVars, collVars, epc, emap, funcs, mappings, f2m,
                   sampleVars>>

\* default (interpreted frame): frames.Get(fileID).  Without an entry the
\* function is ("UNREPORTED", frame type); with one, the map is read next.
EncFramesGet ==
    LET f == Frame.file
        m == LRUPeek(frames, f)
    IN  /\ epc = "frame" /\ ei < InSample
        /\ Frame.kind \notin {"native", "kernel", "abort"}
        /\ frames' = LRUGet(frames, f)
        /\ IF m = None
           THEN /\ EmitDummy("UNREPORTED", Frame.kind)
                /\ UNCHANGED <<epc, emap>>
           ELSE /\ epc' = "read_addr" /\ emap' = m
                /\ UNCHANGED <<ei, strs, funcs, mappings, f2m, locs>>
        /\ UNCHANGED <<fallback, executables, store, nmaps, writers, raced,
                       pathKept, frameRaced, collVars, sampleVars>>

\* fileIDInfo[linenos[i]]: a read of the cached map, racing any write to
\* it that is in progress.  Without the address the function is
\* ("UNRESOLVED", frame type), with it (functionName, filePath).
EncReadAddr ==
    LET si == store[emap][Frame.addr]
    IN  /\ epc = "read_addr"
        /\ raced' = (raced \/ writers[emap] # {})
        /\ IF si = None THEN EmitDummy("UNRESOLVED", Frame.kind)
                        ELSE EmitDummy(si.fn, si.path)
        /\ epc' = "frame" /\ emap' = None
        /\ UNCHANGED <<fallback, executables, frames, store, nmaps, writers,
                       pathKept, frameRaced, collVars, sampleVars>>

\* After the loop: funcTable puts every function's name and file name into
\* the string table.  The code ranges over funcMap in random order, which
\* changes the string indices but not the set of strings; they are added
\* here in function-index order.
EncFinish ==
    /\ epc = "sample" /\ sn > Len(Snapshot)
    /\ strs' = FoldLeft(LAMBDA t, fn : Intern(Intern(t, fn.name), fn.file),
                        strs, funcs)
    /\ epc' = "res_keys"
    /\ UNCHANGED <<cacheVars, collVars, ei, emap, funcs, mappings, f2m, locs,
                   sampleVars>>

-----------------------------------------------------------------------------
(* Host metadata: ReportHostMetadata (and ReportHostMetadataBlocking) on a *)
(* collector thread, getResource in reportOTLPProfile after getProfile.    *)

\* ReportHostMetadata(metadataMap): addHostmetadata starts its loop.
ReportHostMetadata(c, md) ==
    /\ StartCall(c, NoArg, "host_add")
    /\ chost' = [chost EXCEPT ![c] = md]
    /\ UNCHANGED <<cacheVars, cmap, encVars, hostmetadata, rkeys, rk, ri,
                   attrs>>

\* One iteration of "for k, v := range metadataMap": hostmetadata.Add(k, v),
\* the keys taken in Go's random map order.
HostMetaAdd(c, k) ==
    LET rest == [k2 \in DOMAIN chost[c] \ {k} |-> chost[c][k2]]
    IN  /\ cpc[c] = "host_add" /\ k \in DOMAIN chost[c]
        /\ hostmetadata' = LRUAdd(hostmetadata, k, chost[c][k], HostCap)
        /\ chost' = [chost EXCEPT ![c] = rest]
        /\ cpc' = [cpc EXCEPT ![c] =
                      IF DOMAIN rest = {} THEN "idle" ELSE "host_add"]
        /\ UNCHANGED <<cacheVars, calls, carg, cmap, encVars, rkeys, rk, ri,
                       attrs>>

\* getResource: keys := hostmetadata.Keys(), and attributes is made with
\* len(keys)+1 nil entries.
ResourceKeys ==
    /\ epc = "res_keys"
    /\ rkeys' = hostmetadata.order
    /\ attrs' = [j \in 1..Len(hostmetadata.order) + 1 |-> None]
    /\ rk' = 1 /\ ri' = 1
    /\ epc' = "res_get"
    /\ UNCHANGED <<cacheVars, collVars, ei, emap, strs, funcs, mappings, f2m,
                   locs, sampleVars, hostmetadata, chost>>

\* Mutant: the attribute index is not advanced after a hit.
ResourceGetNoIncrement ==
    LET v == LRUPeek(hostmetadata, rkeys[rk])
    IN  /\ epc = "res_get" /\ rk <= Len(rkeys)
        /\ hostmetadata' = LRUGet(hostmetadata, rkeys[rk])
        /\ rk' = rk + 1
        /\ attrs' = IF v = None THEN attrs
                    ELSE [attrs EXCEPT ![ri] = [key |-> rkeys[rk], val |-> v]]
        /\ UNCHANGED <<cacheVars, collVars, encVars, chost, rkeys, ri>>

\* v, ok := hostmetadata.Get(k): a miss is skipped ("continue"), a hit
\* fills attributes[i] and advances i.
ResourceGet ==
    LET v == LRUPeek(hostmetadata, rkeys[rk])
    IN  /\ epc = "res_get" /\ rk <= Len(rkeys)
        /\ hostmetadata' = LRUGet(hostmetadata, rkeys[rk])
        /\ rk' = rk + 1
        /\ IF v = None THEN UNCHANGED <<attrs, ri>>
           ELSE /\ attrs' = [attrs EXCEPT ![ri] =
                               [key |-> rkeys[rk], val |-> v]]
                /\ ri' = ri + 1
        /\ UNCHANGED <<cacheVars, collVars, encVars, chost, rkeys>>

\* attributes[i] = the profile's name; the resource is complete.
ResourceName ==
    /\ epc = "res_get" /\ rk > Len(rkeys)
    /\ attrs' = [attrs EXCEPT ![ri] =
                   [key |-> "__name__", val |-> "otel_profiling_agent_on_cpu"]]
    /\ epc' = "done"
    /\ UNCHANGED <<cacheVars, collVars, ei, emap, strs, funcs, mappings, f2m,
                   locs, sampleVars, hostmetadata, chost, rkeys,
                   rk, ri>>

\* Every call made and the profile built.
Terminated ==
    /\ epc = "done" /\ calls = MaxCalls
    /\ \A c \in Collectors : cpc[c] = "idle"
    /\ UNCHANGED vars

MetadataStep(c) ==
    \/ \E fid \in KernelFrameIDs, sym \in Symbols : FallbackPeek(c, fid, sym)
    \/ FallbackAdd(c)
    \/ \E f \in NativeFiles, p \in ExecPaths, b \in BuildIDs :
          ExecutableMetadata(c, f, p, b)
    \/ \E f \in InterpFiles, a \in Addrs, info \in SourceInfo :
          FrameMetaGet(c, f, a, info)
    \/ FrameMetaWriteBegin(c)
    \/ FrameMetaWriteEnd(c)
    \/ FrameMetaCreate(c)

CollectorStep(c) ==
    \/ /\ MetadataStep(c)
       /\ UNCHANGED hostVars
    \/ \E md \in HostMaps : ReportHostMetadata(c, md)
    \/ \E k \in HostKeys : HostMetaAdd(c, k)

EncoderStep ==
    \/ /\ \/ EncSampleStart \/ EncSampleEnd
          \/ EncNative \/ EncKernel \/ EncAbort
          \/ EncFramesGet \/ EncReadAddr \/ EncFinish
       /\ UNCHANGED hostVars
    \/ ResourceKeys \/ ResourceGet \/ ResourceName

Next == (\E c \in Collectors : CollectorStep(c)) \/ EncoderStep \/ Terminated

Spec == Init /\ [][Next]_vars

-----------------------------------------------------------------------------
(* Properties                                                              *)

\* The caches stay within their capacity with a consistent recency list,
\* and every location refers to existing table entries.
TypeOK ==
    /\ LRUConsistent(fallback, Cap)
    /\ LRUConsistent(executables, Cap)
    /\ LRUConsistent(frames, Cap)
    /\ nmaps \in 0..MaxCalls
    /\ ei \in 1..Len(Trace) + 1
    /\ epc \in {"sample", "frame", "read_addr", "res_keys", "res_get",
                "done"}
    /\ LRUConsistent(hostmetadata, HostCap)
    /\ attrs \in Seq([key : HostKeys \cup {"__name__"}, val : HostVals \cup {"otel_profiling_agent_on_cpu"}]
                      \cup {None})
    /\ locs \in Seq([mapping : 0..Len(mappings), func : 0..Len(funcs)])


\* Spec section 8: the string and function tables of a profile are
\* injective (getStringMapIndex and createFunctionEntry never give one value
\* two indices) and the function table minimal (every entry is the line
\* of some location), across every frame of every trace of the snapshot.
TablesInjectiveAndMinimal ==
    /\ IsInjective(strs)
    /\ IsInjective(funcs)
    /\ strs[1] = ""
    /\ \A i \in DOMAIN funcs : \E j \in DOMAIN locs : locs[j].func = i

\* One mapping per FileID, shared by the native-frame mapping code and
\* getDummyMappingIndex through fileIDtoMapping, and every location but an
\* abort frame's refers to the mapping of its own file.
MappingPerFile ==
    /\ IsInjective([i \in DOMAIN mappings |-> mappings[i].file])
    /\ \A i \in DOMAIN locs :
          IF Trace[i].kind = "abort" THEN locs[i].mapping = 0
          ELSE /\ locs[i].mapping \in DOMAIN mappings
               /\ mappings[locs[i].mapping].file = Trace[i].file

\* Spec section 8: "RecordFrameMetadata never replaces a non-empty stored
\* file path with an empty incoming one".  Once the map the frames cache
\* holds for a FileID has a path for an address, that path stays, through
\* FrameMetadata calls with an empty filePath and getProfile's reads,
\* until the FileID is evicted; only a lost update (frames.Add over a map
\* another FrameMetadata added after this one's frames.Get missed, or two
\* in-place writes to one map overlapping) loses it.
FramePathKeptUnlessRaced ==
    ~frameRaced =>
        \A p \in pathKept :
            LET m == LRUPeek(frames, p[1])
            IN  m # None /\ store[m][p[2]] # None /\ store[m][p[2]].path # ""

\* Spec section 4.2: every sample of the profile refers to its own data.
\* LocationsStartIndex, taken from the running locationIndex, is the index
\* of the first Location the sample's frames appended and LocationsLength
\* (its number of frame types) their number, although locationIndex and
\* profile.Location are counted separately; StacktraceIdIndex and the
\* label indices name the sample's hash and its non-empty labels in the
\* string table, which keeps growing while later samples are encoded.
SampleRefsResolve ==
    \A k \in DOMAIN samplesOut :
        LET s == samplesOut[k]
            l == Snapshot[k].labels
        IN  /\ s.start = s.at /\ s.start + s.len = s.upto
            /\ strs[s.stack + 1] = Snapshot[k].hash
            /\ {<<strs[x.key + 1], strs[x.str + 1]>> : x \in Range(s.labels)}
                  = {<<n, l[n]>> : n \in {m \in DOMAIN l : l[m] # ""}}

\* Spec section 4.3: the resource of the exported profile is the host
\* attributes drawn from the hostmetadata cache plus the fixed name
\* attribute.  getResource sizes attributes by hostmetadata.Keys() and
\* skips a key whose Get misses, so the resource it returns has no nil
\* entry, ends with "__name__" and names every key Keys() listed, while
\* ReportHostMetadata calls add and overwrite keys concurrently, as long as
\* no key is evicted in between (the cache holds every key there is).
ResourceComplete ==
    epc = "done" =>
        /\ \A j \in DOMAIN attrs : attrs[j] # None
        /\ attrs[Len(attrs)].key = "__name__"
        /\ {attrs[j].key : j \in 1..Len(attrs) - 1} = ToSet(rkeys)

\* No Go map held by the frames cache is accessed while another goroutine
\* writes it: FrameMetadata's in-place write v[addressOrLine] = ... must
\* not overlap another FrameMetadata write or getProfile's read of
\* fileIDInfo[linenos[i]] (the runtime aborts with "concurrent map read
\* and map write").
NoDataRaces ==
    /\ ~raced
    /\ \A m \in MapIds : Cardinality(writers[m]) <= 1

====
