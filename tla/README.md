# TLA+ models of the OTLP reporter and the Parca symbol uploader

This directory holds TLA+ models of the two Go source files of the
repository: `src/reporter/otlp_reporter.go` (the OTLP reporter: ingestion
caches, profile snapshot, export loop) and `src/unnamed/part_000` (package
`symuploader`: the debug-information upload manager). The models are
checked with TLC. `PROJECT.json` lists every component, run, mutant and
finding, maps each definition to the source lines it models, and lists the
hazards.

## 1. Inventory

### Components and their state

| Component | State in the code | Operations |
|---|---|---|
| Bounded LRU caches (go-freelru `SyncedLRU`) | key→value plus a recency order, fixed capacity, one mutex per cache | `Get`, `Peek`, `Add` (evicts the LRU key when full), `AddWithLifetime`, `Remove`, `Keys` |
| Sample ingestion (`ReportFramesForTrace`, `ReportCountForTrace`) | `traces` (hash→traceInfo: frames and labels), `samples` (hash→count and timestamps) | Peek, modify a copy, Add back |
| Other ingestion | `fallbackSymbols`, `executables`, `frames` (fileID→map addr→sourceInfo), `hostmetadata` | `ReportFallbackSymbol`, `ExecutableMetadata` (also triggers `Upload`), `FrameMetadata`, `ReportHostMetadata` |
| Profile snapshot (`getProfile`) | local `samplesCpy`, string/function/mapping tables, `startTS`/`endTS` | drain `samples` (Keys, Get, Remove per key), put back samples without trace information, encode each sample (traces.Get, frames, labels, timestamps) |
| Export driver (`StartOTLP`, its two goroutines, `reportOTLPProfile`, `Stop`) | `stopSignal`, `ctx`, ticker, gRPC connection | setup (caches, connection, uploader; an error returns nil); tick → getProfile → skip if empty → Export; Stop closes `stopSignal`, and the watcher cancels `ctx` and closes the connection |
| Symbol upload manager (`Upload`, `attemptUpload`) | `retry` and `singleflight` LRUs of `cacheSize`, `keepTextSection` | check retry, check and set the in-flight marker, spawn an attempt: authorize, open the original or extract debug info into the cache dir, initiate, PUT, mark finished, remove the file; the deferred `singleflight.Add(f, false)` |
| Upload cache directory | files `<cacheDir>/symuploader/<fileID>` | created and filled by an attempt, removed on failure or after upload, emptied by `NewParcaSymbolUploader` at start |

### How they interact

Collector threads call the ingestion API concurrently. The reporting
goroutine wakes on each tick and drains `samples`, reading `traces`,
`frames`, `fallbackSymbols` and `executables` while the collectors go on
writing. Each cache call is atomic, but no sequence of calls is.
`ExecutableMetadata` starts an upload goroutine per file through
`Upload`, and those goroutines share the retry and singleflight caches. The
agent can be killed at any moment. The upload cache directory survives
that, and the in-memory caches do not.

### Hard behaviours, and what makes each component correct

* **Ingestion and drain:**
  * Every count is exported exactly once (spec §8). Races between
    Peek/Add pairs and the drain's Get/Remove pair break this.
  * Frames and counts of one trace merge field by field (spec §3).
* **Put-back:** a sample without trace information is put back and exported
  once that information arrives (spec §4.2).
  * Only samples with frames are encoded.
  * Nothing is starved.
* **Timestamps:** the profile's start and end are the minimum and maximum of
  its timestamps (spec §4.2 step 4).
* **Metadata and tables:** a profile's string and function tables are
  injective (spec §8), and one mapping serves each file (spec §4.2). Each sample's location range and
  string indices resolve to its own data. FrameMetadata's Go maps are written
  in place while the reporting goroutine reads them, and an empty incoming
  file path must not replace a known one (spec §8).
* **Resource:** the exported resource is the host metadata plus a name
  attribute (spec §4.3), read key by key while `ReportHostMetadata` adds
  keys one at a time.
* **Export loop:** the loop is the idle/ticking/stopped machine of spec
  §4.3, entered only when `StartOTLP` succeeds. Stop, or the cancellation
  of its context, makes it return between ticks, and an empty profile is
  not sent. After Stop the loop returns and the watcher goroutine closes
  the connection.
* **Uploader:**
  * At most one attempt per file is in flight.
  * A file is retried after a failure or a cooldown.
  * The cache directory never holds an incomplete extraction that an attempt
    could reuse, across crashes and restarts.
  * The uploader never deletes the traced executable.
  * An upload error never takes the agent down.

## 2. Modules

In dependency order:

1. `LRU`: the SyncedLRU operations as atomic operators. Every other module
   uses it.
2. `OTLPReporter` (with `MCOTLPReporter`): the collector side of
   `ReportFramesForTrace` and `ReportCountForTrace`, and the reporting
   goroutine (tick, drain, check, put-back, encode, export, stop).
3. `ExportDriver`: the abstract export driver of spec §4.3.
   `OTLPReporter` refines it.
4. `ProfileEncoder` (with `MCProfileEncoder`): `ReportFallbackSymbol`,
   `ExecutableMetadata`, `FrameMetadata` and `ReportHostMetadata` against
   the per-frame loop of `getProfile`, its tables, and `getResource`.
5. `SampleTimes`: the start/end timestamp loop of `getProfile`, a pure
   algorithm checked against Min/Max.
6. `SymUploader` (with `MCSymUploader`): `Upload` and every exit path of
   `attemptUpload`, the crash and restart of the agent, and the cache
   directory.

## 3. Modules and their correspondence to the code

### `LRU.tla`

A cache is `[val : Key -> Value ∪ {None}, order : Seq(Key)]`, with
`order` running from least to most recently used.

* `LRUGet` and `LRUAdd` move the key to the end of `order`; `LRUPeek` and
  `LRUKeys` do not.
* `LRUAdd` of an absent key into a full cache first drops `Head(order)`.

Every operator is one atomic step of its caller, because the SyncedLRU
holds its mutex for the duration of each call. The library is not part of
the repository, so these operators are modelled from spec §3.

### `OTLPReporter.tla`

Each handler is split at its cache calls. The per-thread program
counters are `cpc[c]` (collector) and `rpc` (reporting goroutine).
Abstractions:

* A count report is a unique id, so a sample is the sequence of ids merged
  into it and its count is the length of that sequence.
* A trace's frames are abstracted to a `shape` flag.
* A trace's labels are abstracted to one `comm` value.

| Code | Action(s) |
|---|---|
| `ReportFramesForTrace` 137-155 | `ReportFramesPeek`, `ReportFramesAdd` |
| `ReportCountForTrace` 159-192 | `ReportCountPeekTrace`, `ReportCountAddTrace`, `ReportCountPeekSample`, `ReportCountAddSample` |
| tick case of the `StartOTLP` loop, `samples.Keys()` | `Tick` |
| drain loop 490-498 | `DrainGet`, `DrainRemove`, `DrainDone` |
| trace-information check 502-506 | `CheckTrace`, `CheckDone` |
| put-back 508-515 | `PutBack`, `PutBackDone` |
| the sample loop at 557 and its `traces.Get` at 562 (the rest of each sample is `ProfileEncoder`) | `Encode` |
| `reportOTLPProfile` 403-451 | `SkipEmpty`, `Export` (success and failure leave the same state) |
| `StartOTLP` 292-369: cache creation, `waitGrpcEndpoint`, `NewParcaSymbolUploader`, and their error returns | `StartOTLP` (four outcomes; collectors and `Stop` need the reporter it returns, `Started`) |
| `Stop`, the stop and `ctx.Done()` cases of the select | `Stop`, `Exit` |
| the shutdown watcher 388-397: `cancelReporting()` and `otlpGrpcConn.Close()` | `WatcherShutdown` (one step; `Close` fails only on a closed connection, so its `log.Fatalf` is not reached) |
| the agent cancelling `mainCtx`, the parent of `ctx` (342) | `Cancel` (an Export in flight then fails, which leaves the same state) |

`conn` is the gRPC connection (`none`, `open`, `closed`) and `wpc` the
watcher's pc. A `StartOTLP` that fails in `NewParcaSymbolUploader` leaves
`conn` open: nothing closes it (line 363).

History variables:

* `issued`: the ids started.
* `lossCauses`: the racy writes that happened. A stale-Peek Add, a Remove
  of an entry that changed after its Get, a put-back over a new entry, or
  an eviction.
* `shaped`: the hashes whose `traces` entry got its frames and has not been
  evicted since. `traceRaced`: a `traces.Add` wrote back a stale Peek.
  Both are updated by `TracesAdd`, the `traces.Add` of both handlers.

`Held(r)` counts the copies of report `r` in every place it can be.

**Refinement.** `Driver == INSTANCE ExportDriver WITH ...` maps:

* the reporting goroutine's pc to the driver state (`DriverState`):
  `start` is starting, `wait` is idle, `exited` and `failed` are stopped,
  and any other pc is ticking;
* `stopped \/ ctxDone` to the stop request;
* `exported` to what was sent.

`ExportDriverRefined == Driver!Spec` is checked as a temporal property,
fairness included.

### `ExportDriver.tla`

The three states of spec §4.3, and a `starting` state before them:
`Start` enters idle, and `FailStart` goes straight to stopped (the failure
may close the stop signal).

* `Tick` is enabled even after Stop, as Go's select allows.
* `Report` ends a tick and may only increase what was sent.
* `Stop` is one-way.
* `Exit` leaves idle only, after Stop.

Fairness: every tick ends (weak fairness on the state change), and a stop
signal offered infinitely often is taken (strong fairness).

### `ProfileEncoder.tla`

* **Caches:** the fallbackSymbols, executables and frames caches, and the
  Go maps the frames cache points to. The maps are in `store`, indexed by
  the map id that `make()` allocates.
* **Collectors:** each collector call is split at its cache calls and at
  the map write.

| Code | Action(s) |
|---|---|
| `ReportFallbackSymbol` 195-199 | `FallbackPeek`, `FallbackAdd` |
| `ExecutableMetadata` 203-220 (`path.Base`, `"<anonymous-blob>"`) | `ExecutableMetadata` with `ExecBaseName` |
| `FrameMetadata` 224-250 | `FrameMetaGet`; a hit goes on to `FrameMetaWriteBegin`, `FrameMetaWriteEnd`; a miss to `FrameMetaCreate` |
| sample loop 557-564, 734-739 (`LocationsStartIndex`, `StacktraceIdIndex`, `getTraceLabels` 806-861, `LocationsLength`) | `EncSampleStart`, `EncSampleEnd` with `TraceLabels` |
| frame loop 581-738 | `EncNative`, `EncKernel`, `EncAbort`, `EncFramesGet` then `EncReadAddr` (interpreted frames) |
| funcTable pass 742-759 | `EncFinish` |
| `ReportHostMetadata`, `ReportHostMetadataBlocking` 253-263, `addHostmetadata` 265-270 | `ReportHostMetadata`, then one `HostMetaAdd` per key in any order |
| `getResource` 455-484, called by `reportOTLPProfile` after `getProfile` | `ResourceKeys`, `ResourceGet` per key (a miss is skipped), `ResourceName` |
| `getStringMapIndex`, `createFunctionEntry`, `getDummyMappingIndex` | `Intern`/`InternRef`, `CreateFunctionEntry`, `DummyMapping` |

* **Map write window:** the write `v[addressOrLine] = ...` takes two steps,
  because the Go runtime marks a map as being written for the duration of
  the assignment. `writers` holds the goroutines inside that window, and
  `raced` records a read of a map inside it.
* **Tables:** each table is a sequence in index order, so the code's
  1-based reference of a value is its position.
* **Snapshot:** `Snapshot` is the drained samples in encoding order, each
  a hash, its labels and its frames; `Trace` is all their frames in one
  sequence. The tables are shared by all samples of one snapshot.
  `cur.at` and `samplesOut[k].at`/`upto` record how many Locations existed
  when a sample started and ended, to compare with `LocationsStartIndex`.
* **Abstracted away:** the string contents, line numbers, labels and
  sample values.
* **History:**
  * `pathKept` holds the (FileID, address) pairs whose entry in the map
    the frames cache holds got a non-empty path. A pair is dropped when the
    FileID is evicted.
  * `frameRaced` records a lost FrameMetadata update: a `frames.Add` over a
    map another call added after this call's `Get` missed, or two in-place
    writes to one map overlapping.
* **Resource:** `attrs` is `attributes`, with `None` for a nil entry, and
  `ri` is the code's `i`.

### `SampleTimes.tla`

The loop at lines 568-578 is one `Visit` action per timestamp. Map
iteration order is unspecified, so the input is any non-empty sequence of
up to `MaxLen` timestamps.

### `SymUploader.tla`

* **Callers:** `Upload` is `UploadCheckRetry`, `UploadCheckSingleflight`
  and `UploadMarkInFlight`, each one cache call.
* **Attempts:** each attempt is an element of `att` with its own pc.
  Authorize, OpenOriginalKeep, StatCache, Create, OpenOriginal, Extract,
  Initiate, Put, Finish and RemoveFile each take every outcome the code
  distinguishes. The remote answer or filesystem error is chosen
  nondeterministically.
* **`Release`:** the deferred `singleflight.Add(f, false)`.
* **Files:** `orig[f]` is the executable at its path (`present`, `empty`
  or `gone`, where `Vanish` models the process exiting). `cache[f]` is
  the extraction file (`absent`, `empty` or `full`).
* **Crashes:** `Crash` stops everything, and so does a `Create` failure,
  through the nil `f` it leaves. `Restart` is `NewParcaSymbolUploader`:
  fresh caches and an emptied directory.
* **Expiry:** `Expire` ends a 5-minute retry entry.

## 4. Runs

| Run | Checks | Bounds | Result |
|---|---|---|---|
| `otlp_conservation` | `TypeOK`, `ExactlyOnceUnlessRaced`, `TracesKeepShapeUnlessRaced` | 2 hashes, 2 collectors, capacity 1, 3 calls | passes, 1.99M states |
| `otlp_liveness` | `ExportDriverRefined`, `StopShutsDown` | 2 hashes, 1 collector, capacity 2, 3 calls | passes, 57k states |
| `otlp_exactlyonce` | `ExactlyOnce` | capacity 2, 4 calls | violated (drain race) |
| `otlp_frames` | `EncodedSamplesHaveFrames` | capacity 2, 2 calls | violated (count before frames) |
| `otlp_starvation` | `EventuallyExported` | capacity 1, 3 calls | violated (trace info evicted, sample put back for ever) |
| `encoder_tables` | `TypeOK`, `TablesInjectiveAndMinimal`, `MappingPerFile`, `SampleRefsResolve`, `FramePathKeptUnlessRaced`, `ResourceComplete` | 3 samples, 8 frames, 2 collectors, capacity 1, 3 calls, 2 host keys, host capacity 2 | passes, 934k states |
| `encoder_race` | `NoDataRaces` | 1 collector, same frames | violated (map read during FrameMetadata's write) |
| `uploader_safety` | `TypeOK`, `SingleAttemptPerFile`, `CacheHoldsOnlyCompleteExtractions` | 2 files, 1 caller, capacity 2, 3 calls, 1 crash | passes, 523k states |
| `uploader_singleflight` | `NoSpuriousSuppression` | same | violated (false marker blocks for ever) |
| `uploader_original` | `OriginalNeverDeleted` | same | violated (keepTextSection removes the executable) |
| `times_start` | `StartIsEarliest` | timestamps 1..3, up to 4 | passes |
| `times_end` | `EndIsLatest` | same | violated (endTS stays 0) |

Why these bounds are enough:

* **Capacity 1 for the reporter:** two hashes and a capacity of 1 make
  every eviction case happen, because an Add of a new trace evicts the
  other one.
* **Three calls with two collectors:** a count can race another count, a
  frames call and each drain step.
* **Capacity 2:** used where the question is not about eviction.
* **Encoder snapshot:** three samples: one with a comm label, one with two
  labels (the comm value shared, so the label strings are deduplicated
  across samples), and one with no frames and no labels. The eight frames
  cover every branch of the loop.
  * a kernel FrameID twice, with another kernel FrameID in between that
    evicts its symbol at capacity 1;
  * a script at two addresses, so both sentinels and a real entry occur;
  * a native executable twice, so both the new and the known mapping
    occur;
  * an abort frame.

  Three collector calls reach:
  * a fallback symbol arriving mid-encoding;
  * an executable reported with a path or as `/`;
  * a FrameMetadata that creates the map, then one that writes it in
    place, overlapping the encoder's read;
  * two FrameMetadata calls that both miss and both Add a map, which is
    the lost update `FramePathKeptUnlessRaced` excludes; TLC reaches it in
    five steps and it breaks the property when the guard is removed;
  * a `ReportHostMetadata` adding two keys, one at a time, around
    `getResource`.
* **Host metadata:** two keys and one value. `ResourceComplete` does not
  tell values apart, so a second value would only add states. The host
  capacity is the number of keys, as the capacity of 115 is the size of
  the key list in `hostmetadata.json`. With a capacity of 1, TLC finds a
  key evicted between `Keys` and `Get`, and a nil attribute.
* **Uploader:** three calls over two files reach repeated Uploads of one
  file around an attempt that is still running and one that has ended.
  * This holds in both modes (`keep` is chosen in `Init`).
  * One crash and a restart can happen at any point.
  * With a capacity of 1, TLC also finds the singleflight marker evicted
    by an Upload of the other file, and a second attempt started. That is
    listed as a hazard rather than a run, because spec §9 accepts a
    singleflight that is only at-most-one in practice.

Each property of a passing run has a mutant in `PROJECT.json` that TLC
catches:

* a cache Add that never evicts;
* a drain that skips its Remove;
* a loop that returns on the stop signal in the middle of a report;
* a shutdown watcher that cancels `ctx` but does not close the connection;
* a Remove that forgets the recency list;
* an in-flight marker that is never set;
* an empty extraction left on disk;
* a timestamp loop without its zero check;
* a `getStringMapIndex` and a `getDummyMappingIndex` without their
  lookups;
* a `ReportCountForTrace` that writes its labels into a fresh `traceInfo`
  even on a hit;
* a `FrameMetadata` that writes an empty path over a known one;
* a `getResource` that does not advance `i` after a hit;
* an abort frame that appends no Location.

## 5. Fairness

* **Goroutines:** the reporting goroutine and a collector in the middle of
  a call are weakly fair, since the Go scheduler runs runnable goroutines.
* **Shutdown watcher:** weakly fair, as a runnable goroutine.
* **`Exit`:** strongly fair. When the ticker and `stopSignal` are both
  ready, `select` chooses at random, so the stop case cannot lose for
  ever.
* **Not forced:** nothing makes `StartOTLP` return, a collector start a
  call, anyone call `Stop`, or the context be cancelled.
* **`ExportDriver`:** its fairness is implied by these.
  * A tick ends because the reporting goroutine's steps are weakly fair.
  * The exit is taken because `Exit` is strongly fair.
* **No liveness:** the encoder and the uploader have no liveness property
  and no fairness. For the uploader, the only way the in-flight marker
  could stay set is a remote call that never returns, since Go's `defer`
  clears it on every return; a fairness that made every call answer
  would assume exactly that case away.

## 6. Not modelled, and what is reached but not checked

* **Host metadata capacity:** the capacity of 115 is the size of the key
  list in `hostmetadata/hostmetadata.json`, which is outside `src/`. The
  model cannot tell whether more keys than that can be reported, so the
  run assumes the cache holds every key.
* **Data without state:** the sample values, `LocationIndices` (the
  identity) and the duration are not modelled.
* **Out of scope:** the dialing inside `waitGrpcEndpoint` is one
  success-or-failure step. The RPC statistics handler, `GetMetrics` and
  the no-op `ReportMetrics` only count bytes, and no control flow depends
  on those counts.
* **Count overflow:** the uint32 count of a sample is not modelled; it
  would take more than 2^16 reports of the largest uint16 count.
* **Double `Stop`:** the spec makes calling `Stop` at most once the
  caller's obligation, so `Stop` is enabled once.
* **Hung uploads:** an upload with no timeout is a step never taken, and
  nothing is claimed about it.
* **Failed removals in the uploader:** every extraction error path and the
  startup cleanup ignore the error of `os.Remove`. The model lets those
  removals succeed, and `CacheHoldsOnlyCompleteExtractions` holds under
  that assumption. A failed removal after a part-way `OnlyKeepDebug` would
  leave a partial file that a later attempt uploads as complete (hazard at
  line 207 of `part_000`).
* **In the models and reachable, but with no run of their own** (listed as
  hazards in `PROJECT.json`):
  * the stale `traceInfo` written back by `ReportCountForTrace` over a
    concurrent `ReportFramesForTrace` (line 171), excluded by
    `TracesKeepShapeUnlessRaced`;
  * the same lost update in `FrameMetadata` when two calls both miss and
    each Add a map, which replaces a known file path with an empty one
    (line 243, against spec §8), excluded by `FramePathKeptUnlessRaced`;
  * a resource mixing the values of two `ReportHostMetadata` calls, since
    keys are added one at a time (line 267); the spec promises no
    snapshot;
  * two `ReportFallbackSymbol` calls that both Peek a miss, where the
    second overwrites the first symbol (line 195, against spec §8);
  * two kernel frames of one FrameID given two function entries when a
    `ReportFallbackSymbol` lands between them during the encoding (line
    652, against spec §4.2): `frameIDtoFunction` is never written, so
    sharing rests on `funcMap`'s (symbol, file) key;
  * the connection a failed `StartOTLP` leaves open when the symbol
    uploader cannot be created (line 363); `StopShutsDown` is stated for
    a reporter that was returned;
  * the nil `f` dereference after a failed `os.Create` in the uploader
    (line 184 of `part_000`), which the model turns into a crash.
