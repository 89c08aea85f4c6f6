---------------------------- MODULE OTLPReporter ----------------------------
(***************************************************************************)
(* The sample pipeline of reporter/otlp_reporter.go: collector threads     *)
(* call ReportFramesForTrace and ReportCountForTrace, which read-modify-   *)
(* write the traces and samples caches; the reporting goroutine started by *)
(* StartOTLP ticks, drains the samples cache in getProfile, puts back the  *)
(* samples whose trace information is missing, encodes the rest and hands  *)
(* the profile to Export; Stop closes stopSignal and the loop returns.     *)
(*                                                                         *)
(* Every SyncedLRU call is one step; the Go code between two calls is not  *)
(* atomic, so each handler is split at its cache calls (per-thread program *)
(* counters cpc and rpc).  A count report carries a unique id, which also  *)
(* serves as its timestamp; a sample is the sequence of the ids merged     *)
(* into it, its count being the length.  The frames of a trace are a       *)
(* function of its hash, so a trace entry records only whether its shape   *)
(* (files, linenos, frameTypes) was set, and which comm label it carries.  *)
(***************************************************************************)
EXTENDS Naturals, Sequences, FiniteSets, FiniteSetsExt, LRU

CONSTANTS
    Hashes,      \* trace hashes
    Comms,       \* non-empty comm label values
    Collectors,  \* threads that call the ingestion API
    Cap,         \* capacity of the traces and samples caches
    MaxCalls     \* bound on ingestion calls (each takes the next id)

ASSUME Cap \in Nat \ {0} /\ MaxCalls \in Nat

VARIABLES
    traces,      \* LRU cache TraceHash -> traceInfo
    samples,     \* LRU cache TraceHash -> sample
    calls,       \* ingestion calls started so far; the last id handed out
    cpc,         \* collector program counter
    chash,       \* hash of the collector's current call
    cid,         \* id (timestamp) of the collector's current count report
    ccomm,       \* comm label of the collector's current count report
    cpeekTrace,  \* what the collector's traces.Peek returned
    cpeekSample, \* what the collector's samples.Peek returned
    rpc,         \* reporting goroutine program counter
    pending,     \* keys still to visit in the current loop of getProfile
    rcur,        \* key between Get and Remove
    cpy,         \* samplesCpy
    missing,     \* samplesWoTraceinfo
    profile,     \* samples encoded into the profile being built
    exported,    \* how many times each report id was handed to Export
    stopped,     \* stopSignal closed
    ctxDone,     \* the reporting context ctx is cancelled
    conn,        \* the gRPC connection: "none", "open" or "closed"
    wpc,         \* shutdown watcher goroutine: "none", "wait" or "done"
    issued,      \* history: ids of count reports started
    lossCauses,  \* history: racy writes that happened (see Racy)
    shaped,      \* history: hashes whose traces entry got its frames and
                 \*   has not been evicted since
    traceRaced   \* history: a traces.Add based on a stale traces.Peek

vars == <<traces, samples, calls, cpc, chash, cid, ccomm, cpeekTrace,
          cpeekSample, rpc,
          pending, rcur, cpy, missing, profile, exported, stopped, ctxDone,
          conn, wpc,
          issued, lossCauses, shaped, traceRaced>>
collectorVars == <<cpc, chash, cid, ccomm, cpeekTrace, cpeekSample>>
reporterVars == <<rpc, pending, rcur, cpy, missing, profile>>
shutdownVars == <<conn, wpc>>
historyVars == <<issued, lossCauses, shaped, traceRaced>>
traceHistory == <<shaped, traceRaced>>

Ids == 1..MaxCalls

\* traceInfo: shape set by ReportFramesForTrace, comm by ReportCountForTrace.
TraceInfo == [shape : BOOLEAN, comm : Comms \cup {None}]
NoTraceInfo == [shape |-> FALSE, comm |-> None]   \* Go zero value

\* A sample of the encoded profile.
EncodedSample == [hash : Hashes, ids : Seq(Ids), shape : BOOLEAN,
                  comm : Comms \cup {None}]

\* Occurrences of report id r in a sample.
Occurrences(ids, r) == Len(SelectSeq(ids, LAMBDA x : x = r))

\* A lossy write to samples, recorded in the history: "kind" when the entry
\* the step overwrites or removes is not the one its thread read before,
\* "evicted" when an Add pushes another trace's sample out of the cache.
Racy(kind, seen, h) == IF seen = LRUPeek(samples, h) THEN {} ELSE {kind}
Evicts(h) == IF LRUVictim(samples, h, Cap) = None THEN {} ELSE {"evicted"}

\* samples.Add(h, v) by a step that read "seen" for h.
SamplesAdd(kind, seen, h, v) ==
    /\ samples' = LRUAdd(samples, h, v, Cap)
    /\ lossCauses' = lossCauses \cup Racy(kind, seen, h) \cup Evicts(h)

\* traces.Add(h, v) by a step whose traces.Peek returned "seen".
TracesAdd(seen, h, v) ==
    /\ traces' = LRUAdd(traces, h, v, Cap)
    /\ shaped' = (shaped \ {LRUVictim(traces, h, Cap)})
                 \cup (IF v.shape THEN {h} ELSE {})
    /\ traceRaced' = (traceRaced \/ seen # LRUPeek(traces, h))

-----------------------------------------------------------------------------
(* Collector side: ReportFramesForTrace, lines 137-155.                    *)

ReportFramesPeek(c, h) ==
    /\ cpc[c] = "idle" /\ calls < MaxCalls
    /\ calls' = calls + 1
    /\ cpc' = [cpc EXCEPT ![c] = "frames_add"]
    /\ chash' = [chash EXCEPT ![c] = h]
    /\ cpeekTrace' = [cpeekTrace EXCEPT ![c] = LRUPeek(traces, h)]
    /\ UNCHANGED <<traces, samples, cid, ccomm, cpeekSample, reporterVars,
                   exported, stopped, ctxDone, shutdownVars, historyVars>>

ReportFramesAdd(c) ==
    LET h == chash[c]
        v == IF cpeekTrace[c] = None THEN [NoTraceInfo EXCEPT !.shape = TRUE]
             ELSE [cpeekTrace[c] EXCEPT !.shape = TRUE]
    IN /\ cpc[c] = "frames_add"
       /\ TracesAdd(cpeekTrace[c], h, v)
       /\ cpc' = [cpc EXCEPT ![c] = "idle"]
       /\ UNCHANGED <<samples, calls, chash, cid, ccomm, cpeekTrace,
                      cpeekSample, reporterVars, exported, stopped, ctxDone,
                      shutdownVars,
                      issued, lossCauses>>

(* Collector side: ReportCountForTrace, lines 159-192.                     *)

ReportCountPeekTrace(c, h, comm) ==
    /\ cpc[c] = "idle" /\ calls < MaxCalls
    /\ calls' = calls + 1
    /\ cid' = [cid EXCEPT ![c] = calls + 1]
    /\ issued' = issued \cup {calls + 1}
    /\ cpc' = [cpc EXCEPT ![c] = "count_trace_add"]
    /\ chash' = [chash EXCEPT ![c] = h]
    /\ ccomm' = [ccomm EXCEPT ![c] = comm]
    /\ cpeekTrace' = [cpeekTrace EXCEPT ![c] = LRUPeek(traces, h)]
    /\ UNCHANGED <<traces, samples, cpeekSample, reporterVars, exported,
                   stopped, ctxDone, shutdownVars, lossCauses, traceHistory>>

\* Mutant: the labels are written into a fresh traceInfo even on a hit.
ReportCountAddTraceNoMerge(c) ==
    LET h == chash[c]
        v == [NoTraceInfo EXCEPT !.comm = ccomm[c]]
    IN /\ cpc[c] = "count_trace_add"
       /\ TracesAdd(cpeekTrace[c], h, v)
       /\ cpc' = [cpc EXCEPT ![c] = "count_sample_peek"]
       /\ UNCHANGED <<samples, calls, chash, cid, ccomm, cpeekTrace,
                      cpeekSample, reporterVars, exported, stopped, ctxDone,
                      shutdownVars,
                      issued, lossCauses>>

ReportCountAddTrace(c) ==
    LET h == chash[c]
        v == IF cpeekTrace[c] = None THEN [NoTraceInfo EXCEPT !.comm = ccomm[c]]
             ELSE [cpeekTrace[c] EXCEPT !.comm = ccomm[c]]
    IN /\ cpc[c] = "count_trace_add"
       /\ TracesAdd(cpeekTrace[c], h, v)
       /\ cpc' = [cpc EXCEPT ![c] = "count_sample_peek"]
       /\ UNCHANGED <<samples, calls, chash, cid, ccomm, cpeekTrace,
                      cpeekSample, reporterVars, exported, stopped, ctxDone,
                      shutdownVars,
                      issued, lossCauses>>

ReportCountPeekSample(c) ==
    /\ cpc[c] = "count_sample_peek"
    /\ cpeekSample' = [cpeekSample EXCEPT ![c] = LRUPeek(samples, chash[c])]
    /\ cpc' = [cpc EXCEPT ![c] = "count_sample_add"]
    /\ UNCHANGED <<traces, samples, calls, chash, cid, ccomm, cpeekTrace,
                   reporterVars, exported, stopped, ctxDone, shutdownVars,
                   historyVars>>

ReportCountAddSample(c) ==
    LET h == chash[c]
        v == IF cpeekSample[c] = None THEN <<cid[c]>>
             ELSE Append(cpeekSample[c], cid[c])
    IN /\ cpc[c] = "count_sample_add"
       /\ SamplesAdd("stale_peek", cpeekSample[c], h, v)
       /\ cpc' = [cpc EXCEPT ![c] = "idle"]
       /\ UNCHANGED <<traces, calls, chash, cid, ccomm, cpeekTrace,
                      cpeekSample, reporterVars, exported, stopped, ctxDone,
                      shutdownVars,
                      issued, traceHistory>>

-----------------------------------------------------------------------------
(* Reporting goroutine: the tick loop of StartOTLP (lines 370-386) and     *)
(* getProfile (lines 487-515 drain and put back, 557-740 encode).          *)

\* The ticker fires: getProfile starts with samples.Keys().
Tick ==
    /\ rpc = "wait"
    /\ rpc' = "drain_get"
    /\ pending' = LRUKeys(samples)
    /\ cpy' = [h \in Hashes |-> None]
    /\ UNCHANGED <<traces, samples, calls, collectorVars, rcur, missing,
                   profile, exported, stopped, ctxDone, shutdownVars,
                   historyVars>>

\* v, ok := r.samples.Get(k); a miss is skipped ("continue").
DrainGet(k) ==
    /\ rpc = "drain_get" /\ k \in pending
    /\ samples' = LRUGet(samples, k)
    /\ IF LRUPeek(samples, k) = None
       THEN /\ pending' = pending \ {k}
            /\ UNCHANGED <<rpc, rcur, cpy>>
       ELSE /\ cpy' = [cpy EXCEPT ![k] = LRUPeek(samples, k)]
            /\ rcur' = k
            /\ rpc' = "drain_remove"
            /\ UNCHANGED pending
    /\ UNCHANGED <<traces, calls, collectorVars, missing, profile, exported,
                   stopped, ctxDone, shutdownVars, historyVars>>

\* Mutant: the drain copies the entry but never removes it.
DrainRemoveSkipped ==
    /\ rpc = "drain_remove"
    /\ pending' = pending \ {rcur}
    /\ rpc' = "drain_get"
    /\ UNCHANGED <<traces, samples, calls, collectorVars, rcur, cpy, missing,
                   profile, exported, stopped, ctxDone, shutdownVars,
                   historyVars>>

\* r.samples.Remove(k): removes whatever the entry holds by now.
DrainRemove ==
    /\ rpc = "drain_remove"
    /\ samples' = LRURemove(samples, rcur)
    /\ lossCauses' = lossCauses \cup Racy("remove_unseen", cpy[rcur], rcur)
    /\ pending' = pending \ {rcur}
    /\ rpc' = "drain_get"
    /\ UNCHANGED <<traces, calls, collectorVars, rcur, cpy, missing, profile,
                   exported, stopped, ctxDone, shutdownVars, issued,
                   traceHistory>>

DrainDone ==
    /\ rpc = "drain_get" /\ pending = {}
    /\ rpc' = "check_trace"
    /\ pending' = {h \in Hashes : cpy[h] # None}
    /\ missing' = {}
    /\ UNCHANGED <<traces, samples, calls, collectorVars, rcur, cpy, profile,
                   exported, stopped, ctxDone, shutdownVars, historyVars>>

\* r.traces.Peek(trace): a drained sample without trace information.
CheckTrace(k) ==
    /\ rpc = "check_trace" /\ k \in pending
    /\ pending' = pending \ {k}
    /\ missing' = IF LRUPeek(traces, k) = None THEN missing \cup {k}
                  ELSE missing
    /\ UNCHANGED <<traces, samples, calls, collectorVars, rpc, rcur, cpy,
                   profile, exported, stopped, ctxDone, shutdownVars,
                   historyVars>>

CheckDone ==
    /\ rpc = "check_trace" /\ pending = {}
    /\ rpc' = "put_back"
    /\ UNCHANGED <<traces, samples, calls, collectorVars, pending, rcur, cpy,
                   missing, profile, exported, stopped, ctxDone,
                   shutdownVars, historyVars>>

\* r.samples.Add(trace, samplesCpy[trace]); delete(samplesCpy, trace).
\* The drain removed the key, so an entry found now is overwritten.
PutBack(k) ==
    /\ rpc = "put_back" /\ k \in missing
    /\ SamplesAdd("put_back_overwrite", None, k, cpy[k])
    /\ cpy' = [cpy EXCEPT ![k] = None]
    /\ missing' = missing \ {k}
    /\ UNCHANGED <<traces, calls, collectorVars, rpc, pending, rcur, profile,
                   exported, stopped, ctxDone, shutdownVars, issued,
                   traceHistory>>

PutBackDone ==
    /\ rpc = "put_back" /\ missing = {}
    /\ rpc' = "encode"
    /\ pending' = {h \in Hashes : cpy[h] # None}
    /\ profile' = {}
    /\ UNCHANGED <<traces, samples, calls, collectorVars, rcur, cpy, missing,
                   exported, stopped, ctxDone, shutdownVars, historyVars>>

\* trace, _ := r.traces.Get(traceHash): "earlier we peeked ... and know it
\* exists", but an eviction since then yields the zero traceInfo.
Encode(k) ==
    LET t == IF LRUPeek(traces, k) = None THEN NoTraceInfo
             ELSE LRUPeek(traces, k)
    IN /\ rpc = "encode" /\ k \in pending
       /\ traces' = LRUGet(traces, k)
       /\ profile' = profile \cup {[hash |-> k, ids |-> cpy[k],
                                    shape |-> t.shape, comm |-> t.comm]}
       /\ pending' = pending \ {k}
       /\ UNCHANGED <<samples, calls, collectorVars, rpc, rcur, cpy, missing,
                      exported, stopped, ctxDone, shutdownVars, historyVars>>

\* reportOTLPProfile: a profile without samples is not sent.
SkipEmpty ==
    /\ rpc = "encode" /\ pending = {} /\ profile = {}
    /\ rpc' = "wait"
    /\ cpy' = [h \in Hashes |-> None]
    /\ UNCHANGED <<traces, samples, calls, collectorVars, pending, rcur,
                   missing, profile, exported, stopped, ctxDone,
                   shutdownVars, historyVars>>

\* r.client.Export(ctx, &req); an error is only logged, so success and
\* failure leave the same state: the drained samples are gone either way.
Export ==
    /\ rpc = "encode" /\ pending = {} /\ profile # {}
    /\ exported' = [r \in Ids |->
         exported[r] + MapThenSumSet(LAMBDA s : Occurrences(s.ids, r), profile)]
    /\ rpc' = "wait"
    /\ profile' = {}
    /\ cpy' = [h \in Hashes |-> None]
    /\ UNCHANGED <<traces, samples, calls, collectorVars, pending, rcur,
                   missing, stopped, ctxDone, shutdownVars, historyVars>>

(* StartOTLP, lines 291-369: the caches are created (an error returns     *)
(* nil and the error), waitGrpcEndpoint blocks until the endpoint answers *)
(* or fails, and with UploadSymbols the symbol uploader is created on the *)
(* same connection.  The last two errors cancel ctx, close stopSignal and *)
(* return nil, leaving a connection made for the uploader open.  Success  *)
(* starts the reporting loop and the shutdown watcher and returns r.      *)
StartOTLP ==
    /\ rpc = "start"
    /\ \/ rpc' = "failed" /\ UNCHANGED <<stopped, ctxDone, shutdownVars>>
       \/ /\ rpc' = "failed" /\ stopped' = TRUE /\ ctxDone' = TRUE
          /\ UNCHANGED shutdownVars
       \/ /\ rpc' = "failed" /\ stopped' = TRUE /\ ctxDone' = TRUE
          /\ conn' = "open" /\ UNCHANGED wpc
       \/ /\ rpc' = "wait" /\ conn' = "open" /\ wpc' = "wait"
          /\ UNCHANGED <<stopped, ctxDone>>
    /\ UNCHANGED <<traces, samples, calls, collectorVars, pending, rcur, cpy,
                   missing, profile, exported, historyVars>>

\* StartOTLP returned a reporter, which the agent can call.
Started == rpc \notin {"start", "failed"}

\* Mutant: the watcher cancels ctx but does not close the connection.
WatcherShutdownNoClose ==
    /\ wpc = "wait" /\ stopped
    /\ wpc' = "done" /\ ctxDone' = TRUE
    /\ UNCHANGED <<traces, samples, calls, collectorVars, reporterVars,
                   exported, stopped, conn, historyVars>>

\* The shutdown watcher, lines 388-397: once stopSignal is closed it calls
\* cancelReporting() and otlpGrpcConn.Close().  One step: nothing in the
\* model tells the two apart.  Close fails only on a connection already
\* closed, which nothing else does, so its log.Fatalf is not reached.
WatcherShutdown ==
    /\ wpc = "wait" /\ stopped
    /\ wpc' = "done" /\ ctxDone' = TRUE /\ conn' = "closed"
    /\ UNCHANGED <<traces, samples, calls, collectorVars, reporterVars,
                   exported, stopped, historyVars>>

\* Stop(): close(r.stopSignal).  Callers call it at most once, on the
\* reporter StartOTLP returned.
Stop ==
    /\ Started /\ ~stopped
    /\ stopped' = TRUE
    /\ UNCHANGED <<traces, samples, calls, collectorVars, reporterVars,
                   exported, ctxDone, shutdownVars, historyVars>>

\* ctx is cancelled by the agent cancelling mainCtx, its parent (the
\* watcher's cancelReporting() is part of WatcherShutdown).
\* An Export in flight then fails, which leaves the same state.
Cancel ==
    /\ ~ctxDone
    /\ ctxDone' = TRUE
    /\ UNCHANGED <<traces, samples, calls, collectorVars, reporterVars,
                   exported, stopped, shutdownVars, historyVars>>

\* Mutant: the loop returns on the stop signal in the middle of a report.
ExitMidReport ==
    /\ rpc # "exited" /\ stopped
    /\ rpc' = "exited"
    /\ UNCHANGED <<traces, samples, calls, collectorVars, pending, rcur, cpy,
                   missing, profile, exported, stopped, ctxDone,
                   shutdownVars, historyVars>>

\* case <-ctx.Done() or case <-r.stopSignal: the loop returns.
Exit ==
    /\ rpc = "wait" /\ (stopped \/ ctxDone)
    /\ rpc' = "exited"
    /\ UNCHANGED <<traces, samples, calls, collectorVars, pending, rcur, cpy,
                   missing, profile, exported, stopped, ctxDone,
                   shutdownVars, historyVars>>

\* Nothing is left to do: the loop returned and the collectors are done.
Terminated ==
    /\ \/ rpc = "failed"
       \/ /\ rpc = "exited" /\ calls = MaxCalls
          /\ \A c \in Collectors : cpc[c] = "idle"
    /\ UNCHANGED vars

-----------------------------------------------------------------------------

Init ==
    /\ traces = LRUEmpty(Hashes)
    /\ samples = LRUEmpty(Hashes)
    /\ calls = 0
    /\ cpc = [c \in Collectors |-> "idle"]
    /\ chash = [c \in Collectors |-> CHOOSE h \in Hashes : TRUE]
    /\ cid = [c \in Collectors |-> 0]
    /\ ccomm = [c \in Collectors |-> None]
    /\ cpeekTrace = [c \in Collectors |-> None]
    /\ cpeekSample = [c \in Collectors |-> None]
    /\ rpc = "start"
    /\ pending = {}
    /\ rcur = CHOOSE h \in Hashes : TRUE
    /\ cpy = [h \in Hashes |-> None]
    /\ missing = {}
    /\ profile = {}
    /\ exported = [r \in Ids |-> 0]
    /\ stopped = FALSE
    /\ ctxDone = FALSE
    /\ conn = "none"
    /\ wpc = "none"
    /\ issued = {}
    /\ lossCauses = {}
    /\ shaped = {}
    /\ traceRaced = FALSE

\* A collector starts a call.
CollectorCall(c) ==
    Started /\ \E h \in Hashes :
        \/ ReportFramesPeek(c, h)
        \/ \E comm \in Comms : ReportCountPeekTrace(c, h, comm)

\* A collector continues the call it is in.
CollectorStep(c) ==
    \/ ReportFramesAdd(c)
    \/ ReportCountAddTrace(c)
    \/ ReportCountPeekSample(c)
    \/ ReportCountAddSample(c)

\* The reporting goroutine takes its next step of the loop.
ReporterStep ==
    \/ Tick
    \/ \E k \in Hashes : DrainGet(k) \/ CheckTrace(k) \/ PutBack(k) \/ Encode(k)
    \/ DrainRemove \/ DrainDone \/ CheckDone \/ PutBackDone
    \/ SkipEmpty \/ Export

Next ==
    \/ \E c \in Collectors : CollectorCall(c) \/ CollectorStep(c)
    \/ ReporterStep
    \/ StartOTLP
    \/ Stop
    \/ WatcherShutdown
    \/ Cancel
    \/ Exit
    \/ Terminated

(***************************************************************************)
(* Goroutines that can run are eventually scheduled: a collector finishes  *)
(* the call it is in and the reporting loop keeps going.  When both the    *)
(* ticker and stopSignal are ready, Go's select picks one at random, so    *)
(* the stop case cannot lose forever: strong fairness on Exit.  Nothing    *)
(* forces a collector to start a call or anyone to call Stop.              *)
(***************************************************************************)
Fairness ==
    /\ \A c \in Collectors : WF_vars(CollectorStep(c))
    /\ WF_vars(ReporterStep)
    /\ WF_vars(WatcherShutdown)
    /\ SF_vars(Exit)

Spec == Init /\ [][Next]_vars /\ Fairness

\* The export driver of spec section 4.3 under the refinement mapping: the
\* reporting goroutine is idle while it waits in select, ticking from the
\* tick case until reportOTLPProfile returns, stopped once the loop has
\* returned; the stop request is Stop's close or the cancellation of ctx,
\* and what was sent is what was handed to Export.
DriverState ==
    CASE rpc = "start"  -> "starting"
      [] rpc = "wait"   -> "idle"
      [] rpc \in {"exited", "failed"} -> "stopped"
      [] OTHER          -> "ticking"

Driver == INSTANCE ExportDriver
              WITH Reports <- Ids, state <- DriverState,
                   stopReq <- stopped \/ ctxDone, sent <- exported

-----------------------------------------------------------------------------
(* Properties                                                              *)

\* Types, and every cache within its capacity.
TypeOK ==
    /\ traces.val \in [Hashes -> TraceInfo \cup {None}]
    /\ samples.val \in [Hashes -> Seq(Ids) \cup {None}]
    /\ LRUConsistent(traces, Cap) /\ LRUConsistent(samples, Cap)
    /\ calls \in 0..MaxCalls
    /\ cpc \in [Collectors -> {"idle", "frames_add", "count_trace_add",
                               "count_sample_peek", "count_sample_add"}]
    /\ rpc \in {"start", "failed", "wait", "drain_get", "drain_remove", "check_trace",
                "put_back", "encode", "exited"}
    /\ pending \subseteq Hashes /\ missing \subseteq Hashes
    /\ cpy \in [Hashes -> Seq(Ids) \cup {None}]
    /\ profile \subseteq EncodedSample
    /\ exported \in [Ids -> Nat]
    /\ stopped \in BOOLEAN /\ ctxDone \in BOOLEAN
    /\ conn \in {"none", "open", "closed"} /\ wpc \in {"none", "wait", "done"}

\* The ids of a sample value, or none for an absent entry.
IdsOf(v) == IF v = None THEN <<>> ELSE v

\* Copies of report r held at this moment: by a collector that has not yet
\* added it, in the samples cache, in samplesCpy (a copy counts once its
\* Remove is done and until it is encoded), in the profile being built, and
\* handed to Export.
Held(r) ==
    LET encoded == {s.hash : s \in profile}
        owned(h) == /\ h \notin encoded
                    /\ ~(rpc = "drain_remove" /\ h = rcur)
    IN  Cardinality({c \in Collectors :
                        cid[c] = r /\ cpc[c] \in {"count_trace_add",
                            "count_sample_peek", "count_sample_add"}})
      + MapThenSumSet(LAMBDA h : Occurrences(IdsOf(samples.val[h]), r), Hashes)
      + MapThenSumSet(LAMBDA h : IF owned(h) THEN Occurrences(IdsOf(cpy[h]), r)
                                 ELSE 0, Hashes)
      + MapThenSumSet(LAMBDA s : Occurrences(s.ids, r), profile)
      + exported[r]

\* Spec section 8: "Draining is exactly-once-per-round": every count
\* reported by ReportCountForTrace is, at every moment, in exactly one place
\* on its way from the collector through samples and getProfile to Export.
ExactlyOnce == \A r \in issued : Held(r) = 1

\* The only way a count is lost or duplicated is a racy write: a collector's
\* samples.Add based on a stale Peek, getProfile's Remove of an entry that
\* changed after its Get, a put-back Add over a new entry, or an eviction.
\* The drain, the put-back of samples without trace information and the
\* export never lose or duplicate a count by themselves.
ExactlyOnceUnlessRaced == lossCauses = {} => ExactlyOnce

\* Spec section 4.2, step 2: a drained sample whose trace shape is missing
\* is put back and skipped this round, so every sample getProfile encodes
\* carries its trace's frames (ReportFramesForTrace's files, linenos and
\* frameTypes), never a label-only or zero traceInfo.
EncodedSamplesHaveFrames == \A s \in profile : s.shape

\* Spec section 5: "shape and count updates commute safely because each
\* touches disjoint subsets of fields".  ReportFramesForTrace and
\* ReportCountForTrace each merge their fields into the traceInfo they
\* peeked, so a trace whose frames were reported keeps them, whatever
\* labels arrive later, until traces evicts it; only a write-back of a
\* stale Peek (the two handlers interleaving on one hash) drops them.
TracesKeepShapeUnlessRaced ==
    ~traceRaced => \A h \in shaped : /\ LRUPeek(traces, h) # None
                                     /\ LRUPeek(traces, h).shape

\* Spec section 4.2: samples put back for want of trace information are
\* retried on later ticks.  So every count handed to ReportCountForTrace
\* eventually reaches Export, unless reporting was stopped (Stop, or ctx
\* cancelled) or the count was caught in a racy write; in particular the
\* put-back never keeps a sample back for ever.
EventuallyExported ==
    \A r \in Ids : r \in issued ~> (exported[r] > 0 \/ stopped \/ ctxDone
                                    \/ lossCauses # {})

\* The reporting loop implements the export driver of spec section 4.3:
\* counts reach Export only when a tick's report ends, the loop returns on
\* the stop signal only between ticks, and (under the Go scheduler and the
\* random choice of select) every tick ends and a stop is taken.
ExportDriverRefined == Driver!Spec

\* Spec section 4.3: "closing a shared signal channel causes the tick loop
\* and a parallel shutdown-watcher goroutine to exit and the outbound
\* channel to close".  Once Stop is called on a started reporter, the
\* reporting loop eventually returns (after the report it is in, and
\* however often the ticker competes with the stop case) and the gRPC
\* connection is eventually closed by the watcher.
StopShutsDown ==
    (stopped /\ rpc # "failed") ~> (rpc = "exited" /\ conn = "closed")

=============================================================================
