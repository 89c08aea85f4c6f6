----------------------------- MODULE SampleTimes -----------------------------
(***************************************************************************)
(* The start and end timestamps of a profile (reporter/otlp_reporter.go,   *)
(* getProfile, lines 571-580).  The loop over samplesCpy visits every      *)
(* timestamp of every drained sample once, in map order, updating the two  *)
(* named results startTS and endTS, both zero at entry; reportOTLPProfile  *)
(* turns them into StartTimeUnixNano and EndTimeUnixNano.                  *)
(*                                                                         *)
(* The map order of the samples is unspecified, so the input is any        *)
(* non-empty sequence of timestamps: the concatenation of the samples'     *)
(* timestamp lists in the order the loop happens to take them.  Every      *)
(* sample holds at least one timestamp, and a UnixTime32 taken from the    *)
(* clock is never 0.                                                       *)
(***************************************************************************)
EXTENDS Naturals, Sequences, SequencesExt, FiniteSetsExt

CONSTANTS
    Times,     \* timestamps (positive naturals)
    MaxLen     \* bound on the number of timestamps in one profile

ASSUME Times \subseteq Nat \ {0} /\ MaxLen \in Nat \ {0}

VARIABLES
    input,     \* every timestamp of the drained samples, in loop order
    todo,      \* the timestamps the loop has not visited yet
    startTS,
    endTS

vars == <<input, todo, startTS, endTS>>

Init ==
    /\ input \in BoundedSeq(Times, MaxLen) \ {<<>>}
    /\ todo = input
    /\ startTS = 0
    /\ endTS = 0

\* Mutant: the first timestamp is not taken when startTS is still 0.
VisitNoZeroCheck ==
    LET ts == Head(todo)
    IN  /\ todo # <<>>
        /\ todo' = Tail(todo)
        /\ IF ts < startTS
           THEN startTS' = ts /\ UNCHANGED endTS
           ELSE /\ endTS' = IF ts > endTS THEN ts ELSE endTS
                /\ UNCHANGED startTS
        /\ UNCHANGED input

\* One iteration of "for _, ts := range sampleInfo.timestamps": a new
\* minimum (or the first timestamp) sets startTS and continues, skipping
\* the maximum check; any other timestamp may raise endTS.
Visit ==
    LET ts == Head(todo)
    IN  /\ todo # <<>>
        /\ todo' = Tail(todo)
        /\ IF ts < startTS \/ startTS = 0
           THEN startTS' = ts /\ UNCHANGED endTS
           ELSE /\ endTS' = IF ts > endTS THEN ts ELSE endTS
                /\ UNCHANGED startTS
        /\ UNCHANGED input

\* getProfile has returned.
Returned == todo = <<>> /\ UNCHANGED vars

Next == Visit \/ Returned

Spec == Init /\ [][Next]_vars

-----------------------------------------------------------------------------
(* Properties                                                              *)

\* Spec section 4.2, step 4: the start timestamp is the running minimum over
\* all timestamps of the snapshot, whatever order the samples are visited.
StartIsEarliest == todo = <<>> => startTS = Min(ToSet(input))

\* Spec section 4.2, step 4: the end timestamp is the running maximum over
\* all timestamps of the snapshot.  The early "continue" after a new
\* minimum skips the maximum check, so a profile whose timestamps arrive in
\* decreasing order, or that has a single timestamp, keeps endTS at 0.
EndIsLatest == todo = <<>> => endTS = Max(ToSet(input))

=============================================================================
