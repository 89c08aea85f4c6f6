---------------------------- MODULE ExportDriver ----------------------------
(***************************************************************************)
(* What the export driver of the OTLP reporter promises (spec section      *)
(* 4.3), with no cache, sample or goroutine in it: a loop with the states  *)
(* idle, ticking and stopped.  A tick takes a snapshot and hands it to one *)
(* export call (or skips it when empty) before the loop is idle again;     *)
(* the counts handed to export only ever grow, and only when a tick ends;  *)
(* Stop is one-way, and the loop reaches "stopped" only from idle after    *)
(* Stop, never in the middle of a tick.  Before the loop runs the driver  *)
(* is starting: setup either starts the loop or fails, and a failed       *)
(* driver never ticks.  OTLPReporter refines it.                          *)
(***************************************************************************)
EXTENDS Naturals

CONSTANT Reports   \* the count reports that can be exported

VARIABLES
    state,     \* "starting", "idle", "ticking" or "stopped"
    stopReq,   \* the stop signal has been closed
    sent       \* report -> number of times handed to an export call

vars == <<state, stopReq, sent>>

Init ==
    /\ state = "starting"
    /\ stopReq = FALSE
    /\ sent = [r \in Reports |-> 0]

\* Setup succeeds and the loop starts waiting for its first tick.
Start ==
    /\ state = "starting"
    /\ state' = "idle"
    /\ UNCHANGED <<stopReq, sent>>

\* Setup fails: the driver never runs; the failure may close the stop
\* signal on its way out.
FailStart ==
    /\ state = "starting"
    /\ state' = "stopped"
    /\ stopReq' \in {stopReq, TRUE}
    /\ UNCHANGED sent

\* The ticker fires (select may take it even after Stop).
Tick ==
    /\ state = "idle"
    /\ state' = "ticking"
    /\ UNCHANGED <<stopReq, sent>>

\* The tick ends: a snapshot is exported, or skipped when empty.  What was
\* sent stays sent.
Report ==
    /\ state = "ticking"
    /\ state' = "idle"
    /\ \A r \in Reports : sent'[r] >= sent[r]
    /\ DOMAIN sent' = Reports
    /\ UNCHANGED stopReq

Stop ==
    /\ ~stopReq
    /\ stopReq' = TRUE
    /\ UNCHANGED <<state, sent>>

\* The loop returns on the stop signal.
Exit ==
    /\ state = "idle" /\ stopReq
    /\ state' = "stopped"
    /\ UNCHANGED <<stopReq, sent>>

Next == Start \/ FailStart \/ Tick \/ Report \/ Stop \/ Exit

\* The end of a tick, whatever it sent.  The fairness condition below is
\* stated on it, and on state alone, since TLC cannot evaluate ENABLED
\* Report without a value for the next sent.
TickEnds == state = "ticking" /\ state' = "idle"

\* A tick in progress always ends; a loop that keeps being offered the
\* stop signal takes it.
Spec == Init /\ [][Next]_vars /\ WF_state(TickEnds) /\ SF_vars(Exit)

\* (No run checks this module alone: OTLPReporter's ExportDriverRefined
\* checks Spec under the refinement mapping.)

=============================================================================
