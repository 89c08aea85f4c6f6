--------------------------- MODULE MCOTLPReporter ---------------------------
(***************************************************************************)
(* OTLPReporter instantiated for TLC: two trace hashes, one comm label and *)
(* one collector thread (the agent's trace handler) running against the   *)
(* reporting goroutine.  Cap and MaxCalls are set per configuration.       *)
(***************************************************************************)
EXTENDS OTLPReporter

MCHashes == {"h1", "h2"}
MCComms == {"app"}
MCOneCollector == {"c1"}
MCTwoCollectors == {"c1", "c2"}

=============================================================================
