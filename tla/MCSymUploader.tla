---------------------------- MODULE MCSymUploader ----------------------------
(***************************************************************************)
(* SymUploader instantiated for TLC: two executables and one caller of     *)
(* ExecutableMetadata; keepTextSection is chosen in Init, so both modes    *)
(* are explored.                                                           *)
(***************************************************************************)
EXTENDS SymUploader

MCFileIDs == {"f1", "f2"}
MCOneCaller == {"t1"}

=============================================================================
