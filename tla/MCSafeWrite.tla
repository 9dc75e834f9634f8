---------------------------- MODULE MCSafeWrite -----------------------------
(***************************************************************************)
(* Two processes write one output, in files of three chunks; a third clock *)
(* reading leaves a choice.  The output exists already.                    *)
(***************************************************************************)
EXTENDS SafeWrite

MCWriter == {"v", "w"}
MCOutput == {"exe"}
MCOutputOf == [p \in MCWriter |-> "exe"]
=============================================================================
