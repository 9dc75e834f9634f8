----------------------------- MODULE AtomicFile ------------------------------
(***************************************************************************)
(* What safeWriteFile promises its callers: a writer replaces the whole    *)
(* file in one step or leaves it alone, and knows which.  A crash of the   *)
(* machine may bring back an earlier version, never a mixture.             *)
(***************************************************************************)
CONSTANTS Writer, Output, OutputOf, Present

VARIABLES version, result

vars == <<version, result>>

(* A version is named after its writer; "old" was there at the start.      *)
Oldest(o) == IF o \in Present THEN "old" ELSE "none"

Init ==
  /\ version = [o \in Output |-> Oldest(o)]
  /\ result = [w \in Writer |-> "busy"]

Replace(w) ==
  /\ result[w] = "busy"
  /\ version' = [version EXCEPT ![OutputOf[w]] = w]
  /\ result' = [result EXCEPT ![w] = "done"]

GiveUp(w) ==
  /\ result[w] = "busy"
  /\ result' = [result EXCEPT ![w] = "failed"]
  /\ UNCHANGED version

Die(w) ==
  /\ result[w] = "busy"
  /\ result' = [result EXCEPT ![w] = "killed"]
  /\ UNCHANGED version

Versions(o) == {Oldest(o)} \cup {w \in Writer : OutputOf[w] = o /\ result[w] = "done"}

Crash ==
  /\ version' \in [Output -> UNION {Versions(o) : o \in Output}]
  /\ \A o \in Output : version'[o] \in Versions(o)
  /\ result' = [w \in Writer |-> IF result[w] = "busy" THEN "killed" ELSE result[w]]

Next == Crash \/ \E w \in Writer : Replace(w) \/ GiveUp(w) \/ Die(w)

Spec == Init /\ [][Next]_vars
=============================================================================
