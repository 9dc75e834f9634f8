------------------------------ MODULE MCNative -------------------------------
EXTENDS Native, TypedPrograms

MCPoison == -1000000

AllModules == Compiled(AllPrograms)

(* Equality of strings and of floating-point numbers has a run of its own. *)
MCModules == {m \in AllModules : ~ ComparesForEquality(m, FloatTypes \cup {"string"})}
MCEqualities == {m \in AllModules : ComparesForEquality(m, {"string"})}
=============================================================================
