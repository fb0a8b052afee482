---------------------------- MODULE MCLogManager -----------------------------
(* LogManager on small instances. *)
EXTENDS LogManager, TLC

\* The console shows everything the instance logs, the file only errors.
MCThreshold == [s \in Sinks |-> IF s = "console" THEN 1 ELSE 2]

MCSymmetry == Permutations(Producers)
==============================================================================
