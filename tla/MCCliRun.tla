------------------------------ MODULE MCCliRun -------------------------------
(* CliRun on a small command. *)
EXTENDS CliRun, TLC

\* X(port, INT) X(verbose, BOOL)
MCOptionDefs == << [name |-> "port", type |-> "INT"],
                   [name |-> "verbose", type |-> "BOOL"] >>

\* X(host, 0, STRING) X(port, 1, INT)
MCArgDefs == << [name |-> "host", idx |-> 0, type |-> "STRING"],
                [name |-> "port", idx |-> 1, type |-> "INT"] >>

\* X(host, 1, STRING) X(port, 2, INT), the example of the documentation.
MCDocArgDefs == << [name |-> "host", idx |-> 1, type |-> "STRING"],
                   [name |-> "port", idx |-> 2, type |-> "INT"] >>

MCWords == {"1", "x"}

MCIntOf == "1" :> "1"
==============================================================================
