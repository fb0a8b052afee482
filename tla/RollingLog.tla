----------------------------- MODULE RollingLog ------------------------------
(***************************************************************************)
(* What a log directory promises: one log that grows at its end and loses  *)
(* records at two places only.  The oldest records are given up to bound   *)
(* the space, and a crash takes the newest ones, no more of them than are  *)
(* buffered. Where MayDrop allows it some of the buffered ones are lost    *)
(* without a crash, but never one that has become persistent and never one *)
(* with a buffered one before it that stays buffered. Records are numbered *)
(* in the order they are written, so the set of those still held is the    *)
(* log. Nothing is said of files, numbers of files or streams:             *)
(* LogDirectory implements this.                                           *)
(***************************************************************************)
EXTENDS Naturals, FiniteSets

CONSTANTS
    Buffer,  \* how many of the newest records may not be persistent yet
    MayDrop  \* buffered records may be lost without a crash

VARIABLES log,       \* the records still held
          buffered,  \* those of them that are not persistent
          next       \* the next record

vars == <<log, buffered, next>>

Init ==
    /\ log = {}
    /\ buffered = {}
    /\ next = 1

Add ==
    /\ Cardinality(buffered) < Buffer
    /\ log' = log \cup {next}
    /\ buffered' = buffered \cup {next}
    /\ next' = next + 1

\* A record that cannot be taken is gone, those around it are not.
Refuse ==
    /\ next' = next + 1
    /\ UNCHANGED <<log, buffered>>

\* Records become persistent from the oldest on.
Persist ==
    /\ buffered' \subseteq buffered
    /\ \A r \in buffered \ buffered', b \in buffered' : r < b
    /\ UNCHANGED <<log, next>>

\* Some buffered records become persistent, those behind them are lost, and the
\* rest stays buffered.
Drop ==
    /\ MayDrop
    /\ buffered' \subseteq buffered
    /\ \A r \in buffered \ buffered', b \in buffered' : r < b
    /\ log' \subseteq log
    /\ log \ log' \subseteq buffered \ buffered'
    /\ \A r \in (buffered \ buffered') \cap log', d \in log \ log' : r < d
    /\ UNCHANGED next

\* Persistent records are given up from the oldest on.
Trim ==
    /\ log' \subseteq log
    /\ buffered \subseteq log'
    /\ \A r \in log \ log', k \in log' : r < k
    /\ UNCHANGED <<buffered, next>>

Crash ==
    /\ log' = log \ buffered
    /\ buffered' = {}
    /\ UNCHANGED next

Next == Add \/ Refuse \/ Persist \/ Drop \/ Trim \/ Crash

Spec == Init /\ [][Next]_vars
==============================================================================
