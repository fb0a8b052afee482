------------------------------- MODULE LogSink -------------------------------
(***************************************************************************)
(* What one destination of the log (the console, or the log directory)     *)
(* promises to the threads that push records: records are handled one at a *)
(* time in the order in which they were accepted, each of them once; a     *)
(* handled record is written exactly when its level passes the sink's      *)
(* threshold; and the sink closes only when every record accepted before   *)
(* the shutdown request has been handled.  Nothing is said of threads,     *)
(* mutexes, queues or batches: LogManager implements this twice.           *)
(***************************************************************************)
EXTENDS Naturals, Sequences

CONSTANTS Record,  \* what can be pushed
          Shown    \* the records whose level passes the sink's threshold

VARIABLES accepted,   \* every record accepted so far, in order
          handled,    \* how many of them have been handled
          out,        \* what has been written, in order
          finishing,  \* shutdown has been requested ...
          cutoff,     \* ... when this many records had been accepted
          closed      \* the sink is gone

vars == <<accepted, handled, out, finishing, cutoff, closed>>

Init ==
    /\ accepted = <<>>
    /\ handled = 0
    /\ out = <<>>
    /\ finishing = FALSE
    /\ cutoff = 0
    /\ closed = FALSE

Accept ==
    /\ ~closed
    /\ \E r \in Record : accepted' = Append(accepted, r)
    /\ UNCHANGED <<handled, out, finishing, cutoff, closed>>

Handle ==
    /\ ~closed
    /\ handled < Len(accepted)
    /\ handled' = handled + 1
    /\ out' = IF accepted[handled + 1] \in Shown
              THEN Append(out, accepted[handled + 1])
              ELSE out
    /\ UNCHANGED <<accepted, finishing, cutoff, closed>>

Finish ==
    /\ ~finishing
    /\ finishing' = TRUE
    /\ cutoff' = Len(accepted)
    /\ UNCHANGED <<accepted, handled, out, closed>>

Close ==
    /\ finishing
    /\ ~closed
    /\ handled >= cutoff
    /\ closed' = TRUE
    /\ UNCHANGED <<accepted, handled, out, finishing, cutoff>>

Next == Accept \/ Handle \/ Finish \/ Close

Spec == Init /\ [][Next]_vars
==============================================================================
