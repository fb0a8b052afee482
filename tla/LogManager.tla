----------------------------- MODULE LogManager ------------------------------
(***************************************************************************)
(* TAOW::logging::LogManager: threads push records into one queue per      *)
(* configured sink, one worker thread per sink swaps its queue out under   *)
(* the sink's mutex and writes the batch without it, and the destructor    *)
(* raises _is_finiesh under both mutexes, wakes the workers and joins      *)
(* them.  A step is what one thread does between two points where another  *)
(* one can interfere: taking a mutex, the critical section up to the       *)
(* unlock, handling one record of a batch.                                 *)
(***************************************************************************)
EXTENDS Integers, Sequences

CONSTANTS
    Producers,    \* the threads that call Logger<T>::info, deubg and error
    Configured,   \* the sinks whose config was passed to instantiate
    Levels,       \* LogLevel: DEBUG = 0, INFO = 1, ERROR = 2
    Threshold,    \* the level of each sink's config
    MaxCalls,     \* bound: log calls made by each producer
    MaxSpurious,  \* bound: spurious wakeups of each condition variable
    ExitWaits,    \* the program joins its logging threads before it exits
    Faults        \* what may fail: "spawn" (std::thread), "directory" (std::filesystem)

Sinks  == {"console", "file"}
Main   == "main"      \* the thread that constructs and destroys the manager
Nobody == "nobody"    \* the holder of a free mutex

ASSUME ConfiguredAssumption == Configured \subseteq Sinks /\ Configured # {}
ASSUME ProducersAssumption  == Producers \cap (Sinks \cup {Main, Nobody}) = {}
ASSUME LevelsAssumption     == Levels \subseteq Int /\ Threshold \in [Sinks -> Int]
ASSUME BoundsAssumption     == MaxCalls \in Nat /\ MaxSpurious \in Nat
ASSUME ModeAssumption       == ExitWaits \in BOOLEAN /\ Faults \subseteq {"spawn", "directory"}

VARIABLES
    main,        \* where the constructing and destroying thread is
    worker,      \* where console_worker ("console") and file_worker ("file") are
    pc,          \* where each producer is in Logger::log and push
    target,      \* the sink whose section of push a producer is in
    current,     \* the record a producer is pushing
    calls,       \* log calls a producer has made
    holder,      \* the owner of _console_mutex and of _file_mutex
    queue,       \* _console_log_queue and _file_log_queue
    batch,       \* a worker's local `logs`, from the next record to handle on
    stop,        \* a worker's local should_break
    finish,      \* _is_finiesh
    spurious,    \* spurious wakeups so far
    accepted,    \* history: the records enqueued, in order
    handled,     \* history: how many of them the worker has handled
    out,         \* history: the records written to the sink, in order
    cutoff       \* history: Len(accepted) when _is_finiesh was raised

mainVars   == <<main, finish, cutoff>>
callVars   == <<pc, target, current, calls>>
batchVars  == <<batch, stop, handled, out>>
sharedVars == <<queue, accepted>>
vars == <<mainVars, callVars, batchVars, sharedVars, worker, holder, spurious>>

Record == [by : Producers, n : 1..MaxCalls, level : Levels]
NoRecord == [by |-> Nobody, n |-> 0, level |-> 0]

\* push visits the console section before the file section, each if configured.
FirstSink == IF "console" \in Configured THEN "console" ELSE "file"

Init ==
    /\ main = "construct"
    /\ worker = [s \in Sinks |-> "unborn"]
    /\ pc = [p \in Producers |-> "idle"]
    /\ target = [p \in Producers |-> FirstSink]
    /\ current = [p \in Producers |-> NoRecord]
    /\ calls = [p \in Producers |-> 0]
    /\ holder = [s \in Sinks |-> Nobody]
    /\ queue = [s \in Sinks |-> <<>>]
    /\ batch = [s \in Sinks |-> <<>>]
    /\ stop = [s \in Sinks |-> FALSE]
    /\ finish = FALSE
    /\ spurious = [s \in Sinks |-> 0]
    /\ accepted = [s \in Sinks |-> <<>>]
    /\ handled = [s \in Sinks |-> 0]
    /\ out = [s \in Sinks |-> <<>>]
    /\ cutoff = [s \in Sinks |-> 0]
------------------------------------------------------------------------------
(* The mutexes and condition variables of the C++ library.                  *)

\* A plausible bug: the critical section is entered without the lock_guard.
AcquireUnguarded(s, t) == holder' = [holder EXCEPT ![s] = t]

Acquire(s, t) == holder[s] = Nobody /\ holder' = [holder EXCEPT ![s] = t]

Release(s) == holder' = [holder EXCEPT ![s] = Nobody]

\* A plausible bug: a notification is sent to one worker only.
NotifyConsole(ss) == worker' = [s \in Sinks |->
    IF s \in ss /\ s = "console" /\ worker[s] = "waiting" THEN "lock" ELSE worker[s]]

\* notify_one and notify_all: one worker at most waits on each condition
\* variable, and a woken one must take the mutex and test its predicate again.
Notify(ss) == worker' = [s \in Sinks |-> IF s \in ss /\ worker[s] = "waiting"
                                         THEN "lock" ELSE worker[s]]
------------------------------------------------------------------------------
(* The thread that owns the manager: constructor, exit, destructor.         *)

Closing == main \in {"lockFirst", "lockSecond", "finish", "join"}

\* The constructor starts console_worker first.
NextToSpawn(s) ==
    /\ main = "construct"
    /\ s \in Configured
    /\ worker[s] = "unborn"
    /\ s = "file" /\ "console" \in Configured => worker["console"] # "unborn"

Spawn(s) ==
    /\ NextToSpawn(s)
    /\ worker' = [worker EXCEPT ![s] = "lock"]
    /\ UNCHANGED <<mainVars, callVars, batchVars, sharedVars, holder, spurious>>

\* A plausible bug: the exception of the second thread is let out of instantiate.
SpawnFailsAndReturns(s) ==
    /\ "spawn" \in Faults
    /\ NextToSpawn(s)
    /\ main' = "failed"
    /\ UNCHANGED <<finish, cutoff, callVars, batchVars, sharedVars, worker, holder, spurious>>

\* std::thread throws.  With no thread started yet the exception leaves
\* instantiate and `instance` stays empty; with a started one the vector of
\* joinable threads is destroyed, which ends the process.
SpawnFails(s) ==
    /\ "spawn" \in Faults
    /\ NextToSpawn(s)
    /\ main' = IF s = FirstSink THEN "failed" ELSE "terminated"
    /\ UNCHANGED <<finish, cutoff, callVars, batchVars, sharedVars, worker, holder, spurious>>

\* `instance` is still empty: the program may call instantiate again.
Retry ==
    /\ main = "failed"
    /\ main' = "construct"
    /\ UNCHANGED <<finish, cutoff, callVars, batchVars, sharedVars, worker, holder, spurious>>

\* optional::emplace returns: `instance` is engaged.
Publish ==
    /\ main = "construct"
    /\ \A s \in Configured : worker[s] # "unborn"
    /\ main' = "live"
    /\ UNCHANGED <<finish, cutoff, callVars, batchVars, sharedVars, worker, holder, spurious>>

\* main returns and the static `instance` is destroyed.
Exit ==
    /\ main = "live"
    /\ ExitWaits => \A p \in Producers : pc[p] = "idle"
    /\ main' = "lockFirst"
    /\ UNCHANGED <<finish, cutoff, callVars, batchVars, sharedVars, worker, holder, spurious>>

\* std::scoped_lock of two mutexes: take one, try the other, give back and
\* start again when it is taken.
LockFirst ==
    /\ main = "lockFirst"
    /\ \E s \in Sinks : Acquire(s, Main)
    /\ main' = "lockSecond"
    /\ UNCHANGED <<finish, cutoff, callVars, batchVars, sharedVars, worker, spurious>>

LockSecond ==
    /\ main = "lockSecond"
    /\ \E s \in Sinks : Acquire(s, Main)
    /\ main' = "finish"
    /\ UNCHANGED <<finish, cutoff, callVars, batchVars, sharedVars, worker, spurious>>

Backoff ==
    /\ main = "lockSecond"
    /\ \E s \in Sinks : holder[s] = Main /\ Release(s)
    /\ \A s \in Sinks : holder[s] # Nobody
    /\ main' = "lockFirst"
    /\ UNCHANGED <<finish, cutoff, callVars, batchVars, sharedVars, worker, spurious>>

\* ~LogManager's block under both mutexes.
Finish ==
    /\ main = "finish"
    /\ finish' = TRUE
    /\ cutoff' = [s \in Sinks |-> Len(accepted[s])]
    /\ Notify(Sinks)
    /\ holder' = [s \in Sinks |-> Nobody]
    /\ main' = "join"
    /\ UNCHANGED <<callVars, batchVars, sharedVars, spurious>>

\* The loop of joins; the members are destroyed after it.
Join ==
    /\ main = "join"
    /\ \A s \in Configured : worker[s] = "done"
    /\ main' = "destroyed"
    /\ UNCHANGED <<finish, cutoff, callVars, batchVars, sharedVars, worker, holder, spurious>>

MainStep == \/ \E s \in Sinks : Spawn(s)
            \/ Publish \/ LockFirst \/ LockSecond \/ Backoff \/ Finish \/ Join
------------------------------------------------------------------------------
(* A logging thread.                                                         *)

\* Logger::log finds `instance` engaged and makes the record.  While the
\* static is being destroyed the test may still pass: it is not synchronised.
Log(p) ==
    /\ pc[p] = "idle"
    /\ calls[p] < MaxCalls
    /\ main = "live" \/ (Closing /\ ~ExitWaits)
    /\ pc' = [pc EXCEPT ![p] = "lock"]
    /\ calls' = [calls EXCEPT ![p] = @ + 1]
    /\ target' = [target EXCEPT ![p] = FirstSink]
    /\ \E l \in Levels :
          current' = [current EXCEPT ![p] = [by |-> p, n |-> calls[p] + 1, level |-> l]]
    /\ UNCHANGED <<mainVars, batchVars, sharedVars, worker, holder, spurious>>

\* LogManagerNotInstantiatedError.
LogThrows(p) ==
    /\ pc[p] = "idle"
    /\ calls[p] < MaxCalls
    /\ main \notin {"live", "terminated"}
    /\ calls' = [calls EXCEPT ![p] = @ + 1]
    /\ UNCHANGED <<mainVars, pc, target, current, batchVars, sharedVars, worker, holder, spurious>>

\* The manager's members exist; push on a destroyed manager has no meaning,
\* and a thread caught in push by the destruction is not followed any further.
Members == main \notin {"destroyed", "terminated"}

PushLock(p) ==
    /\ Members
    /\ pc[p] = "lock"
    /\ Acquire(target[p], p)
    /\ pc' = [pc EXCEPT ![p] = "locked"]
    /\ UNCHANGED <<mainVars, target, current, calls, batchVars, sharedVars, worker, spurious>>

\* A plausible bug: push visits the file section only when no console is configured.
AfterPushFirstOnly(p) ==
    /\ pc' = [pc EXCEPT ![p] = "idle"]
    /\ UNCHANGED target

\* On to the file section of push, or back to the caller.
AfterPush(p) ==
    IF target[p] = "console" /\ "file" \in Configured
    THEN /\ pc' = [pc EXCEPT ![p] = "lock"]
         /\ target' = [target EXCEPT ![p] = "file"]
    ELSE /\ pc' = [pc EXCEPT ![p] = "idle"]
         /\ UNCHANGED target

\* A plausible bug: the queue is used as a stack.
EnqueuedInFront(q, r) == <<r>> \o q

\* A plausible bug: the console section moves the shared_ptr out of `record`.
EnqueuedMoved(q, r) ==
    Append(q, IF \E i \in DOMAIN accepted["console"] : accepted["console"][i] = r
              THEN NoRecord ELSE r)

Enqueued(q, r) == Append(q, r)

\* push_back, notify_one and the unlock of one section of push.
PushRecord(p) ==
    /\ Members
    /\ pc[p] = "locked"
    /\ LET s == target[p] IN
          /\ queue' = [queue EXCEPT ![s] = Enqueued(@, current[p])]
          /\ accepted' = [accepted EXCEPT ![s] = Append(@, current[p])]
          /\ Notify({s})
          /\ Release(s)
    /\ AfterPush(p)
    /\ UNCHANGED <<mainVars, current, calls, batchVars, spurious>>

PushStep(p) == PushLock(p) \/ PushRecord(p)
------------------------------------------------------------------------------
(* console_worker and file_worker.                                           *)

WorkerLock(s) ==
    /\ worker[s] = "lock"
    /\ Acquire(s, s)
    /\ worker' = [worker EXCEPT ![s] = "check"]
    /\ UNCHANGED <<mainVars, callVars, batchVars, sharedVars, spurious>>

\* The predicate of _console_cv.wait and _file_cv.wait.
HasWork(s) == queue[s] # <<>> \/ finish

WorkerWait(s) ==
    /\ worker[s] = "check"
    /\ ~HasWork(s)
    /\ worker' = [worker EXCEPT ![s] = "waiting"]
    /\ Release(s)
    /\ UNCHANGED <<mainVars, callVars, batchVars, sharedVars, spurious>>

SpuriousWakeup(s) ==
    /\ worker[s] = "waiting"
    /\ spurious[s] < MaxSpurious
    /\ spurious' = [spurious EXCEPT ![s] = @ + 1]
    /\ worker' = [worker EXCEPT ![s] = "lock"]
    /\ UNCHANGED <<mainVars, callVars, batchVars, sharedVars, holder>>

\* A plausible bug: the queue is copied and not swapped.
Swapped(s) == batch' = [batch EXCEPT ![s] = queue[s]] /\ UNCHANGED queue

\* logs.swap(queue): `logs` is a fresh empty vector.
Swap(s) ==
    /\ batch' = [batch EXCEPT ![s] = queue[s]]
    /\ queue' = [queue EXCEPT ![s] = <<>>]

\* The batch is taken and should_break sampled before the mutex is released.
WorkerSwap(s) ==
    /\ worker[s] = "check"
    /\ HasWork(s)
    /\ Swap(s)
    /\ stop' = [stop EXCEPT ![s] = @ \/ finish]
    /\ Release(s)
    /\ worker' = [worker EXCEPT ![s] = IF s = "file" THEN "prepare" ELSE "deliver"]
    /\ UNCHANGED <<mainVars, callVars, handled, out, accepted, spurious>>

\* clean_directory and update_current_file, which change no member of the manager.
Prepare ==
    /\ worker["file"] = "prepare"
    /\ worker' = [worker EXCEPT !["file"] = "deliver"]
    /\ UNCHANGED <<mainVars, callVars, batchVars, sharedVars, holder, spurious>>

\* Their std::filesystem calls throw, nothing catches it: std::terminate.
PrepareThrows ==
    /\ "directory" \in Faults
    /\ worker["file"] = "prepare"
    /\ main' = "terminated"
    /\ UNCHANGED <<finish, cutoff, callVars, batchVars, sharedVars, worker, holder, spurious>>

\* A plausible bug: `<=` for `<` in the level test.
PassesAbove(s, r) == r.level > Threshold[s]

Passes(s, r) == r.level >= Threshold[s]

\* One round of `for (auto& log : logs)`.
Deliver(s) ==
    /\ worker[s] = "deliver"
    /\ batch[s] # <<>>
    /\ batch' = [batch EXCEPT ![s] = Tail(@)]
    /\ handled' = [handled EXCEPT ![s] = @ + 1]
    /\ out' = IF Passes(s, Head(batch[s]))
              THEN [out EXCEPT ![s] = Append(@, Head(batch[s]))]
              ELSE out
    /\ UNCHANGED <<mainVars, callVars, stop, sharedVars, worker, holder, spurious>>

\* A plausible bug: _is_finiesh is read when the batch is done, not when it is taken.
BatchDoneReadsFlag(s) ==
    /\ worker[s] = "deliver"
    /\ batch[s] = <<>>
    /\ worker' = [worker EXCEPT ![s] = IF finish THEN "done" ELSE "lock"]
    /\ UNCHANGED <<mainVars, callVars, batchVars, sharedVars, holder, spurious>>

\* A plausible bug: `break` leaves the loop over the batch only.
BatchDoneRoundAgain(s) ==
    /\ worker[s] = "deliver"
    /\ batch[s] = <<>>
    /\ worker' = [worker EXCEPT ![s] = "lock"]
    /\ UNCHANGED <<mainVars, callVars, batchVars, sharedVars, holder, spurious>>

BatchDone(s) ==
    /\ worker[s] = "deliver"
    /\ batch[s] = <<>>
    /\ worker' = [worker EXCEPT ![s] = IF stop[s] THEN "done" ELSE "lock"]
    /\ UNCHANGED <<mainVars, callVars, batchVars, sharedVars, holder, spurious>>

WorkerStep(s) ==
    /\ main # "terminated"
    /\ \/ WorkerLock(s) \/ WorkerWait(s) \/ WorkerSwap(s)
       \/ Deliver(s) \/ BatchDone(s)
       \/ s = "file" /\ Prepare

WorkerFault(s) ==
    /\ main # "terminated"
    /\ SpuriousWakeup(s) \/ (s = "file" /\ PrepareThrows)
------------------------------------------------------------------------------
\* The program has nothing left to do: the process may stop here.
Stopped ==
    /\ \/ main = "terminated"
       \/ /\ main \in {"destroyed", "failed"}
          /\ \A p \in Producers : pc[p] = "idle" => calls[p] = MaxCalls
    /\ UNCHANGED vars

Next ==
    \/ MainStep
    \/ \E s \in Sinks : SpawnFails(s)
    \/ Retry \/ Exit
    \/ \E p \in Producers : Log(p) \/ LogThrows(p) \/ PushStep(p)
    \/ \E s \in Sinks : WorkerStep(s) \/ WorkerFault(s)
    \/ Stopped

Spec == Init /\ [][Next]_vars

\* Every thread keeps running.  Nobody is obliged to log or to exit.
Fairness ==
    /\ WF_vars(MainStep)
    /\ \A p \in Producers : WF_vars(PushStep(p))
    /\ \A s \in Sinks : WF_vars(WorkerStep(s))

FairSpec == Spec /\ Fairness
------------------------------------------------------------------------------
(* Properties.                                                               *)

TypeOK ==
    /\ main \in {"construct", "live", "lockFirst", "lockSecond", "finish", "join",
                 "destroyed", "failed", "terminated"}
    /\ worker \in [Sinks -> {"unborn", "lock", "check", "waiting", "prepare", "deliver", "done"}]
    /\ pc \in [Producers -> {"idle", "lock", "locked"}]
    /\ target \in [Producers -> Configured]
    /\ current \in [Producers -> Record \cup {NoRecord}]
    /\ \A p \in Producers : pc[p] # "idle" => current[p] \in Record
    /\ calls \in [Producers -> 0..MaxCalls]
    /\ holder \in [Sinks -> Producers \cup Sinks \cup {Main, Nobody}]
    /\ queue \in [Sinks -> Seq(Record)]
    /\ batch \in [Sinks -> Seq(Record)]
    /\ stop \in [Sinks -> BOOLEAN]
    /\ finish \in BOOLEAN
    /\ spurious \in [Sinks -> 0..MaxSpurious]
    /\ accepted \in [Sinks -> Seq(Record)]
    /\ handled \in [Sinks -> Nat]
    /\ out \in [Sinks -> Seq(Record)]
    /\ cutoff \in [Sinks -> Nat]

\* The thread t is in a critical section of the sink s.
InSection(t, s) ==
    \/ t \in Producers /\ pc[t] = "locked" /\ target[t] = s
    \/ t = s /\ worker[s] = "check"
    \/ t = Main /\ main = "finish"

\* Each sink's queue is touched by one thread at a time, the destructor is in
\* its block only with both mutexes, and a mutex is owned only by a thread that
\* is in a section of it or is collecting the two of scoped_lock.
MutualExclusion ==
    main # "terminated" =>
        \A s \in Sinks :
            /\ \A t \in Producers \cup {s, Main} : InSection(t, s) => holder[s] = t
            /\ \/ holder[s] = Nobody
               \/ holder[s] = Main /\ main = "lockSecond"
               \/ InSection(holder[s], s)

\* No wakeup is lost between push or ~LogManager and the two waits: a worker is
\* asleep on its condition variable only while there is nothing to do.
NoLostWakeup ==
    \A s \in Sinks : worker[s] = "waiting" => ~HasWork(s)

Conserved(s) ==
    /\ handled[s] + Len(batch[s]) + Len(queue[s]) = Len(accepted[s])
    /\ \A i \in 1..Len(batch[s]) : batch[s][i] = accepted[s][handled[s] + i]
    /\ \A i \in 1..Len(queue[s]) : queue[s][i] = accepted[s][handled[s] + Len(batch[s]) + i]

\* What was pushed to a sink is what its worker has handled, then the rest of
\* its batch, then its queue: nothing is lost, repeated or reordered by the
\* swap, whatever is pushed while a batch is being written.
Conservation == \A s \in Sinks : Conserved(s)

\* When the destructor returns, every record pushed before it raised
\* _is_finiesh has been handled; and when the program joins its threads before
\* it exits, every record has.
NothingLostAtShutdown ==
    main = "destroyed" =>
        \A s \in Configured :
            /\ handled[s] >= cutoff[s]
            /\ ExitWaits => handled[s] = Len(accepted[s])

\* No worker outlives the members it uses: when the destructor has returned, or
\* an exception has left the constructor, no worker is running.
NoWorkerOutlives ==
    main \in {"destroyed", "failed"} => \A s \in Sinks : worker[s] \in {"unborn", "done"}

\* The lines one thread logs appear in each sink in the order it logged them,
\* none of them twice, whatever the other threads log.
ProducerOrder ==
    \A s \in Sinks : \A i, j \in 1..Len(out[s]) :
        i < j /\ out[s][i].by = out[s][j].by => out[s][i].n < out[s][j].n

Pushed(s) == {accepted[s][i] : i \in 1..Len(accepted[s])}

\* With both sinks, a record reaches the file's queue only after the console's,
\* and the console's is ahead by the records now on their way to the file's.
SinksInStep ==
    Configured = Sinks =>
        Pushed("console") = Pushed("file") \cup
            {current[p] : p \in {q \in Producers : pc[q] # "idle" /\ target[q] = "file"}}

\* Either sink is a LogSink: its records are handled in order, once each, and
\* written when their level is at least the configured one.
AtLeast(s) == {r \in Record : Threshold[s] <= r.level}

Console == INSTANCE LogSink WITH
    Shown <- AtLeast("console"), accepted <- accepted["console"],
    handled <- handled["console"], out <- out["console"],
    finishing <- finish, cutoff <- cutoff["console"], closed <- main = "destroyed"

File == INSTANCE LogSink WITH
    Shown <- AtLeast("file"), accepted <- accepted["file"],
    handled <- handled["file"], out <- out["file"],
    finishing <- finish, cutoff <- cutoff["file"], closed <- main = "destroyed"

\* The console side implements LogSink.
ConsoleImplementsSink == Console!Spec

\* The file side implements LogSink.
FileImplementsSink == File!Spec

\* Once the destructor has begun it returns: neither its two mutexes nor its
\* joins can block for ever.
ShutdownCompletes == main = "lockFirst" ~> main = "destroyed"

\* Every record pushed to a sink is handled, without a later push or a shutdown
\* to wake the worker.
EveryRecordHandled ==
    \A s \in Sinks : \A r \in Record :
        (r \in Pushed(s)) ~> (\E i \in 1..handled[s] : accepted[s][i] = r)
==============================================================================
