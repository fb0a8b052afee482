------------------------------- MODULE FileLog -------------------------------
(***************************************************************************)
(* The file side of the logger from push to the disk: LogDirectory with    *)
(* the queue, the batches and the shutdown of LogManager in front of it.   *)
(* The critical sections of _file_mutex are one step each, which           *)
(* LogManager's MutualExclusion justifies, and the program joins its       *)
(* logging threads before it exits.  The records of all producers are      *)
(* numbered in the order of their push_back: `next` is the next of them.   *)
(***************************************************************************)
EXTENDS LogDirectory

CONSTANTS Quiet  \* the records whose level is below the file's

VARIABLES
    queue,    \* _file_log_queue
    batch,    \* file_worker's local `logs`, from the next record to handle on
    finish,   \* _is_finiesh
    stop,     \* file_worker's local should_break
    crashed,  \* history: the process ended without its destructors
    refused   \* history: the records of the batches for which no file could be opened

logVars == <<queue, batch, finish, stop, crashed, refused>>
allVars == <<vars, logVars>>

Shown(records) == records \ Quiet

LogInit ==
    /\ Init
    /\ queue = <<>>
    /\ batch = <<>>
    /\ finish = FALSE
    /\ stop = FALSE
    /\ crashed = FALSE
    /\ refused = {}
------------------------------------------------------------------------------
\* A plausible bug: the queue is used as a stack.
PushInFront ==
    /\ phase # "off"
    /\ ~finish
    /\ next <= MaxRecords
    /\ queue' = <<next>> \o queue
    /\ next' = next + 1
    /\ UNCHANGED <<disk, prefix, phase, victims, path, stream, pending, inBatch, restarts>>
    /\ UNCHANGED <<batch, finish, stop, crashed, refused>>

\* The file section of push.
Push ==
    /\ phase # "off"
    /\ ~finish
    /\ next <= MaxRecords
    /\ queue' = Append(queue, next)
    /\ next' = next + 1
    /\ UNCHANGED <<disk, prefix, phase, victims, path, stream, pending, inBatch, restarts>>
    /\ UNCHANGED <<batch, finish, stop, crashed, refused>>

\* ~LogManager raises _is_finiesh.
Finish ==
    /\ phase # "off"
    /\ ~finish
    /\ finish' = TRUE
    /\ UNCHANGED <<vars, queue, batch, stop, crashed, refused>>

\* The wait of file_worker returns and the queue is swapped out.
Swap ==
    /\ queue # <<>> \/ finish
    /\ TakeBatch
    /\ batch' = queue
    /\ queue' = <<>>
    /\ stop' = (stop \/ finish)
    /\ UNCHANGED <<finish, crashed, refused>>

\* clean_directory and update_current_file.
Prepare ==
    /\ Fetch \/ RemoveOldest \/ ChoosePath \/ OpenPath
    /\ UNCHANGED logVars

\* The file cannot be opened, and the whole batch is written to a failed stream.
PrepareFails ==
    /\ OpenFails
    /\ refused' = refused \cup Shown(ToSet(batch))
    /\ UNCHANGED <<queue, batch, finish, stop, crashed>>

\* One round of the loop over the batch.
Deliver ==
    /\ phase = "write"
    /\ batch # <<>>
    /\ IF Head(batch) \in Quiet THEN UNCHANGED vars
       ELSE WriteToLastFile(Head(batch)) /\ UNCHANGED <<inBatch, next>>
    /\ batch' = Tail(batch)
    /\ UNCHANGED <<queue, finish, stop, crashed, refused>>

\* The stream writes its buffer out while it is written to.
Spill ==
    /\ phase = "write"
    /\ batch # <<>>
    /\ WriteOut
    /\ UNCHANGED logVars

\* A plausible bug: the worker leaves when the flag is raised, whatever it has.
LeaveAtOnce ==
    /\ IF finish THEN Quit ELSE BatchEnd /\ batch = <<>>
    /\ UNCHANGED logVars

\* The end of the loop: around again, or out of file_worker.
Leave ==
    /\ batch = <<>>
    /\ IF stop THEN Quit ELSE BatchEnd
    /\ UNCHANGED logVars

\* The process dies: queue, batch and buffer are gone.
Die ==
    /\ Crash
    /\ queue' = <<>>
    /\ batch' = <<>>
    /\ crashed' = TRUE
    /\ UNCHANGED <<finish, stop, refused>>

StartAgain ==
    /\ Restart
    /\ finish' = FALSE
    /\ stop' = FALSE
    /\ UNCHANGED <<queue, batch, crashed, refused>>

Ended == Stopped /\ UNCHANGED logVars

LogNext ==
    \/ Push \/ Finish
    \/ Swap \/ Prepare \/ PrepareFails \/ Deliver \/ Spill \/ Leave
    \/ Die \/ StartAgain \/ Ended

LogSpec == LogInit /\ [][LogNext]_allVars
------------------------------------------------------------------------------
(* Properties.                                                               *)

\* The records to be shown that the worker has yet to write to a file.
Waiting == Shown(ToSet(batch) \cup ToSet(queue)) \ refused

\* Everything the logger holds, from the oldest line on disk to the last push.
Held == OnDisk \cup Buffered \cup Waiting

\* Every record that was ever pushed and is to be shown.
Logged == Shown(1..(next - 1))

\* From the directory to the queue the records are held in the order in which
\* they were pushed, once each.
HeldInOrder ==
    /\ RecordsInOrder
    /\ Rising(batch) /\ Rising(queue)
    /\ Precede(OnDisk \cup Buffered, ToSet(batch) \cup ToSet(queue))
    /\ Precede(ToSet(batch), ToSet(queue))

FullFiles == {f \in DOMAIN disk : Full(f)}

\* Without a crash, through any restarts, the logger loses no record but those
\* of a batch for which no file could be opened, all of them and no others, and
\* the oldest: of the rest it holds exactly the newest, it gives up older ones
\* only while the directory keeps max_files_count - 1 full files of newer ones,
\* and when the destructors are done all that is held is on disk.  (Writes to a
\* file that is open succeed.)
HoldsNewest ==
    ~crashed =>
        /\ Held \subseteq Logged \ refused
        /\ Precede((Logged \ refused) \ Held, Held)
        /\ Held = Logged \ refused \/ Cardinality(FullFiles) >= MaxFiles - 1
        /\ phase = "off" => Held = OnDisk

EndToEnd == INSTANCE RollingLog WITH
    Buffer <- Buffer + MaxRecords, MayDrop <- OpenMayFail,
    log <- Held, buffered <- Buffered \cup Waiting

\* From push to disk the file logger is a RollingLog whose buffer is the queue,
\* the batch and the stream's buffer: a crash, or a file that cannot be opened,
\* takes records from these only, and rotation gives up the oldest of the others
\* only.
IsEndToEndLog == EndToEnd!Spec
==============================================================================
