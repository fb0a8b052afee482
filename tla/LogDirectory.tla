---------------------------- MODULE LogDirectory -----------------------------
(***************************************************************************)
(* TAOW::logging::LogDirectoryManager as file_worker drives it: for every  *)
(* batch of records it removes the oldest files, picks the file to append  *)
(* to, reopens its stream and writes the batch into the stream's buffer.   *)
(* The process may crash between any two system calls and be started       *)
(* again, with another file_prefix, on the directory it left.  A record is *)
(* the number of its write and has size 1.                                 *)
(***************************************************************************)
EXTENDS Integers, Sequences, FiniteSets, SequencesExt

CONSTANTS
    FilePrefixes, \* the values of file_prefix the program is started with
    MaxFiles,     \* max_files_count
    Limit,        \* max_file_size_in_mb, in records
    Buffer,       \* the capacity of the ofstream's buffer, in records
    OpenMayFail,  \* std::ofstream may fail to open the file
    MaxBatch,     \* bound: records written for one batch
    MaxRecords,   \* bound: records written in all
    MaxRestarts   \* bound: how often the program is started again

ASSUME PrefixesAssumption == FilePrefixes # {}
ASSUME LimitsAssumption   == MaxFiles \in Int /\ Limit \in Nat /\ Buffer \in Nat \ {0}
ASSUME BoundsAssumption   == MaxBatch \in Nat /\ MaxRecords \in Nat /\ MaxRestarts \in Nat
ASSUME ModeAssumption     == OpenMayFail \in BOOLEAN

VARIABLES
    disk,      \* the files of the directory and the records in each
    prefix,    \* _file_prefix
    phase,     \* where file_worker is in the handling of a batch
    victims,   \* clean_directory's log_files after the resize
    path,      \* update_current_file's new_file_path
    stream,    \* the file _current_file_stream has open
    pending,   \* the records in the stream's buffer
    inBatch,   \* records of this batch written so far
    next,      \* the next record
    restarts   \* how often the program was started again

vars == <<disk, prefix, phase, victims, path, stream, pending, inBatch, next, restarts>>

Files  == [prefix : FilePrefixes, no : Nat \ {0}]
NoFile == [prefix |-> "", no |-> 0]

Init ==
    /\ disk = [f \in {} |-> <<>>]
    /\ prefix \in FilePrefixes
    /\ phase = "idle"
    /\ victims = {}
    /\ path = NoFile
    /\ stream = NoFile
    /\ pending = <<>>
    /\ inBatch = 0
    /\ next = 1
    /\ restarts = 0
------------------------------------------------------------------------------
(* fetch_directory_log_files.  The regular expression accepts any prefix,    *)
(* and files with the same number are listed in an arbitrary order.          *)

Newest(f) == f \in DOMAIN disk /\ \A g \in DOMAIN disk : g.no <= f.no

\* A plausible bug: the list is sorted from the newest file on.
OldestByFalling(F) == \A f \in F, g \in DOMAIN disk \ F : f.no >= g.no

\* A plausible bug: the list is not sorted.
OldestUnsorted(F) == TRUE

\* F can be the first files of the sorted list.
Oldest(F) == \A f \in F, g \in DOMAIN disk \ F : f.no <= g.no
------------------------------------------------------------------------------
\* A plausible bug: one file too many is kept.
ExcessShort == IF Cardinality(DOMAIN disk) > MaxFiles + 1
               THEN Cardinality(DOMAIN disk) - MaxFiles - 1 ELSE 0

\* How many files clean_directory removes.  The comparison is between a size_t
\* and an int: a negative max_files_count is larger than any size.
Excess == IF MaxFiles >= 0 /\ Cardinality(DOMAIN disk) > MaxFiles
          THEN Cardinality(DOMAIN disk) - MaxFiles ELSE 0

\* A plausible bug: the files are looked at when the stream is first opened only.
TakeBatchOnce ==
    /\ phase = "idle"
    /\ phase' = IF stream = NoFile THEN "clean" ELSE "write"
    /\ inBatch' = 0
    /\ UNCHANGED <<disk, prefix, victims, path, stream, pending, next, restarts>>

\* file_worker has swapped out a batch, which may be empty.
TakeBatch ==
    /\ phase = "idle"
    /\ phase' = "clean"
    /\ inBatch' = 0
    /\ UNCHANGED <<disk, prefix, victims, path, stream, pending, next, restarts>>

\* clean_directory lists the directory ...
Fetch ==
    /\ phase = "clean"
    /\ \E F \in SUBSET DOMAIN disk : Cardinality(F) = Excess /\ Oldest(F) /\ victims' = F
    /\ phase' = "remove"
    /\ UNCHANGED <<disk, prefix, path, stream, pending, inBatch, next, restarts>>

\* ... and removes the surplus one file after the other, the oldest first.
RemoveOldest ==
    /\ phase = "remove"
    /\ \E f \in victims :
          /\ \A g \in victims : f.no <= g.no
          /\ disk' = [g \in DOMAIN disk \ {f} |-> disk[g]]
          /\ victims' = victims \ {f}
    /\ UNCHANGED <<prefix, phase, path, stream, pending, inBatch, next, restarts>>

Full(f) == Len(disk[f]) > Limit

\* The number of the file to append to, when f is the last of the list.
NumberAfter(f) == IF Full(f) THEN f.no + 1 ELSE f.no

\* A plausible bug: files are numbered from 0.
FirstNumberZero == 0

FirstNumber == 1

\* update_current_file up to the choice of new_file_path.  What the stream has
\* buffered is not in the size of the file yet.
ChoosePath ==
    /\ phase = "remove"
    /\ victims = {}
    /\ \/ DOMAIN disk = {} /\ path' = [prefix |-> prefix, no |-> FirstNumber]
       \/ \E f \in DOMAIN disk :
             Newest(f) /\ path' = [prefix |-> prefix, no |-> NumberAfter(f)]
    /\ phase' = "open"
    /\ UNCHANGED <<disk, prefix, victims, stream, pending, inBatch, next, restarts>>

\* The directory after the first k buffered records have been written out.  A
\* file that was removed while it was open takes them with it.
Flushed(k) == [f \in DOMAIN disk |-> IF f = stream THEN disk[f] \o SubSeq(pending, 1, k)
                                     ELSE disk[f]]

Closed == Flushed(Len(pending))

\* A plausible bug: the file is opened with std::ios::trunc.
OpenedTruncated(d, f) == [g \in DOMAIN d \cup {f} |-> IF g = f THEN <<>> ELSE d[g]]

\* std::ofstream{f, std::ios::app} creates the file if there is none.
Opened(d, f) == [g \in DOMAIN d \cup {f} |-> IF g \in DOMAIN d THEN d[g] ELSE <<>>]

\* The old stream is closed and the new one opened.
OpenPath ==
    /\ phase = "open"
    /\ disk' = Opened(Closed, path)
    /\ stream' = path
    /\ pending' = <<>>
    /\ phase' = "write"
    /\ UNCHANGED <<prefix, victims, path, inBatch, next, restarts>>

\* The new stream is in a failed state, which nobody looks at.
OpenFails ==
    /\ OpenMayFail
    /\ phase = "open"
    /\ disk' = Closed
    /\ stream' = NoFile
    /\ pending' = <<>>
    /\ phase' = "write"
    /\ UNCHANGED <<prefix, victims, path, inBatch, next, restarts>>

MoreToWrite == phase = "write" /\ inBatch < MaxBatch /\ next <= MaxRecords

\* write_to_last_file: into the buffer of the stream, or nowhere.
WriteToLastFile(record) ==
    /\ \/ stream # NoFile /\ Len(pending) < Buffer /\ pending' = Append(pending, record)
       \/ stream = NoFile /\ UNCHANGED pending
    /\ UNCHANGED <<disk, prefix, phase, victims, path, stream, restarts>>

\* A plausible bug: the loop may write the record behind the next, and then again.
WriteLater ==
    /\ MoreToWrite
    /\ \E record \in {next, next + 1} : record <= MaxRecords /\ WriteToLastFile(record)
    /\ inBatch' = inBatch + 1
    /\ next' = next + 1

Write ==
    /\ MoreToWrite
    /\ WriteToLastFile(next)
    /\ inBatch' = inBatch + 1
    /\ next' = next + 1

\* The buffer is written out, in part or whole, when the stream sees fit.
WriteOut ==
    /\ \E k \in 1..Len(pending) :
          /\ disk' = Flushed(k)
          /\ pending' = SubSeq(pending, k + 1, Len(pending))
    /\ UNCHANGED <<prefix, phase, victims, path, stream, inBatch, next, restarts>>

Flush == MoreToWrite /\ WriteOut

\* The batch is done.  Nothing is flushed: the buffer waits for the next batch.
BatchEnd ==
    /\ phase = "write"
    /\ phase' = "idle"
    /\ UNCHANGED <<disk, prefix, victims, path, stream, pending, inBatch, next, restarts>>

\* The last batch is done: ~LogDirectoryManager closes the stream.
Quit ==
    /\ phase = "write"
    /\ disk' = Closed
    /\ stream' = NoFile
    /\ pending' = <<>>
    /\ phase' = "off"
    /\ UNCHANGED <<prefix, victims, path, inBatch, next, restarts>>

\* The process ends without the destructor: it is killed, or an exception of
\* std::filesystem leaves the worker thread.
Crash ==
    /\ phase # "off"
    /\ stream' = NoFile
    /\ pending' = <<>>
    /\ victims' = {}
    /\ phase' = "off"
    /\ UNCHANGED <<disk, prefix, path, inBatch, next, restarts>>

\* The program is started again.
Restart ==
    /\ phase = "off"
    /\ restarts < MaxRestarts
    /\ restarts' = restarts + 1
    /\ prefix' \in FilePrefixes
    /\ phase' = "idle"
    /\ UNCHANGED <<disk, victims, path, stream, pending, inBatch, next>>

\* It is not started any more.
Stopped == phase = "off" /\ restarts = MaxRestarts /\ UNCHANGED vars

Next ==
    \/ TakeBatch \/ Fetch \/ RemoveOldest \/ ChoosePath \/ OpenPath \/ OpenFails
    \/ Write \/ Flush \/ BatchEnd \/ Quit
    \/ Crash \/ Restart \/ Stopped

Spec == Init /\ [][Next]_vars
------------------------------------------------------------------------------
(* Properties.                                                               *)

TypeOK ==
    /\ DOMAIN disk \subseteq Files /\ IsFiniteSet(DOMAIN disk)
    /\ \A f \in DOMAIN disk : disk[f] \in Seq(1..MaxRecords)
    /\ prefix \in FilePrefixes
    /\ phase \in {"idle", "clean", "remove", "open", "write", "off"}
    /\ victims \subseteq DOMAIN disk
    /\ path \in Files \cup {NoFile}
    /\ stream \in Files \cup {NoFile}
    /\ pending \in Seq(1..MaxRecords) /\ Len(pending) <= Buffer
    /\ inBatch \in 0..MaxBatch
    /\ next \in 1..(MaxRecords + 1)
    /\ restarts \in 0..MaxRestarts

\* The directory never holds more files than max_files_count and the one
\* update_current_file may just have added, across crashes and restarts.
FilesBounded == MaxFiles >= 0 => Cardinality(DOMAIN disk) <= MaxFiles + 1

\* A file outgrows max_file_size_in_mb by no more than one batch and what was in
\* the buffer when the size was looked at.
SizeBounded ==
    \A f \in DOMAIN disk :
        Len(disk[f]) + (IF f = stream THEN Len(pending) ELSE 0) <= Limit + Buffer + MaxBatch

Numbers == {f.no : f \in DOMAIN disk}

\* The numbers of the files have no gap, whatever removals a crash cut short.
NumbersHaveNoGap ==
    \A m, n \in Numbers : \A k \in m..n : k \in Numbers

\* The newest file is never given up, and so no number is used again: with
\* max_files_count at least 1 the highest number only grows.
HighestNumberGrows ==
    [][MaxFiles >= 1 => \A m \in Numbers : \E n \in Numbers' : n >= m]_vars

OnDisk == UNION {ToSet(disk[f]) : f \in DOMAIN disk}

Buffered == ToSet(pending)

Rising(q) == \A i, j \in DOMAIN q : i < j => q[i] < q[j]

Precede(R, S) == \A r \in R, s \in S : r < s

\* The records are read in the order in which they were written, once each, by
\* going through the files in the order of their numbers: whatever the stream
\* still has comes after all of them, also after a crash and a restart.
RecordsInOrder ==
    /\ \A f \in DOMAIN disk : Rising(disk[f])
    /\ \A f, g \in DOMAIN disk : f.no < g.no => Precede(ToSet(disk[f]), ToSet(disk[g]))
    /\ Rising(pending)
    /\ Precede(OnDisk, Buffered)

Rolling == INSTANCE RollingLog WITH
    MayDrop <- FALSE, log <- OnDisk \cup Buffered, buffered <- Buffered

\* With one file_prefix the directory is a RollingLog: removing files gives up
\* the oldest records only, a crash takes only what is in the buffer, and
\* nothing else is lost.
IsRollingLog == Rolling!Spec
==============================================================================
