---------------------------- MODULE FileLogProofs ----------------------------
(***************************************************************************)
(* What TLAPS proves of FileLog: the records from push to disk are held in *)
(* the order of the pushes, and with one prefix they form one rolling log. *)
(***************************************************************************)
EXTENDS FileLog, LogDirectoryProofs

LogTypeOK ==
    /\ queue \in Seq(1..MaxRecords) /\ batch \in Seq(1..MaxRecords)
    /\ finish \in BOOLEAN /\ stop \in BOOLEAN /\ crashed \in BOOLEAN

\* What the worker's place in its loop says of the queue and the batch.
WorkerInv ==
    /\ phase \in {"idle", "off"} => batch = <<>>
    /\ phase = "off" => queue = <<>> /\ stream = NoFile
    /\ stop => finish /\ queue = <<>>

Queued == ToSet(batch) \cup ToSet(queue)

AllBelow == \A r \in OnDisk \cup Buffered \cup Queued : r < next

LogInv ==
    DirInv /\ StreamInv /\ LogTypeOK /\ WorkerInv /\ HeldInOrder /\ AllBelow
------------------------------------------------------------------------------
LEMMA HeadAndTail ==
    ASSUME NEW S, NEW q \in Seq(S), q # <<>>
    PROVE  Head(q) \in S /\ Tail(q) \in Seq(S)
<1>1. Len(q) \in Nat /\ Len(q) > 0 /\ Head(q) = q[1] /\ Tail(q) \in Seq(S)
  OBVIOUS
<1>2. \A i \in 1..Len(q) : q[i] \in S
  OBVIOUS
<1>3. 1 \in 1..Len(q)
  BY <1>1
<1> QED
  BY <1>1, <1>2, <1>3

LEMMA QueueTypes ==
    ASSUME LogTypeOK
    PROVE  /\ queue \in Seq(Int) /\ batch \in Seq(Int)
           /\ Queued \subseteq 1..MaxRecords
           /\ batch # <<>> => Head(batch) \in 1..MaxRecords /\ Tail(batch) \in Seq(1..MaxRecords)
<1>1. 1..MaxRecords \subseteq Int
  OBVIOUS
<1>2. /\ queue \in Seq(Int) /\ ToSet(queue) \subseteq 1..MaxRecords
      /\ batch \in Seq(Int) /\ ToSet(batch) \subseteq 1..MaxRecords
  BY <1>1, SeqOfSubset DEF LogTypeOK
<1>3. batch # <<>> => Head(batch) \in 1..MaxRecords /\ Tail(batch) \in Seq(1..MaxRecords)
  BY HeadAndTail DEF LogTypeOK
<1> QED
  BY <1>2, <1>3 DEF Queued

LEMMA NothingInEmpty == ToSet(<<>>) = {} /\ Rising(<<>>)
BY DEF ToSet, Rising

\* How the steps of FileLog look to the directory.
LEMMA PushIsElsewhere ==
    ASSUME TypeOK, Push
    PROVE  Elsewhere /\ next \in 1..MaxRecords /\ next' = next + 1
BY BoundsAssumption DEF Push, Elsewhere, TypeOK

LEMMA DeliverWritesOne ==
    ASSUME TypeOK, LogTypeOK, Deliver
    PROVE  /\ batch # <<>> /\ next' = next /\ phase' = phase /\ phase = "write"
           /\ Head(batch) \in Quiet => Elsewhere
           /\ Head(batch) \notin Quiet => WriteOne(Head(batch))
<1>1. CASE Head(batch) \in Quiet
  BY <1>1 DEF Deliver, Elsewhere, vars, TypeOK
<1>2. CASE Head(batch) \notin Quiet
  BY <1>2 DEF Deliver, WriteOne, WriteToLastFile, TypeOK
<1> QED
  BY <1>1, <1>2 DEF Deliver

\* All other steps leave the numbering alone.
LEMMA OtherLogSteps ==
    ASSUME TypeOK, [LogNext]_allVars, ~Push, ~Deliver
    PROVE  Handling /\ next' = next
<1>0. next \in 1..(MaxRecords + 1)
  BY DEF TypeOK
<1>1. CASE Finish \/ Ended \/ UNCHANGED allVars
  BY <1>0, <1>1 DEF Finish, Ended, Stopped, allVars, vars, Elsewhere, Handling
<1>2. CASE Swap
  BY <1>2 DEF Swap, TakeBatch, Handling
<1>3. CASE Prepare \/ PrepareFails
  BY <1>3 DEF Prepare, PrepareFails, Fetch, RemoveOldest, ChoosePath, OpenPath, OpenFails, Handling
<1>4. CASE Spill
  BY <1>4 DEF Spill, Spills, WriteOut, Handling
<1>5. CASE Leave
  BY <1>5 DEF Leave, Quit, BatchEnd, Handling
<1>6. CASE Die \/ StartAgain
  BY <1>6 DEF Die, StartAgain, Crash, Restart, Handling
<1> QED
  BY <1>1, <1>2, <1>3, <1>4, <1>5, <1>6 DEF LogNext

LEMMA LogNextIsDirStep == TypeOK /\ LogTypeOK /\ [LogNext]_allVars => DirStep
<1> SUFFICES ASSUME TypeOK, LogTypeOK, [LogNext]_allVars PROVE DirStep
  OBVIOUS
<1>1. CASE Push
  BY <1>1, PushIsElsewhere DEF DirStep, Handling
<1>2. CASE Deliver
  <2>1. Head(batch) \in 1..MaxRecords
    BY <1>2, DeliverWritesOne, QueueTypes
  <2> QED
    BY <1>2, <2>1, DeliverWritesOne DEF DirStep, Handling
<1> QED
  BY <1>1, <1>2, OtherLogSteps DEF DirStep
------------------------------------------------------------------------------
(* The inductive invariant.                                                  *)

LEMMA LogTypesStep == TypeOK /\ LogTypeOK /\ [LogNext]_allVars => LogTypeOK'
<1> SUFFICES ASSUME TypeOK, LogTypeOK, [LogNext]_allVars PROVE LogTypeOK'
  OBVIOUS
<1>0. <<>> \in Seq(1..MaxRecords)
  OBVIOUS
<1>1. CASE Push
  <2>1. next \in 1..MaxRecords
    BY <1>1, PushIsElsewhere
  <2>2. Append(queue, next) \in Seq(1..MaxRecords)
    BY <2>1 DEF LogTypeOK
  <2> QED
    BY <1>1, <2>2 DEF Push, LogTypeOK
<1>2. CASE Swap
  BY <1>0, <1>2 DEF Swap, LogTypeOK
<1>3. CASE Deliver
  <2>1. batch' \in Seq(1..MaxRecords)
    BY <1>3, QueueTypes DEF Deliver
  <2> QED
    BY <1>3, <2>1 DEF Deliver, LogTypeOK
<1>4. CASE Die \/ StartAgain
  BY <1>0, <1>4 DEF Die, StartAgain, LogTypeOK
<1>5. CASE Finish
  BY <1>5 DEF Finish, LogTypeOK
<1>6. CASE Prepare \/ PrepareFails \/ Spill \/ Leave \/ Ended \/ UNCHANGED allVars
  BY <1>6 DEF Prepare, PrepareFails, Spill, Leave, Ended, allVars, logVars, LogTypeOK
<1> QED
  BY <1>1, <1>2, <1>3, <1>4, <1>5, <1>6 DEF LogNext

LEMMA WorkerStep ==
    LogTypeOK /\ WorkerInv /\ [LogNext]_allVars => WorkerInv'
<1> SUFFICES ASSUME LogTypeOK, WorkerInv, [LogNext]_allVars PROVE WorkerInv'
  OBVIOUS
<1>1. CASE Push
  BY <1>1 DEF Push, WorkerInv
<1>2. CASE Finish
  BY <1>2 DEF Finish, vars, WorkerInv
<1>3. CASE Swap
  BY <1>3 DEF Swap, TakeBatch, WorkerInv, LogTypeOK
<1>4. CASE Prepare \/ PrepareFails
  BY <1>4 DEF Prepare, PrepareFails, Fetch, RemoveOldest, ChoosePath, OpenPath, OpenFails,
              logVars, WorkerInv
<1>5. CASE Deliver
  BY <1>5 DEF Deliver, WriteToLastFile, vars, WorkerInv
<1>6. CASE Spill
  BY <1>6 DEF Spill, WriteOut, logVars, WorkerInv
<1>7. CASE Leave
  BY <1>7 DEF Leave, Quit, BatchEnd, logVars, WorkerInv
<1>8. CASE Die
  BY <1>8 DEF Die, Crash, WorkerInv
<1>9. CASE StartAgain
  BY <1>9 DEF StartAgain, Restart, WorkerInv
<1>10. CASE Ended \/ UNCHANGED allVars
  BY <1>10 DEF Ended, Stopped, allVars, vars, logVars, WorkerInv
<1> QED
  BY <1>1, <1>2, <1>3, <1>4, <1>5, <1>6, <1>7, <1>8, <1>9, <1>10 DEF LogNext

\* What each step does to the records: a push adds the next to the queue, and every
\* other step moves them towards the disk or gives them up.
LEMMA RecordsOfPush ==
    ASSUME LogTypeOK, HeldInOrder, AllBelow, Push, next \in 1..MaxRecords
    PROVE  /\ OnDisk' = OnDisk /\ Buffered' = Buffered
           /\ disk' = disk /\ pending' = pending /\ batch' = batch
           /\ ToSet(queue') = ToSet(queue) \cup {next} /\ Rising(queue')
<1>1. disk' = disk /\ pending' = pending /\ batch' = batch /\ queue' = Append(queue, next)
  BY DEF Push
<1>2. queue \in Seq(Int) /\ next \in Int /\ Rising(queue) /\ \A r \in ToSet(queue) : r < next
  BY QueueTypes DEF HeldInOrder, AllBelow, Queued
<1>3. ToSet(queue') = ToSet(queue) \cup {next} /\ Rising(queue')
  BY <1>1, <1>2, ElementsOfAppend
<1> QED
  BY <1>1, <1>3 DEF OnDisk, Buffered

LEMMA RecordsOfDeliver ==
    ASSUME TypeOK, LogTypeOK, StreamInv, HeldInOrder, Deliver
    PROVE  LET head == Head(batch)
           IN  /\ RecordsInOrder' /\ OnDisk' = OnDisk /\ queue' = queue
               /\ Buffered' = IF head \in Quiet \/ stream = NoFile THEN Buffered
                              ELSE Buffered \cup {head}
               /\ Rising(batch') /\ Precede({head}, ToSet(batch'))
               /\ ToSet(batch) = {head} \cup ToSet(batch')
<1> DEFINE head == Head(batch)
<1>1. batch # <<>> /\ batch' = Tail(batch) /\ queue' = queue
  BY DEF Deliver
<1>2. batch \in Seq(Int) /\ Rising(batch)
  BY QueueTypes DEF HeldInOrder
<1>3. /\ ToSet(batch) = {head} \cup ToSet(batch')
      /\ Rising(batch') /\ Precede({head}, ToSet(batch'))
  BY <1>1, <1>2, ElementsOfTail
<1> HIDE DEF head
<1>4. CASE head \in Quiet
  <2>1. disk' = disk /\ pending' = pending
    BY <1>4, DeliverWritesOne DEF Elsewhere, head
  <2> QED
    BY <1>1, <1>3, <1>4, <2>1 DEF head, HeldInOrder, RecordsInOrder, OnDisk, Buffered
<1>5. CASE head \notin Quiet
  <2>1. WriteOne(head) /\ head \in 1..MaxRecords
    BY <1>1, <1>5, DeliverWritesOne, QueueTypes DEF head
  <2>2. \A r \in OnDisk \cup Buffered : r < head
    BY <1>3 DEF HeldInOrder, Precede
  <2>3. /\ RecordsInOrder' /\ OnDisk' = OnDisk
        /\ Buffered' = IF stream = NoFile THEN Buffered ELSE Buffered \cup {head}
    BY <2>1, <2>2, WrittenRecords DEF HeldInOrder
  <2> QED
    BY <1>1, <1>3, <1>5, <2>3 DEF head
<1> QED
  BY <1>4, <1>5

LEMMA QueueOfOtherSteps ==
    ASSUME LogTypeOK, WorkerInv, HeldInOrder, [LogNext]_allVars, ~Push, ~Deliver
    PROVE  /\ Queued' \subseteq Queued
           /\ ~Die => Queued' = Queued
           /\ Rising(batch') /\ Rising(queue') /\ Precede(ToSet(batch'), ToSet(queue'))
<1>0. Rising(batch) /\ Rising(queue) /\ Precede(ToSet(batch), ToSet(queue))
  BY DEF HeldInOrder
<1>1. CASE Swap
  <2>1. batch = <<>> /\ batch' = queue /\ queue' = <<>>
    BY <1>1 DEF Swap, TakeBatch, WorkerInv
  <2> QED
    BY <1>0, <2>1, NothingInEmpty DEF Queued, Precede
<1>2. CASE Die
  <2>1. batch' = <<>> /\ queue' = <<>>
    BY <1>2 DEF Die
  <2> QED
    BY <1>2, <2>1, NothingInEmpty DEF Queued, Precede
<1>3. CASE \/ Finish \/ Prepare \/ PrepareFails \/ Spill \/ Leave \/ StartAgain
           \/ Ended \/ UNCHANGED allVars
  <2>1. batch' = batch /\ queue' = queue
    BY <1>3 DEF Finish, Prepare, PrepareFails, Spill, Leave, StartAgain, Ended, allVars, logVars
  <2> QED
    BY <1>0, <2>1 DEF Queued
<1> QED
  BY <1>1, <1>2, <1>3 DEF LogNext

LEMMA HeldInOrderStep ==
    ASSUME LogInv, [LogNext]_allVars
    PROVE  HeldInOrder' /\ AllBelow'
<1>0. /\ TypeOK /\ Cleaning /\ Chosen /\ StreamInv /\ LogTypeOK /\ WorkerInv
      /\ HeldInOrder /\ AllBelow /\ RecordsInOrder
  BY DEF LogInv, DirInv, HeldInOrder
<1>1. /\ Rising(batch) /\ Rising(queue) /\ Precede(ToSet(batch), ToSet(queue))
      /\ Precede(OnDisk \cup Buffered, ToSet(batch) \cup ToSet(queue))
      /\ \A r \in OnDisk \cup Buffered \cup ToSet(batch) \cup ToSet(queue) : r < next
  BY <1>0 DEF HeldInOrder, AllBelow, Queued
<1>2. CASE Push
  <2>1. next \in 1..MaxRecords /\ next' = next + 1
    BY <1>0, <1>2, PushIsElsewhere
  <2>2. /\ OnDisk' = OnDisk /\ Buffered' = Buffered
        /\ disk' = disk /\ pending' = pending /\ batch' = batch
        /\ ToSet(queue') = ToSet(queue) \cup {next} /\ Rising(queue')
    BY <1>0, <1>2, <2>1, RecordsOfPush
  <2>3. RecordsInOrder'
    BY <1>0, <2>2 DEF RecordsInOrder
  <2>4. Precede(OnDisk' \cup Buffered', ToSet(batch') \cup ToSet(queue'))
    BY <1>1, <2>2 DEF Precede
  <2>5. Precede(ToSet(batch'), ToSet(queue'))
    BY <1>1, <2>2 DEF Precede
  <2>6. HeldInOrder'
    BY <1>1, <2>2, <2>3, <2>4, <2>5 DEF HeldInOrder
  <2>7. OnDisk \cup Buffered \cup Queued \subseteq Int
    BY <1>0, RecordTypes, QueueTypes
  <2>8. \A r \in OnDisk \cup Buffered \cup Queued \cup {next} : r < next + 1
    BY <1>0, <2>1, <2>7 DEF AllBelow
  <2>9. Queued' = Queued \cup {next}
    BY <2>2 DEF Queued
  <2> QED
    BY <2>1, <2>2, <2>6, <2>8, <2>9 DEF AllBelow
<1>3. CASE Deliver
  <2> DEFINE head == Head(batch)
  <2>1. /\ RecordsInOrder' /\ OnDisk' = OnDisk /\ queue' = queue
        /\ Buffered' \subseteq Buffered \cup {head}
        /\ Rising(batch') /\ Precede({head}, ToSet(batch'))
        /\ ToSet(batch) = {head} \cup ToSet(batch')
    BY <1>0, <1>3, RecordsOfDeliver
  <2>2. next' = next
    BY <1>0, <1>3, DeliverWritesOne
  <2> HIDE DEF head
  <2>3. Precede(ToSet(batch'), ToSet(queue'))
    BY <1>1, <2>1 DEF Precede
  <2>4. Precede(OnDisk' \cup Buffered', ToSet(batch') \cup ToSet(queue'))
    BY <1>1, <2>1 DEF Precede
  <2>5. HeldInOrder'
    BY <1>1, <2>1, <2>3, <2>4 DEF HeldInOrder
  <2> QED
    BY <1>1, <2>1, <2>2, <2>5 DEF AllBelow, Queued
<1>4. CASE ~Push /\ ~Deliver
  <2>1. Handling /\ next' = next
    BY <1>0, <1>4, OtherLogSteps
  <2>2. RecordsInOrder' /\ OnDisk' \cup Buffered' \subseteq OnDisk \cup Buffered
    BY <1>0, <2>1, HandlingKeepsRecords
  <2>3. /\ Queued' \subseteq Queued
        /\ Rising(batch') /\ Rising(queue') /\ Precede(ToSet(batch'), ToSet(queue'))
    BY <1>0, <1>4, QueueOfOtherSteps
  <2>4. Precede(OnDisk \cup Buffered, Queued)
    BY <1>1 DEF Queued
  <2>5. Precede(OnDisk' \cup Buffered', Queued')
    BY <2>2, <2>3, <2>4 DEF Precede
  <2>6. HeldInOrder'
    BY <2>2, <2>3, <2>5 DEF HeldInOrder, Queued
  <2> QED
    BY <1>0, <2>1, <2>2, <2>3, <2>6 DEF AllBelow
<1> QED
  BY <1>2, <1>3, <1>4

LEMMA LogInitInv == LogInit => LogInv
<1> SUFFICES ASSUME LogInit PROVE LogInv
  OBVIOUS
<1>1. OrderInv
  BY InitOrderInv DEF LogInit
<1>2. queue = <<>> /\ batch = <<>> /\ finish = FALSE /\ stop = FALSE /\ crashed = FALSE
  BY DEF LogInit
<1>3. LogTypeOK
  <2>1. <<>> \in Seq(1..MaxRecords)
    OBVIOUS
  <2>2. queue \in Seq(1..MaxRecords) /\ batch \in Seq(1..MaxRecords)
    BY <1>2, <2>1
  <2>3. finish \in BOOLEAN /\ stop \in BOOLEAN /\ crashed \in BOOLEAN
    BY <1>2
  <2> QED
    BY <2>2, <2>3 DEF LogTypeOK
<1>4. WorkerInv
  BY <1>2 DEF WorkerInv, LogInit, Init
<1>5. HeldInOrder /\ AllBelow
  BY <1>1, <1>2, NothingInEmpty DEF OrderInv, Below, HeldInOrder, AllBelow, Queued, Precede
<1> QED
  BY <1>1, <1>3, <1>4, <1>5 DEF OrderInv, LogInv

LEMMA LogInvStep == LogInv /\ [LogNext]_allVars => LogInv'
<1> SUFFICES ASSUME LogInv, [LogNext]_allVars PROVE LogInv'
  OBVIOUS
<1>1. TypeOK /\ Cleaning /\ Chosen /\ StreamInv /\ LogTypeOK /\ WorkerInv /\ DirStep
  BY LogNextIsDirStep DEF LogInv, DirInv
<1>2. DirInv' /\ StreamInv' /\ LogTypeOK' /\ WorkerInv'
  BY <1>1, DirInvStep, StreamInvStep, LogTypesStep, WorkerStep DEF LogInv
<1> QED
  BY <1>2, HeldInOrderStep DEF LogInv

THEOREM LogInvHolds == LogSpec => []LogInv
BY LogInitInv, LogInvStep, PTL DEF LogSpec

\* Whatever the prefixes and limits: from the oldest file to the back of the queue the
\* records are in the order of their pushes, through rotation, crashes and restarts.
THEOREM RecordsAreHeldInOrder == LogSpec => []HeldInOrder
<1>1. LogInv => HeldInOrder
  BY DEF LogInv
<1> QED
  BY <1>1, LogInvHolds, PTL
------------------------------------------------------------------------------
(* What the steps do to the log as a whole.                                  *)

\* No record below the file's level reaches the stream.
NoneQuiet == (OnDisk \cup Buffered) \cap Quiet = {}

\* No record that was refused is anywhere; the rest of a batch that is written to no
\* file is refused, and no other batch is.
RefusedInv ==
    /\ refused \subseteq Logged
    /\ refused \cap (OnDisk \cup Buffered) = {}
    /\ refused \cap ToSet(queue) = {}
    /\ phase = "write" /\ stream = NoFile => Shown(ToSet(batch)) \subseteq refused
    /\ ~(phase = "write" /\ stream = NoFile) => refused \cap ToSet(batch) = {}

\* With one prefix and room for a file, nothing that is open goes.
OneLogInv ==
    /\ LogInv /\ NoneQuiet /\ RefusedInv /\ EnoughStay /\ OlderFull
    /\ MaxFiles # 0 => StreamThere

NotOnDisk == Buffered \cup Waiting

\* A push: the next record joins those that wait, if it is to be shown.
Pushed ==
    /\ next' = next + 1 /\ next \in 1..MaxRecords
    /\ OnDisk' = OnDisk /\ Buffered' = Buffered /\ Waiting' = Waiting \cup Shown({next})
    /\ crashed' = crashed /\ refused' = refused

\* Records move on towards the disk, the oldest first.
Moved ==
    /\ next' = next /\ crashed' = crashed /\ refused' = refused
    /\ Held' = Held /\ NotOnDisk' \subseteq NotOnDisk
    /\ Precede(NotOnDisk \ NotOnDisk', NotOnDisk')

\* The oldest records are removed from the disk.
Trimmed ==
    /\ RemoveOldest /\ next' = next /\ crashed' = crashed /\ refused' = refused
    /\ OnDisk' \subseteq OnDisk /\ NotOnDisk' = NotOnDisk
    /\ Precede(OnDisk \ OnDisk', OnDisk')

\* The oldest of those that wait are refused.
SomeRefused ==
    /\ next' = next /\ crashed' = crashed
    /\ Waiting' \subseteq Waiting /\ Precede(Waiting \ Waiting', Waiting')
    /\ refused \subseteq refused' /\ Waiting \ Waiting' \subseteq refused'

\* They are refused for want of a file; what the stream had is on disk.
Dropped ==
    /\ OpenMayFail /\ SomeRefused
    /\ OnDisk' = OnDisk \cup Buffered /\ Buffered' = {}

\* With max_files_count = 0 the open file went, and with it what its stream had.
Emptied ==
    /\ SomeRefused
    /\ MaxFiles = 0 /\ OnDisk = {} /\ OnDisk' = {} /\ Buffered' = {}

\* Of a process that dies only the disk stays.
Died ==
    /\ next' = next /\ crashed'
    /\ OnDisk' = OnDisk /\ NotOnDisk' = {}

LEMMA HeldParts ==
    ASSUME LogInv
    PROVE  /\ Held = OnDisk \cup NotOnDisk /\ OnDisk \cap NotOnDisk = {}
           /\ Held \subseteq 1..MaxRecords /\ \A r \in Held : r < next
           /\ Precede(OnDisk, NotOnDisk) /\ Precede(Buffered, Waiting)
<1>0. TypeOK /\ LogTypeOK /\ HeldInOrder /\ AllBelow
  BY DEF LogInv, DirInv
<1>1. Waiting \subseteq Queued
  BY DEF Waiting, Shown, Queued
<1>2. Held = OnDisk \cup NotOnDisk
  BY DEF Held, NotOnDisk
<1>3. OnDisk \subseteq 1..MaxRecords /\ NotOnDisk \subseteq 1..MaxRecords
  BY <1>0, <1>1, RecordTypes, QueueTypes DEF NotOnDisk
<1>4. Precede(OnDisk, NotOnDisk) /\ Precede(Buffered, Waiting)
  BY <1>0, <1>1 DEF HeldInOrder, RecordsInOrder, Precede, NotOnDisk, Queued
<1>5. ASSUME NEW r \in OnDisk \cap NotOnDisk PROVE FALSE
  <2>1. r < r /\ r \in Int
    BY <1>3, <1>4, <1>5 DEF Precede
  <2> QED
    BY <2>1
<1>6. \A r \in Held : r < next
  BY <1>0, <1>1, <1>2 DEF AllBelow, NotOnDisk
<1> QED
  BY <1>2, <1>3, <1>4, <1>5, <1>6

\* Steps that leave the files, the buffer and what waits alone.
LEMMA SameRecords ==
    ASSUME next' = next, crashed' = crashed, refused' = refused,
           OnDisk' = OnDisk, Buffered' = Buffered, Waiting' = Waiting
    PROVE  Moved
BY DEF Moved, Held, NotOnDisk, Precede

LEMMA DeliverMoves ==
    ASSUME LogInv, RefusedInv, Deliver
    PROVE  Moved
<1> DEFINE head == Head(batch)
<1>0. TypeOK /\ LogTypeOK /\ StreamInv /\ WorkerInv /\ HeldInOrder
  BY DEF LogInv, DirInv
<1>1. next' = next /\ crashed' = crashed /\ refused' = refused /\ phase = "write"
  BY <1>0, DeliverWritesOne DEF Deliver
<1>2. /\ OnDisk' = OnDisk /\ queue' = queue
      /\ Buffered' = IF head \in Quiet \/ stream = NoFile THEN Buffered ELSE Buffered \cup {head}
      /\ ToSet(batch) = {head} \cup ToSet(batch')
  BY <1>0, RecordsOfDeliver
<1> HIDE DEF head
<1>3. Waiting' = Shown(ToSet(batch') \cup ToSet(queue)) \ refused
  BY <1>1, <1>2 DEF Waiting, Shown
<1>4. CASE head \in Quiet
  <2>1. Waiting' = Waiting
    BY <1>2, <1>3, <1>4 DEF Waiting, Shown
  <2> QED
    BY <1>1, <1>2, <1>4, <2>1, SameRecords
<1>5. CASE head \notin Quiet /\ stream = NoFile
  <2>1. head \in refused
    BY <1>1, <1>2, <1>5 DEF RefusedInv, Shown
  <2>2. Waiting' = Waiting
    BY <1>2, <1>3, <2>1 DEF Waiting, Shown
  <2> QED
    BY <1>1, <1>2, <1>5, <2>2, SameRecords
<1>6. CASE head \notin Quiet /\ stream # NoFile
  <2>0. head \notin refused
    BY <1>2, <1>6 DEF RefusedInv
  <2>1. Waiting = {head} \cup Waiting'
    BY <1>2, <1>3, <1>6, <2>0 DEF Waiting, Shown
  <2>2. NotOnDisk' = NotOnDisk
    BY <1>2, <1>6, <2>1 DEF NotOnDisk
  <2>3. Held' = Held
    BY <1>2, <1>6, <2>1 DEF Held
  <2> QED
    BY <1>1, <2>2, <2>3 DEF Moved, Precede
<1> QED
  BY <1>4, <1>5, <1>6

LEMMA SpillMoves ==
    ASSUME LogInv, Spill
    PROVE  Moved
<1>0. TypeOK /\ StreamInv /\ RecordsInOrder /\ Spills
  BY DEF LogInv, DirInv, HeldInOrder, Spill, Spills
<1>1. /\ OnDisk' \cup Buffered' = OnDisk \cup Buffered
      /\ Buffered' \subseteq Buffered /\ Precede(Buffered \ Buffered', Buffered')
  BY <1>0, SpilledRecords
<1>2. next' = next /\ crashed' = crashed /\ refused' = refused /\ Waiting' = Waiting
  BY DEF Spill, WriteOut, logVars, Waiting, Shown
<1>3. Held' = Held
  BY <1>1, <1>2 DEF Held
<1>4. Precede(Buffered, Waiting)
  BY HeldParts
<1>5. NotOnDisk' \subseteq NotOnDisk /\ Precede(NotOnDisk \ NotOnDisk', NotOnDisk')
  BY <1>1, <1>2, <1>4 DEF NotOnDisk, Precede
<1> QED
  BY <1>2, <1>3, <1>5 DEF Moved

\* The stream is closed: what it had is on disk, or the file was removed.
LEMMA ClosingStream ==
    ASSUME OneLogInv, OpenPath \/ OpenFails \/ Quit
    PROVE  /\ Buffered' = {}
           /\ \/ OnDisk' = OnDisk \cup Buffered
              \/ MaxFiles = 0 /\ OnDisk = {} /\ OnDisk' = {}
<1>0. /\ LogInv /\ TypeOK /\ Chosen /\ StreamInv /\ WorkerInv /\ RecordsInOrder
      /\ (MaxFiles # 0 => StreamThere)
  BY DEF OneLogInv, LogInv, DirInv, HeldInOrder
<1>1. /\ Buffered' = {}
      /\ OnDisk' = IF stream \in DOMAIN disk THEN OnDisk \cup Buffered ELSE OnDisk
  BY <1>0, ClosingRecords
<1>2. CASE stream \in DOMAIN disk \/ Buffered = {}
  BY <1>1, <1>2
<1>3. CASE stream \notin DOMAIN disk /\ Buffered # {}
  <2>1. stream # NoFile
    BY <1>0, <1>3, NothingInEmpty DEF StreamInv, Buffered
  <2>2. MaxFiles = 0
    BY <1>0, <1>3, <2>1 DEF StreamThere
  <2>3. ~Quit
    BY <1>0, <1>3, <2>1 DEF Quit, StreamInv
  <2>4. Cardinality(DOMAIN disk) <= 0 /\ IsFiniteSet(DOMAIN disk)
    BY <1>0, <2>2, <2>3 DEF OpenPath, OpenFails, Chosen, TypeOK
  <2>5. DOMAIN disk = {}
    BY <2>4, FS_EmptySet, FS_CardinalityType
  <2>6. OnDisk = {}
    BY <2>5 DEF OnDisk
  <2> QED
    BY <1>1, <1>3, <2>2, <2>6
<1> QED
  BY <1>2, <1>3

LEMMA ClosingMoves ==
    ASSUME OneLogInv, OpenPath \/ Quit, UNCHANGED logVars
    PROVE  Moved \/ Emptied
<1>1. /\ Buffered' = {}
      /\ \/ OnDisk' = OnDisk \cup Buffered
         \/ MaxFiles = 0 /\ OnDisk = {} /\ OnDisk' = {}
  BY ClosingStream
<1>2. next' = next /\ crashed' = crashed /\ refused' = refused /\ Waiting' = Waiting
  BY DEF OpenPath, Quit, logVars, Waiting, Shown
<1>3. CASE OnDisk' = OnDisk \cup Buffered
  <2>1. Held' = Held /\ NotOnDisk' = Waiting /\ NotOnDisk \ NotOnDisk' \subseteq Buffered
    BY <1>1, <1>2, <1>3 DEF Held, NotOnDisk
  <2>2. Precede(Buffered, Waiting)
    BY HeldParts DEF OneLogInv
  <2> QED
    BY <1>2, <2>1, <2>2 DEF Moved, Precede, NotOnDisk
<1>4. CASE MaxFiles = 0 /\ OnDisk = {} /\ OnDisk' = {}
  BY <1>1, <1>2, <1>4 DEF Emptied, SomeRefused, Precede
<1> QED
  BY <1>1, <1>3, <1>4

LEMMA FailingDrops ==
    ASSUME OneLogInv, PrepareFails
    PROVE  Dropped \/ Emptied
<1>1. /\ Buffered' = {}
      /\ \/ OnDisk' = OnDisk \cup Buffered
         \/ MaxFiles = 0 /\ OnDisk = {} /\ OnDisk' = {}
  BY ClosingStream DEF PrepareFails
<1>2. /\ next' = next /\ crashed' = crashed /\ OpenMayFail
      /\ batch' = batch /\ queue' = queue /\ refused' = refused \cup Shown(ToSet(batch))
  BY DEF PrepareFails, OpenFails
<1>3. Waiting' = Waiting \ Shown(ToSet(batch))
  BY <1>2 DEF Waiting, Shown
<1>4. Precede(ToSet(batch), ToSet(queue))
  BY DEF OneLogInv, LogInv, HeldInOrder
<1>5. Waiting' \subseteq ToSet(queue) /\ Waiting \ Waiting' \subseteq Shown(ToSet(batch))
  BY <1>3 DEF Waiting, Shown
<1>6. Precede(Waiting \ Waiting', Waiting')
  BY <1>4, <1>5 DEF Precede, Shown
<1>7. SomeRefused
  BY <1>2, <1>3, <1>5, <1>6 DEF SomeRefused
<1> QED
  BY <1>1, <1>2, <1>7 DEF Dropped, Emptied

LEMMA RemovalTrims ==
    ASSUME OnePrefix, LogInv, RemoveOldest, UNCHANGED logVars
    PROVE  Trimmed
<1>1. OnDisk' \subseteq OnDisk /\ Buffered' = Buffered /\ Precede(OnDisk \ OnDisk', OnDisk')
  BY RemovalRecords DEF LogInv, DirInv, HeldInOrder
<1>2. next' = next /\ crashed' = crashed /\ refused' = refused /\ Waiting' = Waiting
  BY DEF RemoveOldest, logVars, Waiting, Shown
<1> QED
  BY <1>1, <1>2 DEF Trimmed, NotOnDisk

LEMMA DieDies ==
    ASSUME LogInv, Die
    PROVE  Died
<1>1. OnDisk' = OnDisk /\ Buffered' = {}
  BY CrashRecords DEF LogInv, HeldInOrder, Die
<1>2. Waiting' = {}
  BY NothingInEmpty DEF Die, Waiting, Shown
<1> QED
  BY <1>1, <1>2 DEF Died, NotOnDisk, Die, Crash

LEMMA PushPushes ==
    ASSUME LogInv, RefusedInv, Push
    PROVE  Pushed
<1>0. TypeOK /\ LogTypeOK /\ HeldInOrder /\ AllBelow
  BY DEF LogInv, DirInv
<1>1. next \in 1..MaxRecords /\ next' = next + 1
  BY <1>0, PushIsElsewhere
<1>2. /\ OnDisk' = OnDisk /\ Buffered' = Buffered /\ batch' = batch
      /\ ToSet(queue') = ToSet(queue) \cup {next}
  BY <1>0, <1>1, RecordsOfPush
<1>3. next \notin refused /\ refused' = refused
  BY <1>1 DEF RefusedInv, Logged, Shown, Push
<1>4. Waiting' = Waiting \cup Shown({next})
  BY <1>2, <1>3 DEF Waiting, Shown
<1> QED
  BY <1>1, <1>2, <1>3, <1>4 DEF Pushed, Push

LEMMA StepOfLog ==
    ASSUME OnePrefix, OneLogInv, [LogNext]_allVars
    PROVE  Pushed \/ Moved \/ Trimmed \/ Dropped \/ Emptied \/ Died
<1>0. LogInv /\ RefusedInv /\ LogTypeOK /\ WorkerInv /\ HeldInOrder
  BY DEF OneLogInv, LogInv
<1>1. CASE Push
  BY <1>0, <1>1, PushPushes
<1>2. CASE Deliver
  BY <1>0, <1>2, DeliverMoves
<1>3. CASE Spill
  BY <1>0, <1>3, SpillMoves
<1>4. CASE Die
  BY <1>0, <1>4, DieDies
<1>5. CASE Prepare /\ RemoveOldest
  BY <1>0, <1>5, RemovalTrims DEF Prepare
<1>6. CASE (Prepare /\ OpenPath) \/ (Leave /\ Quit)
  BY <1>6, ClosingMoves DEF Prepare, Leave
<1>7. CASE \/ Finish \/ Swap \/ StartAgain \/ Ended \/ UNCHANGED allVars
           \/ (Prepare /\ (Fetch \/ ChoosePath)) \/ (Leave /\ BatchEnd)
  <2>1. /\ disk' = disk /\ pending' = pending /\ next' = next
        /\ crashed' = crashed /\ refused' = refused
    BY <1>7 DEF Finish, Swap, TakeBatch, StartAgain, Restart, Ended, Stopped, allVars, vars,
                logVars, Prepare, Fetch, ChoosePath, Leave, BatchEnd
  <2>2. CASE Swap
    <3>1. batch = <<>> /\ batch' = queue /\ queue' = <<>>
      BY <1>0, <2>2 DEF Swap, TakeBatch, WorkerInv
    <3> QED
      BY <2>1, <3>1, NothingInEmpty, SameRecords DEF Waiting, Shown, OnDisk, Buffered
  <2>3. CASE ~Swap
    <3>1. batch' = batch /\ queue' = queue
      BY <1>7, <2>3 DEF Finish, StartAgain, Ended, allVars, logVars, Prepare, Leave
    <3> QED
      BY <2>1, <3>1, SameRecords DEF Waiting, Shown, OnDisk, Buffered
  <2> QED
    BY <2>2, <2>3
<1>8. CASE PrepareFails
  BY <1>8, FailingDrops
<1> QED
  BY <1>1, <1>2, <1>3, <1>4, <1>5, <1>6, <1>7, <1>8 DEF LogNext, Prepare, Leave
------------------------------------------------------------------------------
LEMMA NoneQuietStep == LogInv /\ NoneQuiet /\ [LogNext]_allVars => NoneQuiet'
<1> SUFFICES ASSUME LogInv, NoneQuiet, [LogNext]_allVars PROVE NoneQuiet'
  OBVIOUS
<1>0. /\ TypeOK /\ Cleaning /\ Chosen /\ LogTypeOK /\ StreamInv /\ WorkerInv
      /\ HeldInOrder /\ RecordsInOrder /\ AllBelow
  BY DEF LogInv, DirInv, HeldInOrder
<1>1. CASE Push
  BY <1>0, <1>1, PushIsElsewhere, RecordsOfPush DEF NoneQuiet
<1>2. CASE Deliver
  BY <1>0, <1>2, RecordsOfDeliver DEF NoneQuiet
<1>3. CASE ~Push /\ ~Deliver
  BY <1>0, <1>3, OtherLogSteps, HandlingKeepsRecords DEF NoneQuiet
<1> QED
  BY <1>1, <1>2, <1>3

LEMMA RefusedInvStep == LogInv /\ RefusedInv /\ [LogNext]_allVars => RefusedInv'
<1> SUFFICES ASSUME LogInv, RefusedInv, [LogNext]_allVars PROVE RefusedInv'
  OBVIOUS
<1>0. /\ TypeOK /\ Cleaning /\ Chosen /\ LogTypeOK /\ StreamInv /\ WorkerInv
      /\ HeldInOrder /\ RecordsInOrder /\ AllBelow /\ next \in Nat
  BY DEF LogInv, DirInv, HeldInOrder, TypeOK
<1>1. CASE Push
  <2>1. /\ OnDisk' = OnDisk /\ Buffered' = Buffered /\ batch' = batch
        /\ ToSet(queue') = ToSet(queue) \cup {next}
        /\ refused' = refused /\ phase' = phase /\ stream' = stream
    BY <1>0, <1>1, PushIsElsewhere, RecordsOfPush DEF Push
  <2>2. next \notin refused
    BY <1>0 DEF RefusedInv, Logged, Shown
  <2>3. Logged \subseteq Logged'
    BY <1>0, <1>1, PushIsElsewhere DEF Logged, Shown
  <2> QED
    BY <2>1, <2>2, <2>3 DEF RefusedInv, Shown
<1>2. CASE Deliver
  <2> DEFINE head == Head(batch)
  <2>1. /\ OnDisk' = OnDisk /\ queue' = queue
        /\ Buffered' = IF head \in Quiet \/ stream = NoFile THEN Buffered
                       ELSE Buffered \cup {head}
        /\ ToSet(batch) = {head} \cup ToSet(batch')
    BY <1>0, <1>2, RecordsOfDeliver
  <2>2. next' = next /\ phase' = phase /\ phase = "write"
    BY <1>0, <1>2, DeliverWritesOne
  <2>3. refused' = refused /\ stream' = stream
    BY <1>2 DEF Deliver, WriteToLastFile, vars
  <2> HIDE DEF head
  <2>4. stream # NoFile => head \notin refused
    BY <2>1 DEF RefusedInv
  <2>5. refused' \cap (OnDisk' \cup Buffered') = {}
    BY <2>1, <2>3, <2>4 DEF RefusedInv
  <2> QED
    BY <2>1, <2>2, <2>3, <2>5 DEF RefusedInv, Logged, Shown
<1>3. CASE ~Push /\ ~Deliver
  <2>1. /\ next' = next /\ OnDisk' \cup Buffered' \subseteq OnDisk \cup Buffered
        /\ Queued' \subseteq Queued
    BY <1>0, <1>3, OtherLogSteps, HandlingKeepsRecords, QueueOfOtherSteps
  <2>2. Logged' = Logged
    BY <2>1 DEF Logged, Shown
  <2>3. CASE PrepareFails
    <3>1. /\ batch' = batch /\ queue' = queue /\ refused' = refused \cup Shown(ToSet(batch))
          /\ phase = "open" /\ phase' = "write" /\ stream' = NoFile
      BY <2>3 DEF PrepareFails, OpenFails
    <3>2. Shown(ToSet(batch)) \subseteq Logged
      <4>1. \A r \in ToSet(batch) : r \in 1..MaxRecords /\ r < next
        BY <1>0, QueueTypes DEF AllBelow, Queued
      <4>2. \A r \in ToSet(batch) : r \in 1..(next - 1)
        BY <1>0, <4>1
      <4> QED
        BY <4>2 DEF Logged, Shown
    <3>3. ToSet(batch) \cap (OnDisk \cup Buffered \cup ToSet(queue)) = {}
      <4>1. ToSet(batch) \subseteq Int
        BY <1>0, QueueTypes DEF Queued
      <4>2. \A r \in ToSet(batch), s \in OnDisk \cup Buffered : s < r
        BY <1>0 DEF HeldInOrder, Precede
      <4>3. \A r \in ToSet(batch), s \in ToSet(queue) : r < s
        BY <1>0 DEF HeldInOrder, Precede
      <4>4. \A r \in ToSet(batch) : ~(r < r)
        BY <4>1
      <4> QED
        BY <4>2, <4>3, <4>4
    <3>4. refused' \cap (OnDisk' \cup Buffered') = {}
      BY <2>1, <3>1, <3>3 DEF RefusedInv, Shown
    <3> QED
      BY <2>2, <3>1, <3>2, <3>3, <3>4 DEF RefusedInv, Shown
  <2>4. CASE ~PrepareFails
    <3>1. refused' = refused
      BY <1>3, <2>4 DEF LogNext, Finish, Swap, Prepare, Spill, Leave, Die, StartAgain, Ended,
                        allVars, logVars
    <3>2. refused' \cap (OnDisk' \cup Buffered') = {}
      BY <2>1, <3>1 DEF RefusedInv
    <3>3. CASE Swap
      <4>1. /\ batch' = queue /\ queue' = <<>> /\ phase' = "clean"
        BY <3>3 DEF Swap, TakeBatch
      <4> QED
        BY <2>2, <3>1, <3>2, <4>1, NothingInEmpty DEF RefusedInv
    <3>4. CASE Die
      <4>1. batch' = <<>> /\ queue' = <<>> /\ phase' = "off"
        BY <3>4 DEF Die, Crash
      <4> QED
        BY <2>2, <3>1, <3>2, <4>1, NothingInEmpty DEF RefusedInv
    <3>5. CASE Leave
      <4>1. batch = <<>> /\ batch' = batch /\ queue' = queue /\ phase' # "write"
        BY <3>5 DEF Leave, Quit, BatchEnd, logVars
      <4> QED
        BY <2>2, <3>1, <3>2, <4>1, NothingInEmpty DEF RefusedInv
    <3>6. CASE Prepare
      <4>1. batch' = batch /\ queue' = queue /\ phase # "write"
        BY <3>6 DEF Prepare, Fetch, RemoveOldest, ChoosePath, OpenPath, logVars
      <4>2. ~(phase' = "write" /\ stream' = NoFile)
        <5>1. CASE OpenPath
          <6>1. path.no \in Nat \ {0}
            BY <1>0, <5>1, OpenPathFacts DEF Files
          <6>2. NoFile.no = 0
            BY DEF NoFile
          <6> QED
            BY <5>1, <6>1, <6>2 DEF OpenPath
        <5>2. CASE ~OpenPath
          BY <3>6, <5>2 DEF Prepare, Fetch, RemoveOldest, ChoosePath
        <5> QED
          BY <5>1, <5>2
      <4> QED
        BY <2>2, <3>1, <3>2, <4>1, <4>2 DEF RefusedInv
    <3>7. CASE StartAgain
      <4>1. batch' = batch /\ queue' = queue /\ phase = "off" /\ phase' = "idle"
        BY <3>7 DEF StartAgain, Restart
      <4> QED
        BY <2>2, <3>1, <3>2, <4>1 DEF RefusedInv
    <3>8. CASE Finish \/ Spill \/ Ended \/ UNCHANGED allVars
      <4>1. batch' = batch /\ queue' = queue /\ phase' = phase /\ stream' = stream
        BY <3>8 DEF Finish, Spill, WriteOut, Ended, Stopped, allVars, vars, logVars
      <4> QED
        BY <2>2, <3>1, <3>2, <4>1 DEF RefusedInv
    <3> QED
      BY <1>3, <2>4, <3>3, <3>4, <3>5, <3>6, <3>7, <3>8 DEF LogNext
  <2> QED
    BY <2>3, <2>4
<1> QED
  BY <1>1, <1>2, <1>3

LEMMA OneLogInvStep ==
    ASSUME OnePrefix, OneLogInv, [LogNext]_allVars
    PROVE  OneLogInv'
<1>1. /\ TypeOK /\ Cleaning /\ Chosen /\ StreamInv /\ DirStep /\ LogInv /\ NoneQuiet
      /\ RefusedInv /\ EnoughStay /\ OlderFull /\ (MaxFiles # 0 => StreamThere)
  BY LogNextIsDirStep DEF OneLogInv, LogInv, DirInv
<1>2. LogInv' /\ NoneQuiet' /\ RefusedInv'
  BY <1>1, LogInvStep, NoneQuietStep, RefusedInvStep
<1>3. EnoughStay' /\ OlderFull'
  BY <1>1, EnoughStayStep, OlderFullStep
<1>4. MaxFiles # 0 => StreamThere'
  BY <1>1, StreamThereStep
<1> QED
  BY <1>2, <1>3, <1>4 DEF OneLogInv

LEMMA InitOneLogInv == LogInit => OneLogInv
<1> SUFFICES ASSUME LogInit PROVE OneLogInv
  OBVIOUS
<1>1. DOMAIN disk = {} /\ pending = <<>> /\ stream = NoFile /\ phase = "idle" /\ victims = {}
  BY DEF LogInit, Init
<1>2. OnDisk = {} /\ Buffered = {}
  BY <1>1, NothingInEmpty DEF OnDisk, Buffered
<1>3. RefusedInv
  BY DEF LogInit, Init, RefusedInv
<1> QED
  BY <1>1, <1>2, <1>3, LogInitInv
     DEF OneLogInv, NoneQuiet, EnoughStay, OlderFull, StreamThere

LEMMA OneLogInvHolds == OnePrefix => (LogSpec => []OneLogInv)
<1> SUFFICES ASSUME OnePrefix PROVE LogSpec => []OneLogInv
  OBVIOUS
<1>1. OneLogInv /\ [LogNext]_allVars => OneLogInv'
  BY OneLogInvStep
<1> QED
  BY <1>1, InitOneLogInv, PTL DEF LogSpec
------------------------------------------------------------------------------
(* What is held without a crash.                                             *)

Lost == (Logged \ refused) \ Held

\* What was given up, not refused, is older than all that is held, and was given up for
\* max_files_count files of newer records.
LostInv ==
    ~crashed =>
        /\ Precede(Lost, Held)
        /\ Lost = {} \/ Cardinality(DOMAIN disk) >= MaxFiles

LEMMA HeldIsLogged ==
    ASSUME OneLogInv
    PROVE  Held \subseteq Logged \ refused
<1>1. /\ LogInv /\ TypeOK /\ (OnDisk \cup Buffered) \cap Quiet = {}
  BY DEF OneLogInv, LogInv, DirInv, NoneQuiet
<1>2. Held \cap Quiet = {}
  BY <1>1 DEF Held, Waiting, Shown
<1>3. \A r \in Held : r \in 1..MaxRecords /\ r < next
  BY <1>1, HeldParts
<1>4. next \in Nat
  BY <1>1 DEF TypeOK
<1>5. \A r \in Held : r \in 1..(next - 1)
  BY <1>3, <1>4
<1>6. Held \cap refused = {}
  BY DEF OneLogInv, RefusedInv, Held, Waiting
<1> QED
  BY <1>2, <1>5, <1>6 DEF Logged, Shown

\* One step of the order of what is lost.
LEMMA LostIsOlder ==
    ASSUME OneLogInv, Precede(Lost, Held), Pushed \/ Moved \/ Trimmed \/ Dropped \/ Emptied
    PROVE  /\ Precede(Lost', Held')
           /\ Pushed \/ Moved \/ Dropped => Lost' \subseteq Lost
<1>0. LogInv /\ next \in Nat
  BY DEF OneLogInv, LogInv, DirInv, TypeOK
<1>1. /\ Held = OnDisk \cup NotOnDisk /\ Precede(OnDisk, NotOnDisk)
      /\ Precede(Buffered, Waiting) /\ NotOnDisk = Buffered \cup Waiting
  BY <1>0, HeldParts DEF NotOnDisk
<1>2. Held' = OnDisk' \cup NotOnDisk' /\ NotOnDisk' = Buffered' \cup Waiting'
  BY DEF Held, NotOnDisk
<1>3. CASE Pushed
  <2>1. Held' = Held \cup Shown({next})
    BY <1>1, <1>2, <1>3 DEF Pushed
  <2>2. Logged' = Logged \cup Shown({next})
    <3>1. 1..(next' - 1) = 1..(next - 1) \cup {next}
      BY <1>0, <1>3 DEF Pushed
    <3> QED
      BY <3>1 DEF Logged, Shown
  <2>3. Lost' \subseteq Lost
    BY <1>3, <2>1, <2>2 DEF Lost, Pushed
  <2>4. \A r \in Lost : r < next
    BY <1>0 DEF Lost, Logged, Shown
  <2>5. Precede(Lost', Held')
    BY <2>1, <2>3, <2>4 DEF Precede, Shown
  <2> QED
    BY <2>3, <2>5
<1>4. CASE Moved
  <2>1. Logged' = Logged /\ Held' = Held /\ refused' = refused
    BY <1>4 DEF Moved, Logged, Shown
  <2> QED
    BY <2>1 DEF Lost, Precede
<1>7. CASE Dropped
  <2>1. Logged' = Logged
    BY <1>7 DEF Dropped, SomeRefused, Logged, Shown
  <2>2. /\ refused \subseteq refused' /\ Waiting' \subseteq Waiting
        /\ Waiting \ Waiting' \subseteq refused'
        /\ Held' = OnDisk \cup Buffered \cup Waiting'
    BY <1>2, <1>7 DEF Dropped, SomeRefused
  <2>3. Lost' \subseteq Lost /\ Held' \subseteq Held
    BY <1>1, <2>1, <2>2 DEF Lost
  <2> QED
    BY <2>3 DEF Precede
<1>5. CASE Trimmed
  <2>1. /\ OnDisk' \subseteq OnDisk /\ NotOnDisk' = NotOnDisk
        /\ Precede(OnDisk \ OnDisk', OnDisk')
    BY <1>5 DEF Trimmed
  <2>2. Logged' = Logged /\ refused' = refused
    BY <1>5 DEF Trimmed, Logged, Shown
  <2>3. Lost' \subseteq Lost \cup (OnDisk \ OnDisk') /\ Held' \subseteq Held
    BY <1>1, <1>2, <2>1, <2>2 DEF Lost
  <2>4. Precede(OnDisk \ OnDisk', Held')
    BY <1>1, <1>2, <2>1 DEF Precede
  <2>5. Precede(Lost', Held')
    BY <2>3, <2>4 DEF Precede
  <2> QED
    BY <1>3, <1>4, <1>7, <2>5
<1>6. CASE Emptied
  <2>1. Logged' = Logged
    BY <1>6 DEF Emptied, SomeRefused, Logged, Shown
  <2>2. /\ refused \subseteq refused' /\ Waiting' \subseteq Waiting
        /\ Waiting \ Waiting' \subseteq refused' /\ Held' = Waiting'
    BY <1>2, <1>6 DEF Emptied, SomeRefused
  <2>3. Lost' \subseteq Lost \cup Buffered /\ Held' \subseteq Waiting /\ Held' \subseteq Held
    BY <1>1, <1>6, <2>1, <2>2 DEF Lost, Emptied
  <2>4. Precede(Lost', Held')
    BY <1>1, <2>3 DEF Precede
  <2> QED
    BY <1>3, <1>4, <1>7, <2>4
<1> QED
  BY <1>3, <1>4, <1>5, <1>6, <1>7

LEMMA LostInvStep ==
    ASSUME OnePrefix, OneLogInv, OneLogInv', LostInv, [LogNext]_allVars
    PROVE  LostInv'
<1> SUFFICES ASSUME ~crashed'
             PROVE  /\ Precede(Lost', Held')
                    /\ Lost' = {} \/ Cardinality(DOMAIN disk') >= MaxFiles
  BY DEF LostInv
<1>0. /\ TypeOK /\ TypeOK' /\ Cleaning /\ Chosen /\ EnoughStay /\ DirStep
  BY LogNextIsDirStep DEF OneLogInv, LogInv, DirInv
<1>1. Pushed \/ Moved \/ Trimmed \/ Dropped \/ Emptied
  BY StepOfLog DEF Died
<1>2. ~crashed
  BY <1>1 DEF Pushed, Moved, Trimmed, Dropped, Emptied, SomeRefused
<1>3. Precede(Lost, Held) /\ (Lost = {} \/ Cardinality(DOMAIN disk) >= MaxFiles)
  BY <1>2 DEF LostInv
<1>4. Precede(Lost', Held') /\ (Pushed \/ Moved \/ Dropped => Lost' \subseteq Lost)
  BY <1>1, <1>3, LostIsOlder
<1>5. /\ IsFiniteSet(DOMAIN disk) /\ Cardinality(DOMAIN disk) \in Nat
      /\ IsFiniteSet(DOMAIN disk') /\ Cardinality(DOMAIN disk') \in Nat
      /\ IsFiniteSet(victims) /\ Cardinality(victims) \in Nat
  BY <1>0, FS_CardinalityType, FS_Subset DEF TypeOK
<1>6. CASE RemoveOldest
  <2>1. /\ Cardinality(DOMAIN disk') = Cardinality(DOMAIN disk) - 1
        /\ victims # {}
    BY <1>0, <1>6, RemovalFacts
  <2>2. Cardinality(victims) # 0
    BY <1>5, <2>1, FS_EmptySet
  <2>3. Cardinality(DOMAIN disk) - Cardinality(victims) >= MaxFiles
    BY <1>6, <2>1, <1>0 DEF RemoveOldest, EnoughStay
  <2> QED
    BY <1>4, <1>5, <2>1, <2>2, <2>3, LimitsAssumption
<1>7. CASE ~RemoveOldest
  <2>1. DOMAIN disk \subseteq DOMAIN disk'
    BY <1>0, <1>7, OtherStepsKeepFiles, OpenPathFacts
  <2>2. Cardinality(DOMAIN disk) <= Cardinality(DOMAIN disk')
    BY <1>5, <2>1, FS_Subset
  <2>3. CASE Pushed \/ Moved \/ Dropped
    BY <1>3, <1>4, <1>5, <2>2, <2>3, LimitsAssumption
  <2>4. CASE Emptied
    BY <1>4, <1>5, <2>4 DEF Emptied
  <2> QED
    BY <1>1, <1>7, <2>3, <2>4 DEF Trimmed
<1> QED
  BY <1>6, <1>7

\* Of the files at most the newest is not full.
LEMMA ManyAreFull ==
    ASSUME OnePrefix, TypeOK, OlderFull
    PROVE  Cardinality(FullFiles) >= Cardinality(DOMAIN disk) - 1
<1>0. /\ IsFiniteSet(DOMAIN disk) /\ Cardinality(DOMAIN disk) \in Nat
      /\ FullFiles \subseteq DOMAIN disk
      /\ IsFiniteSet(FullFiles) /\ Cardinality(FullFiles) \in Nat
  BY FS_Subset, FS_CardinalityType DEF TypeOK, FullFiles
<1>1. CASE \A f \in DOMAIN disk : Full(f)
  <2>1. FullFiles = DOMAIN disk
    BY <1>1 DEF FullFiles
  <2> QED
    BY <1>0, <2>1
<1>2. ASSUME NEW g \in DOMAIN disk, ~Full(g)
      PROVE  Cardinality(FullFiles) >= Cardinality(DOMAIN disk) - 1
  <2>1. ASSUME NEW f \in DOMAIN disk, f # g PROVE Full(f)
    <3>1. f \in Files /\ g \in Files /\ f.no \in Nat /\ g.no \in Nat
      BY DEF TypeOK, Files
    <3>2. f.no # g.no
      BY <2>1, <3>1, FileOfNumber
    <3>3. ~(g.no < f.no)
      BY <1>2 DEF OlderFull
    <3>4. f.no < g.no
      BY <3>1, <3>2, <3>3
    <3> QED
      BY <3>4 DEF OlderFull
  <2>2. DOMAIN disk \ {g} \subseteq FullFiles
    BY <2>1 DEF FullFiles
  <2>3. Cardinality(DOMAIN disk \ {g}) = Cardinality(DOMAIN disk) - 1
    BY <1>0, FS_RemoveElement
  <2>4. Cardinality(DOMAIN disk \ {g}) <= Cardinality(FullFiles)
    BY <1>0, <2>2, FS_Subset
  <2> QED
    BY <2>3, <2>4
<1> QED
  BY <1>1, <1>2

LEMMA NewestAreHeld ==
    ASSUME OnePrefix, OneLogInv, LostInv
    PROVE  HoldsNewest
<1> SUFFICES ASSUME ~crashed
             PROVE  /\ Held \subseteq Logged \ refused
                    /\ Precede((Logged \ refused) \ Held, Held)
                    /\ Held = Logged \ refused \/ Cardinality(FullFiles) >= MaxFiles - 1
                    /\ phase = "off" => Held = OnDisk
  BY DEF HoldsNewest
<1>0. TypeOK /\ OlderFull /\ WorkerInv /\ StreamInv
  BY DEF OneLogInv, LogInv, DirInv
<1>1. Held \subseteq Logged \ refused
  BY HeldIsLogged
<1>2. Precede(Lost, Held) /\ (Lost = {} \/ Cardinality(DOMAIN disk) >= MaxFiles)
  BY DEF LostInv
<1>3. Lost = {} => Held = Logged \ refused
  BY <1>1 DEF Lost
<1>4. Cardinality(DOMAIN disk) >= MaxFiles => Cardinality(FullFiles) >= MaxFiles - 1
  <2>1. Cardinality(FullFiles) \in Nat /\ Cardinality(DOMAIN disk) \in Nat
    BY <1>0, FS_Subset, FS_CardinalityType DEF TypeOK, FullFiles
  <2>2. Cardinality(FullFiles) >= Cardinality(DOMAIN disk) - 1
    BY <1>0, ManyAreFull
  <2> QED
    BY <2>1, <2>2, LimitsAssumption
<1>5. ASSUME phase = "off" PROVE Held = OnDisk
  <2>1. batch = <<>> /\ queue = <<>> /\ pending = <<>>
    BY <1>0, <1>5 DEF WorkerInv, StreamInv
  <2>2. Waiting = {} /\ Buffered = {}
    BY <2>1, NothingInEmpty DEF Waiting, Shown, Buffered
  <2> QED
    BY <2>2 DEF Held
<1> QED
  BY <1>1, <1>2, <1>3, <1>4, <1>5 DEF Lost

\* Started with one prefix only, and as long as no process dies, the logger loses the
\* records of the batches for which no file could be opened, and of all others it
\* holds exactly the newest, gives up older ones only for max_files_count - 1 full
\* files of newer ones, and has them all on disk when its destructor is done.
THEOREM NewestRecordsAreHeld == OnePrefix => (LogSpec => []HoldsNewest)
<1> SUFFICES ASSUME OnePrefix PROVE LogSpec => []HoldsNewest
  OBVIOUS
<1>1. LogInit => LostInv
  <2> SUFFICES ASSUME LogInit PROVE LostInv
    OBVIOUS
  <2>1. next = 1
    BY DEF LogInit, Init
  <2>2. Logged = {}
    BY <2>1 DEF Logged, Shown
  <2> QED
    BY <2>2 DEF LostInv, Lost, Precede
<1>2. OneLogInv /\ LostInv /\ [LogNext]_allVars => LostInv'
  BY OneLogInvStep, LostInvStep
<1>3. OneLogInv /\ LostInv => HoldsNewest
  BY NewestAreHeld
<1> QED
  BY <1>1, <1>2, <1>3, OneLogInvHolds, PTL DEF LogSpec
------------------------------------------------------------------------------
(* From push to disk the file logger is a RollingLog.                        *)

LEMMA SameCardinalityAgain == \A S : EndToEnd!Cardinality(S) = Cardinality(S)
BY DEF Cardinality, EndToEnd!Cardinality

LEMMA InitEndToEnd == LogInit => EndToEnd!Init
<1> SUFFICES ASSUME LogInit PROVE EndToEnd!Init
  OBVIOUS
<1>1. queue = <<>> /\ batch = <<>> /\ pending = <<>> /\ DOMAIN disk = {} /\ next = 1
  BY DEF LogInit, Init
<1>2. OnDisk = {} /\ Buffered = {} /\ Waiting = {}
  BY <1>1, NothingInEmpty DEF OnDisk, Buffered, Waiting, Shown
<1> QED
  BY <1>1, <1>2 DEF EndToEnd!Init, Held

LEMMA StepIsEndToEnd ==
    ASSUME OnePrefix, MaxFiles # 0, OneLogInv, [LogNext]_allVars
    PROVE  [EndToEnd!Next]_(EndToEnd!vars)
<1>0. LogInv /\ TypeOK
  BY DEF OneLogInv, LogInv, DirInv
<1>1. /\ Held = OnDisk \cup NotOnDisk /\ OnDisk \cap NotOnDisk = {}
      /\ Held \subseteq 1..MaxRecords /\ Precede(OnDisk, NotOnDisk)
      /\ NotOnDisk = Buffered \cup Waiting
  BY <1>0, HeldParts DEF NotOnDisk
<1>2. Held' = OnDisk' \cup NotOnDisk' /\ NotOnDisk' = Buffered' \cup Waiting'
  BY DEF Held, NotOnDisk
<1>3. CASE Pushed
  <2>1. Held' = Held \cup Shown({next}) /\ NotOnDisk' = NotOnDisk \cup Shown({next})
    BY <1>1, <1>2, <1>3 DEF Pushed
  <2>2. CASE next \in Quiet
    <3>1. Held' = Held /\ NotOnDisk' = NotOnDisk
      BY <2>1, <2>2 DEF Shown
    <3> QED
      BY <1>3, <3>1 DEF Pushed, NotOnDisk, EndToEnd!Next, EndToEnd!Refuse
  <2>3. CASE next \notin Quiet
    <3>1. Held' = Held \cup {next} /\ NotOnDisk' = NotOnDisk \cup {next}
      BY <2>1, <2>3 DEF Shown
    <3>2. Cardinality(NotOnDisk) < Buffer + MaxRecords
      <4>1. NotOnDisk \subseteq 1..MaxRecords
        BY <1>1
      <4>2. IsFiniteSet(1..MaxRecords) /\ Cardinality(1..MaxRecords) = MaxRecords
        BY FS_Interval, BoundsAssumption
      <4>3. IsFiniteSet(NotOnDisk) /\ Cardinality(NotOnDisk) <= MaxRecords
        BY <4>1, <4>2, FS_Subset
      <4>4. Cardinality(NotOnDisk) \in Nat
        BY <4>3, FS_CardinalityType
      <4> QED
        BY <4>3, <4>4, LimitsAssumption, BoundsAssumption
    <3> QED
      BY <1>3, <3>1, <3>2, SameCardinalityAgain
         DEF Pushed, NotOnDisk, EndToEnd!Next, EndToEnd!Add
  <2> QED
    BY <2>2, <2>3
<1>4. CASE Moved
  BY <1>4 DEF Moved, Precede, NotOnDisk, EndToEnd!Next, EndToEnd!Persist
<1>8. CASE Dropped
  <2>1. /\ OnDisk' = OnDisk \cup Buffered /\ Buffered' = {} /\ Waiting' \subseteq Waiting
        /\ Precede(Waiting \ Waiting', Waiting') /\ next' = next /\ OpenMayFail
    BY <1>8 DEF Dropped, SomeRefused
  <2>2. Precede(Buffered, Waiting) /\ Precede(OnDisk, NotOnDisk)
    BY <1>0, HeldParts
  <2>3. /\ NotOnDisk' = Waiting' /\ Held' = OnDisk \cup Buffered \cup Waiting'
        /\ Held = OnDisk \cup Buffered \cup Waiting
    BY <1>1, <1>2, <2>1
  <2>4. NotOnDisk' \subseteq NotOnDisk /\ Held' \subseteq Held
    BY <1>1, <2>1, <2>3
  <2>5. \A r \in NotOnDisk \ NotOnDisk', b \in NotOnDisk' : r < b
    BY <1>1, <2>1, <2>2, <2>3 DEF Precede
  <2>6. Held \ Held' \subseteq NotOnDisk \ NotOnDisk' /\ Held \ Held' \subseteq Waiting
    BY <1>1, <2>1, <2>3
  <2>7. (NotOnDisk \ NotOnDisk') \cap Held' \subseteq Buffered
    BY <1>1, <2>1, <2>3
  <2>8. \A r \in (NotOnDisk \ NotOnDisk') \cap Held', d \in Held \ Held' : r < d
    BY <2>2, <2>6, <2>7 DEF Precede
  <2> QED
    BY <2>1, <2>4, <2>5, <2>6, <2>8 DEF NotOnDisk, EndToEnd!Next, EndToEnd!Drop
<1>5. CASE Trimmed
  <2>1. /\ OnDisk' \subseteq OnDisk /\ NotOnDisk' = NotOnDisk /\ next' = next
        /\ Precede(OnDisk \ OnDisk', OnDisk')
    BY <1>5 DEF Trimmed
  <2>2. Held' \subseteq Held /\ NotOnDisk \subseteq Held' /\ Held \ Held' \subseteq OnDisk \ OnDisk'
    BY <1>1, <1>2, <2>1
  <2>3. \A r \in Held \ Held', k \in Held' : r < k
    BY <1>1, <1>2, <2>1, <2>2 DEF Precede
  <2> QED
    BY <2>1, <2>2, <2>3 DEF NotOnDisk, EndToEnd!Next, EndToEnd!Trim
<1>6. CASE Died
  <2>1. Held' = Held \ NotOnDisk /\ NotOnDisk' = {} /\ next' = next
    BY <1>1, <1>2, <1>6 DEF Died
  <2> QED
    BY <2>1 DEF NotOnDisk, EndToEnd!Next, EndToEnd!Crash
<1>7. ~Emptied
  BY DEF Emptied
<1> QED
  BY <1>3, <1>4, <1>5, <1>6, <1>7, <1>8, StepOfLog

\* Started with one prefix only and a max_files_count other than 0, the file logger
\* is one rolling log from the push to the disk: a death of the process, or a file
\* that cannot be opened, takes what is not on disk, rotation takes the oldest of
\* what is, and nothing else is lost.
THEOREM FileLoggerIsRollingLog == OnePrefix /\ MaxFiles # 0 => (LogSpec => IsEndToEndLog)
<1> SUFFICES ASSUME OnePrefix, MaxFiles # 0 PROVE LogSpec => IsEndToEndLog
  OBVIOUS
<1>1. OneLogInv /\ [LogNext]_allVars => [EndToEnd!Next]_(EndToEnd!vars)
  BY StepIsEndToEnd
<1> QED
  BY <1>1, InitEndToEnd, OneLogInvHolds, PTL DEF LogSpec, IsEndToEndLog, EndToEnd!Spec
==============================================================================
