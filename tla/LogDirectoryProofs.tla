------------------------- MODULE LogDirectoryProofs --------------------------
(***************************************************************************)
(* What TLAPS proves of LogDirectory, for any prefixes, limits, batches,   *)
(* crashes and restarts.                                                   *)
(***************************************************************************)
EXTENDS LogDirectory, FiniteSetTheorems, TLAPS

\* While a batch is cleaned up after, the victims are the oldest files, as many as
\* there are too many, and never all of them; at other times there are none.
Cleaning ==
    IF phase = "remove"
    THEN /\ Oldest(victims)
         /\ MaxFiles >= 0 => Cardinality(DOMAIN disk) - Cardinality(victims) <= MaxFiles
         /\ MaxFiles >= 1 => victims = {} \/ DOMAIN disk \ victims # {}
    ELSE victims = {}

\* Between the choice of the path and its opening there is room for one file more,
\* and the path has the number of the newest file or the one after it.
Chosen ==
    phase = "open" =>
        /\ path \in Files
        /\ MaxFiles >= 0 => Cardinality(DOMAIN disk) <= MaxFiles
        /\ \/ DOMAIN disk = {} /\ path.no = 1
           \/ \E f \in DOMAIN disk : Newest(f) /\ path.no \in {f.no, f.no + 1}

\* The steps that change the directory, its stream or what the handling of a batch
\* knows of them, whoever takes them: with LogDirectory's own batches of records,
\* or with those that FileLog takes from a queue.
WriteOne(record) ==
    /\ phase = "write"
    /\ WriteToLastFile(record)
    /\ inBatch' \in 0..MaxBatch
    /\ next' \in 1..(MaxRecords + 1)

Spills == phase = "write" /\ WriteOut

Elsewhere ==
    /\ next' \in 1..(MaxRecords + 1)
    /\ UNCHANGED <<disk, prefix, phase, victims, path, stream, pending, inBatch, restarts>>

Handling ==
    \/ TakeBatch \/ Fetch \/ RemoveOldest \/ ChoosePath \/ OpenPath \/ OpenFails
    \/ Spills \/ BatchEnd \/ Quit \/ Crash \/ Restart \/ Elsewhere

DirStep == Handling \/ \E record \in 1..MaxRecords : WriteOne(record)

\* The inductive invariant.
DirInv == TypeOK /\ Cleaning /\ Chosen /\ FilesBounded /\ NumbersHaveNoGap
------------------------------------------------------------------------------
\* The two parts of a sequence of records are sequences of records.
LEMMA PartsOfSeq ==
    ASSUME NEW S, NEW q \in Seq(S), NEW k \in 0..Len(q)
    PROVE  /\ SubSeq(q, 1, k) \in Seq(S)
           /\ SubSeq(q, k + 1, Len(q)) \in Seq(S)
           /\ Len(SubSeq(q, k + 1, Len(q))) = Len(q) - k
<1>1. \A i \in 1..Len(q) : q[i] \in S
  OBVIOUS
<1>2. SubSeq(q, 1, k) \in Seq(S)
  <2>1. Len(SubSeq(q, 1, k)) = k /\ k \in Nat
    OBVIOUS
  <2>2. SubSeq(q, 1, k) = [i \in 1..k |-> q[i]]
    OBVIOUS
  <2> QED
    BY <1>1, <2>1, <2>2
<1>3. /\ SubSeq(q, k + 1, Len(q)) \in Seq(S)
      /\ Len(SubSeq(q, k + 1, Len(q))) = Len(q) - k
  <2>1. Len(SubSeq(q, k + 1, Len(q))) = Len(q) - k /\ Len(q) - k \in Nat
    OBVIOUS
  <2>2. SubSeq(q, k + 1, Len(q)) = [i \in 1..(Len(q) - k) |-> q[k + i]]
    OBVIOUS
  <2> QED
    BY <1>1, <2>1, <2>2
<1> QED
  BY <1>2, <1>3

\* What reaches a file when the buffer is written out.
LEMMA FlushedType ==
    ASSUME TypeOK, NEW k \in 0..Len(pending)
    PROVE  /\ DOMAIN Flushed(k) = DOMAIN disk
           /\ \A f \in DOMAIN disk : Flushed(k)[f] \in Seq(1..MaxRecords)
<1>1. SubSeq(pending, 1, k) \in Seq(1..MaxRecords)
  BY PartsOfSeq DEF TypeOK
<1>2. \A f \in DOMAIN disk : disk[f] \o SubSeq(pending, 1, k) \in Seq(1..MaxRecords)
  BY <1>1 DEF TypeOK
<1> QED
  BY <1>2 DEF Flushed, TypeOK

\* The name update_current_file makes is the name of a log file.
LEMMA ChosenPathType ==
    ASSUME TypeOK, ChoosePath
    PROVE  path' \in Files
<1>1. ASSUME path' = [prefix |-> prefix, no |-> FirstNumber]
      PROVE  path' \in Files
  BY <1>1 DEF Files, FirstNumber, TypeOK
<1>2. ASSUME NEW f \in DOMAIN disk, path' = [prefix |-> prefix, no |-> NumberAfter(f)]
      PROVE  path' \in Files
  <2>1. NumberAfter(f) \in Nat \ {0}
    BY DEF NumberAfter, TypeOK, Files
  <2> QED
    BY <1>2, <2>1 DEF Files, TypeOK
<1> QED
  BY <1>1, <1>2 DEF ChoosePath

LEMMA InitTypeOK == Init => TypeOK
<1> SUFFICES ASSUME Init PROVE TypeOK
  OBVIOUS
<1>1. DOMAIN disk = {} /\ IsFiniteSet(DOMAIN disk)
  BY FS_EmptySet DEF Init
<1>2. 0 \in 0..MaxBatch /\ 1 \in 1..(MaxRecords + 1) /\ 0 \in 0..MaxRestarts
  BY BoundsAssumption
<1>3. pending \in Seq(1..MaxRecords) /\ Len(pending) <= Buffer
  BY LimitsAssumption DEF Init
<1> QED
  BY <1>1, <1>2, <1>3 DEF Init, TypeOK

LEMMA NextTypeOK == TypeOK /\ Chosen /\ DirStep => TypeOK'
<1> SUFFICES ASSUME TypeOK, Chosen, DirStep PROVE TypeOK'
  OBVIOUS
<1>0. 0 \in 0..MaxBatch /\ <<>> \in Seq(1..MaxRecords) /\ Len(<<>>) <= Buffer
  BY BoundsAssumption, LimitsAssumption
<1>1. CASE TakeBatch
  BY <1>0, <1>1 DEF TypeOK, TakeBatch
<1>2. CASE Fetch
  BY <1>2 DEF TypeOK, Fetch
<1>3. CASE RemoveOldest
  <2>1. PICK f \in victims :
           /\ disk' = [g \in DOMAIN disk \ {f} |-> disk[g]]
           /\ victims' = victims \ {f}
    BY <1>3 DEF RemoveOldest
  <2>2. DOMAIN disk' = DOMAIN disk \ {f} /\ IsFiniteSet(DOMAIN disk')
    BY <2>1, FS_RemoveElement DEF TypeOK
  <2>3. \A g \in DOMAIN disk' : disk'[g] = disk[g]
    BY <2>1
  <2> QED
    BY <1>3, <2>1, <2>2, <2>3 DEF TypeOK, RemoveOldest
<1>4. CASE ChoosePath
  <2>1. path' \in Files
    BY <1>4, ChosenPathType
  <2> QED
    BY <1>4, <2>1 DEF TypeOK, ChoosePath
<1>5. CASE OpenPath
  <2>1. path \in Files
    BY <1>5 DEF OpenPath, Chosen
  <2>2. /\ DOMAIN Closed = DOMAIN disk
        /\ \A f \in DOMAIN disk : Closed[f] \in Seq(1..MaxRecords)
    BY FlushedType DEF Closed, TypeOK
  <2>3. DOMAIN disk' = DOMAIN disk \cup {path}
    BY <1>5, <2>2 DEF OpenPath, Opened
  <2>4. \A f \in DOMAIN disk' : disk'[f] \in Seq(1..MaxRecords)
    BY <1>0, <1>5, <2>2 DEF OpenPath, Opened
  <2>5. DOMAIN disk' \subseteq Files /\ IsFiniteSet(DOMAIN disk')
    BY <2>1, <2>3, FS_AddElement DEF TypeOK
  <2>6. victims' \subseteq DOMAIN disk'
    BY <1>5, <2>3 DEF OpenPath, TypeOK
  <2> QED
    BY <1>0, <1>5, <2>1, <2>4, <2>5, <2>6 DEF TypeOK, OpenPath
<1>6. CASE OpenFails
  <2>1. DOMAIN disk' = DOMAIN disk /\ \A f \in DOMAIN disk' : disk'[f] \in Seq(1..MaxRecords)
    BY <1>6, FlushedType DEF OpenFails, Closed, TypeOK
  <2> QED
    BY <1>0, <1>6, <2>1 DEF TypeOK, OpenFails
<1>7. ASSUME NEW record \in 1..MaxRecords, WriteOne(record) PROVE TypeOK'
  <2>1. Append(pending, record) \in Seq(1..MaxRecords)
        /\ Len(Append(pending, record)) = Len(pending) + 1
    BY DEF TypeOK
  <2>0. /\ pending \in Seq(1..MaxRecords) /\ Len(pending) \in Nat
        /\ Len(pending) <= Buffer /\ Buffer \in Nat
    BY LimitsAssumption DEF TypeOK
  <2>2. ASSUME Len(pending) < Buffer, pending' = Append(pending, record)
        PROVE  pending' \in Seq(1..MaxRecords) /\ Len(pending') <= Buffer
    BY <2>0, <2>1, <2>2
  <2>3. ASSUME UNCHANGED pending
        PROVE  pending' \in Seq(1..MaxRecords) /\ Len(pending') <= Buffer
    BY <2>0, <2>3
  <2>4. pending' \in Seq(1..MaxRecords) /\ Len(pending') <= Buffer
    BY <1>7, <2>2, <2>3 DEF WriteOne, WriteToLastFile
  <2> QED
    BY <1>7, <2>4 DEF TypeOK, WriteOne, WriteToLastFile
<1>8. CASE Spills
  <2>1. PICK k \in 1..Len(pending) :
           /\ disk' = Flushed(k)
           /\ pending' = SubSeq(pending, k + 1, Len(pending))
    BY <1>8 DEF Spills, WriteOut
  <2>2. k \in 0..Len(pending)
    BY <2>1 DEF TypeOK
  <2>3. DOMAIN disk' = DOMAIN disk /\ \A f \in DOMAIN disk' : disk'[f] \in Seq(1..MaxRecords)
    BY <2>1, <2>2, FlushedType
  <2>4. pending' \in Seq(1..MaxRecords) /\ Len(pending') = Len(pending) - k
    BY <2>1, <2>2, PartsOfSeq DEF TypeOK
  <2>5. Len(pending') <= Buffer
    BY <2>2, <2>4, LimitsAssumption DEF TypeOK
  <2> QED
    BY <1>8, <2>3, <2>4, <2>5 DEF TypeOK, Spills, WriteOut
<1>9. CASE BatchEnd
  BY <1>9 DEF TypeOK, BatchEnd
<1>10. CASE Quit
  <2>1. DOMAIN disk' = DOMAIN disk /\ \A f \in DOMAIN disk' : disk'[f] \in Seq(1..MaxRecords)
    BY <1>10, FlushedType DEF Quit, Closed, TypeOK
  <2> QED
    BY <1>0, <1>10, <2>1 DEF TypeOK, Quit
<1>11. CASE Crash
  BY <1>0, <1>11 DEF TypeOK, Crash
<1>12. CASE Restart
  BY <1>12, BoundsAssumption DEF TypeOK, Restart
<1>13. CASE Elsewhere
  BY <1>13 DEF TypeOK, Elsewhere
<1> QED
  BY <1>1, <1>2, <1>3, <1>4, <1>5, <1>6, <1>7, <1>8, <1>9, <1>10, <1>11, <1>12, <1>13
     DEF DirStep, Handling
------------------------------------------------------------------------------
\* Which steps add a file to the directory or take one from it.
LEMMA OtherStepsKeepFiles ==
    ASSUME TypeOK, DirStep, ~RemoveOldest, ~OpenPath
    PROVE  DOMAIN disk' = DOMAIN disk
<1>1. CASE OpenFails \/ Quit
  BY <1>1, FlushedType DEF OpenFails, Quit, Closed, TypeOK
<1>2. CASE Spills
  <2>1. PICK k \in 1..Len(pending) : disk' = Flushed(k)
    BY <1>2 DEF Spills, WriteOut
  <2>2. k \in 0..Len(pending)
    BY <2>1 DEF TypeOK
  <2> QED
    BY <2>1, <2>2, FlushedType
<1>3. CASE TakeBatch \/ Fetch \/ ChoosePath \/ BatchEnd \/ Crash \/ Restart
  BY <1>3 DEF TakeBatch, Fetch, ChoosePath, BatchEnd, Crash, Restart
<1>4. CASE (\E record \in 1..MaxRecords : WriteOne(record)) \/ Elsewhere
  BY <1>4 DEF WriteOne, WriteToLastFile, Elsewhere
<1> QED
  BY <1>1, <1>2, <1>3, <1>4 DEF DirStep, Handling

\* Removing the oldest victim: it is the oldest file, and it leaves a file behind
\* when max_files_count is at least 1.
LEMMA RemovalFacts ==
    ASSUME TypeOK, Cleaning, RemoveOldest
    PROVE  \E f \in victims :
              /\ f \in DOMAIN disk
              /\ \A g \in DOMAIN disk : f.no <= g.no
              /\ DOMAIN disk' = DOMAIN disk \ {f}
              /\ victims' = victims \ {f}
              /\ Cardinality(DOMAIN disk') = Cardinality(DOMAIN disk) - 1
              /\ Cardinality(victims') = Cardinality(victims) - 1
              /\ MaxFiles >= 1 => DOMAIN disk \ victims # {}
<1>1. PICK f \in victims :
         /\ \A g \in victims : f.no <= g.no
         /\ disk' = [g \in DOMAIN disk \ {f} |-> disk[g]]
         /\ victims' = victims \ {f}
  BY DEF RemoveOldest
<1>2. f \in DOMAIN disk /\ DOMAIN disk' = DOMAIN disk \ {f}
  BY <1>1 DEF TypeOK
<1>3. \A g \in DOMAIN disk : f.no <= g.no
  BY <1>1 DEF RemoveOldest, Cleaning, Oldest
<1>4. IsFiniteSet(DOMAIN disk) /\ IsFiniteSet(victims)
  BY FS_Subset DEF TypeOK
<1>5. /\ Cardinality(DOMAIN disk') = Cardinality(DOMAIN disk) - 1
      /\ Cardinality(victims') = Cardinality(victims) - 1
  BY <1>1, <1>2, <1>4, FS_RemoveElement
<1>6. MaxFiles >= 1 => DOMAIN disk \ victims # {}
  BY <1>1 DEF RemoveOldest, Cleaning
<1> QED
  BY <1>1, <1>2, <1>3, <1>5, <1>6

LEMMA CleaningInductive == TypeOK /\ Cleaning /\ DirStep => Cleaning'
<1> SUFFICES ASSUME TypeOK, Cleaning, DirStep PROVE Cleaning'
  OBVIOUS
<1>0. IsFiniteSet(DOMAIN disk) /\ Cardinality(DOMAIN disk) \in Nat
  BY FS_CardinalityType DEF TypeOK
<1>1. CASE Fetch
  <2>1. PICK F \in SUBSET DOMAIN disk :
           Cardinality(F) = Excess /\ Oldest(F) /\ victims' = F
    BY <1>1 DEF Fetch
  <2>2. disk' = disk /\ phase' = "remove"
    BY <1>1 DEF Fetch
  <2>3. Oldest(victims)'
    BY <2>1, <2>2 DEF Oldest
  <2>4. MaxFiles >= 0 => Cardinality(DOMAIN disk) - Cardinality(F) <= MaxFiles
    BY <1>0, <2>1, LimitsAssumption DEF Excess
  <2>5. MaxFiles >= 1 => F = {} \/ DOMAIN disk \ F # {}
    <3>1. IsFiniteSet(F)
      BY <1>0, FS_Subset
    <3>2. MaxFiles >= 1 => Cardinality(F) = 0 \/ Cardinality(F) # Cardinality(DOMAIN disk)
      BY <1>0, <2>1, LimitsAssumption DEF Excess
    <3>3. Cardinality(F) = 0 => F = {}
      BY <3>1, FS_EmptySet
    <3> QED
      BY <3>2, <3>3
  <2> QED
    BY <2>1, <2>2, <2>3, <2>4, <2>5 DEF Cleaning
<1>2. CASE RemoveOldest
  <2>1. PICK f \in victims :
           /\ f \in DOMAIN disk
           /\ DOMAIN disk' = DOMAIN disk \ {f}
           /\ victims' = victims \ {f}
           /\ Cardinality(DOMAIN disk') = Cardinality(DOMAIN disk) - 1
           /\ Cardinality(victims') = Cardinality(victims) - 1
    BY <1>2, RemovalFacts
  <2>2. DOMAIN disk' \ victims' = DOMAIN disk \ victims
    BY <2>1
  <2>3. phase = "remove" /\ phase' = "remove"
    BY <1>2 DEF RemoveOldest
  <2>4. Oldest(victims)'
    BY <2>1, <2>2, <2>3 DEF Cleaning, Oldest
  <2>5. IsFiniteSet(victims) /\ Cardinality(victims) \in Nat
    BY <1>0, FS_Subset, FS_CardinalityType DEF TypeOK
  <2>6. MaxFiles >= 0 => Cardinality(DOMAIN disk') - Cardinality(victims') <= MaxFiles
    BY <1>0, <2>1, <2>3, <2>5, LimitsAssumption DEF Cleaning
  <2> QED
    BY <2>1, <2>2, <2>3, <2>4, <2>6 DEF Cleaning
<1>3. CASE ChoosePath
  BY <1>3 DEF ChoosePath, Cleaning
<1>4. CASE TakeBatch \/ OpenPath \/ OpenFails \/ BatchEnd \/ Quit
  BY <1>4 DEF TakeBatch, OpenPath, OpenFails, BatchEnd, Quit, Cleaning
<1>5. CASE (\E record \in 1..MaxRecords : WriteOne(record)) \/ Spills
  BY <1>5 DEF WriteOne, WriteToLastFile, Spills, WriteOut, Cleaning
<1>6. CASE Crash \/ Restart
  BY <1>6 DEF Crash, Restart, Cleaning
<1>7. CASE Elsewhere
  BY <1>7 DEF Elsewhere, Cleaning, Oldest
<1> QED
  BY <1>1, <1>2, <1>3, <1>4, <1>5, <1>6, <1>7 DEF DirStep, Handling

LEMMA ChosenInductive == TypeOK /\ Cleaning /\ Chosen /\ DirStep => Chosen'
<1> SUFFICES ASSUME TypeOK, Cleaning, Chosen, DirStep PROVE Chosen'
  OBVIOUS
<1>1. CASE ChoosePath
  <2>1. path' \in Files
    BY <1>1, ChosenPathType
  <2>2. disk' = disk
    BY <1>1 DEF ChoosePath
  <2>3. Cardinality(DOMAIN disk) \in Nat /\ Cardinality({}) = 0
    BY FS_CardinalityType, FS_EmptySet DEF TypeOK
  <2>4. MaxFiles >= 0 => Cardinality(DOMAIN disk) <= MaxFiles
    BY <1>1, <2>3, LimitsAssumption DEF ChoosePath, Cleaning
  <2>5. \/ DOMAIN disk = {} /\ path'.no = 1
        \/ \E f \in DOMAIN disk : Newest(f) /\ path'.no \in {f.no, f.no + 1}
    BY <1>1 DEF ChoosePath, FirstNumber, NumberAfter
  <2> QED
    BY <2>1, <2>2, <2>4, <2>5 DEF Chosen, Newest
<1>2. CASE Elsewhere
  BY <1>2 DEF Elsewhere, Chosen, Newest
<1>3. CASE ~ChoosePath /\ ~Elsewhere
  <2>1. phase' # "open"
    BY <1>3 DEF DirStep, Handling, TakeBatch, Fetch, RemoveOldest, OpenPath, OpenFails, WriteOne,
                WriteToLastFile, Spills, WriteOut, BatchEnd, Quit, Crash, Restart
  <2> QED
    BY <2>1 DEF Chosen
<1> QED
  BY <1>1, <1>2, <1>3

LEMMA OpenPathFacts ==
    ASSUME TypeOK, Chosen, OpenPath
    PROVE  /\ path \in Files
           /\ DOMAIN disk' = DOMAIN disk \cup {path}
           /\ MaxFiles >= 0 => Cardinality(DOMAIN disk) <= MaxFiles
           /\ \/ DOMAIN disk = {} /\ path.no = 1
              \/ \E f \in DOMAIN disk : Newest(f) /\ path.no \in {f.no, f.no + 1}
<1>1. DOMAIN Closed = DOMAIN disk
  BY FlushedType DEF Closed, TypeOK
<1>2. DOMAIN disk' = DOMAIN disk \cup {path}
  BY <1>1 DEF OpenPath, Opened
<1> QED
  BY <1>2 DEF OpenPath, Chosen

LEMMA FilesBoundedInductive ==
    TypeOK /\ Cleaning /\ Chosen /\ FilesBounded /\ DirStep => FilesBounded'
<1> SUFFICES ASSUME TypeOK, Cleaning, Chosen, FilesBounded, DirStep
             PROVE  FilesBounded'
  OBVIOUS
<1>0. IsFiniteSet(DOMAIN disk) /\ Cardinality(DOMAIN disk) \in Nat
  BY FS_CardinalityType DEF TypeOK
<1>1. CASE RemoveOldest
  <2>1. Cardinality(DOMAIN disk') = Cardinality(DOMAIN disk) - 1
    BY <1>1, RemovalFacts
  <2> QED
    BY <1>0, <2>1, LimitsAssumption DEF FilesBounded
<1>2. CASE OpenPath
  <2>1. Cardinality(DOMAIN disk') <= Cardinality(DOMAIN disk) + 1
    <3>1. Cardinality(DOMAIN disk \cup {path})
            = IF path \in DOMAIN disk THEN Cardinality(DOMAIN disk)
              ELSE Cardinality(DOMAIN disk) + 1
      BY <1>0, FS_AddElement
    <3> QED
      BY <1>0, <1>2, <3>1, OpenPathFacts
  <2>2. Cardinality(DOMAIN disk') \in Nat
    BY <1>0, <1>2, OpenPathFacts, FS_AddElement, FS_CardinalityType
  <2>3. MaxFiles >= 0 => Cardinality(DOMAIN disk) <= MaxFiles
    BY <1>2, OpenPathFacts
  <2> QED
    BY <1>0, <2>1, <2>2, <2>3, LimitsAssumption DEF FilesBounded
<1>3. CASE ~RemoveOldest /\ ~OpenPath
  BY <1>3, OtherStepsKeepFiles DEF FilesBounded
<1> QED
  BY <1>1, <1>2, <1>3

LEMMA NumbersHaveNoGapInductive ==
    TypeOK /\ Cleaning /\ Chosen /\ NumbersHaveNoGap /\ DirStep => NumbersHaveNoGap'
<1> SUFFICES ASSUME TypeOK, Cleaning, Chosen, NumbersHaveNoGap, DirStep,
                    NEW a \in DOMAIN disk', NEW b \in DOMAIN disk', NEW k \in a.no..b.no
             PROVE  \E c \in DOMAIN disk' : c.no = k
  BY DEF NumbersHaveNoGap, Numbers
<1>0. \A f \in DOMAIN disk : f.no \in Nat \ {0}
  BY DEF TypeOK, Files
<1>1. \A f, g \in DOMAIN disk : \A n \in f.no..g.no : \E h \in DOMAIN disk : h.no = n
  BY DEF NumbersHaveNoGap, Numbers
<1>2. CASE RemoveOldest
  <2>1. PICK f \in DOMAIN disk :
           /\ \A g \in DOMAIN disk : f.no <= g.no
           /\ DOMAIN disk' = DOMAIN disk \ {f}
    BY <1>2, RemovalFacts
  <2>2. PICK h \in DOMAIN disk : h.no = k
    BY <1>1, <2>1
  <2>3. CASE h = f
    BY <1>0, <2>1, <2>2, <2>3
  <2> QED
    BY <2>1, <2>2, <2>3
<1>3. CASE OpenPath
  <2>1. /\ DOMAIN disk' = DOMAIN disk \cup {path}
        /\ path.no \in Nat
    BY <1>3, OpenPathFacts DEF Files
  <2>2. CASE DOMAIN disk = {} /\ path.no = 1
    BY <2>1, <2>2
  <2>3. ASSUME NEW f \in DOMAIN disk, Newest(f), path.no \in {f.no, f.no + 1}
        PROVE  \E c \in DOMAIN disk' : c.no = k
    <3>1. \A g \in DOMAIN disk : g.no <= f.no
      BY <2>3 DEF Newest
    <3>2. CASE a = path
      <4>1. a.no <= k /\ k <= b.no /\ k \in Int
        BY <1>0, <2>1
      <4>2. b.no <= path.no
        BY <1>0, <2>1, <2>3, <3>1
      <4> QED
        BY <1>0, <2>1, <3>2, <4>1, <4>2
    <3>3. CASE a # path /\ k <= f.no
      BY <1>0, <1>1, <2>1, <3>3
    <3>4. CASE a # path /\ k > f.no
      <4>1. k <= b.no /\ k \in Int
        BY <1>0, <2>1
      <4>2. k = path.no
        BY <1>0, <2>1, <2>3, <3>1, <3>4, <4>1
      <4> QED
        BY <2>1, <4>2
    <3>5. k \in Int /\ f.no \in Int
      BY <1>0, <2>1
    <3> QED
      BY <3>2, <3>3, <3>4, <3>5
  <2> QED
    BY <1>3, <2>2, <2>3, OpenPathFacts
<1>4. CASE ~RemoveOldest /\ ~OpenPath
  BY <1>1, <1>4, OtherStepsKeepFiles
<1> QED
  BY <1>2, <1>3, <1>4

LEMMA HighestNumberStep ==
    TypeOK /\ Cleaning /\ Chosen /\ DirStep /\ MaxFiles >= 1
        => \A m \in Numbers : \E n \in Numbers' : n >= m
<1> SUFFICES ASSUME TypeOK, Cleaning, Chosen, DirStep, MaxFiles >= 1, NEW f \in DOMAIN disk
             PROVE  \E g \in DOMAIN disk' : g.no >= f.no
  BY DEF Numbers
<1>0. \A g \in DOMAIN disk : g.no \in Nat
  BY DEF TypeOK, Files
<1>1. CASE RemoveOldest
  <2>1. PICK v \in victims :
           /\ \A g \in DOMAIN disk : v.no <= g.no
           /\ DOMAIN disk' = DOMAIN disk \ {v}
           /\ DOMAIN disk \ victims # {}
    BY <1>1, RemovalFacts
  <2>2. CASE f # v
    BY <1>0, <2>1, <2>2
  <2>3. CASE f = v
    <3>1. PICK g \in DOMAIN disk : g \notin victims
      BY <2>1
    <3> QED
      BY <1>0, <2>1, <2>3, <3>1
  <2> QED
    BY <2>2, <2>3
<1>2. CASE OpenPath
  BY <1>0, <1>2, OpenPathFacts
<1>3. CASE ~RemoveOldest /\ ~OpenPath
  BY <1>0, <1>3, OtherStepsKeepFiles
<1> QED
  BY <1>1, <1>2, <1>3
------------------------------------------------------------------------------
LEMMA DirInvStep == DirInv /\ DirStep => DirInv'
BY NextTypeOK, CleaningInductive, ChosenInductive, FilesBoundedInductive,
   NumbersHaveNoGapInductive DEF DirInv

\* Of LogDirectory's own steps only Write writes, the next record.
LEMMA StepOfNext ==
    ASSUME TypeOK, [Next]_vars
    PROVE  \/ next \in 1..MaxRecords /\ Write /\ WriteOne(next) /\ next' = next + 1
           \/ Handling /\ next' = next
<1>0. inBatch \in 0..MaxBatch /\ next \in 1..(MaxRecords + 1)
  BY DEF TypeOK
<1>1. CASE Write
  <2>1. /\ next \in 1..MaxRecords /\ inBatch + 1 \in 0..MaxBatch
        /\ next + 1 \in 1..(MaxRecords + 1)
    BY <1>0, <1>1, BoundsAssumption DEF Write, MoreToWrite
  <2> QED
    BY <1>1, <2>1 DEF Write, MoreToWrite, WriteOne
<1>2. CASE Flush
  BY <1>2 DEF Flush, MoreToWrite, WriteOut, Spills, Handling
<1>3. CASE Stopped \/ UNCHANGED vars
  BY <1>0, <1>3 DEF Stopped, vars, Elsewhere, Handling
<1>4. CASE \/ TakeBatch \/ Fetch \/ RemoveOldest \/ ChoosePath \/ OpenPath \/ OpenFails
           \/ BatchEnd \/ Quit \/ Crash \/ Restart
  <2>1. next' = next
    BY <1>4 DEF TakeBatch, Fetch, RemoveOldest, ChoosePath, OpenPath, OpenFails,
                BatchEnd, Quit, Crash, Restart
  <2> QED
    BY <1>4, <2>1 DEF Handling
<1> QED
  BY <1>1, <1>2, <1>3, <1>4 DEF Next

LEMMA NextIsDirStep == TypeOK /\ [Next]_vars => DirStep
BY StepOfNext DEF DirStep

LEMMA InitDirInv == Init => DirInv
<1>1. ASSUME Init PROVE DOMAIN disk = {} /\ Cardinality(DOMAIN disk) = 0
  BY <1>1, FS_EmptySet DEF Init
<1>2. ASSUME Init PROVE FilesBounded /\ NumbersHaveNoGap
  BY <1>1, <1>2, LimitsAssumption DEF FilesBounded, NumbersHaveNoGap, Numbers
<1>3. ASSUME Init PROVE Cleaning /\ Chosen
  BY <1>3 DEF Init, Cleaning, Chosen
<1> QED
  BY <1>2, <1>3, InitTypeOK DEF DirInv

\* Every reachable state satisfies the inductive invariant.
THEOREM DirInvHolds == Spec => []DirInv
<1>1. Init => DirInv
  BY InitDirInv
<1>2. DirInv /\ [Next]_vars => DirInv'
  BY DirInvStep, NextIsDirStep DEF DirInv
<1> QED
  BY <1>1, <1>2, PTL DEF Spec

\* The variables keep their types.
THEOREM DirTypeCorrect == Spec => []TypeOK
<1>1. DirInv => TypeOK
  BY DEF DirInv
<1> QED
  BY <1>1, DirInvHolds, PTL

\* The directory never holds more files than max_files_count and one, for any limits
\* and prefixes, after any crashes in the middle of a cleaning.
THEOREM FilesAreBounded == Spec => []FilesBounded
<1>1. DirInv => FilesBounded
  BY DEF DirInv
<1> QED
  BY <1>1, DirInvHolds, PTL

\* Removals, crashes and files of other prefixes never leave a gap in the numbers.
THEOREM NumbersAreContiguous == Spec => []NumbersHaveNoGap
<1>1. DirInv => NumbersHaveNoGap
  BY DEF DirInv
<1> QED
  BY <1>1, DirInvHolds, PTL

\* With max_files_count at least 1 no step gives up the newest file, so that no
\* number is used again.
THEOREM NumbersAreNotReused == Spec => HighestNumberGrows
<1>1. DirInv /\ [Next]_vars
         => [MaxFiles >= 1 => \A m \in Numbers : \E n \in Numbers' : n >= m]_vars
  BY HighestNumberStep, NextIsDirStep DEF DirInv
<1> QED
  BY <1>1, DirInvHolds, PTL DEF Spec, HighestNumberGrows
------------------------------------------------------------------------------
(* The records in the files: their order, the sizes of the files, and that the *)
(* directory is a RollingLog.                                               *)

(* Rising sequences and the sets of their elements.                          *)

LEMMA InToSet == \A q, i : i \in DOMAIN q => q[i] \in ToSet(q)
BY DEF ToSet

LEMMA SeqOfSubset ==
    ASSUME NEW S, NEW T, S \subseteq T, NEW q \in Seq(S)
    PROVE  q \in Seq(T) /\ ToSet(q) \subseteq S
<1>1. Len(q) \in Nat /\ DOMAIN q = 1..Len(q)
  OBVIOUS
<1>2. \A i \in 1..Len(q) : q[i] \in S
  OBVIOUS
<1>3. q = [i \in 1..Len(q) |-> q[i]]
  OBVIOUS
<1>4. q \in Seq(T)
  BY <1>1, <1>2, <1>3
<1> QED
  BY <1>1, <1>2, <1>4 DEF ToSet

LEMMA ElementsOfAppend ==
    ASSUME NEW q \in Seq(Int), NEW x \in Int
    PROVE  /\ ToSet(Append(q, x)) = ToSet(q) \cup {x}
           /\ Rising(q) /\ (\A y \in ToSet(q) : y < x) => Rising(Append(q, x))
<1>1. Len(q) \in Nat /\ Len(Append(q, x)) = Len(q) + 1 /\ Append(q, x)[Len(q) + 1] = x
  OBVIOUS
<1>2. \A i \in 1..Len(q) : Append(q, x)[i] = q[i]
  OBVIOUS
<1>3. DOMAIN Append(q, x) = 1..(Len(q) + 1) /\ DOMAIN q = 1..Len(q)
  OBVIOUS
<1>4. 1..(Len(q) + 1) = 1..Len(q) \cup {Len(q) + 1}
  BY <1>1
<1>5. ToSet(Append(q, x)) = ToSet(q) \cup {x}
  BY <1>1, <1>2, <1>3, <1>4 DEF ToSet
<1>6. ASSUME Rising(q), \A y \in ToSet(q) : y < x,
             NEW i \in 1..(Len(q) + 1), NEW j \in 1..(Len(q) + 1), i < j
      PROVE  Append(q, x)[i] < Append(q, x)[j]
  <2>1. i \in 1..Len(q) /\ q[i] \in ToSet(q)
    BY <1>1, <1>3, <1>6 DEF ToSet
  <2>2. CASE j \in 1..Len(q)
    BY <1>2, <1>3, <1>6, <2>1, <2>2 DEF Rising
  <2>3. CASE j = Len(q) + 1
    BY <1>1, <1>2, <1>6, <2>1, <2>3
  <2> QED
    BY <1>4, <2>2, <2>3
<1> QED
  BY <1>3, <1>5, <1>6 DEF Rising

LEMMA ElementsOfConcat ==
    ASSUME NEW p \in Seq(Int), NEW q \in Seq(Int)
    PROVE  /\ ToSet(p \o q) = ToSet(p) \cup ToSet(q)
           /\ Rising(p) /\ Rising(q) /\ Precede(ToSet(p), ToSet(q)) => Rising(p \o q)
<1> DEFINE m == Len(p)  n == Len(q)  c == p \o q
<1>1. m \in Nat /\ n \in Nat /\ DOMAIN p = 1..m /\ DOMAIN q = 1..n /\ DOMAIN c = 1..(m + n)
  OBVIOUS
<1>2. \A i \in 1..(m + n) : c[i] = IF i <= m THEN p[i] ELSE q[i - m]
  OBVIOUS
<1> HIDE DEF m, n, c
<1>3. \A i \in 1..m : i \in 1..(m + n) /\ c[i] = p[i]
  BY <1>1, <1>2
<1>4. \A i \in 1..n : m + i \in 1..(m + n) /\ c[m + i] = q[i]
  BY <1>1, <1>2
<1>5. \A i \in 1..(m + n) : i \in 1..m \/ i - m \in 1..n
  BY <1>1
<1>6. ToSet(c) = ToSet(p) \cup ToSet(q)
  <2>1. ToSet(c) \subseteq ToSet(p) \cup ToSet(q)
    <3> SUFFICES ASSUME NEW i \in 1..(m + n) PROVE c[i] \in ToSet(p) \cup ToSet(q)
      BY <1>1 DEF ToSet
    <3>1. CASE i \in 1..m
      BY <1>1, <1>3, <3>1, InToSet
    <3>2. CASE i - m \in 1..n
      <4>1. c[i] = q[i - m]
        BY <1>1, <1>2, <3>2
      <4> QED
        BY <1>1, <3>2, <4>1, InToSet
    <3> QED
      BY <1>5, <3>1, <3>2
  <2>2. ToSet(p) \subseteq ToSet(c) /\ ToSet(q) \subseteq ToSet(c)
    BY <1>1, <1>3, <1>4 DEF ToSet
  <2> QED
    BY <2>1, <2>2
<1>7. ASSUME Rising(p), Rising(q), Precede(ToSet(p), ToSet(q)),
             NEW i \in 1..(m + n), NEW j \in 1..(m + n), i < j
      PROVE  c[i] < c[j]
  <2>1. CASE i \in 1..m /\ j \in 1..m
    BY <1>1, <1>3, <1>7, <2>1 DEF Rising
  <2>2. CASE i \in 1..m /\ j - m \in 1..n
    <3>1. c[i] \in ToSet(p)
      BY <1>1, <1>3, <2>2 DEF ToSet
    <3>2. c[j] = q[j - m] /\ q[j - m] \in ToSet(q)
      <4>1. c[j] = q[j - m]
        BY <1>1, <1>2, <2>2
      <4> QED
        BY <1>1, <2>2, <4>1, InToSet
    <3> QED
      BY <1>7, <3>1, <3>2 DEF Precede
  <2>3. CASE i - m \in 1..n /\ j - m \in 1..n
    <3>1. c[i] = q[i - m] /\ c[j] = q[j - m] /\ i - m < j - m
      BY <1>1, <1>2, <1>7, <2>3
    <3> QED
      BY <1>1, <1>7, <2>3, <3>1 DEF Rising
  <2>4. CASE i - m \in 1..n /\ j \in 1..m
    BY <1>1, <1>7, <2>4
  <2> QED
    BY <1>5, <2>1, <2>2, <2>3, <2>4
<1> QED
  BY <1>1, <1>6, <1>7 DEF Rising, c

LEMMA ElementsOfParts ==
    ASSUME NEW q \in Seq(Int), NEW k \in 0..Len(q)
    PROVE  LET p == SubSeq(q, 1, k)
               r == SubSeq(q, k + 1, Len(q))
           IN  /\ p \in Seq(Int) /\ r \in Seq(Int)
               /\ ToSet(q) = ToSet(p) \cup ToSet(r)
               /\ Rising(q) => Rising(p) /\ Rising(r) /\ Precede(ToSet(p), ToSet(r))
<1> DEFINE n == Len(q)  p == SubSeq(q, 1, k)  r == SubSeq(q, k + 1, n)
<1>1. n \in Nat /\ DOMAIN q = 1..n /\ k \in Nat /\ k <= n
  OBVIOUS
<1>2. p \in Seq(Int) /\ r \in Seq(Int)
  BY PartsOfSeq
<1>3. DOMAIN p = 1..k /\ \A i \in 1..k : p[i] = q[i]
  OBVIOUS
<1>4. DOMAIN r = 1..(n - k) /\ \A i \in 1..(n - k) : r[i] = q[k + i]
  OBVIOUS
<1> HIDE DEF n, p, r
<1>5. \A i \in 1..n : i \in 1..k \/ (i - k \in 1..(n - k) /\ k + (i - k) = i)
  BY <1>1
<1>6. \A i \in 1..k : i \in 1..n
  BY <1>1
<1>7. \A i \in 1..(n - k) : k + i \in 1..n
  BY <1>1
<1>8. ToSet(q) = ToSet(p) \cup ToSet(r)
  <2>1. ToSet(q) \subseteq ToSet(p) \cup ToSet(r)
    <3> SUFFICES ASSUME NEW i \in 1..n PROVE q[i] \in ToSet(p) \cup ToSet(r)
      BY <1>1 DEF ToSet
    <3>1. CASE i \in 1..k
      BY <1>3, <3>1, InToSet
    <3>2. CASE i - k \in 1..(n - k) /\ k + (i - k) = i
      <4>1. r[i - k] = q[i]
        BY <1>4, <3>2
      <4> QED
        BY <1>4, <3>2, <4>1, InToSet
    <3> QED
      BY <1>5, <3>1, <3>2
  <2>2. ToSet(p) \subseteq ToSet(q) /\ ToSet(r) \subseteq ToSet(q)
    BY <1>1, <1>3, <1>4, <1>6, <1>7 DEF ToSet
  <2> QED
    BY <2>1, <2>2
<1>9. ASSUME Rising(q) PROVE Rising(p) /\ Rising(r) /\ Precede(ToSet(p), ToSet(r))
  <2>1. Rising(p)
    BY <1>1, <1>3, <1>6, <1>9 DEF Rising
  <2>2. Rising(r)
    <3> SUFFICES ASSUME NEW i \in 1..(n - k), NEW j \in 1..(n - k), i < j PROVE r[i] < r[j]
      BY <1>4 DEF Rising
    <3>1. k + i \in 1..n /\ k + j \in 1..n /\ k + i < k + j
      BY <1>1, <1>7
    <3> QED
      BY <1>1, <1>4, <1>9, <3>1 DEF Rising
  <2>3. ASSUME NEW i \in 1..k, NEW j \in 1..(n - k) PROVE p[i] < r[j]
    <3>1. i \in 1..n /\ k + j \in 1..n /\ i < k + j
      BY <1>1, <1>6, <1>7
    <3> QED
      BY <1>1, <1>3, <1>4, <1>9, <3>1 DEF Rising
  <2> QED
    BY <1>3, <1>4, <2>1, <2>2, <2>3 DEF Precede, ToSet
<1> QED
  BY <1>2, <1>8, <1>9 DEF n, p, r

LEMMA ElementsOfTail ==
    ASSUME NEW q \in Seq(Int), q # <<>>
    PROVE  /\ Head(q) \in Int /\ Tail(q) \in Seq(Int)
           /\ ToSet(q) = {Head(q)} \cup ToSet(Tail(q))
           /\ Rising(q) => Rising(Tail(q)) /\ Precede({Head(q)}, ToSet(Tail(q)))
<1> DEFINE n == Len(q)  t == Tail(q)
<1>1. n \in Nat /\ n > 0 /\ DOMAIN q = 1..n /\ Head(q) = q[1] /\ t \in Seq(Int) /\ q[1] \in Int
  OBVIOUS
<1>2. DOMAIN t = 1..(n - 1) /\ \A i \in 1..(n - 1) : t[i] = q[i + 1]
  OBVIOUS
<1> HIDE DEF n, t
<1>3. \A i \in 1..n : i = 1 \/ (i - 1 \in 1..(n - 1) /\ (i - 1) + 1 = i)
  BY <1>1
<1>4. 1 \in 1..n /\ \A i \in 1..(n - 1) : i + 1 \in 1..n /\ 1 < i + 1
  BY <1>1
<1>5. ToSet(q) = {q[1]} \cup ToSet(t)
  <2>1. ToSet(q) \subseteq {q[1]} \cup ToSet(t)
    <3> SUFFICES ASSUME NEW i \in 1..n PROVE q[i] \in {q[1]} \cup ToSet(t)
      BY <1>1 DEF ToSet
    <3>1. CASE i - 1 \in 1..(n - 1) /\ (i - 1) + 1 = i
      <4>1. t[i - 1] = q[i]
        BY <1>2, <3>1
      <4> QED
        BY <1>2, <3>1, <4>1, InToSet
    <3> QED
      BY <1>3, <3>1
  <2>2. {q[1]} \cup ToSet(t) \subseteq ToSet(q)
    <3>1. q[1] \in ToSet(q)
      BY <1>1, <1>4, InToSet
    <3>2. ASSUME NEW i \in 1..(n - 1) PROVE t[i] \in ToSet(q)
      <4>1. i + 1 \in 1..n /\ t[i] = q[i + 1]
        BY <1>2, <1>4
      <4> QED
        BY <1>1, <4>1, InToSet
    <3> QED
      BY <1>2, <3>1, <3>2 DEF ToSet
  <2> QED
    BY <2>1, <2>2
<1>6. ASSUME Rising(q) PROVE Rising(t) /\ Precede({q[1]}, ToSet(t))
  <2>1. ASSUME NEW i \in 1..(n - 1), NEW j \in 1..(n - 1), i < j PROVE t[i] < t[j]
    <3>1. i + 1 < j + 1
      BY <2>1
    <3> QED
      BY <1>1, <1>2, <1>4, <1>6, <3>1 DEF Rising
  <2>2. \A i \in 1..(n - 1) : q[1] < t[i]
    BY <1>1, <1>2, <1>4, <1>6 DEF Rising
  <2> QED
    BY <1>2, <2>1, <2>2 DEF Rising, Precede, ToSet
<1> QED
  BY <1>1, <1>5, <1>6 DEF t
------------------------------------------------------------------------------
(* The order of the records.                                                 *)

\* What the files d hold, and that they and the buffer p are in order.
RecordsOf(d) == UNION {ToSet(d[f]) : f \in DOMAIN d}

InOrder(d, p) ==
    /\ \A f \in DOMAIN d : Rising(d[f])
    /\ \A f, g \in DOMAIN d : f.no < g.no => Precede(ToSet(d[f]), ToSet(d[g]))
    /\ Rising(p)
    /\ Precede(RecordsOf(d), ToSet(p))

\* The open file is the newest of the directory, and there while a batch is
\* written.  Without an open file nothing is buffered.
StreamInv ==
    /\ stream = NoFile => pending = <<>>
    /\ stream \in DOMAIN disk => \A g \in DOMAIN disk : g.no <= stream.no
    /\ phase = "write" /\ stream # NoFile => stream \in DOMAIN disk

LEMMA RecordTypes ==
    ASSUME TypeOK
    PROVE  /\ pending \in Seq(Int) /\ pending \in Seq(1..MaxRecords)
           /\ \A f \in DOMAIN disk : disk[f] \in Seq(Int) /\ f.no \in Nat /\ f.no # 0
           /\ OnDisk \subseteq 1..MaxRecords /\ Buffered \subseteq 1..MaxRecords
           /\ NoFile \notin DOMAIN disk
<1>1. pending \in Seq(1..MaxRecords) /\ \A f \in DOMAIN disk : disk[f] \in Seq(1..MaxRecords)
  BY DEF TypeOK
<1>a. 1..MaxRecords \subseteq Int
  OBVIOUS
<1>2. ASSUME NEW q \in Seq(1..MaxRecords)
      PROVE  q \in Seq(Int) /\ ToSet(q) \subseteq 1..MaxRecords
  BY <1>a, SeqOfSubset
<1>3. \A f \in DOMAIN disk : f.no \in Nat \ {0}
  BY DEF TypeOK, Files
<1>4. NoFile \notin DOMAIN disk
  BY <1>3 DEF NoFile
<1> QED
  BY <1>1, <1>2, <1>3, <1>4 DEF OnDisk, Buffered

\* Writing out the first k buffered records moves them behind all others.
LEMMA FlushedInOrder ==
    ASSUME TypeOK, StreamInv, RecordsInOrder, NEW k \in 0..Len(pending)
    PROVE  LET p == SubSeq(pending, 1, k)
               r == SubSeq(pending, k + 1, Len(pending))
           IN  /\ InOrder(Flushed(k), r)
               /\ RecordsOf(Flushed(k)) = IF stream \in DOMAIN disk THEN OnDisk \cup ToSet(p)
                                          ELSE OnDisk
               /\ Buffered = ToSet(p) \cup ToSet(r) /\ Precede(ToSet(p), ToSet(r))
<1> DEFINE p == SubSeq(pending, 1, k)  r == SubSeq(pending, k + 1, Len(pending))
           d == Flushed(k)
<1>1. /\ p \in Seq(Int) /\ r \in Seq(Int) /\ Buffered = ToSet(p) \cup ToSet(r)
      /\ Rising(p) /\ Rising(r) /\ Precede(ToSet(p), ToSet(r))
  BY RecordTypes, ElementsOfParts DEF RecordsInOrder, Buffered
<1>2. /\ DOMAIN d = DOMAIN disk
      /\ \A f \in DOMAIN disk : d[f] = IF f = stream THEN disk[f] \o p ELSE disk[f]
  BY DEF Flushed
<1>3. \A f \in DOMAIN disk : disk[f] \in Seq(Int) /\ f.no \in Nat
  BY RecordTypes
<1>4. \A f \in DOMAIN disk : ToSet(disk[f]) \subseteq OnDisk
  BY DEF OnDisk
<1>5. /\ \A f \in DOMAIN disk : Rising(disk[f])
      /\ \A f, g \in DOMAIN disk : f.no < g.no => Precede(ToSet(disk[f]), ToSet(disk[g]))
      /\ Precede(OnDisk, ToSet(p) \cup ToSet(r))
  BY <1>1 DEF RecordsInOrder
<1>6. stream \in DOMAIN disk => \A g \in DOMAIN disk : g.no <= stream.no
  BY DEF StreamInv
<1> HIDE DEF p, r, d
<1>7. \A f \in DOMAIN disk : Precede(ToSet(disk[f]), ToSet(p))
  BY <1>4, <1>5 DEF Precede
<1>8. \A f \in DOMAIN disk :
         /\ ToSet(d[f]) = IF f = stream THEN ToSet(disk[f]) \cup ToSet(p) ELSE ToSet(disk[f])
         /\ Rising(d[f])
  BY <1>1, <1>2, <1>3, <1>5, <1>7, ElementsOfConcat
<1>9. ASSUME NEW f \in DOMAIN disk, NEW g \in DOMAIN disk, f.no < g.no
      PROVE  Precede(ToSet(d[f]), ToSet(d[g]))
  <2>1. f # stream
    BY <1>3, <1>6, <1>9
  <2>2. ToSet(d[f]) = ToSet(disk[f])
    BY <1>8, <2>1
  <2>3. ToSet(d[g]) \subseteq ToSet(disk[g]) \cup ToSet(p)
    BY <1>8
  <2>4. Precede(ToSet(disk[f]), ToSet(disk[g])) /\ Precede(ToSet(disk[f]), ToSet(p))
    BY <1>5, <1>7, <1>9
  <2> QED
    BY <2>2, <2>3, <2>4 DEF Precede
<1>10. RecordsOf(d) = IF stream \in DOMAIN disk THEN OnDisk \cup ToSet(p) ELSE OnDisk
  <2>1. CASE stream \in DOMAIN disk
    <3>1. RecordsOf(d) \subseteq OnDisk \cup ToSet(p)
      BY <1>2, <1>4, <1>8 DEF RecordsOf
    <3>2. OnDisk \subseteq RecordsOf(d)
      BY <1>2, <1>8 DEF RecordsOf, OnDisk
    <3>3. ToSet(p) \subseteq RecordsOf(d)
      BY <1>2, <1>8, <2>1 DEF RecordsOf
    <3> QED
      BY <2>1, <3>1, <3>2, <3>3
  <2>2. CASE stream \notin DOMAIN disk
    <3>1. \A f \in DOMAIN disk : ToSet(d[f]) = ToSet(disk[f])
      BY <1>8, <2>2
    <3> QED
      BY <1>2, <2>2, <3>1 DEF RecordsOf, OnDisk
  <2> QED
    BY <2>1, <2>2
<1>11. Precede(RecordsOf(d), ToSet(r))
  BY <1>1, <1>5, <1>10 DEF Precede
<1>12. InOrder(d, r)
  BY <1>1, <1>2, <1>8, <1>9, <1>11 DEF InOrder
<1> QED
  BY <1>1, <1>10, <1>12 DEF p, r, d

\* Closing the stream writes out the whole buffer.
LEMMA ClosedInOrder ==
    ASSUME TypeOK, StreamInv, RecordsInOrder
    PROVE  /\ DOMAIN Closed = DOMAIN disk
           /\ InOrder(Closed, <<>>)
           /\ RecordsOf(Closed) = IF stream \in DOMAIN disk THEN OnDisk \cup Buffered ELSE OnDisk
<1> DEFINE n == Len(pending)  p == SubSeq(pending, 1, n)
<1>1. pending \in Seq(Int) /\ n \in 0..Len(pending)
  BY RecordTypes
<1>2. p = pending
  BY <1>1
<1>3. DOMAIN Closed = DOMAIN disk
  BY <1>1, FlushedType DEF Closed
<1>4. ToSet(<<>>) = {} /\ Rising(<<>>)
  BY DEF ToSet, Rising
<1>5. InOrder(Closed, <<>>)
  <2>1. InOrder(Closed, SubSeq(pending, n + 1, Len(pending)))
    BY <1>1, FlushedInOrder DEF Closed
  <2> QED
    BY <1>4, <2>1 DEF InOrder, Precede
<1>6. RecordsOf(Closed) = IF stream \in DOMAIN disk THEN OnDisk \cup ToSet(p) ELSE OnDisk
  BY <1>1, FlushedInOrder DEF Closed
<1> QED
  BY <1>2, <1>3, <1>5, <1>6 DEF Buffered

\* A file that is created is empty, one that is there keeps its records.
LEMMA OpenedInOrder ==
    ASSUME NEW d, InOrder(d, <<>>), NEW f
    PROVE  /\ DOMAIN Opened(d, f) = DOMAIN d \cup {f}
           /\ InOrder(Opened(d, f), <<>>)
           /\ RecordsOf(Opened(d, f)) = RecordsOf(d)
<1> DEFINE e == Opened(d, f)
<1>1. ToSet(<<>>) = {} /\ Rising(<<>>)
  BY DEF ToSet, Rising
<1>2. /\ DOMAIN e = DOMAIN d \cup {f}
      /\ \A g \in DOMAIN d : e[g] = d[g]
      /\ f \notin DOMAIN d => e[f] = <<>>
  BY DEF Opened
<1> HIDE DEF e
<1>3. RecordsOf(e) = RecordsOf(d)
  BY <1>1, <1>2 DEF RecordsOf
<1>4. \A g \in DOMAIN e : g \in DOMAIN d \/ (ToSet(e[g]) = {} /\ Rising(e[g]))
  <2> SUFFICES ASSUME NEW g \in DOMAIN e, g \notin DOMAIN d PROVE ToSet(e[g]) = {} /\ Rising(e[g])
    OBVIOUS
  <2>1. g = f /\ e[g] = <<>>
    BY <1>2
  <2> QED
    BY <1>1, <2>1
<1>5. InOrder(e, <<>>)
  BY <1>1, <1>2, <1>3, <1>4 DEF InOrder, Precede
<1> QED
  BY <1>2, <1>3, <1>5 DEF e
------------------------------------------------------------------------------
(* What each step does to the records.                                       *)

LEMMA StreamInvStep == TypeOK /\ Cleaning /\ Chosen /\ StreamInv /\ DirStep => StreamInv'
<1> SUFFICES ASSUME TypeOK, Cleaning, Chosen, StreamInv, DirStep PROVE StreamInv'
  OBVIOUS
<1>0. \A f \in DOMAIN disk : f.no \in Nat /\ f.no # 0
  BY RecordTypes
<1>1. CASE RemoveOldest
  <2>1. DOMAIN disk' \subseteq DOMAIN disk
    BY <1>1, RemovalFacts
  <2> QED
    BY <1>1, <2>1 DEF RemoveOldest, StreamInv
<1>2. CASE OpenPath
  <2>1. stream' = path /\ pending' = <<>> /\ DOMAIN disk' = DOMAIN disk \cup {path}
    BY <1>2, OpenPathFacts DEF OpenPath
  <2>2. path.no \in Nat /\ path # NoFile
    <3>1. path \in Files
      BY <1>2, OpenPathFacts
    <3>2. path.no \in Nat \ {0}
      BY <3>1 DEF Files
    <3>3. NoFile.no = 0
      BY DEF NoFile
    <3> QED
      BY <3>2, <3>3
  <2>3. \A g \in DOMAIN disk : g.no <= path.no
    BY <1>0, <1>2, <2>2, OpenPathFacts DEF Newest
  <2> QED
    BY <2>1, <2>2, <2>3 DEF StreamInv
<1>3. CASE Spills
  <2>1. PICK k \in 1..Len(pending) : pending' = SubSeq(pending, k + 1, Len(pending))
    BY <1>3 DEF Spills, WriteOut
  <2>2. pending # <<>> /\ phase' = phase /\ stream' = stream
    BY <1>3, <2>1 DEF Spills, WriteOut
  <2>3. DOMAIN disk' = DOMAIN disk
    BY <1>3, OtherStepsKeepFiles DEF Spills, WriteOut, RemoveOldest, OpenPath
  <2> QED
    BY <2>2, <2>3 DEF StreamInv
<1>4. CASE OpenFails \/ Quit \/ Crash
  <2>1. stream' = NoFile /\ pending' = <<>>
    BY <1>4 DEF OpenFails, Quit, Crash
  <2>2. NoFile \notin DOMAIN disk'
    <3>1. DOMAIN disk' = DOMAIN disk
      BY <1>4, FlushedType DEF OpenFails, Quit, Crash, Closed, TypeOK
    <3> QED
      BY <3>1, RecordTypes
  <2> QED
    BY <2>1, <2>2 DEF StreamInv
<1>5. CASE TakeBatch \/ Fetch \/ ChoosePath \/ BatchEnd \/ Restart \/ Elsewhere
  BY <1>5 DEF TakeBatch, Fetch, ChoosePath, BatchEnd, Restart, Elsewhere, StreamInv
<1>6. CASE \E record \in 1..MaxRecords : WriteOne(record)
  BY <1>6 DEF WriteOne, WriteToLastFile, StreamInv
<1> QED
  BY <1>1, <1>2, <1>3, <1>4, <1>5, <1>6 DEF DirStep, Handling

LEMMA OtherStepsKeepRecords ==
    ASSUME TakeBatch \/ Fetch \/ ChoosePath \/ BatchEnd \/ Restart \/ Elsewhere
    PROVE  disk' = disk /\ pending' = pending
BY DEF TakeBatch, Fetch, ChoosePath, BatchEnd, Restart, Elsewhere

\* With one prefix a file is given by its number.
OnePrefix == \A a, b \in FilePrefixes : a = b

LEMMA FileOfNumber ==
    ASSUME OnePrefix, NEW f \in Files, NEW g \in Files, f.no = g.no
    PROVE  f = g
BY DEF OnePrefix, Files

\* A removal gives up the records of one file, which are the oldest of the files.
LEMMA RemovalRecords ==
    ASSUME TypeOK, Cleaning, RecordsInOrder, RemoveOldest
    PROVE  /\ RecordsInOrder'
           /\ OnDisk' \subseteq OnDisk /\ Buffered' = Buffered
           /\ OnePrefix => Precede(OnDisk \ OnDisk', OnDisk')
<1>1. PICK f \in victims :
         /\ \A g \in victims : f.no <= g.no
         /\ disk' = [g \in DOMAIN disk \ {f} |-> disk[g]]
         /\ pending' = pending
  BY DEF RemoveOldest
<1>2. DOMAIN disk' = DOMAIN disk \ {f} /\ \A g \in DOMAIN disk' : disk'[g] = disk[g]
  BY <1>1
<1>3. f \in DOMAIN disk /\ \A g \in DOMAIN disk : f.no <= g.no
  BY <1>1 DEF RemoveOldest, Cleaning, Oldest, TypeOK
<1>4. OnDisk' \subseteq OnDisk /\ Buffered' = Buffered
  BY <1>1, <1>2 DEF OnDisk, Buffered
<1>5. RecordsInOrder'
  BY <1>1, <1>2, <1>4 DEF RecordsInOrder, Precede
<1>6. ASSUME OnePrefix PROVE Precede(OnDisk \ OnDisk', OnDisk')
  <2>1. OnDisk \ OnDisk' \subseteq ToSet(disk[f])
    BY <1>2 DEF OnDisk
  <2>2. ASSUME NEW g \in DOMAIN disk' PROVE Precede(ToSet(disk[f]), ToSet(disk'[g]))
    <3>1. f \in Files /\ g \in Files /\ g # f /\ g \in DOMAIN disk
      BY <1>2, <1>3 DEF TypeOK
    <3>2. f.no < g.no
      BY <1>3, <1>6, <3>1, FileOfNumber DEF Files
    <3> QED
      BY <1>2, <1>3, <3>1, <3>2 DEF RecordsInOrder
  <2> QED
    BY <2>1, <2>2 DEF Precede, OnDisk
<1> QED
  BY <1>4, <1>5, <1>6

\* Closing the stream writes out the buffer; only a file that was removed while
\* it was open takes it away.
LEMMA ClosingRecords ==
    ASSUME TypeOK, Chosen, StreamInv, RecordsInOrder, OpenPath \/ OpenFails \/ Quit
    PROVE  /\ RecordsInOrder' /\ Buffered' = {}
           /\ OnDisk' = IF stream \in DOMAIN disk THEN OnDisk \cup Buffered ELSE OnDisk
<1>1. pending' = <<>> /\ Buffered' = {}
  BY DEF OpenPath, OpenFails, Quit, Buffered, ToSet
<1>2. disk' = Closed \/ disk' = Opened(Closed, path)
  BY DEF OpenPath, OpenFails, Quit
<1>3. InOrder(disk', <<>>) /\ RecordsOf(disk') = RecordsOf(Closed)
  <2>1. InOrder(Closed, <<>>)
    BY ClosedInOrder
  <2>2. CASE disk' = Closed
    BY <2>1, <2>2
  <2>3. CASE disk' = Opened(Closed, path)
    <3>1. InOrder(Opened(Closed, path), <<>>) /\ RecordsOf(Opened(Closed, path)) = RecordsOf(Closed)
      BY <2>1, OpenedInOrder
    <3> QED
      BY <2>3, <3>1
  <2> QED
    BY <1>2, <2>2, <2>3
<1>4. OnDisk' = IF stream \in DOMAIN disk THEN OnDisk \cup Buffered ELSE OnDisk
  BY <1>3, ClosedInOrder DEF OnDisk, RecordsOf
<1>5. RecordsInOrder'
  BY <1>1, <1>3 DEF RecordsInOrder, InOrder, OnDisk, Buffered, RecordsOf
<1> QED
  BY <1>1, <1>4, <1>5

\* Writing out a part of the buffer moves its oldest records to the disk.
LEMMA SpilledRecords ==
    ASSUME TypeOK, StreamInv, RecordsInOrder, Spills
    PROVE  /\ RecordsInOrder'
           /\ OnDisk' \cup Buffered' = OnDisk \cup Buffered
           /\ OnDisk \subseteq OnDisk' /\ Buffered' \subseteq Buffered
           /\ Precede(Buffered \ Buffered', Buffered')
<1>1. PICK k \in 1..Len(pending) :
         disk' = Flushed(k) /\ pending' = SubSeq(pending, k + 1, Len(pending))
  BY DEF Spills, WriteOut
<1> DEFINE p == SubSeq(pending, 1, k)  r == SubSeq(pending, k + 1, Len(pending))
<1>2. k \in 0..Len(pending) /\ pending # <<>>
  BY <1>1, RecordTypes
<1>3. stream \in DOMAIN disk
  BY <1>2 DEF StreamInv, Spills
<1>4. /\ InOrder(disk', pending')
      /\ OnDisk' = OnDisk \cup ToSet(p)
      /\ Buffered = ToSet(p) \cup ToSet(r) /\ Precede(ToSet(p), ToSet(r))
  BY <1>1, <1>2, <1>3, FlushedInOrder DEF OnDisk, RecordsOf
<1>5. Buffered' = ToSet(r)
  BY <1>1 DEF Buffered
<1>6. RecordsInOrder'
  BY <1>4 DEF RecordsInOrder, InOrder, OnDisk, Buffered, RecordsOf
<1> HIDE DEF p, r
<1> QED
  BY <1>4, <1>5, <1>6 DEF Precede

\* A written record comes behind all there are, unless no file is open.
LEMMA WrittenRecords ==
    ASSUME TypeOK, StreamInv, RecordsInOrder, NEW record \in 1..MaxRecords, WriteOne(record),
           \A r \in OnDisk \cup Buffered : r < record
    PROVE  /\ RecordsInOrder'
           /\ OnDisk' = OnDisk
           /\ Buffered' = IF stream = NoFile THEN Buffered ELSE Buffered \cup {record}
<1>1. disk' = disk /\ OnDisk' = OnDisk
  BY DEF WriteOne, WriteToLastFile, OnDisk
<1>2. pending \in Seq(Int)
  BY RecordTypes
<1>3. CASE stream # NoFile
  <2>1. pending' = Append(pending, record)
    BY <1>3 DEF WriteOne, WriteToLastFile
  <2>2. Rising(pending) /\ \A y \in ToSet(pending) : y < record
    BY DEF RecordsInOrder, Buffered
  <2>3. Buffered' = Buffered \cup {record} /\ Rising(pending')
    BY <1>2, <2>1, <2>2, ElementsOfAppend DEF Buffered
  <2>4. Precede(OnDisk', Buffered')
    BY <1>1, <2>3 DEF RecordsInOrder, Precede
  <2> QED
    BY <1>1, <1>3, <2>3, <2>4 DEF RecordsInOrder
<1>4. CASE stream = NoFile
  <2>1. pending' = pending
    BY <1>4 DEF WriteOne, WriteToLastFile
  <2> QED
    BY <1>1, <1>4, <2>1 DEF RecordsInOrder, Buffered
<1> QED
  BY <1>3, <1>4

LEMMA CrashRecords ==
    ASSUME RecordsInOrder, Crash
    PROVE  RecordsInOrder' /\ OnDisk' = OnDisk /\ Buffered' = {}
<1>1. disk' = disk /\ pending' = <<>> /\ ToSet(<<>>) = {} /\ Rising(<<>>)
  BY DEF Crash, ToSet, Rising
<1> QED
  BY <1>1 DEF RecordsInOrder, OnDisk, Buffered, Precede

\* Any step but a write keeps the records in order and adds none.
LEMMA HandlingKeepsRecords ==
    ASSUME TypeOK, Cleaning, Chosen, StreamInv, RecordsInOrder, Handling
    PROVE  RecordsInOrder' /\ OnDisk' \cup Buffered' \subseteq OnDisk \cup Buffered
<1>1. CASE RemoveOldest
  BY <1>1, RemovalRecords
<1>2. CASE OpenPath \/ OpenFails \/ Quit
  BY <1>2, ClosingRecords
<1>3. CASE Spills
  BY <1>3, SpilledRecords
<1>4. CASE Crash
  BY <1>4, CrashRecords
<1>5. CASE TakeBatch \/ Fetch \/ ChoosePath \/ BatchEnd \/ Restart \/ Elsewhere
  BY <1>5, OtherStepsKeepRecords DEF RecordsInOrder, OnDisk, Buffered
<1> QED
  BY <1>1, <1>2, <1>3, <1>4, <1>5 DEF Handling
------------------------------------------------------------------------------
(* LogDirectory's own behaviours.                                            *)

\* The next record is newer than all that are held.
Below == \A r \in OnDisk \cup Buffered : r < next

OrderInv == DirInv /\ StreamInv /\ RecordsInOrder /\ Below

LEMMA InitOrderInv == Init => OrderInv
<1> SUFFICES ASSUME Init PROVE OrderInv
  OBVIOUS
<1>1. DOMAIN disk = {} /\ pending = <<>> /\ stream = NoFile /\ phase = "idle"
  BY DEF Init
<1>2. OnDisk = {} /\ Buffered = {} /\ Rising(pending)
  BY <1>1 DEF OnDisk, Buffered, ToSet, Rising
<1> QED
  BY <1>1, <1>2, InitDirInv DEF OrderInv, StreamInv, RecordsInOrder, Precede, Below

LEMMA OrderInvStep == OrderInv /\ [Next]_vars => OrderInv'
<1> SUFFICES ASSUME OrderInv, [Next]_vars PROVE OrderInv'
  OBVIOUS
<1>1. /\ TypeOK /\ Cleaning /\ Chosen /\ StreamInv /\ RecordsInOrder /\ Below /\ DirStep
  BY NextIsDirStep DEF OrderInv, DirInv
<1>2. DirInv' /\ StreamInv'
  BY <1>1, DirInvStep, StreamInvStep DEF OrderInv
<1>3. next \in Nat /\ OnDisk \subseteq Int /\ Buffered \subseteq Int
  BY <1>1, RecordTypes DEF TypeOK
<1>4. ASSUME next \in 1..MaxRecords, WriteOne(next), next' = next + 1
      PROVE  RecordsInOrder' /\ Below'
  <2>1. RecordsInOrder' /\ OnDisk' \cup Buffered' \subseteq OnDisk \cup Buffered \cup {next}
    BY <1>1, <1>4, WrittenRecords DEF Below
  <2>2. \A r \in OnDisk \cup Buffered \cup {next} : r < next + 1
    BY <1>1, <1>3 DEF Below
  <2> QED
    BY <1>4, <2>1, <2>2 DEF Below
<1>5. ASSUME Handling, next' = next
      PROVE  RecordsInOrder' /\ Below'
  BY <1>1, <1>5, HandlingKeepsRecords DEF Below
<1> QED
  BY <1>1, <1>2, <1>4, <1>5, StepOfNext DEF OrderInv

THEOREM OrderInvHolds == Spec => []OrderInv
BY InitOrderInv, OrderInvStep, PTL DEF Spec

\* Whatever the prefixes and limits, and wherever crashes cut a batch short: of two
\* files the one with the lower number holds the older records, each file holds
\* its records in the order in which they were written, and what the stream has
\* buffered is newer than all of them.
THEOREM RecordsStayInOrder == Spec => []RecordsInOrder
<1>1. OrderInv => RecordsInOrder
  BY DEF OrderInv
<1> QED
  BY <1>1, OrderInvHolds, PTL
------------------------------------------------------------------------------
(* The sizes of the files.                                                   *)

\* The file to append to was not full when it was chosen; what the batch has added
\* to it since is what it may exceed the limit by.
SizeInv ==
    /\ phase = "open" /\ path \in DOMAIN disk => Len(disk[path]) <= Limit
    /\ phase = "write" /\ stream \in DOMAIN disk =>
          Len(disk[stream]) + Len(pending) <= Limit + Buffer + inBatch
    /\ SizeBounded

LEMMA LengthTypes ==
    ASSUME TypeOK
    PROVE  /\ Len(pending) \in 0..Buffer /\ inBatch \in 0..MaxBatch
           /\ Limit \in Nat /\ Buffer \in Nat /\ MaxBatch \in Nat
           /\ \A f \in DOMAIN disk : Len(disk[f]) \in Nat
<1>1. \A q \in Seq(1..MaxRecords) : Len(q) \in Nat
  OBVIOUS
<1> QED
  BY <1>1, LimitsAssumption, BoundsAssumption DEF TypeOK

\* With one prefix the newest file is the one a batch is appended to, unless it is
\* full or there is none.
LEMMA ChosenIsNotFull ==
    ASSUME OnePrefix, TypeOK, ChoosePath, path' \in DOMAIN disk
    PROVE  Len(disk[path']) <= Limit
<1>1. PICK f \in DOMAIN disk :
         Newest(f) /\ path' = [prefix |-> prefix, no |-> NumberAfter(f)]
  BY DEF ChoosePath
<1>2. f \in Files /\ path' \in Files /\ f.no \in Nat /\ path'.no = NumberAfter(f)
  BY <1>1 DEF TypeOK, Files
<1>3. CASE Full(f)
  <2>1. path'.no = f.no + 1
    BY <1>2, <1>3 DEF NumberAfter
  <2>2. path'.no <= f.no
    BY <1>1 DEF Newest
  <2> QED
    BY <1>2, <2>1, <2>2
<1>4. CASE ~Full(f)
  <2>1. path' = f
    BY <1>2, <1>4, FileOfNumber DEF NumberAfter
  <2> QED
    BY <1>4, <2>1, LengthTypes DEF Full
<1> QED
  BY <1>3, <1>4

\* What closing the stream, in full or in part, makes of the sizes.
LEMMA FlushedSizes ==
    ASSUME TypeOK, NEW k \in 0..Len(pending)
    PROVE  \A f \in DOMAIN disk :
              Len(Flushed(k)[f]) = Len(disk[f]) + (IF f = stream THEN k ELSE 0)
<1>1. SubSeq(pending, 1, k) \in Seq(1..MaxRecords) /\ Len(SubSeq(pending, 1, k)) = k
  <2>1. Len(pending) \in Nat /\ k \in Nat /\ k <= Len(pending)
    BY LengthTypes
  <2>2. Len(SubSeq(pending, 1, k)) = k
    BY <2>1
  <2> QED
    BY <2>2, PartsOfSeq DEF TypeOK
<1>2. \A f \in DOMAIN disk : disk[f] \in Seq(1..MaxRecords)
  BY DEF TypeOK
<1>3. ASSUME NEW p \in Seq(1..MaxRecords), NEW q \in Seq(1..MaxRecords)
      PROVE  Len(p \o q) = Len(p) + Len(q) /\ Len(p) \in Nat
  OBVIOUS
<1>4. ASSUME NEW f \in DOMAIN disk
      PROVE  Len(Flushed(k)[f]) = Len(disk[f]) + (IF f = stream THEN k ELSE 0)
  <2>1. Flushed(k)[f] = IF f = stream THEN disk[f] \o SubSeq(pending, 1, k) ELSE disk[f]
    BY DEF Flushed
  <2>2. Len(disk[f] \o SubSeq(pending, 1, k)) = Len(disk[f]) + k /\ Len(disk[f]) \in Nat
    BY <1>1, <1>2, <1>3
  <2> QED
    BY <2>1, <2>2
<1> QED
  BY <1>4

LEMMA InitSizeInv == Init => SizeInv
BY DEF Init, SizeInv, SizeBounded

LEMMA SizeInvStep ==
    ASSUME OnePrefix, TypeOK, TypeOK', Chosen, Cleaning, StreamInv, SizeInv, [Next]_vars
    PROVE  SizeInv'
<1>0. /\ Len(pending) \in 0..Buffer /\ inBatch \in 0..MaxBatch
      /\ Limit \in Nat /\ Buffer \in Nat /\ MaxBatch \in Nat
      /\ \A f \in DOMAIN disk : Len(disk[f]) \in Nat
  BY LengthTypes
<1>1. /\ phase = "open" /\ path \in DOMAIN disk => Len(disk[path]) <= Limit
      /\ phase = "write" /\ stream \in DOMAIN disk =>
            Len(disk[stream]) + Len(pending) <= Limit + Buffer + inBatch
      /\ \A f \in DOMAIN disk :
            Len(disk[f]) + (IF f = stream THEN Len(pending) ELSE 0) <= Limit + Buffer + MaxBatch
  BY DEF SizeInv, SizeBounded
<1>2. /\ DOMAIN Closed = DOMAIN disk
      /\ \A f \in DOMAIN disk :
            Len(Closed[f]) = Len(disk[f]) + (IF f = stream THEN Len(pending) ELSE 0)
  BY <1>0, FlushedSizes, FlushedType DEF Closed
<1>3. Len(<<>>) = 0
  OBVIOUS
<1>4. CASE RemoveOldest
  <2>1. /\ DOMAIN disk' \subseteq DOMAIN disk
        /\ \A g \in DOMAIN disk' : disk'[g] = disk[g]
        /\ stream' = stream /\ pending' = pending /\ phase' = "remove"
    BY <1>4 DEF RemoveOldest
  <2> QED
    BY <1>1, <2>1 DEF SizeInv, SizeBounded
<1>5. CASE ChoosePath
  <2>1. disk' = disk /\ stream' = stream /\ pending' = pending /\ phase' = "open"
    BY <1>5 DEF ChoosePath
  <2>2. path' \in DOMAIN disk => Len(disk[path']) <= Limit
    BY <1>5, ChosenIsNotFull
  <2> QED
    BY <1>1, <2>1, <2>2 DEF SizeInv, SizeBounded
<1>6. CASE OpenPath
  <2>1. /\ phase = "open" /\ phase' = "write" /\ stream' = path /\ pending' = <<>>
        /\ inBatch' = inBatch /\ disk' = Opened(Closed, path)
    BY <1>6 DEF OpenPath
  <2>2. /\ DOMAIN disk' = DOMAIN disk \cup {path}
        /\ \A f \in DOMAIN disk : disk'[f] = Closed[f]
        /\ path \notin DOMAIN disk => disk'[path] = <<>>
    BY <1>2, <2>1 DEF Opened
  <2>3. Len(disk'[path]) <= Limit + Buffer
    <3>1. CASE path \in DOMAIN disk
      <4>1. Len(disk'[path]) = Len(disk[path]) + (IF path = stream THEN Len(pending) ELSE 0)
        BY <1>2, <2>2, <3>1
      <4>2. Len(disk[path]) <= Limit
        BY <1>1, <2>1, <3>1
      <4> QED
        BY <1>0, <3>1, <4>1, <4>2
    <3>2. CASE path \notin DOMAIN disk
      BY <1>0, <1>3, <2>2, <3>2
    <3> QED
      BY <3>1, <3>2
  <2>4. Len(disk'[path]) \in Nat
    BY <2>2, <1>0, <1>2, <1>3
  <2>5. \A f \in DOMAIN disk : Len(disk'[f]) <= Limit + Buffer + MaxBatch
    BY <1>1, <1>2, <2>2
  <2>6. \A f \in DOMAIN disk' : Len(disk'[f]) \in Nat /\ Len(disk'[f]) <= Limit + Buffer + MaxBatch
    <3> SUFFICES ASSUME NEW f \in DOMAIN disk'
                 PROVE  Len(disk'[f]) \in Nat /\ Len(disk'[f]) <= Limit + Buffer + MaxBatch
      OBVIOUS
    <3>1. CASE f = path
      BY <1>0, <2>3, <2>4, <3>1
    <3>2. CASE f \in DOMAIN disk
      BY <1>0, <1>2, <2>2, <2>5, <3>2
    <3> QED
      BY <2>2, <3>1, <3>2
  <2>7. SizeBounded'
    BY <1>3, <2>1, <2>6 DEF SizeBounded
  <2>8. Len(disk'[stream']) + Len(pending') <= Limit + Buffer + inBatch'
    BY <1>0, <1>3, <2>1, <2>3, <2>4
  <2> QED
    BY <2>1, <2>7, <2>8 DEF SizeInv
<1>7. CASE OpenFails \/ Quit
  <2>1. /\ disk' = Closed /\ pending' = <<>> /\ stream' = NoFile /\ phase' \in {"write", "off"}
    BY <1>7 DEF OpenFails, Quit
  <2>2. stream' \notin DOMAIN disk'
    BY <1>2, <2>1, RecordTypes
  <2> QED
    BY <1>1, <1>2, <2>1, <2>2 DEF SizeInv, SizeBounded
<1>8. CASE Flush
  <2>1. PICK k \in 1..Len(pending) :
           disk' = Flushed(k) /\ pending' = SubSeq(pending, k + 1, Len(pending))
    BY <1>8 DEF Flush, WriteOut
  <2>2. k \in 0..Len(pending) /\ k \in Nat
    BY <1>0, <2>1
  <2>3. Len(pending') = Len(pending) - k
    BY <2>1, <2>2, PartsOfSeq DEF TypeOK
  <2>4. /\ DOMAIN disk' = DOMAIN disk
        /\ \A f \in DOMAIN disk : Len(disk'[f]) = Len(disk[f]) + (IF f = stream THEN k ELSE 0)
    BY <2>1, <2>2, FlushedSizes, FlushedType
  <2>5. stream' = stream /\ path' = path /\ phase' = phase /\ phase = "write" /\ inBatch' = inBatch
    BY <1>8 DEF Flush, WriteOut, MoreToWrite
  <2>6. stream \in DOMAIN disk =>
           Len(disk'[stream]) + Len(pending') = Len(disk[stream]) + Len(pending)
    BY <1>0, <2>2, <2>3, <2>4
  <2>7. \A f \in DOMAIN disk : f # stream => Len(disk'[f]) = Len(disk[f])
    BY <1>0, <2>4
  <2>8. SizeBounded'
    BY <1>0, <1>1, <2>4, <2>5, <2>6, <2>7 DEF SizeBounded
  <2> QED
    BY <1>1, <2>4, <2>5, <2>6, <2>8 DEF SizeInv
<1>9. CASE Write
  <2>1. /\ disk' = disk /\ stream' = stream /\ phase' = "write" /\ phase = "write"
        /\ inBatch' = inBatch + 1 /\ inBatch < MaxBatch
    BY <1>9 DEF Write, MoreToWrite, WriteToLastFile
  <2>2. Len(pending') <= Len(pending) + 1
    <3>1. CASE pending' = Append(pending, next)
      BY <1>0, <3>1, RecordTypes
    <3>2. CASE pending' = pending
      BY <1>0, <3>2
    <3> QED
      BY <1>9, <3>1, <3>2 DEF Write, WriteToLastFile
  <2>3. Len(pending') \in Nat
    BY LengthTypes DEF TypeOK
  <2>4. stream \in DOMAIN disk =>
           Len(disk[stream]) + Len(pending') <= Limit + Buffer + inBatch'
    BY <1>0, <1>1, <2>1, <2>2, <2>3
  <2>5. SizeBounded'
    BY <1>0, <1>1, <2>1, <2>3, <2>4 DEF SizeBounded
  <2> QED
    BY <2>1, <2>4, <2>5 DEF SizeInv
<1>10. CASE Crash
  <2>1. /\ disk' = disk /\ stream' = NoFile /\ phase' = "off"
    BY <1>10 DEF Crash
  <2>2. stream' \notin DOMAIN disk'
    BY <2>1, RecordTypes
  <2> QED
    BY <1>0, <1>1, <2>1, <2>2 DEF SizeInv, SizeBounded
<1>11. CASE TakeBatch \/ Fetch \/ BatchEnd \/ Restart
  BY <1>1, <1>11 DEF TakeBatch, Fetch, BatchEnd, Restart, SizeInv, SizeBounded
<1>12. CASE Stopped \/ UNCHANGED vars
  BY <1>1, <1>12 DEF Stopped, vars, SizeInv, SizeBounded
<1> QED
  BY <1>4, <1>5, <1>6, <1>7, <1>8, <1>9, <1>10, <1>11, <1>12 DEF Next

\* Started with one prefix only, the program never lets a file outgrow the limit by
\* more than a batch and a buffer.
THEOREM SizesAreBounded == OnePrefix => (Spec => []SizeBounded)
<1> SUFFICES ASSUME OnePrefix PROVE Spec => []SizeBounded
  OBVIOUS
<1>1. OrderInv /\ SizeInv /\ [Next]_vars => SizeInv'
  <2> SUFFICES ASSUME OrderInv, SizeInv, [Next]_vars PROVE SizeInv'
    OBVIOUS
  <2>1. TypeOK /\ TypeOK' /\ Chosen /\ Cleaning /\ StreamInv
    BY OrderInvStep DEF OrderInv, DirInv
  <2> QED
    BY <2>1, SizeInvStep
<1>2. SizeInv => SizeBounded
  BY DEF SizeInv
<1> QED
  BY <1>1, <1>2, InitSizeInv, OrderInvHolds, PTL DEF Spec
------------------------------------------------------------------------------
(* The directory is a RollingLog.                                            *)

LEMMA ElementsAreFewer ==
    ASSUME NEW S, NEW q \in Seq(S)
    PROVE  IsFiniteSet(ToSet(q)) /\ Cardinality(ToSet(q)) <= Len(q)
<1>1. Len(q) \in Nat /\ DOMAIN q = 1..Len(q) /\ q = [i \in 1..Len(q) |-> q[i]]
  OBVIOUS
<1>2. q \in [1..Len(q) -> ToSet(q)]
  BY <1>1, InToSet
<1>3. \A t \in ToSet(q) : \E i \in 1..Len(q) : q[i] = t
  BY <1>1 DEF ToSet
<1>4. q \in Surjection(1..Len(q), ToSet(q))
  BY <1>2, <1>3 DEF Surjection
<1>5. IsFiniteSet(1..Len(q)) /\ ExistsSurjection(1..Len(q), ToSet(q))
  BY <1>1, <1>4, FS_Interval DEF ExistsSurjection
<1> QED
  BY <1>1, <1>4, <1>5, FS_Surjection, FS_SurjCardinalityBound

\* RollingLog's Cardinality is that of FiniteSets.
LEMMA SameCardinality == \A S : Rolling!Cardinality(S) = Cardinality(S)
BY DEF Cardinality, Rolling!Cardinality

LEMMA NoRecordIsBoth ==
    ASSUME TypeOK, RecordsInOrder
    PROVE  OnDisk \cap Buffered = {}
<1>1. ASSUME NEW r \in OnDisk \cap Buffered PROVE FALSE
  <2>1. r < r /\ r \in Int
    BY <1>1, RecordTypes DEF RecordsInOrder, Precede
  <2> QED
    BY <2>1
<1> QED
  BY <1>1

LEMMA InitRolls == Init => Rolling!Init
<1> SUFFICES ASSUME Init PROVE Rolling!Init
  OBVIOUS
<1>1. OnDisk = {} /\ Buffered = {} /\ next = 1
  BY DEF Init, OnDisk, Buffered, ToSet
<1> QED
  BY <1>1 DEF Rolling!Init

\* Every step adds, refuses, persists, trims, crashes or changes nothing.
LEMMA StepRolls ==
    ASSUME OnePrefix, OrderInv, [Next]_vars
    PROVE  [Rolling!Next]_(Rolling!vars)
<1>0. TypeOK /\ Cleaning /\ Chosen /\ StreamInv /\ RecordsInOrder /\ Below
  BY DEF OrderInv, DirInv
<1>1. CASE Write /\ WriteOne(next) /\ next' = next + 1 /\ next \in 1..MaxRecords
  <2>1. /\ OnDisk' = OnDisk
        /\ Buffered' = IF stream = NoFile THEN Buffered ELSE Buffered \cup {next}
    BY <1>0, <1>1, WrittenRecords DEF Below
  <2>2. CASE stream = NoFile
    BY <1>1, <2>1, <2>2 DEF Rolling!Next, Rolling!Refuse
  <2>3. CASE stream # NoFile
    <3>1. Len(pending) < Buffer
      BY <1>1, <2>3 DEF WriteOne, WriteToLastFile
    <3>2. IsFiniteSet(Buffered) /\ Cardinality(Buffered) <= Len(pending)
      BY <1>0, ElementsAreFewer DEF Buffered, TypeOK
    <3>3. Cardinality(Buffered) < Buffer
      BY <1>0, <3>1, <3>2, FS_CardinalityType, LengthTypes
    <3>4. /\ OnDisk' \cup Buffered' = (OnDisk \cup Buffered) \cup {next}
          /\ Buffered' = Buffered \cup {next}
      BY <2>1, <2>3
    <3> QED
      BY <1>1, <3>3, <3>4, SameCardinality DEF Rolling!Next, Rolling!Add
  <2> QED
    BY <2>2, <2>3
<1>2. CASE RemoveOldest /\ next' = next
  <2>1. /\ OnDisk' \subseteq OnDisk /\ Buffered' = Buffered
        /\ Precede(OnDisk \ OnDisk', OnDisk')
    BY <1>0, <1>2, RemovalRecords
  <2>2. \A r \in OnDisk \ OnDisk', k \in OnDisk' \cup Buffered : r < k
    BY <1>0, <2>1 DEF Precede, RecordsInOrder
  <2> QED
    BY <1>2, <2>1, <2>2 DEF Rolling!Next, Rolling!Trim
<1>3. CASE (OpenPath \/ OpenFails \/ Quit) /\ next' = next
  <2>1. /\ Buffered' = {}
        /\ OnDisk' = IF stream \in DOMAIN disk THEN OnDisk \cup Buffered ELSE OnDisk
    BY <1>0, <1>3, ClosingRecords
  <2>2. CASE stream \in DOMAIN disk
    BY <1>3, <2>1, <2>2 DEF Rolling!Next, Rolling!Persist
  <2>3. CASE stream \notin DOMAIN disk
    <3>1. OnDisk' \cup Buffered' = (OnDisk \cup Buffered) \ Buffered
      BY <1>0, <2>1, <2>3, NoRecordIsBoth
    <3> QED
      BY <1>3, <2>1, <3>1 DEF Rolling!Next, Rolling!Crash
  <2> QED
    BY <2>2, <2>3
<1>4. CASE Spills /\ next' = next
  <2>1. /\ OnDisk' \cup Buffered' = OnDisk \cup Buffered
        /\ Buffered' \subseteq Buffered /\ Precede(Buffered \ Buffered', Buffered')
    BY <1>0, <1>4, SpilledRecords
  <2> QED
    BY <1>4, <2>1 DEF Rolling!Next, Rolling!Persist, Precede
<1>5. CASE Crash /\ next' = next
  <2>1. OnDisk' = OnDisk /\ Buffered' = {}
    BY <1>0, <1>5, CrashRecords
  <2>2. OnDisk' \cup Buffered' = (OnDisk \cup Buffered) \ Buffered
    BY <1>0, <2>1, NoRecordIsBoth
  <2> QED
    BY <1>5, <2>1, <2>2 DEF Rolling!Next, Rolling!Crash
<1>6. CASE /\ TakeBatch \/ Fetch \/ ChoosePath \/ BatchEnd \/ Restart \/ Elsewhere
           /\ next' = next
  <2>1. OnDisk' = OnDisk /\ Buffered' = Buffered
    BY <1>6, OtherStepsKeepRecords DEF OnDisk, Buffered
  <2> QED
    BY <1>6, <2>1 DEF Rolling!vars
<1> QED
  BY <1>0, <1>1, <1>2, <1>3, <1>4, <1>5, <1>6, StepOfNext DEF Handling

\* Started with one prefix only, the files and the stream's buffer together are one
\* log that rolls: it loses the oldest records to removals and the newest, no more
\* than a buffer of them, to a crash or to a file that goes while it is open.
THEOREM DirectoryIsRollingLog == OnePrefix => (Spec => IsRollingLog)
<1> SUFFICES ASSUME OnePrefix PROVE Spec => IsRollingLog
  OBVIOUS
<1>1. OrderInv /\ [Next]_vars => [Rolling!Next]_(Rolling!vars)
  BY StepRolls
<1> QED
  BY <1>1, InitRolls, OrderInvHolds, PTL DEF Spec, IsRollingLog, Rolling!Spec
------------------------------------------------------------------------------
(* With one prefix.                                                          *)

\* Files are removed only while enough others stay.
EnoughStay ==
    /\ MaxFiles < 0 => victims = {}
    /\ phase = "remove" /\ victims # {} =>
          Cardinality(DOMAIN disk) - Cardinality(victims) >= MaxFiles

\* All files but the newest are full, also those the new path will leave behind.
OlderFull ==
    /\ \A f, g \in DOMAIN disk : f.no < g.no => Full(f)
    /\ phase = "open" => \A f \in DOMAIN disk : f.no < path.no => Full(f)

\* The open file is in the directory.
StreamThere == stream = NoFile \/ stream \in DOMAIN disk

LEMMA EnoughStayStep == TypeOK /\ Cleaning /\ EnoughStay /\ DirStep => EnoughStay'
<1> SUFFICES ASSUME TypeOK, Cleaning, EnoughStay, DirStep PROVE EnoughStay'
  OBVIOUS
<1>0. /\ IsFiniteSet(DOMAIN disk) /\ Cardinality(DOMAIN disk) \in Nat
      /\ IsFiniteSet(victims) /\ Cardinality(victims) \in Nat
  BY FS_CardinalityType, FS_Subset DEF TypeOK
<1>1. CASE Fetch
  <2>1. PICK F \in SUBSET DOMAIN disk : Cardinality(F) = Excess /\ victims' = F
    BY <1>1 DEF Fetch
  <2>2. disk' = disk
    BY <1>1 DEF Fetch
  <2>3. IsFiniteSet(F) /\ (F # {} => Cardinality(F) # 0)
    BY <1>0, FS_Subset, FS_EmptySet
  <2>4. F # {} => MaxFiles >= 0 /\ Cardinality(F) = Cardinality(DOMAIN disk) - MaxFiles
    BY <2>1, <2>3 DEF Excess
  <2> QED
    BY <1>0, <2>1, <2>2, <2>4, LimitsAssumption DEF EnoughStay
<1>2. CASE RemoveOldest
  <2>1. PICK f \in victims :
           /\ victims' = victims \ {f}
           /\ Cardinality(DOMAIN disk') = Cardinality(DOMAIN disk) - 1
           /\ Cardinality(victims') = Cardinality(victims) - 1
    BY <1>2, RemovalFacts
  <2>2. phase = "remove"
    BY <1>2 DEF RemoveOldest
  <2> QED
    BY <1>0, <2>1, <2>2, LimitsAssumption DEF EnoughStay
<1>3. CASE Elsewhere
  BY <1>3 DEF Elsewhere, EnoughStay
<1>4. CASE ~Fetch /\ ~RemoveOldest /\ ~Elsewhere
  <2>1. phase' # "remove" /\ (victims' = victims \/ victims' = {})
    BY <1>4 DEF DirStep, Handling, TakeBatch, ChoosePath, OpenPath, OpenFails, WriteOne,
                WriteToLastFile, Spills, WriteOut, BatchEnd, Quit, Crash, Restart
  <2> QED
    BY <2>1 DEF EnoughStay
<1> QED
  BY <1>1, <1>2, <1>3, <1>4

\* Only with max_files_count = 0 is the open file removed.
LEMMA StreamThereStep ==
    ASSUME OnePrefix, MaxFiles # 0, TypeOK, Cleaning, Chosen, StreamInv, EnoughStay,
           StreamThere, DirStep
    PROVE  StreamThere'
<1>0. \A f \in DOMAIN disk : f \in Files /\ f.no \in Nat
  BY DEF TypeOK, Files
<1>1. CASE RemoveOldest
  <2>1. PICK f \in victims :
           /\ f \in DOMAIN disk
           /\ DOMAIN disk' = DOMAIN disk \ {f}
           /\ MaxFiles >= 1 => DOMAIN disk \ victims # {}
    BY <1>1, RemovalFacts
  <2>2. PICK g \in DOMAIN disk : g \notin victims
    BY <2>1, LimitsAssumption DEF EnoughStay
  <2>3. f.no <= g.no
    BY <1>1, <2>1, <2>2 DEF RemoveOldest, Cleaning, Oldest
  <2>4. stream # f
    <3> SUFFICES ASSUME stream = f PROVE FALSE
      OBVIOUS
    <3>1. g.no <= f.no
      BY <2>1, <2>2 DEF StreamInv
    <3>2. g = f
      BY <1>0, <2>1, <2>2, <2>3, <3>1, FileOfNumber
    <3> QED
      BY <2>2, <3>2
  <2>5. stream' = stream
    BY <1>1 DEF RemoveOldest
  <2> QED
    BY <2>1, <2>4, <2>5 DEF StreamThere
<1>2. CASE OpenPath
  BY <1>2, OpenPathFacts DEF OpenPath, StreamThere
<1>3. CASE ~RemoveOldest /\ ~OpenPath
  <2>1. DOMAIN disk' = DOMAIN disk
    BY <1>3, OtherStepsKeepFiles
  <2>2. stream' = stream \/ stream' = NoFile
    BY <1>3 DEF DirStep, Handling, TakeBatch, Fetch, ChoosePath, OpenFails, WriteOne,
                WriteToLastFile, Spills, WriteOut, BatchEnd, Quit, Crash, Restart, Elsewhere
  <2> QED
    BY <2>1, <2>2 DEF StreamThere
<1> QED
  BY <1>1, <1>2, <1>3

\* No step but a removal takes records from a file.
LEMMA FilesGrow ==
    ASSUME TypeOK, DirStep, NEW f \in DOMAIN disk, f \in DOMAIN disk', Full(f)
    PROVE  Full(f)'
<1>0. Limit \in Nat /\ Len(pending) \in Nat /\ Len(disk[f]) \in Nat
  BY LengthTypes
<1>1. ASSUME NEW k \in 0..Len(pending) PROVE Len(Flushed(k)[f]) >= Len(disk[f])
  BY <1>0, FlushedSizes
<1>2. Len(Closed[f]) >= Len(disk[f]) /\ DOMAIN Closed = DOMAIN disk
  BY <1>0, <1>1, FlushedType DEF Closed
<1>3. CASE RemoveOldest
  BY <1>3 DEF RemoveOldest, Full
<1>4. CASE OpenPath
  <2>1. disk'[f] = Closed[f]
    BY <1>2, <1>4 DEF OpenPath, Opened
  <2>2. Len(disk'[f]) > Limit
    BY <1>0, <1>2, <2>1, FlushedSizes DEF Full, Closed
  <2> QED
    BY <2>2 DEF Full
<1>5. CASE OpenFails \/ Quit
  <2>1. Len(disk'[f]) > Limit
    BY <1>0, <1>5, FlushedSizes DEF Full, Closed, OpenFails, Quit
  <2> QED
    BY <2>1 DEF Full
<1>6. CASE Spills
  <2>1. PICK k \in 1..Len(pending) : disk' = Flushed(k)
    BY <1>6 DEF Spills, WriteOut
  <2>2. Len(disk'[f]) > Limit
    BY <1>0, <2>1, FlushedSizes DEF Full
  <2> QED
    BY <2>2 DEF Full
<1>7. CASE disk' = disk
  BY <1>7 DEF Full
<1> QED
  BY <1>3, <1>4, <1>5, <1>6, <1>7
     DEF DirStep, Handling, TakeBatch, Fetch, ChoosePath, WriteOne, WriteToLastFile,
         BatchEnd, Crash, Restart, Elsewhere

LEMMA OlderFullStep ==
    ASSUME OnePrefix, TypeOK, Cleaning, Chosen, OlderFull, DirStep
    PROVE  OlderFull'
<1>0. \A f \in DOMAIN disk : f \in Files /\ f.no \in Nat
  BY DEF TypeOK, Files
<1>1. CASE OpenPath
  <2>1. DOMAIN disk' = DOMAIN disk \cup {path} /\ path.no \in Nat /\ phase = "open"
    BY <1>1, OpenPathFacts DEF Files, OpenPath
  <2>2. \A g \in DOMAIN disk : g.no <= path.no
    BY <1>0, <1>1, <2>1, OpenPathFacts DEF Newest
  <2>3. \A f, g \in DOMAIN disk' : f.no < g.no => f \in DOMAIN disk /\ Full(f)
    <3> SUFFICES ASSUME NEW f \in DOMAIN disk', NEW g \in DOMAIN disk', f.no < g.no
                 PROVE  f \in DOMAIN disk /\ Full(f)
      OBVIOUS
    <3>1. g.no <= path.no /\ f # path
      BY <1>0, <2>1, <2>2
    <3>2. f \in DOMAIN disk /\ f.no < path.no
      BY <1>0, <2>1, <3>1
    <3> QED
      BY <2>1, <3>2 DEF OlderFull
  <2>4. phase' = "write"
    BY <1>1 DEF OpenPath
  <2> QED
    BY <2>3, <2>4, FilesGrow DEF OlderFull
<1>2. CASE ChoosePath
  <2>1. disk' = disk
    BY <1>2 DEF ChoosePath
  <2>2. ASSUME NEW f \in DOMAIN disk, f.no < path'.no PROVE Full(f)
    <3>1. PICK g \in DOMAIN disk : Newest(g) /\ path'.no = NumberAfter(g)
      BY <1>2 DEF ChoosePath
    <3>2. f.no <= g.no /\ f.no \in Nat /\ g.no \in Nat
      BY <1>0, <3>1 DEF Newest
    <3>3. CASE f.no < g.no
      BY <3>3 DEF OlderFull
    <3>4. CASE f.no = g.no
      <4>1. f = g
        BY <1>0, <3>4, FileOfNumber
      <4> QED
        BY <2>2, <3>1, <3>2, <4>1 DEF NumberAfter
    <3> QED
      BY <3>2, <3>3, <3>4
  <2> QED
    BY <2>1, <2>2 DEF OlderFull, Full
<1>3. CASE ~OpenPath /\ ~ChoosePath
  <2>1. DOMAIN disk' \subseteq DOMAIN disk
    BY <1>3, OtherStepsKeepFiles, RemovalFacts
  <2>2. \A f \in DOMAIN disk' : Full(f) => Full(f)'
    BY <2>1, FilesGrow
  <2>3. CASE Elsewhere
    BY <2>1, <2>2, <2>3 DEF Elsewhere, OlderFull
  <2>4. CASE ~Elsewhere
    <3>1. phase' # "open"
      BY <1>3, <2>4 DEF DirStep, Handling, TakeBatch, Fetch, RemoveOldest, OpenFails, WriteOne,
                WriteToLastFile, Spills, WriteOut, BatchEnd, Quit, Crash, Restart
    <3> QED
      BY <2>1, <2>2, <3>1 DEF OlderFull
  <2> QED
    BY <2>3, <2>4
<1> QED
  BY <1>1, <1>2, <1>3
==============================================================================
