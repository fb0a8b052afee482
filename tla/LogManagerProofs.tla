--------------------------- MODULE LogManagerProofs --------------------------
(***************************************************************************)
(* What TLAPS proves of LogManager, for any set of producers, any bounds   *)
(* and any configuration of the two sinks.                                 *)
(***************************************************************************)
EXTENDS LogManager, TLAPS

LEMMA FirstSinkConfigured == FirstSink \in Configured
BY ConfiguredAssumption DEF FirstSink, Sinks

LEMMA InitTypeOK == Init => TypeOK
<1> SUFFICES ASSUME Init PROVE TypeOK
  OBVIOUS
<1>1. 0 \in 0..MaxCalls /\ 0 \in 0..MaxSpurious
  BY BoundsAssumption
<1>2. <<>> \in Seq(Record)
  OBVIOUS
<1>3. target \in [Producers -> Configured]
  BY FirstSinkConfigured DEF Init
<1> QED
  BY <1>1, <1>2, <1>3 DEF Init, TypeOK

LEMMA NextTypeOK == TypeOK /\ [Next]_vars => TypeOK'
<1> SUFFICES ASSUME TypeOK, [Next]_vars PROVE TypeOK'
  OBVIOUS
<1> USE DEF vars, mainVars, callVars, batchVars, sharedVars
<1>1. ASSUME NEW s \in Sinks, Spawn(s) PROVE TypeOK'
  BY <1>1 DEF TypeOK, Spawn, NextToSpawn
<1>2. ASSUME NEW s \in Sinks, SpawnFails(s) PROVE TypeOK'
  BY <1>2 DEF TypeOK, SpawnFails, NextToSpawn
<1>3. CASE Publish
  BY <1>3 DEF TypeOK, Publish
<1>4. CASE LockFirst
  BY <1>4 DEF TypeOK, LockFirst, Acquire
<1>5. CASE LockSecond
  BY <1>5 DEF TypeOK, LockSecond, Acquire
<1>6. CASE Backoff
  BY <1>6 DEF TypeOK, Backoff, Release
<1>7. CASE Finish
  BY <1>7 DEF TypeOK, Finish, Notify
<1>8. CASE Join
  BY <1>8 DEF TypeOK, Join
<1>9. CASE Exit \/ Retry
  BY <1>9 DEF TypeOK, Exit, Retry
<1>10. ASSUME NEW p \in Producers, Log(p) PROVE TypeOK'
  <2>1. PICK l \in Levels :
           current' = [current EXCEPT ![p] = [by |-> p, n |-> calls[p] + 1, level |-> l]]
    BY <1>10 DEF Log
  <2>2. calls[p] + 1 \in 1..MaxCalls
    BY <1>10, BoundsAssumption DEF TypeOK, Log
  <2>3. [by |-> p, n |-> calls[p] + 1, level |-> l] \in Record
    BY <2>2 DEF Record
  <2> QED
    BY <1>10, <2>1, <2>2, <2>3, FirstSinkConfigured, BoundsAssumption DEF TypeOK, Log
<1>11. ASSUME NEW p \in Producers, LogThrows(p) PROVE TypeOK'
  BY <1>11, BoundsAssumption DEF TypeOK, LogThrows
<1>12. ASSUME NEW p \in Producers, PushLock(p) PROVE TypeOK'
  BY <1>12 DEF TypeOK, PushLock, Acquire
<1>13. ASSUME NEW p \in Producers, PushRecord(p) PROVE TypeOK'
  <2> DEFINE s == target[p]
  <2>1. s \in Sinks /\ current[p] \in Record
    BY <1>13, ConfiguredAssumption DEF TypeOK, PushRecord
  <2>2. queue' = [queue EXCEPT ![s] = Append(@, current[p])]
        /\ accepted' = [accepted EXCEPT ![s] = Append(@, current[p])]
    BY <1>13 DEF PushRecord, Enqueued
  <2>3. queue' \in [Sinks -> Seq(Record)] /\ accepted' \in [Sinks -> Seq(Record)]
    BY <2>1, <2>2 DEF TypeOK
  <2>4. worker' \in [Sinks -> {"unborn", "lock", "check", "waiting", "prepare", "deliver", "done"}]
        /\ holder' \in [Sinks -> Producers \cup Sinks \cup {Main, Nobody}]
    BY <1>13 DEF TypeOK, PushRecord, Notify, Release
  <2>5. pc' \in [Producers -> {"idle", "lock", "locked"}]
        /\ target' \in [Producers -> Configured]
        /\ \A q \in Producers : pc'[q] # "idle" => pc[q] # "idle"
    BY <1>13 DEF TypeOK, PushRecord, AfterPush
  <2> QED
    BY <1>13, <2>3, <2>4, <2>5 DEF TypeOK, PushRecord
<1>14. ASSUME NEW s \in Sinks, WorkerLock(s) PROVE TypeOK'
  BY <1>14 DEF TypeOK, WorkerLock, Acquire
<1>15. ASSUME NEW s \in Sinks, WorkerWait(s) PROVE TypeOK'
  BY <1>15 DEF TypeOK, WorkerWait, Release
<1>16. ASSUME NEW s \in Sinks, WorkerSwap(s) PROVE TypeOK'
  BY <1>16 DEF TypeOK, WorkerSwap, Swap, Release
<1>17. ASSUME NEW s \in Sinks, Deliver(s) PROVE TypeOK'
  <2>1. batch[s] \in Seq(Record) /\ batch[s] # <<>>
    BY <1>17 DEF TypeOK, Deliver
  <2>2. Tail(batch[s]) \in Seq(Record) /\ Head(batch[s]) \in Record
    BY <2>1
  <2> QED
    BY <1>17, <2>2 DEF TypeOK, Deliver
<1>18. ASSUME NEW s \in Sinks, BatchDone(s) PROVE TypeOK'
  BY <1>18 DEF TypeOK, BatchDone
<1>19. CASE Prepare
  BY <1>19 DEF TypeOK, Prepare
<1>20. ASSUME NEW s \in Sinks, SpuriousWakeup(s) PROVE TypeOK'
  BY <1>20, BoundsAssumption DEF TypeOK, SpuriousWakeup
<1>21. CASE PrepareThrows
  BY <1>21 DEF TypeOK, PrepareThrows
<1>22. CASE UNCHANGED vars
  BY <1>22 DEF TypeOK
<1> QED
  BY <1>1, <1>2, <1>3, <1>4, <1>5, <1>6, <1>7, <1>8, <1>9, <1>10, <1>11, <1>12,
     <1>13, <1>14, <1>15, <1>16, <1>17, <1>18, <1>19, <1>20, <1>21, <1>22
     DEF Next, MainStep, PushStep, WorkerStep, WorkerFault, Stopped

\* Every variable keeps its type, the histories included.
THEOREM TypeCorrect == Spec => []TypeOK
BY InitTypeOK, NextTypeOK, PTL DEF Spec
------------------------------------------------------------------------------
(* The two mutexes.                                                          *)

\* scoped_lock between its two acquisitions has exactly one of the mutexes.
ScopedLock ==
    main = "lockSecond" =>
        \E s \in Sinks : holder[s] = Main /\ \A u \in Sinks \ {s} : holder[u] # Main

LockInv == MutualExclusion /\ ScopedLock

LEMMA Distinct ==
    /\ \A p \in Producers : p \notin Sinks /\ p # Main /\ p # Nobody
    /\ Main \notin Sinks /\ Nobody \notin Sinks /\ Main # Nobody
BY ProducersAssumption DEF Sinks, Main, Nobody

LEMMA InitLockInv == Init => LockInv
BY Distinct DEF Init, LockInv, MutualExclusion, ScopedLock, InSection

LEMMA NextLockInv == TypeOK /\ LockInv /\ [Next]_vars => LockInv'
<1> SUFFICES ASSUME TypeOK, LockInv, [Next]_vars PROVE LockInv'
  OBVIOUS
<1>0. /\ worker \in [Sinks -> {"unborn", "lock", "check", "waiting", "prepare", "deliver", "done"}]
      /\ pc \in [Producers -> {"idle", "lock", "locked"}]
      /\ target \in [Producers -> Sinks]
      /\ holder \in [Sinks -> Producers \cup Sinks \cup {Main, Nobody}]
  BY ConfiguredAssumption DEF TypeOK
<1> USE Distinct, <1>0 DEF vars, mainVars, callVars, batchVars, sharedVars,
        LockInv, MutualExclusion, ScopedLock, InSection
<1>1. ASSUME NEW s \in Sinks, Spawn(s) PROVE LockInv'
  BY <1>1 DEF Spawn, NextToSpawn
<1>2. ASSUME NEW s \in Sinks, SpawnFails(s) PROVE LockInv'
  BY <1>2 DEF SpawnFails, NextToSpawn
<1>3. CASE Publish
  BY <1>3 DEF Publish
<1>4. CASE LockFirst
  BY <1>4 DEF LockFirst, Acquire
<1>5. CASE LockSecond
  <2>1. PICK s \in Sinks : holder[s] = Nobody /\ holder' = [holder EXCEPT ![s] = Main]
    BY <1>5 DEF LockSecond, Acquire
  <2>2. \A u \in Sinks \ {s} : holder[u] = Main
    BY <1>5, <2>1 DEF LockSecond, Sinks
  <2>3. \A u \in Sinks : holder'[u] = Main
    BY <2>1, <2>2
  <2>4. \A u \in Sinks : worker[u] # "check" /\ \A p \in Producers : ~(pc[p] = "locked" /\ target[p] = u)
    BY <1>5, <2>1, <2>2 DEF LockSecond
  <2> QED
    BY <1>5, <2>3, <2>4 DEF LockSecond
<1>6. CASE Backoff
  BY <1>6 DEF Backoff, Release
<1>7. CASE Finish
  BY <1>7 DEF Finish, Notify
<1>8. CASE Join
  BY <1>8 DEF Join
<1>9. CASE Exit \/ Retry
  BY <1>9 DEF Exit, Retry
<1>10. ASSUME NEW p \in Producers, Log(p) PROVE LockInv'
  BY <1>10 DEF Log
<1>11. ASSUME NEW p \in Producers, LogThrows(p) PROVE LockInv'
  BY <1>11 DEF LogThrows
<1>12. ASSUME NEW p \in Producers, PushLock(p) PROVE LockInv'
  BY <1>12 DEF PushLock, Acquire, Members
<1>13. ASSUME NEW p \in Producers, PushRecord(p) PROVE LockInv'
  <2> DEFINE s == target[p]
  <2>1. s \in Sinks /\ holder[s] = p /\ pc[p] = "locked" /\ main # "terminated"
    BY <1>13 DEF PushRecord, Members
  <2>2. holder' = [holder EXCEPT ![s] = Nobody] /\ main' = main
    BY <1>13 DEF PushRecord, Release
  <2>3. /\ pc'[p] # "locked"
        /\ \A q \in Producers \ {p} : pc'[q] = pc[q] /\ target'[q] = target[q]
    BY <1>13 DEF PushRecord, AfterPush
  <2>4. \A u \in Sinks : worker'[u] = "check" <=> worker[u] = "check"
    BY <1>13 DEF PushRecord, Notify
  <2>5. ASSUME NEW u \in Sinks, NEW q \in Producers \cup {u, Main}
        PROVE  InSection(q, u)' <=> InSection(q, u) /\ q # p
    BY <2>1, <2>2, <2>3, <2>4
  <2>6. MutualExclusion'
    BY <2>1, <2>2, <2>5
  <2> QED
    BY <2>1, <2>2, <2>6
<1>14. ASSUME NEW s \in Sinks, main # "terminated", WorkerLock(s) PROVE LockInv'
  BY <1>14 DEF WorkerLock, Acquire
<1>15. ASSUME NEW s \in Sinks, main # "terminated", WorkerWait(s) PROVE LockInv'
  <2>1. holder[s] = s /\ worker[s] = "check"
    BY <1>15 DEF WorkerWait
  <2>2. holder' = [holder EXCEPT ![s] = Nobody] /\ main' = main /\ pc' = pc /\ target' = target
    BY <1>15 DEF WorkerWait, Release
  <2>3. worker'[s] # "check" /\ \A u \in Sinks \ {s} : worker'[u] = worker[u]
    BY <1>15 DEF WorkerWait
  <2> QED
    BY <1>15, <2>1, <2>2, <2>3
<1>16. ASSUME NEW s \in Sinks, main # "terminated", WorkerSwap(s) PROVE LockInv'
  <2>1. holder[s] = s /\ worker[s] = "check"
    BY <1>16 DEF WorkerSwap
  <2>2. holder' = [holder EXCEPT ![s] = Nobody] /\ main' = main /\ pc' = pc /\ target' = target
    BY <1>16 DEF WorkerSwap, Release
  <2>3. worker'[s] # "check" /\ \A u \in Sinks \ {s} : worker'[u] = worker[u]
    BY <1>16 DEF WorkerSwap
  <2> QED
    BY <1>16, <2>1, <2>2, <2>3
<1>17. ASSUME NEW s \in Sinks, main # "terminated", Deliver(s) PROVE LockInv'
  BY <1>17 DEF Deliver
<1>18. ASSUME NEW s \in Sinks, main # "terminated", BatchDone(s) PROVE LockInv'
  BY <1>18 DEF BatchDone
<1>19. ASSUME main # "terminated", Prepare PROVE LockInv'
  BY <1>19 DEF Prepare
<1>20. ASSUME NEW s \in Sinks, main # "terminated", SpuriousWakeup(s) PROVE LockInv'
  BY <1>20 DEF SpuriousWakeup
<1>21. ASSUME main # "terminated", PrepareThrows PROVE LockInv'
  BY <1>21 DEF PrepareThrows
<1>22. CASE UNCHANGED vars
  BY <1>22
<1> HIDE DEF vars, mainVars, callVars, batchVars, sharedVars,
        LockInv, MutualExclusion, ScopedLock, InSection
<1> QED
  BY <1>1, <1>2, <1>3, <1>4, <1>5, <1>6, <1>7, <1>8, <1>9, <1>10, <1>11, <1>12,
     <1>13, <1>14, <1>15, <1>16, <1>17, <1>18, <1>19, <1>20, <1>21, <1>22
     DEF Next, MainStep, PushStep, WorkerStep, WorkerFault, Stopped

\* Each queue, and _is_finiesh with both mutexes, is touched by one thread at a time.
THEOREM MutexesHold == Spec => []MutualExclusion
<1>1. TypeOK /\ LockInv /\ [Next]_vars => LockInv'
  BY NextLockInv
<1>2. LockInv => MutualExclusion
  BY DEF LockInv
<1> QED
  BY InitLockInv, TypeCorrect, <1>1, <1>2, PTL DEF Spec
------------------------------------------------------------------------------
(* The condition variables.                                                  *)

LEMMA NextNoLostWakeup == TypeOK /\ NoLostWakeup /\ [Next]_vars => NoLostWakeup'
<1> SUFFICES ASSUME TypeOK, NoLostWakeup, [Next]_vars PROVE NoLostWakeup'
  OBVIOUS
<1>0. /\ worker \in [Sinks -> {"unborn", "lock", "check", "waiting", "prepare", "deliver", "done"}]
      /\ queue \in [Sinks -> Seq(Record)]
      /\ target \in [Producers -> Sinks]
  BY ConfiguredAssumption DEF TypeOK
<1> USE <1>0 DEF vars, mainVars, callVars, batchVars, sharedVars, NoLostWakeup, HasWork
<1>1. ASSUME NEW s \in Sinks, Spawn(s) PROVE NoLostWakeup'
  BY <1>1 DEF Spawn, NextToSpawn
<1>2. ASSUME NEW s \in Sinks, SpawnFails(s) PROVE NoLostWakeup'
  BY <1>2 DEF SpawnFails, NextToSpawn
<1>3. CASE Publish
  BY <1>3 DEF Publish
<1>4. CASE LockFirst
  BY <1>4 DEF LockFirst
<1>5. CASE LockSecond
  BY <1>5 DEF LockSecond
<1>6. CASE Backoff
  BY <1>6 DEF Backoff
<1>7. CASE Finish
  BY <1>7 DEF Finish, Notify
<1>8. CASE Join
  BY <1>8 DEF Join
<1>9. CASE Exit \/ Retry
  BY <1>9 DEF Exit, Retry
<1>10. ASSUME NEW p \in Producers, Log(p) PROVE NoLostWakeup'
  BY <1>10 DEF Log
<1>11. ASSUME NEW p \in Producers, LogThrows(p) PROVE NoLostWakeup'
  BY <1>11 DEF LogThrows
<1>12. ASSUME NEW p \in Producers, PushLock(p) PROVE NoLostWakeup'
  BY <1>12 DEF PushLock
<1>13. ASSUME NEW p \in Producers, PushRecord(p) PROVE NoLostWakeup'
  BY <1>13 DEF PushRecord, Notify
<1>14. ASSUME NEW s \in Sinks, WorkerLock(s) PROVE NoLostWakeup'
  BY <1>14 DEF WorkerLock
<1>15. ASSUME NEW s \in Sinks, WorkerWait(s) PROVE NoLostWakeup'
  BY <1>15 DEF WorkerWait
<1>16. ASSUME NEW s \in Sinks, WorkerSwap(s) PROVE NoLostWakeup'
  BY <1>16 DEF WorkerSwap, Swap
<1>17. ASSUME NEW s \in Sinks, Deliver(s) PROVE NoLostWakeup'
  BY <1>17 DEF Deliver
<1>18. ASSUME NEW s \in Sinks, BatchDone(s) PROVE NoLostWakeup'
  BY <1>18 DEF BatchDone
<1>19. CASE Prepare
  BY <1>19 DEF Prepare
<1>20. ASSUME NEW s \in Sinks, SpuriousWakeup(s) PROVE NoLostWakeup'
  BY <1>20 DEF SpuriousWakeup
<1>21. CASE PrepareThrows
  BY <1>21 DEF PrepareThrows
<1>22. CASE UNCHANGED vars
  BY <1>22
<1> HIDE DEF vars, mainVars, callVars, batchVars, sharedVars, NoLostWakeup, HasWork
<1> QED
  BY <1>1, <1>2, <1>3, <1>4, <1>5, <1>6, <1>7, <1>8, <1>9, <1>10, <1>11, <1>12,
     <1>13, <1>14, <1>15, <1>16, <1>17, <1>18, <1>19, <1>20, <1>21, <1>22
     DEF Next, MainStep, PushStep, WorkerStep, WorkerFault, Stopped

\* A worker sleeps only while its queue is empty and no shutdown is requested.
THEOREM NoWakeupIsLost == Spec => []NoLostWakeup
<1>1. Init => NoLostWakeup
  BY DEF Init, NoLostWakeup
<1> QED
  BY <1>1, NextNoLostWakeup, TypeCorrect, PTL DEF Spec
------------------------------------------------------------------------------
(* The queues.                                                               *)

\* A worker holds records only between the swap and the end of the loop.
BatchTaken ==
    \A s \in Sinks : worker[s] \notin {"prepare", "deliver"} => batch[s] = <<>>

QueueInv == Conservation /\ BatchTaken

\* The facts about types that the queues need.
QueueTypes ==
    /\ worker \in [Sinks -> {"unborn", "lock", "check", "waiting", "prepare", "deliver", "done"}]
    /\ queue \in [Sinks -> Seq(Record)] /\ batch \in [Sinks -> Seq(Record)]
    /\ accepted \in [Sinks -> Seq(Record)] /\ handled \in [Sinks -> Nat]
    /\ target \in [Producers -> Sinks]
    /\ \A p \in Producers : pc[p] # "idle" => current[p] \in Record

LEMMA QueueTypesHold == TypeOK => QueueTypes
BY ConfiguredAssumption DEF TypeOK, QueueTypes

\* Appending one record to both sequences keeps their tails aligned.
LEMMA ConservedByPush ==
    ASSUME NEW s \in Sinks, NEW r \in Record, QueueTypes, Conserved(s),
           queue' = [queue EXCEPT ![s] = Append(queue[s], r)],
           accepted' = [accepted EXCEPT ![s] = Append(accepted[s], r)],
           batch' = batch, handled' = handled
    PROVE  Conserved(s)'
<1> DEFINE q == queue[s]  a == accepted[s]  b == batch[s]  h == handled[s]
<1>1. q \in Seq(Record) /\ a \in Seq(Record) /\ b \in Seq(Record) /\ h \in Nat
  BY DEF QueueTypes
<1>2. /\ h + Len(b) + Len(q) = Len(a)
      /\ \A i \in 1..Len(b) : b[i] = a[h + i]
      /\ \A i \in 1..Len(q) : q[i] = a[h + Len(b) + i]
  BY DEF Conserved
<1>3. queue'[s] = Append(q, r) /\ accepted'[s] = Append(a, r) /\ batch'[s] = b /\ handled'[s] = h
  BY DEF QueueTypes
<1> HIDE DEF q, a, b, h
<1>4. Len(q) \in Nat /\ Len(a) \in Nat /\ Len(b) \in Nat
  BY <1>1
<1>5. Len(Append(q, r)) = Len(q) + 1 /\ Len(Append(a, r)) = Len(a) + 1
  BY <1>1
<1>6. \A i \in 1..Len(a) : Append(a, r)[i] = a[i]
  BY <1>1
<1>7. \A i \in 1..Len(q) : Append(q, r)[i] = q[i]
  BY <1>1
<1>8. Append(a, r)[Len(a) + 1] = r /\ Append(q, r)[Len(q) + 1] = r
  BY <1>1
<1>9. ASSUME NEW i \in 1..Len(b) PROVE b[i] = Append(a, r)[h + i]
  <2>1. h + i \in 1..Len(a)
    BY <1>1, <1>2, <1>4
  <2> QED
    BY <1>2, <1>6, <2>1
<1>10. ASSUME NEW i \in 1..(Len(q) + 1)
       PROVE  Append(q, r)[i] = Append(a, r)[h + Len(b) + i]
  <2>1. CASE i \in 1..Len(q)
    <3>1. h + Len(b) + i \in 1..Len(a)
      BY <1>1, <1>2, <1>4, <2>1
    <3> QED
      BY <1>2, <1>6, <1>7, <2>1, <3>1
  <2>2. CASE i = Len(q) + 1
    <3>1. h + Len(b) + i = Len(a) + 1
      BY <1>1, <1>2, <1>4, <2>2
    <3> QED
      BY <1>8, <2>2, <3>1
  <2>3. i \in 1..Len(q) \/ i = Len(q) + 1
    BY <1>4
  <2> QED
    BY <2>1, <2>2, <2>3
<1>11. h + Len(b) + (Len(q) + 1) = Len(a) + 1
  <2>1. h + Len(b) + Len(q) = Len(a)
    BY <1>2
  <2>2. h \in Nat
    BY <1>1
  <2> QED
    BY <1>4, <2>1, <2>2
<1>12. handled'[s] + Len(batch'[s]) + Len(queue'[s]) = Len(accepted'[s])
  BY <1>3, <1>5, <1>11
<1>13. \A i \in 1..Len(batch'[s]) : batch'[s][i] = accepted'[s][handled'[s] + i]
  BY <1>3, <1>9
<1>14. \A i \in 1..Len(queue'[s]) :
          queue'[s][i] = accepted'[s][handled'[s] + Len(batch'[s]) + i]
  BY <1>3, <1>5, <1>10
<1> QED
  BY <1>12, <1>13, <1>14 DEF Conserved

\* Swapping the queue into an empty batch moves nothing.
LEMMA ConservedBySwap ==
    ASSUME NEW s \in Sinks, QueueTypes, Conserved(s), batch[s] = <<>>,
           batch' = [batch EXCEPT ![s] = queue[s]],
           queue' = [queue EXCEPT ![s] = <<>>],
           accepted' = accepted, handled' = handled
    PROVE  Conserved(s)'
<1>1. Len(batch[s]) = 0 /\ Len(queue'[s]) = 0 /\ batch'[s] = queue[s] /\ handled[s] \in Nat
  BY DEF QueueTypes
<1>2. Len(queue[s]) \in Nat
  BY DEF QueueTypes
<1> QED
  BY <1>1, <1>2 DEF Conserved

\* Handling the head of the batch moves the boundary by one record.
LEMMA ConservedByDeliver ==
    ASSUME NEW s \in Sinks, QueueTypes, Conserved(s), batch[s] # <<>>,
           batch' = [batch EXCEPT ![s] = Tail(batch[s])],
           handled' = [handled EXCEPT ![s] = handled[s] + 1],
           queue' = queue, accepted' = accepted
    PROVE  Conserved(s)' /\ Head(batch[s]) = accepted[s][handled[s] + 1]
<1> DEFINE q == queue[s]  a == accepted[s]  b == batch[s]  h == handled[s]
<1>1. q \in Seq(Record) /\ a \in Seq(Record) /\ b \in Seq(Record) /\ h \in Nat /\ b # <<>>
  BY DEF QueueTypes
<1>2. /\ h + Len(b) + Len(q) = Len(a)
      /\ \A i \in 1..Len(b) : b[i] = a[h + i]
      /\ \A i \in 1..Len(q) : q[i] = a[h + Len(b) + i]
  BY DEF Conserved
<1>3. queue'[s] = q /\ accepted'[s] = a /\ batch'[s] = Tail(b) /\ handled'[s] = h + 1
  BY DEF QueueTypes
<1> HIDE DEF q, a, b, h
<1>4. Len(q) \in Nat /\ Len(b) \in Nat /\ Len(b) > 0
  BY <1>1
<1>5. Len(Tail(b)) = Len(b) - 1 /\ \A i \in 1..(Len(b) - 1) : Tail(b)[i] = b[i + 1]
  BY <1>1
<1>6. ASSUME NEW i \in 1..(Len(b) - 1) PROVE Tail(b)[i] = a[(h + 1) + i]
  <2>1. i + 1 \in 1..Len(b) /\ h + (i + 1) = (h + 1) + i
    BY <1>1, <1>4
  <2> QED
    BY <1>2, <1>5, <2>1
<1>7. ASSUME NEW i \in 1..Len(q) PROVE q[i] = a[(h + 1) + (Len(b) - 1) + i]
  <2>1. h + Len(b) + i = (h + 1) + (Len(b) - 1) + i
    BY <1>1, <1>4
  <2> QED
    BY <1>2, <2>1
<1>8. (h + 1) + (Len(b) - 1) + Len(q) = Len(a)
  BY <1>1, <1>2, <1>4
<1>9. Conserved(s)'
  <2>1. handled'[s] + Len(batch'[s]) + Len(queue'[s]) = Len(accepted'[s])
    BY <1>3, <1>5, <1>8
  <2>2. \A i \in 1..Len(batch'[s]) : batch'[s][i] = accepted'[s][handled'[s] + i]
    BY <1>3, <1>5, <1>6
  <2>3. \A i \in 1..Len(queue'[s]) :
           queue'[s][i] = accepted'[s][handled'[s] + Len(batch'[s]) + i]
    BY <1>3, <1>5, <1>7
  <2> QED
    BY <2>1, <2>2, <2>3 DEF Conserved
<1>10. Head(b) = a[h + 1]
  BY <1>1, <1>2, <1>4
<1> QED
  BY <1>9, <1>10 DEF b, a, h

LEMMA ConservedElsewhere ==
    ASSUME NEW s \in Sinks, Conserved(s), queue'[s] = queue[s], batch'[s] = batch[s],
           accepted'[s] = accepted[s], handled'[s] = handled[s]
    PROVE  Conserved(s)'
BY DEF Conserved

LEMMA NextQueueInv == TypeOK /\ QueueInv /\ [Next]_vars => QueueInv'
<1> SUFFICES ASSUME TypeOK, QueueInv, [Next]_vars PROVE QueueInv'
  OBVIOUS
<1>0. QueueTypes
  BY QueueTypesHold
<1> USE <1>0 DEF vars, mainVars, callVars, batchVars, sharedVars, QueueInv, Conservation,
        BatchTaken, QueueTypes
<1>1. ASSUME NEW s \in Sinks, Spawn(s) PROVE QueueInv'
  BY <1>1, ConservedElsewhere DEF Spawn, NextToSpawn
<1>2. ASSUME NEW s \in Sinks, SpawnFails(s) PROVE QueueInv'
  BY <1>2, ConservedElsewhere DEF SpawnFails, NextToSpawn
<1>3. CASE Publish
  BY <1>3, ConservedElsewhere DEF Publish
<1>4. CASE LockFirst
  BY <1>4, ConservedElsewhere DEF LockFirst
<1>5. CASE LockSecond
  BY <1>5, ConservedElsewhere DEF LockSecond
<1>6. CASE Backoff
  BY <1>6, ConservedElsewhere DEF Backoff
<1>7. CASE Finish
  BY <1>7, ConservedElsewhere DEF Finish, Notify
<1>8. CASE Join
  BY <1>8, ConservedElsewhere DEF Join
<1>9. CASE Exit \/ Retry
  BY <1>9, ConservedElsewhere DEF Exit, Retry
<1>10. ASSUME NEW p \in Producers, Log(p) PROVE QueueInv'
  BY <1>10, ConservedElsewhere DEF Log
<1>11. ASSUME NEW p \in Producers, LogThrows(p) PROVE QueueInv'
  BY <1>11, ConservedElsewhere DEF LogThrows
<1>12. ASSUME NEW p \in Producers, PushLock(p) PROVE QueueInv'
  BY <1>12, ConservedElsewhere DEF PushLock
<1>13. ASSUME NEW p \in Producers, PushRecord(p) PROVE QueueInv'
  <2>0. PICK s \in Sinks : s = target[p]
    OBVIOUS
  <2>1. current[p] \in Record
    BY <1>13 DEF PushRecord
  <2>2. /\ queue' = [queue EXCEPT ![s] = Append(queue[s], current[p])]
        /\ accepted' = [accepted EXCEPT ![s] = Append(accepted[s], current[p])]
        /\ batch' = batch /\ handled' = handled
    BY <1>13, <2>0 DEF PushRecord, Enqueued
  <2>3. Conserved(s)'
    BY <2>1, <2>2, ConservedByPush
  <2>4. ASSUME NEW u \in Sinks, u # s PROVE Conserved(u)'
    BY <2>2, <2>4, ConservedElsewhere
  <2>5. Conservation'
    BY <2>3, <2>4
  <2>6. BatchTaken'
    BY <1>13, <2>2 DEF PushRecord, Notify
  <2> QED
    BY <2>5, <2>6
<1>14. ASSUME NEW s \in Sinks, WorkerLock(s) PROVE QueueInv'
  BY <1>14, ConservedElsewhere DEF WorkerLock
<1>15. ASSUME NEW s \in Sinks, WorkerWait(s) PROVE QueueInv'
  BY <1>15, ConservedElsewhere DEF WorkerWait
<1>16. ASSUME NEW s \in Sinks, WorkerSwap(s) PROVE QueueInv'
  <2>1. /\ batch[s] = <<>>
        /\ batch' = [batch EXCEPT ![s] = queue[s]]
        /\ queue' = [queue EXCEPT ![s] = <<>>]
        /\ accepted' = accepted /\ handled' = handled
    BY <1>16 DEF WorkerSwap, Swap
  <2>2. Conserved(s)'
    BY <2>1, ConservedBySwap
  <2>3. ASSUME NEW u \in Sinks, u # s PROVE Conserved(u)'
    BY <2>1, <2>3, ConservedElsewhere
  <2>4. BatchTaken'
    BY <1>16, <2>1 DEF WorkerSwap
  <2> QED
    BY <2>2, <2>3, <2>4
<1>17. ASSUME NEW s \in Sinks, Deliver(s) PROVE QueueInv'
  <2>1. /\ batch[s] # <<>> /\ worker[s] = "deliver"
        /\ batch' = [batch EXCEPT ![s] = Tail(batch[s])]
        /\ handled' = [handled EXCEPT ![s] = handled[s] + 1]
        /\ queue' = queue /\ accepted' = accepted /\ worker' = worker
    BY <1>17 DEF Deliver
  <2>2. Conserved(s)'
    BY <2>1, ConservedByDeliver
  <2>3. ASSUME NEW u \in Sinks, u # s PROVE Conserved(u)'
    BY <2>1, <2>3, ConservedElsewhere
  <2>4. BatchTaken'
    BY <2>1
  <2> QED
    BY <2>2, <2>3, <2>4
<1>18. ASSUME NEW s \in Sinks, BatchDone(s) PROVE QueueInv'
  BY <1>18, ConservedElsewhere DEF BatchDone
<1>19. CASE Prepare
  BY <1>19, ConservedElsewhere DEF Prepare
<1>20. ASSUME NEW s \in Sinks, SpuriousWakeup(s) PROVE QueueInv'
  BY <1>20, ConservedElsewhere DEF SpuriousWakeup
<1>21. CASE PrepareThrows
  BY <1>21, ConservedElsewhere DEF PrepareThrows
<1>22. CASE UNCHANGED vars
  BY <1>22, ConservedElsewhere
<1> HIDE DEF vars, mainVars, callVars, batchVars, sharedVars, QueueInv, Conservation,
        BatchTaken, QueueTypes
<1> QED
  BY <1>1, <1>2, <1>3, <1>4, <1>5, <1>6, <1>7, <1>8, <1>9, <1>10, <1>11, <1>12,
     <1>13, <1>14, <1>15, <1>16, <1>17, <1>18, <1>19, <1>20, <1>21, <1>22
     DEF Next, MainStep, PushStep, WorkerStep, WorkerFault, Stopped

\* Handled records, the batch and the queue are what was pushed, in order.
THEOREM NothingIsLostOrReordered == Spec => []Conservation
<1>1. Init => QueueInv
  BY DEF Init, QueueInv, Conservation, Conserved, BatchTaken
<1>2. QueueInv => Conservation
  BY DEF QueueInv
<1> QED
  BY <1>1, <1>2, NextQueueInv, TypeCorrect, PTL DEF Spec
------------------------------------------------------------------------------
(* The workers' lives.                                                       *)

\* Only configured sinks have a worker, the constructor starts the first one
\* before the other, and the destructor joins them.
WorkersInv ==
    /\ \A s \in Sinks \ Configured : worker[s] = "unborn"
    /\ main = "construct" /\ worker[FirstSink] = "unborn" =>
           \A s \in Sinks : worker[s] = "unborn"
    /\ main = "failed" => \A s \in Sinks : worker[s] = "unborn"
    /\ main = "destroyed" => \A s \in Configured : worker[s] = "done"

LEMMA NextWorkersInv == TypeOK /\ WorkersInv /\ [Next]_vars => WorkersInv'
<1> SUFFICES ASSUME TypeOK, WorkersInv, [Next]_vars PROVE WorkersInv'
  OBVIOUS
<1>0. /\ worker \in [Sinks -> {"unborn", "lock", "check", "waiting", "prepare", "deliver", "done"}]
      /\ target \in [Producers -> Sinks]
      /\ FirstSink \in Configured /\ Configured \subseteq Sinks
      /\ "console" \in Configured => FirstSink = "console"
      /\ Sinks = {"console", "file"}
  BY ConfiguredAssumption, FirstSinkConfigured DEF TypeOK, FirstSink, Sinks
<1> USE <1>0 DEF vars, mainVars, callVars, batchVars, sharedVars, WorkersInv
<1>1. ASSUME NEW s \in Sinks, Spawn(s) PROVE WorkersInv'
  BY <1>1 DEF Spawn, NextToSpawn
<1>2. ASSUME NEW s \in Sinks, SpawnFails(s) PROVE WorkersInv'
  BY <1>2 DEF SpawnFails, NextToSpawn
<1>3. CASE Publish
  BY <1>3 DEF Publish
<1>4. CASE LockFirst
  BY <1>4 DEF LockFirst
<1>5. CASE LockSecond
  BY <1>5 DEF LockSecond
<1>6. CASE Backoff
  BY <1>6 DEF Backoff
<1>7. CASE Finish
  BY <1>7 DEF Finish, Notify
<1>8. CASE Join
  BY <1>8 DEF Join
<1>9. CASE Exit \/ Retry
  BY <1>9 DEF Exit, Retry
<1>10. ASSUME NEW p \in Producers, Log(p) PROVE WorkersInv'
  BY <1>10 DEF Log
<1>11. ASSUME NEW p \in Producers, LogThrows(p) PROVE WorkersInv'
  BY <1>11 DEF LogThrows
<1>12. ASSUME NEW p \in Producers, PushLock(p) PROVE WorkersInv'
  BY <1>12 DEF PushLock
<1>13. ASSUME NEW p \in Producers, PushRecord(p) PROVE WorkersInv'
  BY <1>13 DEF PushRecord, Notify
<1>14. ASSUME NEW s \in Sinks, WorkerLock(s) PROVE WorkersInv'
  BY <1>14 DEF WorkerLock
<1>15. ASSUME NEW s \in Sinks, WorkerWait(s) PROVE WorkersInv'
  BY <1>15 DEF WorkerWait
<1>16. ASSUME NEW s \in Sinks, WorkerSwap(s) PROVE WorkersInv'
  BY <1>16 DEF WorkerSwap, Swap
<1>17. ASSUME NEW s \in Sinks, Deliver(s) PROVE WorkersInv'
  BY <1>17 DEF Deliver
<1>18. ASSUME NEW s \in Sinks, BatchDone(s) PROVE WorkersInv'
  BY <1>18 DEF BatchDone
<1>19. CASE Prepare
  BY <1>19 DEF Prepare
<1>20. ASSUME NEW s \in Sinks, SpuriousWakeup(s) PROVE WorkersInv'
  BY <1>20 DEF SpuriousWakeup
<1>21. CASE PrepareThrows
  BY <1>21 DEF PrepareThrows
<1>22. CASE UNCHANGED vars
  BY <1>22
<1> HIDE DEF vars, mainVars, callVars, batchVars, sharedVars, WorkersInv
<1> QED
  BY <1>1, <1>2, <1>3, <1>4, <1>5, <1>6, <1>7, <1>8, <1>9, <1>10, <1>11, <1>12,
     <1>13, <1>14, <1>15, <1>16, <1>17, <1>18, <1>19, <1>20, <1>21, <1>22
     DEF Next, MainStep, PushStep, WorkerStep, WorkerFault, Stopped

LEMMA WorkersInvHolds == Spec => []WorkersInv
<1>1. Init => WorkersInv
  BY FirstSinkConfigured, ConfiguredAssumption DEF Init, WorkersInv
<1> QED
  BY <1>1, NextWorkersInv, TypeCorrect, PTL DEF Spec

\* No worker thread is left running by the destructor or by a constructor that
\* throws.
THEOREM NoWorkerIsLeft == Spec => []NoWorkerOutlives
<1>1. WorkersInv => NoWorkerOutlives
  BY ConfiguredAssumption DEF WorkersInv, NoWorkerOutlives
<1> QED
  BY <1>1, WorkersInvHolds, PTL
------------------------------------------------------------------------------
(* Shutdown.                                                                 *)

\* A worker ends only on a batch it took after _is_finiesh was raised, so what
\* had been pushed by then is handled or in its last batch; and when the
\* program waits for its logging threads nothing is pushed after that.
ShutdownInv ==
    /\ finish => main \in {"join", "destroyed", "terminated"}
    /\ \A s \in Sinks :
          /\ stop[s] => finish
          /\ worker[s] = "done" => stop[s]
          /\ cutoff[s] <= Len(accepted[s])
          /\ stop[s] => cutoff[s] <= handled[s] + Len(batch[s])
          /\ ExitWaits /\ stop[s] => queue[s] = <<>>
    /\ ExitWaits /\ (Closing \/ main = "destroyed") => \A p \in Producers : pc[p] = "idle"

LEMMA NextShutdownInv == TypeOK /\ QueueInv /\ ShutdownInv /\ [Next]_vars => ShutdownInv'
<1> SUFFICES ASSUME TypeOK, QueueInv, ShutdownInv, [Next]_vars PROVE ShutdownInv'
  OBVIOUS
<1>0. /\ QueueTypes
      /\ stop \in [Sinks -> BOOLEAN] /\ finish \in BOOLEAN /\ ExitWaits \in BOOLEAN
      /\ cutoff \in [Sinks -> Nat]
      /\ pc \in [Producers -> {"idle", "lock", "locked"}]
  BY QueueTypesHold, ModeAssumption DEF TypeOK
<1> USE <1>0 DEF vars, mainVars, callVars, batchVars, sharedVars, ShutdownInv, Closing, QueueTypes
<1>1. ASSUME NEW s \in Sinks, Spawn(s) PROVE ShutdownInv'
  BY <1>1 DEF Spawn, NextToSpawn
<1>2. ASSUME NEW s \in Sinks, SpawnFails(s) PROVE ShutdownInv'
  BY <1>2 DEF SpawnFails, NextToSpawn
<1>3. CASE Publish
  BY <1>3 DEF Publish
<1>4. CASE LockFirst
  BY <1>4 DEF LockFirst
<1>5. CASE LockSecond
  BY <1>5 DEF LockSecond
<1>6. CASE Backoff
  BY <1>6 DEF Backoff
<1>7. CASE Finish
  BY <1>7 DEF Finish, Notify
<1>8. CASE Join
  BY <1>8 DEF Join
<1>9. CASE Exit \/ Retry
  BY <1>9 DEF Exit, Retry
<1>10. ASSUME NEW p \in Producers, Log(p) PROVE ShutdownInv'
  BY <1>10 DEF Log
<1>11. ASSUME NEW p \in Producers, LogThrows(p) PROVE ShutdownInv'
  BY <1>11 DEF LogThrows
<1>12. ASSUME NEW p \in Producers, PushLock(p) PROVE ShutdownInv'
  BY <1>12 DEF PushLock
<1>13. ASSUME NEW p \in Producers, PushRecord(p) PROVE ShutdownInv'
  <2>1. PICK s \in Sinks : s = target[p]
    OBVIOUS
  <2>2. accepted' = [accepted EXCEPT ![s] = Append(accepted[s], current[p])]
        /\ queue' = [queue EXCEPT ![s] = Append(queue[s], current[p])]
    BY <1>13, <2>1 DEF PushRecord, Enqueued
  <2>3. current[p] \in Record /\ ~(ExitWaits /\ (Closing \/ main = "destroyed"))
        /\ main # "terminated"
    BY <1>13 DEF PushRecord, Members
  <2>4. Len(accepted'[s]) = Len(accepted[s]) + 1
    BY <2>2, <2>3
  <2>5. \A u \in Sinks : cutoff[u] <= Len(accepted'[u])
    BY <2>2, <2>4
  <2>6. \A u \in Sinks : ~(ExitWaits /\ stop[u])
    BY <2>3
  <2> QED
    BY <1>13, <2>3, <2>5, <2>6 DEF PushRecord, Notify
<1>14. ASSUME NEW s \in Sinks, WorkerLock(s) PROVE ShutdownInv'
  BY <1>14 DEF WorkerLock
<1>15. ASSUME NEW s \in Sinks, WorkerWait(s) PROVE ShutdownInv'
  BY <1>15 DEF WorkerWait
<1>16. ASSUME NEW s \in Sinks, WorkerSwap(s) PROVE ShutdownInv'
  <2>1. /\ batch' = [batch EXCEPT ![s] = queue[s]] /\ queue' = [queue EXCEPT ![s] = <<>>]
        /\ accepted' = accepted /\ handled' = handled
    BY <1>16 DEF WorkerSwap, Swap
  <2>2. batch[s] = <<>> /\ handled[s] + Len(batch[s]) + Len(queue[s]) = Len(accepted[s])
    BY <1>16 DEF WorkerSwap, QueueInv, BatchTaken, Conservation, Conserved
  <2>3. cutoff[s] <= handled[s] + Len(batch'[s])
    BY <2>1, <2>2
  <2> QED
    BY <1>16, <2>1, <2>3 DEF WorkerSwap
<1>17. ASSUME NEW s \in Sinks, Deliver(s) PROVE ShutdownInv'
  <2>1. /\ batch[s] # <<>>
        /\ batch' = [batch EXCEPT ![s] = Tail(batch[s])]
        /\ handled' = [handled EXCEPT ![s] = handled[s] + 1]
    BY <1>17 DEF Deliver
  <2>2. Len(Tail(batch[s])) = Len(batch[s]) - 1 /\ Len(batch[s]) \in Nat /\ handled[s] \in Nat
    BY <2>1
  <2>3. handled'[s] + Len(batch'[s]) = handled[s] + Len(batch[s])
    <3>1. handled'[s] = handled[s] + 1 /\ batch'[s] = Tail(batch[s])
      BY <2>1
    <3> HIDE <1>0
    <3> QED
      BY <2>2, <3>1
  <2> QED
    BY <1>17, <2>3 DEF Deliver
<1>18. ASSUME NEW s \in Sinks, BatchDone(s) PROVE ShutdownInv'
  BY <1>18 DEF BatchDone
<1>19. CASE Prepare
  BY <1>19 DEF Prepare
<1>20. ASSUME NEW s \in Sinks, SpuriousWakeup(s) PROVE ShutdownInv'
  BY <1>20 DEF SpuriousWakeup
<1>21. CASE PrepareThrows
  BY <1>21 DEF PrepareThrows
<1>22. CASE UNCHANGED vars
  BY <1>22
<1> HIDE DEF vars, mainVars, callVars, batchVars, sharedVars, ShutdownInv, Closing, QueueTypes
<1> QED
  BY <1>1, <1>2, <1>3, <1>4, <1>5, <1>6, <1>7, <1>8, <1>9, <1>10, <1>11, <1>12,
     <1>13, <1>14, <1>15, <1>16, <1>17, <1>18, <1>19, <1>20, <1>21, <1>22
     DEF Next, MainStep, PushStep, WorkerStep, WorkerFault, Stopped

LEMMA QueueInvHolds == Spec => []QueueInv
<1>1. Init => QueueInv
  BY DEF Init, QueueInv, Conservation, Conserved, BatchTaken
<1> QED
  BY <1>1, NextQueueInv, TypeCorrect, PTL DEF Spec

LEMMA ShutdownInvHolds == Spec => []ShutdownInv
<1>1. Init => ShutdownInv
  BY DEF Init, ShutdownInv, Closing
<1> QED
  BY <1>1, NextShutdownInv, TypeCorrect, QueueInvHolds, PTL DEF Spec

\* When ~LogManager returns, every record pushed before it raised _is_finiesh
\* has been handled, and every record at all when the program waits for its
\* logging threads.
THEOREM ShutdownLosesNothing == Spec => []NothingLostAtShutdown
<1>1. ASSUME TypeOK, QueueInv, WorkersInv, ShutdownInv PROVE NothingLostAtShutdown
  <2> SUFFICES ASSUME main = "destroyed", NEW s \in Configured
               PROVE  handled[s] >= cutoff[s] /\ (ExitWaits => handled[s] = Len(accepted[s]))
    BY DEF NothingLostAtShutdown
  <2>1. s \in Sinks /\ handled[s] \in Nat /\ cutoff[s] \in Nat
    BY <1>1, ConfiguredAssumption DEF TypeOK
  <2>2. worker[s] = "done" /\ stop[s]
    BY <1>1, <2>1 DEF WorkersInv, ShutdownInv
  <2>3. Len(batch[s]) = 0
    BY <1>1, <2>1, <2>2 DEF QueueInv, BatchTaken
  <2>4. cutoff[s] <= handled[s] + Len(batch[s]) /\ (ExitWaits => queue[s] = <<>>)
    BY <1>1, <2>1, <2>2 DEF ShutdownInv
  <2>5. handled[s] + Len(batch[s]) + Len(queue[s]) = Len(accepted[s])
    BY <1>1, <2>1 DEF QueueInv, Conservation, Conserved
  <2> QED
    BY <2>1, <2>3, <2>4, <2>5
<1> QED
  BY <1>1, TypeCorrect, QueueInvHolds, WorkersInvHolds, ShutdownInvHolds, PTL
------------------------------------------------------------------------------
(* Each sink implements LogSink.                                             *)

\* What a step of LogManager is to the sink s, in LogSink's terms.
SinkAccepts(s) ==
    /\ main # "destroyed" /\ main' # "destroyed"
    /\ \E r \in Record : accepted'[s] = Append(accepted[s], r)
    /\ UNCHANGED <<handled[s], out[s], finish, cutoff[s]>>

SinkHandles(s) ==
    /\ main # "destroyed" /\ main' # "destroyed"
    /\ handled[s] < Len(accepted[s])
    /\ handled'[s] = handled[s] + 1
    /\ out'[s] = IF accepted[s][handled[s] + 1] \in AtLeast(s)
                 THEN Append(out[s], accepted[s][handled[s] + 1])
                 ELSE out[s]
    /\ UNCHANGED <<accepted[s], finish, cutoff[s]>>

SinkFinishes(s) ==
    /\ ~finish /\ finish'
    /\ main # "destroyed" /\ main' # "destroyed"
    /\ cutoff'[s] = Len(accepted[s])
    /\ UNCHANGED <<accepted[s], handled[s], out[s]>>

SinkCloses(s) ==
    /\ finish /\ main # "destroyed" /\ main' = "destroyed"
    /\ handled[s] >= cutoff[s]
    /\ UNCHANGED <<accepted[s], handled[s], out[s], finish, cutoff[s]>>

SinkSame(s) ==
    /\ main' = "destroyed" <=> main = "destroyed"
    /\ UNCHANGED <<accepted[s], handled[s], out[s], finish, cutoff[s]>>

SinkNext(s) ==
    SinkAccepts(s) \/ SinkHandles(s) \/ SinkFinishes(s) \/ SinkCloses(s) \/ SinkSame(s)

\* A sink that is not configured never receives a record.
UnconfiguredInv == \A s \in Sinks \ Configured : accepted[s] = <<>> /\ cutoff[s] = 0

LEMMA UnconfiguredInvHolds == Spec => []UnconfiguredInv
<1>1. Init => UnconfiguredInv
  BY DEF Init, UnconfiguredInv
<1>2. TypeOK /\ UnconfiguredInv /\ [Next]_vars => UnconfiguredInv'
  <2> SUFFICES ASSUME TypeOK, UnconfiguredInv, [Next]_vars, NEW s \in Sinks \ Configured
               PROVE  accepted'[s] = <<>> /\ cutoff'[s] = 0
    BY DEF UnconfiguredInv
  <2>1. accepted[s] = <<>> /\ cutoff[s] = 0
    BY DEF UnconfiguredInv
  <2>2. accepted'[s] = accepted[s]
    <3>1. \A p \in Producers : PushRecord(p) => accepted'[s] = accepted[s]
      BY DEF TypeOK, PushRecord
    <3> QED
      BY <3>1 DEF Next, MainStep, PushStep, WorkerStep, WorkerFault, Stopped, vars, mainVars,
         callVars, batchVars, sharedVars, Spawn, SpawnFails, Publish, LockFirst, LockSecond, Backoff, Finish, Join, Exit, Retry, Log, LogThrows, PushLock, WorkerLock, WorkerWait, WorkerSwap, Deliver, BatchDone, Prepare, SpuriousWakeup, PrepareThrows
  <2>3. cutoff'[s] = cutoff[s] \/ cutoff'[s] = Len(accepted[s])
    <3>1. Finish => cutoff'[s] = Len(accepted[s])
      BY DEF Finish
    <3> QED
      BY <3>1 DEF Next, MainStep, PushStep, WorkerStep, WorkerFault, Stopped, vars, mainVars,
         callVars, batchVars, sharedVars, Spawn, SpawnFails, Publish, LockFirst, LockSecond, Backoff, Join, Exit, Retry, Log, LogThrows, PushLock, PushRecord, WorkerLock, WorkerWait, WorkerSwap, Deliver, BatchDone, Prepare, SpuriousWakeup, PrepareThrows
  <2> QED
    BY <2>1, <2>2, <2>3
<1> QED
  BY <1>1, <1>2, TypeCorrect, PTL DEF Spec

\* The flag is up while the workers are joined.
JoinInv == main = "join" => finish

LEMMA JoinInvHolds == Spec => []JoinInv
<1>1. Init => JoinInv
  BY DEF Init, JoinInv
<1>2. JoinInv /\ [Next]_vars => JoinInv'
  BY DEF JoinInv, Next, MainStep, PushStep, WorkerStep, WorkerFault, Stopped, vars, mainVars,
         callVars, batchVars, sharedVars, Spawn, SpawnFails, Publish, LockFirst, LockSecond, Backoff, Finish, Join, Exit, Retry, Log, LogThrows, PushLock, PushRecord, WorkerLock, WorkerWait, WorkerSwap, Deliver, BatchDone, Prepare, SpuriousWakeup, PrepareThrows
<1> QED
  BY <1>1, <1>2, PTL DEF Spec

LEMMA StepIsSinkStep ==
    ASSUME TypeOK, QueueInv, WorkersInv, ShutdownInv, UnconfiguredInv, JoinInv, [Next]_vars, NEW z \in Sinks
    PROVE  SinkNext(z)
<1>0. /\ QueueTypes
      /\ finish \in BOOLEAN
      /\ cutoff \in [Sinks -> Nat] /\ out \in [Sinks -> Seq(Record)]
  BY QueueTypesHold DEF TypeOK
<1> USE <1>0 DEF vars, mainVars, callVars, batchVars, sharedVars, QueueTypes
<1>1. ASSUME NEW s \in Sinks, Spawn(s) PROVE SinkNext(z)
  BY <1>1 DEF Spawn, NextToSpawn, SinkNext, SinkSame
<1>2. ASSUME NEW s \in Sinks, SpawnFails(s) PROVE SinkNext(z)
  BY <1>2 DEF SpawnFails, NextToSpawn, SinkNext, SinkSame
<1>3. CASE Publish
  BY <1>3 DEF Publish, SinkNext, SinkSame
<1>4. CASE LockFirst
  BY <1>4 DEF LockFirst, SinkNext, SinkSame
<1>5. CASE LockSecond
  BY <1>5 DEF LockSecond, SinkNext, SinkSame
<1>6. CASE Backoff
  BY <1>6 DEF Backoff, SinkNext, SinkSame
<1>7. CASE Finish
  <2>1. ~finish
    BY <1>7 DEF Finish, ShutdownInv
  <2> QED
    BY <1>7, <2>1 DEF Finish, SinkNext, SinkFinishes
<1>8. CASE Join
  <2>1. finish /\ handled[z] >= cutoff[z]
    <3>1. finish
      BY <1>8 DEF Join, JoinInv
    <3>2. CASE z \in Configured
      <4>1. worker[z] = "done" /\ stop[z]
        BY <1>8, <3>2 DEF Join, ShutdownInv
      <4>2. batch[z] = <<>>
        BY <4>1, Zenon DEF QueueInv, BatchTaken
      <4>3. Len(batch[z]) = 0
        BY <4>2
      <4>4. cutoff[z] <= handled[z] + Len(batch[z])
        BY <4>1 DEF ShutdownInv
      <4>5. cutoff[z] \in Nat /\ handled[z] \in Nat
        OBVIOUS
      <4> QED
        BY <3>1, <4>3, <4>4, <4>5
    <3>3. CASE z \notin Configured
      <4>1. cutoff[z] = 0
        BY <3>3 DEF UnconfiguredInv
      <4> QED
        BY <3>1, <4>1
    <3> QED
      BY <3>2, <3>3
  <2> QED
    BY <1>8, <2>1 DEF Join, SinkNext, SinkCloses
<1>9. CASE Exit \/ Retry
  BY <1>9 DEF Exit, Retry, SinkNext, SinkSame
<1>10. ASSUME NEW p \in Producers, Log(p) PROVE SinkNext(z)
  BY <1>10 DEF Log, SinkNext, SinkSame
<1>11. ASSUME NEW p \in Producers, LogThrows(p) PROVE SinkNext(z)
  BY <1>11 DEF LogThrows, SinkNext, SinkSame
<1>12. ASSUME NEW p \in Producers, PushLock(p) PROVE SinkNext(z)
  BY <1>12 DEF PushLock, SinkNext, SinkSame
<1>13. ASSUME NEW p \in Producers, PushRecord(p) PROVE SinkNext(z)
  <2>1. PICK s \in Sinks : s = target[p]
    OBVIOUS
  <2>2. /\ accepted' = [accepted EXCEPT ![s] = Append(accepted[s], current[p])]
        /\ current[p] \in Record /\ main # "destroyed" /\ main' = main
        /\ UNCHANGED <<handled, out, finish, cutoff>>
    BY <1>13, <2>1 DEF PushRecord, Members
  <2>3. CASE z = s
    BY <2>2, <2>3 DEF SinkNext, SinkAccepts
  <2>4. CASE z # s
    BY <2>2, <2>4 DEF SinkNext, SinkSame
  <2> QED
    BY <2>3, <2>4
<1>14. ASSUME NEW s \in Sinks, WorkerLock(s) PROVE SinkNext(z)
  BY <1>14 DEF WorkerLock, SinkNext, SinkSame
<1>15. ASSUME NEW s \in Sinks, WorkerWait(s) PROVE SinkNext(z)
  BY <1>15 DEF WorkerWait, SinkNext, SinkSame
<1>16. ASSUME NEW s \in Sinks, WorkerSwap(s) PROVE SinkNext(z)
  BY <1>16 DEF WorkerSwap, Swap, SinkNext, SinkSame
<1>17. ASSUME NEW s \in Sinks, Deliver(s) PROVE SinkNext(z)
  <2>1. /\ batch[s] # <<>> /\ worker[s] = "deliver"
        /\ batch' = [batch EXCEPT ![s] = Tail(batch[s])]
        /\ handled' = [handled EXCEPT ![s] = handled[s] + 1]
        /\ out' = IF Passes(s, Head(batch[s]))
                  THEN [out EXCEPT ![s] = Append(out[s], Head(batch[s]))]
                  ELSE out
        /\ queue' = queue /\ accepted' = accepted /\ UNCHANGED <<main, finish, cutoff>>
    BY <1>17 DEF Deliver
  <2>2. Head(batch[s]) = accepted[s][handled[s] + 1]
    BY <2>1, ConservedByDeliver DEF QueueInv, Conservation
  <2>3. Head(batch[s]) \in Record /\ Len(batch[s]) \in Nat /\ Len(batch[s]) > 0
    BY <2>1
  <2>4. Passes(s, Head(batch[s])) <=> Head(batch[s]) \in AtLeast(s)
    BY <2>3, LevelsAssumption DEF Passes, AtLeast, Record
  <2>5. handled[s] < Len(accepted[s])
    BY <2>3 DEF QueueInv, Conservation, Conserved
  <2>6. main # "destroyed"
    BY <2>1, ConfiguredAssumption DEF WorkersInv
  <2>7. CASE z = s
    BY <2>1, <2>2, <2>4, <2>5, <2>6, <2>7 DEF SinkNext, SinkHandles
  <2>8. CASE z # s
    BY <2>1, <2>8 DEF SinkNext, SinkSame
  <2> QED
    BY <2>7, <2>8
<1>18. ASSUME NEW s \in Sinks, BatchDone(s) PROVE SinkNext(z)
  BY <1>18 DEF BatchDone, SinkNext, SinkSame
<1>19. CASE Prepare
  BY <1>19 DEF Prepare, SinkNext, SinkSame
<1>20. ASSUME NEW s \in Sinks, SpuriousWakeup(s) PROVE SinkNext(z)
  BY <1>20 DEF SpuriousWakeup, SinkNext, SinkSame
<1>21. CASE PrepareThrows
  <2>1. main # "destroyed"
    BY <1>21, ConfiguredAssumption DEF PrepareThrows, WorkersInv, Sinks
  <2> QED
    BY <1>21, <2>1 DEF PrepareThrows, SinkNext, SinkSame
<1>22. CASE UNCHANGED vars
  BY <1>22 DEF SinkNext, SinkSame
<1> HIDE DEF vars, mainVars, callVars, batchVars, sharedVars, QueueTypes
<1> QED
  BY <1>1, <1>2, <1>3, <1>4, <1>5, <1>6, <1>7, <1>8, <1>9, <1>10, <1>11, <1>12,
     <1>13, <1>14, <1>15, <1>16, <1>17, <1>18, <1>19, <1>20, <1>21, <1>22
     DEF Next, MainStep, PushStep, WorkerStep, WorkerFault, Stopped

\* The console side of LogManager implements LogSink.
THEOREM ConsoleIsSink == Spec => ConsoleImplementsSink
<1>1. Init => Console!Init
  BY DEF Init, Console!Init, Sinks
<1>2. ASSUME SinkNext("console") PROVE [Console!Next]_(Console!vars)
  <2>1. CASE SinkAccepts("console")
    BY <2>1 DEF SinkAccepts, Console!Next, Console!Accept
  <2>2. CASE SinkHandles("console")
    BY <2>2 DEF SinkHandles, Console!Next, Console!Handle
  <2>3. CASE SinkFinishes("console")
    BY <2>3 DEF SinkFinishes, Console!Next, Console!Finish
  <2>4. CASE SinkCloses("console")
    BY <2>4 DEF SinkCloses, Console!Next, Console!Close
  <2>5. CASE SinkSame("console")
    BY <2>5 DEF SinkSame, Console!vars
  <2> QED
    BY <1>2, <2>1, <2>2, <2>3, <2>4, <2>5 DEF SinkNext
<1>3. TypeOK /\ QueueInv /\ WorkersInv /\ ShutdownInv /\ UnconfiguredInv /\ JoinInv /\ [Next]_vars
      => [Console!Next]_(Console!vars)
  BY <1>2, StepIsSinkStep DEF Sinks
<1> QED
  BY <1>1, <1>3, TypeCorrect, QueueInvHolds, WorkersInvHolds, ShutdownInvHolds,
     UnconfiguredInvHolds, JoinInvHolds, PTL DEF Spec, Console!Spec, ConsoleImplementsSink

\* The file side of LogManager implements LogSink.
THEOREM FileIsSink == Spec => FileImplementsSink
<1>1. Init => File!Init
  BY DEF Init, File!Init, Sinks
<1>2. ASSUME SinkNext("file") PROVE [File!Next]_(File!vars)
  <2>1. CASE SinkAccepts("file")
    BY <2>1 DEF SinkAccepts, File!Next, File!Accept
  <2>2. CASE SinkHandles("file")
    BY <2>2 DEF SinkHandles, File!Next, File!Handle
  <2>3. CASE SinkFinishes("file")
    BY <2>3 DEF SinkFinishes, File!Next, File!Finish
  <2>4. CASE SinkCloses("file")
    BY <2>4 DEF SinkCloses, File!Next, File!Close
  <2>5. CASE SinkSame("file")
    BY <2>5 DEF SinkSame, File!vars
  <2> QED
    BY <1>2, <2>1, <2>2, <2>3, <2>4, <2>5 DEF SinkNext
<1>3. TypeOK /\ QueueInv /\ WorkersInv /\ ShutdownInv /\ UnconfiguredInv /\ JoinInv /\ [Next]_vars
      => [File!Next]_(File!vars)
  BY <1>2, StepIsSinkStep DEF Sinks
<1> QED
  BY <1>1, <1>3, TypeCorrect, QueueInvHolds, WorkersInvHolds, ShutdownInvHolds,
     UnconfiguredInvHolds, JoinInvHolds, PTL DEF Spec, File!Spec, FileImplementsSink
------------------------------------------------------------------------------
(* The order in which each sink shows the records of one thread, and how far *)
(* the two sinks may differ.                                                *)

\* The producer p is in push and has yet to enqueue its record for the sink s.
Owes(p, s) ==
    /\ pc[p] # "idle"
    /\ target[p] = s \/ (target[p] = "console" /\ s = "file")

\* The records of one producer stand in q in the order it made them.
InOrder(q) ==
    \A i, j \in 1..Len(q) : i < j /\ q[i].by = q[j].by => q[i].n < q[j].n

\* A producer in push is pushing the record of its latest call.
LatestInv ==
    \A p \in Producers : pc[p] # "idle" => current[p].by = p /\ current[p].n = calls[p]

\* What a sink has of a producer comes from calls the producer has made, and
\* from earlier calls than the one whose record the producer still owes it.
Past(s) ==
    \A i \in 1..Len(accepted[s]), p \in Producers :
        accepted[s][i].by = p =>
            /\ accepted[s][i].n <= calls[p]
            /\ Owes(p, s) => accepted[s][i].n < calls[p]

AcceptedInv == \A s \in Sinks : Past(s) /\ InOrder(accepted[s])

\* Everything a sink shows is among the records its worker has handled.
Shown(s) ==
    \A i \in 1..Len(out[s]) : \E k \in 1..handled[s] : out[s][i] = accepted[s][k]

OutInv == \A s \in Sinks : Shown(s) /\ InOrder(out[s])

OrderInv == LatestInv /\ AcceptedInv
------------------------------------------------------------------------------
(* What a step does to the calls and to what the sinks accepted.             *)

Calling(p) == Log(p) \/ LogThrows(p) \/ PushLock(p) \/ PushRecord(p)

LEMMA StepOfCalls ==
    [Next]_vars => (\E p \in Producers : Calling(p)) \/ UNCHANGED <<callVars, accepted>>
BY DEF Calling, Next, MainStep, PushStep, WorkerStep, WorkerFault, Stopped, vars, mainVars,
     callVars, batchVars, sharedVars, Spawn, SpawnFails, Publish, LockFirst, LockSecond,
     Backoff, Finish, Join, Exit, Retry, WorkerLock, WorkerWait, WorkerSwap, Deliver,
     BatchDone, Prepare, SpuriousWakeup, PrepareThrows

\* A record later than all those of its producer keeps a sequence in order.
LEMMA InOrderByAppend ==
    ASSUME NEW q \in Seq(Record), NEW r \in Record, InOrder(q),
           \A i \in 1..Len(q) : q[i].by = r.by => q[i].n < r.n
    PROVE  InOrder(Append(q, r))
<1>1. Len(q) \in Nat /\ Len(Append(q, r)) = Len(q) + 1
  OBVIOUS
<1>2. \A i \in 1..Len(q) : Append(q, r)[i] = q[i]
  OBVIOUS
<1>3. Append(q, r)[Len(q) + 1] = r
  OBVIOUS
<1> SUFFICES ASSUME NEW i \in 1..Len(q) + 1, NEW j \in 1..Len(q) + 1, i < j,
                    Append(q, r)[i].by = Append(q, r)[j].by
             PROVE  Append(q, r)[i].n < Append(q, r)[j].n
  BY <1>1 DEF InOrder
<1>4. i \in 1..Len(q)
  BY <1>1
<1>5. CASE j \in 1..Len(q)
  BY <1>2, <1>4, <1>5 DEF InOrder
<1>6. CASE j = Len(q) + 1
  BY <1>2, <1>3, <1>4, <1>6
<1> QED
  BY <1>1, <1>5, <1>6

\* Owing nothing new, a producer leaves what the sink has of it in the past.
LEMMA PastKept ==
    ASSUME TypeOK, NEW s \in Sinks, Past(s), accepted'[s] = accepted[s],
           \A p \in Producers :
              /\ calls'[p] \in Nat /\ calls[p] <= calls'[p]
              /\ Owes(p, s)' => Owes(p, s) \/ calls[p] < calls'[p]
    PROVE  Past(s)'
<1> SUFFICES ASSUME NEW i \in 1..Len(accepted[s]), NEW p \in Producers,
                    accepted[s][i].by = p
             PROVE  /\ accepted[s][i].n <= calls'[p]
                    /\ Owes(p, s)' => accepted[s][i].n < calls'[p]
  BY DEF Past
<1>1. PICK r \in Record : r = accepted[s][i]
  BY DEF TypeOK
<1>2. r.n \in Nat /\ calls[p] \in Nat
  BY <1>1, BoundsAssumption DEF Record, TypeOK
<1>3. r.n <= calls[p] /\ (Owes(p, s) => r.n < calls[p])
  BY <1>1 DEF Past
<1> QED
  BY <1>1, <1>2, <1>3

LEMMA InitOrderInv == Init => OrderInv /\ OutInv
BY DEF Init, OrderInv, LatestInv, AcceptedInv, Past, InOrder, OutInv, Shown

LEMMA NextOrderInv == TypeOK /\ TypeOK' /\ OrderInv /\ [Next]_vars => OrderInv'
<1> SUFFICES ASSUME TypeOK, TypeOK', OrderInv, [Next]_vars PROVE OrderInv'
  OBVIOUS
<1>0. /\ pc \in [Producers -> {"idle", "lock", "locked"}]
      /\ target \in [Producers -> Sinks]
      /\ current \in [Producers -> Record \cup {NoRecord}]
      /\ \A p \in Producers : pc[p] # "idle" => current[p] \in Record
      /\ calls \in [Producers -> Nat] /\ calls' \in [Producers -> Nat]
      /\ accepted \in [Sinks -> Seq(Record)]
  BY ConfiguredAssumption, BoundsAssumption DEF TypeOK
<1>a. LatestInv /\ AcceptedInv
  BY DEF OrderInv
<1>1. ASSUME NEW p \in Producers, Log(p) PROVE OrderInv'
  <2>1. /\ pc[p] = "idle" /\ pc' = [pc EXCEPT ![p] = "lock"]
        /\ calls' = [calls EXCEPT ![p] = calls[p] + 1]
        /\ target' = [target EXCEPT ![p] = FirstSink]
        /\ accepted' = accepted
    BY <1>1 DEF Log, sharedVars
  <2>2. PICK l : current' = [current EXCEPT ![p] = [by |-> p, n |-> calls[p] + 1, level |-> l]]
    BY <1>1 DEF Log
  <2>3. LatestInv'
    BY <1>0, <1>a, <2>1, <2>2 DEF LatestInv
  <2>4. ASSUME NEW s \in Sinks PROVE Past(s)'
    <3>1. ASSUME NEW q \in Producers
          PROVE  /\ calls'[q] \in Nat /\ calls[q] <= calls'[q]
                 /\ Owes(q, s)' => Owes(q, s) \/ calls[q] < calls'[q]
      BY <1>0, <2>1 DEF Owes
    <3>2. Past(s)
      BY <1>a DEF AcceptedInv
    <3> QED
      BY <2>1, <3>1, <3>2, PastKept
  <2> QED
    BY <1>a, <2>1, <2>3, <2>4 DEF OrderInv, AcceptedInv, InOrder
<1>2. ASSUME NEW p \in Producers, LogThrows(p) PROVE OrderInv'
  <2>1. /\ pc[p] = "idle" /\ pc' = pc /\ target' = target /\ current' = current
        /\ calls' = [calls EXCEPT ![p] = calls[p] + 1]
        /\ accepted' = accepted
    BY <1>2 DEF LogThrows, sharedVars
  <2>2. LatestInv'
    BY <1>0, <1>a, <2>1 DEF LatestInv
  <2>3. ASSUME NEW s \in Sinks PROVE Past(s)'
    <3>1. ASSUME NEW q \in Producers
          PROVE  /\ calls'[q] \in Nat /\ calls[q] <= calls'[q]
                 /\ Owes(q, s)' => Owes(q, s) \/ calls[q] < calls'[q]
      BY <1>0, <2>1 DEF Owes
    <3>2. Past(s)
      BY <1>a DEF AcceptedInv
    <3> QED
      BY <2>1, <3>1, <3>2, PastKept
  <2> QED
    BY <1>a, <2>1, <2>2, <2>3 DEF OrderInv, AcceptedInv, InOrder
<1>3. ASSUME NEW p \in Producers, PushLock(p) PROVE OrderInv'
  <2>1. /\ pc[p] = "lock" /\ pc' = [pc EXCEPT ![p] = "locked"]
        /\ target' = target /\ current' = current /\ calls' = calls /\ accepted' = accepted
    BY <1>3 DEF PushLock, sharedVars
  <2>2. LatestInv'
    BY <1>0, <1>a, <2>1 DEF LatestInv
  <2>3. ASSUME NEW s \in Sinks PROVE Past(s)'
    <3>1. ASSUME NEW q \in Producers
          PROVE  /\ calls'[q] \in Nat /\ calls[q] <= calls'[q]
                 /\ Owes(q, s)' => Owes(q, s) \/ calls[q] < calls'[q]
      BY <1>0, <2>1 DEF Owes
    <3>2. Past(s)
      BY <1>a DEF AcceptedInv
    <3> QED
      BY <2>1, <3>1, <3>2, PastKept
  <2> QED
    BY <1>a, <2>1, <2>2, <2>3 DEF OrderInv, AcceptedInv, InOrder
<1>4. ASSUME NEW p \in Producers, PushRecord(p) PROVE OrderInv'
  <2>1. PICK s \in Sinks : s = target[p]
    BY <1>0
  <2>2. PICK r \in Record : r = current[p] /\ r.by = p /\ r.n = calls[p]
    BY <1>0, <1>4, <1>a DEF PushRecord, LatestInv
  <2>3. /\ pc[p] = "locked" /\ current' = current /\ calls' = calls
        /\ accepted' = [accepted EXCEPT ![s] = Append(accepted[s], r)]
    BY <1>4, <2>1, <2>2 DEF PushRecord
  <2>4. \/ /\ s = "console" /\ pc' = [pc EXCEPT ![p] = "lock"]
           /\ target' = [target EXCEPT ![p] = "file"]
        \/ pc' = [pc EXCEPT ![p] = "idle"] /\ target' = target
    BY <1>4, <2>1 DEF PushRecord, AfterPush
  <2>5. LatestInv'
    BY <1>0, <1>a, <2>3, <2>4 DEF LatestInv
  <2>6. ~Owes(p, s)' /\ Owes(p, s)
    BY <1>0, <2>1, <2>3, <2>4 DEF Owes
  <2>7. \A u \in Sinks, q \in Producers : Owes(q, u)' => Owes(q, u)
    BY <1>0, <2>1, <2>3, <2>4 DEF Owes
  <2>8. Past(s)' /\ InOrder(accepted[s])'
    <3> DEFINE a == accepted[s]
    <3>1. a \in Seq(Record) /\ accepted'[s] = Append(a, r)
      BY <1>0, <2>3
    <3>2. Past(s) /\ InOrder(a)
      BY <1>a DEF AcceptedInv
    <3>3. \A i \in 1..Len(a) : a[i].by = r.by => a[i].n < r.n
      BY <2>2, <2>6, <3>2 DEF Past
    <3>4. InOrder(Append(a, r))
      BY <3>1, <3>2, <3>3, InOrderByAppend
    <3>5. ASSUME NEW i \in 1..Len(a), NEW q \in Producers, a[i].by = q
          PROVE  a[i].n <= calls[q] /\ (Owes(q, s)' => a[i].n < calls[q])
      BY <2>7, <3>2, <3>5 DEF Past
    <3>6. r.n <= calls[p] /\ r.by = p
      BY <1>0, <2>2
    <3> HIDE DEF a
    <3>7. Len(a) \in Nat /\ Len(Append(a, r)) = Len(a) + 1 /\ Append(a, r)[Len(a) + 1] = r
          /\ \A i \in 1..Len(a) : Append(a, r)[i] = a[i]
      BY <3>1
    <3>8. ASSUME NEW i \in 1..Len(accepted'[s]), NEW q \in Producers,
                 accepted'[s][i].by = q
          PROVE  /\ accepted'[s][i].n <= calls'[q]
                 /\ Owes(q, s)' => accepted'[s][i].n < calls'[q]
      <4>1. i \in 1..Len(a) \/ i = Len(a) + 1
        BY <3>1, <3>7
      <4>2. CASE i \in 1..Len(a)
        BY <2>3, <3>1, <3>5, <3>7, <3>8, <4>2
      <4>3. CASE i = Len(a) + 1
        <5>1. accepted'[s][i] = r /\ q = p
          BY <3>1, <3>6, <3>7, <3>8, <4>3
        <5> QED
          BY <2>3, <2>6, <3>6, <5>1
      <4> QED
        BY <4>1, <4>2, <4>3
    <3>9. Past(s)'
      BY <3>8 DEF Past
    <3> QED
      BY <3>1, <3>4, <3>9
  <2>9. ASSUME NEW u \in Sinks, u # s PROVE Past(u)' /\ InOrder(accepted[u])'
    <3>1. accepted'[u] = accepted[u]
      BY <1>0, <2>3, <2>9
    <3>2. Past(u) /\ InOrder(accepted[u])
      BY <1>a DEF AcceptedInv
    <3>3. \A q \in Producers :
             /\ calls'[q] \in Nat /\ calls[q] <= calls'[q]
             /\ Owes(q, u)' => Owes(q, u) \/ calls[q] < calls'[q]
      BY <1>0, <2>3, <2>7
    <3>4. Past(u)'
      BY <3>1, <3>2, <3>3, PastKept
    <3> QED
      BY <3>1, <3>2, <3>4 DEF InOrder
  <2> QED
    BY <2>5, <2>8, <2>9 DEF OrderInv, AcceptedInv
<1>5. CASE UNCHANGED <<callVars, accepted>>
  BY <1>5, <1>a DEF callVars, OrderInv, LatestInv, AcceptedInv, Past, Owes, InOrder
<1> QED
  BY <1>1, <1>2, <1>3, <1>4, <1>5, StepOfCalls DEF Calling

LEMMA OrderInvHolds == Spec => []OrderInv
<1>1. TypeOK /\ OrderInv /\ [Next]_vars => OrderInv'
  BY NextTypeOK, NextOrderInv
<1> QED
  BY <1>1, InitOrderInv, TypeCorrect, PTL DEF Spec
------------------------------------------------------------------------------
(* What the sinks show.                                                      *)

\* A worker writes the next record it has not handled, which comes after all
\* it wrote before, as it comes after all that was accepted before.
LEMMA ShownByHandling ==
    ASSUME TypeOK, NEW s \in Sinks, Shown(s), InOrder(out[s]), InOrder(accepted[s]), SinkHandles(s)
    PROVE  Shown(s)' /\ InOrder(out[s])'
<1> DEFINE a == accepted[s]  h == handled[s]  o == out[s]  x == a[h + 1]
<1>1. a \in Seq(Record) /\ o \in Seq(Record) /\ h \in Nat /\ Len(a) \in Nat
  BY DEF TypeOK
<1>2. h < Len(a) /\ handled'[s] = h + 1 /\ accepted'[s] = a
  BY DEF SinkHandles
<1>3. out'[s] = Append(o, x) \/ out'[s] = o
  BY DEF SinkHandles
<1>4. \A i \in 1..Len(o) : \E k \in 1..h : o[i] = a[k]
  BY DEF Shown
<1>5. \A i, j \in 1..Len(a) : i < j /\ a[i].by = a[j].by => a[i].n < a[j].n
  BY DEF InOrder
<1>6. InOrder(o)
  OBVIOUS
<1> HIDE DEF a, h, o
<1>7. h + 1 \in 1..Len(a) /\ x \in Record
  BY <1>1, <1>2
<1>8. CASE out'[s] = o
  <2>1. \A i \in 1..Len(o) : \E k \in 1..(h + 1) : o[i] = a[k]
    BY <1>1, <1>4
  <2> QED
    BY <1>2, <1>6, <1>8, <2>1 DEF Shown, InOrder
<1>9. CASE out'[s] = Append(o, x)
  <2>1. \A i \in 1..Len(o) : o[i].by = x.by => o[i].n < x.n
    <3> SUFFICES ASSUME NEW i \in 1..Len(o), o[i].by = x.by PROVE o[i].n < x.n
      OBVIOUS
    <3>1. PICK k \in 1..h : o[i] = a[k]
      BY <1>4
    <3>2. k \in 1..Len(a) /\ k < h + 1
      BY <1>1, <1>2
    <3> QED
      BY <1>5, <1>7, <3>1, <3>2
  <2>2. InOrder(Append(o, x))
    BY <1>1, <1>6, <1>7, <2>1, InOrderByAppend
  <2>3. Len(o) \in Nat /\ Len(Append(o, x)) = Len(o) + 1 /\ Append(o, x)[Len(o) + 1] = x
        /\ \A i \in 1..Len(o) : Append(o, x)[i] = o[i]
    BY <1>1, <1>7
  <2>4. ASSUME NEW i \in 1..Len(out'[s]) PROVE \E k \in 1..handled'[s] : out'[s][i] = accepted'[s][k]
    <3>1. CASE i \in 1..Len(o)
      <4>1. PICK k \in 1..h : o[i] = a[k]
        BY <1>4, <3>1
      <4>2. k \in 1..handled'[s]
        BY <1>1, <1>2
      <4> QED
        BY <1>2, <1>9, <2>3, <3>1, <4>1, <4>2
    <3>2. CASE i = Len(o) + 1
      <4>1. h + 1 \in 1..handled'[s]
        BY <1>1, <1>2
      <4> QED
        BY <1>2, <1>9, <2>3, <3>2, <4>1
    <3>3. i \in 1..Len(o) \/ i = Len(o) + 1
      BY <1>9, <2>3
    <3> QED
      BY <3>1, <3>2, <3>3
  <2> QED
    BY <1>9, <2>2, <2>4 DEF Shown
<1> QED
  BY <1>3, <1>8, <1>9

LEMMA NextOutInv ==
    ASSUME TypeOK, QueueInv, AcceptedInv, OutInv, NEW s \in Sinks, SinkNext(s)
    PROVE  Shown(s)' /\ InOrder(out[s])'
<1>0. Shown(s) /\ InOrder(out[s]) /\ InOrder(accepted[s]) /\ accepted[s] \in Seq(Record)
      /\ handled[s] \in Nat
  BY DEF TypeOK, AcceptedInv, OutInv
<1>1. CASE SinkAccepts(s)
  <2>1. PICK r \in Record : accepted'[s] = Append(accepted[s], r)
    BY <1>1 DEF SinkAccepts
  <2>2. handled'[s] = handled[s] /\ out'[s] = out[s]
    BY <1>1 DEF SinkAccepts
  <2>3. handled[s] <= Len(accepted[s])
    <3>1. handled[s] + Len(batch[s]) + Len(queue[s]) = Len(accepted[s])
      BY DEF QueueInv, Conservation, Conserved
    <3>2. Len(batch[s]) \in Nat /\ Len(queue[s]) \in Nat
      BY DEF TypeOK
    <3> QED
      BY <1>0, <3>1, <3>2
  <2>4. \A k \in 1..handled[s] : accepted'[s][k] = accepted[s][k]
    <3> SUFFICES ASSUME NEW k \in 1..handled[s] PROVE accepted'[s][k] = accepted[s][k]
      OBVIOUS
    <3>1. k \in 1..Len(accepted[s])
      BY <1>0, <2>3
    <3> QED
      BY <1>0, <2>1, <3>1
  <2> QED
    BY <1>0, <2>2, <2>4 DEF Shown, InOrder
<1>2. CASE SinkHandles(s)
  BY <1>0, <1>2, ShownByHandling
<1>3. CASE SinkFinishes(s) \/ SinkCloses(s) \/ SinkSame(s)
  <2>1. accepted'[s] = accepted[s] /\ handled'[s] = handled[s] /\ out'[s] = out[s]
    BY <1>3 DEF SinkFinishes, SinkCloses, SinkSame
  <2> QED
    BY <1>0, <2>1 DEF Shown, InOrder
<1> QED
  BY <1>1, <1>2, <1>3 DEF SinkNext

LEMMA OutInvHolds == Spec => []OutInv
<1>1. TypeOK /\ QueueInv /\ WorkersInv /\ ShutdownInv /\ UnconfiguredInv /\ JoinInv
      /\ OrderInv /\ OutInv /\ [Next]_vars => OutInv'
  BY StepIsSinkStep, NextOutInv DEF OrderInv, OutInv
<1> QED
  BY <1>1, InitOrderInv, TypeCorrect, QueueInvHolds, WorkersInvHolds, ShutdownInvHolds,
     UnconfiguredInvHolds, JoinInvHolds, OrderInvHolds, PTL DEF Spec

\* Each sink shows the lines of one thread in the order the thread logged them,
\* none of them twice.
THEOREM ProducersKeepTheirOrder == Spec => []ProducerOrder
<1>1. OutInv => ProducerOrder
  BY DEF OutInv, InOrder, ProducerOrder
<1> QED
  BY <1>1, OutInvHolds, PTL
------------------------------------------------------------------------------
(* How far the sinks differ.                                                 *)

OnTheirWay == {current[p] : p \in {q \in Producers : pc[q] # "idle" /\ target[q] = "file"}}

Elements(q) == {q[i] : i \in 1..Len(q)}

LEMMA ElementsOfAppend ==
    ASSUME NEW q \in Seq(Record), NEW r \in Record
    PROVE  Elements(Append(q, r)) = Elements(q) \cup {r}
<1>1. Len(q) \in Nat /\ Len(Append(q, r)) = Len(q) + 1 /\ Append(q, r)[Len(q) + 1] = r
  OBVIOUS
<1>2. \A i \in 1..Len(q) : Append(q, r)[i] = q[i]
  OBVIOUS
<1>3. 1..Len(Append(q, r)) = 1..Len(q) \cup {Len(q) + 1}
  BY <1>1
<1> QED
  BY <1>1, <1>2, <1>3 DEF Elements

LEMMA NextSinksInStep == TypeOK /\ SinksInStep /\ [Next]_vars => SinksInStep'
<1> SUFFICES ASSUME TypeOK, SinksInStep, [Next]_vars, Configured = Sinks
             PROVE  (Pushed("console") = Pushed("file") \cup OnTheirWay)'
  BY DEF SinksInStep, OnTheirWay
<1>0. /\ pc \in [Producers -> {"idle", "lock", "locked"}]
      /\ target \in [Producers -> Sinks]
      /\ current \in [Producers -> Record \cup {NoRecord}]
      /\ \A p \in Producers : pc[p] # "idle" => current[p] \in Record
      /\ accepted \in [Sinks -> Seq(Record)]
      /\ "console" \in Sinks /\ "file" \in Sinks
  BY ConfiguredAssumption DEF TypeOK, Sinks
<1>a. Pushed("console") = Pushed("file") \cup OnTheirWay
  BY DEF SinksInStep, OnTheirWay
<1>b. \A s \in Sinks : Pushed(s) = Elements(accepted[s])
  BY DEF Pushed, Elements
<1>1. ASSUME NEW p \in Producers, Log(p)
      PROVE  (Pushed("console") = Pushed("file") \cup OnTheirWay)'
  <2>1. /\ pc[p] = "idle" /\ pc' = [pc EXCEPT ![p] = "lock"]
        /\ target' = [target EXCEPT ![p] = "console"]
        /\ accepted' = accepted
        /\ \A q \in Producers \ {p} : current'[q] = current[q]
    BY <1>0, <1>1 DEF Log, sharedVars, FirstSink
  <2>2. OnTheirWay' = OnTheirWay
    BY <1>0, <2>1 DEF OnTheirWay
  <2> QED
    BY <1>a, <2>1, <2>2 DEF Pushed
<1>2. ASSUME NEW p \in Producers, LogThrows(p)
      PROVE  (Pushed("console") = Pushed("file") \cup OnTheirWay)'
  BY <1>2, <1>a DEF LogThrows, sharedVars, OnTheirWay, Pushed
<1>3. ASSUME NEW p \in Producers, PushLock(p)
      PROVE  (Pushed("console") = Pushed("file") \cup OnTheirWay)'
  <2>1. /\ pc[p] = "lock" /\ pc' = [pc EXCEPT ![p] = "locked"]
        /\ target' = target /\ current' = current /\ accepted' = accepted
    BY <1>3 DEF PushLock, sharedVars
  <2>2. OnTheirWay' = OnTheirWay
    BY <1>0, <2>1 DEF OnTheirWay
  <2> QED
    BY <1>a, <2>1, <2>2 DEF Pushed
<1>4. ASSUME NEW p \in Producers, PushRecord(p)
      PROVE  (Pushed("console") = Pushed("file") \cup OnTheirWay)'
  <2>1. PICK s \in Sinks : s = target[p]
    BY <1>0
  <2>2. PICK r \in Record : r = current[p]
    BY <1>0, <1>4 DEF PushRecord
  <2>3. /\ pc[p] = "locked" /\ current' = current
        /\ accepted' = [accepted EXCEPT ![s] = Append(accepted[s], r)]
    BY <1>4, <2>1, <2>2 DEF PushRecord
  <2>4. Pushed(s)' = Pushed(s) \cup {r}
    <3>1. accepted'[s] = Append(accepted[s], r) /\ accepted[s] \in Seq(Record)
      BY <1>0, <2>3
    <3> QED
      BY <3>1, ElementsOfAppend DEF Pushed, Elements
  <2>5. \A u \in Sinks : u # s => Pushed(u)' = Pushed(u)
    BY <1>0, <2>3 DEF Pushed
  <2>6. CASE s = "console"
    <3>1. pc' = [pc EXCEPT ![p] = "lock"] /\ target' = [target EXCEPT ![p] = "file"]
      BY <1>0, <1>4, <2>1, <2>6 DEF PushRecord, AfterPush
    <3>2. OnTheirWay' = OnTheirWay \cup {r}
      BY <1>0, <2>1, <2>2, <2>3, <2>6, <3>1 DEF OnTheirWay
    <3>3. Pushed("file")' = Pushed("file") /\ Pushed("console")' = Pushed("console") \cup {r}
      BY <1>0, <2>4, <2>5, <2>6
    <3> QED
      BY <1>a, <3>2, <3>3
  <2>7. CASE s = "file"
    <3>1. pc' = [pc EXCEPT ![p] = "idle"] /\ target' = target
      BY <1>0, <1>4, <2>1, <2>7 DEF PushRecord, AfterPush
    <3>2. OnTheirWay \subseteq OnTheirWay' \cup {r} /\ OnTheirWay' \subseteq OnTheirWay
          /\ r \in OnTheirWay
      BY <1>0, <2>1, <2>2, <2>3, <2>7, <3>1 DEF OnTheirWay
    <3>3. Pushed("console")' = Pushed("console") /\ Pushed("file")' = Pushed("file") \cup {r}
      BY <1>0, <2>4, <2>5, <2>7
    <3> QED
      BY <1>a, <3>2, <3>3
  <2> QED
    BY <2>6, <2>7 DEF Sinks
<1>5. CASE UNCHANGED <<callVars, accepted>>
  BY <1>5, <1>a DEF callVars, OnTheirWay, Pushed
<1> QED
  BY <1>1, <1>2, <1>3, <1>4, <1>5, StepOfCalls DEF Calling

\* With both sinks, the console has been given what the file has and, beyond
\* that, only the records now between the two sections of push.
THEOREM SinksStayInStep == Spec => []SinksInStep
<1>1. Init => SinksInStep
  BY DEF Init, SinksInStep, Pushed, Sinks
<1> QED
  BY <1>1, NextSinksInStep, TypeCorrect, PTL DEF Spec
==============================================================================
