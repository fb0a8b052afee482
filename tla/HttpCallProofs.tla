--------------------------- MODULE HttpCallProofs ----------------------------
(***************************************************************************)
(* What TLAPS proves of HttpCall, for either schema, any number of uses of *)
(* one client and any number of reads.                                     *)
(***************************************************************************)
EXTENDS HttpCall, TLAPS

(* The handlers of the chain in a sequence of ready handlers.                *)

\* Adding a handler at the end.
LEMMA ChainInAppend ==
    ASSUME NEW rs \in Seq(Handlers), NEW h \in Handlers
    PROVE  ChainIn(Append(rs, h)) =
               IF h.op = "timer" THEN ChainIn(rs) ELSE ChainIn(rs) \cup {Len(rs) + 1}
BY DEF ChainIn, Handlers

\* Running the first handler.
LEMMA ChainInTail ==
    ASSUME NEW rs \in Seq(Handlers), rs # <<>>
    PROVE  ChainIn(Tail(rs)) = {i \in 1..(Len(rs) - 1) : i + 1 \in ChainIn(rs)}
BY DEF ChainIn, Handlers

\* A cancelled wait adds at most a handler of the timer.
LEMMA ChainInCancelled ==
    ASSUME NEW rs \in Seq(Handlers)
    PROVE  /\ rs \o Cancelled \in Seq(Handlers)
           /\ ChainIn(rs \o Cancelled) = ChainIn(rs)
           /\ \A i \in DOMAIN (rs \o Cancelled) :
                 (rs \o Cancelled)[i].op # "timer" =>
                     i \in DOMAIN rs /\ (rs \o Cancelled)[i] = rs[i]
<1> DEFINE h == [op |-> "timer", res |-> "aborted"]
<1>1. h \in Handlers /\ h.op = "timer"
  BY DEF Handlers
<1>2. CASE timer = "armed"
  <2>1. rs \o Cancelled = Append(rs, h)
    BY <1>1, <1>2 DEF Cancelled, Handler
  <2> QED
    BY <1>1, <2>1 DEF ChainIn
<1>3. CASE timer # "armed"
  BY <1>3 DEF Cancelled
<1> QED
  BY <1>2, <1>3
------------------------------------------------------------------------------
(* The inductive invariant.                                                  *)

ReadReadyIn(rs) == \E i \in DOMAIN rs : rs[i] = Handler("read", "ok")

\* The call whose data this call reads.
Session == IF Stale THEN since ELSE calls

\* What has been read is what the operating system has handed over, but for the
\* read whose handler has not run; reads are started after the request is
\* written; and an end of the stream is seen when all has been handed over.
ReadInv ==
    /\ phase # "idle" => calls # 0
    /\ taken = Len(raw) + (IF ReadReadyIn(ready) THEN 1 ELSE 0)
    /\ \A n \in 1..Len(raw) : raw[n] = [call |-> Session, n |-> n]
    /\ op = "read" => written
    /\ \A i \in DOMAIN ready : ready[i].op = "read" =>
          /\ written
          /\ ready[i].res = "eof" => taken = Available /\ Ended

\* The first read has not been started.
Unread == taken = 0 /\ ~written

\* The engine has nothing left of an earlier call.
Drained == Stale => taken = Len(held)

\* The engine holds the first data of the call that made the session; the socket
\* is asked for more, and fails, only when the engine has nothing left.
SessionInv ==
    /\ tls = "fresh" => since = 0
    /\ since = 0 => held = <<>>
    /\ \A n \in 1..Len(held) : held[n] = [call |-> since, n |-> n]
    /\ phase # "idle" => taken <= Available
    /\ phase = "handshake" \/ op \in Ops \ {"read"} => Unread
    /\ op = "read" => Drained
    /\ \A i \in DOMAIN ready :
          /\ ready[i].op \in Ops \ {"read"} => Unread
          /\ ready[i].op = "read" /\ ready[i].res # "ok" => Drained

\* The timeout stays in _ec, or gives way to another error.
ResponseInv ==
    /\ outcome = "response" =>
          /\ phase = "idle" /\ ec = "none"
          /\ written /\ Len(raw) = taken /\ Ended
          /\ ~Stale => taken = sent
    /\ expired => ec # "none"

IInv == TypeOK /\ OneOperation /\ ReadInv /\ SessionInv /\ ResponseInv

\* Where no handler of the chain is ready, no read has ended.
LEMMA NoChainNoRead ==
    ASSUME NEW rs \in Seq(Handlers), ChainIn(rs) = {}
    PROVE  ~ReadReadyIn(rs) /\ \A i \in DOMAIN rs : rs[i].op = "timer"
BY DEF ReadReadyIn, ChainIn, Handler

LEMMA InitIInv == Init => IInv
<1> SUFFICES ASSUME Init PROVE IInv
  OBVIOUS
<1>1. <<>> \in Seq(Handlers) /\ <<>> \in Seq([call : 1..MaxCalls, n : 1..MaxChunks])
  OBVIOUS
<1>2. 0 \in 0..MaxCalls /\ 0 \in 0..MaxChunks /\ 0 \in 0..0 /\ Len(<<>>) <= 0 /\ Len(<<>>) <= MaxChunks
  BY BoundsAssumption
<1>3. TypeOK
  BY <1>1, <1>2 DEF Init, TypeOK
<1>4. ChainIn(ready) = {} /\ ~ReadReadyIn(ready)
  BY DEF Init, ChainIn, ReadReadyIn
<1>5. SessionInv
  BY DEF Init, SessionInv, Ops
<1> QED
  BY <1>3, <1>4, <1>5 DEF Init, IInv, OneOperation, ChainReady, ReadInv, ResponseInv

\* A handler of the chain runs: it was the only one, and no operation is under way.
LEMMA RunningChain ==
    ASSUME TypeOK, OneOperation, NEW o \in Ops, NEW r, Running(o, r)
    PROVE  /\ phase = "run" /\ op = "none"
           /\ Tail(ready) \in Seq(Handlers) /\ ChainIn(Tail(ready)) = {}
           /\ ready # <<>> /\ ready[1] = Handler(o, r)
           /\ ReadReadyIn(ready) <=> (o = "read" /\ r = "ok")
<1>1. ready \in Seq(Handlers) /\ ready # <<>> /\ ready[1] = Handler(o, r) /\ phase = "run"
  BY DEF Running, TypeOK
<1>2. 1 \in ChainIn(ready)
  BY <1>1 DEF ChainIn, Handler, Ops
<1>3. op = "none" /\ ChainIn(ready) = {1}
  BY <1>1, <1>2 DEF OneOperation, ChainReady
<1>4. ChainIn(Tail(ready)) = {}
  BY <1>1, <1>3, ChainInTail
<1>5. \A i \in DOMAIN ready : ready[i] = Handler("read", "ok") => i = 1
  BY <1>3 DEF ChainIn, Handler
<1>6. ReadReadyIn(ready) <=> (o = "read" /\ r = "ok")
  BY <1>1, <1>5 DEF ReadReadyIn, Handler
<1> QED
  BY <1>1, <1>3, <1>4, <1>6

\* A handler of the timer runs: the chain is where it was.
LEMMA RunningTimer ==
    ASSUME TypeOK, OneOperation, NEW r, Running("timer", r)
    PROVE  /\ phase = "run" /\ ready # <<>> /\ Tail(ready) \in Seq(Handlers)
           /\ \/ op \in Ops /\ ChainIn(Tail(ready)) = {}
              \/ op = "none" /\ \E i \in DOMAIN Tail(ready) : ChainIn(Tail(ready)) = {i}
           /\ \A i \in DOMAIN Tail(ready) : i + 1 \in DOMAIN ready /\ Tail(ready)[i] = ready[i + 1]
           /\ ReadReadyIn(Tail(ready)) <=> ReadReadyIn(ready)
<1>1. ready \in Seq(Handlers) /\ ready # <<>> /\ ready[1] = Handler("timer", r) /\ phase = "run"
  BY DEF Running, TypeOK
<1>2. /\ Tail(ready) \in Seq(Handlers) /\ Len(Tail(ready)) = Len(ready) - 1
      /\ \A i \in DOMAIN Tail(ready) : i + 1 \in DOMAIN ready /\ Tail(ready)[i] = ready[i + 1]
  BY <1>1
<1>3. \A i \in ChainIn(ready) : i # 1 /\ i - 1 \in DOMAIN Tail(ready)
  BY <1>1, <1>2 DEF ChainIn, Handler
<1>4. ChainIn(Tail(ready)) = {i \in DOMAIN Tail(ready) : i + 1 \in ChainIn(ready)}
  BY <1>1, <1>2 DEF ChainIn
<1>5. CASE op \in Ops /\ ChainIn(ready) = {}
  BY <1>1, <1>2, <1>4, <1>5, NoChainNoRead
<1>6. CASE op = "none" /\ \E i \in DOMAIN ready : ChainIn(ready) = {i}
  <2>1. PICK i \in DOMAIN ready : ChainIn(ready) = {i}
    BY <1>6
  <2>2. i - 1 \in DOMAIN Tail(ready) /\ ChainIn(Tail(ready)) = {i - 1}
    BY <1>1, <1>2, <1>3, <1>4, <2>1
  <2>3. ReadReadyIn(Tail(ready)) => ReadReadyIn(ready)
    BY <1>2 DEF ReadReadyIn
  <2>4. ASSUME NEW j \in DOMAIN ready, ready[j] = Handler("read", "ok")
        PROVE  ReadReadyIn(Tail(ready))
    <3>1. j # 1
      BY <1>1, <2>4 DEF Handler
    <3>2. j - 1 \in DOMAIN Tail(ready) /\ Tail(ready)[j - 1] = ready[j]
      BY <1>1, <1>2, <3>1
    <3> QED
      BY <2>4, <3>2 DEF ReadReadyIn
  <2> QED
    BY <1>1, <1>2, <1>6, <2>2, <2>3, <2>4 DEF ReadReadyIn
<1> QED
  BY <1>1, <1>5, <1>6 DEF OneOperation, ChainReady
------------------------------------------------------------------------------
(* How the steps change the ready handlers.                                  *)

\* A handler of the chain is added where there is none.
LEMMA ChainAdded ==
    ASSUME NEW rs \in Seq(Handlers), ChainIn(rs) = {}, NEW h \in Handlers, h.op # "timer"
    PROVE  /\ Append(rs, h) \in Seq(Handlers)
           /\ \E i \in DOMAIN Append(rs, h) : ChainIn(Append(rs, h)) = {i}
           /\ ReadReadyIn(Append(rs, h)) <=> h = Handler("read", "ok")
           /\ \A i \in DOMAIN Append(rs, h) :
                 Append(rs, h)[i].op = "timer" \/ Append(rs, h)[i] = h
<1> DEFINE hs == Append(rs, h)
<1>1. /\ hs \in Seq(Handlers) /\ Len(rs) + 1 \in DOMAIN hs /\ hs[Len(rs) + 1] = h
      /\ \A i \in DOMAIN hs : i \in DOMAIN rs \/ i = Len(rs) + 1
      /\ \A i \in DOMAIN rs : hs[i] = rs[i]
  OBVIOUS
<1>2. ChainIn(hs) = {Len(rs) + 1}
  BY ChainInAppend
<1>3. \A i \in DOMAIN hs : hs[i].op = "timer" \/ hs[i] = h
  BY <1>1, NoChainNoRead
<1>4. ReadReadyIn(hs) <=> h = Handler("read", "ok")
  BY <1>1, <1>3 DEF ReadReadyIn, Handler
<1> QED
  BY <1>1, <1>2, <1>3, <1>4

\* The next operation is started in a handler of the chain.
LEMMA StartNext ==
    ASSUME TypeOK, OneOperation, NEW o \in Ops, NEW r, Running(o, r),
           NEW n \in {"write", "read"}, Start(n)
    PROVE  /\ ready' \in Seq(Handlers) /\ OneOperation' /\ ~ReadReadyIn(ready)'
           /\ op' = n \/ op' = "none"
           /\ \A i \in DOMAIN ready' : ready'[i].op = "timer" \/ ready'[i] = Handler(n, "failed")
<1>1. /\ phase = "run" /\ op = "none"
      /\ Tail(ready) \in Seq(Handlers) /\ ChainIn(Tail(ready)) = {}
  BY RunningChain
<1>2. phase' = "run"
  BY <1>1 DEF Start, callVars
<1>3. CASE op' = n /\ ready' = Tail(ready)
  <2>1. ~ReadReadyIn(ready') /\ \A i \in DOMAIN ready' : ready'[i].op = "timer"
    BY <1>1, <1>3, NoChainNoRead
  <2> QED
    BY <1>1, <1>2, <1>3, <2>1 DEF OneOperation, ChainReady, Ops, ReadReadyIn
<1>4. CASE op' = "none" /\ ready' = Append(Tail(ready), Handler(n, "failed"))
  <2>1. Handler(n, "failed") \in Handlers /\ Handler(n, "failed").op # "timer"
        /\ Handler(n, "failed") # Handler("read", "ok")
    BY DEF Handler, Handlers, Ops
  <2> HIDE DEF Handler
  <2>2. /\ ready' \in Seq(Handlers)
        /\ \E i \in DOMAIN ready' : ChainIn(ready') = {i}
        /\ ~ReadReadyIn(ready')
        /\ \A i \in DOMAIN ready' : ready'[i].op = "timer" \/ ready'[i] = Handler(n, "failed")
    BY <1>1, <1>4, <2>1, ChainAdded
  <2> QED
    BY <1>2, <1>4, <2>2 DEF OneOperation, ChainReady, ReadReadyIn, ChainIn
<1> QED
  BY <1>3, <1>4 DEF Start

\* What a finished operation does to the session and what can be read of it.
LEMMA CompletedSession ==
    ASSUME TypeOK, NEW o, NEW r, Completed(o, r), UNCHANGED <<calls, peer, sent>>
    PROVE  /\ tls' \in {"fresh", "open", "closed", "broken"}
           /\ tls' = "fresh" => tls = "fresh"
           /\ Stale' = Stale /\ Available' = Available
           /\ r = "eof" /\ Ended => Ended'
<1>1. tls' = tls \/ (r = "failed" /\ tls' = "broken") \/ (r = "eof" /\ tls' = "closed")
  BY DEF Completed
<1>2. Stale' = Stale /\ Available' = Available
  BY DEF Completed, Stale, Available
<1>3. r = "eof" /\ Ended => Ended'
  BY <1>1, <1>2 DEF Ended
<1> QED
  BY <1>1, <1>2, <1>3 DEF TypeOK

\* The results of a read.
LEMMA ReadResults ==
    ASSUME NEW q \in Results("read"), taken \in Nat, Len(held) \in Nat, taken <= Available
    PROVE  /\ q \in {"ok", "failed", "eof"}
           /\ q = "ok" => taken < Available
           /\ q = "eof" => taken = Available /\ Ended
           /\ q # "ok" => Drained
BY DEF Results, InEngine, Available, Drained

\* The next read is started in a handler of the chain.
LEMMA StartNextRead ==
    ASSUME TypeOK, OneOperation, NEW o \in Ops, NEW r, Running(o, r), StartRead,
           taken <= Available, UNCHANGED <<peer, sent>>
    PROVE  /\ ready' \in Seq(Handlers) /\ OneOperation'
           /\ op' = "read" \/ op' = "none"
           /\ taken' \in 0..MaxChunks /\ taken' <= Available'
           /\ taken' = taken + (IF ReadReadyIn(ready)' THEN 1 ELSE 0)
           /\ op' = "read" => Drained'
           /\ \A i \in DOMAIN ready' : ready'[i].op = "timer"
                 \/ /\ ready'[i].op = "read"
                    /\ ready'[i].res = "eof" => taken' = Available' /\ Ended'
                    /\ ready'[i].res # "ok" => Drained'
           /\ tls' \in {"fresh", "open", "closed", "broken"}
           /\ tls' = "fresh" => tls = "fresh"
           /\ UNCHANGED <<callVars, socket, timer, ec, expired, since, held>>
<1>1. /\ phase = "run" /\ op = "none"
      /\ Tail(ready) \in Seq(Handlers) /\ ChainIn(Tail(ready)) = {}
  BY RunningChain
<1>2. taken \in Nat /\ taken \in 0..MaxChunks /\ Len(held) \in Nat
  BY BoundsAssumption DEF TypeOK
<1>3. CASE ~InEngine /\ Start("read") /\ UNCHANGED <<taken, tlsVars>>
  <2>1. /\ ready' \in Seq(Handlers) /\ OneOperation' /\ ~ReadReadyIn(ready)'
        /\ op' = "read" \/ op' = "none"
        /\ \A i \in DOMAIN ready' :
              ready'[i].op = "timer" \/ ready'[i] = Handler("read", "failed")
    BY <1>3, StartNext
  <2>2. \A i \in DOMAIN ready' :
           ready'[i].op = "timer" \/ (ready'[i].op = "read" /\ ready'[i].res # "eof")
    BY <2>1 DEF Handler
  <2>3. UNCHANGED <<callVars, socket, timer, ec, expired, since, held, tls, taken>>
    BY <1>3 DEF Start, tlsVars
  <2>4. taken' <= Available' /\ Stale' = Stale
    BY <2>3 DEF Available, Stale, callVars
  <2>5. Drained'
    BY <1>2, <1>3, <2>3, <2>4 DEF InEngine, Available, Drained
  <2>6. taken' \in 0..MaxChunks /\ taken' = taken + (IF ReadReadyIn(ready)' THEN 1 ELSE 0)
    BY <1>2, <2>1, <2>3
  <2>7. tls' \in {"fresh", "open", "closed", "broken"} /\ (tls' = "fresh" => tls = "fresh")
    BY <2>3 DEF TypeOK
  <2> QED
    BY <2>1, <2>2, <2>3, <2>4, <2>5, <2>6, <2>7
<1>4. ASSUME NEW q \in Results("read"),
             Completed("read", q), ready' = Append(Tail(ready), Handler("read", q)),
             UNCHANGED <<callVars, socket, timer, ec, expired>>
      PROVE  /\ ready' \in Seq(Handlers) /\ OneOperation'
             /\ op' = "none"
             /\ taken' \in 0..MaxChunks /\ taken' <= Available'
             /\ taken' = taken + (IF ReadReadyIn(ready)' THEN 1 ELSE 0)
             /\ \A i \in DOMAIN ready' : ready'[i].op = "timer"
                   \/ /\ ready'[i].op = "read"
                      /\ ready'[i].res = "eof" => taken' = Available' /\ Ended'
                      /\ ready'[i].res # "ok" => Drained'
             /\ tls' \in {"fresh", "open", "closed", "broken"}
             /\ tls' = "fresh" => tls = "fresh"
             /\ UNCHANGED <<since, held>>
  <2>1. /\ q \in {"ok", "failed", "eof"}
        /\ q = "ok" => taken < Available
        /\ q = "eof" => taken = Available /\ Ended
        /\ q # "ok" => Drained
    BY <1>2, ReadResults
  <2>2. Handler("read", q) \in Handlers /\ Handler("read", q).op = "read"
        /\ Handler("read", q).res = q
        /\ (Handler("read", q) = Handler("read", "ok") <=> q = "ok")
    BY <2>1 DEF Handler, Handlers, Ops
  <2> HIDE DEF Handler
  <2>3. /\ ready' \in Seq(Handlers)
        /\ \E i \in DOMAIN ready' : ChainIn(ready') = {i}
        /\ ReadReadyIn(ready') <=> q = "ok"
        /\ \A i \in DOMAIN ready' : ready'[i].op = "timer" \/ ready'[i] = Handler("read", q)
    BY <1>1, <1>4, <2>2, ChainAdded
  <2>4. /\ op' = "none" /\ taken' = (IF q = "ok" THEN taken + 1 ELSE taken) /\ phase' = "run"
        /\ UNCHANGED <<since, held, calls>>
    BY <1>1, <1>4 DEF Completed, callVars
  <2>5. /\ tls' \in {"fresh", "open", "closed", "broken"}
        /\ tls' = "fresh" => tls = "fresh"
        /\ Stale' = Stale /\ Available' = Available
        /\ q = "eof" /\ Ended => Ended'
    BY <1>4, <2>4, CompletedSession
  <2>6. Available \in 0..MaxChunks
    BY <1>2 DEF TypeOK, Available
  <2>7. taken' \in 0..MaxChunks /\ taken' <= Available'
    BY <1>2, <2>1, <2>4, <2>5, <2>6, BoundsAssumption
  <2>8. (ReadReadyIn(ready)' <=> q = "ok") /\ (ChainIn(ready)' = ChainIn(ready'))
    BY <2>3 DEF ReadReadyIn, ChainIn
  <2>9. OneOperation'
    BY <2>3, <2>4, <2>8 DEF OneOperation, ChainReady
  <2>10. taken' = taken + (IF ReadReadyIn(ready)' THEN 1 ELSE 0)
    BY <1>2, <2>4, <2>8
  <2>11. \A i \in DOMAIN ready' : ready'[i].op = "timer"
            \/ (ready'[i].op = "read" /\ ready'[i].res = q)
    BY <2>2, <2>3
  <2>12. q = "eof" => taken' = Available' /\ Ended'
    BY <2>1, <2>4, <2>5
  <2>13. q # "ok" => Drained'
    BY <2>1, <2>4, <2>5 DEF Drained
  <2> QED
    BY <2>3, <2>4, <2>5, <2>7, <2>9, <2>10, <2>11, <2>12, <2>13
<1> QED
  BY <1>3, <1>4 DEF StartRead

\* Handlers of the timer are ready only, and maybe one more: none of the chain.
LEMMA QuietReady ==
    ASSUME NEW rs \in Seq(Handlers), ChainIn(rs) = {}, ready' = rs \o Cancelled
    PROVE  /\ ready' \in Seq(Handlers) /\ ChainIn(ready)' = {}
           /\ ~ReadReadyIn(ready)'
           /\ \A i \in DOMAIN ready' : ready'[i].op = "timer"
<1>1. ready' \in Seq(Handlers) /\ ChainIn(ready') = {}
  BY ChainInCancelled
<1>2. ~ReadReadyIn(ready') /\ \A i \in DOMAIN ready' : ready'[i].op = "timer"
  BY <1>1, NoChainNoRead
<1> QED
  BY <1>1, <1>2 DEF ChainIn, ReadReadyIn
------------------------------------------------------------------------------
(* The steps.                                                                *)

\* What a call leaves in the engine that made the session itself.
LEMMA LeftoverIsFirst ==
    ASSUME TypeOK, Leftover, calls # 0, since' = calls
    PROVE  /\ tls' \in {"open", "closed"}
           /\ held' \in Seq([call : 1..MaxCalls, n : 1..MaxChunks]) /\ Len(held') <= MaxChunks
           /\ \A n \in 1..Len(held') : held'[n] = [call |-> since', n |-> n]
<1>1. PICK k \in 0..sent : /\ held' = [n \in 1..k |-> [call |-> calls, n |-> n]]
                           /\ tls' \in {"open", "closed"}
  BY DEF Leftover
<1>2. k \in Nat /\ k <= MaxChunks /\ calls \in 1..MaxCalls
  BY BoundsAssumption DEF TypeOK
<1>3. \A n \in 1..k : [call |-> calls, n |-> n] \in [call : 1..MaxCalls, n : 1..MaxChunks]
  BY <1>2, BoundsAssumption
<1>4. held' \in Seq([call : 1..MaxCalls, n : 1..MaxChunks]) /\ Len(held') = k
  BY <1>1, <1>2, <1>3
<1> QED
  BY <1>1, <1>2, <1>4

\* What the end of a call leaves in the engine.
LEMMA EngineIsLeft ==
    ASSUME TypeOK, SessionInv, EngineLeft, calls # 0, UNCHANGED <<calls, peer>>,
           written => Drained, ~written => taken = 0
    PROVE  /\ tls' \in {"fresh", "open", "closed", "broken"} /\ since' = since
           /\ held' \in Seq([call : 1..MaxCalls, n : 1..MaxChunks]) /\ Len(held') <= MaxChunks
           /\ \A n \in 1..Len(held') : held'[n] = [call |-> since', n |-> n]
           /\ tls' = "fresh" => since' = 0
           /\ since' = 0 => held' = <<>>
           /\ written /\ Ended => Ended'
<1>1. since' = since /\ Stale' = Stale /\ since \in Nat
  BY DEF EngineLeft, Stale, TypeOK
<1>2. CASE since = calls /\ ~written /\ Leftover
  BY <1>1, <1>2, LeftoverIsFirst
<1>3. CASE since = calls /\ written /\ held' = <<>> /\ UNCHANGED tls
  <2>1. held' \in Seq([call : 1..MaxCalls, n : 1..MaxChunks]) /\ Len(held') = 0
    BY <1>3
  <2> QED
    BY <1>1, <1>3, <2>1, BoundsAssumption DEF TypeOK, SessionInv, Ended, Stale
<1>4. CASE Stale /\ held' = SubSeq(held, taken + 1, Len(held)) /\ UNCHANGED tls
  <2>1. held \in Seq([call : 1..MaxCalls, n : 1..MaxChunks]) /\ Len(held) <= MaxChunks
    BY DEF TypeOK
  <2>2. taken = 0 \/ taken = Len(held)
    BY <1>4 DEF Drained
  <2>3. CASE taken = 0
    <3>1. held' = held
      BY <1>4, <2>1, <2>3
    <3> QED
      BY <1>1, <1>4, <2>1, <3>1 DEF TypeOK, SessionInv, Ended
  <2>4. CASE taken = Len(held)
    <3>1. held' = <<>>
      BY <1>4, <2>1, <2>4
    <3>2. held' \in Seq([call : 1..MaxCalls, n : 1..MaxChunks]) /\ Len(held') = 0
      BY <3>1
    <3> QED
      BY <1>1, <1>4, <3>1, <3>2, BoundsAssumption DEF TypeOK, SessionInv, Ended
  <2> QED
    BY <2>2, <2>3, <2>4
<1>5. CASE since = 0 /\ UNCHANGED <<held, tls>>
  BY <1>1, <1>5 DEF TypeOK, SessionInv, Ended
<1> QED
  BY <1>2, <1>3, <1>4, <1>5 DEF EngineLeft

\* A handler of the chain stops the io_context.
LEMMA StopKeepsIInv ==
    ASSUME IInv, NEW o \in Ops, NEW r, Running(o, r), ~(o = "read" /\ r = "ok"),
           NEW e \in {"none", "timed_out", "failed"}, Stop(e), UNCHANGED streamVars,
           e = "none" => o = "read" /\ r = "eof" /\ ec = "none"
    PROVE  IInv'
<1>1. /\ phase = "run" /\ op = "none"
      /\ Tail(ready) \in Seq(Handlers) /\ ChainIn(Tail(ready)) = {}
      /\ ready # <<>> /\ ready[1] = Handler(o, r) /\ ~ReadReadyIn(ready)
  BY RunningChain DEF IInv
<1>2. /\ ready' \in Seq(Handlers) /\ ChainIn(ready)' = {}
      /\ ~ReadReadyIn(ready)'
      /\ \A i \in DOMAIN ready' : ready'[i].op = "timer"
  BY <1>1, QuietReady DEF Stop
<1>3. 1 \in DOMAIN ready /\ ready[1].op = o /\ ready[1].res = r
  BY <1>1 DEF IInv, TypeOK, Handler
<1>4. /\ o # "read" => Unread
      /\ o = "read" => written /\ Drained
      /\ r = "eof" /\ o = "read" => taken = Available /\ Ended
  BY <1>3 DEF IInv, ReadInv, SessionInv, Ops
<1>5. (written => Drained) /\ (~written => taken = 0)
  BY <1>4 DEF Unread
<1>6. TypeOK /\ SessionInv /\ calls # 0 /\ EngineLeft /\ UNCHANGED <<calls, peer, written>>
  BY <1>1 DEF IInv, ReadInv, Stop, streamVars
<1>7. /\ tls' \in {"fresh", "open", "closed", "broken"} /\ since' = since
      /\ held' \in Seq([call : 1..MaxCalls, n : 1..MaxChunks]) /\ Len(held') <= MaxChunks
      /\ \A n \in 1..Len(held') : held'[n] = [call |-> since', n |-> n]
      /\ tls' = "fresh" => since' = 0
      /\ since' = 0 => held' = <<>>
      /\ written /\ Ended => Ended'
  BY <1>5, <1>6, EngineIsLeft
<1>8. TypeOK'
  BY <1>2, <1>7 DEF IInv, TypeOK, Stop, streamVars
<1>9. OneOperation'
  BY <1>2 DEF OneOperation, ChainReady, Stop
<1>10. ReadInv'
  BY <1>1, <1>2, <1>7 DEF IInv, ReadInv, Stop, streamVars, Session, Stale
<1>11. SessionInv'
  BY <1>2, <1>7 DEF SessionInv, Stop, Ops
<1>12. taken = Len(raw)
  BY <1>1 DEF IInv, ReadInv, TypeOK
<1>13. e = "none" => written /\ Ended' /\ (~Stale' => taken' = sent')
  BY <1>4, <1>6, <1>7 DEF Stop, streamVars, Available, Stale
<1>14. expired => ec # "none"
  BY DEF IInv, ResponseInv
<1>15. ResponseInv'
  BY <1>12, <1>13, <1>14 DEF ResponseInv, Stop, streamVars
<1> QED
  BY <1>8, <1>9, <1>10, <1>11, <1>15 DEF IInv

LEMMA CallKeepsIInv == ASSUME IInv, Call PROVE IInv'
<1>1. ready \in Seq(Handlers) /\ ChainIn(ready) = {}
  BY DEF IInv, TypeOK, OneOperation, ChainReady, Call
<1>2. /\ ready' \in Seq(Handlers) /\ ChainIn(ready)' = {}
      /\ ~ReadReadyIn(ready)'
      /\ \A i \in DOMAIN ready' : ready'[i].op = "timer"
  BY <1>1, QuietReady DEF Call
<1>3. calls' \in 0..MaxCalls /\ calls' # 0 /\ since' \in 0..calls' /\ UNCHANGED <<tls, since, held>>
  BY BoundsAssumption DEF IInv, TypeOK, Call, tlsVars
<1>4. raw' = <<>> /\ taken' = 0 /\ sent' = 0 /\ 0 \in 0..MaxChunks /\ ~written'
  BY BoundsAssumption DEF Call, FreshBytes
<1>5. TypeOK'
  <2>1. raw' \in Seq([call : 1..MaxCalls, n : 1..MaxChunks]) /\ Len(raw') <= taken'
    BY <1>4
  <2>2. sent' \in 0..MaxChunks /\ taken' \in 0..MaxChunks
    BY <1>4
  <2>3. schema' \in Schemas
    BY DEF IInv, TypeOK, Call
  <2>4. /\ tls' \in {"fresh", "open", "closed", "broken"}
        /\ held' \in Seq([call : 1..MaxCalls, n : 1..MaxChunks]) /\ Len(held') <= MaxChunks
    BY <1>3 DEF IInv, TypeOK
  <2> QED
    BY <1>2, <1>3, <2>1, <2>2, <2>3, <2>4 DEF TypeOK, Call, Ops
<1>6. OneOperation'
  BY <1>2 DEF OneOperation, ChainReady, Call, Ops
<1>7. ReadInv'
  BY <1>2, <1>3, <1>4 DEF ReadInv, Call
<1>8. Len(held') \in Nat
  BY <1>5 DEF TypeOK
<1>9. taken' <= Available' /\ Unread'
  BY <1>4, <1>8 DEF Available, Unread
<1>10. SessionInv'
  BY <1>2, <1>3, <1>9 DEF IInv, SessionInv, Call, Ops
<1>11. ResponseInv'
  BY DEF ResponseInv, Call
<1> QED
  BY <1>5, <1>6, <1>7, <1>10, <1>11 DEF IInv

\* What the invariant says of the session, the reads and the end of the stream
\* depends on these variables only.
LEMMA SameSession ==
    ASSUME UNCHANGED <<calls, written, sent, taken, peer, tlsVars>>
    PROVE  /\ Stale' = Stale /\ Available' = Available /\ Session' = Session
           /\ (Ended' <=> Ended) /\ (Unread' <=> Unread) /\ (Drained' <=> Drained)
BY DEF tlsVars, Stale, Available, Session, Ended, Unread, Drained

LEMMA TimerKeepsIInv == ASSUME IInv, TimerFires \/ TimerAborted PROVE IInv'
<1>1. \E r : Running("timer", r)
  BY DEF TimerFires, TimerAborted
<1>2. /\ phase = "run" /\ ready # <<>> /\ Tail(ready) \in Seq(Handlers)
      /\ \/ op \in Ops /\ ChainIn(Tail(ready)) = {}
         \/ op = "none" /\ \E i \in DOMAIN Tail(ready) : ChainIn(Tail(ready)) = {i}
      /\ \A i \in DOMAIN Tail(ready) : i + 1 \in DOMAIN ready /\ Tail(ready)[i] = ready[i + 1]
      /\ ReadReadyIn(Tail(ready)) <=> ReadReadyIn(ready)
  BY <1>1, RunningTimer DEF IInv
<1>3. UNCHANGED <<callVars, written, streamVars, tlsVars, timer>>
  BY DEF TimerFires, TimerAborted, chainVars
<1>4. /\ Stale' = Stale /\ Available' = Available /\ Session' = Session
      /\ (Ended' <=> Ended) /\ (Unread' <=> Unread) /\ (Drained' <=> Drained)
  BY <1>3, SameSession DEF callVars, streamVars
<1>5. CASE ready' = Tail(ready) /\ UNCHANGED op
  <2>1. TypeOK'
    <3>1. /\ ec' = ec \/ ec' = "timed_out"
          /\ expired' = expired \/ expired' = TRUE
          /\ socket' = socket \/ socket' = "closed"
      BY DEF TimerFires, TimerAborted, chainVars
    <3>2. /\ ec' \in {"none", "timed_out", "failed"} /\ expired' \in BOOLEAN
          /\ socket' \in {"open", "closed"}
      BY <3>1 DEF IInv, TypeOK
    <3> QED
      BY <1>2, <1>3, <1>5, <3>2 DEF IInv, TypeOK, callVars, streamVars, tlsVars
  <2>2. OneOperation'
    BY <1>2, <1>3, <1>5 DEF OneOperation, ChainReady, ChainIn, callVars
  <2>3. ReadReadyIn(ready)' <=> ReadReadyIn(ready)
    BY <1>2, <1>5 DEF ReadReadyIn
  <2>4. \A i \in DOMAIN ready' : \E j \in DOMAIN ready : ready'[i] = ready[j]
    BY <1>2, <1>5
  <2>5. ReadInv'
    BY <1>3, <1>4, <1>5, <2>3, <2>4 DEF IInv, ReadInv, callVars, streamVars
  <2>6. SessionInv'
    BY <1>3, <1>4, <1>5, <2>4 DEF IInv, SessionInv, callVars, streamVars, tlsVars
  <2>7. ResponseInv'
    BY <1>2, <1>3
       DEF IInv, ResponseInv, TimerFires, TimerAborted, callVars, chainVars, streamVars
  <2> QED
    BY <2>1, <2>2, <2>5, <2>6, <2>7 DEF IInv
<1>6. CASE /\ TimerFires
           /\ op \in {"connect", "write", "read"} /\ op' = "none"
           /\ ready' = Append(Tail(ready), Handler(op, "failed"))
  <2>1. /\ Handler(op, "failed") \in Handlers /\ Handler(op, "failed").op # "timer"
        /\ Handler(op, "failed") # Handler("read", "ok")
        /\ Handler(op, "failed").op = op /\ Handler(op, "failed").res = "failed"
    BY <1>6 DEF Handler, Handlers, Ops
  <2>2. ChainIn(Tail(ready)) = {} /\ ~ReadReadyIn(ready)
    BY <1>2, <1>6, NoChainNoRead
  <2> HIDE DEF Handler
  <2>3. /\ ready' \in Seq(Handlers)
        /\ \E i \in DOMAIN ready' : ChainIn(ready') = {i}
        /\ ~ReadReadyIn(ready')
        /\ \A i \in DOMAIN ready' : ready'[i].op = "timer" \/ ready'[i] = Handler(op, "failed")
    BY <1>2, <1>6, <2>1, <2>2, ChainAdded
  <2>4. TypeOK'
    BY <1>3, <1>6, <2>3 DEF IInv, TypeOK, TimerFires, callVars, streamVars, tlsVars
  <2>5. OneOperation'
    BY <1>2, <1>6, <2>3 DEF OneOperation, ChainReady, ChainIn, TimerFires, callVars
  <2>6. \A i \in DOMAIN ready' : ready'[i].op = "timer"
           \/ (ready'[i].op = op /\ ready'[i].res = "failed")
    <3> TAKE i \in DOMAIN ready'
    <3>1. CASE ready'[i] = Handler(op, "failed")
      BY <2>1, <3>1
    <3> QED
      BY <2>3, <3>1
  <2>7. ~ReadReadyIn(ready)'
    BY <2>3 DEF ReadReadyIn
  <2>8. ReadInv'
    BY <1>3, <1>4, <1>6, <2>2, <2>6, <2>7 DEF IInv, ReadInv, callVars, streamVars
  <2>9. (op \in Ops \ {"read"} => Unread) /\ (op = "read" => Drained)
    BY DEF IInv, SessionInv
  <2>10. SessionInv'
    BY <1>2, <1>3, <1>4, <1>6, <2>6, <2>9 DEF IInv, SessionInv, callVars, streamVars, tlsVars, Ops
  <2>11. ResponseInv'
    BY <1>2, <1>6 DEF IInv, ResponseInv, TimerFires, callVars, streamVars
  <2> QED
    BY <2>4, <2>5, <2>8, <2>10, <2>11 DEF IInv
<1> QED
  BY <1>5, <1>6 DEF TimerFires, TimerAborted, chainVars

LEMMA ResolvedKeepsIInv == ASSUME IInv, Resolved PROVE IInv'
<1>1. "resolve" \in Ops
  BY DEF Ops
<1>2. /\ phase = "run" /\ op = "none" /\ ready # <<>> /\ ready[1] = Handler("resolve", "ok")
      /\ Tail(ready) \in Seq(Handlers) /\ ChainIn(Tail(ready)) = {}
      /\ ~ReadReadyIn(ready)
  BY <1>1, RunningChain DEF IInv, Resolved
<1>3. ~ReadReadyIn(ready)' /\ \A i \in DOMAIN ready' : ready'[i].op = "timer"
  BY <1>2, NoChainNoRead DEF Resolved, ReadReadyIn
<1>4. TypeOK'
  BY <1>2 DEF IInv, TypeOK, Resolved, callVars, streamVars, tlsVars, Ops
<1>5. OneOperation'
  BY <1>2 DEF OneOperation, ChainReady, ChainIn, Resolved, callVars, Ops
<1>6. /\ Stale' = Stale /\ Available' = Available /\ Session' = Session
      /\ (Ended' <=> Ended) /\ (Unread' <=> Unread) /\ (Drained' <=> Drained)
  BY SameSession DEF Resolved, callVars, streamVars
<1>7. ReadInv'
  BY <1>2, <1>3, <1>6 DEF IInv, ReadInv, Resolved, callVars, streamVars
<1>8. 1 \in DOMAIN ready /\ ready[1].op = "resolve"
  BY <1>2 DEF IInv, TypeOK, Handler
<1>9. Unread
  BY <1>8 DEF IInv, SessionInv, Ops
<1>10. SessionInv'
  BY <1>2, <1>3, <1>6, <1>9 DEF IInv, SessionInv, Resolved, callVars, streamVars, tlsVars, Ops
<1>11. ResponseInv'
  BY <1>2 DEF IInv, ResponseInv, Resolved, callVars
<1> QED
  BY <1>4, <1>5, <1>7, <1>10, <1>11 DEF IInv

\* Before the request is written nothing has been read, and nothing of an earlier
\* session is needed for what the invariant says of the reads.
LEMMA ConnectedPlainKeepsIInv == ASSUME IInv, ConnectedPlain PROVE IInv'
<1>1. "connect" \in Ops
  BY DEF Ops
<1>2. /\ phase = "run" /\ ~ReadReadyIn(ready) /\ ready # <<>>
      /\ ready[1] = Handler("connect", "ok")
  BY <1>1, RunningChain DEF IInv, ConnectedPlain
<1>3. /\ ready' \in Seq(Handlers) /\ OneOperation' /\ ~ReadReadyIn(ready)'
      /\ op' = "write" \/ op' = "none"
      /\ \A i \in DOMAIN ready' : ready'[i].op = "timer" \/ ready'[i] = Handler("write", "failed")
  BY <1>1, StartNext DEF IInv, ConnectedPlain
<1>4. \A i \in DOMAIN ready' : ready'[i].op # "read"
  BY <1>3 DEF Handler
<1>5. TypeOK'
  BY <1>3 DEF IInv, TypeOK, ConnectedPlain, Start, callVars, tlsVars, Ops
<1>6. /\ Stale' = Stale /\ Available' = Available /\ Session' = Session
      /\ Unread' <=> Unread
  BY DEF ConnectedPlain, Start, callVars, tlsVars, Stale, Available, Session, Unread
<1>7. ReadInv'
  BY <1>2, <1>3, <1>4, <1>6 DEF IInv, ReadInv, ConnectedPlain, Start, callVars
<1>8. 1 \in DOMAIN ready /\ ready[1].op = "connect"
  BY <1>2 DEF IInv, TypeOK, Handler
<1>9. Unread /\ taken' <= Available' /\ phase' = "run"
  BY <1>2, <1>6, <1>8 DEF IInv, SessionInv, ConnectedPlain, Start, callVars, Ops
<1>10. SessionInv'
  BY <1>3, <1>4, <1>6, <1>9 DEF IInv, SessionInv, ConnectedPlain, tlsVars
<1>11. ResponseInv'
  BY <1>2 DEF IInv, ResponseInv, ConnectedPlain, Start, callVars
<1> QED
  BY <1>3, <1>5, <1>7, <1>10, <1>11 DEF IInv

LEMMA ConnectedSecureKeepsIInv == ASSUME IInv, ConnectedSecure PROVE IInv'
<1>1. "connect" \in Ops
  BY DEF Ops
<1>2. /\ phase = "run" /\ op = "none" /\ ready # <<>> /\ ready[1] = Handler("connect", "ok")
      /\ Tail(ready) \in Seq(Handlers) /\ ChainIn(Tail(ready)) = {}
      /\ ~ReadReadyIn(ready)
  BY <1>1, RunningChain DEF IInv, ConnectedSecure
<1>3. ~ReadReadyIn(ready)' /\ \A i \in DOMAIN ready' : ready'[i].op = "timer"
  BY <1>2, NoChainNoRead DEF ConnectedSecure, ReadReadyIn
<1>4. TypeOK'
  BY <1>2 DEF IInv, TypeOK, ConnectedSecure, chainVars, tlsVars
<1>5. OneOperation'
  BY <1>2 DEF OneOperation, ChainReady, ChainIn, ConnectedSecure, chainVars
<1>6. /\ Stale' = Stale /\ Available' = Available /\ Session' = Session
      /\ Unread' <=> Unread
  BY DEF ConnectedSecure, chainVars, tlsVars, Stale, Available, Session, Unread
<1>7. ReadInv'
  BY <1>2, <1>3, <1>6 DEF IInv, ReadInv, ConnectedSecure, chainVars
<1>8. 1 \in DOMAIN ready /\ ready[1].op = "connect"
  BY <1>2 DEF IInv, TypeOK, Handler
<1>9. Unread /\ taken' <= Available' /\ op' = "none"
  BY <1>2, <1>6, <1>8 DEF IInv, SessionInv, ConnectedSecure, chainVars, Ops
<1>10. SessionInv'
  BY <1>3, <1>6, <1>9 DEF IInv, SessionInv, ConnectedSecure, tlsVars, Ops
<1>11. ResponseInv'
  BY <1>2 DEF IInv, ResponseInv, ConnectedSecure, chainVars
<1> QED
  BY <1>4, <1>5, <1>7, <1>10, <1>11 DEF IInv

LEMMA HandshakeKeepsIInv == ASSUME IInv, HandshakeDone \/ HandshakeThrows PROVE IInv'
<1>1. /\ phase = "handshake" /\ ChainIn(ready) = {} /\ op = "none" /\ ready \in Seq(Handlers)
      /\ calls # 0 /\ Unread
  BY DEF IInv, TypeOK, OneOperation, ChainReady, ReadInv, SessionInv, HandshakeDone, HandshakeThrows
<1>2. ready' = ready /\ (ReadReadyIn(ready)' <=> ReadReadyIn(ready)) /\ ChainIn(ready)' = {}
  BY <1>1 DEF HandshakeDone, HandshakeThrows, ReadReadyIn, ChainIn
<1>3. /\ ~ReadReadyIn(ready) /\ \A i \in DOMAIN ready : ready[i].op = "timer"
      /\ UNCHANGED <<calls, written, sent, taken, peer, raw>>
      /\ calls \in Nat /\ since \in 0..calls
  BY <1>1, NoChainNoRead DEF IInv, TypeOK, HandshakeDone, HandshakeThrows, chainVars, streamVars
<1>4. /\ tls' \in {"fresh", "open", "closed", "broken"} /\ since' \in 0..calls
      /\ held' \in Seq([call : 1..MaxCalls, n : 1..MaxChunks]) /\ Len(held') <= MaxChunks
      /\ \A n \in 1..Len(held') : held'[n] = [call |-> since', n |-> n]
      /\ (tls' = "fresh" => since' = 0) /\ (since' = 0 => held' = <<>>)
      /\ Stale' <=> Stale
      /\ HandshakeDone => UNCHANGED held
  <2>1. CASE UNCHANGED tlsVars
    BY <1>3, <2>1 DEF IInv, TypeOK, SessionInv, tlsVars, Stale
  <2>2. CASE tls = "fresh" /\ tls' \in {"open", "broken"} /\ since' \in {since, calls} /\ UNCHANGED held
    BY <1>1, <1>3, <2>2 DEF IInv, TypeOK, SessionInv, Stale
  <2>3. CASE tls = "fresh" /\ since' = calls /\ Leftover /\ HandshakeThrows
    <3>1. ~HandshakeDone
      BY <2>3 DEF HandshakeDone, HandshakeThrows
    <3> QED
      BY <1>1, <1>3, <2>3, <3>1, LeftoverIsFirst DEF IInv, SessionInv, Stale
  <2> QED
    BY <2>1, <2>2, <2>3 DEF HandshakeDone, HandshakeThrows, tlsVars
<1>5. Session' = Session /\ (HandshakeDone => Available' = Available)
  <2>1. Stale => UNCHANGED since
    BY <1>3 DEF IInv, SessionInv, HandshakeDone, HandshakeThrows, Stale, tlsVars
  <2> QED
    BY <1>3, <1>4, <2>1 DEF Session, Available
<1>6. TypeOK'
  BY <1>1, <1>2, <1>3, <1>4 DEF IInv, TypeOK, HandshakeDone, HandshakeThrows, chainVars, streamVars, Ops
<1>7. OneOperation'
  BY <1>1, <1>2 DEF OneOperation, ChainReady, HandshakeDone, HandshakeThrows, chainVars, Ops
<1>8. ReadInv'
  BY <1>1, <1>2, <1>3, <1>5 DEF IInv, ReadInv, HandshakeDone, HandshakeThrows, chainVars
<1>9. SessionInv'
  <2>1. Unread'
    BY <1>1, <1>3 DEF Unread
  <2>2. phase' # "idle" => taken' <= Available'
    BY <1>1, <1>3, <1>5 DEF IInv, SessionInv, HandshakeDone, HandshakeThrows
  <2> QED
    BY <1>1, <1>2, <1>3, <1>4, <2>1, <2>2
       DEF SessionInv, HandshakeDone, HandshakeThrows, chainVars, Ops
<1>10. ResponseInv'
  BY <1>1 DEF IInv, ResponseInv, HandshakeDone, HandshakeThrows, chainVars, streamVars
<1> QED
  BY <1>6, <1>7, <1>8, <1>9, <1>10 DEF IInv

LEMMA WrittenKeepsIInv == ASSUME IInv, Written PROVE IInv'
<1>1. "write" \in Ops
  BY DEF Ops
<1>2. phase = "run" /\ ~ReadReadyIn(ready)
  BY <1>1, RunningChain DEF IInv, Written
<1>3. taken <= Available /\ UNCHANGED <<peer, sent>>
  BY <1>2 DEF IInv, SessionInv, Written
<1>4. /\ ready' \in Seq(Handlers) /\ OneOperation'
      /\ op' = "read" \/ op' = "none"
      /\ taken' \in 0..MaxChunks /\ taken' <= Available'
      /\ taken' = taken + (IF ReadReadyIn(ready)' THEN 1 ELSE 0)
      /\ op' = "read" => Drained'
      /\ \A i \in DOMAIN ready' : ready'[i].op = "timer"
            \/ /\ ready'[i].op = "read"
               /\ ready'[i].res = "eof" => taken' = Available' /\ Ended'
               /\ ready'[i].res # "ok" => Drained'
      /\ tls' \in {"fresh", "open", "closed", "broken"}
      /\ tls' = "fresh" => tls = "fresh"
      /\ UNCHANGED <<callVars, socket, timer, ec, expired, since, held>>
  BY <1>1, <1>3, StartNextRead DEF IInv, Written
<1>5. taken = Len(raw) /\ Len(raw) <= taken' /\ taken \in Nat
  BY <1>2, <1>4 DEF IInv, ReadInv, TypeOK
<1>6. TypeOK'
  BY <1>4, <1>5 DEF IInv, TypeOK, Written, callVars, Ops
<1>7. taken' = Len(raw') + (IF ReadReadyIn(ready)' THEN 1 ELSE 0) /\ Session' = Session
  BY <1>4, <1>5 DEF Written, Session, Stale, callVars
<1>8. ReadInv'
  BY <1>4, <1>7 DEF IInv, ReadInv, Written, callVars
<1>9. SessionInv'
  BY <1>2, <1>4 DEF IInv, SessionInv, callVars, Ops
<1>10. ResponseInv'
  BY <1>2, <1>4 DEF IInv, ResponseInv, callVars
<1> QED
  BY <1>4, <1>6, <1>8, <1>9, <1>10 DEF IInv

\* The data that is handed over is the next of the session's.
LEMMA NextDatum ==
    ASSUME IInv, calls # 0, taken # 0, taken <= Available
    PROVE  /\ Datum(taken) = [call |-> Session, n |-> taken]
           /\ Datum(taken) \in [call : 1..MaxCalls, n : 1..MaxChunks]
<1>1. taken \in 1..MaxChunks /\ calls \in 1..MaxCalls /\ since \in 0..calls
  BY BoundsAssumption DEF IInv, TypeOK
<1>2. CASE Stale
  <2>1. Len(held) \in Nat
    BY DEF IInv, TypeOK
  <2>2. taken \in 1..Len(held)
    BY <1>1, <1>2, <2>1 DEF Available
  <2>3. since \in 1..MaxCalls
    BY <1>1, <1>2, BoundsAssumption DEF Stale
  <2> QED
    BY <1>1, <1>2, <2>2, <2>3 DEF IInv, SessionInv, Datum, Session
<1>3. CASE ~Stale
  BY <1>1, <1>3 DEF Datum, Session
<1> QED
  BY <1>2, <1>3

LEMMA ReadDataKeepsIInv == ASSUME IInv, ReadData PROVE IInv'
<1>1. "read" \in Ops
  BY DEF Ops
<1>2. /\ phase = "run" /\ ReadReadyIn(ready)
      /\ ready # <<>> /\ ready[1] = Handler("read", "ok")
  BY <1>1, RunningChain DEF IInv, ReadData
<1>3. taken <= Available /\ UNCHANGED <<peer, sent>> /\ calls # 0
  BY <1>2 DEF IInv, ReadInv, SessionInv, ReadData
<1>4. /\ ready' \in Seq(Handlers) /\ OneOperation'
      /\ op' = "read" \/ op' = "none"
      /\ taken' \in 0..MaxChunks /\ taken' <= Available'
      /\ taken' = taken + (IF ReadReadyIn(ready)' THEN 1 ELSE 0)
      /\ op' = "read" => Drained'
      /\ \A i \in DOMAIN ready' : ready'[i].op = "timer"
            \/ /\ ready'[i].op = "read"
               /\ ready'[i].res = "eof" => taken' = Available' /\ Ended'
               /\ ready'[i].res # "ok" => Drained'
      /\ tls' \in {"fresh", "open", "closed", "broken"}
      /\ tls' = "fresh" => tls = "fresh"
      /\ UNCHANGED <<callVars, socket, timer, ec, expired, since, held>>
  BY <1>1, <1>3, StartNextRead DEF IInv, ReadData
<1> DEFINE e == Datum(taken)
<1>5. taken = Len(raw) + 1 /\ taken # 0
  BY <1>2 DEF IInv, ReadInv, TypeOK
<1>6. e = [call |-> Session, n |-> taken] /\ e \in [call : 1..MaxCalls, n : 1..MaxChunks]
  BY <1>3, <1>5, NextDatum
<1>7. raw \in Seq([call : 1..MaxCalls, n : 1..MaxChunks]) /\ raw' = Append(raw, e)
  BY DEF IInv, TypeOK, ReadData
<1> HIDE DEF e
<1>8. raw' \in Seq([call : 1..MaxCalls, n : 1..MaxChunks]) /\ Len(raw') = taken
  BY <1>5, <1>6, <1>7
<1>9. Session' = Session
  BY <1>4 DEF Session, Stale, callVars
<1>10. \A n \in 1..Len(raw') : raw'[n] = [call |-> Session', n |-> n]
  <2>1. \A n \in 1..Len(raw) : raw[n] = [call |-> Session, n |-> n]
    BY DEF IInv, ReadInv
  <2>2. SUFFICES ASSUME NEW n \in 1..Len(raw') PROVE raw'[n] = [call |-> Session, n |-> n]
    BY <1>9
  <2>3. CASE n \in 1..Len(raw)
    <3>1. raw'[n] = raw[n]
      BY <1>7, <2>3
    <3> QED
      BY <2>1, <2>3, <3>1
  <2>4. CASE n = taken
    <3>1. raw'[n] = e
      BY <1>5, <1>7, <2>4
    <3> QED
      BY <1>6, <2>4, <3>1
  <2>5. Len(raw) \in Nat /\ n \in 1..(Len(raw) + 1)
    BY <1>5, <1>7, <1>8, <2>2
  <2> QED
    BY <1>5, <2>3, <2>4, <2>5
<1>11. written
  <2>1. 1 \in DOMAIN ready /\ ready[1].op = "read"
    BY <1>2 DEF IInv, TypeOK, Handler
  <2> QED
    BY <2>1 DEF IInv, ReadInv
<1>12. Len(raw') <= taken'
  BY <1>4, <1>8 DEF IInv, TypeOK
<1>13. TypeOK'
  BY <1>4, <1>8, <1>12 DEF IInv, TypeOK, ReadData, callVars, Ops
<1>14. ReadInv'
  BY <1>2, <1>4, <1>8, <1>10, <1>11 DEF IInv, ReadInv, ReadData, callVars
<1>15. SessionInv'
  BY <1>2, <1>4 DEF IInv, SessionInv, callVars, Ops
<1>16. ResponseInv'
  BY <1>2, <1>4 DEF IInv, ResponseInv, callVars
<1> QED
  BY <1>4, <1>13, <1>14, <1>15, <1>16 DEF IInv

LEMMA TimerExpiresKeepsIInv == ASSUME IInv, TimerExpires PROVE IInv'
<1> DEFINE h == Handler("timer", "ok")
<1>1. h \in Handlers /\ h.op = "timer" /\ h # Handler("read", "ok") /\ ready \in Seq(Handlers)
  BY DEF IInv, TypeOK, Handler, Handlers
<1>2. phase = "run" /\ ready' = Append(ready, h)
  BY DEF TimerExpires
<1> HIDE DEF h
<1>3. /\ ready' \in Seq(Handlers) /\ ChainIn(ready') = ChainIn(ready)
      /\ \A i \in DOMAIN ready : i \in DOMAIN ready' /\ ready'[i] = ready[i]
      /\ \A i \in DOMAIN ready' : ready'[i] = h \/ (i \in DOMAIN ready /\ ready'[i] = ready[i])
  BY <1>1, <1>2, ChainInAppend
<1>4. ReadReadyIn(ready') <=> ReadReadyIn(ready)
  BY <1>1, <1>3 DEF ReadReadyIn
<1>5. TypeOK'
  BY <1>3 DEF IInv, TypeOK, TimerExpires, callVars, chainVars, streamVars, tlsVars
<1>6. OneOperation'
  BY <1>2, <1>3 DEF IInv, OneOperation, ChainReady, ChainIn, TimerExpires, callVars, chainVars
<1>7. \A i \in DOMAIN ready' :
         ready'[i].op = "timer" \/ (i \in DOMAIN ready /\ ready'[i] = ready[i])
  BY <1>1, <1>3
<1>8. ReadReadyIn(ready)' <=> ReadReadyIn(ready)
  BY <1>4 DEF ReadReadyIn
<1>9. /\ Stale' = Stale /\ Available' = Available /\ Session' = Session
      /\ (Ended' <=> Ended) /\ (Unread' <=> Unread) /\ (Drained' <=> Drained)
  BY SameSession DEF TimerExpires, callVars, chainVars, streamVars
<1>10. ReadInv'
  BY <1>7, <1>8, <1>9 DEF IInv, ReadInv, TimerExpires, callVars, chainVars, streamVars
<1>11. SessionInv'
  BY <1>7, <1>9 DEF IInv, SessionInv, TimerExpires, callVars, chainVars, streamVars, tlsVars, Ops
<1>12. ResponseInv'
  BY <1>2 DEF IInv, ResponseInv, TimerExpires, callVars, chainVars, streamVars
<1> QED
  BY <1>5, <1>6, <1>10, <1>11, <1>12 DEF IInv

LEMMA CompletesKeepsIInv == ASSUME IInv, Completes PROVE IInv'
<1>1. PICK r \in Results(op) : Completed(op, r) /\ ready' = Append(ready, Handler(op, r))
  BY DEF Completes
<1>2. /\ phase = "run" /\ op \in Ops /\ ChainIn(ready) = {} /\ ready \in Seq(Handlers)
      /\ taken <= Available /\ taken \in Nat /\ Len(held) \in Nat
  BY BoundsAssumption DEF IInv, TypeOK, OneOperation, ChainReady, SessionInv, Completes, Ops
<1>3. /\ r \in {"ok", "failed", "eof"}
      /\ op = "read" /\ r = "ok" => taken < Available
      /\ op = "read" /\ r = "eof" => taken = Available /\ Ended
      /\ op = "read" /\ r # "ok" => Drained
      /\ op # "read" => Unread
  <2>1. CASE op = "read"
    BY <1>1, <1>2, <2>1, ReadResults
  <2>2. CASE op # "read"
    BY <1>1, <1>2, <2>2 DEF Results, IInv, SessionInv
  <2> QED
    BY <2>1, <2>2
<1> DEFINE h == Handler(op, r)
<1>4. /\ h \in Handlers /\ h.op = op /\ h.res = r /\ h.op # "timer"
      /\ h = Handler("read", "ok") <=> (op = "read" /\ r = "ok")
  BY <1>2, <1>3 DEF Handler, Handlers, Ops
<1>5. ready' = Append(ready, h)
  BY <1>1
<1> HIDE DEF h
<1>6. /\ ready' \in Seq(Handlers)
      /\ \E i \in DOMAIN ready' : ChainIn(ready') = {i}
      /\ ReadReadyIn(ready') <=> (op = "read" /\ r = "ok")
      /\ \A i \in DOMAIN ready' : ready'[i].op = "timer" \/ ready'[i] = h
  BY <1>2, <1>4, <1>5, ChainAdded
<1>7. /\ op' = "none" /\ taken' = (IF op = "read" /\ r = "ok" THEN taken + 1 ELSE taken)
      /\ UNCHANGED <<callVars, written, raw, peer, sent, since, held, expired, ec>>
  BY <1>1 DEF Completed, Completes
<1>8. /\ tls' \in {"fresh", "open", "closed", "broken"}
      /\ tls' = "fresh" => tls = "fresh"
      /\ Stale' = Stale /\ Available' = Available
      /\ r = "eof" /\ Ended => Ended'
  BY <1>1, <1>7, CompletedSession DEF IInv, callVars
<1>9. taken = Len(raw)
  BY <1>2, NoChainNoRead DEF IInv, ReadInv, TypeOK
<1>10. Available \in 0..MaxChunks
  BY BoundsAssumption DEF IInv, TypeOK, Available
<1>11. taken' \in 0..MaxChunks /\ Len(raw) <= taken' /\ taken' <= Available'
  BY <1>2, <1>3, <1>7, <1>8, <1>9, <1>10, BoundsAssumption
<1>12. TypeOK'
  BY <1>6, <1>7, <1>8, <1>11 DEF IInv, TypeOK, Completes, callVars
<1>13. OneOperation'
  BY <1>2, <1>6, <1>7 DEF OneOperation, ChainReady, ChainIn, callVars
<1>14. taken' = Len(raw) + (IF ReadReadyIn(ready)' THEN 1 ELSE 0) /\ Session' = Session
  BY <1>6, <1>7, <1>8, <1>9 DEF ReadReadyIn, Session, callVars
<1>15. \A i \in DOMAIN ready' : ready'[i].op = "timer"
          \/ (ready'[i].op = op /\ ready'[i].res = r)
  BY <1>4, <1>6
<1>16. ReadInv'
  BY <1>2, <1>3, <1>7, <1>8, <1>14, <1>15 DEF IInv, ReadInv, callVars, Ops
<1>17. (op # "read" => Unread') /\ (op = "read" /\ r # "ok" => Drained')
  BY <1>3, <1>7, <1>8 DEF Unread, Drained
<1>18. SessionInv'
  BY <1>2, <1>7, <1>8, <1>11, <1>15, <1>17 DEF IInv, SessionInv, callVars, Ops
<1>19. ResponseInv'
  BY <1>2, <1>7 DEF IInv, ResponseInv, callVars
<1> QED
  BY <1>12, <1>13, <1>16, <1>18, <1>19 DEF IInv

LEMMA PeerKeepsIInv == ASSUME IInv, PeerSends \/ PeerCloses PROVE IInv'
<1>1. phase # "idle" /\ peer = "open"
  BY DEF PeerSends, PeerCloses
<1>2. /\ sent' \in 0..MaxChunks /\ sent' >= sent /\ peer' \in {"open", "fin", "reset"}
      /\ UNCHANGED <<callVars, chainVars, raw, taken, tlsVars, ready, timer, ec, expired>>
  BY BoundsAssumption DEF IInv, TypeOK, PeerSends, PeerCloses
<1>3. TypeOK'
  BY <1>2 DEF IInv, TypeOK, callVars, chainVars, tlsVars
<1>4. OneOperation'
  BY <1>2 DEF IInv, OneOperation, ChainReady, ChainIn, callVars, chainVars
<1>5. ReadReadyIn(ready)' <=> ReadReadyIn(ready)
  BY <1>2 DEF ReadReadyIn
<1>6. /\ Stale' = Stale /\ Session' = Session /\ (Unread' <=> Unread) /\ (Drained' <=> Drained)
      /\ Stale => Available' = Available /\ (Ended' <=> Ended)
      /\ ~Stale => ~Ended
  BY <1>1, <1>2
     DEF callVars, chainVars, tlsVars, Stale, Session, Unread, Drained, Available, Ended
<1>7. taken' <= Available'
  <2>1. CASE Stale
    BY <1>1, <1>2, <1>6, <2>1 DEF IInv, SessionInv
  <2>2. CASE ~Stale
    BY <1>1, <1>2, <1>6, <2>2 DEF IInv, TypeOK, SessionInv, Available
  <2> QED
    BY <2>1, <2>2
<1>8. ReadInv'
  BY <1>1, <1>2, <1>5, <1>6 DEF IInv, ReadInv, callVars, chainVars
<1>9. SessionInv'
  BY <1>2, <1>6, <1>7 DEF IInv, SessionInv, callVars, chainVars, tlsVars
<1>10. ResponseInv'
  BY <1>1, <1>2 DEF IInv, ResponseInv, callVars, chainVars
<1> QED
  BY <1>3, <1>4, <1>8, <1>9, <1>10 DEF IInv

LEMMA NextIInv == IInv /\ [Next]_vars => IInv'
<1> SUFFICES ASSUME IInv, [Next]_vars PROVE IInv'
  OBVIOUS
<1>1. "connect" \in Ops /\ "read" \in Ops
  BY DEF Ops
<1>2. CASE Fails
  <2>1. ASSUME NEW o \in Ops, Running(o, "failed") PROVE IInv'
    BY <1>2, <2>1, StopKeepsIInv DEF Fails
  <2>2. CASE Running("connect", "ok")
    BY <1>1, <1>2, <2>2, StopKeepsIInv DEF Fails
  <2> QED
    BY <1>2, <2>1, <2>2 DEF Fails
<1>3. CASE HostNameRejected
  BY <1>1, <1>3, StopKeepsIInv DEF HostNameRejected
<1>4. CASE ReadEof
  <2>1. ec \in {"none", "timed_out", "failed"}
    BY DEF IInv, TypeOK
  <2> QED
    BY <1>1, <1>4, <2>1, StopKeepsIInv DEF ReadEof
<1>5. CASE UNCHANGED vars
  <2>1. /\ Stale' = Stale /\ Available' = Available /\ Session' = Session
        /\ (Ended' <=> Ended) /\ (Unread' <=> Unread) /\ (Drained' <=> Drained)
    BY <1>5, SameSession DEF vars, chainVars, streamVars, callVars
  <2> USE <1>5 DEF vars, chainVars, streamVars, callVars, tlsVars
  <2>2. TypeOK' /\ OneOperation'
    BY DEF IInv, TypeOK, OneOperation, ChainReady, ChainIn
  <2>3. ReadReadyIn(ready)' <=> ReadReadyIn(ready)
    BY DEF ReadReadyIn
  <2>4. ReadInv' /\ SessionInv' /\ ResponseInv'
    BY <2>1, <2>3 DEF IInv, ReadInv, SessionInv, ResponseInv
  <2> QED
    BY <2>2, <2>4 DEF IInv
<1> QED
  BY <1>2, <1>3, <1>4, <1>5, CallKeepsIInv, TimerKeepsIInv, ResolvedKeepsIInv,
     ConnectedPlainKeepsIInv, ConnectedSecureKeepsIInv, HandshakeKeepsIInv,
     WrittenKeepsIInv, ReadDataKeepsIInv, TimerExpiresKeepsIInv, CompletesKeepsIInv,
     PeerKeepsIInv
     DEF Next, RunHandler, Stopped

LEMMA AlwaysIInv == Spec => []IInv
BY InitIInv, NextIInv, PTL DEF Spec
------------------------------------------------------------------------------
(* The theorems.                                                             *)

\* Every variable keeps its type.
THEOREM TypeCorrect == Spec => []TypeOK
<1>1. IInv => TypeOK
  BY DEF IInv
<1> QED
  BY <1>1, AlwaysIInv, PTL

\* While the io_context is run exactly one operation of the chain is under way
\* or has its handler ready, and none outlives the call.
THEOREM OneOperationAtATime == Spec => []OneOperation
<1>1. IInv => OneOperation
  BY DEF IInv
<1> QED
  BY <1>1, AlwaysIInv, PTL

\* A call that uses no session, or made its own, and returns a Response has read,
\* in order, every byte the peer sent in this call until it closed the stream,
\* and no other.
THEOREM ResponsesAreWhole == Spec => []WholeResponse
<1>1. IInv => WholeResponse
  <2> SUFFICES ASSUME IInv, outcome = "response", ~Stale
               PROVE  written /\ peer = "fin" /\ raw = [n \in 1..sent |-> [call |-> calls, n |-> n]]
    BY DEF WholeResponse
  <2>1. written /\ peer = "fin" /\ Len(raw) = sent
    BY DEF IInv, ResponseInv, Ended
  <2>2. raw = [n \in 1..Len(raw) |-> raw[n]]
    BY DEF IInv, TypeOK
  <2> QED
    BY <2>1, <2>2 DEF IInv, ReadInv, Session
<1> QED
  BY <1>1, AlwaysIInv, PTL

\* A call over the session of an earlier call returns a Response only of what
\* that session had left, from its first byte, and only if it has ended.
THEOREM StaleResponsesAreLeftovers == Spec => []StaleResponse
<1>1. IInv => StaleResponse
  <2> SUFFICES ASSUME IInv, outcome = "response", Stale
               PROVE  tls = "closed" /\ raw = [n \in 1..taken |-> [call |-> since, n |-> n]]
    BY DEF StaleResponse
  <2>1. tls = "closed" /\ Len(raw) = taken
    BY DEF IInv, ResponseInv, Ended
  <2>2. raw = [n \in 1..Len(raw) |-> raw[n]]
    BY DEF IInv, TypeOK
  <2> QED
    BY <2>1, <2>2 DEF IInv, ReadInv, Session
<1> QED
  BY <1>1, AlwaysIInv, PTL

\* A call whose timer has expired before its end never returns a Response.
THEOREM TimeoutsAreReported == Spec => []TimedOutNeverReturns
<1>1. IInv => TimedOutNeverReturns
  BY DEF IInv, ResponseInv, TimedOutNeverReturns
<1> QED
  BY <1>1, AlwaysIInv, PTL
==============================================================================
