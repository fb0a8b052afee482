------------------------------ MODULE HttpCall -------------------------------
(***************************************************************************)
(* TAOW::http_client::Client: repeated uses of call() on one object.  A    *)
(* call arms the timer, starts the chain resolve, connect, (handshake),    *)
(* write, read, read, ... and runs the io_context until a handler stops    *)
(* it.  The timer races the chain; handlers that were ready but did not    *)
(* run stay in the io_context for the next call.  So does the TLS session: *)
(* the client has one ssl::stream, which no call replaces or shuts down.   *)
(* The io_context, the sockets and the SSL engine are Boost.Asio's and     *)
(* OpenSSL's, modelled as far as call() relies on them.                    *)
(***************************************************************************)
EXTENDS Integers, Sequences

CONSTANTS
    Schemas,    \* the members of URLSchema a client may be made with
    MaxCalls,   \* bound: uses of call()
    MaxChunks   \* bound: reads that return data in one call

ASSUME SchemasAssumption == Schemas \subseteq {"http", "https"}
ASSUME BoundsAssumption == MaxCalls \in Nat /\ MaxChunks \in Nat

VARIABLES
    schema,    \* _url.get_schema(), given to the constructor
    phase,     \* outside call(), in _context.run(), or in the blocking handshake
    calls,     \* uses of call() so far
    op,        \* the operation of the chain that is under way
    ready,     \* the handlers that can run, in order
    timer,     \* whether a wait on _timer is pending
    ec,        \* _ec
    socket,    \* whether the socket of the call is open
    raw,       \* _raw_result_bytes, by reads
    peer,      \* what the peer has done to the connection
    sent,      \* how many reads' worth of data the peer has sent
    taken,     \* how many of them the operating system has handed over
    written,   \* the peer has been sent the whole request
    expired,   \* the timer's handler has run without error in this call
    tls,       \* the SSL object: not used yet, with a session, with a session whose
               \* close_notify has come, or past use (a handshake or a record failed)
    since,     \* the call that made its session, 0 if none did
    held,      \* data of that session that no call has read, left in the engine
    outcome    \* how the last call ended

chainVars   == <<op, socket, written>>
streamVars  == <<raw, peer, sent, taken>>
callVars    == <<schema, phase, calls, outcome>>
tlsVars     == <<tls, since, held>>
vars == <<chainVars, streamVars, callVars, tlsVars, ready, timer, ec, expired>>

Ops == {"resolve", "connect", "write", "read"}

Handler(o, r) == [op |-> o, res |-> r]
Handlers == [op : Ops \cup {"timer"}, res : {"ok", "failed", "eof", "aborted"}]

Init ==
    /\ schema \in Schemas
    /\ phase = "idle" /\ calls = 0 /\ outcome = "none"
    /\ op = "none" /\ socket = "closed" /\ written = FALSE
    /\ raw = <<>> /\ peer = "unconnected" /\ sent = 0 /\ taken = 0
    /\ ready = <<>>
    /\ timer = "off"
    /\ ec = "none"
    /\ expired = FALSE
    /\ tls = "fresh" /\ since = 0 /\ held = <<>>
------------------------------------------------------------------------------
(* The session of the SSL object.                                            *)

\* The session is an earlier call's: what this call's peer sends is no record of it.
Stale == since \notin {0, calls}

\* How many reads' worth of data there is for this call, and the n-th of them.
Available == IF Stale THEN Len(held) ELSE sent
Datum(n)  == IF Stale THEN held[n] ELSE [call |-> calls, n |-> n]

\* The engine can answer the next read without the socket: it has data of the
\* earlier connection, or its close_notify, which every later read sees again.
InEngine == Stale /\ (taken < Len(held) \/ tls = "closed")

\* A call made the session and ends before it reads: the engine may have taken
\* what the peer has sent already, and the close_notify behind it.
Leftover ==
    \E k \in 0..sent :
        /\ held' = [n \in 1..k |-> [call |-> calls, n |-> n]]
        /\ tls' \in {"open"} \cup (IF k = sent /\ peer = "fin" THEN {"closed"} ELSE {})

\* What the end of a call leaves in the engine.  A call that reads reads all of
\* it before the socket is asked for more, and can fail.
EngineLeft ==
    /\ \/ since = calls /\ ~written /\ Leftover
       \/ since = calls /\ written /\ held' = <<>> /\ UNCHANGED tls
       \/ Stale /\ held' = SubSeq(held, taken + 1, Len(held)) /\ UNCHANGED tls
       \/ since = 0 /\ UNCHANGED <<held, tls>>
    /\ UNCHANGED since
------------------------------------------------------------------------------
(* call().                                                                   *)

\* A wait that is cancelled leaves a handler that does nothing.
Cancelled == IF timer = "armed" THEN <<Handler("timer", "aborted")>> ELSE <<>>

\* A plausible bug: _raw_result_bytes is not emptied.
FreshBytesKept == UNCHANGED raw

FreshBytes == raw' = <<>>

\* From the first line of call() to _context.run().
Call ==
    /\ phase = "idle"
    /\ calls < MaxCalls
    /\ phase' = "run" /\ calls' = calls + 1 /\ outcome' = "none"
    /\ op' = "resolve" /\ socket' = "closed" /\ written' = FALSE
    /\ FreshBytes /\ peer' = "unconnected" /\ sent' = 0 /\ taken' = 0
    /\ ready' = ready \o Cancelled
    /\ timer' = "armed"
    /\ ec' = "none"
    /\ expired' = FALSE
    /\ UNCHANGED <<schema, tlsVars>>

\* _context.stop() in a handler that leaves e in _ec: run returns, the timer is
\* cancelled, and the call throws or parses what it has read.
Stop(e) ==
    /\ ec' = e
    /\ ready' = Tail(ready) \o Cancelled
    /\ timer' = "off"
    /\ phase' = "idle"
    /\ outcome' = IF e = "none" THEN "response" ELSE "error"
    /\ op' = "none"
    /\ EngineLeft
    /\ UNCHANGED <<schema, calls, socket, written, expired>>

\* The handler that runs next, while the io_context is run.
Running(o, r) == phase = "run" /\ ready # <<>> /\ Head(ready) = Handler(o, r)

\* The stream that is read has ended: by this call's peer, or, with an earlier
\* call's session, by the close_notify that session has seen.
Ended == IF Stale THEN tls = "closed" ELSE peer = "fin"

\* The results the operation o can have now.
Results(o) ==
    IF o # "read" THEN {"failed", "ok"}
    ELSE (IF InEngine THEN {} ELSE {"failed"})
         \cup (IF taken < Available THEN {"ok"} ELSE {})
         \cup (IF taken = Available /\ Ended THEN {"eof"} ELSE {})

\* The operation o has the result r, and what it has read is handed over.  The
\* end of a TLS stream is its close_notify; a record that is not one of the
\* session's is fatal to it, a failure of the socket is not.
Completed(o, r) ==
    /\ op' = "none"
    /\ taken' = IF o = "read" /\ r = "ok" THEN taken + 1 ELSE taken
    /\ tls' \in CASE schema = "https" /\ o = "read" /\ r = "eof"    -> {"closed"}
                  [] schema = "https" /\ o = "read" /\ r = "failed" -> {tls, "broken"}
                  [] OTHER -> {tls}
    /\ UNCHANGED <<since, held>>

\* The handler starts the next operation o of the chain.  On a socket that the
\* timer has closed it fails at once.
Start(o) ==
    /\ \/ socket = "open" /\ op' = o /\ ready' = Tail(ready)
       \/ socket = "closed" /\ op' = "none" /\ ready' = Append(Tail(ready), Handler(o, "failed"))
    /\ UNCHANGED <<callVars, socket, timer, ec, expired>>

\* The handler starts the next read.  With https a read of a closed socket may
\* still find data, or the close_notify, in what the SSL engine has decrypted,
\* and what the engine has of an earlier connection comes first on any socket.
StartRead ==
    \/ ~InEngine /\ Start("read") /\ UNCHANGED <<taken, tlsVars>>
    \/ /\ schema = "https" /\ (socket = "closed" \/ InEngine)
       /\ \E r \in Results("read") :
             Completed("read", r) /\ ready' = Append(Tail(ready), Handler("read", r))
       /\ UNCHANGED <<callVars, socket, timer, ec, expired>>
------------------------------------------------------------------------------
(* The timer.                                                                *)

\* A plausible bug: the handler does not record the timeout.
TimerFiresSilently ==
    /\ Running("timer", "ok")
    /\ expired' = TRUE
    /\ socket' = "closed"
    /\ \/ op \in {"connect", "write", "read"} /\ op' = "none"
          /\ ready' = Append(Tail(ready), Handler(op, "failed"))
       \/ op \notin {"connect", "write", "read"} /\ ready' = Tail(ready) /\ UNCHANGED op
    /\ UNCHANGED <<callVars, written, streamVars, tlsVars, timer, ec>>

\* A plausible bug: the handler leaves the sockets open.
TimerFiresOnly ==
    /\ Running("timer", "ok")
    /\ ec' = "timed_out"
    /\ expired' = TRUE
    /\ ready' = Tail(ready)
    /\ UNCHANGED <<callVars, chainVars, streamVars, tlsVars, timer>>

\* The handler closes the sockets, which fails an operation on them, and asks
\* for the cancellation of the resolve, which may be too late for it.
TimerFires ==
    /\ Running("timer", "ok")
    /\ ec' = "timed_out"
    /\ expired' = TRUE
    /\ socket' = "closed"
    /\ \/ op \in {"connect", "write", "read"} /\ op' = "none"
          /\ ready' = Append(Tail(ready), Handler(op, "failed"))
       \/ op \notin {"connect", "write", "read"} /\ ready' = Tail(ready) /\ UNCHANGED op
    /\ UNCHANGED <<callVars, written, streamVars, tlsVars, timer>>

TimerAborted ==
    /\ Running("timer", "aborted")
    /\ ready' = Tail(ready)
    /\ UNCHANGED <<callVars, chainVars, streamVars, tlsVars, timer, ec, expired>>
------------------------------------------------------------------------------
(* The handlers of the chain.                                                *)

\* The handler of resolve, connect, write or read gets an error, or, on a
\* socket that was closed meanwhile, connect's success is taken back.
Fails ==
    /\ \/ \E o \in Ops : Running(o, "failed")
       \/ Running("connect", "ok") /\ socket = "closed"
    /\ Stop("failed")
    /\ UNCHANGED streamVars

\* async_connect opens the socket.
Resolved ==
    /\ Running("resolve", "ok")
    /\ socket' = "open" /\ op' = "connect" /\ ready' = Tail(ready)
    /\ UNCHANGED <<callVars, written, streamVars, tlsVars, timer, ec, expired>>

ConnectedPlain ==
    /\ schema = "http"
    /\ Running("connect", "ok") /\ socket = "open"
    /\ Start("write")
    /\ peer' = "open"
    /\ UNCHANGED <<written, raw, sent, taken, tlsVars>>

\* The handshake is not asynchronous: nothing else runs until it is over.
ConnectedSecure ==
    /\ schema = "https"
    /\ Running("connect", "ok") /\ socket = "open"
    /\ phase' = "handshake"
    /\ ready' = Tail(ready)
    /\ peer' = "open"
    /\ UNCHANGED <<schema, calls, outcome, chainVars, raw, sent, taken, tlsVars, timer, ec, expired>>

\* SSL_set_tlsext_host_name fails.
HostNameRejected ==
    /\ schema = "https"
    /\ Running("connect", "ok") /\ socket = "open"
    /\ Stop("failed")
    /\ UNCHANGED streamVars

\* On an SSL object with a session SSL_connect returns at once and nothing is
\* exchanged with this call's peer; on one past use it never succeeds.
HandshakeDone ==
    /\ phase = "handshake"
    /\ \/ tls = "fresh" /\ tls' = "open" /\ since' = calls /\ UNCHANGED held
       \/ tls \in {"open", "closed"} /\ UNCHANGED tlsVars
    /\ phase' = "run"
    /\ op' = "write"
    /\ UNCHANGED <<schema, calls, outcome, socket, written, streamVars, ready, timer, ec, expired>>

\* set_option or handshake throw a system_error, which leaves run() and call()
\* past _timer.cancel().  A handshake that fails midway spoils the SSL object, one
\* of which only the last message could not be sent leaves a session.
HandshakeThrows ==
    /\ phase = "handshake"
    /\ \/ UNCHANGED tlsVars
       \/ tls = "fresh" /\ tls' = "broken" /\ UNCHANGED <<since, held>>
       \/ tls = "fresh" /\ since' = calls /\ Leftover
    /\ phase' = "idle"
    /\ outcome' = "exception"
    /\ UNCHANGED <<schema, calls, chainVars, streamVars, ready, timer, ec, expired>>

Written ==
    /\ Running("write", "ok")
    /\ StartRead
    /\ written' = TRUE
    /\ UNCHANGED <<raw, peer, sent>>

ReadData ==
    /\ Running("read", "ok")
    /\ raw' = Append(raw, Datum(taken))
    /\ StartRead
    /\ UNCHANGED <<written, peer, sent>>

\* A plausible bug: every error ends the response.
ReadEofOrError ==
    /\ Running("read", "eof") \/ Running("read", "failed")
    /\ Stop(ec)
    /\ UNCHANGED streamVars

\* A plausible bug: a read is started again before the end of the stream is seen.
ReadEofReadsOn ==
    /\ Running("read", "eof")
    /\ ready' = Tail(ready) \o Cancelled
    /\ timer' = "off"
    /\ phase' = "idle"
    /\ outcome' = IF ec = "none" THEN "response" ELSE "error"
    /\ op' = "read"
    /\ EngineLeft
    /\ UNCHANGED <<schema, calls, ec, socket, written, expired, streamVars>>

ReadEof ==
    /\ Running("read", "eof")
    /\ Stop(ec)
    /\ UNCHANGED streamVars

RunHandler ==
    \/ TimerFires \/ TimerAborted
    \/ Fails
    \/ Resolved \/ ConnectedPlain \/ ConnectedSecure \/ HostNameRejected
    \/ Written \/ ReadData \/ ReadEof
------------------------------------------------------------------------------
(* What the io_context finds finished, and what the peer does.               *)

TimerExpires ==
    /\ phase = "run"
    /\ timer = "armed"
    /\ timer' = "off"
    /\ ready' = Append(ready, Handler("timer", "ok"))
    /\ UNCHANGED <<callVars, chainVars, streamVars, tlsVars, ec, expired>>

Completes ==
    /\ phase = "run"
    /\ op \in Ops
    /\ \E r \in Results(op) :
          Completed(op, r) /\ ready' = Append(ready, Handler(op, r))
    /\ UNCHANGED <<callVars, socket, written, raw, peer, sent, timer, ec, expired>>

PeerSends ==
    /\ phase # "idle" /\ peer = "open"
    /\ sent < MaxChunks
    /\ sent' = sent + 1
    /\ UNCHANGED <<callVars, chainVars, raw, peer, taken, tlsVars, ready, timer, ec, expired>>

\* A FIN or a close_notify, or the end of the connection without one.
PeerCloses ==
    /\ phase # "idle" /\ peer = "open"
    /\ peer' \in {"fin", "reset"}
    /\ UNCHANGED <<callVars, chainVars, raw, sent, taken, tlsVars, ready, timer, ec, expired>>

\* The client is not used any more.
Stopped == phase = "idle" /\ calls = MaxCalls /\ UNCHANGED vars

Next ==
    \/ Call \/ RunHandler \/ HandshakeDone \/ HandshakeThrows
    \/ TimerExpires \/ Completes \/ PeerSends \/ PeerCloses
    \/ Stopped

Spec == Init /\ [][Next]_vars

\* The thread in run() runs what is ready, and an armed timer expires.  Nothing
\* is assumed of the peer, the resolver or the handshake.
FairSpec == Spec /\ WF_vars(RunHandler) /\ WF_vars(TimerExpires)
------------------------------------------------------------------------------
(* Properties.                                                               *)

TypeOK ==
    /\ schema \in Schemas
    /\ phase \in {"idle", "run", "handshake"}
    /\ calls \in 0..MaxCalls
    /\ outcome \in {"none", "response", "error", "exception"}
    /\ op \in Ops \cup {"none"}
    /\ socket \in {"open", "closed"}
    /\ written \in BOOLEAN /\ expired \in BOOLEAN
    /\ raw \in Seq([call : 1..MaxCalls, n : 1..MaxChunks]) /\ Len(raw) <= taken
    /\ peer \in {"unconnected", "open", "fin", "reset"}
    /\ sent \in 0..MaxChunks /\ taken \in 0..MaxChunks
    /\ ready \in Seq(Handlers)
    /\ timer \in {"off", "armed"}
    /\ ec \in {"none", "timed_out", "failed"}
    /\ tls \in {"fresh", "open", "closed", "broken"} /\ since \in 0..calls
    /\ held \in Seq([call : 1..MaxCalls, n : 1..MaxChunks]) /\ Len(held) <= MaxChunks

\* The places in rs of handlers that are not the timer's.
ChainIn(rs) == {i \in DOMAIN rs : rs[i].op # "timer"}

\* The handlers of the chain that are ready.
ChainReady == ChainIn(ready)

\* Exactly one operation of the chain is under way or waits for its handler
\* while the io_context is run, so run() ends only by stop(); and none outlives
\* the call: the next call finds handlers of the timer only.
OneOperation ==
    \/ /\ phase = "run"
       /\ \/ op \in Ops /\ ChainReady = {}
          \/ op = "none" /\ \E i \in DOMAIN ready : ChainReady = {i}
    \/ phase # "run" /\ ChainReady = {} /\ op = "none"

\* A call that made its own session, or that uses none, and returns a Response
\* has sent the request and read every byte the peer sent in this call until it
\* closed the stream, and no byte of another.
WholeResponse ==
    outcome = "response" /\ ~Stale =>
        /\ written
        /\ peer = "fin"
        /\ raw = [n \in 1..sent |-> [call |-> calls, n |-> n]]

\* A call over the session of an earlier call returns a Response only if that
\* session has ended, and what it has read is then, in order and from its first
\* byte, what that session had left unread: often nothing, and never a byte of
\* this call's peer or of a third call's.
StaleResponse ==
    outcome = "response" /\ Stale =>
        /\ tls = "closed"
        /\ raw = [n \in 1..taken |-> [call |-> since, n |-> n]]

\* Once the timer's handler has seen the timeout the call throws, whatever the
\* chain goes on to do.
TimedOutNeverReturns == expired => outcome # "response"

\* The chain has got as far as o.
At(o) == op = o \/ \E i \in ChainReady : ready[i].op = o

\* The call waits for a peer with the timer still armed.
Timed ==
    /\ phase = "run"
    /\ timer = "armed"
    /\ \/ schema = "http" /\ At("connect")
       \/ At("write") \/ At("read")

\* A peer that does not answer cannot hold a call for ever once it is connecting
\* (after the handshake, with https): the timeout ends it.
TimeoutEndsCall == Timed ~> phase = "idle"
==============================================================================
