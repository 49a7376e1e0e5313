------------------------------- MODULE Session -------------------------------
(***************************************************************************)
(* SessionInfo (session.rs): one TCP stream to a device, shared by several *)
(* threads under a lock.  send_and_receive writes one request and reads    *)
(* one reply, header first; a read that finds nothing within the socket    *)
(* timeout fails and leaves the stream as it is.                           *)
(*                                                                         *)
(* The stream is reliable and ordered (TCP).  A reply is a header and a    *)
(* body; a header read at a place where a body starts is garbage (so is    *)
(* what follows a timeout in the middle of a header: the same case).       *)
(* Replies carry the number of their request for the properties only: the  *)
(* code sends sender_context 0 and does not look at the reply's.           *)
(***************************************************************************)
EXTENDS Naturals, Sequences, FiniteSets

CONSTANTS
  Threads,     \* threads that share the session
  Nobody,      \* "the lock is free"
  ReadTimeouts,\* may a read time out?
  MaxRequests  \* bound: requests written to the stream, registration included

ASSUME SessionAssumption ==
  /\ IsFiniteSet(Threads)
  /\ Nobody \notin Threads
  /\ ReadTimeouts \in BOOLEAN
  /\ MaxRequests \in Nat \ {0}

Requests == 1..MaxRequests
Pieces   == [part: {"head", "body"}, req: Requests,
             status: {"ok", "error"}, handle: {"ours", "other"}]
Results  == {"none", "ok", "failed"}

VARIABLES
  pc,        \* per thread: position in send_and_receive
  lock,      \* SessionInfo::stream's mutex
  session,   \* "registering", "open", "dropped"
  broken,    \* has the device closed the TCP connection?
  toTarget,  \* requests in the stream
  owed,      \* replies whose header is sent and whose body is not
  toScanner, \* reply pieces in the stream
  written,   \* number of requests written so far
  mine,      \* per thread: the request its call wrote
  header,    \* per thread: the header its call has read
  result,    \* per thread: outcome of its last call
  \* History.
  timedOut,  \* has some read of this session timed out?
  matched,   \* did every Ok so far answer its own request?
  lastAnswer \* the request whose reply was returned last

callVars == <<written, mine, header, result>>
histVars == <<timedOut, matched, lastAnswer>>
vars == <<pc, lock, session, broken, toTarget, owed, toScanner, callVars, histVars>>

\* The thread that runs connect_timeout; the others share the session later.
Registrar == CHOOSE t \in Threads : TRUE

NoHeader == [part |-> "head", req |-> 1, status |-> "ok", handle |-> "ours"]

Init ==
  /\ pc = [t \in Threads |-> "idle"]
  /\ lock = Nobody
  /\ session = "registering"
  /\ broken = FALSE
  /\ toTarget = <<>>
  /\ owed = <<>>
  /\ toScanner = <<>>
  /\ written = 0
  /\ mine = [t \in Threads |-> 1]
  /\ header = [t \in Threads |-> NoHeader]
  /\ result = [t \in Threads |-> "none"]
  /\ timedOut = FALSE
  /\ matched = TRUE
  /\ lastAnswer = 0

Goto(t, p) == pc' = [pc EXCEPT ![t] = p]

-----------------------------------------------------------------------------
(* send_and_receive *)

\* Mutant: callers do not wait for each other.
BugNoLock(t) ==
  /\ pc[t] = "idle"
  /\ written < MaxRequests
  /\ \/ session = "registering" /\ t = Registrar
     \/ session = "open"
  /\ lock' = t
  /\ Goto(t, "write")
  /\ UNCHANGED <<session, broken, toTarget, owed, toScanner, callVars, histVars>>

\* The lock; a poisoned one is taken as well.  connect_timeout's registration
\* is the first call, made before the session is shared.
Lock(t) ==
  /\ pc[t] = "idle" /\ lock = Nobody
  /\ written < MaxRequests
  /\ \/ session = "registering" /\ t = Registrar
     \/ session = "open"
  /\ lock' = t
  /\ Goto(t, "write")
  /\ UNCHANGED <<session, broken, toTarget, owed, toScanner, callVars, histVars>>

Write(t) ==
  /\ pc[t] = "write"
  /\ written' = written + 1
  /\ toTarget' = Append(toTarget, written')
  /\ mine' = [mine EXCEPT ![t] = written']
  /\ Goto(t, "readHeader")
  /\ UNCHANGED <<lock, session, broken, owed, toScanner, header, result, histVars>>

\* What the caller gets: an error, or the reply to request req.  An error
\* during registration drops the session.
Return(t, res, req) ==
  /\ lock' = Nobody
  /\ result' = [result EXCEPT ![t] = res]
  /\ matched' = (matched /\ (res = "ok" => req = mine[t]))
  /\ lastAnswer' = IF res = "ok" THEN req ELSE lastAnswer
  /\ session' = IF session # "registering" THEN session
                ELSE IF res = "ok" THEN "open" ELSE "dropped"
  /\ Goto(t, "idle")

\* write_all fails on a connection the device has closed.  (Its timeout needs
\* a full send buffer, which one small request at a time does not produce.)
WriteFails(t) ==
  /\ pc[t] = "write" /\ broken
  /\ Return(t, "failed", mine[t])
  /\ UNCHANGED <<broken, toTarget, owed, toScanner, written, mine, header,
                 timedOut>>

\* The next 24 bytes are taken for a header.
ReadHeader(t) ==
  /\ pc[t] = "readHeader" /\ toScanner # <<>>
  /\ toScanner' = Tail(toScanner)
  /\ header' = [header EXCEPT ![t] = Head(toScanner)]
  /\ Goto(t, "readBody")
  /\ UNCHANGED <<lock, session, broken, toTarget, owed, written, mine, result,
                 histVars>>

\* The checks on the decoded reply: status, and the handle once registered.
ReplyAccepted(h) ==
  h.status = "ok" /\ (session = "registering" \/ h.handle = "ours")

\* Mutant: the reply stays in the stream's buffer for the next caller.
BugReadBodyKeeps(t) ==
  /\ pc[t] = "readBody" /\ header[t].part = "head" /\ toScanner # <<>>
  /\ toScanner' = <<header[t]>> \o toScanner
  /\ IF ReplyAccepted(header[t])
     THEN Return(t, "ok", header[t].req)
     ELSE Return(t, "failed", mine[t])
  /\ UNCHANGED <<broken, toTarget, owed, written, mine, header, timedOut>>

\* The body completes the reply; the lock is released, the reply checked.
ReadBody(t) ==
  /\ pc[t] = "readBody" /\ header[t].part = "head" /\ toScanner # <<>>
  /\ toScanner' = Tail(toScanner)
  /\ IF ReplyAccepted(header[t])
     THEN Return(t, "ok", header[t].req)
     ELSE Return(t, "failed", mine[t])
  /\ UNCHANGED <<broken, toTarget, owed, written, mine, header, timedOut>>

\* The "header" was part of a body: its length field makes the call swallow
\* any amount of what follows, and then it fails (no such packet decodes with
\* success and this session's handle, or more bytes are wanted than come).
ReadGarbage(t) ==
  /\ pc[t] = "readBody" /\ header[t].part = "body"
  /\ \E n \in 0..Len(toScanner) :
       toScanner' = SubSeq(toScanner, n + 1, Len(toScanner))
  /\ Return(t, "failed", mine[t])
  /\ UNCHANGED <<broken, toTarget, owed, written, mine, header, timedOut>>

\* read_exact meets the end of the stream.
ReadFails(t) ==
  /\ pc[t] \in {"readHeader", "readBody"} /\ toScanner = <<>> /\ broken
  /\ Return(t, "failed", mine[t])
  /\ UNCHANGED <<broken, toTarget, owed, toScanner, written, mine, header,
                 timedOut>>

\* Mutant: no read timeout is set on the stream.
BugNoTimeout(t) == FALSE /\ UNCHANGED vars

\* read_exact fails after the socket timeout: Err.  The late reply, or the
\* rest of it, stays in the stream.
ReadTimeout(t) ==
  /\ ReadTimeouts
  /\ pc[t] \in {"readHeader", "readBody"} /\ toScanner = <<>>
  /\ Return(t, "failed", mine[t])
  /\ timedOut' = TRUE
  /\ UNCHANGED <<broken, toTarget, owed, toScanner, written, mine, header>>

\* SessionInfo::drop needs the only reference: no call is in progress.
Drop ==
  /\ session = "open"
  /\ \A t \in Threads : pc[t] = "idle"
  /\ session' = "dropped"
  /\ UNCHANGED <<pc, lock, broken, toTarget, owed, toScanner, callVars, histVars>>

-----------------------------------------------------------------------------
(* The device answers requests in order, one reply each; the body may come  *)
(* later than the header.                                                   *)

Piece(p, n, s, h) == [part |-> p, req |-> n, status |-> s, handle |-> h]

TargetSendsHeader(s, h) ==
  /\ ~broken /\ toTarget # <<>> /\ owed = <<>>
  /\ owed' = <<Head(toTarget)>>
  /\ toScanner' = Append(toScanner, Piece("head", Head(toTarget), s, h))
  /\ toTarget' = Tail(toTarget)
  /\ UNCHANGED <<pc, lock, session, broken, callVars, histVars>>

TargetSendsBody ==
  /\ ~broken /\ owed # <<>>
  /\ owed' = <<>>
  /\ toScanner' = Append(toScanner, Piece("body", Head(owed), "ok", "ours"))
  /\ UNCHANGED <<pc, lock, session, broken, toTarget, callVars, histVars>>

\* The device closes the connection; what it has sent can still be read.
TargetCloses ==
  /\ session # "dropped" /\ ~broken
  /\ broken' = TRUE
  /\ toTarget' = <<>> /\ owed' = <<>>
  /\ UNCHANGED <<pc, lock, session, toScanner, callVars, histVars>>

-----------------------------------------------------------------------------

Call(t) ==
  \/ Lock(t) \/ Write(t) \/ WriteFails(t)
  \/ ReadHeader(t) \/ ReadBody(t) \/ ReadGarbage(t)
  \/ ReadFails(t) \/ ReadTimeout(t)

\* The session is over, or the bound on requests is reached.
Finished ==
  /\ \A t \in Threads : pc[t] = "idle"
  /\ session = "dropped" \/ written = MaxRequests
  /\ UNCHANGED vars

Next ==
  \/ \E t \in Threads : Call(t)
  \/ Drop
  \/ \E s \in {"ok", "error"}, h \in {"ours", "other"} : TargetSendsHeader(s, h)
  \/ TargetSendsBody \/ TargetCloses
  \/ Finished

Spec == Init /\ [][Next]_vars

\* A call in progress goes on: it runs, or its read times out.
FairSpec ==
  /\ Spec
  /\ \A t \in Threads :
       /\ WF_vars(Write(t)) /\ WF_vars(ReadHeader(t)) /\ WF_vars(ReadBody(t))
       /\ WF_vars(ReadGarbage(t)) /\ WF_vars(ReadTimeout(t))

-----------------------------------------------------------------------------
(* Properties *)

\* Every variable stays in its domain.
TypeOK ==
  /\ pc \in [Threads -> {"idle", "write", "readHeader", "readBody"}]
  /\ lock \in Threads \cup {Nobody}
  /\ session \in {"registering", "open", "dropped"}
  /\ broken \in BOOLEAN
  /\ toTarget \in Seq(Requests)
  /\ owed \in Seq(Requests) /\ Len(owed) <= 1
  /\ toScanner \in Seq(Pieces)
  /\ written \in 0..MaxRequests
  /\ mine \in [Threads -> Requests]
  /\ header \in [Threads -> Pieces]
  /\ result \in [Threads -> Results]
  /\ timedOut \in BOOLEAN /\ matched \in BOOLEAN
  /\ lastAnswer \in 0..MaxRequests

\* "Requests are serialized by an internal lock, so one session can be shared
\* between threads": as long as no read has timed out, every reply handed to
\* a caller is the reply to its own request, whatever errors the device or the
\* handle check report.
InStepUntilTimeout == ~timedOut => matched

\* Even after timeouts, replies are handed out in the order of the requests,
\* and none is handed out twice.
RepliesInOrder ==
  [][\A t \in Threads :
       pc[t] = "readBody" /\ pc'[t] = "idle" /\ result'[t] = "ok"
         => lastAnswer' > lastAnswer]_vars

\* Session::send_and_receive: "Sends a packet and waits for its reply."
ReplyIsOwn == matched

\* Every call returns, also when the device never answers.
CallsReturn == \A t \in Threads : pc[t] # "idle" ~> pc[t] = "idle"

=============================================================================
