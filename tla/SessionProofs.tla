---------------------------- MODULE SessionProofs ----------------------------
(***************************************************************************)
(* What SessionInfo promises the threads that share it, for any number of  *)
(* threads and of requests.  Without a timeout at most one reply is under  *)
(* way, that to the request of the thread that holds the lock (StepInv);   *)
(* with timeouts late replies pile up in the stream, but their headers     *)
(* stay in the order of the requests and after the last one answered       *)
(* (OrderInv).                                                             *)
(***************************************************************************)
EXTENDS Session, TLAPS

USE SessionAssumption

-----------------------------------------------------------------------------
(* Sequences *)

\* What Append does to length and elements.
LEMMA Appended ==
  ASSUME NEW S, NEW s \in Seq(S), NEW x \in S
  PROVE  /\ Append(s, x) \in Seq(S)
         /\ Len(Append(s, x)) = Len(s) + 1
         /\ \A i \in 1..Len(s) : Append(s, x)[i] = s[i]
         /\ Append(s, x)[Len(s) + 1] = x
OBVIOUS

\* What taking the first element leaves.
LEMMA Taken ==
  ASSUME NEW S, NEW s \in Seq(S), s # <<>>
  PROVE  /\ Head(s) = s[1] /\ Head(s) \in S
         /\ Len(s) > 0 /\ Len(s) \in Nat
         /\ Tail(s) \in Seq(S)
         /\ Len(Tail(s)) = Len(s) - 1
         /\ \A i \in 1..(Len(s) - 1) : Tail(s)[i] = s[i + 1]
OBVIOUS

\* What swallowing the first n elements leaves.
LEMMA Swallowed ==
  ASSUME NEW S, NEW s \in Seq(S), NEW n \in 0..Len(s)
  PROVE  /\ SubSeq(s, n + 1, Len(s)) \in Seq(S)
         /\ Len(SubSeq(s, n + 1, Len(s))) = Len(s) - n
         /\ \A i \in 1..(Len(s) - n) : SubSeq(s, n + 1, Len(s))[i] = s[i + n]
OBVIOUS

-----------------------------------------------------------------------------
(* Types and the lock *)

\* Only the thread that holds the lock is inside send_and_receive, and it
\* took it while a request could still be written.
LockInv ==
  \A t \in Threads :
    /\ pc[t] # "idle" <=> lock = t
    /\ pc[t] = "write" => written < MaxRequests

Shape == TypeOK /\ LockInv

LEMMA InitShape == Init => Shape
<1> SUFFICES ASSUME Init PROVE Shape
  OBVIOUS
<1>1. 1 \in Requests /\ NoHeader \in Pieces
  BY DEF Requests, Pieces, NoHeader
<1>2. mine \in [Threads -> Requests] /\ header \in [Threads -> Pieces]
  BY <1>1 DEF Init
<1>3. /\ toTarget \in Seq(Requests)
      /\ owed \in Seq(Requests) /\ Len(owed) <= 1
      /\ toScanner \in Seq(Pieces)
  BY DEF Init
<1>4. LockInv
  BY DEF Init, LockInv
<1>5. /\ pc \in [Threads -> {"idle", "write", "readHeader", "readBody"}]
      /\ result \in [Threads -> Results]
  BY DEF Init, Results
<1>6. written \in 0..MaxRequests /\ lastAnswer \in 0..MaxRequests
  BY DEF Init
<1>7. broken \in BOOLEAN /\ timedOut \in BOOLEAN /\ matched \in BOOLEAN
  BY Zenon DEF Init
<1>8. lock \in Threads \cup {Nobody} /\ session \in {"registering", "open", "dropped"}
  BY DEF Init
<1> QED
  BY <1>2, <1>3, <1>4, <1>5, <1>6, <1>7, <1>8 DEF Shape, TypeOK

\* What every return does to the types and the lock.
LEMMA ReturnShape ==
  ASSUME Shape, NEW t \in Threads, NEW res \in {"ok", "failed"}, NEW req \in Requests,
         pc[t] # "idle", Return(t, res, req), UNCHANGED written
  PROVE  /\ LockInv'
         /\ pc' \in [Threads -> {"idle", "write", "readHeader", "readBody"}]
         /\ lock' \in Threads \cup {Nobody}
         /\ session' \in {"registering", "open", "dropped"}
         /\ result' \in [Threads -> Results]
         /\ matched' \in BOOLEAN
         /\ lastAnswer' \in 0..MaxRequests
BY DEF Shape, TypeOK, LockInv, Return, Goto, Results, Requests

LEMMA StepShape == Shape /\ [Next]_vars => Shape'
<1> SUFFICES ASSUME Shape, [Next]_vars PROVE Shape'
  OBVIOUS
<1> USE DEF Shape
<1>1. ASSUME NEW t \in Threads, Lock(t) PROVE Shape'
  BY <1>1 DEF Lock, Goto, TypeOK, LockInv, callVars, histVars
<1>2. ASSUME NEW t \in Threads, Write(t) PROVE Shape'
  <2>1. written < MaxRequests /\ written + 1 \in Requests
    BY <1>2 DEF Write, TypeOK, LockInv, Requests
  <2>2. toTarget' \in Seq(Requests)
    BY <1>2, <2>1 DEF Write, TypeOK
  <2> QED
    BY <1>2, <2>1, <2>2 DEF Write, Goto, TypeOK, LockInv, Requests, histVars
<1>3. ASSUME NEW t \in Threads, WriteFails(t) PROVE Shape'
  BY <1>3, ReturnShape DEF WriteFails, TypeOK
<1>4. ASSUME NEW t \in Threads, ReadHeader(t) PROVE Shape'
  <2>1. Head(toScanner) \in Pieces /\ Tail(toScanner) \in Seq(Pieces)
    BY <1>4, Taken DEF ReadHeader, TypeOK
  <2> QED
    BY <1>4, <2>1 DEF ReadHeader, Goto, TypeOK, LockInv, histVars
<1>5. ASSUME NEW t \in Threads, ReadBody(t) PROVE Shape'
  <2>1. Tail(toScanner) \in Seq(Pieces)
    BY <1>5, Taken DEF ReadBody, TypeOK
  <2>2. header[t].req \in Requests /\ mine[t] \in Requests
    BY DEF TypeOK, Pieces
  <2>3. PICK res \in {"ok", "failed"}, req \in Requests : Return(t, res, req)
    BY <1>5, <2>2 DEF ReadBody
  <2> QED
    BY <1>5, <2>1, <2>3, ReturnShape DEF ReadBody, TypeOK
<1>6. ASSUME NEW t \in Threads, ReadGarbage(t) PROVE Shape'
  <2>1. toScanner' \in Seq(Pieces)
    BY <1>6, Swallowed DEF ReadGarbage, TypeOK
  <2> QED
    BY <1>6, <2>1, ReturnShape DEF ReadGarbage, TypeOK
<1>7. ASSUME NEW t \in Threads, ReadFails(t) PROVE Shape'
  BY <1>7, ReturnShape DEF ReadFails, TypeOK
<1>8. ASSUME NEW t \in Threads, ReadTimeout(t) PROVE Shape'
  BY <1>8, ReturnShape DEF ReadTimeout, TypeOK
<1>9. CASE Drop
  BY <1>9 DEF Drop, TypeOK, LockInv, callVars, histVars
<1>10. ASSUME NEW s \in {"ok", "error"}, NEW h \in {"ours", "other"},
              TargetSendsHeader(s, h)
       PROVE  Shape'
  <2>1. Head(toTarget) \in Requests /\ Tail(toTarget) \in Seq(Requests)
    BY <1>10, Taken DEF TargetSendsHeader, TypeOK
  <2>2. Piece("head", Head(toTarget), s, h) \in Pieces
    BY <2>1 DEF Piece, Pieces
  <2>3. toScanner' \in Seq(Pieces)
    BY <1>10, <2>2 DEF TargetSendsHeader, TypeOK
  <2>4. owed' \in Seq(Requests) /\ Len(owed') <= 1
    BY <1>10, <2>1 DEF TargetSendsHeader
  <2> QED
    BY <1>10, <2>1, <2>3, <2>4 DEF TargetSendsHeader, TypeOK, LockInv, callVars, histVars
<1>11. CASE TargetSendsBody
  <2>1. Piece("body", Head(owed), "ok", "ours") \in Pieces
    BY <1>11, Taken DEF TargetSendsBody, TypeOK, Piece, Pieces
  <2>2. toScanner' \in Seq(Pieces)
    BY <1>11, <2>1 DEF TargetSendsBody, TypeOK
  <2> QED
    BY <1>11, <2>2 DEF TargetSendsBody, TypeOK, LockInv, callVars, histVars
<1>12. CASE TargetCloses
  BY <1>12 DEF TargetCloses, TypeOK, LockInv, callVars, histVars
<1>13. CASE UNCHANGED vars
  BY <1>13 DEF vars, TypeOK, LockInv, callVars, histVars
<1> QED
  BY <1>1, <1>2, <1>3, <1>4, <1>5, <1>6, <1>7, <1>8, <1>9, <1>10, <1>11, <1>12,
     <1>13 DEF Next, Call, Finished

\* Every variable of a session stays in its domain, and the lock keeps all
\* threads but one out of send_and_receive.
THEOREM LockHeld == Spec => [](TypeOK /\ LockInv)
<1>1. Shape /\ [Next]_vars => Shape'
  BY StepShape
<1> QED
  BY <1>1, InitShape, PTL DEF Spec, Shape

-----------------------------------------------------------------------------
(* In step until a timeout *)

\* No reply is under way, and none will come.
Quiet ==
  /\ Len(owed) = 0 /\ Len(toScanner) = 0
  /\ broken \/ Len(toTarget) = 0

\* The request is under way, or its reply, in whole or up to the body; or the
\* connection broke before all of it was sent.
Awaited ==
  \/ /\ Len(owed) = 0 /\ Len(toScanner) = 0
     /\ broken \/ (Len(toTarget) = 1 /\ toTarget[1] = written)
  \/ /\ Len(toScanner) = 1 /\ toScanner[1].part = "head"
     /\ toScanner[1].req = written
     /\ broken \/ Len(toTarget) = 0
     /\ broken => Len(owed) = 0
  \/ /\ Len(owed) = 0
     /\ Len(toScanner) = 2 /\ toScanner[1].part = "head"
     /\ toScanner[1].req = written
     /\ broken \/ Len(toTarget) = 0

\* The header in hand is that of the reply; only its body is still to come.
HalfRead(t) ==
  /\ header[t].part = "head" /\ header[t].req = written
  /\ broken \/ Len(toTarget) = 0
  /\ \/ Len(toScanner) = 0 /\ (broken => Len(owed) = 0)
     \/ Len(toScanner) = 1 /\ Len(owed) = 0

\* Before the first timeout the stream holds nothing but the exchange of the
\* thread that has the lock.
StepInv ==
  /\ (\A t \in Threads : pc[t] \in {"idle", "write"}) => Quiet
  /\ \A t \in Threads : pc[t] = "readHeader" => mine[t] = written /\ Awaited
  /\ \A t \in Threads : pc[t] = "readBody" => mine[t] = written /\ HalfRead(t)

InStep == ~timedOut => matched /\ StepInv

\* A call that returns leaves the others idle.
LEMMA Alone ==
  ASSUME Shape, NEW t \in Threads, pc[t] # "idle"
  PROVE  \A u \in Threads : u # t => pc[u] = "idle"
BY DEF Shape, LockInv

\* What a return needs to keep the exchanges in step.
LEMMA ReturnInStep ==
  ASSUME Shape, NEW t \in Threads, NEW res, NEW req, pc[t] # "idle",
         Return(t, res, req), matched, res = "ok" => req = mine[t], Quiet'
  PROVE  matched' /\ StepInv'
<1>1. \A u \in Threads : pc'[u] = "idle"
  BY Alone DEF Return, Goto, Shape, TypeOK
<1>2. matched'
  BY Zenon DEF Return
<1> QED
  BY <1>1, <1>2 DEF StepInv

LEMMA StepInStep == Shape /\ InStep /\ [Next]_vars => InStep'
<1> SUFFICES ASSUME Shape, InStep, [Next]_vars, ~timedOut'
             PROVE  matched' /\ StepInv'
  BY DEF InStep
<1>0. timedOut' = timedOut \/ timedOut' = TRUE
  <2>1. ASSUME NEW t \in Threads, Call(t)
        PROVE  timedOut' = timedOut \/ timedOut' = TRUE
    BY <2>1, Zenon DEF Call, Lock, Write, WriteFails, ReadHeader, ReadBody, ReadGarbage,
       ReadFails, ReadTimeout, histVars
  <2>2. CASE ~ \E t \in Threads : Call(t)
    BY <2>2, Zenon DEF Next, Drop, TargetSendsHeader, TargetSendsBody, TargetCloses,
       Finished, vars, histVars
  <2> QED
    BY <2>1, <2>2
<1>a. matched /\ StepInv
  BY <1>0, Zenon DEF InStep
<1>b. /\ owed \in Seq(Requests) /\ toTarget \in Seq(Requests)
      /\ toScanner \in Seq(Pieces) /\ broken \in BOOLEAN
      /\ written \in Nat /\ Len(owed) <= 1
      /\ Len(owed) \in Nat /\ Len(toTarget) \in Nat /\ Len(toScanner) \in Nat
  BY DEF Shape, TypeOK
<1>1. ASSUME NEW t \in Threads, Lock(t) PROVE matched' /\ StepInv'
  <2>1. matched'
    BY <1>1, <1>a DEF Lock, histVars
  <2>2. \A u \in Threads : pc[u] = "idle"
    BY <1>1 DEF Lock, Shape, LockInv
  <2>3. Quiet'
    BY <1>1, <1>a, <2>2 DEF Lock, StepInv, Quiet
  <2>4. \A u \in Threads : pc'[u] \in {"idle", "write"}
    BY <1>1, <2>2 DEF Lock, Goto, Shape, TypeOK
  <2> QED
    BY <2>1, <2>3, <2>4 DEF StepInv
<1>2. ASSUME NEW t \in Threads, Write(t) PROVE matched' /\ StepInv'
  <2>1. matched'
    BY <1>2, <1>a DEF Write, histVars
  <2>2. \A u \in Threads : u # t => pc[u] = "idle"
    BY <1>2, Alone DEF Write
  <2>3. Quiet
    BY <1>2, <1>a, <2>2 DEF Write, StepInv
  <2>4. /\ \A u \in Threads : u # t => pc'[u] = "idle"
        /\ pc'[t] = "readHeader" /\ mine'[t] = written'
    BY <1>2, <2>2 DEF Write, Goto, Shape, TypeOK
  <2>5. CASE broken
    <3>1. Len(owed') = 0 /\ Len(toScanner') = 0 /\ broken'
      BY <1>2, <2>3, <2>5 DEF Write, Quiet
    <3> QED
      BY <2>1, <2>4, <3>1 DEF StepInv, Awaited
  <2>6. CASE ~broken
    <3>1. Len(owed') = 0 /\ Len(toScanner') = 0 /\ Len(toTarget) = 0
      BY <1>2, <2>3, <2>6 DEF Write, Quiet
    <3>2. written' \in Requests
      BY <1>2 DEF Write, Shape, TypeOK, LockInv, Requests
    <3>3. Len(toTarget') = 1 /\ toTarget'[1] = written'
      BY <1>2, <1>b, <3>1, <3>2 DEF Write
    <3> QED
      BY <2>1, <2>4, <3>1, <3>3 DEF StepInv, Awaited
  <2> QED
    BY <2>5, <2>6
<1>3. ASSUME NEW t \in Threads, WriteFails(t) PROVE matched' /\ StepInv'
  <2>1. Quiet
    BY <1>3, <1>a, Alone DEF WriteFails, StepInv
  <2>2. Quiet'
    BY <1>3, <2>1 DEF WriteFails, Quiet
  <2> QED
    BY <1>3, <1>a, <2>2, ReturnInStep DEF WriteFails
<1>4. ASSUME NEW t \in Threads, ReadHeader(t) PROVE matched' /\ StepInv'
  <2>1. matched'
    BY <1>4, <1>a DEF ReadHeader, histVars
  <2>2. \A u \in Threads : u # t => pc'[u] = "idle"
    BY <1>4, Alone DEF ReadHeader, Goto, Shape, TypeOK
  <2>3. pc'[t] = "readBody" /\ mine'[t] = written' /\ Awaited
    BY <1>4, <1>a DEF ReadHeader, Goto, Shape, TypeOK, StepInv
  <2>4. /\ header'[t] = toScanner[1] /\ Len(toScanner) > 0
        /\ Len(toScanner') = Len(toScanner) - 1
    BY <1>4, <1>b, Taken DEF ReadHeader, Shape, TypeOK
  <2>5. HalfRead(t)'
    BY <1>4, <1>b, <2>3, <2>4 DEF ReadHeader, Awaited, HalfRead
  <2> QED
    BY <2>1, <2>2, <2>3, <2>5 DEF StepInv
<1>5. ASSUME NEW t \in Threads, ReadBody(t) PROVE matched' /\ StepInv'
  <2>1. mine[t] = written /\ HalfRead(t)
    BY <1>5, <1>a DEF ReadBody, StepInv
  <2>2. Len(toScanner) > 0 /\ Len(toScanner') = Len(toScanner) - 1
    BY <1>5, <1>b, Taken DEF ReadBody
  <2>3. Quiet'
    BY <1>5, <1>b, <2>1, <2>2 DEF ReadBody, HalfRead, Quiet
  <2>4. PICK res, req : Return(t, res, req) /\ (res = "ok" => req = mine[t])
    BY <1>5, <2>1 DEF ReadBody, HalfRead
  <2> QED
    BY <1>5, <1>a, <2>3, <2>4, ReturnInStep DEF ReadBody
<1>6. ASSUME NEW t \in Threads, ReadGarbage(t) PROVE matched' /\ StepInv'
  BY <1>6, <1>a DEF ReadGarbage, StepInv, HalfRead
<1>7. ASSUME NEW t \in Threads, ReadFails(t) PROVE matched' /\ StepInv'
  <2>1. broken /\ Len(toScanner) = 0 /\ (Awaited \/ HalfRead(t))
    BY <1>7, <1>a DEF ReadFails, StepInv
  <2>2. Quiet'
    BY <1>7, <1>b, <2>1 DEF ReadFails, Awaited, HalfRead, Quiet
  <2>3. pc[t] # "idle" /\ Return(t, "failed", mine[t])
    BY <1>7 DEF ReadFails
  <2> QED
    BY <1>a, <2>2, <2>3, ReturnInStep
<1>8. ASSUME NEW t \in Threads, ReadTimeout(t) PROVE matched' /\ StepInv'
  BY <1>8 DEF ReadTimeout
<1>9. CASE Drop
  BY <1>9, <1>a DEF Drop, callVars, histVars, StepInv, Quiet, Awaited, HalfRead
<1>10. ASSUME NEW s \in {"ok", "error"}, NEW h \in {"ours", "other"},
              TargetSendsHeader(s, h)
       PROVE  matched' /\ StepInv'
  <2>1. matched' /\ pc' = pc /\ mine' = mine /\ written' = written
    BY <1>10, <1>a DEF TargetSendsHeader, callVars, histVars
  <2>2. ~Quiet /\ ~broken /\ Len(toTarget) > 0 /\ Len(owed) = 0
    BY <1>10, <1>b, Taken DEF TargetSendsHeader, Quiet
  <2>3. \A t \in Threads : pc[t] # "readBody"
    BY <1>a, <2>2 DEF StepInv, HalfRead
  <2>4. PICK t \in Threads : pc[t] = "readHeader"
    BY <1>a, <2>2, <2>3 DEF StepInv, Shape, TypeOK
  <2>5. Len(toTarget) = 1 /\ toTarget[1] = written /\ Len(toScanner) = 0
    BY <1>a, <1>b, <2>2, <2>4 DEF StepInv, Awaited
  <2>6. Head(toTarget) = written /\ Len(toTarget') = 0 /\ written \in Requests
    BY <1>10, <1>b, <2>5, Taken DEF TargetSendsHeader
  <2>7. Piece("head", written, s, h) \in Pieces
    BY <2>6 DEF Piece, Pieces
  <2>8. /\ Len(toScanner') = 1 /\ toScanner'[1].part = "head"
        /\ toScanner'[1].req = written /\ ~broken'
    BY <1>10, <1>b, <2>2, <2>5, <2>6, <2>7 DEF TargetSendsHeader, Piece
  <2>9. Awaited'
    BY <2>1, <2>6, <2>8 DEF Awaited
  <2> QED
    BY <1>a, <2>1, <2>3, <2>4, <2>9 DEF StepInv
<1>11. CASE TargetSendsBody
  <2>1. /\ matched' /\ pc' = pc /\ mine' = mine /\ written' = written
        /\ header' = header /\ toTarget' = toTarget /\ broken' = broken
    BY <1>11, <1>a DEF TargetSendsBody, callVars, histVars
  <2>2. ~Quiet /\ ~broken /\ Len(owed) > 0 /\ Len(owed') = 0
    BY <1>11, <1>b, Taken DEF TargetSendsBody, Quiet
  <2>3. Piece("body", Head(owed), "ok", "ours") \in Pieces
    BY <1>11, <1>b, Taken DEF TargetSendsBody, Piece, Pieces
  <2>4. /\ Len(toScanner') = Len(toScanner) + 1
        /\ \A i \in 1..Len(toScanner) : toScanner'[i] = toScanner[i]
    BY <1>11, <1>b, <2>3 DEF TargetSendsBody
  <2>5. PICK t \in Threads : pc[t] = "readHeader" \/ pc[t] = "readBody"
    BY <1>a, <2>2 DEF StepInv, Shape, TypeOK
  <2>6. pc[t] = "readHeader" => Awaited'
    BY <1>a, <1>b, <2>1, <2>2, <2>4 DEF StepInv, Awaited
  <2>7. pc[t] = "readBody" => HalfRead(t)'
    BY <1>a, <1>b, <2>1, <2>2, <2>4 DEF StepInv, HalfRead
  <2>8. \A u \in Threads : u # t => pc[u] = "idle"
    BY <2>5, Alone
  <2> QED
    BY <1>a, <2>1, <2>5, <2>6, <2>7, <2>8 DEF StepInv
<1>12. CASE TargetCloses
  <2>1. /\ matched' /\ pc' = pc /\ mine' = mine /\ written' = written
        /\ header' = header /\ toScanner' = toScanner /\ broken' = TRUE
        /\ Len(owed') = 0
    BY <1>12, <1>a DEF TargetCloses, callVars, histVars
  <2>2. Quiet => Quiet'
    BY <2>1 DEF Quiet
  <2>3. Awaited => Awaited'
    BY <2>1 DEF Awaited
  <2>4. \A t \in Threads : HalfRead(t) => HalfRead(t)'
    BY <1>b, <2>1 DEF HalfRead
  <2> QED
    BY <1>a, <2>1, <2>2, <2>3, <2>4 DEF StepInv
<1>13. CASE UNCHANGED vars
  BY <1>13, <1>a DEF vars, callVars, histVars, StepInv, Quiet, Awaited, HalfRead
<1> QED
  BY <1>1, <1>2, <1>3, <1>4, <1>5, <1>6, <1>7, <1>8, <1>9, <1>10, <1>11, <1>12,
     <1>13 DEF Next, Call, Finished

\* As long as no read has timed out, every reply that a call of
\* send_and_receive hands over answers that call's request, for any number of
\* threads that share the session, whatever the device sends back and also
\* when it closes the connection in the middle of a reply.
THEOREM InStepBeforeTimeout == Spec => []InStepUntilTimeout
<1>1. Init => InStep
  BY DEF Init, InStep, StepInv, Quiet
<1>2. Shape /\ InStep /\ [Next]_vars => InStep'
  BY StepInStep
<1>3. InStep => InStepUntilTimeout
  BY DEF InStep, InStepUntilTimeout
<1> QED
  BY <1>1, <1>2, <1>3, LockHeld, PTL DEF Spec, Shape

-----------------------------------------------------------------------------
(* In order, also after timeouts *)

\* Positions of the headers in the stream to the scanner.
HeadAt == {i \in 1..Len(toScanner) : toScanner[i].part = "head"}

\* Requests wait in the order they were written, headers of replies in the
\* order of their requests, before all requests that still wait.
StreamOrder ==
  /\ \A j \in 1..Len(toTarget) : toTarget[j] <= written
  /\ \A j, k \in 1..Len(toTarget) : j < k => toTarget[j] < toTarget[k]
  /\ \A i \in HeadAt : toScanner[i].req <= written
  /\ \A i, k \in HeadAt : i < k => toScanner[i].req < toScanner[k].req
  /\ \A i \in HeadAt, j \in 1..Len(toTarget) : toScanner[i].req < toTarget[j]

\* Request n comes before every reply that is still to be read.
Before(n) ==
  /\ n <= written
  /\ \A i \in HeadAt : n < toScanner[i].req
  /\ \A j \in 1..Len(toTarget) : n < toTarget[j]

\* A header in hand is later than the last answer.
HandOrder ==
  \A t \in Threads :
    pc[t] = "readBody" /\ header[t].part = "head" =>
      lastAnswer < header[t].req /\ Before(header[t].req)

OrderInv == StreamOrder /\ Before(lastAnswer) /\ HandOrder

\* Reading pieces, or swallowing them, leaves the others in order.
LEMMA RestInOrder ==
  ASSUME Shape, StreamOrder, NEW n \in 0..Len(toScanner),
         UNCHANGED <<toTarget, written>>,
         Len(toScanner') = Len(toScanner) - n,
         \A i \in 1..(Len(toScanner) - n) : toScanner'[i] = toScanner[i + n]
  PROVE  /\ StreamOrder'
         /\ \A m \in Nat : Before(m) => Before(m)'
<1>1. Len(toScanner) \in Nat /\ n \in Nat
  BY DEF Shape, TypeOK
<1>2. \A i \in HeadAt' : i + n \in HeadAt /\ toScanner'[i] = toScanner[i + n] /\ i \in Nat
  BY <1>1 DEF HeadAt
<1>3. \A i \in HeadAt', k \in HeadAt' : i < k => i + n < k + n
  BY <1>1, <1>2
<1>4. StreamOrder'
  BY <1>1, <1>2, <1>3 DEF StreamOrder
<1>5. \A m \in Nat : Before(m) => Before(m)'
  BY <1>2 DEF Before
<1> QED
  BY <1>4, <1>5

\* A return ends the only call: no header is in hand any more, and the last
\* answer changes to that of an accepted reply.
LEMMA ReturnInOrder ==
  ASSUME Shape, NEW t \in Threads, NEW res, NEW req, pc[t] # "idle",
         Return(t, res, req), StreamOrder', Before(lastAnswer)',
         res = "ok" => req > lastAnswer
  PROVE  OrderInv'
<1>1. \A u \in Threads : pc'[u] = "idle"
  BY Alone DEF Return, Goto, Shape, TypeOK
<1> QED
  BY <1>1 DEF OrderInv, HandOrder

LEMMA StepOrder == Shape /\ OrderInv /\ [Next]_vars => OrderInv'
<1> SUFFICES ASSUME Shape, OrderInv, [Next]_vars PROVE OrderInv'
  OBVIOUS
<1>a. /\ toTarget \in Seq(Requests) /\ toScanner \in Seq(Pieces)
      /\ written \in Nat /\ lastAnswer \in Nat
      /\ Len(toTarget) \in Nat /\ Len(toScanner) \in Nat
      /\ \A j \in 1..Len(toTarget) : toTarget[j] \in Nat
      /\ \A i \in 1..Len(toScanner) : toScanner[i] \in Pieces /\ toScanner[i].req \in Nat
      /\ \A t \in Threads : header[t].req \in Nat
  <2>1. /\ Requests \subseteq Nat
        /\ \A p \in Pieces : p.req \in Nat
    BY DEF Requests, Pieces
  <2>2. /\ toTarget \in Seq(Requests) /\ toScanner \in Seq(Pieces)
        /\ written \in Nat /\ lastAnswer \in Nat
    BY DEF Shape, TypeOK
  <2>3. \A t \in Threads : header[t] \in Pieces
    BY DEF Shape, TypeOK
  <2>4. /\ \A j \in 1..Len(toTarget) : toTarget[j] \in Requests
        /\ \A i \in 1..Len(toScanner) : toScanner[i] \in Pieces
        /\ Len(toTarget) \in Nat /\ Len(toScanner) \in Nat
    BY <2>2
  <2> QED
    BY <2>1, <2>2, <2>3, <2>4
<1>b. StreamOrder /\ Before(lastAnswer) /\ HandOrder
  BY DEF OrderInv
\* Nothing the order is about changes.
<1>c. ASSUME UNCHANGED <<toTarget, toScanner, written>>
      PROVE  StreamOrder' /\ \A m : Before(m) => Before(m)'
  BY <1>b, <1>c DEF StreamOrder, Before, HeadAt
<1>d. ASSUME UNCHANGED <<toTarget, toScanner, written>>,
             NEW t \in Threads, pc[t] # "idle", Return(t, "failed", mine[t])
      PROVE  OrderInv'
  <2>1. lastAnswer' = lastAnswer
    BY <1>d DEF Return
  <2> QED
    BY <1>b, <1>c, <1>d, <2>1, ReturnInOrder
<1>1. ASSUME NEW t \in Threads, Lock(t) PROVE OrderInv'
  <2>1. lastAnswer' = lastAnswer /\ header' = header
    BY <1>1 DEF Lock, callVars, histVars
  <2>2. \A u \in Threads : pc'[u] = "readBody" => pc[u] = "readBody"
    BY <1>1 DEF Lock, Goto, Shape, TypeOK
  <2>3. StreamOrder' /\ \A m : Before(m) => Before(m)'
    BY <1>1, <1>c DEF Lock, callVars
  <2> QED
    BY <1>b, <2>1, <2>2, <2>3 DEF OrderInv, HandOrder
<1>2. ASSUME NEW t \in Threads, Write(t) PROVE OrderInv'
  <2>1. \A u \in Threads : pc'[u] # "readBody"
    BY <1>2, Alone DEF Write, Goto, Shape, TypeOK
  <2>2. written + 1 \in Requests
    BY <1>2 DEF Write, Shape, TypeOK, LockInv, Requests
  <2>3. /\ Len(toTarget') = Len(toTarget) + 1
        /\ \A j \in 1..Len(toTarget) : toTarget'[j] = toTarget[j]
        /\ toTarget'[Len(toTarget) + 1] = written + 1
    BY <1>2, <1>a, <2>2, Appended DEF Write
  <2>4. HeadAt' = HeadAt /\ toScanner' = toScanner /\ written' = written + 1
        /\ lastAnswer' = lastAnswer
    BY <1>2 DEF Write, HeadAt, histVars
  <2>5. \A i \in HeadAt : toScanner[i].req \in Nat
    BY <1>a DEF HeadAt
  <2>6. StreamOrder'
    <3>1. \A j \in 1..Len(toTarget') :
            \/ j \in 1..Len(toTarget) /\ toTarget'[j] = toTarget[j] /\ toTarget[j] \in Nat
            \/ j = Len(toTarget) + 1 /\ toTarget'[j] = written + 1
      <4>1. \A j \in 1..Len(toTarget') : j \in 1..Len(toTarget) \/ j = Len(toTarget) + 1
        BY <1>a, <2>3
      <4>2. \A j \in 1..Len(toTarget) : toTarget[j] \in Nat
        BY <1>a, Zenon
      <4>3. \A j \in 1..Len(toTarget) : toTarget'[j] = toTarget[j]
        BY <2>3, Zenon
      <4>4. toTarget'[Len(toTarget) + 1] = written + 1
        BY <2>3, Zenon
      <4>5. ASSUME NEW j, j = Len(toTarget) + 1 PROVE toTarget'[j] = written + 1
        BY <4>4, <4>5
      <4> QED
        BY <4>1, <4>2, <4>3, <4>5
    <3>2. \A j \in 1..Len(toTarget') : toTarget'[j] <= written + 1
      BY <1>a, <1>b, <3>1 DEF StreamOrder
    <3>3. \A j, k \in 1..Len(toTarget') : j < k => toTarget'[j] < toTarget'[k]
      BY <1>a, <1>b, <3>1 DEF StreamOrder
    <3>4. \A i \in HeadAt, j \in 1..Len(toTarget') : toScanner[i].req < toTarget'[j]
      BY <1>a, <1>b, <2>5, <3>1 DEF StreamOrder
    <3>5. \A i \in HeadAt : toScanner[i].req <= written + 1
      BY <1>a, <1>b, <2>5 DEF StreamOrder
    <3> QED
      BY <1>b, <2>4, <3>2, <3>3, <3>4, <3>5 DEF StreamOrder
  <2>7. Before(lastAnswer)'
    BY <1>a, <1>b, <2>3, <2>4, <2>5 DEF Before
  <2> QED
    BY <2>1, <2>6, <2>7 DEF OrderInv, HandOrder
<1>3. ASSUME NEW t \in Threads, WriteFails(t) PROVE OrderInv'
  BY <1>3, <1>d DEF WriteFails
<1>4. ASSUME NEW t \in Threads, ReadHeader(t) PROVE OrderInv'
  <2>1. /\ Head(toScanner) = toScanner[1] /\ Len(toScanner) > 0
        /\ Len(toScanner') = Len(toScanner) - 1
        /\ \A i \in 1..(Len(toScanner) - 1) : toScanner'[i] = toScanner[i + 1]
    BY <1>4, <1>a, Taken DEF ReadHeader
  <2>2. toTarget' = toTarget /\ written' = written /\ lastAnswer' = lastAnswer
    BY <1>4 DEF ReadHeader, histVars
  <2>3. 1 \in 0..Len(toScanner)
    BY <1>a, <2>1
  <2>4. StreamOrder' /\ \A m \in Nat : Before(m) => Before(m)'
    BY <1>b, <2>1, <2>2, <2>3, RestInOrder
  <2>5. \A u \in Threads : pc'[u] = "readBody" => u = t
    BY <1>4, Alone DEF ReadHeader, Goto, Shape, TypeOK
  <2>6. header'[t] = toScanner[1]
    BY <1>4, <2>1 DEF ReadHeader, Shape, TypeOK
  <2>7. ASSUME toScanner[1].part = "head"
        PROVE  /\ lastAnswer < toScanner[1].req /\ toScanner[1].req <= written
               /\ \A i \in HeadAt' : toScanner[1].req < toScanner'[i].req
               /\ \A j \in 1..Len(toTarget) : toScanner[1].req < toTarget[j]
    <3>1. 1 \in HeadAt
      BY <2>7, <2>1, <1>a DEF HeadAt
    <3>2. \A i \in HeadAt' : i + 1 \in HeadAt /\ toScanner'[i] = toScanner[i + 1] /\ 1 < i + 1
      BY <2>1, <1>a DEF HeadAt
    <3>3. \A i \in HeadAt' : toScanner[1].req < toScanner'[i].req
      BY <3>1, <3>2, <1>b DEF StreamOrder
    <3>4. /\ lastAnswer < toScanner[1].req /\ toScanner[1].req <= written
          /\ \A j \in 1..Len(toTarget) : toScanner[1].req < toTarget[j]
      BY <3>1, <1>b DEF StreamOrder, Before
    <3> QED
      BY <3>3, <3>4
  <2>8. Before(lastAnswer)'
    BY <1>a, <1>b, <2>2, <2>4
  <2>9. HandOrder'
    BY <2>2, <2>5, <2>6, <2>7 DEF HandOrder, Before
  <2> QED
    BY <2>4, <2>8, <2>9 DEF OrderInv
<1>5. ASSUME NEW t \in Threads, ReadBody(t) PROVE OrderInv'
  <2>1. /\ Len(toScanner) > 0
        /\ Len(toScanner') = Len(toScanner) - 1
        /\ \A i \in 1..(Len(toScanner) - 1) : toScanner'[i] = toScanner[i + 1]
    BY <1>5, <1>a, Taken DEF ReadBody
  <2>2. toTarget' = toTarget /\ written' = written
    BY <1>5 DEF ReadBody
  <2>3. 1 \in 0..Len(toScanner)
    BY <1>a, <2>1
  <2>4. StreamOrder' /\ \A m \in Nat : Before(m) => Before(m)'
    BY <1>b, <2>1, <2>2, <2>3, RestInOrder
  <2>5. lastAnswer < header[t].req /\ Before(header[t].req)
    BY <1>5, <1>b DEF ReadBody, HandOrder
  <2>6. CASE Return(t, "ok", header[t].req)
    <3>1. lastAnswer' = header[t].req
      BY <2>6 DEF Return
    <3>2. PICK m \in Nat : m = header[t].req
      BY <1>a
    <3>3. Before(m)' /\ lastAnswer' = m
      BY <2>4, <2>5, <3>1, <3>2
    <3>4. Before(lastAnswer)'
      BY <3>3 DEF Before
    <3> QED
      BY <1>5, <2>4, <2>5, <2>6, <3>4, <1>a, ReturnInOrder DEF ReadBody
  <2>7. CASE Return(t, "failed", mine[t])
    <3>1. lastAnswer' = lastAnswer
      BY <2>7 DEF Return
    <3>2. Before(lastAnswer)'
      BY <1>a, <1>b, <2>4, <3>1
    <3> QED
      BY <1>5, <2>4, <2>7, <3>2, ReturnInOrder DEF ReadBody
  <2> QED
    BY <1>5, <2>6, <2>7 DEF ReadBody
<1>6. ASSUME NEW t \in Threads, ReadGarbage(t) PROVE OrderInv'
  <2>1. PICK n \in 0..Len(toScanner) :
          toScanner' = SubSeq(toScanner, n + 1, Len(toScanner))
    BY <1>6 DEF ReadGarbage
  <2>2. /\ Len(toScanner') = Len(toScanner) - n
        /\ \A i \in 1..(Len(toScanner) - n) : toScanner'[i] = toScanner[i + n]
    BY <2>1, <1>a, Swallowed
  <2>3. toTarget' = toTarget /\ written' = written /\ lastAnswer' = lastAnswer
    BY <1>6 DEF ReadGarbage, Return
  <2>4. StreamOrder' /\ Before(lastAnswer)'
    BY <1>a, <1>b, <2>2, <2>3, RestInOrder
  <2> QED
    BY <1>6, <2>4, ReturnInOrder DEF ReadGarbage
<1>7. ASSUME NEW t \in Threads, ReadFails(t) PROVE OrderInv'
  BY <1>7, <1>d DEF ReadFails
<1>8. ASSUME NEW t \in Threads, ReadTimeout(t) PROVE OrderInv'
  BY <1>8, <1>d DEF ReadTimeout
<1>9. CASE Drop \/ UNCHANGED vars
  <2>1. UNCHANGED <<pc, toTarget, toScanner, written, header, lastAnswer>>
    BY <1>9 DEF Drop, vars, callVars, histVars
  <2> QED
    BY <1>b, <1>c, <2>1 DEF OrderInv, HandOrder
<1>10. ASSUME NEW s \in {"ok", "error"}, NEW h \in {"ours", "other"},
              TargetSendsHeader(s, h)
       PROVE  OrderInv'
  <2>1. /\ Head(toTarget) = toTarget[1] /\ Len(toTarget) > 0
        /\ Head(toTarget) \in Requests
        /\ Len(toTarget') = Len(toTarget) - 1
        /\ \A j \in 1..(Len(toTarget) - 1) : toTarget'[j] = toTarget[j + 1]
    BY <1>10, <1>a, Taken DEF TargetSendsHeader
  <2>2. Piece("head", toTarget[1], s, h) \in Pieces
    BY <2>1 DEF Piece, Pieces
  <2>3. /\ Len(toScanner') = Len(toScanner) + 1
        /\ \A i \in 1..Len(toScanner) : toScanner'[i] = toScanner[i]
        /\ toScanner'[Len(toScanner) + 1] = Piece("head", toTarget[1], s, h)
    BY <1>10, <1>a, <2>1, <2>2, Appended DEF TargetSendsHeader
  <2>4. UNCHANGED <<pc, header, written, lastAnswer>>
    BY <1>10 DEF TargetSendsHeader, callVars, histVars
  <2>5. \A i \in HeadAt' :
          \/ i \in HeadAt /\ toScanner'[i] = toScanner[i] /\ i < Len(toScanner) + 1
          \/ i = Len(toScanner) + 1 /\ toScanner'[i].req = toTarget[1]
    BY <2>3, <1>a DEF HeadAt, Piece
  <2>6. \A i \in HeadAt : toScanner[i].req \in Nat /\ i \in Nat
    BY <1>a DEF HeadAt
  <2>7. \A j \in 1..Len(toTarget') : /\ j + 1 \in 1..Len(toTarget)
                                    /\ toTarget'[j] = toTarget[j + 1]
                                    /\ toTarget[1] < toTarget'[j]
    <3>1. \A j \in 1..Len(toTarget') : /\ j + 1 \in 1..Len(toTarget)
                                      /\ toTarget'[j] = toTarget[j + 1]
                                      /\ 1 \in 1..Len(toTarget) /\ 1 < j + 1
      BY <2>1, <1>a
    <3> QED
      BY <3>1, <1>b DEF StreamOrder
  <2>8. 1 \in 1..Len(toTarget) /\ toTarget[1] \in Nat
    BY <2>1, <1>a
  <2>9. StreamOrder'
    <3>1. \A j \in 1..Len(toTarget') : toTarget'[j] <= written'
      BY <1>b, <2>4, <2>7 DEF StreamOrder
    <3>2. \A j, k \in 1..Len(toTarget') : j < k => toTarget'[j] < toTarget'[k]
      <4>1. ASSUME NEW j \in 1..Len(toTarget'), NEW k \in 1..Len(toTarget'), j < k
            PROVE  j + 1 < k + 1
        BY <4>1, <2>1, <1>a
      <4> QED
        BY <4>1, <1>b, <2>7 DEF StreamOrder
    <3>3. \A i \in HeadAt' : toScanner'[i].req <= written'
      BY <1>b, <2>4, <2>5, <2>8 DEF StreamOrder
    <3>4. \A i, k \in HeadAt' : i < k => toScanner'[i].req < toScanner'[k].req
      BY <1>a, <1>b, <2>5, <2>6, <2>8 DEF StreamOrder
    <3>5. \A i \in HeadAt', j \in 1..Len(toTarget') : toScanner'[i].req < toTarget'[j]
      BY <1>b, <2>5, <2>7 DEF StreamOrder
    <3> QED
      BY <3>1, <3>2, <3>3, <3>4, <3>5 DEF StreamOrder
  <2>10. \A m : Before(m) => Before(m)'
    BY <2>4, <2>5, <2>7, <2>8 DEF Before
  <2> QED
    BY <1>b, <2>4, <2>9, <2>10 DEF OrderInv, HandOrder
<1>11. CASE TargetSendsBody
  <2>1. Piece("body", Head(owed), "ok", "ours") \in Pieces
    BY <1>11, Taken DEF TargetSendsBody, Shape, TypeOK, Piece, Pieces
  <2>2. /\ Len(toScanner') = Len(toScanner) + 1
        /\ \A i \in 1..Len(toScanner) : toScanner'[i] = toScanner[i]
        /\ toScanner'[Len(toScanner) + 1] = Piece("body", Head(owed), "ok", "ours")
    BY <1>11, <1>a, <2>1, Appended DEF TargetSendsBody
  <2>3. UNCHANGED <<pc, header, toTarget, written, lastAnswer>>
    BY <1>11 DEF TargetSendsBody, callVars, histVars
  <2>4. HeadAt' = HeadAt /\ \A i \in HeadAt : toScanner'[i] = toScanner[i]
    BY <2>2, <1>a DEF HeadAt, Piece
  <2>5. StreamOrder' /\ \A m : Before(m) => Before(m)'
    BY <1>b, <2>3, <2>4 DEF StreamOrder, Before
  <2> QED
    BY <1>b, <2>3, <2>5 DEF OrderInv, HandOrder
<1>12. CASE TargetCloses
  <2>1. UNCHANGED <<pc, header, toScanner, written, lastAnswer>> /\ Len(toTarget') = 0
    BY <1>12 DEF TargetCloses, callVars, histVars
  <2>2. StreamOrder' /\ \A m : Before(m) => Before(m)'
    BY <1>b, <2>1 DEF StreamOrder, Before, HeadAt
  <2> QED
    BY <1>b, <2>1, <2>2 DEF OrderInv, HandOrder
<1> QED
  BY <1>1, <1>2, <1>3, <1>4, <1>5, <1>6, <1>7, <1>8, <1>9, <1>10, <1>11, <1>12
  DEF Next, Call, Finished

\* The return of a reply passes the last answer.
LEMMA ReturnPasses ==
  ASSUME Shape, OrderInv, [Next]_vars, NEW t \in Threads,
         pc[t] = "readBody", pc'[t] = "idle", result'[t] = "ok"
  PROVE  lastAnswer' > lastAnswer
<1>1. PICK u \in Threads : Call(u)
  BY DEF Next, Drop, TargetSendsHeader, TargetSendsBody, TargetCloses, Finished, vars
<1>2. pc'[t] # pc[t] => u = t
  BY <1>1 DEF Call, Lock, Write, WriteFails, ReadHeader, ReadBody, ReadGarbage,
     ReadFails, ReadTimeout, Return, Goto, Shape, TypeOK
<1>3. u = t
  BY <1>2
<1>4. ~Return(t, "failed", mine[t])
  BY DEF Return, Shape, TypeOK
<1>5. ReadBody(t)
  BY <1>1, <1>3, <1>4 DEF Call, Lock, Write, WriteFails, ReadHeader, ReadGarbage,
     ReadFails, ReadTimeout
<1>6. Return(t, "ok", header[t].req)
  BY <1>4, <1>5 DEF ReadBody
<1>7. lastAnswer' = header[t].req /\ lastAnswer < header[t].req
  BY <1>5, <1>6 DEF Return, ReadBody, OrderInv, HandOrder
<1>8. lastAnswer \in Nat /\ header[t].req \in Nat
  BY DEF Shape, TypeOK, Pieces, Requests
<1> QED
  BY <1>7, <1>8

\* Replies are handed to callers in the order of their requests and none is
\* handed over twice, also after timeouts, when callers get late replies.
THEOREM AnswersInOrder == Spec => RepliesInOrder
<1>1. Init => OrderInv
  BY DEF Init, OrderInv, StreamOrder, Before, HandOrder, HeadAt
<1>2. Shape /\ OrderInv /\ [Next]_vars => OrderInv'
  BY StepOrder
<1>3. Shape /\ OrderInv /\ [Next]_vars =>
        [\A t \in Threads :
           pc[t] = "readBody" /\ pc'[t] = "idle" /\ result'[t] = "ok"
             => lastAnswer' > lastAnswer]_vars
  BY ReturnPasses
<1> QED
  BY <1>1, <1>2, <1>3, LockHeld, PTL DEF Spec, Shape, RepliesInOrder

=============================================================================
