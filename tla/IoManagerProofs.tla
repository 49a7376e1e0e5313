--------------------------- MODULE IoManagerProofs ---------------------------
(***************************************************************************)
(* Proofs about IoManager, for any number of connections, any assignment   *)
(* of keys (distinct or not), with and without panicking callbacks.        *)
(*                                                                         *)
(* CountMatches is not inductive by itself.  It needs the domains of the   *)
(* variables (Domains), how the IO thread's locals depend on its phase     *)
(* (PhaseInv) and who may be about to subtract from the counter (FlagInv). *)
(***************************************************************************)
EXTENDS IoManager, FiniteSetTheorems, TLAPS

\* TypeOK without open_count, whose sign follows from CountMatches.
Domains ==
  /\ pc \in [Conns -> PcValues]
  /\ flag \in [Conns -> {"unborn", "open", "closed"}]
  /\ queue \in Seq(Command)
  /\ mgr \in {"live", "dropping", "dropped"}
  /\ worker \in WorkerPhases
  /\ cur \in Conns \cup {NoConn}
  /\ table \in [Keys -> Conns \cup {NoConn}]
  /\ todo \subseteq Keys
  /\ expired \subseteq Keys
  /\ setting \in [Conns -> Settings]
  /\ released \subseteq Conns
  /\ reused \subseteq Keys
  /\ wanted \in [Conns -> Settings]
  /\ stale \in [Conns -> Nat]
  /\ late \in [Conns -> Nat]
  /\ onClose \in [Conns -> Nat]
  /\ closedBy \in [Conns -> {"nobody", "user", "timeout", "duplicate"}]

\* The locals of the IO thread: a connection is being closed exactly in the
\* phases after a swap, and the keys of a pass name entries.
PhaseInv ==
  /\ worker \in {"dupDec", "expireDec", "onClose"} <=> cur \in Conns
  /\ worker # "service" => todo = {}
  /\ worker \notin {"service", "expire", "expireDec", "onClose"} => expired = {}
  /\ \A k \in todo \cup expired : table[k] \in Conns

\* A flag exists from the reply on; whoever still has to subtract has closed
\* the flag, and an application thread and the IO thread never both have.
FlagInv ==
  /\ \A c \in Conns : pc[c] \in {"none", "reply"} => flag[c] = "unborn"
  /\ \A c \in Conns : pc[c] = "closeDec" => flag[c] = "closed" /\ closedBy[c] = "user"
  /\ worker \in {"dupDec", "expireDec"} => flag[cur] = "closed" /\ closedBy[cur] # "user"

Shape == Domains /\ PhaseInv /\ FlagInv

USE ConstantsAssumption

\* What the provers need of a command taken from the channel.
LEMMA HeadOfQueue ==
  ASSUME queue \in Seq(Command), queue # <<>>
  PROVE  /\ Head(queue) \in Command
         /\ Tail(queue) \in Seq(Command)
         /\ Head(queue).op # "Shutdown" =>
              /\ Head(queue).conn \in Conns
              /\ Head(queue).field \in Fields
              /\ Head(queue).val \in Nat
<1>1. Head(queue) \in Command /\ Tail(queue) \in Seq(Command)
  OBVIOUS
<1>2. QED
  BY <1>1 DEF Command, Cmd

\* The commands that application threads send.
LEMMA CommandTypes ==
  /\ Cmd("Shutdown", NoConn) \in Command
  /\ \A c \in Conns : Cmd("Add", c) \in Command /\ Cmd("Remove", c) \in Command
  /\ \A c \in Conns, f \in Fields, n \in Nat :
       [op |-> "Set", conn |-> c, field |-> f, val |-> n] \in Command
BY SMTT(60) DEF Command, Cmd, Fields

\* IoSender::send keeps the channel well typed.
LEMMA SendTyped ==
  ASSUME queue \in Seq(Command), NEW m \in Command, Send(m)
  PROVE  queue' \in Seq(Command)
BY SMTT(60) DEF Send

\* Init establishes the supporting invariant.
LEMMA InitShape == Init => Shape
BY SMTT(60) DEF Init, Shape, Domains, PhaseInv, FlagInv, PcValues, WorkerPhases, Settings

\* Every step keeps the supporting invariant.
LEMMA StepShape == Shape /\ [Next]_vars => Shape'
<1> SUFFICES ASSUME Shape, [Next]_vars PROVE Shape'
  OBVIOUS
<1> USE DEF Shape, Domains, PhaseInv, FlagInv, PcValues, WorkerPhases,
            appVars, flagVars, workerVars, histVars
<1>1. ASSUME NEW c \in Conns, ForwardOpenRefused(c) PROVE Shape'
  BY <1>1 DEF ForwardOpenRefused, Goto
<1>2. ASSUME NEW c \in Conns, ForwardOpenAccepted(c) PROVE Shape'
  BY <1>2 DEF ForwardOpenAccepted, Goto
<1>3. ASSUME NEW c \in Conns, ForwardOpenReplyLost(c) PROVE Shape'
  BY <1>3 DEF ForwardOpenReplyLost, Goto
<1>4. ASSUME NEW c \in Conns, ForwardOpenReply(c) PROVE Shape'
  BY <1>4 DEF ForwardOpenReply, Goto
<1>5. ASSUME NEW c \in Conns, ForwardOpenAdd(c) PROVE Shape'
  <2>1. queue' \in Seq(Command)
    BY <1>5, CommandTypes, SendTyped DEF ForwardOpenAdd
  <2>2. /\ pc[c] = "add"
        /\ pc' = [pc EXCEPT ![c] = "open"] \/ pc' = [pc EXCEPT ![c] = "failed"]
        /\ UNCHANGED <<mgr, released, reused, flagVars, workerVars, histVars>>
    BY <1>5 DEF ForwardOpenAdd, Goto
  <2>3. pc' \in [Conns -> PcValues] /\ \A d \in Conns : d # c => pc'[d] = pc[d]
    BY <2>2
  <2>4. pc'[c] \in {"open", "failed"}
    BY <2>2
  <2>5. Domains'
    BY <2>1, <2>2, <2>3
  <2>6. PhaseInv'
    BY <2>2
  <2>7. FlagInv'
    BY <2>2, <2>3, <2>4
  <2>8. QED
    BY <2>5, <2>6, <2>7
<1>6. ASSUME NEW c \in Conns, ForwardClose(c) PROVE Shape'
  BY <1>6 DEF ForwardClose, Swap, Goto
<1>7. ASSUME NEW c \in Conns, ForwardCloseLate(c) PROVE Shape'
  BY <1>7 DEF ForwardCloseLate, Goto
<1>8. ASSUME NEW c \in Conns, ForwardCloseDec(c) PROVE Shape'
  BY <1>8 DEF ForwardCloseDec, Decrement, Goto
<1>9. ASSUME NEW c \in Conns, ForwardCloseRemove(c) PROVE Shape'
  <2>1. queue' \in Seq(Command)
    BY <1>9, CommandTypes, SendTyped DEF ForwardCloseRemove
  <2>2. UNCHANGED <<mgr, released, reused, flagVars, workerVars, histVars>>
    BY <1>9 DEF ForwardCloseRemove
  <2>3. \E p \in {"closeRequest", "done"} : Goto(c, p)
    BY <1>9 DEF ForwardCloseRemove
  <2>4. QED
    BY <1>9, <2>1, <2>2, <2>3 DEF ForwardCloseRemove, Goto
<1>10. ASSUME NEW c \in Conns, ForwardCloseRequest(c) PROVE Shape'
  BY <1>10 DEF ForwardCloseRequest, Goto
<1>11. ASSUME NEW c \in Conns, NEW f \in Fields, Set(c, f) PROVE Shape'
  <2> DEFINE n == wanted[c][f] + 1
  <2>1. wanted[c] \in Settings /\ n \in Nat
    BY DEF Settings
  <2>2. queue' \in Seq(Command)
    BY <1>11, <2>1, CommandTypes, SendTyped DEF Set
  <2>3. wanted' \in [Conns -> Settings]
    BY <1>11, <2>1 DEF Set, Settings
  <2>4. QED
    BY <1>11, <2>2, <2>3 DEF Set
<1>13. CASE DrainAdd
  BY <1>13, HeadOfQueue DEF DrainAdd, Receive
<1>14. CASE DrainDuplicate
  <2> DEFINE c == Head(queue).conn
  <2>1. c \in Conns /\ queue' \in Seq(Command) /\ worker = "drain"
    BY <1>14, HeadOfQueue DEF DrainDuplicate, Receive
  <2> HIDE DEF c
  <2>2. CASE flag[c] = "open"
    <3>1. /\ flag' = [flag EXCEPT ![c] = "closed"]
          /\ closedBy' = [closedBy EXCEPT ![c] = "duplicate"]
          /\ worker' = "dupDec" /\ cur' = c
          /\ UNCHANGED <<pc, mgr, released, reused, table, todo, expired, setting, wanted,
                         stale, late, onClose>>
      BY <1>14, <2>1, <2>2 DEF DrainDuplicate, Swap, c
    <3>2. Domains'
      BY <2>1, <3>1
    <3>3. PhaseInv'
      BY <2>1, <3>1
    <3>4. FlagInv'
      BY <2>1, <2>2, <3>1
    <3>5. QED
      BY <3>2, <3>3, <3>4
  <2>3. CASE flag[c] # "open"
    BY ZenonT(60), <1>14, <2>1, <2>3 DEF DrainDuplicate, Swap, c
  <2>4. QED
    BY <2>2, <2>3
<1>15. CASE DuplicateDec
  BY <1>15 DEF DuplicateDec, Decrement
<1>16. CASE DrainRemove
  BY <1>16, HeadOfQueue DEF DrainRemove, Receive
<1>17. CASE DrainSet
  BY <1>17, HeadOfQueue DEF DrainSet, Receive, Settings, Fields, Command
<1>18. CASE DrainShutdown
  BY <1>18 DEF DrainShutdown, Stop
<1>19. CASE DrainEmpty
  BY <1>19 DEF DrainEmpty
<1>20. CASE ServiceDone
  BY <1>20 DEF ServiceDone
<1>21. CASE ExpireDec
  BY <1>21 DEF ExpireDec, Decrement
<1>22. CASE OnClose
  BY <1>22 DEF OnClose
<1>23. CASE ExpireDone
  BY <1>23 DEF ExpireDone
<1>24. CASE Wait
  BY <1>24 DEF Wait
<1>25. ASSUME NEW k \in Keys, ServiceTimedOut(k) PROVE Shape'
  BY <1>25 DEF ServiceTimedOut
<1>26. ASSUME NEW k \in Keys, ServiceNoSend(k) PROVE Shape'
  BY <1>26 DEF ServiceNoSend
<1>27. ASSUME NEW k \in Keys, ServiceSend(k) PROVE Shape'
  BY SMTT(60), <1>27 DEF ServiceSend
<1>28. ASSUME NEW k \in Keys, Expire(k) PROVE Shape'
  <2> DEFINE c == table[k]
  <2>1. c \in Conns /\ k \in expired /\ worker = "expire" /\ todo = {}
    BY <1>28 DEF Expire
  <2>2. \A j \in expired' : j # k /\ table'[j] \in Conns
    BY <1>28, <2>1 DEF Expire
  <2> HIDE DEF c
  <2>3. CASE flag[c] = "open"
    <3>1. /\ flag' = [flag EXCEPT ![c] = "closed"]
          /\ closedBy' = [closedBy EXCEPT ![c] = "timeout"]
          /\ worker' = "expireDec" /\ cur' = c
          /\ expired' = expired \ {k} /\ table' = [table EXCEPT ![k] = NoConn]
          /\ UNCHANGED <<pc, mgr, released, reused, queue, todo, setting, wanted, stale,
                         late, onClose>>
      BY <1>28, <2>1, <2>3 DEF Expire, Swap, c
    <3>2. Domains'
      BY <2>1, <3>1
    <3>3. PhaseInv'
      BY <2>1, <2>2, <3>1
    <3>4. FlagInv'
      BY <2>1, <2>3, <3>1
    <3>5. QED
      BY <3>2, <3>3, <3>4
  <2>4. CASE flag[c] # "open"
    BY <1>28, <2>1, <2>2, <2>4 DEF Expire, Swap, c
  <2>5. QED
    BY <2>3, <2>4
<1>29. CASE DropManager
  <2>1. queue' \in Seq(Command)
    BY <1>29, CommandTypes, SendTyped DEF DropManager
  <2>2. QED
    BY <1>29, <2>1 DEF DropManager
<1>30. CASE JoinThread
  BY <1>30 DEF JoinThread
<1>31. CASE CallbackPanic
  BY <1>31 DEF CallbackPanic, Stop
<1>32. CASE Finished \/ UNCHANGED vars
  BY <1>32 DEF Finished, vars
<1>33. QED
  BY <1>1, <1>2, <1>3, <1>4, <1>5, <1>6, <1>7, <1>8, <1>9, <1>10, <1>11, <1>13, <1>14, <1>15, <1>16,
     <1>17, <1>18, <1>19, <1>20, <1>21, <1>22, <1>23, <1>24, <1>25, <1>26, <1>27, <1>28, <1>29, <1>30, <1>31, <1>32
  DEF Next, AppStep, WorkerStep, Service, SetOutput, SetRun, Fields

-----------------------------------------------------------------------------
(* The counter *)

\* The counted sets are finite.
LEMMA CountedFinite ==
  /\ IsFiniteSet(OpenFlags) /\ IsFiniteSet(Decrementers)
  /\ Cardinality(OpenFlags) \in Nat /\ Cardinality(Decrementers) \in Nat
<1>1. OpenFlags \in SUBSET Conns /\ Decrementers \in SUBSET Conns
  BY DEF OpenFlags, Decrementers
<1>2. IsFiniteSet(OpenFlags) /\ IsFiniteSet(Decrementers)
  BY <1>1, FS_Subset
<1>3. QED
  BY <1>2, FS_CardinalityType

\* A step that touches neither the flags nor the closers nor the counter.
LEMMA CountSame ==
  ASSUME CountMatches, OpenFlags' = OpenFlags, Decrementers' = Decrementers,
         open_count' = open_count
  PROVE  CountMatches'
BY DEF CountMatches

\* OpenFlag::new.
LEMMA CountNew ==
  ASSUME CountMatches, NEW c \in Conns, c \notin OpenFlags,
         OpenFlags' = OpenFlags \cup {c}, Decrementers' = Decrementers,
         open_count' = open_count + 1
  PROVE  CountMatches'
<1>1. Cardinality(OpenFlags') = Cardinality(OpenFlags) + 1
  BY CountedFinite, FS_AddElement
<1>2. QED
  BY <1>1, CountedFinite DEF CountMatches

\* The swap of OpenFlag::close.
LEMMA CountSwap ==
  ASSUME CountMatches, NEW c \in Conns, c \in OpenFlags, c \notin Decrementers,
         OpenFlags' = OpenFlags \ {c}, Decrementers' = Decrementers \cup {c},
         open_count' = open_count
  PROVE  CountMatches'
<1>1. Cardinality(OpenFlags') = Cardinality(OpenFlags) - 1
  BY CountedFinite, FS_RemoveElement
<1>2. Cardinality(Decrementers') = Cardinality(Decrementers) + 1
  BY CountedFinite, FS_AddElement
<1>3. QED
  BY <1>1, <1>2, CountedFinite DEF CountMatches

\* The fetch_sub of OpenFlag::close.
LEMMA CountSub ==
  ASSUME CountMatches, NEW c \in Conns, c \in Decrementers,
         OpenFlags' = OpenFlags, Decrementers' = Decrementers \ {c},
         open_count' = open_count - 1
  PROVE  CountMatches'
<1>1. Cardinality(Decrementers') = Cardinality(Decrementers) - 1
  BY CountedFinite, FS_RemoveElement
<1>2. QED
  BY <1>1, CountedFinite DEF CountMatches

\* Whoever has still to subtract has closed the flag.
LEMMA DecrementersClosed ==
  ASSUME Shape, NEW c \in Decrementers
  PROVE  c \in Conns /\ flag[c] = "closed"
BY DEF Shape, FlagInv, Decrementers

\* Every step keeps the counter right.
LEMMA StepCount == Shape /\ CountMatches /\ [Next]_vars => CountMatches'
<1> SUFFICES ASSUME Shape, CountMatches, [Next]_vars PROVE CountMatches'
  OBVIOUS
<1> USE DEF appVars, flagVars, workerVars, histVars
<1>1. ASSUME NEW c \in Conns, ForwardOpenReply(c) PROVE CountMatches'
  <2>1. /\ c \notin OpenFlags /\ OpenFlags' = OpenFlags \cup {c}
        /\ Decrementers' = Decrementers /\ open_count' = open_count + 1
    BY <1>1 DEF ForwardOpenReply, Goto, OpenFlags, Decrementers, Shape, Domains,
                FlagInv
  <2>2. QED
    BY <2>1, CountNew
<1>2. ASSUME NEW c \in Conns, ForwardClose(c) PROVE CountMatches'
  <2>1. c \in OpenFlags /\ c \notin Decrementers
    BY <1>2, DecrementersClosed DEF ForwardClose, Swap, OpenFlags
  <2>2. /\ OpenFlags' = OpenFlags \ {c} /\ Decrementers' = Decrementers \cup {c}
        /\ open_count' = open_count
    BY <1>2 DEF ForwardClose, Swap, Goto, OpenFlags, Decrementers, Shape, Domains
  <2>3. QED
    BY <2>1, <2>2, CountSwap
<1>3. ASSUME NEW c \in Conns, ForwardCloseDec(c) PROVE CountMatches'
  <2>1. c \in Decrementers /\ ~(worker \in {"dupDec", "expireDec"} /\ cur = c)
    BY <1>3 DEF ForwardCloseDec, Decrementers, Shape, FlagInv
  <2>2. /\ OpenFlags' = OpenFlags /\ Decrementers' = Decrementers \ {c}
        /\ open_count' = open_count - 1
    BY <1>3, <2>1 DEF ForwardCloseDec, Goto, Decrement, OpenFlags, Decrementers,
                      Shape, Domains
  <2>3. QED
    BY <2>1, <2>2, CountSub
<1>4. CASE DuplicateDec \/ ExpireDec
  <2>1. cur \in Conns /\ cur \in Decrementers /\ pc[cur] # "closeDec"
    BY <1>4 DEF DuplicateDec, ExpireDec, Decrementers, Shape, PhaseInv, FlagInv
  <2>2. /\ OpenFlags' = OpenFlags /\ Decrementers' = Decrementers \ {cur}
        /\ open_count' = open_count - 1
    BY <1>4, <2>1 DEF DuplicateDec, ExpireDec, Decrement, OpenFlags, Decrementers
  <2>3. QED
    BY <2>1, <2>2, CountSub
<1>5. CASE DrainDuplicate
  <2> DEFINE c == Head(queue).conn
  <2>1. c \in Conns /\ worker = "drain"
    BY <1>5, HeadOfQueue DEF DrainDuplicate, Receive, Shape, Domains
  <2> HIDE DEF c
  <2>2. CASE flag[c] = "open"
    <3>1. c \in OpenFlags /\ c \notin Decrementers
      BY <2>1, <2>2, DecrementersClosed DEF OpenFlags
    <3>2. /\ OpenFlags' = OpenFlags \ {c} /\ Decrementers' = Decrementers \cup {c}
          /\ open_count' = open_count
      BY <1>5, <2>1, <2>2 DEF DrainDuplicate, Swap, OpenFlags, Decrementers,
                              Shape, Domains, c
    <3>3. QED
      BY <2>1, <3>1, <3>2, CountSwap
  <2>3. CASE flag[c] # "open"
    BY <1>5, <2>3, CountSame DEF DrainDuplicate, Swap, OpenFlags, Decrementers, c
  <2>4. QED
    BY <2>2, <2>3
<1>6. ASSUME NEW k \in Keys, Expire(k) PROVE CountMatches'
  <2> DEFINE c == table[k]
  <2>1. c \in Conns /\ worker = "expire"
    BY <1>6 DEF Expire, Shape, PhaseInv
  <2> HIDE DEF c
  <2>2. CASE flag[c] = "open"
    <3>1. c \in OpenFlags /\ c \notin Decrementers
      BY <2>1, <2>2, DecrementersClosed DEF OpenFlags
    <3>2. /\ OpenFlags' = OpenFlags \ {c} /\ Decrementers' = Decrementers \cup {c}
          /\ open_count' = open_count
      BY <1>6, <2>1, <2>2 DEF Expire, Swap, OpenFlags, Decrementers, Shape,
                              Domains, c
    <3>3. QED
      BY <2>1, <3>1, <3>2, CountSwap
  <2>3. CASE flag[c] # "open"
    BY <1>6, <2>1, <2>3, CountSame DEF Expire, Swap, OpenFlags, Decrementers, c
  <2>4. QED
    BY <2>2, <2>3
<1>7. ASSUME NEW c \in Conns, ForwardOpenRefused(c) PROVE CountMatches'
  BY <1>7, CountSame DEF ForwardOpenRefused, Goto, OpenFlags, Decrementers, Shape, Domains
<1>8. ASSUME NEW c \in Conns, ForwardOpenAccepted(c) PROVE CountMatches'
  BY <1>8, CountSame DEF ForwardOpenAccepted, Goto, OpenFlags, Decrementers, Shape, Domains
<1>9. ASSUME NEW c \in Conns, ForwardOpenReplyLost(c) PROVE CountMatches'
  BY <1>9, CountSame DEF ForwardOpenReplyLost, Goto, OpenFlags, Decrementers, Shape, Domains
<1>10. ASSUME NEW c \in Conns, ForwardOpenAdd(c) PROVE CountMatches'
  BY <1>10, CountSame DEF ForwardOpenAdd, Goto, OpenFlags, Decrementers, Shape, Domains
<1>11. ASSUME NEW c \in Conns, ForwardCloseLate(c) PROVE CountMatches'
  BY <1>11, CountSame DEF ForwardCloseLate, Goto, OpenFlags, Decrementers, Shape, Domains
<1>12. ASSUME NEW c \in Conns, ForwardCloseRemove(c) PROVE CountMatches'
  BY <1>12, CountSame DEF ForwardCloseRemove, Goto, OpenFlags, Decrementers, Shape, Domains
<1>13. ASSUME NEW c \in Conns, ForwardCloseRequest(c) PROVE CountMatches'
  BY <1>13, CountSame DEF ForwardCloseRequest, Goto, OpenFlags, Decrementers, Shape, Domains
<1>15. ASSUME NEW c \in Conns, NEW f \in Fields, Set(c, f) PROVE CountMatches'
  BY SMTT(60), <1>15, CountSame DEF Set, OpenFlags, Decrementers
<1>16. CASE DropManager \/ JoinThread
  BY SMTT(60), <1>16, CountSame DEF DropManager, JoinThread, OpenFlags, Decrementers
<1>17. CASE DrainAdd \/ DrainRemove \/ DrainSet \/ DrainEmpty
  BY <1>17, CountSame DEF DrainAdd, DrainRemove, DrainSet, DrainEmpty, OpenFlags, Decrementers
<1>18. CASE DrainShutdown \/ CallbackPanic
  BY <1>18, CountSame DEF DrainShutdown, CallbackPanic, Stop, OpenFlags, Decrementers
<1>19. CASE ServiceDone \/ OnClose \/ ExpireDone \/ Wait
  BY <1>19, CountSame DEF ServiceDone, OnClose, ExpireDone, Wait, OpenFlags, Decrementers
<1>20. ASSUME NEW k \in Keys, Service(k) PROVE CountMatches'
  BY <1>20, CountSame DEF Service, ServiceTimedOut, ServiceNoSend, ServiceSend,
                           OpenFlags, Decrementers
<1>21. CASE Finished \/ UNCHANGED vars
  BY <1>21, CountSame DEF Finished, vars, OpenFlags, Decrementers
<1>22. QED
  BY <1>1, <1>2, <1>3, <1>4, <1>5, <1>6, <1>7, <1>8, <1>9, <1>10, <1>11, <1>12,
     <1>13, <1>15, <1>16, <1>17, <1>18, <1>19, <1>20, <1>21
  DEF Next, AppStep, WorkerStep, SetOutput, SetRun, Fields

\* The supporting invariant and the counter together.
LEMMA Inductive == Spec => [](Shape /\ CountMatches)
<1>1. Init => CountMatches
  <2> SUFFICES ASSUME Init PROVE CountMatches
    OBVIOUS
  <2>1. OpenFlags = {} /\ Decrementers = {}
    BY DEF Init, OpenFlags, Decrementers
  <2>2. QED
    BY <2>1, FS_EmptySet DEF Init, CountMatches
<1>2. QED
  BY <1>1, InitShape, StepShape, StepCount, PTL DEF Spec

\* has_open_connections is right in every reachable state, whatever races
\* between forward_close, timeouts and duplicate keys close the connections.
THEOREM CountIsRight == Spec => []CountMatches
BY Inductive, PTL

\* Every variable stays in its domain; open_count never underflows.
THEOREM TypeCorrect == Spec => []TypeOK
<1>1. Shape /\ CountMatches => TypeOK
  BY CountedFinite DEF Shape, Domains, CountMatches, TypeOK
<1>2. QED
  BY <1>1, Inductive, PTL

-----------------------------------------------------------------------------
(***************************************************************************)
(* Where the IO thread keeps a connection, and how it leaves: proofs for   *)
(* any number of connections.                                              *)
(*                                                                         *)
(* The invariants of IoManager look at one place each (the table, the      *)
(* channel, a flag).  What makes them inductive is the order of a          *)
(* connection's commands in the channel (QueueInv), that it is in one      *)
(* place at a time (PlaceInv), and who may have closed it where            *)
(* (CloserInv, ReportInv, LeaveInv).                                       *)
(***************************************************************************)

\* From the Add on: forward_open has returned the handle.
Handled == {"open", "closeDec", "closeRemove", "closeRequest", "done"}

\* Inside forward_open, or before it.
Opening == {"none", "reply", "add"}

\* The IO thread has not yet taken the Add of c from the channel.
Pending(c) == pc[c] \in Opening \/ Queued("Add", c)

\* closedBy records every close; forward_close goes on only after its own.
CloserInv ==
  \A c \in Conns :
    /\ pc[c] \in Handled \cup {"add"} => flag[c] # "unborn"
    /\ closedBy[c] = "nobody" <=> flag[c] # "closed"
    /\ closedBy[c] = "user" =>
         pc[c] \in {"closeDec", "closeRemove", "closeRequest", "done"}
    /\ pc[c] \in {"closeDec", "closeRemove", "closeRequest"} => closedBy[c] = "user"

\* Of each connection at most one Add is in the channel, before its Remove.
QueueInv ==
  \A i \in 1..Len(queue) :
    /\ queue[i].op = "Add" =>
         pc[queue[i].conn] \in Handled
    /\ queue[i].op = "Remove" => RemoveSent(queue[i].conn)
    /\ \A j \in 1..Len(queue) :
         queue[i].conn = queue[j].conn /\ queue[i].op = "Add" =>
           /\ queue[j].op = "Add" => i = j
           /\ queue[j].op = "Remove" => i < j

\* A connection is on its way to the IO thread, in the table under its own
\* key, being closed, or none of these.
PlaceInv ==
  /\ \A k \in Keys : table[k] # NoConn => KeyOf[table[k]] = k
  /\ ~Alive => queue = <<>> /\ \A k \in Keys : table[k] = NoConn
  /\ \A c \in Conns :
       Pending(c) \/ InTable(c)
         => cur # c /\ onClose[c] = 0 /\ closedBy[c] \in {"nobody", "user"}
  /\ \A c \in Conns : InTable(c) => ~Pending(c) /\ pc[c] \in Handled

\* on_close is for the connection the IO thread has just timed out.
ReportInv ==
  /\ \A c \in Conns : onClose[c] > 0 =>
       onClose[c] = 1 /\ closedBy[c] \in {"timeout", "user"} /\ cur # c
  /\ worker \in {"expireDec", "onClose"} => closedBy[cur] \in {"timeout", "user"}

\* After forward_close, what the IO thread still has is followed by a Remove.
LeaveInv ==
  \A c \in Conns :
    RemoveSent(c) /\ (InTable(c) \/ Queued("Add", c)) => Queued("Remove", c)

Track == CloserInv /\ QueueInv /\ PlaceInv /\ ReportInv /\ LeaveInv


-----------------------------------------------------------------------------
(* The channel *)

\* What a send does to the channel.
LEMMA Appended ==
  ASSUME queue \in Seq(Command), NEW m \in Command, Send(m)
  PROVE  /\ Len(queue') = Len(queue) + 1 /\ Len(queue) \in Nat
         /\ \A i \in 1..Len(queue) : queue'[i] = queue[i]
         /\ queue'[Len(queue) + 1] = m
         /\ \A op, c : Queued(op, c)' <=> Queued(op, c) \/ (m.op = op /\ m.conn = c)
<1>1. /\ Len(queue') = Len(queue) + 1 /\ Len(queue) \in Nat
      /\ \A i \in 1..Len(queue) : queue'[i] = queue[i]
      /\ queue'[Len(queue) + 1] = m
  BY DEF Send
<1>2. QED
  BY <1>1 DEF Queued

\* What a receive does to it.
LEMMA Received ==
  ASSUME queue \in Seq(Command), queue # <<>>, queue' = Tail(queue)
  PROVE  /\ Len(queue') = Len(queue) - 1 /\ Len(queue) \in Nat \ {0}
         /\ queue[1] = Head(queue)
         /\ \A i \in 1..Len(queue') : queue'[i] = queue[i + 1]
         /\ \A op, c : Queued(op, c) <=>
              Queued(op, c)' \/ (Head(queue).op = op /\ Head(queue).conn = c)
<1>1. /\ Len(queue') = Len(queue) - 1 /\ Len(queue) \in Nat \ {0}
      /\ queue[1] = Head(queue)
      /\ \A i \in 1..Len(queue') : queue'[i] = queue[i + 1]
  OBVIOUS
<1>2. ASSUME NEW op, NEW c, Queued(op, c)
      PROVE  Queued(op, c)' \/ (Head(queue).op = op /\ Head(queue).conn = c)
  <2>1. PICK i \in 1..Len(queue) : queue[i].op = op /\ queue[i].conn = c
    BY <1>2 DEF Queued
  <2>2. CASE i = 1
    BY <1>1, <2>1, <2>2
  <2>3. CASE i # 1
    <3>1. i - 1 \in 1..Len(queue') /\ queue'[i - 1] = queue[i]
      BY <1>1, <2>3
    <3>2. QED
      BY <2>1, <3>1 DEF Queued
  <2>4. QED
    BY <2>2, <2>3
<1>3. ASSUME NEW op, NEW c,
             Queued(op, c)' \/ (Head(queue).op = op /\ Head(queue).conn = c)
      PROVE  Queued(op, c)
  <2>1. CASE Queued(op, c)'
    <3>1. PICK i \in 1..Len(queue') : queue'[i].op = op /\ queue'[i].conn = c
      BY <2>1 DEF Queued
    <3>2. i + 1 \in 1..Len(queue) /\ queue[i + 1] = queue'[i]
      BY <1>1
    <3>3. QED
      BY <3>1, <3>2 DEF Queued
  <2>2. CASE Head(queue).op = op /\ Head(queue).conn = c
    BY <1>1, <2>2 DEF Queued
  <2>3. QED
    BY <1>3, <2>1, <2>2
<1>4. QED
  BY <1>1, <1>2, <1>3
\* The other changes of the channel.
LEMMA QueuedSame ==
  /\ queue' = queue => \A op, c : Queued(op, c)' <=> Queued(op, c)
  /\ queue' = <<>> => \A op, c : ~Queued(op, c)'
BY DEF Queued

-----------------------------------------------------------------------------
(* What a step may do *)

\* Steps that leave connections, flags, channel and table alone.
Quiet ==
  \/ \E k \in Keys : Service(k)
  \/ ServiceDone \/ ExpireDone \/ Wait \/ DrainEmpty \/ JoinThread
  \/ Finished \/ UNCHANGED vars

LEMMA QuietFrame ==
  ASSUME Shape, Quiet
  PROVE  /\ UNCHANGED <<pc, flag, queue, table, cur, onClose, closedBy, released, reused, open_count, wanted, setting>>
         /\ Alive' = Alive
         /\ worker' \in {"expireDec", "onClose"} <=> worker \in {"expireDec", "onClose"}
BY DEF Quiet, Service, ServiceTimedOut, ServiceNoSend, ServiceSend, ServiceDone,
       ExpireDone, Wait, DrainEmpty, JoinThread, Finished, vars, Alive,
       appVars, flagVars, workerVars, histVars

\* The calls of the application before and after the connection's life on the
\* IO thread; they leave the channel alone.
Calls(c) ==
  \/ ForwardOpenRefused(c) \/ ForwardOpenAccepted(c) \/ ForwardOpenReplyLost(c)
  \/ ForwardOpenReply(c) \/ ForwardClose(c) \/ ForwardCloseLate(c)
  \/ ForwardCloseDec(c) \/ ForwardCloseRequest(c)

\* The steps, by what they do to the channel.
LEMMA NextKinds ==
  ASSUME [Next]_vars
  PROVE  \/ Quiet
         \/ \E c \in Conns : Calls(c)
         \/ \E c \in Conns : ForwardOpenAdd(c) \/ ForwardCloseRemove(c)
         \/ \E c \in Conns, f \in Fields : Set(c, f)
         \/ DropManager
         \/ DrainAdd \/ DrainDuplicate \/ DrainRemove \/ DrainSet
         \/ DuplicateDec \/ ExpireDec \/ OnClose \/ \E k \in Keys : Expire(k)
         \/ DrainShutdown \/ CallbackPanic
BY DEF Next, AppStep, WorkerStep, SetOutput, SetRun, Fields, Quiet, Calls

\* CloserInv is kept.
LEMMA StepCloser == Shape /\ CloserInv /\ [Next]_vars => CloserInv'
<1> SUFFICES ASSUME Shape, CloserInv, [Next]_vars PROVE CloserInv'
  OBVIOUS
<1> USE DEF CloserInv, Shape, Domains, FlagInv, Handled
<1>1. CASE Quiet
  BY <1>1, QuietFrame
<1>2. ASSUME NEW c \in Conns, Calls(c) PROVE CloserInv'
  BY SMTT(60), <1>2 DEF Calls, ForwardOpenRefused, ForwardOpenAccepted, ForwardOpenReplyLost,
     ForwardOpenReply, ForwardClose, ForwardCloseLate, ForwardCloseDec, ForwardCloseRequest,
     Goto, Swap, histVars, flagVars
<1>3. ASSUME NEW c \in Conns, ForwardOpenAdd(c) \/ ForwardCloseRemove(c) PROVE CloserInv'
  BY <1>3 DEF ForwardOpenAdd, ForwardCloseRemove, Goto, histVars, flagVars
<1>4. ASSUME NEW c \in Conns, NEW f \in Fields, Set(c, f) PROVE CloserInv'
  BY <1>4 DEF Set, appVars, flagVars
<1>5. CASE DropManager
  BY SMTT(60), <1>5 DEF DropManager, histVars, flagVars
<1>6. CASE DrainAdd \/ DrainRemove \/ DrainSet \/ DuplicateDec \/ ExpireDec \/ OnClose
           \/ DrainShutdown \/ CallbackPanic
  BY <1>6 DEF DrainAdd, DrainRemove, DrainSet, DuplicateDec, ExpireDec, OnClose, DrainShutdown,
     CallbackPanic, Stop, appVars, flagVars, histVars
<1>7. CASE DrainDuplicate
  <2> DEFINE c == Head(queue).conn
  <2>1. c \in Conns /\ pc' = pc
    BY <1>7, HeadOfQueue DEF DrainDuplicate, Receive, appVars
  <2>2. CASE Swap(c, "duplicate")
    BY <2>1, <2>2 DEF Swap
  <2>3. CASE UNCHANGED <<flag, closedBy>>
    BY <2>1, <2>3
  <2> QED
    BY <1>7, <2>2, <2>3 DEF DrainDuplicate
<1>8. ASSUME NEW k \in Keys, Expire(k) PROVE CloserInv'
  BY <1>8 DEF Expire, Swap, appVars, PhaseInv
<1>9. QED
  BY <1>1, <1>2, <1>3, <1>4, <1>5, <1>6, <1>7, <1>8, NextKinds

\* No thread goes back before the return of forward_open, or takes back the
\* Remove of its forward_close.
LEMMA Progress ==
  ASSUME Shape, CloserInv, [Next]_vars
  PROVE  \A c \in Conns : /\ pc'[c] \in Opening => pc[c] \in Opening
                          /\ pc[c] \in Handled => pc'[c] \in Handled
                          /\ RemoveSent(c) => RemoveSent(c)'
<1> USE DEF CloserInv, Shape, Domains, FlagInv, Opening, Handled, RemoveSent
<1> DEFINE Goal == \A c \in Conns : /\ pc'[c] \in Opening => pc[c] \in Opening
                                    /\ pc[c] \in Handled => pc'[c] \in Handled
                                    /\ RemoveSent(c) => RemoveSent(c)'
<1>1. CASE Quiet
  BY <1>1, QuietFrame
<1>2. ASSUME NEW c \in Conns, Calls(c) PROVE Goal
  BY <1>2 DEF Calls, ForwardOpenRefused, ForwardOpenAccepted, ForwardOpenReplyLost,
     ForwardOpenReply, ForwardClose, ForwardCloseLate, ForwardCloseDec, ForwardCloseRequest,
     Goto, Swap, histVars, flagVars
<1>3. ASSUME NEW c \in Conns, ForwardOpenAdd(c) \/ ForwardCloseRemove(c) PROVE Goal
  BY SMTT(60), <1>3 DEF ForwardOpenAdd, ForwardCloseRemove, Goto, histVars, flagVars
<1>4. ASSUME NEW c \in Conns, NEW f \in Fields, Set(c, f) PROVE Goal
  BY <1>4 DEF Set, appVars, flagVars
<1>5. CASE DropManager
  BY <1>5 DEF DropManager, histVars, flagVars
<1>6. CASE DrainAdd \/ DrainRemove \/ DrainSet \/ DuplicateDec \/ ExpireDec \/ OnClose
           \/ DrainShutdown \/ CallbackPanic
  BY <1>6 DEF DrainAdd, DrainRemove, DrainSet, DuplicateDec, ExpireDec, OnClose, DrainShutdown,
     CallbackPanic, Stop, appVars, flagVars, histVars
<1>7. CASE DrainDuplicate
  BY SMTT(60), <1>7, HeadOfQueue DEF DrainDuplicate, Receive, Swap, appVars
<1>8. ASSUME NEW k \in Keys, Expire(k) PROVE Goal
  BY <1>8 DEF Expire, Swap, appVars, PhaseInv
<1>9. QED
  BY <1>1, <1>2, <1>3, <1>4, <1>5, <1>6, <1>7, <1>8, NextKinds

\* What a step may do to the channel: nothing, end it, take the head, or
\* append a command; forward_open sends Add, forward_close Remove, set_output
\* and set_run Set.
LEMMA QueueChange ==
  ASSUME Shape, CloserInv, [Next]_vars
  PROVE  \/ queue' = queue
         \/ queue' = <<>> /\ ~Alive'
         \/ /\ worker = "drain" /\ queue # <<>> /\ queue' = Tail(queue)
            /\ Head(queue).op = "Set" => DrainSet
         \/ \E m \in Command :
              /\ Send(m)
              /\ m.op = "Add" => pc[m.conn] = "add" /\ pc'[m.conn] = "open"
              /\ m.op = "Remove" => pc[m.conn] = "closeRemove" /\ RemoveSent(m.conn)'
              /\ m.op = "Set" => Set(m.conn, m.field) /\ m.val = wanted[m.conn][m.field] + 1
<1> DEFINE Sends ==
      \E m \in Command :
        /\ Send(m)
        /\ m.op = "Add" => pc[m.conn] = "add" /\ pc'[m.conn] = "open"
        /\ m.op = "Remove" => pc[m.conn] = "closeRemove" /\ RemoveSent(m.conn)'
        /\ m.op = "Set" => Set(m.conn, m.field) /\ m.val = wanted[m.conn][m.field] + 1
<1>1. CASE Quiet
  BY <1>1, QuietFrame
<1>2. ASSUME NEW c \in Conns, Calls(c) PROVE queue' = queue
  BY <1>2 DEF Calls, ForwardOpenRefused, ForwardOpenAccepted, ForwardOpenReplyLost,
     ForwardOpenReply, ForwardClose, ForwardCloseLate, ForwardCloseDec, ForwardCloseRequest
<1>3. ASSUME NEW c \in Conns, ForwardOpenAdd(c) PROVE queue' = queue \/ Sends
  <2>1. CASE UNCHANGED queue
    BY <2>1
  <2>2. CASE Send(Cmd("Add", c)) /\ Goto(c, "open")
    <3>1. /\ Cmd("Add", c) \in Command
          /\ Cmd("Add", c).op = "Add" /\ Cmd("Add", c).conn = c
      BY CommandTypes DEF Cmd
    <3>2. pc[c] = "add" /\ pc'[c] = "open"
      BY <1>3, <2>2 DEF ForwardOpenAdd, Goto, Shape, Domains
    <3>3. QED
      BY <2>2, <3>1, <3>2
  <2>3. QED
    BY <1>3, <2>1, <2>2 DEF ForwardOpenAdd
<1>4. ASSUME NEW c \in Conns, ForwardCloseRemove(c) PROVE queue' = queue \/ Sends
  <2>1. CASE UNCHANGED queue
    BY <2>1
  <2>2. CASE Send(Cmd("Remove", c)) /\ Goto(c, "closeRequest")
    <3>1. /\ Cmd("Remove", c) \in Command
          /\ Cmd("Remove", c).op = "Remove" /\ Cmd("Remove", c).conn = c
      BY CommandTypes DEF Cmd
    <3>2. pc[c] = "closeRemove" /\ RemoveSent(c)'
      BY <1>4, <2>2 DEF ForwardCloseRemove, Goto, Shape, Domains, CloserInv, RemoveSent,
         histVars
    <3>3. QED
      BY <2>2, <3>1, <3>2
  <2>3. QED
    BY <1>4, <2>1, <2>2 DEF ForwardCloseRemove
<1>5. ASSUME NEW c \in Conns, NEW f \in Fields, Set(c, f) PROVE Sends
  <2> DEFINE m == [op |-> "Set", conn |-> c, field |-> f, val |-> wanted[c][f] + 1]
  <2>1. wanted[c][f] + 1 \in Nat
    BY DEF Shape, Domains, Settings
  <2>2. m \in Command /\ m.op = "Set"
    BY <2>1, CommandTypes
  <2>3. Send(m)
    BY <1>5 DEF Set
  <2>4. QED
    BY <1>5, <2>2, <2>3
<1>6. CASE DropManager
  <2>1. CASE UNCHANGED queue
    BY <2>1
  <2>2. CASE Send(Cmd("Shutdown", NoConn))
    <3>1. Cmd("Shutdown", NoConn) \in Command /\ Cmd("Shutdown", NoConn).op = "Shutdown"
      BY SMTT(60), CommandTypes DEF Cmd
    <3>2. QED
      BY <2>2, <3>1
  <2>3. QED
    BY <1>6, <2>1, <2>2 DEF DropManager
<1>7. CASE DrainAdd \/ DrainRemove \/ DrainSet \/ DrainDuplicate
  BY ZenonT(60), <1>7 DEF DrainAdd, DrainRemove, DrainSet, DrainDuplicate, Receive
<1>8. CASE DuplicateDec \/ ExpireDec \/ OnClose
  BY <1>8 DEF DuplicateDec, ExpireDec, OnClose
<1>9. ASSUME NEW k \in Keys, Expire(k) PROVE queue' = queue
  BY <1>9 DEF Expire
<1>10. CASE DrainShutdown \/ CallbackPanic
  BY <1>10 DEF DrainShutdown, CallbackPanic, Stop, Alive
<1>11. QED
  BY <1>1, <1>2, <1>3, <1>4, <1>5, <1>6, <1>7, <1>8, <1>9, <1>10, NextKinds

\* QueueInv is kept.
LEMMA StepQueue == Shape /\ CloserInv /\ QueueInv /\ [Next]_vars => QueueInv'
<1> SUFFICES ASSUME Shape, CloserInv, QueueInv, [Next]_vars PROVE QueueInv'
  OBVIOUS
<1>1. queue \in Seq(Command) /\ Len(queue) \in Nat
  BY DEF Shape, Domains
<1>2. \A i \in 1..Len(queue) : queue[i].op \in {"Add", "Remove"} => queue[i].conn \in Conns
  BY <1>1 DEF Command, Cmd
<1>3. CASE queue' = queue
  BY <1>2, <1>3, Progress DEF QueueInv
<1>4. CASE queue' = <<>>
  BY <1>4 DEF QueueInv
<1>5. CASE queue # <<>> /\ queue' = Tail(queue)
  <2>1. \A i \in 1..Len(queue') : i + 1 \in 1..Len(queue) /\ queue'[i] = queue[i + 1]
    BY <1>1, <1>5, Received
  <2>2. Len(queue') \in Nat
    BY <1>1, <1>5, Received
  <2>3. SUFFICES ASSUME NEW i \in 1..Len(queue')
        PROVE  /\ queue'[i].op = "Add" => pc'[queue'[i].conn] \in Handled
               /\ queue'[i].op = "Remove" =>
                    \E c \in Conns : queue'[i].conn = c /\ RemoveSent(c)'
               /\ \A j \in 1..Len(queue') :
                    queue'[i].conn = queue'[j].conn /\ queue'[i].op = "Add" =>
                      /\ queue'[j].op = "Add" => i = j
                      /\ queue'[j].op = "Remove" => i < j
    BY DEF QueueInv, RemoveSent
  <2>4. /\ queue'[i].op = "Add" => pc'[queue'[i].conn] \in Handled
        /\ queue'[i].op = "Remove" =>
             \E c \in Conns : queue'[i].conn = c /\ RemoveSent(c)'
    BY <1>2, <2>1, Progress DEF QueueInv
  <2>5. ASSUME NEW j \in 1..Len(queue'),
               queue'[i].conn = queue'[j].conn /\ queue'[i].op = "Add"
        PROVE  /\ queue'[j].op = "Add" => i = j
               /\ queue'[j].op = "Remove" => i < j
    <3>1. /\ i + 1 \in 1..Len(queue) /\ queue'[i] = queue[i + 1]
          /\ j + 1 \in 1..Len(queue) /\ queue'[j] = queue[j + 1]
      BY <2>1
    <3>2. /\ queue[j + 1].op = "Add" => i + 1 = j + 1
          /\ queue[j + 1].op = "Remove" => i + 1 < j + 1
      BY <2>5, <3>1 DEF QueueInv
    <3>3. QED
      BY <2>2, <3>1, <3>2
  <2>6. QED
    BY <2>4, <2>5
<1>6. ASSUME NEW m \in Command, Send(m),
             m.op = "Add" => pc[m.conn] = "add" /\ pc'[m.conn] = "open",
             m.op = "Remove" => pc[m.conn] = "closeRemove" /\ RemoveSent(m.conn)'
      PROVE  QueueInv'
  <2> DEFINE n == Len(queue)
  <2>1. /\ Len(queue') = n + 1
        /\ \A i \in 1..n : queue'[i] = queue[i]
        /\ queue'[n + 1] = m
    BY <1>1, <1>6, Appended
  <2>2. \A i \in 1..n : /\ queue[i].op = "Add" => pc'[queue[i].conn] \in Handled
                        /\ queue[i].op = "Remove" =>
                             \E c \in Conns : queue[i].conn = c /\ RemoveSent(c)'
    BY <1>2, Progress DEF QueueInv
  <2>3. m.op = "Add" => \A i \in 1..n :
          queue[i].conn = m.conn => queue[i].op \notin {"Add", "Remove"}
    BY <1>6 DEF QueueInv, Handled, RemoveSent
  <2>4. \A i \in 1..n, j \in 1..n :
          queue[i].conn = queue[j].conn /\ queue[i].op = "Add" =>
            /\ queue[j].op = "Add" => i = j
            /\ queue[j].op = "Remove" => i < j
    BY DEF QueueInv
  <2>5. \A i \in 1..(n + 1) : i \in 1..n \/ i = n + 1
    BY <1>1
  <2>6. \A i \in 1..(n + 1) :
          /\ queue'[i].op = "Add" => pc'[queue'[i].conn] \in Handled
          /\ queue'[i].op = "Remove" =>
               \E c \in Conns : queue'[i].conn = c /\ RemoveSent(c)'
    <3>1. m.op \in {"Add", "Remove"} => m.conn \in Conns
      BY DEF Command, Cmd
    <3>2. QED
      BY <1>6, <2>1, <2>2, <2>5, <3>1 DEF Handled
  <2>7. ASSUME NEW i \in 1..(n + 1), NEW j \in 1..(n + 1),
               queue'[i].conn = queue'[j].conn, queue'[i].op = "Add"
        PROVE  /\ queue'[j].op = "Add" => i = j
               /\ queue'[j].op = "Remove" => i < j
    <3>1. CASE i \in 1..n /\ j \in 1..n
      BY <2>1, <2>4, <2>7, <3>1
    <3>2. CASE i \in 1..n /\ j = n + 1
      BY <1>1, <2>1, <2>3, <2>7, <3>2
    <3>3. CASE i = n + 1
      BY <1>1, <2>1, <2>3, <2>5, <2>7, <3>3
    <3>4. QED
      BY <2>5, <3>1, <3>2, <3>3
  <2>8. QED
    BY <2>1, <2>6, <2>7 DEF QueueInv, RemoveSent
<1>7. QED
  BY <1>3, <1>4, <1>5, <1>6, QueueChange

-----------------------------------------------------------------------------
(* Where a connection is *)

\* No step makes the Add of a connection pending again.
LEMMA PendingStep ==
  ASSUME Shape, CloserInv, [Next]_vars
  PROVE  \A c \in Conns : Pending(c)' => Pending(c)
<1>1. SUFFICES ASSUME NEW c \in Conns, Queued("Add", c)', pc[c] \notin Opening
               PROVE  Queued("Add", c)
  BY Progress DEF Pending
<1>2. queue \in Seq(Command)
  BY DEF Shape, Domains
<1>3. CASE queue' = queue \/ queue' = <<>>
  BY <1>1, <1>3, QueuedSame
<1>4. CASE queue # <<>> /\ queue' = Tail(queue)
  BY <1>1, <1>2, <1>4, Received
<1>5. ASSUME NEW m \in Command, Send(m), m.op = "Add" => pc[m.conn] = "add"
      PROVE  Queued("Add", c)
  BY <1>1, <1>2, <1>5, Appended DEF Opening
<1>6. QED
  BY <1>3, <1>4, <1>5, QueueChange

\* Once the IO thread has taken the Add of c, c is not pending.
LEMMA AddTaken ==
  ASSUME Shape, QueueInv, Receive("Add"), UNCHANGED pc,
         NEW c \in Conns, c = Head(queue).conn
  PROVE  Pending(c) /\ ~Pending(c)' /\ pc[c] \in Handled
<1>1. /\ queue \in Seq(Command) /\ queue # <<>> /\ queue' = Tail(queue)
      /\ Head(queue).op = "Add"
  BY DEF Shape, Domains, Receive
<1>2. /\ Len(queue') = Len(queue) - 1 /\ Len(queue) \in Nat \ {0}
      /\ queue[1] = Head(queue)
      /\ \A i \in 1..Len(queue') : queue'[i] = queue[i + 1]
  BY <1>1, Received
<1>4. 1 \in 1..Len(queue) /\ queue[1].op = "Add" /\ queue[1].conn = c
  BY <1>1, <1>2
<1>5. Queued("Add", c) /\ pc[c] \in Handled
  BY <1>4 DEF Queued, QueueInv
<1>6. ASSUME NEW i \in 1..Len(queue'), queue'[i].op = "Add", queue'[i].conn = c
      PROVE  FALSE
  <2>1. i + 1 \in 1..Len(queue) /\ i + 1 # 1 /\ queue[i + 1] = queue'[i]
    BY <1>2
  <2>2. QED
    BY <1>4, <1>6, <2>1 DEF QueueInv
<1>7. ~Queued("Add", c)'
  BY <1>6 DEF Queued
<1>8. QED
  BY <1>5, <1>7 DEF Pending, Handled, Opening

\* Calls of the application, as the IO thread sees them.
LEMMA AppFrame ==
  ASSUME Shape, [Next]_vars,
         \/ \E c \in Conns : Calls(c)
         \/ \E c \in Conns : ForwardOpenAdd(c) \/ ForwardCloseRemove(c)
         \/ \E c \in Conns, f \in Fields : Set(c, f)
         \/ DropManager
  PROVE  /\ UNCHANGED <<table, cur, worker, todo, expired, setting, onClose>>
         /\ \A c \in Conns : closedBy'[c] \in {closedBy[c], "user"}
<1>1. ASSUME NEW c \in Conns, Calls(c)
      PROVE  /\ UNCHANGED <<table, cur, worker, todo, expired, setting, onClose>>
             /\ \A d \in Conns : closedBy'[d] \in {closedBy[d], "user"}
  BY <1>1 DEF Calls, ForwardOpenRefused, ForwardOpenAccepted, ForwardOpenReplyLost,
     ForwardOpenReply, ForwardClose, ForwardCloseLate, ForwardCloseDec, ForwardCloseRequest,
     Swap, histVars, workerVars, Shape, Domains
<1>2. QED
  BY <1>1 DEF ForwardOpenAdd, ForwardCloseRemove, Set, DropManager, histVars, workerVars

\* PlaceInv is kept.
LEMMA StepPlace ==
  Shape /\ CloserInv /\ QueueInv /\ PlaceInv /\ [Next]_vars => PlaceInv'
<1> SUFFICES ASSUME Shape, CloserInv, QueueInv, PlaceInv, [Next]_vars PROVE PlaceInv'
  OBVIOUS
<1> DEFINE Placed(c) ==
      /\ Pending(c) \/ InTable(c)
           => cur # c /\ onClose[c] = 0 /\ closedBy[c] \in {"nobody", "user"}
      /\ InTable(c) => ~Pending(c) /\ pc[c] \in Handled
<1> DEFINE TableOk ==
      /\ \A k \in Keys : table[k] # NoConn => KeyOf[table[k]] = k
      /\ ~Alive => queue = <<>> /\ \A k \in Keys : table[k] = NoConn
<1>1. PlaceInv' <=> TableOk' /\ \A c \in Conns : Placed(c)'
  BY DEF PlaceInv
<1>2. \A c \in Conns : Placed(c)
  BY DEF PlaceInv
<1>3. TableOk
  BY DEF PlaceInv
<1> HIDE DEF Placed, TableOk
<1>4. \A c \in Conns : /\ Pending(c)' => Pending(c)
                       /\ pc[c] \in Handled => pc'[c] \in Handled
  BY PendingStep, Progress
<1>5. ASSUME UNCHANGED <<table, cur, onClose>>,
             \A c \in Conns : closedBy'[c] \in {closedBy[c], "user"}
      PROVE  \A c \in Conns : Placed(c)'
  BY <1>2, <1>4, <1>5 DEF Placed, InTable
<1>6. ASSUME UNCHANGED table, Alive' = Alive, ~Alive => queue' = queue
      PROVE  TableOk'
  BY <1>3, <1>6 DEF TableOk
<1>7. ASSUME ~Alive PROVE queue' = queue \/ queue' = <<>>
  BY <1>7, QueueChange DEF Send, Alive
<1>8. CASE Quiet
  BY <1>1, <1>5, <1>6, <1>8, QuietFrame
<1>9. CASE \/ \E c \in Conns : Calls(c)
           \/ \E c \in Conns : ForwardOpenAdd(c) \/ ForwardCloseRemove(c)
           \/ \E c \in Conns, f \in Fields : Set(c, f)
           \/ DropManager
  <2>1. /\ UNCHANGED <<table, cur, worker, onClose>>
        /\ \A c \in Conns : closedBy'[c] \in {closedBy[c], "user"}
    BY <1>9, AppFrame
  <2>2. Alive' = Alive /\ (~Alive => queue' = queue)
    BY <1>3, <1>7, <2>1 DEF TableOk, Alive
  <2>3. QED
    BY <1>1, <1>5, <1>6, <2>1, <2>2
<1>10. CASE DrainAdd
  <2>0. PICK c \in Conns : c = Head(queue).conn
    BY <1>10, HeadOfQueue DEF DrainAdd, Receive, Shape, Domains
  <2>1. /\ ~Pending(c)' /\ Pending(c) /\ pc[c] \in Handled
        /\ worker' # "stopped" /\ table' = [table EXCEPT ![KeyOf[c]] = c]
        /\ UNCHANGED <<pc, cur, onClose, closedBy>>
    BY <1>10, <2>0, AddTaken DEF DrainAdd, Receive, appVars, histVars
  <2>2. TableOk'
    BY <1>3, <2>1 DEF TableOk, Alive, Shape, Domains
  <2>3. ASSUME NEW d \in Conns, d # c PROVE Placed(d)'
    <3>1. InTable(d)' => InTable(d)
      BY <2>1, <2>3 DEF InTable, Shape, Domains
    <3>2. QED
      BY <1>2, <1>4, <2>1, <3>1 DEF Placed
  <2>4. Placed(c)'
    BY <1>2, <2>1 DEF Placed
  <2>5. QED
    BY <1>1, <2>2, <2>3, <2>4
<1>11. CASE DrainRemove
  <2>1. /\ Head(queue).conn \in Conns /\ worker' # "stopped"
        /\ table' = [table EXCEPT ![KeyOf[Head(queue).conn]] = NoConn]
        /\ UNCHANGED <<pc, cur, onClose, closedBy>>
    BY <1>11, HeadOfQueue DEF DrainRemove, Receive, appVars, histVars, Shape, Domains
  <2>2. TableOk'
    BY <1>3, <2>1 DEF TableOk, Alive, Shape, Domains
  <2>3. \A d \in Conns : InTable(d)' => InTable(d)
    BY <2>1 DEF InTable, Shape, Domains
  <2>4. QED
    BY <1>1, <1>2, <1>4, <2>1, <2>2, <2>3 DEF Placed
<1>12. CASE DrainSet \/ DuplicateDec \/ ExpireDec
  <2>1. /\ worker # "stopped" /\ worker' # "stopped" /\ UNCHANGED <<table, onClose, closedBy, pc>>
        /\ \A c \in Conns : cur # c => cur' # c
    BY <1>12 DEF DrainSet, Receive, DuplicateDec, ExpireDec, appVars, histVars
  <2>2. TableOk'
    BY <1>6, <2>1 DEF Alive
  <2>3. QED
    BY <1>1, <1>2, <1>4, <2>1, <2>2 DEF Placed, InTable
<1>13. CASE DrainDuplicate
  <2>0. PICK c \in Conns : c = Head(queue).conn
    BY <1>13, HeadOfQueue DEF DrainDuplicate, Receive, Shape, Domains
  <2>1. /\ ~Pending(c)' /\ Pending(c)
        /\ worker # "stopped" /\ worker' # "stopped"
        /\ cur' \in {cur, c} /\ \A d \in Conns : d # c => closedBy'[d] = closedBy[d]
        /\ UNCHANGED <<pc, table, onClose>>
    BY <1>13, <2>0, AddTaken DEF DrainDuplicate, Receive, Swap, appVars, Shape, Domains
  <2>2. TableOk'
    BY <1>6, <2>1 DEF Alive
  <2>3. ASSUME NEW d \in Conns, d # c PROVE Placed(d)'
    BY <1>2, <1>4, <2>1, <2>3 DEF Placed, InTable
  <2>4. Placed(c)'
    BY <1>2, <2>1 DEF Placed, InTable
  <2>5. QED
    BY <1>1, <2>2, <2>3, <2>4
<1>14. CASE OnClose
  <2>1. /\ worker # "stopped" /\ worker' # "stopped" /\ UNCHANGED <<pc, table, closedBy>>
        /\ cur' = NoConn /\ \A d \in Conns : d # cur => onClose'[d] = onClose[d]
    BY <1>14 DEF OnClose, appVars, Shape, Domains
  <2>2. TableOk'
    BY <1>6, <2>1 DEF Alive
  <2>3. ASSUME NEW d \in Conns PROVE Placed(d)'
    <3>1. CASE d = cur
      <4>1. ~Pending(d)' /\ ~InTable(d)'
        BY <1>2, <1>4, <2>1, <3>1 DEF Placed, InTable
      <4>2. QED
        BY <4>1 DEF Placed
    <3>2. CASE d # cur
      BY <1>2, <1>4, <2>1, <2>3, <3>2 DEF Placed, InTable
    <3>3. QED
      BY <3>1, <3>2
  <2>4. QED
    BY <1>1, <2>2, <2>3
<1>15. ASSUME NEW k \in Keys, Expire(k) PROVE PlaceInv'
  <2> DEFINE c == table[k]
  <2>1. /\ c \in Conns /\ KeyOf[c] = k /\ worker # "stopped" /\ worker' # "stopped"
        /\ table' = [table EXCEPT ![k] = NoConn] /\ cur' = c
        /\ \A d \in Conns : d # c => closedBy'[d] = closedBy[d]
        /\ UNCHANGED <<pc, onClose>>
    BY <1>3, <1>15 DEF Expire, Swap, appVars, Shape, Domains, PhaseInv, TableOk
  <2> HIDE DEF c
  <2>2. InTable(c)
    BY <2>1 DEF InTable, c
  <2>3. TableOk'
    BY <1>3, <2>1 DEF TableOk, Alive, Shape, Domains
  <2>4. ASSUME NEW d \in Conns PROVE Placed(d)'
    <3>1. CASE d = c
      <4>1. ~Pending(d)' /\ ~InTable(d)'
        BY <1>2, <1>4, <2>1, <2>2, <3>1 DEF Placed, InTable, Shape, Domains
      <4>2. QED
        BY <4>1 DEF Placed
    <3>2. CASE d # c
      <4>1. InTable(d)' => InTable(d)
        BY <2>1 DEF InTable, Shape, Domains
      <4>2. QED
        BY <1>2, <1>4, <2>1, <2>4, <3>2, <4>1 DEF Placed
    <3>3. QED
      BY <3>1, <3>2
  <2>5. QED
    BY <1>1, <2>3, <2>4
<1>16. CASE DrainShutdown \/ CallbackPanic
  <2>1. /\ queue' = <<>> /\ table' = [k \in Keys |-> NoConn] /\ cur' = NoConn
        /\ UNCHANGED <<onClose, closedBy>>
    BY <1>16 DEF DrainShutdown, CallbackPanic, Stop, histVars
  <2>2. TableOk'
    BY <2>1 DEF TableOk
  <2>3. \A d \in Conns : ~InTable(d)'
    BY <2>1 DEF InTable
  <2>4. QED
    BY <1>1, <1>2, <1>4, <2>1, <2>2, <2>3 DEF Placed
<1>17. QED
  BY <1>8, <1>9, <1>10, <1>11, <1>12, <1>13, <1>14, <1>15, <1>16, NextKinds

\* ReportInv is kept.
LEMMA StepReport ==
  Shape /\ CloserInv /\ QueueInv /\ PlaceInv /\ ReportInv /\ [Next]_vars => ReportInv'
<1> SUFFICES ASSUME Shape, CloserInv, QueueInv, PlaceInv, ReportInv, [Next]_vars
             PROVE  ReportInv'
  OBVIOUS
<1> USE DEF ReportInv
<1>1. CASE Quiet
  BY <1>1, QuietFrame
<1>2. CASE \/ \E c \in Conns : Calls(c)
           \/ \E c \in Conns : ForwardOpenAdd(c) \/ ForwardCloseRemove(c)
           \/ \E c \in Conns, f \in Fields : Set(c, f)
           \/ DropManager
  <2>1. /\ UNCHANGED <<cur, worker, onClose>>
        /\ \A c \in Conns : closedBy'[c] \in {closedBy[c], "user"}
    BY SMTT(60), <1>2, AppFrame
  <2>2. worker \in {"expireDec", "onClose"} => cur \in Conns
    BY SMTT(60) DEF Shape, PhaseInv
  <2>3. QED
    BY SMTT(60), <2>1, <2>2
<1>3. CASE DrainAdd \/ DrainRemove \/ DrainSet
  BY <1>3 DEF DrainAdd, DrainRemove, DrainSet, histVars
<1>4. CASE DrainDuplicate
  <2>1. PICK c \in Conns : c = Head(queue).conn
    BY <1>4, HeadOfQueue DEF DrainDuplicate, Receive, Shape, Domains
  <2>2. onClose[c] = 0
    BY <1>4, <2>1, AddTaken DEF DrainDuplicate, appVars, PlaceInv
  <2>3. /\ cur' \in {cur, c} /\ UNCHANGED onClose
        /\ \A d \in Conns : d # c => closedBy'[d] = closedBy[d]
        /\ worker' \notin {"expireDec", "onClose"}
    BY <1>4, <2>1 DEF DrainDuplicate, Receive, Swap, Shape, Domains
  <2>4. QED
    BY <2>2, <2>3
<1>5. CASE DuplicateDec \/ ExpireDec
  BY <1>5 DEF DuplicateDec, ExpireDec, histVars
<1>6. CASE OnClose
  <2>1. cur \in Conns /\ onClose[cur] = 0 /\ closedBy[cur] \in {"timeout", "user"}
    BY <1>6 DEF OnClose, Shape, Domains, PhaseInv
  <2>2. /\ onClose' = [onClose EXCEPT ![cur] = @ + 1] /\ cur' = NoConn
        /\ UNCHANGED closedBy /\ worker' = "expire"
    BY <1>6 DEF OnClose
  <2>3. QED
    BY <2>1, <2>2 DEF Shape, Domains
<1>7. ASSUME NEW k \in Keys, Expire(k) PROVE ReportInv'
  <2>1. PICK c \in Conns : c = table[k]
    BY <1>7 DEF Expire, Shape, PhaseInv
  <2>2. onClose[c] = 0 /\ closedBy[c] \in {"nobody", "user"} /\ flag[c] # "unborn"
    BY <2>1 DEF PlaceInv, CloserInv, InTable
  <2>3. closedBy'[c] \in {"timeout", "user"}
    BY <1>7, <2>1, <2>2 DEF Expire, Swap, Shape, Domains, CloserInv
  <2>4. /\ cur' = c /\ UNCHANGED onClose
        /\ \A d \in Conns : d # c => closedBy'[d] = closedBy[d]
    BY <1>7, <2>1 DEF Expire, Swap, Shape, Domains
  <2>5. QED
    BY <2>2, <2>3, <2>4
<1>8. CASE DrainShutdown \/ CallbackPanic
  BY <1>8 DEF DrainShutdown, CallbackPanic, Stop, histVars
<1>9. QED
  BY <1>1, <1>2, <1>3, <1>4, <1>5, <1>6, <1>7, <1>8, NextKinds

\* Only Add brings a connection into the table.
LEMMA TableStep ==
  ASSUME Shape, [Next]_vars
  PROVE  \A c \in Conns :
           InTable(c)' => \/ InTable(c)
                          \/ DrainAdd /\ c = Head(queue).conn
<1> DEFINE Kept == \A c \in Conns : InTable(c)' => InTable(c)
<1>1. ASSUME UNCHANGED table PROVE Kept
  BY <1>1 DEF InTable
<1>2. ASSUME NEW k, table' = [table EXCEPT ![k] = NoConn] PROVE Kept
  BY <1>2 DEF InTable, Shape, Domains
<1>3. CASE Quiet
  BY <1>1, <1>3, QuietFrame
<1>4. CASE \/ \E c \in Conns : Calls(c)
           \/ \E c \in Conns : ForwardOpenAdd(c) \/ ForwardCloseRemove(c)
           \/ \E c \in Conns, f \in Fields : Set(c, f)
           \/ DropManager
  BY SMTT(60), <1>1, <1>4, AppFrame
<1>5. CASE DrainSet \/ DrainDuplicate \/ DuplicateDec \/ ExpireDec \/ OnClose
  BY <1>1, <1>5 DEF DrainSet, DrainDuplicate, DuplicateDec, ExpireDec, OnClose
<1>6. CASE DrainRemove
  BY <1>2, <1>6 DEF DrainRemove
<1>7. ASSUME NEW k \in Keys, Expire(k) PROVE Kept
  BY <1>2, <1>7 DEF Expire
<1>8. CASE DrainShutdown \/ CallbackPanic
  BY <1>8 DEF DrainShutdown, CallbackPanic, Stop, InTable
<1>9. CASE DrainAdd
  <2>1. PICK c \in Conns : c = Head(queue).conn
    BY <1>9, HeadOfQueue DEF DrainAdd, Receive, Shape, Domains
  <2>2. table' = [table EXCEPT ![KeyOf[c]] = c]
    BY <1>9, <2>1 DEF DrainAdd
  <2>3. \A d \in Conns : d # c /\ InTable(d)' => InTable(d)
    BY <2>1, <2>2 DEF InTable, Shape, Domains
  <2>4. QED
    BY <1>9, <2>1, <2>3
<1>10. QED
  BY <1>3, <1>4, <1>5, <1>6, <1>7, <1>8, <1>9, NextKinds

\* LeaveInv is kept.
LEMMA StepLeave ==
  Shape /\ CloserInv /\ QueueInv /\ PlaceInv /\ LeaveInv /\ [Next]_vars => LeaveInv'
<1> SUFFICES ASSUME Shape, CloserInv, QueueInv, PlaceInv, LeaveInv, [Next]_vars,
                    NEW c \in Conns, RemoveSent(c)', InTable(c)' \/ Queued("Add", c)'
             PROVE  Queued("Remove", c)'
  BY DEF LeaveInv
<1>1. RemoveSent(c) /\ (InTable(c) \/ Queued("Add", c)) => Queued("Remove", c)
  BY DEF LeaveInv
<1>2. queue \in Seq(Command)
  BY DEF Shape, Domains
<1>3. ASSUME RemoveSent(c), InTable(c)' => InTable(c), queue' = queue
      PROVE  Queued("Remove", c)'
  BY <1>1, <1>3, QueuedSame
<1>4. ASSUME RemoveSent(c), InTable(c)' => InTable(c), NEW m \in Command, Send(m),
             m.op = "Add" => m.conn # c
      PROVE  Queued("Remove", c)'
  BY <1>1, <1>2, <1>4, Appended
<1>5. CASE Quiet
  BY <1>3, <1>5, QuietFrame DEF InTable, RemoveSent
<1>6. ASSUME NEW d \in Conns, Calls(d) PROVE Queued("Remove", c)'
  <2>1. RemoveSent(c) /\ queue' = queue
    BY <1>6 DEF Calls, ForwardOpenRefused, ForwardOpenAccepted, ForwardOpenReplyLost,
       ForwardOpenReply, ForwardClose, ForwardCloseLate, ForwardCloseDec, ForwardCloseRequest,
       Goto, Swap, histVars, Shape, Domains, CloserInv, RemoveSent
  <2>2. UNCHANGED table
    BY <1>6, AppFrame
  <2>3. QED
    BY <1>3, <2>1, <2>2 DEF InTable
<1>7. ASSUME NEW d \in Conns, ForwardOpenAdd(d) PROVE Queued("Remove", c)'
  <2>1. RemoveSent(c) /\ UNCHANGED table /\ c # d
    BY <1>7 DEF ForwardOpenAdd, Goto, histVars, workerVars, Shape, Domains, RemoveSent
  <2>2. CASE UNCHANGED queue
    BY <1>3, <2>1, <2>2 DEF InTable
  <2>3. CASE Send(Cmd("Add", d))
    BY <1>4, <2>1, <2>3, CommandTypes DEF InTable, Cmd
  <2>4. QED
    BY <1>7, <2>2, <2>3 DEF ForwardOpenAdd
<1>8. ASSUME NEW d \in Conns, ForwardCloseRemove(d) PROVE Queued("Remove", c)'
  <2>1. UNCHANGED table /\ (c # d => RemoveSent(c))
    BY <1>8 DEF ForwardCloseRemove, Goto, histVars, workerVars, Shape, Domains, RemoveSent
  <2>2. CASE UNCHANGED queue /\ ~Alive
    <3>1. ~InTable(c) /\ ~Queued("Add", c)
      BY <2>2, QueuedSame DEF PlaceInv, InTable, Queued
    <3>2. QED
      BY <2>1, <2>2, <3>1, QueuedSame DEF InTable
  <2>3. CASE Send(Cmd("Remove", d))
    <3>1. /\ Cmd("Remove", d) \in Command /\ Cmd("Remove", d).op = "Remove"
          /\ Cmd("Remove", d).conn = d
      BY CommandTypes DEF Cmd
    <3>2. CASE c = d
      BY <1>2, <2>3, <3>1, <3>2, Appended
    <3>3. CASE c # d
      BY <1>4, <2>1, <2>3, <3>1, <3>3 DEF InTable
    <3>4. QED
      BY <3>2, <3>3
  <2>4. QED
    BY <1>8, <2>2, <2>3 DEF ForwardCloseRemove
<1>9. ASSUME NEW d \in Conns, NEW f \in Fields, Set(d, f) PROVE Queued("Remove", c)'
  <2>1. RemoveSent(c) /\ UNCHANGED table
    BY <1>9 DEF Set, appVars, workerVars, RemoveSent
  <2>2. wanted[d][f] + 1 \in Nat
    BY SMTT(60) DEF Shape, Domains, Settings
  <2>3. QED
    BY <1>4, <1>9, <2>1, <2>2, CommandTypes DEF Set, InTable
<1>10. CASE DropManager
  <2>1. RemoveSent(c) /\ UNCHANGED table
    BY <1>10 DEF DropManager, histVars, workerVars, RemoveSent
  <2>2. QED
    BY <1>3, <1>4, <1>10, <2>1, CommandTypes DEF DropManager, InTable, Cmd
<1>11. CASE DrainAdd \/ DrainSet \/ DrainDuplicate
  <2>1. /\ queue # <<>> /\ queue' = Tail(queue) /\ Head(queue).op # "Remove"
        /\ UNCHANGED pc
    BY SMTT(60), <1>11 DEF DrainAdd, DrainSet, DrainDuplicate, Receive, appVars
  <2>2. RemoveSent(c)
    BY SMTT(60), <1>11, <2>1, HeadOfQueue
       DEF DrainAdd, DrainSet, DrainDuplicate, Receive, Swap, histVars, Shape, Domains, RemoveSent
  <2>3. InTable(c) \/ Queued("Add", c)
    <3>1. InTable(c)' => InTable(c) \/ (Head(queue).op = "Add" /\ c = Head(queue).conn)
      BY TableStep DEF DrainAdd, Receive
    <3>2. QED
      BY <1>2, <2>1, <3>1, Received
  <2>4. QED
    BY SMTT(60), <1>1, <1>2, <2>1, <2>2, <2>3, Received
<1>12. CASE DrainRemove
  <2>1. /\ queue # <<>> /\ queue' = Tail(queue) /\ Head(queue).op = "Remove"
        /\ RemoveSent(c)
        /\ table' = [table EXCEPT ![KeyOf[Head(queue).conn]] = NoConn]
    BY <1>12 DEF DrainRemove, Receive, appVars, histVars, RemoveSent
  <2>2. c # Head(queue).conn
    <3>1. CASE InTable(c)'
      BY <2>1, <3>1 DEF InTable, Shape, Domains
    <3>2. CASE Queued("Add", c)'
      <4>1. PICK i \in 1..Len(queue') : queue'[i].op = "Add" /\ queue'[i].conn = c
        BY <3>2 DEF Queued
      <4>2. /\ 1 \in 1..Len(queue) /\ i + 1 \in 1..Len(queue) /\ ~(i + 1 < 1)
            /\ queue[1] = Head(queue) /\ queue[i + 1] = queue'[i]
        BY <1>2, <2>1, Received
      <4>3. QED
        BY <2>1, <4>1, <4>2 DEF QueueInv
    <3>3. QED
      BY <3>1, <3>2
  <2>3. InTable(c) \/ Queued("Add", c)
    <3>1. InTable(c)' => InTable(c)
      BY <2>1 DEF InTable, Shape, Domains
    <3>2. QED
      BY <1>2, <2>1, <3>1, Received
  <2>4. QED
    BY <1>1, <1>2, <2>1, <2>2, <2>3, Received
<1>13. CASE DuplicateDec \/ ExpireDec \/ OnClose
  BY <1>3, <1>13 DEF DuplicateDec, ExpireDec, OnClose, appVars, histVars, RemoveSent, InTable
<1>14. ASSUME NEW k \in Keys, Expire(k) PROVE Queued("Remove", c)'
  <2>1. queue' = queue /\ table' = [table EXCEPT ![k] = NoConn] /\ UNCHANGED pc
    BY <1>14 DEF Expire, appVars
  <2>2. RemoveSent(c)
    BY <1>14, <2>1 DEF Expire, Swap, Shape, Domains, PhaseInv, RemoveSent
  <2>3. InTable(c)' => InTable(c)
    BY <2>1 DEF InTable, Shape, Domains
  <2>4. QED
    BY <1>3, <2>1, <2>2, <2>3
<1>15. CASE DrainShutdown \/ CallbackPanic
  <2>1. queue' = <<>> /\ table' = [k \in Keys |-> NoConn]
    BY <1>15 DEF DrainShutdown, CallbackPanic, Stop
  <2>2. QED
    BY <2>1, QueuedSame DEF InTable
<1>16. QED
  BY <1>5, <1>6, <1>7, <1>8, <1>9, <1>10, <1>11, <1>12, <1>13, <1>14, <1>15, NextKinds

-----------------------------------------------------------------------------
(* The theorems *)

\* The invariants together hold in every reachable state.
LEMMA Tracked == Spec => [](Shape /\ CountMatches /\ Track)
<1>1. Init => Track
  BY DEF Init, Track, CloserInv, QueueInv, PlaceInv, ReportInv, LeaveInv, Pending, Opening,
     Handled, Queued, InTable, RemoveSent, Alive
<1>2. Shape /\ Track /\ [Next]_vars => Track'
  BY StepCloser, StepQueue, StepPlace, StepReport, StepLeave DEF Track
<1>3. QED
  BY <1>1, <1>2, Inductive, PTL DEF Spec

\* on_close (IoCallbacks::on_close) is called at most once for a connection,
\* after its flag is closed, its entry gone and no Add of it left, and never
\* for a connection refused as a duplicate.
THEOREM OnCloseIsOnce == Spec => []OnCloseOnce
<1>1. Shape /\ Track => OnCloseOnce
  <2> SUFFICES ASSUME Shape, Track, NEW c \in Conns, onClose[c] > 0
               PROVE  /\ onClose[c] = 1 /\ flag[c] = "closed"
                      /\ closedBy[c] \in {"timeout", "user"}
                      /\ ~InTable(c) /\ ~Queued("Add", c)
    BY DEF OnCloseOnce
  <2>1. onClose[c] = 1 /\ closedBy[c] \in {"timeout", "user"}
    BY DEF Track, ReportInv
  <2>2. flag[c] = "closed"
    BY <2>1 DEF Track, CloserInv
  <2>3. ~InTable(c) /\ ~Queued("Add", c)
    BY <2>1 DEF Track, PlaceInv, Pending
  <2>4. QED
    BY <2>1, <2>2, <2>3
<1>2. QED
  BY <1>1, Tracked, PTL

\* No entry outlives forward_close for want of a Remove: a closed connection
\* in the table has a closer about to send Remove, or its Remove is queued.
THEOREM ClosedLeaves == Spec => []ClosedIsLeaving
<1>1. Shape /\ Track => ClosedIsLeaving
  <2> SUFFICES ASSUME Shape, Track, NEW c \in Conns, InTable(c), flag[c] = "closed"
               PROVE  pc[c] \in {"closeDec", "closeRemove"} \/ Queued("Remove", c)
    BY DEF ClosedIsLeaving
  <2>1. closedBy[c] = "user"
    BY DEF Track, PlaceInv, CloserInv
  <2>2. pc[c] \in {"closeDec", "closeRemove", "closeRequest", "done"}
    BY <2>1 DEF Track, CloserInv
  <2>3. QED
    BY <2>1, <2>2 DEF Track, LeaveInv, RemoveSent
<1>2. QED
  BY <1>1, Tracked, PTL

-----------------------------------------------------------------------------
(***************************************************************************)
(* What a pass of the IO thread does for the connections it holds: a       *)
(* closed one sends at most one more packet, an open one stays in the      *)
(* table, unless the target gave its ID to two connections in use at once. *)
(***************************************************************************)

-----------------------------------------------------------------------------
(* forward_close: at most one more packet *)

\* A packet after the Remove is the last: its entry is behind the pass of
\* service_connections, and the next pass starts with an empty channel.
LateInv ==
  \A c \in Conns :
    late[c] > 0 => /\ late[c] = 1 /\ RemoveSent(c) /\ ~Pending(c)
                   /\ InTable(c) => KeyOf[c] \notin todo

\* Steps that start or advance no pass.
LEMMA TodoStep ==
  ASSUME Shape, [Next]_vars
  PROVE  \/ DrainEmpty
         \/ \E k \in Keys : ServiceSend(k)
         \/ UNCHANGED <<late, stale>> /\ todo' \subseteq todo
         \/ \E c \in Conns, f \in Fields : Set(c, f)
<1>1. CASE Quiet
  BY <1>1 DEF Quiet, Service, ServiceTimedOut, ServiceNoSend, ServiceDone, ExpireDone, Wait,
     JoinThread, Finished, vars, workerVars, histVars
<1>2. ASSUME NEW c \in Conns, Calls(c) PROVE UNCHANGED <<late, stale, todo>>
  BY SMTT(60), <1>2 DEF Calls, ForwardOpenRefused, ForwardOpenAccepted, ForwardOpenReplyLost,
     ForwardOpenReply, ForwardClose, ForwardCloseLate, ForwardCloseDec, ForwardCloseRequest,
     histVars, workerVars
<1>3. ASSUME NEW c \in Conns, ForwardOpenAdd(c) \/ ForwardCloseRemove(c)
      PROVE  UNCHANGED <<late, stale, todo>>
  BY SMTT(60), <1>3 DEF ForwardOpenAdd, ForwardCloseRemove, histVars, workerVars
<1>4. CASE \/ DropManager \/ DrainAdd \/ DrainDuplicate \/ DrainRemove \/ DrainSet
           \/ DuplicateDec \/ ExpireDec \/ OnClose \/ \E k \in Keys : Expire(k)
  BY <1>4 DEF DropManager, DrainAdd, DrainDuplicate, DrainRemove, DrainSet, DuplicateDec,
     ExpireDec, OnClose, Expire, histVars, workerVars
<1>5. CASE DrainShutdown \/ CallbackPanic
  BY <1>5 DEF DrainShutdown, CallbackPanic, Stop, histVars
<1>6. QED
  BY <1>1, <1>2, <1>3, <1>4, <1>5, NextKinds

\* LateInv is kept.
LEMMA StepLate == Shape /\ Track /\ LateInv /\ [Next]_vars => LateInv'
<1> SUFFICES ASSUME Shape, Track, LateInv, [Next]_vars, NEW c \in Conns, late'[c] > 0
             PROVE  /\ late'[c] = 1 /\ RemoveSent(c)' /\ ~Pending(c)'
                    /\ InTable(c)' => KeyOf[c] \notin todo'
  BY DEF LateInv
<1>1. /\ Pending(c)' => Pending(c)
      /\ RemoveSent(c) => RemoveSent(c)'
  BY PendingStep, Progress DEF Track
<1>2. ASSUME UNCHANGED late, todo' \subseteq todo
      PROVE  /\ late'[c] = 1 /\ RemoveSent(c)' /\ ~Pending(c)'
             /\ InTable(c)' => KeyOf[c] \notin todo'
  <2>1. late[c] = 1 /\ RemoveSent(c) /\ ~Pending(c)
    BY <1>2 DEF LateInv
  <2>2. InTable(c)' => InTable(c)
    <3>1. DrainAdd => ~(c = Head(queue).conn)
      BY <2>1, AddTaken DEF DrainAdd, appVars, Track
    <3>2. QED
      BY <3>1, TableStep
  <2>3. QED
    BY <1>1, <1>2, <2>1, <2>2 DEF LateInv
<1>3. CASE DrainEmpty
  <2>1. UNCHANGED <<late, table, queue>> /\ queue = <<>>
    BY <1>3 DEF DrainEmpty, histVars
  <2>2. late[c] = 1 /\ RemoveSent(c) /\ ~Pending(c)
    BY <2>1 DEF LateInv
  <2>3. ~InTable(c)
    BY <2>1, <2>2 DEF Track, LeaveInv, Queued
  <2>4. QED
    BY <1>1, <2>1, <2>2, <2>3 DEF InTable
<1>4. ASSUME NEW k \in Keys, ServiceSend(k)
      PROVE  /\ late'[c] = 1 /\ RemoveSent(c)' /\ ~Pending(c)'
             /\ InTable(c)' => KeyOf[c] \notin todo'
  <2>1. /\ k \in todo /\ todo' = todo \ {k} /\ UNCHANGED table /\ table[k] \in Conns
        /\ late' = [late EXCEPT ![table[k]] = IF RemoveSent(table[k]) THEN @ + 1 ELSE @]
    BY <1>4 DEF ServiceSend, Shape, PhaseInv
  <2>2. KeyOf[table[k]] = k /\ InTable(table[k])
    BY <2>1 DEF Track, PlaceInv, InTable
  <2>3. CASE c = table[k] /\ RemoveSent(c)
    <3>1. late[c] = 0
      BY <2>1, <2>2, <2>3 DEF LateInv, Shape, Domains
    <3>2. ~Pending(c)
      BY <2>2, <2>3 DEF Track, PlaceInv
    <3>3. QED
      BY <1>1, <2>1, <2>2, <2>3, <3>1, <3>2 DEF Shape, Domains
  <2>4. CASE ~(c = table[k] /\ RemoveSent(c))
    <3>1. late'[c] = late[c]
      BY <2>1, <2>4 DEF Shape, Domains
    <3>2. QED
      BY <1>1, <2>1, <3>1 DEF LateInv, InTable
  <2>5. QED
    BY <2>3, <2>4
<1>5. ASSUME NEW d \in Conns, NEW f \in Fields, Set(d, f) PROVE UNCHANGED <<late, todo>>
  BY <1>5 DEF Set, workerVars
<1>6. QED
  BY <1>2, <1>3, <1>4, <1>5, TodoStep

\* Once forward_close has queued its Remove, the connection sends at most one
\* more packet.
THEOREM LatePacketIsLast == Spec => []OneLatePacket
<1>1. Init => LateInv
  BY DEF Init, LateInv
<1>2. LateInv /\ Shape => OneLatePacket
  <2> SUFFICES ASSUME LateInv, Shape, NEW c \in Conns PROVE late[c] <= 1
    BY DEF OneLatePacket
  <2>1. late[c] \in Nat
    BY DEF Shape, Domains
  <2>2. late[c] > 0 => late[c] = 1
    BY DEF LateInv
  <2>3. QED
    BY <2>1, <2>2
<1>3. QED
  BY <1>1, <1>2, StepLate, Tracked, PTL DEF Spec

-----------------------------------------------------------------------------
(* A connection whose flag says open stays in the table *)

\* No two connections with one key are in use, unless the target gave the key
\* out too early.
Sole ==
  \A c, d \in Conns :
    KeyOf[c] = KeyOf[d] /\ KeyOf[c] \notin reused /\ Served(c) /\ Served(d) => c = d

\* The target closes on request only what is no longer in use here.
ReleasedInv == \A c \in released : pc[c] # "none" /\ ~Served(c)

\* A Remove for an earlier connection of the same key is taken before the Add.
OldRemoves ==
  \A c \in Conns, i \in 1..Len(queue) :
    /\ flag[c] = "open" /\ KeyOf[c] \notin reused
    /\ queue[i].op = "Remove" /\ KeyOf[queue[i].conn] = KeyOf[c]
    => \/ pc[c] = "add"
       \/ \E j \in i..Len(queue) : queue[j].op = "Add" /\ queue[j].conn = c

Held == Sole /\ ReleasedInv /\ OldRemoves /\ OpenIsTracked

\* A connection comes into use only when the target accepts it.
LEMMA ServedStep ==
  ASSUME Shape, CloserInv, [Next]_vars
  PROVE  \/ /\ UNCHANGED <<released, reused>>
            /\ \A c \in Conns : (Served(c)' => Served(c)) /\ (pc'[c] = "none" => pc[c] = "none")
         \/ \E c \in Conns : ForwardOpenAccepted(c) \/ ForwardCloseRequest(c)
<1> DEFINE Same == /\ UNCHANGED <<released, reused>>
                   /\ \A c \in Conns :
                        (Served(c)' => Served(c)) /\ (pc'[c] = "none" => pc[c] = "none")
<1>1. CASE Quiet
  BY <1>1, QuietFrame DEF Served
<1>2. ASSUME NEW c \in Conns, Calls(c),
             ~(ForwardOpenAccepted(c) \/ ForwardCloseRequest(c))
      PROVE  Same
  BY SMTT(60), <1>2 DEF Calls, ForwardOpenRefused, ForwardOpenReplyLost, ForwardOpenReply, ForwardClose,
     ForwardCloseLate, ForwardCloseDec, Goto, Swap, flagVars, Shape, Domains, Served
<1>3. ASSUME NEW c \in Conns, ForwardOpenAdd(c) \/ ForwardCloseRemove(c) PROVE Same
  BY SMTT(60), <1>3 DEF ForwardOpenAdd, ForwardCloseRemove, Goto, flagVars, Shape, Domains, Served
<1>4. ASSUME NEW c \in Conns, NEW f \in Fields, Set(c, f) PROVE Same
  BY SMTT(60), <1>4 DEF Set, appVars, flagVars, Served
<1>5. CASE \/ DropManager \/ DrainAdd \/ DrainRemove \/ DrainSet \/ DuplicateDec \/ ExpireDec
           \/ OnClose \/ DrainShutdown \/ CallbackPanic
  BY <1>5 DEF DropManager, DrainAdd, DrainRemove, DrainSet, DuplicateDec, ExpireDec, OnClose,
     DrainShutdown, CallbackPanic, Stop, appVars, flagVars, Served
<1>6. CASE DrainDuplicate
  BY <1>6, HeadOfQueue DEF DrainDuplicate, Receive, Swap, appVars, Shape, Domains, Served
<1>7. ASSUME NEW k \in Keys, Expire(k) PROVE Same
  BY <1>7 DEF Expire, Swap, appVars, Shape, Domains, PhaseInv, Served
<1>8. QED
  BY <1>1, <1>2, <1>3, <1>4, <1>5, <1>6, <1>7, NextKinds

\* A key once given out too early stays marked.
LEMMA ReusedGrows ==
  ASSUME Shape, CloserInv, [Next]_vars
  PROVE  reused \subseteq reused'
BY ServedStep DEF ForwardOpenAccepted, ForwardCloseRequest

\* The thread never starts again.
LEMMA AliveStep == [Next]_vars /\ ~Alive => ~Alive' /\ UNCHANGED worker
BY NextKinds DEF Alive, Quiet, Service, ServiceTimedOut, ServiceNoSend, ServiceSend, ServiceDone,
   ExpireDone, Wait, DrainEmpty, JoinThread, Finished, vars, workerVars, Calls,
   ForwardOpenRefused, ForwardOpenAccepted, ForwardOpenReplyLost, ForwardOpenReply, ForwardClose,
   ForwardCloseLate, ForwardCloseDec, ForwardCloseRequest, ForwardOpenAdd,
   ForwardCloseRemove, Set, DropManager, DrainAdd, DrainDuplicate, DrainRemove, DrainSet,
   DuplicateDec, ExpireDec, OnClose, Expire, DrainShutdown, CallbackPanic, Stop, Receive

\* Sole and ReleasedInv are kept.
LEMMA StepHeld ==
  ASSUME Shape, Track, Held, [Next]_vars
  PROVE  Sole' /\ ReleasedInv'
<1>1. Sole /\ ReleasedInv
  BY DEF Held
<1>2. ASSUME UNCHANGED <<released, reused>>,
             \A c \in Conns : (Served(c)' => Served(c)) /\ (pc'[c] = "none" => pc[c] = "none")
      PROVE  Sole' /\ ReleasedInv'
  BY <1>1, <1>2 DEF Sole, ReleasedInv, Shape, Domains
<1>3. ASSUME NEW c \in Conns, ForwardOpenAccepted(c) PROVE Sole' /\ ReleasedInv'
  <2>1. /\ pc[c] = "none" /\ UNCHANGED <<flag, released>> /\ c \notin released
        /\ \A d \in Conns : d # c => pc'[d] = pc[d]
    BY <1>1, <1>3 DEF ForwardOpenAccepted, Goto, flagVars, Shape, Domains, ReleasedInv
  <2>2. \A d \in Conns : d # c => (Served(d)' <=> Served(d))
    BY <2>1 DEF Served
  <2>3. /\ reused \subseteq reused'
        /\ \A d \in Conns :
             d # c /\ KeyOf[d] = KeyOf[c] /\ Served(d) => KeyOf[c] \in reused'
    <3>1. c \notin released /\ ~Served(c)
      BY <2>1 DEF Served, Shape, FlagInv
    <3>2. \A d \in Conns : Served(d) => d \notin released
      BY <1>1 DEF ReleasedInv
    <3>3. reused' = reused \cup {KeyOf[d] : d \in {d \in Conns \ released :
                                                   KeyOf[d] = KeyOf[c] /\ Served(d)}}
      BY <1>3 DEF ForwardOpenAccepted
    <3>4. QED
      BY <3>2, <3>3
  <2>4. Sole'
    BY <1>1, <2>2, <2>3 DEF Sole
  <2>5. ReleasedInv'
    BY <1>1, <2>1, <2>2 DEF ReleasedInv, Shape, Domains
  <2>6. QED
    BY <2>4, <2>5
<1>4. ASSUME NEW c \in Conns, ForwardCloseRequest(c) PROVE Sole' /\ ReleasedInv'
  <2>1. /\ flag[c] # "open" /\ UNCHANGED <<flag, reused>>
        /\ pc'[c] = "done" /\ released' \subseteq released \cup {c}
        /\ \A d \in Conns : d # c => pc'[d] = pc[d]
    BY <1>4 DEF ForwardCloseRequest, Goto, flagVars, Shape, Domains, Track, CloserInv
  <2>2. ~Served(c)' /\ \A d \in Conns : d # c => (Served(d)' <=> Served(d))
    BY <2>1 DEF Served
  <2>3. Sole'
    BY <1>1, <2>1, <2>2 DEF Sole
  <2>4. ReleasedInv'
    BY <1>1, <2>1, <2>2 DEF ReleasedInv, Shape, Domains
  <2>5. QED
    BY <2>3, <2>4
<1>5. QED
  BY <1>2, <1>3, <1>4, ServedStep DEF Track

\* A flag is opened by the reply, before the Add is sent.
LEMMA OpenStep ==
  ASSUME Shape, [Next]_vars
  PROVE  \A c \in Conns :
           /\ flag'[c] = "open" => flag[c] = "open" \/ pc'[c] = "add"
           /\ pc[c] = "add" => pc'[c] = "add" \/ ForwardOpenAdd(c)
<1> DEFINE Goal == \A c \in Conns :
           /\ flag'[c] = "open" => flag[c] = "open" \/ pc'[c] = "add"
           /\ pc[c] = "add" => pc'[c] = "add" \/ ForwardOpenAdd(c)
<1>1. CASE Quiet
  BY <1>1, QuietFrame
<1>2. ASSUME NEW c \in Conns, Calls(c) PROVE Goal
  BY SMTT(60), <1>2 DEF Calls, ForwardOpenRefused, ForwardOpenAccepted, ForwardOpenReplyLost,
     ForwardOpenReply, ForwardClose, ForwardCloseLate, ForwardCloseDec, ForwardCloseRequest,
     Goto, Swap, flagVars, Shape, Domains
<1>3. ASSUME NEW c \in Conns, ForwardOpenAdd(c) \/ ForwardCloseRemove(c) PROVE Goal
  BY SMTT(60), <1>3 DEF ForwardOpenAdd, ForwardCloseRemove, Goto, flagVars, Shape, Domains
<1>4. ASSUME NEW c \in Conns, NEW f \in Fields, Set(c, f) PROVE Goal
  BY SMTT(60), <1>4 DEF Set, appVars, flagVars
<1>5. CASE \/ DropManager \/ DrainAdd \/ DrainRemove \/ DrainSet \/ DuplicateDec \/ ExpireDec
           \/ OnClose \/ DrainShutdown \/ CallbackPanic
  BY <1>5 DEF DropManager, DrainAdd, DrainRemove, DrainSet, DuplicateDec, ExpireDec, OnClose,
     DrainShutdown, CallbackPanic, Stop, appVars, flagVars
<1>6. CASE DrainDuplicate
  BY <1>6, HeadOfQueue DEF DrainDuplicate, Receive, Swap, appVars, Shape, Domains
<1>7. ASSUME NEW k \in Keys, Expire(k) PROVE Goal
  BY <1>7 DEF Expire, Swap, appVars, Shape, Domains, PhaseInv
<1>8. QED
  BY <1>1, <1>2, <1>3, <1>4, <1>5, <1>6, <1>7, NextKinds

\* OldRemoves is kept.
LEMMA StepOld ==
  ASSUME Shape, Track, Held, [Next]_vars
  PROVE  OldRemoves'
<1> SUFFICES ASSUME NEW c \in Conns, NEW i \in 1..Len(queue'),
                    flag'[c] = "open", KeyOf[c] \notin reused', queue'[i].op = "Remove",
                    KeyOf[queue'[i].conn] = KeyOf[c], pc'[c] # "add"
             PROVE  \E j \in i..Len(queue') : queue'[j].op = "Add" /\ queue'[j].conn = c
  BY DEF OldRemoves
<1>1. queue \in Seq(Command) /\ Len(queue) \in Nat
  BY DEF Shape, Domains
<1>2. flag[c] = "open" /\ KeyOf[c] \notin reused /\ (pc[c] = "add" => ForwardOpenAdd(c))
  BY OpenStep, ReusedGrows DEF Track
<1>3. \A n \in 1..Len(queue) :
        queue[n].op = "Remove" /\ KeyOf[queue[n].conn] = KeyOf[c]
          => \/ pc[c] = "add"
             \/ \E j \in n..Len(queue) : queue[j].op = "Add" /\ queue[j].conn = c
  BY <1>2 DEF Held, OldRemoves
<1>4. CASE ForwardOpenAdd(c)
  <2>1. CASE ~Alive /\ UNCHANGED queue
    BY <2>1 DEF Track, PlaceInv
  <2>2. CASE Send(Cmd("Add", c))
    <3>1. /\ Cmd("Add", c) \in Command /\ Cmd("Add", c).op = "Add"
          /\ Cmd("Add", c).conn = c
      BY CommandTypes DEF Cmd
    <3>2. Len(queue') = Len(queue) + 1 /\ queue'[Len(queue) + 1] = Cmd("Add", c)
      BY <1>1, <2>2, <3>1, Appended
    <3>3. Len(queue) + 1 \in i..Len(queue')
      BY <1>1, <3>2
    <3>4. QED
      BY <3>1, <3>2, <3>3
  <2>3. QED
    BY <1>4, <2>1, <2>2 DEF ForwardOpenAdd
<1>5. CASE ~ForwardOpenAdd(c) /\ queue' = queue
  BY <1>2, <1>3, <1>5
<1>6. CASE queue' = <<>>
  BY <1>6
<1>7. CASE ~ForwardOpenAdd(c) /\ queue # <<>> /\ queue' = Tail(queue)
  <2>1. /\ Len(queue') = Len(queue) - 1
        /\ \A n \in 1..Len(queue') : queue'[n] = queue[n + 1]
    BY <1>1, <1>7, Received
  <2>2. i + 1 \in 1..Len(queue) /\ queue[i + 1] = queue'[i]
    BY <1>1, <2>1
  <2>3. PICK j \in (i + 1)..Len(queue) : queue[j].op = "Add" /\ queue[j].conn = c
    BY <1>2, <1>3, <1>7, <2>2
  <2>4. j - 1 \in i..Len(queue') /\ j - 1 \in 1..Len(queue') /\ (j - 1) + 1 = j
    BY <1>1, <2>1
  <2>5. queue'[j - 1] = queue[j]
    BY <2>1, <2>4
  <2>6. QED
    BY <2>3, <2>4, <2>5
<1>8. ASSUME NEW m \in Command, Send(m), ~ForwardOpenAdd(c),
             m.op = "Remove" => pc[m.conn] = "closeRemove"
      PROVE  \E j \in i..Len(queue') : queue'[j].op = "Add" /\ queue'[j].conn = c
  <2>1. /\ Len(queue') = Len(queue) + 1 /\ queue'[Len(queue) + 1] = m
        /\ \A n \in 1..Len(queue) : queue'[n] = queue[n]
    BY <1>1, <1>8, Appended
  <2>2. CASE i \in 1..Len(queue)
    <3>1. PICK j \in i..Len(queue) : queue[j].op = "Add" /\ queue[j].conn = c
      BY <1>2, <1>3, <1>8, <2>1, <2>2
    <3>2. j \in 1..Len(queue) /\ j \in i..Len(queue')
      BY <1>1, <2>1, <2>2
    <3>3. QED
      BY <2>1, <3>1, <3>2
  <2>3. CASE i = Len(queue) + 1
    <3>1. m.op = "Remove" /\ KeyOf[m.conn] = KeyOf[c] /\ m.conn \in Conns
      BY <2>1, <2>3 DEF Command, Cmd
    <3>2. Served(m.conn) /\ Served(c)
      BY <1>2, <1>8, <3>1 DEF Served
    <3>3. m.conn = c
      BY <1>2, <3>1, <3>2 DEF Held, Sole
    <3>4. flag[m.conn] = "closed"
      BY <1>8, <3>1 DEF Track, CloserInv
    <3>5. QED
      BY <1>2, <3>3, <3>4
  <2>4. QED
    BY <1>1, <2>1, <2>2, <2>3
<1>9. QED
  BY <1>4, <1>5, <1>6, <1>7, <1>8, QueueChange DEF Track

\* OpenIsTracked is kept.
LEMMA StepTracked ==
  ASSUME Shape, Track, Held, [Next]_vars
  PROVE  OpenIsTracked'
<1> SUFFICES ASSUME Alive', NEW c \in Conns, flag'[c] = "open", KeyOf[c] \notin reused'
             PROVE  pc'[c] = "add" \/ Queued("Add", c)' \/ InTable(c)'
  BY DEF OpenIsTracked, OpenFlags
<1> DEFINE Kept == pc'[c] = "add" \/ Queued("Add", c)' \/ InTable(c)'
<1>1. queue \in Seq(Command) /\ Len(queue) \in Nat /\ Alive /\ KeyOf[c] \notin reused
  BY AliveStep, ReusedGrows DEF Shape, Domains, Track
<1>2. CASE pc'[c] = "add"
  BY <1>2
<1>3. CASE pc[c] = "add" /\ pc'[c] # "add"
  <2>1. ForwardOpenAdd(c)
    BY <1>3, OpenStep
  <2>2. Send(Cmd("Add", c))
    BY <1>1, <2>1 DEF ForwardOpenAdd
  <2>3. QED
    BY ZenonT(60), <1>1, <2>2, CommandTypes, Appended DEF Cmd
<1>4. ASSUME pc[c] # "add", pc'[c] # "add" PROVE Kept
  <2>1. flag[c] = "open" /\ (Queued("Add", c) \/ InTable(c))
    BY <1>1, <1>4, OpenStep DEF Held, OpenIsTracked, OpenFlags
  <2>2. ASSUME queue' = queue, UNCHANGED table PROVE Kept
    BY <2>1, <2>2, QueuedSame DEF InTable
  <2>3. ASSUME NEW m \in Command, Send(m), UNCHANGED table PROVE Kept
    BY <1>1, <2>1, <2>3, Appended DEF InTable
  <2>4. CASE Quiet
    BY <2>2, <2>4, QuietFrame
  <2>5. CASE \/ \E d \in Conns : Calls(d)
             \/ \E d \in Conns : ForwardOpenAdd(d) \/ ForwardCloseRemove(d)
             \/ \E d \in Conns, f \in Fields : Set(d, f)
             \/ DropManager
    <3>1. UNCHANGED <<table, worker>>
      BY <2>5, AppFrame
    <3>2. \/ queue' = queue \/ \E m \in Command : Send(m)
          \/ worker = "drain" /\ queue # <<>> /\ queue' = Tail(queue)
      BY QueueChange DEF Track
    <3>3. ~(queue # <<>> /\ queue' = Tail(queue))
      <4>1. Len(Tail(queue)) = Len(queue) - 1 \/ queue = <<>>
        BY <1>1
      <4>2. queue' = queue \/ \E m : Send(m)
        BY <2>5 DEF Calls, ForwardOpenRefused, ForwardOpenAccepted, ForwardOpenReplyLost,
           ForwardOpenReply, ForwardClose, ForwardCloseLate, ForwardCloseDec,
           ForwardCloseRequest, ForwardOpenAdd, ForwardCloseRemove, Set,
           DropManager
      <4>3. QED
        BY <1>1, <4>1, <4>2 DEF Send
    <3>4. QED
      BY <2>2, <2>3, <3>1, <3>2, <3>3
  <2>6. CASE DrainAdd
    <3>1. PICK d \in Conns : d = Head(queue).conn
      BY <2>6, HeadOfQueue DEF DrainAdd, Receive, Shape, Domains
    <3>2. /\ queue # <<>> /\ queue' = Tail(queue) /\ Head(queue).op = "Add"
          /\ table[KeyOf[d]] = NoConn /\ table' = [table EXCEPT ![KeyOf[d]] = d]
      BY <2>6, <3>1 DEF DrainAdd, Receive
    <3>3. CASE InTable(c)
      BY <3>1, <3>2, <3>3 DEF InTable, Shape, Domains
    <3>4. CASE Queued("Add", c)
      BY <1>1, <3>1, <3>2, <3>4, Received DEF InTable, Shape, Domains
    <3>5. QED
      BY <2>1, <3>3, <3>4
  <2>7. CASE DrainRemove
    <3>1. PICK d \in Conns : d = Head(queue).conn
      BY <2>7, HeadOfQueue DEF DrainRemove, Receive, Shape, Domains
    <3>2. /\ queue # <<>> /\ queue' = Tail(queue) /\ Head(queue).op = "Remove"
          /\ table' = [table EXCEPT ![KeyOf[d]] = NoConn]
      BY <2>7, <3>1 DEF DrainRemove, Receive
    <3>3. CASE Queued("Add", c)
      BY <1>1, <3>2, <3>3, Received
    <3>4. CASE InTable(c) /\ KeyOf[d] # KeyOf[c]
      BY <3>1, <3>2, <3>4 DEF InTable, Shape, Domains
    <3>5. CASE KeyOf[d] = KeyOf[c]
      <4>1. 1 \in 1..Len(queue) /\ queue[1] = Head(queue)
        BY <1>1, <3>2, Received
      <4>2. Queued("Add", c)
        <5>1. OldRemoves /\ pc[c] # "add" /\ flag[c] = "open" /\ KeyOf[c] \notin reused
          BY <1>1, <1>4, <2>1 DEF Held
        <5>2. queue[1].op = "Remove" /\ KeyOf[queue[1].conn] = KeyOf[c]
          BY <3>1, <3>2, <3>5, <4>1
        <5>3. \E j \in 1..Len(queue) : queue[j].op = "Add" /\ queue[j].conn = c
          BY <4>1, <5>1, <5>2 DEF OldRemoves
        <5>4. QED
          BY <5>3 DEF Queued
      <4>3. QED
        BY <3>3, <4>2
    <3>6. QED
      BY <2>1, <3>3, <3>4, <3>5
  <2>8. CASE DrainSet
    <3>1. queue # <<>> /\ queue' = Tail(queue) /\ Head(queue).op = "Set" /\ UNCHANGED table
      BY <2>8 DEF DrainSet, Receive
    <3>2. QED
      BY <1>1, <2>1, <3>1, Received DEF InTable
  <2>9. CASE DrainDuplicate
    <3>1. PICK d \in Conns : d = Head(queue).conn
      BY <2>9, HeadOfQueue DEF DrainDuplicate, Receive, Shape, Domains
    <3>2. /\ queue # <<>> /\ queue' = Tail(queue) /\ UNCHANGED table
          /\ flag'[d] # "open"
      BY <2>9, <3>1 DEF DrainDuplicate, Receive, Swap, Shape, Domains
    <3>3. QED
      BY <1>1, <2>1, <3>1, <3>2, Received DEF InTable
  <2>10. CASE DuplicateDec \/ ExpireDec \/ OnClose
    BY <2>2, <2>10 DEF DuplicateDec, ExpireDec, OnClose
  <2>11. ASSUME NEW k \in Keys, Expire(k) PROVE Kept
    <3>1. /\ table' = [table EXCEPT ![k] = NoConn] /\ queue' = queue
          /\ flag'[table[k]] # "open"
      BY <2>11 DEF Expire, Swap, Shape, Domains, PhaseInv
    <3>2. InTable(c) => KeyOf[c] # k
      BY <3>1 DEF InTable
    <3>3. QED
      BY <2>1, <3>1, <3>2, QueuedSame DEF InTable, Shape, Domains
  <2>12. CASE DrainShutdown \/ CallbackPanic
    BY <2>12 DEF DrainShutdown, CallbackPanic, Stop, Alive
  <2>13. QED
    BY <2>4, <2>5, <2>6, <2>7, <2>8, <2>9, <2>10, <2>11, <2>12, NextKinds
<1>5. QED
  BY <1>2, <1>3, <1>4

\* While the IO thread runs, a connection whose flag says open is in the table
\* or on its way there: a Remove, which names its connection only by key, never
\* hits another one, whatever IDs the target gives out, except for a key that it
\* gave out again while a connection that has it was still in use here and
\* forward_close had not closed it.
THEOREM OpenTracked == Spec => []OpenIsTracked
<1>1. Init => Held
  BY DEF Init, Held, Sole, ReleasedInv, OldRemoves, OpenIsTracked, OpenFlags, Served
<1>2. Shape /\ Track /\ Held /\ [Next]_vars => Held'
  BY StepHeld, StepOld, StepTracked DEF Held
<1>3. Held => OpenIsTracked
  BY DEF Held
<1>4. QED
  BY <1>1, <1>2, <1>3, Tracked, PTL DEF Spec

-----------------------------------------------------------------------------
(* set_output and set_run: at most one packet with an older setting *)

\* The setting v of field f of c is on its way.
SetQueued(c, f, v) ==
  \E i \in 1..Len(queue) : /\ queue[i].op = "Set" /\ queue[i].conn = c
                           /\ queue[i].field = f /\ queue[i].val = v

\* The settings of a connection follow its Add, in the order of the calls.
SetOrder ==
  \A i \in 1..Len(queue) : queue[i].op = "Set" =>
    /\ queue[i].conn \in Setters
    /\ pc[queue[i].conn] \in Handled
    /\ queue[i].val <= wanted[queue[i].conn][queue[i].field]
    /\ \A j \in 1..Len(queue) : queue[j].conn = queue[i].conn =>
         /\ queue[j].op = "Add" => j < i
         /\ queue[j].op = "Set" /\ queue[j].field = queue[i].field /\ i < j
              => queue[i].val < queue[j].val

\* An entry, or one still to come, has the last setting, or will get it, when
\* nobody else's settings reach it.
FreshInv ==
  \A c \in Conns, f \in Fields :
    OwnSettings(c) /\ (InTable(c) \/ Pending(c)) =>
      \/ SetQueued(c, f, wanted[c][f])
      \/ (\A v \in Nat : ~SetQueued(c, f, v)) /\ setting[c][f] = wanted[c][f]

\* A packet with an older setting is the last: its entry is behind the pass.
StaleInv ==
  \A c \in Conns :
    /\ stale[c] <= 1
    /\ stale[c] = 1 /\ InTable(c) => KeyOf[c] \notin todo \/ setting[c] = wanted[c]
    /\ ~OwnSettings(c) => stale[c] = 0

\* Only set_output and set_run change what is wanted, only their commands what
\* an entry holds.
LEMMA SetStep ==
  ASSUME Shape, [Next]_vars
  PROVE  /\ UNCHANGED wanted \/ \E c \in Conns, f \in Fields : Set(c, f)
         /\ UNCHANGED setting \/ DrainSet
<1>1. CASE Quiet
  BY <1>1, QuietFrame
<1>2. ASSUME NEW c \in Conns, Calls(c) PROVE UNCHANGED <<wanted, setting>>
  BY <1>2 DEF Calls, ForwardOpenRefused, ForwardOpenAccepted, ForwardOpenReplyLost,
     ForwardOpenReply, ForwardClose, ForwardCloseLate, ForwardCloseDec, ForwardCloseRequest,
     histVars, workerVars
<1>3. ASSUME NEW c \in Conns, ForwardOpenAdd(c) \/ ForwardCloseRemove(c)
      PROVE  UNCHANGED <<wanted, setting>>
  BY <1>3 DEF ForwardOpenAdd, ForwardCloseRemove, histVars, workerVars
<1>4. CASE \/ DropManager \/ DrainAdd \/ DrainDuplicate \/ DrainRemove
           \/ DuplicateDec \/ ExpireDec \/ OnClose \/ \E k \in Keys : Expire(k)
  BY SMTT(60), <1>4 DEF DropManager, DrainAdd, DrainDuplicate, DrainRemove, DuplicateDec,
     ExpireDec, OnClose, Expire, histVars, workerVars
<1>5. CASE DrainShutdown \/ CallbackPanic \/ DrainSet
  BY <1>5 DEF DrainShutdown, CallbackPanic, DrainSet, Stop, histVars
<1>6. CASE \E c \in Conns, f \in Fields : Set(c, f)
  BY <1>6 DEF Set, workerVars
<1>7. QED
  BY <1>1, <1>2, <1>3, <1>4, <1>5, <1>6, NextKinds

\* What a set_output or set_run call does.
LEMMA SetEffect ==
  ASSUME Shape, NEW c, NEW f \in Fields, Set(c, f)
  PROVE  /\ c \in Setters /\ c \in Conns /\ pc[c] = "open" /\ UNCHANGED <<pc, table, todo>>
         /\ wanted[c][f] \in Nat
         /\ wanted'[c][f] = wanted[c][f] + 1
         /\ \A d \in Conns, g \in Fields : <<d, g>> # <<c, f>> => wanted'[d][g] = wanted[d][g]
         /\ \A d \in Conns : d # c => wanted'[d] = wanted[d]
         /\ stale' = [stale EXCEPT ![c] = 0]
<1>1. c \in Setters /\ c \in Conns /\ pc[c] = "open" /\ UNCHANGED <<pc, table, todo>>
  BY DEF Set, appVars, workerVars
<1>2. wanted \in [Conns -> [Fields -> Nat]]
  BY DEF Shape, Domains, Settings
<1>3. wanted' = [wanted EXCEPT ![c][f] = wanted[c][f] + 1]
  BY DEF Set
<1>4. QED
  BY <1>1, <1>2, <1>3 DEF Set

\* SetOrder is kept.
LEMMA StepOrder ==
  ASSUME Shape, Track, SetOrder, [Next]_vars
  PROVE  SetOrder'
<1>1. queue \in Seq(Command) /\ Len(queue) \in Nat
  BY DEF Shape, Domains
<1>2. wanted \in [Conns -> [Fields -> Nat]]
  BY DEF Shape, Domains, Settings
<1>3. \A i \in 1..Len(queue) : queue[i].op = "Set" =>
        queue[i].conn \in Conns /\ queue[i].field \in Fields /\ queue[i].val \in Nat
  BY <1>1 DEF Command, Cmd
<1>4. \A c \in Conns, f \in Fields : wanted[c][f] \in Nat /\ wanted'[c][f] \in Nat
                                     /\ wanted[c][f] <= wanted'[c][f]
  <2>1. CASE UNCHANGED wanted
    BY <1>2, <2>1
  <2>2. ASSUME NEW d \in Conns, NEW g \in Fields, Set(d, g)
        PROVE  \A c \in Conns, f \in Fields : wanted[c][f] \in Nat /\ wanted'[c][f] \in Nat
                                              /\ wanted[c][f] <= wanted'[c][f]
    BY <1>2, <2>2, SetEffect
  <2>3. QED
    BY <2>1, <2>2, SetStep
<1>5. \A i \in 1..Len(queue) : queue[i].op = "Set" =>
        /\ queue[i].conn \in Setters /\ pc'[queue[i].conn] \in Handled
        /\ queue[i].val <= wanted'[queue[i].conn][queue[i].field]
  <2> SUFFICES ASSUME NEW i \in 1..Len(queue), queue[i].op = "Set"
               PROVE  /\ queue[i].conn \in Setters /\ pc'[queue[i].conn] \in Handled
                      /\ queue[i].val <= wanted'[queue[i].conn][queue[i].field]
    OBVIOUS
  <2>1. PICK c \in Conns, f \in Fields, v \in Nat :
          queue[i].conn = c /\ queue[i].field = f /\ queue[i].val = v
    BY <1>3
  <2>2. c \in Setters /\ pc[c] \in Handled /\ v <= wanted[c][f]
    BY <2>1 DEF SetOrder
  <2>3. pc'[c] \in Handled /\ v <= wanted'[c][f]
    BY <1>4, <2>2, Progress DEF Track
  <2>4. QED
    BY <2>1, <2>2, <2>3
<1>6. \A i, j \in 1..Len(queue) : queue[i].op = "Set" /\ queue[j].conn = queue[i].conn =>
         /\ queue[j].op = "Add" => j < i
         /\ queue[j].op = "Set" /\ queue[j].field = queue[i].field /\ i < j
              => queue[i].val < queue[j].val
  BY DEF SetOrder
<1>7. SUFFICES /\ \A i \in 1..Len(queue') : queue'[i].op = "Set" =>
                    /\ queue'[i].conn \in Setters /\ pc'[queue'[i].conn] \in Handled
                    /\ queue'[i].val <= wanted'[queue'[i].conn][queue'[i].field]
               /\ \A i, j \in 1..Len(queue') :
                    queue'[i].op = "Set" /\ queue'[j].conn = queue'[i].conn =>
                      /\ queue'[j].op = "Add" => j < i
                      /\ queue'[j].op = "Set" /\ queue'[j].field = queue'[i].field /\ i < j
                           => queue'[i].val < queue'[j].val
  BY DEF SetOrder
<1>8. CASE queue' = queue
  BY <1>5, <1>6, <1>8
<1>9. CASE queue' = <<>>
  BY <1>9
<1>10. CASE queue # <<>> /\ queue' = Tail(queue)
  <2>1. \A i \in 1..Len(queue') :
          i \in Int /\ i + 1 \in 1..Len(queue) /\ queue'[i] = queue[i + 1]
    BY <1>1, <1>10, Received
  <2>2. ASSUME NEW i \in 1..Len(queue'), NEW j \in 1..Len(queue'), queue'[i].op = "Set",
               queue'[j].conn = queue'[i].conn
        PROVE  /\ queue'[j].op = "Add" => j < i
               /\ queue'[j].op = "Set" /\ queue'[j].field = queue'[i].field /\ i < j
                    => queue'[i].val < queue'[j].val
    <3>1. /\ i + 1 \in 1..Len(queue) /\ queue'[i] = queue[i + 1] /\ i \in Int
          /\ j + 1 \in 1..Len(queue) /\ queue'[j] = queue[j + 1] /\ j \in Int
      BY <2>1
    <3>2. /\ queue[j + 1].op = "Add" => j + 1 < i + 1
          /\ queue[j + 1].op = "Set" /\ queue[j + 1].field = queue[i + 1].field /\ i + 1 < j + 1
               => queue[i + 1].val < queue[j + 1].val
      BY <1>6, <2>2, <3>1
    <3>3. QED
      BY <3>1, <3>2
  <2>3. QED
    BY <1>5, <2>1, <2>2
<1>11. ASSUME NEW m \in Command, Send(m),
              m.op = "Add" => pc[m.conn] = "add",
              m.op = "Set" => Set(m.conn, m.field) /\ m.val = wanted[m.conn][m.field] + 1
       PROVE  /\ \A i \in 1..Len(queue') : queue'[i].op = "Set" =>
                   /\ queue'[i].conn \in Setters /\ pc'[queue'[i].conn] \in Handled
                   /\ queue'[i].val <= wanted'[queue'[i].conn][queue'[i].field]
              /\ \A i, j \in 1..Len(queue') :
                   queue'[i].op = "Set" /\ queue'[j].conn = queue'[i].conn =>
                     /\ queue'[j].op = "Add" => j < i
                     /\ queue'[j].op = "Set" /\ queue'[j].field = queue'[i].field /\ i < j
                          => queue'[i].val < queue'[j].val
  <2> DEFINE n == Len(queue)
  <2>1. /\ Len(queue') = n + 1
        /\ \A i \in 1..n : queue'[i] = queue[i]
        /\ queue'[n + 1] = m
    BY <1>1, <1>11, Appended
  <2>2. \A i \in 1..(n + 1) : i \in 1..n \/ i = n + 1
    BY <1>1
  <2>3. m.op = "Set" => /\ m.conn \in Conns /\ m.field \in Fields /\ m.val \in Nat
                        /\ m.conn \in Setters /\ pc'[m.conn] \in Handled
                        /\ m.val = wanted[m.conn][m.field] + 1
                        /\ m.val <= wanted'[m.conn][m.field]
    <3>1. m.op = "Set" => m.conn \in Conns /\ m.field \in Fields /\ m.val \in Nat
      BY DEF Command, Cmd
    <3>2. QED
      BY <1>4, <1>11, <3>1, SetEffect DEF Handled
  <2>4. m.op = "Add" => \A i \in 1..n : queue[i].conn = m.conn => queue[i].op # "Set"
    BY <1>11 DEF SetOrder, Handled
  <2>5. m.op = "Set" => \A i \in 1..n :
          queue[i].op = "Set" /\ queue[i].conn = m.conn /\ queue[i].field = m.field
            => queue[i].val < m.val
    BY SMTT(60), <1>3, <1>4, <2>3 DEF SetOrder
  <2>6. \A i \in 1..(n + 1) : queue'[i].op = "Set" =>
          /\ queue'[i].conn \in Setters /\ pc'[queue'[i].conn] \in Handled
          /\ queue'[i].val <= wanted'[queue'[i].conn][queue'[i].field]
    BY <1>5, <2>1, <2>2, <2>3
  <2>7. ASSUME NEW i \in 1..(n + 1), NEW j \in 1..(n + 1), queue'[i].op = "Set",
               queue'[j].conn = queue'[i].conn
        PROVE  /\ queue'[j].op = "Add" => j < i
               /\ queue'[j].op = "Set" /\ queue'[j].field = queue'[i].field /\ i < j
                    => queue'[i].val < queue'[j].val
    <3>1. CASE i \in 1..n /\ j \in 1..n
      BY <1>6, <2>1, <2>7, <3>1
    <3>2. CASE i \in 1..n /\ j = n + 1
      BY <2>1, <2>4, <2>5, <2>7, <3>2
    <3>3. CASE i = n + 1
      BY <1>1, <2>1, <2>7, <3>3
    <3>4. QED
      BY <2>2, <3>1, <3>2, <3>3
  <2>8. QED
    BY <2>1, <2>6, <2>7
<1>12. QED
  BY <1>8, <1>9, <1>10, <1>11, QueueChange DEF Track

\* How the settings on their way change with the channel.
LEMMA SetQueuedStep ==
  ASSUME queue \in Seq(Command)
  PROVE  /\ queue' = queue => \A c, f, v : SetQueued(c, f, v)' <=> SetQueued(c, f, v)
         /\ queue' = <<>> => \A c, f, v : ~SetQueued(c, f, v)'
         /\ queue # <<>> /\ queue' = Tail(queue) =>
              \A c, f, v : SetQueued(c, f, v) <=>
                \/ SetQueued(c, f, v)'
                \/ /\ Head(queue).op = "Set" /\ Head(queue).conn = c
                   /\ Head(queue).field = f /\ Head(queue).val = v
         /\ \A m \in Command : Send(m) =>
              \A c, f, v : SetQueued(c, f, v)' <=>
                \/ SetQueued(c, f, v)
                \/ m.op = "Set" /\ m.conn = c /\ m.field = f /\ m.val = v
<1>1. /\ queue' = queue => \A c, f, v : SetQueued(c, f, v)' <=> SetQueued(c, f, v)
      /\ queue' = <<>> => \A c, f, v : ~SetQueued(c, f, v)'
  BY DEF SetQueued
<1>2. ASSUME queue # <<>>, queue' = Tail(queue), NEW c, NEW f, NEW v
      PROVE  SetQueued(c, f, v) <=>
                \/ SetQueued(c, f, v)'
                \/ /\ Head(queue).op = "Set" /\ Head(queue).conn = c
                   /\ Head(queue).field = f /\ Head(queue).val = v
  <2>1. /\ Len(queue') = Len(queue) - 1 /\ Len(queue) \in Nat \ {0}
        /\ queue[1] = Head(queue)
        /\ \A i \in 1..Len(queue') : queue'[i] = queue[i + 1]
    BY <1>2, Received
  <2>2. \A i \in 1..Len(queue) : i # 1 => i - 1 \in 1..Len(queue') /\ queue'[i - 1] = queue[i]
    BY <2>1
  <2>3. \A i \in 1..Len(queue') : i + 1 \in 1..Len(queue) /\ queue[i + 1] = queue'[i]
    BY <2>1
  <2>4. 1 \in 1..Len(queue)
    BY <2>1
  <2>5. QED
    BY SMTT(60), <2>1, <2>2, <2>3, <2>4 DEF SetQueued
<1>3. ASSUME NEW m \in Command, Send(m), NEW c, NEW f, NEW v
      PROVE  SetQueued(c, f, v)' <=>
                \/ SetQueued(c, f, v)
                \/ m.op = "Set" /\ m.conn = c /\ m.field = f /\ m.val = v
  <2>1. /\ Len(queue') = Len(queue) + 1 /\ Len(queue) \in Nat
        /\ \A i \in 1..Len(queue) : queue'[i] = queue[i]
        /\ queue'[Len(queue) + 1] = m
    BY <1>3, Appended
  <2>2. 1..Len(queue') = 1..Len(queue) \cup {Len(queue) + 1}
    BY <2>1
  <2>3. QED
    BY <2>1, <2>2 DEF SetQueued
<1>4. QED
  BY <1>1, <1>2, <1>3

\* What the IO thread does with a setting: it changes the entry with the key of
\* its connection, which is that connection's or one that has not its settings
\* to itself.
LEMMA DrainSetEffect ==
  ASSUME Shape, Track, SetOrder, DrainSet
  PROVE  \E d \in Conns, g \in Fields, v \in Nat :
           /\ Head(queue).op = "Set" /\ Head(queue).conn = d
           /\ Head(queue).field = g /\ Head(queue).val = v
           /\ queue # <<>> /\ queue' = Tail(queue)
           /\ v <= wanted[d][g]
           /\ pc[d] \in Handled /\ ~Queued("Add", d)
           /\ \A w \in Nat : SetQueued(d, g, w)' => v < w /\ w <= wanted[d][g]
           /\ InTable(d) => setting'[d][g] = v
           /\ \A c \in Conns, f \in Fields : OwnSettings(c) /\ <<c, f>> # <<d, g>>
                => setting'[c][f] = setting[c][f]
           /\ UNCHANGED <<pc, table, wanted, stale, todo>> /\ todo = {}
<1>1. /\ worker = "drain" /\ queue # <<>> /\ Head(queue).op = "Set" /\ queue' = Tail(queue)
      /\ UNCHANGED <<pc, table, wanted, stale, todo>>
  BY DEF DrainSet, Receive, appVars, histVars
<1>2. queue \in Seq(Command) /\ todo = {}
  BY <1>1 DEF Shape, Domains, PhaseInv
<1>3. PICK d \in Conns, g \in Fields, v \in Nat :
        Head(queue).conn = d /\ Head(queue).field = g /\ Head(queue).val = v
  BY <1>1, <1>2, HeadOfQueue
<1>4. /\ Len(queue') = Len(queue) - 1 /\ Len(queue) \in Nat \ {0}
      /\ queue[1] = Head(queue)
      /\ \A i \in 1..Len(queue') : queue'[i] = queue[i + 1]
  BY <1>1, <1>2, Received
<1>5. 1 \in 1..Len(queue) /\ \A j \in 1..Len(queue) : ~(j < 1)
  BY <1>4
<1>6. /\ d \in Setters /\ pc[d] \in Handled /\ v <= wanted[d][g]
      /\ \A j \in 1..Len(queue) : queue[j].conn = d =>
           /\ queue[j].op # "Add"
           /\ queue[j].op = "Set" /\ queue[j].field = g /\ 1 < j => v < queue[j].val
  BY SMTT(60), <1>1, <1>3, <1>4, <1>5 DEF SetOrder
<1>7. ~Queued("Add", d)
  BY <1>6 DEF Queued
<1>8. \A w \in Nat : SetQueued(d, g, w)' => v < w /\ w <= wanted[d][g]
  <2> SUFFICES ASSUME NEW w \in Nat, NEW i \in 1..Len(queue'),
                      queue'[i].op = "Set", queue'[i].conn = d, queue'[i].field = g,
                      queue'[i].val = w
               PROVE  v < w /\ w <= wanted[d][g]
    BY DEF SetQueued
  <2>1. i + 1 \in 1..Len(queue) /\ 1 < i + 1 /\ queue[i + 1] = queue'[i]
    BY <1>4
  <2>2. v < w
    BY <1>6, <2>1
  <2>3. w <= wanted[d][g]
    BY <2>1 DEF SetOrder
  <2>4. QED
    BY <2>2, <2>3
<1>9. PICK e \in Conns \cup {NoConn} : e = table[KeyOf[d]]
  BY DEF Shape, Domains, ConstantsAssumption
<1>10. setting' = IF e = NoConn THEN setting ELSE [setting EXCEPT ![e][g] = v]
  BY <1>3, <1>9 DEF DrainSet
<1>11. setting \in [Conns -> [Fields -> Nat]]
  BY DEF Shape, Domains, Settings
<1>12. /\ InTable(d) => setting'[d][g] = v
       /\ \A c \in Conns, f \in Fields : OwnSettings(c) /\ <<c, f>> # <<d, g>>
            => setting'[c][f] = setting[c][f]
  <2>1. CASE e = NoConn
    BY <1>9, <1>10, <2>1, ConstantsAssumption DEF InTable
  <2>2. CASE e # NoConn
    <3>1. e \in Conns /\ KeyOf[e] = KeyOf[d]
      BY <1>9, <2>2, ConstantsAssumption DEF Track, PlaceInv
    <3>2. InTable(d) => e = d
      BY <1>9 DEF InTable
    <3>3. \A c \in Conns : OwnSettings(c) /\ c = e => c = d
      BY <1>6, <3>1 DEF OwnSettings
    <3>4. \A c \in Conns, f \in Fields : <<c, f>> # <<e, g>>
            => setting'[c][f] = setting[c][f]
      BY <1>10, <1>11, <2>2, <3>1
    <3>5. e = d => setting'[d][g] = v
      BY <1>10, <1>11, <2>2, <3>1
    <3>6. QED
      BY <3>2, <3>3, <3>4, <3>5
  <2>3. QED
    BY <2>1, <2>2
<1>13. QED
  BY <1>1, <1>2, <1>3, <1>6, <1>7, <1>8, <1>12

\* FreshInv is kept.
LEMMA StepFresh ==
  ASSUME Shape, Track, SetOrder, FreshInv, [Next]_vars
  PROVE  FreshInv'
<1>1. queue \in Seq(Command) /\ wanted' \in [Conns -> [Fields -> Nat]]
  BY StepShape DEF Shape, Domains, Settings
<1> SUFFICES ASSUME NEW c \in Conns, NEW f \in Fields, OwnSettings(c),
                    InTable(c)' \/ Pending(c)'
             PROVE  (\/ SetQueued(c, f, wanted[c][f])
                     \/ /\ \A v \in Nat : ~SetQueued(c, f, v)
                        /\ setting[c][f] = wanted[c][f])'
  BY DEF FreshInv
<1>2. PICK w \in Nat : w = wanted'[c][f]
  BY <1>1
<1> DEFINE Fresh == \/ SetQueued(c, f, w)'
                    \/ (\A v \in Nat : ~SetQueued(c, f, v)') /\ setting'[c][f] = w
<1>3. InTable(c) \/ Pending(c)
  <2>1. DrainAdd /\ c = Head(queue).conn => Pending(c)
    BY AddTaken DEF DrainAdd, appVars, Track
  <2>2. QED
    BY <2>1, TableStep, PendingStep DEF Track
<1>4. PICK u \in Nat : u = wanted[c][f]
  BY DEF Shape, Domains, Settings
<1>5. SetQueued(c, f, u) \/ ((\A v \in Nat : ~SetQueued(c, f, v)) /\ setting[c][f] = u)
  BY <1>3, <1>4 DEF FreshInv
<1>6. ASSUME NEW d \in Conns, NEW g \in Fields, Set(d, g) PROVE Fresh
  <2>1. PICK m \in Command : Send(m) /\ m.op = "Set" /\ m.conn = d /\ m.field = g
                             /\ m.val = wanted[d][g] + 1
    <3> DEFINE n == [op |-> "Set", conn |-> d, field |-> g, val |-> wanted[d][g] + 1]
    <3>1. n \in Command
      BY <1>6, SetEffect, CommandTypes
    <3>2. Send(n)
      BY <1>6 DEF Set
    <3>3. n.op = "Set" /\ n.conn = d /\ n.field = g /\ n.val = wanted[d][g] + 1
      OBVIOUS
    <3>4. QED
      BY <3>1, <3>2, <3>3
  <2>2. \A v : SetQueued(c, f, v)' <=>
          SetQueued(c, f, v) \/ (m.op = "Set" /\ m.conn = c /\ m.field = f /\ m.val = v)
    BY <1>1, <2>1, SetQueuedStep
  <2>3. UNCHANGED setting
    BY <1>6 DEF Set, workerVars
  <2>4. CASE <<d, g>> = <<c, f>>
    BY <1>2, <1>4, <1>6, <2>1, <2>2, <2>4, SetEffect
  <2>5. CASE <<d, g>> # <<c, f>>
    <3>1. w = u
      BY <1>2, <1>4, <1>6, <2>5, SetEffect
    <3>2. QED
      BY <1>5, <2>1, <2>2, <2>3, <2>5, <3>1
  <2>6. QED
    BY <2>4, <2>5
<1>7. ASSUME DrainSet PROVE Fresh
  <2>1. PICK d \in Conns, g \in Fields, v \in Nat :
           /\ Head(queue).op = "Set" /\ Head(queue).conn = d
           /\ Head(queue).field = g /\ Head(queue).val = v
           /\ queue # <<>> /\ queue' = Tail(queue)
           /\ v <= wanted[d][g]
           /\ pc[d] \in Handled /\ ~Queued("Add", d)
           /\ \A x \in Nat : SetQueued(d, g, x)' => v < x /\ x <= wanted[d][g]
           /\ InTable(d) => setting'[d][g] = v
           /\ \A a \in Conns, b \in Fields : OwnSettings(a) /\ <<a, b>> # <<d, g>>
                => setting'[a][b] = setting[a][b]
           /\ UNCHANGED <<pc, table, wanted, stale, todo>> /\ todo = {}
    BY <1>7, DrainSetEffect
  <2>2. w = u
    BY <1>2, <1>4, <2>1
  <2>3. \A x : SetQueued(c, f, x) <=>
          SetQueued(c, f, x)' \/ (<<c, f>> = <<d, g>> /\ x = v)
    BY <1>1, <2>1, SetQueuedStep
  <2>4. CASE <<c, f>> = <<d, g>>
    <3>1. InTable(c)
      BY <1>3, <2>1, <2>4 DEF Pending, Opening, Handled
    <3>2. setting'[c][f] = v
      BY <2>1, <2>4, <3>1
    <3>3. CASE v = u
      <4>1. \A x \in Nat : ~SetQueued(c, f, x)'
        BY <1>4, <2>1, <2>4, <3>3
      <4>2. QED
        BY <2>2, <3>2, <3>3, <4>1
    <3>4. CASE v # u
      <4>1. SetQueued(c, f, u)
        BY <1>5, <2>3, <2>4
      <4>2. QED
        BY <2>2, <2>3, <3>4, <4>1
    <3>5. QED
      BY <3>3, <3>4
  <2>5. CASE <<c, f>> # <<d, g>>
    BY <1>5, <2>1, <2>2, <2>3, <2>5
  <2>6. QED
    BY <2>4, <2>5
<1>8. ASSUME ~DrainSet, ~(\E d \in Conns, g \in Fields : Set(d, g)) PROVE Fresh
  <2>1. UNCHANGED <<setting, wanted>> /\ w = u
    BY <1>2, <1>4, <1>8, SetStep
  <2>2. ASSUME \A v : SetQueued(c, f, v)' <=> SetQueued(c, f, v) PROVE Fresh
    BY <1>5, <2>1, <2>2
  <2>3. CASE queue' = queue
    BY <1>1, <2>2, <2>3, SetQueuedStep
  <2>4. CASE queue' = <<>> /\ ~Alive'
    <3>1. ~InTable(c)' /\ ~Queued("Add", c)'
      BY <2>4, StepPlace, QueuedSame DEF Track, PlaceInv, InTable
    <3>2. pc[c] \in Opening
      BY <3>1, Progress DEF Track, Pending
    <3>3. ~SetQueued(c, f, u)
      BY <3>2 DEF SetQueued, SetOrder, Opening, Handled
    <3>4. QED
      BY <1>1, <1>5, <2>1, <2>4, <3>3, SetQueuedStep
  <2>5. CASE queue # <<>> /\ queue' = Tail(queue) /\ Head(queue).op # "Set"
    BY <1>1, <2>2, <2>5, SetQueuedStep
  <2>6. ASSUME NEW m \in Command, Send(m), m.op # "Set" PROVE Fresh
    BY <1>1, <2>2, <2>6, SetQueuedStep
  <2>7. ASSUME NEW m \in Command, m.op = "Set", Set(m.conn, m.field) PROVE FALSE
    BY <1>8, <2>7 DEF Command, Cmd
  <2>8. QED
    BY <1>8, <2>3, <2>4, <2>5, <2>6, <2>7, QueueChange DEF Track
<1>9. Fresh
  BY <1>6, <1>7, <1>8
<1>10. SetQueued(c, f, w)' => (SetQueued(c, f, wanted[c][f]))'
  BY <1>2 DEF SetQueued
<1>11. QED
  BY <1>2, <1>9, <1>10

\* StaleInv is kept.
LEMMA StepStale ==
  ASSUME Shape, Track, SetOrder, FreshInv, StaleInv, [Next]_vars
  PROVE  StaleInv'
<1> DEFINE Old(c) ==
      /\ stale[c] <= 1
      /\ stale[c] = 1 /\ InTable(c) => KeyOf[c] \notin todo \/ setting[c] = wanted[c]
      /\ ~OwnSettings(c) => stale[c] = 0
<1> SUFFICES ASSUME NEW c \in Conns PROVE Old(c)'
  BY DEF StaleInv
<1>1. Old(c) /\ stale[c] \in Nat
  BY DEF StaleInv, Shape, Domains
<1>2. CASE DrainEmpty
  <2>1. UNCHANGED <<stale, table, setting, wanted>> /\ queue = <<>>
    BY <1>2 DEF DrainEmpty, histVars
  <2>2. ASSUME InTable(c), OwnSettings(c) PROVE setting[c] = wanted[c]
    <3>1. \A f \in Fields : \A v : ~SetQueued(c, f, v)
      BY <2>1 DEF SetQueued
    <3>2. \A f \in Fields : setting[c][f] = wanted[c][f]
      BY <2>2, <3>1 DEF FreshInv
    <3>3. setting[c] \in [Fields -> Nat] /\ wanted[c] \in [Fields -> Nat]
      BY DEF Shape, Domains, Settings
    <3>4. QED
      BY <3>2, <3>3
  <2>3. QED
    BY <1>1, <2>1, <2>2 DEF InTable
<1>3. ASSUME NEW k \in Keys, ServiceSend(k) PROVE Old(c)'
  <2>1. /\ k \in todo /\ todo' = todo \ {k} /\ UNCHANGED <<table, setting, wanted>>
        /\ table[k] \in Conns
        /\ stale' = [stale EXCEPT ![table[k]] =
                       IF setting[table[k]] = wanted[table[k]] \/ ~OwnSettings(table[k])
                       THEN 0 ELSE @ + 1]
    BY <1>3 DEF ServiceSend, Shape, PhaseInv
  <2>2. KeyOf[table[k]] = k /\ InTable(table[k])
    BY <2>1 DEF Track, PlaceInv, InTable
  <2>3. CASE c = table[k]
    <3>1. setting[c] # wanted[c] => stale[c] = 0
      BY <1>1, <2>1, <2>2, <2>3
    <3>2. stale'[c] \in {0, 1} /\ (~OwnSettings(c) => stale'[c] = 0)
      BY <2>1, <2>3, <3>1 DEF Shape, Domains
    <3>3. KeyOf[c] \notin todo'
      BY <2>1, <2>2, <2>3
    <3>4. QED
      BY <3>2, <3>3
  <2>4. CASE c # table[k]
    <3>1. stale'[c] = stale[c]
      BY <2>1, <2>4 DEF Shape, Domains
    <3>2. QED
      BY <1>1, <2>1, <3>1 DEF InTable
  <2>5. QED
    BY <2>3, <2>4
<1>4. ASSUME NEW d \in Conns, NEW f \in Fields, Set(d, f) PROVE Old(c)'
  <2>1. CASE c = d
    <3>1. stale'[c] = 0
      BY <1>4, <2>1, SetEffect DEF Shape, Domains
    <3>2. QED
      BY <3>1
  <2>2. CASE c # d
    <3>1. /\ stale'[c] = stale[c] /\ wanted'[c] = wanted[c] /\ UNCHANGED <<table, todo>>
      BY SMTT(60), <1>4, <2>2, SetEffect DEF Shape, Domains
    <3>2. UNCHANGED setting
      BY SMTT(60), <1>4 DEF Set, workerVars
    <3>3. QED
      BY <1>1, <3>1, <3>2 DEF InTable
  <2>3. QED
    BY <2>1, <2>2
<1>5. CASE DrainSet \/ DrainAdd
  <2>1. UNCHANGED stale /\ todo' = {}
    BY <1>5 DEF DrainSet, DrainAdd, Receive, histVars, Shape, PhaseInv
  <2>2. QED
    BY SMTT(60), <1>1, <2>1
<1>6. ASSUME UNCHANGED <<late, stale>>, todo' \subseteq todo, ~DrainSet, ~DrainAdd,
             ~(\E d \in Conns, f \in Fields : Set(d, f))
      PROVE  Old(c)'
  <2>1. UNCHANGED <<setting, wanted>> /\ (InTable(c)' => InTable(c))
    BY <1>6, SetStep, TableStep
  <2>2. QED
    BY <1>1, <1>6, <2>1
<1>7. QED
  BY <1>2, <1>3, <1>4, <1>5, <1>6, TodoStep

\* After set_output or set_run at most one packet, of the pass under way, still
\* carries the older setting, if no other connection that is set ever has the
\* same key: commands name their connection only by key.
THEOREM StalePacketIsLast == Spec => []OneStalePacket
<1>1. Init => SetOrder /\ FreshInv /\ StaleInv
  BY DEF Init, SetOrder, FreshInv, StaleInv, SetQueued
<1>2. Shape /\ Track /\ SetOrder /\ FreshInv /\ StaleInv /\ [Next]_vars
        => SetOrder' /\ FreshInv' /\ StaleInv'
  BY StepOrder, StepFresh, StepStale
<1>3. StaleInv => OneStalePacket
  BY DEF StaleInv, OneStalePacket
<1>4. QED
  BY <1>1, <1>2, <1>3, Tracked, PTL DEF Spec

-----------------------------------------------------------------------------
(***************************************************************************)
(* The threads, channel and table of IoManager implement IoLifecycle, for  *)
(* any number of connections and any assignment of keys.                   *)
(*                                                                         *)
(* The step that opens a flag maps to Open, the three steps that swap one  *)
(* to Close, the on_close callback to Report; every other step, the        *)
(* subtraction from the counter included, leaves the abstract state alone. *)
(***************************************************************************)

\* The abstract counter.
Count == open_count - Cardinality(Decrementers)

\* It is the number of open flags, while a subtraction is outstanding too.
LEMMA CountIsOpen == CountMatches => Count = Cardinality(OpenFlags)
BY CountedFinite DEF CountMatches, Count

\* So it is after a step.
LEMMA CountIsOpenNext == CountMatches' => Count' = Cardinality(OpenFlags')
<1>1. (CountMatches => Count = Cardinality(OpenFlags))'
  BY CountIsOpen, PTL
<1>2. QED
  BY <1>1

\* A step that changes no flag and reports nothing is not seen.
LEMMA Unseen ==
  ASSUME CountMatches, CountMatches', UNCHANGED <<flag, closedBy, onClose>>
  PROVE  UNCHANGED Lifecycle!lvars
<1>1. OpenFlags' = OpenFlags /\ Status' = Status
  BY DEF OpenFlags, Status
<1>2. Count' = Count
  BY <1>1, CountIsOpen, CountIsOpenNext
<1>3. QED
  BY <1>1, <1>2 DEF Lifecycle!lvars, Count

\* The reply that opens the flag.
LEMMA OpenRefines ==
  ASSUME Shape, CountMatches, CountMatches', NEW c \in Conns, ForwardOpenReply(c)
  PROVE  Lifecycle!Open(c)
<1>1. /\ flag[c] = "unborn" /\ flag' = [flag EXCEPT ![c] = "open"]
      /\ UNCHANGED <<closedBy, onClose>>
  BY DEF ForwardOpenReply, Shape, FlagInv, histVars
<1>2. OpenFlags' = OpenFlags \cup {c} /\ c \notin OpenFlags
  BY <1>1 DEF OpenFlags, Shape, Domains
<1>3. Cardinality(OpenFlags') = Cardinality(OpenFlags) + 1
  BY <1>2, CountedFinite, FS_AddElement
<1>4. Status[c] = "unborn" /\ Status' = [Status EXCEPT ![c] = "open"]
  BY <1>1 DEF Status, Shape, Domains
<1>5. Count' = Count + 1
  BY <1>3, CountIsOpen, CountIsOpenNext
<1>6. QED
  BY <1>1, <1>4, <1>5 DEF Lifecycle!Open, Count

\* A swap of OpenFlag::close, by whichever thread wins.
LEMMA CloseRefines ==
  ASSUME Shape, CountMatches, CountMatches', NEW c \in Conns, NEW who, Swap(c, who),
         UNCHANGED onClose
  PROVE  Lifecycle!Close(c, who)
<1>1. /\ flag[c] = "open" /\ flag' = [flag EXCEPT ![c] = "closed"]
      /\ closedBy' = [closedBy EXCEPT ![c] = who]
  BY DEF Swap
<1>2. OpenFlags' = OpenFlags \ {c} /\ c \in OpenFlags
  BY <1>1 DEF OpenFlags, Shape, Domains
<1>3. Cardinality(OpenFlags') = Cardinality(OpenFlags) - 1
  BY <1>2, CountedFinite, FS_RemoveElement
<1>4. Status[c] = "open" /\ Status' = [Status EXCEPT ![c] = who]
  BY <1>1 DEF Status, Shape, Domains
<1>5. Count' = Count - 1
  BY <1>3, CountIsOpen, CountIsOpenNext
<1>6. QED
  BY <1>1, <1>4, <1>5 DEF Lifecycle!Close, Count

\* The on_close callback: the flag is closed, and nothing was reported before.
LEMMA ReportRefines ==
  ASSUME Shape, CloserInv, ReportInv, CountMatches, CountMatches', OnClose
  PROVE  cur \in Conns /\ Lifecycle!Report(cur)
<1>1. /\ cur \in Conns /\ onClose[cur] = 0 /\ closedBy[cur] \in {"timeout", "user"}
      /\ flag[cur] = "closed"
  BY DEF OnClose, Shape, Domains, PhaseInv, ReportInv, CloserInv
<1>2. onClose' = [onClose EXCEPT ![cur] = @ + 1] /\ UNCHANGED <<flag, closedBy>>
  BY DEF OnClose, flagVars
<1>3. onClose' = [onClose EXCEPT ![cur] = 1]
  BY <1>1, <1>2
<1>4. Status' = Status /\ Status[cur] \in {"timeout", "user"} /\ OpenFlags' = OpenFlags
  BY <1>1, <1>2 DEF Status, OpenFlags
<1>5. Count' = Count
  BY <1>4, CountIsOpen, CountIsOpenNext
<1>6. QED
  BY <1>1, <1>3, <1>4, <1>5 DEF Lifecycle!Report, Count

\* Every step is a step of the life cycle or is not seen.
LEMMA StepRefines ==
  ASSUME Shape, CountMatches, Track, [Next]_vars, CountMatches'
  PROVE  Lifecycle!LNext \/ UNCHANGED Lifecycle!lvars
<1>1. CASE Quiet
  BY <1>1, QuietFrame, Unseen
<1>2. ASSUME NEW c \in Conns, Calls(c)
      PROVE  Lifecycle!LNext \/ UNCHANGED Lifecycle!lvars
  <2>1. CASE ForwardOpenReply(c)
    BY <2>1, OpenRefines DEF Lifecycle!LNext
  <2>2. CASE ForwardClose(c)
    <3>1. Swap(c, "user") /\ UNCHANGED onClose
      BY <2>2 DEF ForwardClose
    <3>2. QED
      BY <3>1, CloseRefines DEF Lifecycle!LNext
  <2>3. CASE ~ForwardOpenReply(c) /\ ~ForwardClose(c)
    <3>1. UNCHANGED <<flag, closedBy, onClose>>
      BY <1>2, <2>3 DEF Calls, ForwardOpenRefused, ForwardOpenAccepted, ForwardOpenReplyLost,
         ForwardCloseLate, ForwardCloseDec, ForwardCloseRequest, flagVars, histVars
    <3>2. QED
      BY <3>1, Unseen
  <2>4. QED
    BY <2>1, <2>2, <2>3
<1>3. CASE \/ \E c \in Conns : ForwardOpenAdd(c) \/ ForwardCloseRemove(c)
           \/ \E c \in Conns, f \in Fields : Set(c, f)
           \/ DropManager
  <2>1. UNCHANGED <<flag, closedBy, onClose>>
    BY <1>3 DEF ForwardOpenAdd, ForwardCloseRemove, Set, DropManager, flagVars, histVars
  <2>2. QED
    BY <2>1, Unseen
<1>4. CASE DrainAdd \/ DrainRemove \/ DrainSet \/ DuplicateDec \/ ExpireDec \/ DrainShutdown
           \/ CallbackPanic
  <2>1. UNCHANGED <<flag, closedBy, onClose>>
    BY <1>4 DEF DrainAdd, DrainRemove, DrainSet, DuplicateDec, ExpireDec, DrainShutdown,
       CallbackPanic, Stop, flagVars, histVars
  <2>2. QED
    BY <2>1, Unseen
<1>5. CASE DrainDuplicate
  <2>1. PICK c \in Conns : c = Head(queue).conn
    BY <1>5, HeadOfQueue DEF DrainDuplicate, Receive, Shape, Domains
  <2>2. UNCHANGED onClose /\ (Swap(c, "duplicate") \/ UNCHANGED <<flag, closedBy>>)
    BY <1>5, <2>1 DEF DrainDuplicate
  <2>3. QED
    BY <2>2, CloseRefines, Unseen DEF Lifecycle!LNext
<1>6. ASSUME NEW k \in Keys, Expire(k)
      PROVE  Lifecycle!LNext \/ UNCHANGED Lifecycle!lvars
  <2>1. PICK c \in Conns : c = table[k]
    BY <1>6 DEF Expire, Shape, PhaseInv
  <2>2. UNCHANGED onClose /\ (Swap(c, "timeout") \/ UNCHANGED <<flag, closedBy>>)
    BY <1>6, <2>1 DEF Expire
  <2>3. QED
    BY <2>2, CloseRefines, Unseen DEF Lifecycle!LNext
<1>7. CASE OnClose
  BY <1>7, ReportRefines DEF Lifecycle!LNext, Track
<1>8. QED
  BY <1>1, <1>2, <1>3, <1>4, <1>5, <1>6, <1>7, NextKinds

\* Whatever the threads do, the holder of a handle sees a connection opened
\* once, closed once by one closer, has_open_connections following at once,
\* and on_close at most once and after the close.
THEOREM Refinement == Spec => ImplementsLifecycle
<1>1. Init => Lifecycle!LInit
  <2> SUFFICES ASSUME Init PROVE Lifecycle!LInit
    OBVIOUS
  <2>1. Decrementers = {}
    BY DEF Init, Decrementers
  <2>2. open_count - Cardinality(Decrementers) = 0
    BY <2>1, FS_EmptySet DEF Init
  <2>3. Status = [c \in Conns |-> "unborn"]
    BY DEF Init, Status
  <2>4. QED
    BY <2>2, <2>3 DEF Init, Lifecycle!LInit
<1>2. Shape /\ CountMatches /\ Track /\ [Next]_vars /\ CountMatches'
        => [Lifecycle!LNext]_Lifecycle!lvars
  BY StepRefines
<1>3. QED
  BY <1>1, <1>2, Tracked, PTL DEF Spec, ImplementsLifecycle, Lifecycle!LSpec

=============================================================================
