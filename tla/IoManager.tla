------------------------------ MODULE IoManager ------------------------------
(***************************************************************************)
(* The life of I/O connections between the application threads, the        *)
(* ConnectionManager they call and the IO thread that serves them.         *)
(*                                                                         *)
(* Application threads run forward_open, forward_close, set_output and     *)
(* set_run; they share with the IO thread one FIFO of commands (an mpsc    *)
(* channel) and, per connection, an OpenFlag (an atomic boolean plus a     *)
(* counter common to all connections).  The two atomic operations of       *)
(* OpenFlag::close are separate steps here.  The IO thread loops through   *)
(* drain_commands, service_connections and the wait on its sockets.        *)
(*                                                                         *)
(* Time is left out: an entry may be found timed out, due or not due at    *)
(* any pass, which is what arbitrary thread delays allow.  The clock, the  *)
(* send schedule and the received packets are the subject of module        *)
(* IoConnection.                                                           *)
(***************************************************************************)
EXTENDS Naturals, Sequences, FiniteSets

CONSTANTS
  Conns,          \* connection instances; each is opened at most once
  NoConn,         \* "no connection": an empty slot of the table
  Keys,           \* ConnectionKey values (device address, T->O ID)
  KeyOf,          \* the key the target's reply gives each connection
  CallbackPanics, \* TRUE: a user callback may panic on the IO thread
  Setters,        \* bound: connections whose output and run are set
  MaxSets         \* bound: set_output and set_run calls for each of them

ASSUME ConstantsAssumption ==
  /\ IsFiniteSet(Conns)
  /\ NoConn \notin Conns
  /\ KeyOf \in [Conns -> Keys]
  /\ CallbackPanics \in BOOLEAN
  /\ Setters \subseteq Conns
  /\ MaxSets \in Nat

VARIABLES
  \* Application threads and the state they share.
  pc,          \* position of the thread that works on each connection
  flag,        \* OpenFlag::open of each connection ("unborn": no flag yet)
  open_count,  \* ConnectionManager::open_count
  queue,       \* commands sent and not yet received by the IO thread
  mgr,         \* the ConnectionManager value: live, being dropped, dropped
  \* The IO thread.
  worker,      \* position in Worker::run
  cur,         \* connection whose flag the IO thread is closing
  table,       \* Worker::connections
  todo,        \* keys service_connections has still to visit
  expired,     \* keys in service_connections' timed_out list
  setting,     \* output and run of each entry: ordinal of the value held
  \* The device.
  released,    \* connections whose Forward Close the target has carried out
  \* History, read only by the properties.
  reused,      \* keys given out while a connection that has them was in use
  wanted,      \* output and run of the last set_output / set_run accepted
  stale,       \* packets sent with an older setting since that call, of a
               \* connection whose key no other setter has
  late,        \* packets sent after forward_close queued its Remove
  onClose,     \* on_close calls
  closedBy     \* who closed the flag

appVars    == <<pc, mgr, released, reused>>
flagVars   == <<flag, open_count>>
workerVars == <<worker, cur, table, todo, expired, setting>>
histVars   == <<wanted, stale, late, onClose, closedBy>>
vars == <<appVars, flagVars, queue, workerVars, histVars>>

Fields   == {"output", "run"}
Settings == [Fields -> Nat]

\* Commands name the connection they come from; the IO thread looks only at
\* its key (Add brings the connection itself).
Cmd(op, c) == [op |-> op, conn |-> c, field |-> "output", val |-> 0]
Command ==
  [op: {"Add", "Remove", "Set"}, conn: Conns, field: Fields, val: Nat]
    \cup {Cmd("Shutdown", NoConn)}

PcValues == {"none", "reply", "add", "open", "closeDec", "closeRemove",
             "closeRequest", "done", "failed"}
WorkerPhases == {"drain", "dupDec", "service", "expire", "expireDec",
                 "onClose", "wait", "stopped"}

\* ConnectionManager::with_config: the thread runs, nothing is open.
Init ==
  /\ pc = [c \in Conns |-> "none"]
  /\ flag = [c \in Conns |-> "unborn"]
  /\ open_count = 0
  /\ queue = <<>>
  /\ mgr = "live"
  /\ worker = "drain"
  /\ cur = NoConn
  /\ table = [k \in Keys |-> NoConn]
  /\ todo = {}
  /\ expired = {}
  /\ setting = [c \in Conns |-> [f \in Fields |-> 0]]
  /\ released = {}
  /\ reused = {}
  /\ wanted = [c \in Conns |-> [f \in Fields |-> 0]]
  /\ stale = [c \in Conns |-> 0]
  /\ late = [c \in Conns |-> 0]
  /\ onClose = [c \in Conns |-> 0]
  /\ closedBy = [c \in Conns |-> "nobody"]

Goto(c, p) == pc' = [pc EXCEPT ![c] = p]

\* The receiving end of the channel lives as long as the IO thread.
Alive == worker # "stopped"

\* IoSender::send: fails once the receiver is gone.  The wake byte only
\* shortens the wait, which ends by itself after idle_wait, so it is left out.
Send(cmd) == /\ Alive
             /\ queue' = Append(queue, cmd)

\* The swap of OpenFlag::close that finds the flag open.
Swap(c, who) ==
  /\ flag[c] = "open"
  /\ flag' = [flag EXCEPT ![c] = "closed"]
  /\ closedBy' = [closedBy EXCEPT ![c] = who]

\* The fetch_sub of OpenFlag::close.
Decrement == open_count' = open_count - 1

-----------------------------------------------------------------------------
(* ConnectionManager::forward_open, up to its request. *)

\* The configuration is refused, or the request fails or is refused: Err.
ForwardOpenRefused(c) ==
  /\ mgr = "live" /\ pc[c] = "none"
  /\ Goto(c, "failed")
  /\ UNCHANGED <<mgr, released, reused, flagVars, queue, workerVars, histVars>>

\* Is c being opened, open, or closed without its Remove sent?
Served(c) == flag[c] = "open" \/ pc[c] \in {"reply", "closeDec", "closeRemove"}

\* The target accepts the request, with any ID: it may have timed out the
\* connection that had it before, whatever the scanner does with that.
ForwardOpenAccepted(c) ==
  /\ mgr = "live" /\ pc[c] = "none"
  /\ LET others == {d \in Conns \ released : KeyOf[d] = KeyOf[c] /\ Served(d)}
     IN  reused' = reused \cup {KeyOf[d] : d \in others}
  /\ Goto(c, "reply")
  /\ UNCHANGED <<mgr, released, flagVars, queue, workerVars, histVars>>

\* The reply is lost or does not decode: Err.
ForwardOpenReplyLost(c) ==
  /\ pc[c] = "reply"
  /\ Goto(c, "failed")
  /\ UNCHANGED <<mgr, released, reused, flagVars, queue, workerVars, histVars>>

\* The reply arrives; OpenFlag::new counts the connection.
ForwardOpenReply(c) ==
  /\ pc[c] = "reply"
  /\ flag' = [flag EXCEPT ![c] = "open"]
  /\ open_count' = open_count + 1
  /\ Goto(c, "add")
  /\ UNCHANGED <<mgr, released, reused, queue, workerVars, histVars>>

\* Command::Add goes to the IO thread; with the thread gone the caller gets
\* an error and no handle.
ForwardOpenAdd(c) ==
  /\ pc[c] = "add"
  /\ \/ /\ Send(Cmd("Add", c))
        /\ Goto(c, "open")
     \/ /\ ~Alive
        /\ Goto(c, "failed")
        /\ UNCHANGED queue
  /\ UNCHANGED <<mgr, released, reused, flagVars, workerVars, histVars>>

-----------------------------------------------------------------------------
(* ConnectionManager::forward_close, which consumes the handle. *)

\* handle.flag.close() finds the flag open; its fetch_sub is the next step.
ForwardClose(c) ==
  /\ mgr = "live" /\ pc[c] = "open"
  /\ Swap(c, "user")
  /\ Goto(c, "closeDec")
  /\ UNCHANGED <<mgr, released, reused, open_count, queue, workerVars,
                 wanted, stale, late, onClose>>

\* The flag was already closed: logged, Ok, nothing is sent.
ForwardCloseLate(c) ==
  /\ mgr = "live" /\ pc[c] = "open"
  /\ flag[c] # "open"
  /\ Goto(c, "done")
  /\ UNCHANGED <<mgr, released, reused, flagVars, queue, workerVars, histVars>>

\* Mutant: Forward Close reaches the target before Remove is queued.
BugRequestFirst(c) ==
  /\ pc[c] = "closeDec"
  /\ Decrement
  /\ released' = released \cup {c}
  /\ Goto(c, "closeRemove")
  /\ UNCHANGED <<mgr, reused, flag, queue, workerVars, histVars>>

ForwardCloseDec(c) ==
  /\ pc[c] = "closeDec"
  /\ Decrement
  /\ Goto(c, "closeRemove")
  /\ UNCHANGED <<mgr, released, reused, flag, queue, workerVars, histVars>>

\* Mutant: the Remove command is forgotten.
BugNoRemove(c) ==
  /\ pc[c] = "closeRemove"
  /\ Goto(c, "closeRequest")
  /\ UNCHANGED <<mgr, released, reused, flagVars, queue, workerVars, histVars>>

\* Command::Remove; with the thread gone the call ends before Forward Close.
ForwardCloseRemove(c) ==
  /\ pc[c] = "closeRemove"
  /\ \/ /\ Send(Cmd("Remove", c))
        /\ Goto(c, "closeRequest")
     \/ /\ ~Alive
        /\ Goto(c, "done")
        /\ UNCHANGED queue
  /\ UNCHANGED <<mgr, released, reused, flagVars, workerVars, histVars>>

\* Forward Close: the target obeys, or refuses it, or never sees it.
ForwardCloseRequest(c) ==
  /\ pc[c] = "closeRequest"
  /\ \/ released' = released \cup {c}
     \/ UNCHANGED released
  /\ Goto(c, "done")
  /\ UNCHANGED <<mgr, reused, flagVars, queue, workerVars, histVars>>

-----------------------------------------------------------------------------
(* The handle's other calls, and the end of the manager. *)

\* IoConnectionHandle::set_output and set_run.  With the thread gone they
\* return an error and change nothing.
Set(c, f) ==
  /\ pc[c] = "open"
  /\ c \in Setters
  /\ wanted[c]["output"] + wanted[c]["run"] < MaxSets
  /\ LET n == wanted[c][f] + 1
     IN  /\ Send([op |-> "Set", conn |-> c, field |-> f, val |-> n])
         /\ wanted' = [wanted EXCEPT ![c][f] = n]
  /\ stale' = [stale EXCEPT ![c] = 0]
  /\ UNCHANGED <<appVars, flagVars, workerVars, late, onClose, closedBy>>

SetOutput(c) == Set(c, "output")
SetRun(c)    == Set(c, "run")

\* Mutant: the drop joins without asking the thread to stop.
BugDropWithoutShutdown ==
  /\ mgr = "live"
  /\ \A c \in Conns : pc[c] \in {"none", "open", "done", "failed"}
  /\ mgr' = "dropping"
  /\ UNCHANGED <<pc, released, reused, flagVars, queue, workerVars, histVars>>

\* IoThread::drop sends Shutdown.  forward_open and forward_close borrow the
\* manager, so no thread is inside one of them.
DropManager ==
  /\ mgr = "live"
  /\ \A c \in Conns : pc[c] \in {"none", "open", "done", "failed"}
  /\ mgr' = "dropping"
  /\ \/ Send(Cmd("Shutdown", NoConn))
     \/ ~Alive /\ UNCHANGED queue
  /\ UNCHANGED <<pc, released, reused, flagVars, workerVars, histVars>>

\* IoThread::drop returns from join.
JoinThread ==
  /\ mgr = "dropping" /\ ~Alive
  /\ mgr' = "dropped"
  /\ UNCHANGED <<pc, released, reused, flagVars, queue, workerVars, histVars>>

Queued(op, c) == \E i \in 1..Len(queue) : queue[i].op = op /\ queue[i].conn = c
InTable(c)    == table[KeyOf[c]] = c

-----------------------------------------------------------------------------
(* Worker::drain_commands: one received command per step. *)

Receive(op) ==
  /\ worker = "drain"
  /\ queue # <<>> /\ Head(queue).op = op
  /\ queue' = Tail(queue)

\* Add finds its key free.
DrainAdd ==
  /\ Receive("Add")
  /\ LET c == Head(queue).conn
     IN  /\ table[KeyOf[c]] = NoConn
         /\ table' = [table EXCEPT ![KeyOf[c]] = c]
  /\ UNCHANGED <<appVars, flagVars, worker, cur, todo, expired, setting,
                 histVars>>

\* Add finds its key taken: the new connection is dropped and its flag
\* closed, without on_close.
DrainDuplicate ==
  /\ Receive("Add")
  /\ LET c == Head(queue).conn
     IN  /\ table[KeyOf[c]] # NoConn
         /\ \/ /\ Swap(c, "duplicate")
               /\ worker' = "dupDec" /\ cur' = c
            \/ /\ flag[c] # "open"
               /\ UNCHANGED <<flag, closedBy, worker, cur>>
  /\ UNCHANGED <<appVars, open_count, table, todo, expired, setting,
                 wanted, stale, late, onClose>>

DuplicateDec ==
  /\ worker = "dupDec"
  /\ Decrement
  /\ worker' = "drain" /\ cur' = NoConn
  /\ UNCHANGED <<appVars, flag, queue, table, todo, expired, setting, histVars>>

\* Mutant: Remove is received and not carried out.
BugRemoveIgnored ==
  /\ Receive("Remove")
  /\ UNCHANGED <<appVars, flagVars, workerVars, histVars>>

\* Remove takes out whatever entry has the key.
DrainRemove ==
  /\ Receive("Remove")
  /\ table' = [table EXCEPT ![KeyOf[Head(queue).conn]] = NoConn]
  /\ UNCHANGED <<appVars, flagVars, worker, cur, todo, expired, setting,
                 histVars>>

\* SetOutput and SetRun change whatever entry has the key.
DrainSet ==
  /\ Receive("Set")
  /\ LET m == Head(queue)
         d == table[KeyOf[m.conn]]
     IN  setting' = IF d = NoConn THEN setting
                    ELSE [setting EXCEPT ![d][m.field] = m.val]
  /\ UNCHANGED <<appVars, flagVars, worker, cur, table, todo, expired,
                 histVars>>

\* The thread ends: the channel's receiver and all entries are dropped, the
\* flags of the entries are left as they are.
Stop ==
  /\ worker' = "stopped"
  /\ cur' = NoConn
  /\ queue' = <<>>
  /\ table' = [k \in Keys |-> NoConn]
  /\ todo' = {} /\ expired' = {}
  /\ UNCHANGED <<appVars, flagVars, setting, histVars>>

DrainShutdown ==
  /\ worker = "drain"
  /\ queue # <<>> /\ Head(queue).op = "Shutdown"
  /\ Stop

\* Mutant: the commands after the first wait for the next pass.
BugDrainSome ==
  /\ worker = "drain"
  /\ worker' = "service"
  /\ todo' = {k \in Keys : table[k] # NoConn}
  /\ UNCHANGED <<appVars, flagVars, queue, cur, table, expired, setting,
                 histVars>>

\* The channel is empty: on to service_connections.
DrainEmpty ==
  /\ worker = "drain"
  /\ queue = <<>>
  /\ worker' = "service"
  /\ todo' = {k \in Keys : table[k] # NoConn}
  /\ UNCHANGED <<appVars, flagVars, queue, cur, table, expired, setting,
                 histVars>>

-----------------------------------------------------------------------------
(* Worker::service_connections, entries in any order (a HashMap). *)

ServiceTimedOut(k) ==
  /\ worker = "service" /\ k \in todo
  /\ todo' = todo \ {k}
  /\ expired' = expired \cup {k}
  /\ UNCHANGED <<appVars, flagVars, queue, worker, cur, table, setting,
                 histVars>>

\* The entry is not due, or its output does not have the fixed size.
ServiceNoSend(k) ==
  /\ worker = "service" /\ k \in todo
  /\ todo' = todo \ {k}
  /\ UNCHANGED <<appVars, flagVars, queue, worker, cur, table, expired,
                 setting, histVars>>

\* Has forward_close queued the Remove of c?
RemoveSent(c) == closedBy[c] = "user" /\ pc[c] \in {"closeRequest", "done"}

\* Does no other connection that is set have the key of c?  Otherwise the IO
\* thread may give c a setting that was meant for the other one.
OwnSettings(c) == \A d \in Setters : KeyOf[d] = KeyOf[c] => d = c

\* The entry is due: its packet goes out.
ServiceSend(k) ==
  /\ worker = "service" /\ k \in todo
  /\ todo' = todo \ {k}
  /\ LET c == table[k]
     IN  /\ stale' = [stale EXCEPT ![c] =
                        IF setting[c] = wanted[c] \/ ~OwnSettings(c) THEN 0
                        ELSE @ + 1]
         /\ late' = [late EXCEPT ![c] = IF RemoveSent(c) THEN @ + 1 ELSE @]
  /\ UNCHANGED <<appVars, flagVars, queue, worker, cur, table, expired,
                 setting, wanted, onClose, closedBy>>

ServiceDone ==
  /\ worker = "service" /\ todo = {}
  /\ worker' = "expire"
  /\ UNCHANGED <<appVars, flagVars, queue, cur, table, todo, expired, setting,
                 histVars>>

\* Mutant: the counter goes down whether or not the flag was open.
BugExpireUnguarded(k) ==
  /\ worker = "expire" /\ k \in expired
  /\ expired' = expired \ {k}
  /\ table' = [table EXCEPT ![k] = NoConn]
  /\ cur' = table[k]
  /\ flag' = [flag EXCEPT ![table[k]] = "closed"]
  /\ worker' = "expireDec"
  /\ UNCHANGED <<appVars, open_count, queue, todo, setting, histVars>>

\* Mutant: the timed-out entry stays in the table.
BugExpireEntryKept(k) ==
  /\ worker = "expire" /\ k \in expired
  /\ expired' = expired \ {k}
  /\ cur' = table[k]
  /\ \/ /\ Swap(table[k], "timeout")
        /\ worker' = "expireDec"
     \/ /\ flag[table[k]] # "open"
        /\ worker' = "onClose"
        /\ UNCHANGED <<flag, closedBy>>
  /\ UNCHANGED <<appVars, open_count, queue, table, todo, setting,
                 wanted, stale, late, onClose>>

\* A timed-out entry leaves the table and its flag is closed; the answer of
\* close() is not looked at.
Expire(k) ==
  /\ worker = "expire" /\ k \in expired
  /\ expired' = expired \ {k}
  /\ table' = [table EXCEPT ![k] = NoConn]
  /\ cur' = table[k]
  /\ \/ /\ Swap(table[k], "timeout")
        /\ worker' = "expireDec"
     \/ /\ flag[table[k]] # "open"
        /\ worker' = "onClose"
        /\ UNCHANGED <<flag, closedBy>>
  /\ UNCHANGED <<appVars, open_count, queue, todo, setting,
                 wanted, stale, late, onClose>>

\* Mutant: on_close is skipped for the connection that was still open.
BugExpireSilently ==
  /\ worker = "expireDec"
  /\ Decrement
  /\ worker' = "expire" /\ cur' = NoConn
  /\ UNCHANGED <<appVars, flag, queue, table, todo, expired, setting, histVars>>

ExpireDec ==
  /\ worker = "expireDec"
  /\ Decrement
  /\ worker' = "onClose"
  /\ UNCHANGED <<appVars, flag, queue, cur, table, todo, expired, setting,
                 histVars>>

\* The on_close callback.
OnClose ==
  /\ worker = "onClose"
  /\ onClose' = [onClose EXCEPT ![cur] = @ + 1]
  /\ worker' = "expire" /\ cur' = NoConn
  /\ UNCHANGED <<appVars, flagVars, queue, table, todo, expired, setting,
                 wanted, stale, late, closedBy>>

ExpireDone ==
  /\ worker = "expire" /\ expired = {}
  /\ worker' = "wait"
  /\ UNCHANGED <<appVars, flagVars, queue, cur, table, todo, expired, setting,
                 histVars>>

\* wait_readable returns, by a packet, a wake byte, the deadline or an error;
\* receive_all only refreshes what is not modelled here.
Wait ==
  /\ worker = "wait"
  /\ worker' = "drain"
  /\ UNCHANGED <<appVars, flagVars, queue, cur, table, todo, expired, setting,
                 histVars>>

\* A panic in on_send, on_close or on_receive unwinds the thread.
CallbackPanic ==
  /\ CallbackPanics
  /\ \/ worker = "service" /\ todo # {}
     \/ worker = "onClose"
     \/ worker = "wait" /\ \E k \in Keys : table[k] # NoConn
  /\ Stop

-----------------------------------------------------------------------------

AppStep(c) ==
  \/ ForwardOpenRefused(c) \/ ForwardOpenAccepted(c) \/ ForwardOpenReplyLost(c)
  \/ ForwardOpenReply(c) \/ ForwardOpenAdd(c)
  \/ ForwardClose(c) \/ ForwardCloseLate(c) \/ ForwardCloseDec(c)
  \/ ForwardCloseRemove(c) \/ ForwardCloseRequest(c)
  \/ SetOutput(c) \/ SetRun(c)

Service(k) == ServiceTimedOut(k) \/ ServiceNoSend(k) \/ ServiceSend(k)

WorkerStep ==
  \/ DrainAdd \/ DrainDuplicate \/ DuplicateDec \/ DrainRemove \/ DrainSet
  \/ DrainShutdown \/ DrainEmpty
  \/ \E k \in Keys : Service(k)
  \/ ServiceDone
  \/ \E k \in Keys : Expire(k)
  \/ ExpireDec \/ OnClose \/ ExpireDone
  \/ Wait

\* The manager is gone and so is the thread: nothing has to happen any more.
Finished == mgr = "dropped" /\ UNCHANGED vars

Next ==
  \/ \E c \in Conns : AppStep(c)
  \/ DropManager \/ JoinThread
  \/ WorkerStep \/ CallbackPanic
  \/ Finished

Spec == Init /\ [][Next]_vars

\* Threads that are not blocked run: the IO thread (its wait is bounded by
\* idle_wait), a thread inside forward_close (its requests are bounded by the
\* socket timeouts), and the join of the drop.
Fairness ==
  /\ WF_vars(WorkerStep)
  /\ WF_vars(JoinThread)
  /\ \A c \in Conns : /\ WF_vars(ForwardCloseDec(c))
                      /\ WF_vars(ForwardCloseRemove(c))
                      /\ WF_vars(ForwardCloseRequest(c))

FairSpec == Spec /\ Fairness

-----------------------------------------------------------------------------
(* Properties *)

\* Every variable stays in its domain; in particular open_count, a usize,
\* never goes below zero.
TypeOK ==
  /\ pc \in [Conns -> PcValues]
  /\ flag \in [Conns -> {"unborn", "open", "closed"}]
  /\ open_count \in Nat
  /\ queue \in Seq(Command)
  /\ mgr \in {"live", "dropping", "dropped"}
  /\ worker \in WorkerPhases
  /\ cur \in Conns \cup {NoConn}
  /\ table \in [Keys -> Conns \cup {NoConn}]
  /\ todo \subseteq Keys
  /\ expired \subseteq Keys
  /\ setting \in [Conns -> Settings]
  /\ released \subseteq Conns
  /\ reused \subseteq Keys
  /\ wanted \in [Conns -> Settings]
  /\ stale \in [Conns -> Nat]
  /\ late \in [Conns -> Nat]
  /\ onClose \in [Conns -> Nat]
  /\ closedBy \in [Conns -> {"nobody", "user", "timeout", "duplicate"}]

OpenFlags    == {c \in Conns : flag[c] = "open"}
Decrementers == {c \in Conns : \/ pc[c] = "closeDec"
                               \/ worker \in {"dupDec", "expireDec"} /\ cur = c}

\* has_open_connections counts exactly the open flags, plus those a thread has
\* swapped and is about to subtract: application threads and the IO thread
\* racing to close the same connection never subtract twice or forget to.
CountMatches ==
  open_count = Cardinality(OpenFlags) + Cardinality(Decrementers)

\* "Open/closed state shared between a connection's handle and the IO thread"
\* (OpenFlag): while the IO thread runs, a connection whose flag says open is
\* in its table, or its Add is on the way there: no Remove, which names its
\* connection only by key, takes out another one.  The exception is a key the
\* target gave out again too early: it timed out by itself a connection that is
\* still served here, and did not wait for Forward Close.
OpenIsTracked ==
  Alive => \A c \in OpenFlags :
             \/ pc[c] = "add" \/ Queued("Add", c) \/ InTable(c)
             \/ KeyOf[c] \in reused

\* README: "If T->O data stops for longer than the connection timeout [...], the
\* connection is dropped".  Only the IO thread notices, and only of an entry of
\* its table: an open connection must not get lost, whatever IDs the target
\* gives out.
OpenCanTimeOut ==
  Alive => \A c \in OpenFlags : pc[c] = "add" \/ Queued("Add", c) \/ InTable(c)

\* A closed connection still in the table is on its way out: the thread that
\* closed it is about to send Remove, or the Remove is in the channel.  No
\* entry keeps sending for ever after forward_close.
ClosedIsLeaving ==
  \A c \in Conns :
    InTable(c) /\ flag[c] = "closed"
      => pc[c] \in {"closeDec", "closeRemove"} \/ Queued("Remove", c)

\* "Stops the connection on the IO thread" (forward_close): once Remove is in
\* the channel the connection sends at most one more packet, in the pass of
\* service_connections that is under way.
OneLatePacket == \A c \in Conns : late[c] <= 1

\* "Applied at the next O->T send" (set_output, set_run): at most one packet,
\* again of the pass under way, still carries the older setting.  Connections
\* with the key of another that is set are not counted: SetOutput names a key,
\* so a handle whose connection has timed out still changes the next one.
OneStalePacket == \A c \in Conns : stale[c] <= 1

\* on_close runs at most once, after the flag is closed and the entry gone,
\* and never for a connection the IO thread refused as a duplicate.
OnCloseOnce ==
  \A c \in Conns :
    onClose[c] > 0 => /\ onClose[c] = 1
                      /\ flag[c] = "closed"
                      /\ closedBy[c] \in {"timeout", "user"}
                      /\ ~InTable(c) /\ ~Queued("Add", c)

\* What the holder of a handle sees.
Status == [c \in Conns |-> IF flag[c] = "closed" THEN closedBy[c] ELSE flag[c]]
Lifecycle == INSTANCE IoLifecycle
               WITH status <- Status,
                    count <- open_count - Cardinality(Decrementers),
                    reported <- onClose

\* The threads together implement the one-step life cycle of IoLifecycle, for
\* any assignment of keys to connections.
ImplementsLifecycle == Lifecycle!LSpec

\* IoCallbacks::on_close: "Called once if the connection times out. Not called
\* on forward close."
OnCloseMeansTimeout ==
  \A c \in Conns : onClose[c] > 0 => closedBy[c] = "timeout"

\* Whatever closes a connection, the IO thread ends up without its entry.
ClosedLeavesTable ==
  \A c \in Conns : flag[c] = "closed" ~> [](~InTable(c))

\* A connection that timed out is reported to the application by on_close.
TimeoutReported ==
  \A c \in Conns : closedBy[c] = "timeout" ~> onClose[c] = 1

\* Dropping the manager returns: the IO thread sees Shutdown and ends.
DropReturns == mgr = "dropping" ~> mgr = "dropped"

=============================================================================
