------------------------------ MODULE IoTiming ------------------------------
(***************************************************************************)
(* One connection in the loop of the IO thread, against a clock: the send  *)
(* schedule, the timeout, the wait on the data socket and on the wake      *)
(* socket, and the commands that arrive meanwhile.                         *)
(*                                                                         *)
(* The clock may advance between any two steps, as when the thread is      *)
(* preempted.  The properties of the timing the loop has by itself are     *)
(* about the behaviours in which it has advanced only while the thread was *)
(* blocked in wait_readable (delayed is FALSE).                            *)
(***************************************************************************)
EXTENDS IoConnection, Sequences

CONSTANTS
  IdleWait,   \* IoThreadConfig::idle_wait
  LosesWake,  \* may a wake byte get lost?
  MaxTime,    \* bound: last instant of the clock
  MaxSocket   \* bound: packets waiting in the data socket

ASSUME TimingAssumption ==
  /\ IdleWait \in Nat \ {0}
  /\ LosesWake \in BOOLEAN
  /\ MaxTime \in Nat /\ MaxSocket \in Nat

VARIABLES
  now,        \* the clock
  phase,      \* position in Worker::run; "gone": the entry was removed
  conn,       \* the connection's entry
  deadline,   \* what wait_readable was given, 0 outside the wait
  socket,     \* payloads waiting in the data socket
  wakeByte,   \* is there a byte in the wake socket?
  wakeReady,  \* wait_readable's answer for the wake socket
  resize,     \* pending SetOutput: "none", "good" or "bad" size
  remove,     \* forward_close's Remove: "no", "queued" (in the channel),
              \* "woken" (wake byte sent), "lost" (wake byte lost)
  \* History, read only by the properties.
  delayed,    \* has time passed while the thread was not blocked?
  removeAt,   \* when Remove was queued
  lastSlot,   \* interval in which the last packet was sent, -1 before
  tardy,      \* has a packet been built later than it was due?
  lastGood,   \* last acceptable packet (or the start) before this instant
  goodNow     \* has an acceptable packet arrived at this instant?

vars == <<now, phase, conn, deadline, socket, wakeByte, wakeReady, resize,
          remove, delayed, removeAt, lastSlot, tardy, lastGood, goodNow>>
envVars  == <<resize, remove, delayed, removeAt>>
histVars == <<lastSlot, tardy>>
goodVars == <<lastGood, goodNow>>

\* The connection is opened at instant 0 and its entry is about to be served.
Init ==
  /\ now = 0
  /\ phase = "drain"
  /\ conn = NewConnection(0)
  /\ deadline = 0
  /\ socket = <<>>
  /\ wakeByte = FALSE /\ wakeReady = FALSE
  /\ resize = "none"
  /\ remove = "no" /\ removeAt = 0 /\ delayed = FALSE
  /\ lastSlot = -1
  /\ tardy = FALSE
  /\ lastGood = 0 /\ goodNow = FALSE

-----------------------------------------------------------------------------
(* The environment: time, the target, the application. *)

WaitOver == socket # <<>> \/ wakeByte \/ now >= deadline

Tick ==
  /\ phase # "gone"
  /\ now < MaxTime
  /\ now' = now + 1
  /\ lastGood' = IF goodNow THEN now ELSE lastGood
  /\ goodNow' = FALSE
  /\ delayed' = (delayed \/ phase # "wait" \/ WaitOver)
  /\ UNCHANGED <<phase, conn, deadline, socket, wakeByte, wakeReady, resize,
                 remove, removeAt, histVars>>

\* A T->O packet for this connection reaches the socket.
Arrive(payload) ==
  /\ phase # "gone"
  /\ Len(socket) < MaxSocket
  /\ socket' = Append(socket, payload)
  /\ goodNow' = (goodNow \/ Accepted(payload))
  /\ UNCHANGED <<now, phase, conn, deadline, wakeByte, wakeReady, envVars,
                 histVars, lastGood>>

\* set_output with data of the right or of another size: no wake byte.
SetOutput(size) ==
  /\ phase # "gone" /\ remove = "no" /\ resize = "none"
  /\ resize' = size
  /\ UNCHANGED <<now, phase, conn, deadline, socket, wakeByte, wakeReady,
                 remove, delayed, removeAt, histVars, goodVars>>

\* IoSender::send of a Remove: first the channel ...
QueueRemove ==
  /\ phase # "gone" /\ remove = "no"
  /\ remove' = "queued" /\ removeAt' = now
  /\ UNCHANGED <<now, phase, conn, deadline, socket, wakeByte, wakeReady,
                 resize, delayed, histVars, goodVars>>

\* ... then the wake byte, whose loss is ignored.
SendWake ==
  /\ phase # "gone" /\ remove = "queued"
  /\ \/ remove' = "woken" /\ wakeByte' = TRUE
     \/ LosesWake /\ remove' = "lost" /\ UNCHANGED wakeByte
  /\ UNCHANGED <<now, phase, conn, deadline, socket, wakeReady, resize,
                 delayed, removeAt, histVars, goodVars>>

-----------------------------------------------------------------------------
(* Worker::run *)

\* drain_commands: SetOutput before a later Remove, until the channel is empty.
Drain ==
  /\ phase = "drain"
  /\ conn' = IF resize = "none" THEN conn
             ELSE [conn EXCEPT !.out_ok = (resize = "good")]
  /\ resize' = "none"
  /\ phase' = IF remove = "no" THEN "service" ELSE "gone"
  /\ UNCHANGED <<now, deadline, socket, wakeByte, wakeReady, remove, delayed,
                 removeAt, histVars, goodVars>>

\* service_connections drops a connection that timed out.
TimeOut ==
  /\ phase = "service"
  /\ IsTimedOut(conn, now)
  /\ phase' = "gone"
  /\ UNCHANGED <<now, conn, deadline, socket, wakeByte, wakeReady, envVars,
                 histVars, goodVars>>

\* Mutants: the wait ignores idle_wait, the send schedule, the timeout.
BugIgnoresIdle(c, t) == NextDeadline(c)
BugIgnoresSchedule(c, t) == Earlier(TimeoutAt(c), t + IdleWait)
BugIgnoresTimeout(c, t) == Earlier(c.next_send, t + IdleWait)

\* The wait ends at the connection's next deadline or after idle_wait.
DeadlineOf(c, t) == Earlier(NextDeadline(c), t + IdleWait)

\* Mutant: the wake socket is emptied after the commands were drained.
BugServiceClearsWake ==
  /\ phase = "service"
  /\ ~IsTimedOut(conn, now)
  /\ wakeByte' = FALSE
  /\ deadline' = DeadlineOf(conn, now)
  /\ phase' = "wait"
  /\ UNCHANGED <<now, conn, socket, wakeReady, envVars, histVars, goodVars>>

\* service_connections sends if a packet is due; run computes the deadline.
Service ==
  /\ phase = "service"
  /\ ~IsTimedOut(conn, now)
  /\ IF IsSendDue(conn, now)
     THEN /\ conn' = BuildPacket(conn, now)
          /\ lastSlot' = IF MaySend(conn) THEN now \div O2TApi ELSE lastSlot
          /\ tardy' = (tardy \/ now > conn.next_send)
     ELSE UNCHANGED <<conn, histVars>>
  /\ deadline' = DeadlineOf(conn', now)
  /\ phase' = "wait"
  /\ UNCHANGED <<now, socket, wakeByte, wakeReady, envVars, goodVars>>

\* wait_readable returns when a socket is readable or the deadline is there;
\* a signal or a failed poll makes it return with nothing ready.
WaitReturn ==
  /\ phase = "wait"
  /\ WaitOver
  /\ wakeReady' = wakeByte
  /\ phase' = IF socket # <<>> THEN "receive" ELSE "wake"
  /\ deadline' = 0
  /\ UNCHANGED <<now, conn, socket, wakeByte, envVars, histVars,
                 goodVars>>

WaitInterrupted ==
  /\ phase = "wait"
  /\ wakeReady' = FALSE
  /\ phase' = "wake"
  /\ deadline' = 0
  /\ UNCHANGED <<now, conn, socket, wakeByte, envVars, histVars,
                 goodVars>>

\* receive_all: one packet per step until the socket is empty.
ReceivePacket ==
  /\ phase = "receive"
  /\ socket # <<>>
  /\ conn' = OnReceive(conn, Head(socket), now)
  /\ socket' = Tail(socket)
  /\ UNCHANGED <<now, phase, deadline, wakeByte, wakeReady, envVars, histVars,
                 goodVars>>

\* It returns when nothing is left, or at a socket error with packets left.
ReceiveDone ==
  /\ phase = "receive"
  /\ phase' = "wake"
  /\ UNCHANGED <<now, conn, deadline, socket, wakeByte, wakeReady, envVars,
                 histVars, goodVars>>

\* The wake socket is emptied before the commands are drained.
EmptyWakeSocket ==
  /\ phase = "wake"
  /\ wakeByte' = IF wakeReady THEN FALSE ELSE wakeByte
  /\ wakeReady' = FALSE
  /\ phase' = "drain"
  /\ UNCHANGED <<now, conn, deadline, socket, envVars, histVars, goodVars>>

\* The entry is gone: this connection needs nothing more.
Gone == phase = "gone" /\ UNCHANGED vars
\* The clock has reached its bound.
OutOfTime == now = MaxTime /\ UNCHANGED vars

Worker ==
  \/ Drain \/ TimeOut \/ Service \/ WaitReturn \/ WaitInterrupted
  \/ ReceivePacket \/ ReceiveDone \/ EmptyWakeSocket

Next ==
  \/ Tick
  \/ \E p \in Payloads : Arrive(p)
  \/ \E s \in {"good", "bad"} : SetOutput(s)
  \/ QueueRemove \/ SendWake
  \/ Worker
  \/ Gone \/ OutOfTime

Spec == Init /\ [][Next]_vars

-----------------------------------------------------------------------------
(* Properties *)

\* Every variable stays in its domain; the counters keep their widths.
TypeOK ==
  /\ now \in 0..MaxTime
  /\ phase \in {"drain", "service", "wait", "receive", "wake", "gone"}
  /\ conn \in Connection
  /\ deadline \in Nat
  /\ socket \in Seq(Payloads) /\ Len(socket) <= MaxSocket
  /\ wakeByte \in BOOLEAN /\ wakeReady \in BOOLEAN
  /\ resize \in {"none", "good", "bad"}
  /\ remove \in {"no", "queued", "woken", "lost"}
  /\ removeAt \in 0..MaxTime /\ delayed \in BOOLEAN
  /\ lastSlot \in -1..MaxTime
  /\ tardy \in BOOLEAN
  /\ lastGood \in 0..MaxTime /\ goodNow \in BOOLEAN

\* "Keep the original phase" (build_packet): whatever stalls happen, packets
\* stay due at whole intervals from the opening, never more than one interval
\* ahead of the clock.
KeepsPhase ==
  /\ conn.next_send % O2TApi = 0
  /\ conn.next_send <= now + O2TApi

\* "skip slots missed entirely rather than bursting" (build_packet): no two
\* packets go out in the same interval.
NoBurst == lastSlot < conn.next_send \div O2TApi

\* Both counters of a class 1 connection count the packets sent, the 16-bit
\* one modulo its width, also when the 32-bit one wraps and when output of the
\* wrong size suppresses packets.
CountersAgree == HasCount => conn.count = conn.seq % U16

\* A thread that is not delayed sends every packet the instant it is due:
\* the deadline it waits for is never past the schedule, whatever packets,
\* commands, wake-ups and signals interrupt the wait.
SentOnTime == ~delayed => ~tardy

\* A thread that is not delayed drops the connection exactly when the target
\* has been silent for the timeout: no earlier, even when the last packet
\* arrives at the very end, and packets it cannot accept do not count.
DroppedOnlyWhenSilent ==
  ~delayed /\ phase = "gone" /\ remove = "no" => now >= lastGood + Timeout

\* ... and no later.
DroppedInTime ==
  ~delayed /\ phase # "gone" /\ ~goodNow => now <= lastGood + Timeout

\* IoSender::send: "Losing a wake byte only delays the command by idle_wait."
LostWakeDelay ==
  ~delayed /\ remove # "no" /\ phase # "gone" => now <= removeAt + IdleWait

\* A wake byte that is not lost is never consumed without the command being
\* seen: the thread does not block while a woken command waits.
WakeNotMissed ==
  remove = "woken" /\ phase = "wait" => wakeByte

=============================================================================
