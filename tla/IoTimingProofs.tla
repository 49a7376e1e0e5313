---------------------------- MODULE IoTimingProofs ----------------------------
(***************************************************************************)
(* Proofs about the send schedule, the timeout and the wake-ups of one     *)
(* connection, for every packet interval, timeout, idle wait and counter   *)
(* width.                                                                  *)
(*                                                                         *)
(* The schedule (ScheduleInv) only needs arithmetic.  What the loop does on   *)
(* time needs to know where the clock can advance without a delay: only in *)
(* the wait, up to a deadline that is never past the schedule, the timeout *)
(* or idle_wait (OnTimeInv, SilenceInv, RemoveInv).                        *)
(***************************************************************************)
EXTENDS IoTiming, TLAPS

USE ScheduleAssumption, TimingAssumption

-----------------------------------------------------------------------------
(* Arithmetic of intervals and counters *)

\* Division with remainder.
LEMMA DivMod ==
  ASSUME NEW a \in Int, NEW d \in Int, d > 0
  PROVE  a = d * (a \div d) + (a % d) /\ a \div d \in Int /\ a % d \in 0..(d - 1)
<1>1. a = d * (a \div d) + (a % d)
  OBVIOUS
<1>2. a \div d \in Int /\ a % d \in 0..(d - 1)
  OBVIOUS
<1>3. QED
  BY <1>1, <1>2

\* Quotient and remainder are unique.
LEMMA DivUnique ==
  ASSUME NEW d \in Nat \ {0}, NEW q \in Int, NEW r \in 0..(d - 1)
  PROVE  (d * q + r) \div d = q /\ (d * q + r) % d = r
OBVIOUS

\* Whole intervals.
LEMMA Intervals ==
  ASSUME NEW d \in Nat \ {0}, NEW a \in Int, NEW b \in Int
  PROVE  /\ d * a \in Int
         /\ d * (a + b) = d * a + d * b
         /\ d * (a + 1) = d * a + d
         /\ d * a < d * b <=> a < b
         /\ d * a <= d * b <=> a <= b
         /\ (d * a) \div d = a
         /\ (d * a) % d = 0
<1>1. d * a \in Int /\ d * (a + b) = d * a + d * b /\ d * (a + 1) = d * a + d
  OBVIOUS
<1>2. d * a < d * b <=> a < b
  OBVIOUS
<1>3. d * a <= d * b <=> a <= b
  OBVIOUS
<1>4. (d * a) \div d = a /\ (d * a) % d = 0
  BY DivUnique
<1>5. QED
  BY <1>1, <1>2, <1>3, <1>4

\* A step of a counter of U values, seen through a narrower one of V values
\* when V divides U.
LEMMA CounterStep ==
  ASSUME NEW V \in Nat \ {0}, NEW m \in Nat \ {0}, NEW U \in Nat, U = V * m,
         NEW x \in 0..(U - 1)
  PROVE  ((x + 1) % U) % V = ((x % V) + 1) % V
<1> DEFINE q == x \div V
<1> DEFINE r == x % V
<1>1. x = V * q + r /\ q \in Int /\ r \in 0..(V - 1)
  BY DivMod
<1> HIDE DEF q, r
<1>2. CASE r = V - 1
  <2>1. x + 1 = V * (q + 1)
    BY <1>1, <1>2, Intervals
  <2>2. (r + 1) % V = 0
    BY <1>2, Intervals
  <2>3. CASE x + 1 = U
    <3>1. (x + 1) % U = 0
      BY <2>3
    <3>2. QED
      BY <2>2, <3>1 DEF r
  <2>4. CASE x + 1 < U
    <3>1. (x + 1) % U = x + 1
      BY <2>4
    <3>2. (V * (q + 1)) % V = 0
      BY <1>1, Intervals
    <3>3. QED
      BY <2>1, <2>2, <3>1, <3>2 DEF r
  <2>5. QED
    BY <2>3, <2>4
<1>3. CASE r < V - 1
  <2>1. r + 1 \in 0..(V - 1) /\ x + 1 = V * q + (r + 1)
    BY <1>1, <1>3
  <2>2. (x + 1) % V = r + 1
    BY <1>1, <2>1, DivUnique
  <2>3. x + 1 # U
    <3>1. (V * m) % V = 0
      BY Intervals
    <3>2. QED
      BY <1>1, <2>1, <2>2, <3>1
  <2>4. (x + 1) % U = x + 1
    BY <2>3
  <2>5. (r + 1) % V = r + 1
    BY <2>1
  <2>6. QED
    BY <2>2, <2>4, <2>5 DEF r
<1>4. QED
  BY <1>1, <1>2, <1>3

\* The schedule after a packet that was due: a whole number of intervals on,
\* at most one ahead of the clock; ahead of the clock unless the stall was
\* longer than the 32-bit number of intervals.
LEMMA AdvanceSchedule ==
  ASSUME NEW k \in Nat, NEW t \in Nat, O2TApi * k <= t
  PROVE  \E j \in Nat :
           /\ Advance(O2TApi * k, t) = O2TApi * j /\ k < j
           /\ O2TApi * j <= t + O2TApi
           /\ t < O2TApi * k + O2TApi * U32 => t < O2TApi * j
           /\ t < O2TApi * k + O2TApi => j = k + 1
<1> DEFINE n == O2TApi * k + O2TApi
<1> DEFINE missed == (t - n) \div O2TApi + 1
<1>1. n = O2TApi * (k + 1) /\ n \in Int /\ O2TApi * k \in Int
  BY Intervals
<1>2. CASE n > t
  <2>1. Advance(O2TApi * k, t) = O2TApi * (k + 1)
    BY <1>1, <1>2 DEF Advance
  <2>2. QED
    BY <1>1, <1>2, <2>1
<1>3. CASE n <= t
  <2> DEFINE q == (t - n) \div O2TApi
  <2> DEFINE r == (t - n) % O2TApi
  <2>1. t - n \in Nat /\ t - n = O2TApi * q + r /\ q \in Int /\ r \in 0..(O2TApi - 1)
    BY <1>1, <1>3, DivMod
  <2> HIDE DEF q, r
  <2>2. q \in Nat
    BY <2>1
  <2>3. O2TApi * (q + 1) = O2TApi * q + O2TApi /\ O2TApi * q \in Int
    BY <2>2, Intervals
  <2> DEFINE e == (q + 1) % U32
  <2>4. e \in Nat /\ e <= q + 1 /\ (q + 1 < U32 => e = q + 1)
    BY <2>2
  <2>5. Advance(O2TApi * k, t) = n + O2TApi * e
    BY <1>3 DEF Advance, q
  <2> HIDE DEF e
  <2>6. n + O2TApi * e = O2TApi * (k + 1 + e)
    BY <1>1, <2>4, Intervals
  <2>7. O2TApi * e <= O2TApi * q + O2TApi /\ O2TApi * e \in Int
    BY <2>2, <2>3, <2>4, Intervals
  <2>8. O2TApi * (k + 1 + e) <= t + O2TApi
    <3>1. n + O2TApi * e <= t + O2TApi
      BY <1>1, <2>1, <2>3, <2>7
    <3>2. QED
      BY <2>6, <3>1
  <2>9. ASSUME t < O2TApi * k + O2TApi * U32 PROVE t < O2TApi * (k + 1 + e)
    <3>1. O2TApi * q < O2TApi * U32 - O2TApi /\ O2TApi * U32 \in Int
      BY <1>1, <2>1, <2>9
    <3>2. O2TApi * (q + 1) < O2TApi * U32
      BY <2>2, <2>3, <3>1
    <3>3. q + 1 < U32
      BY <2>2, <3>2, Intervals
    <3>4. QED
      BY <1>1, <2>1, <2>3, <2>4, <2>6, <3>3
  <2>10. k + 1 + e \in Nat /\ k < k + 1 + e
    BY <2>4
  <2>11. QED
    BY <1>3, <2>5, <2>6, <2>8, <2>9, <2>10
<1>4. QED
  BY <1>1, <1>2, <1>3

-----------------------------------------------------------------------------
(* Types and the schedule *)

\* The timeout is a natural number of ticks.
LEMMA TimeoutType == Timeout \in Nat
<1>1. Multiplier + 1 \in 1..8
  OBVIOUS
<1>2. <<4, 8, 16, 32, 64, 128, 256, 512>>[Multiplier + 1] \in Nat
  BY <1>1
<1>3. QED
  BY <1>2 DEF Timeout

\* Packets are due at whole intervals, at most one ahead of the clock.
ScheduleInv ==
  /\ \E k \in Nat : conn.next_send = O2TApi * k
  /\ conn.next_send <= now + O2TApi

Shape == TypeOK /\ ScheduleInv

\* Init establishes the types and the schedule.
LEMMA InitShape == Init => Shape
<1> SUFFICES ASSUME Init PROVE Shape
  OBVIOUS
<1>1. conn = [next_send |-> 0, last_receive |-> 0, out_ok |-> TRUE, seq |-> 0, count |-> 0]
  BY DEF Init, NewConnection
<1>2. conn \in Connection
  BY <1>1 DEF Connection, Instants
<1>3. 0 = O2TApi * 0
  OBVIOUS
<1>4. ScheduleInv
  BY <1>1, <1>3 DEF Init, ScheduleInv
<1>5. socket \in Seq(Payloads) /\ Len(socket) <= MaxSocket
  BY DEF Init
<1>6. lastSlot \in -1..MaxTime
  BY DEF Init
<1>7. now \in 0..MaxTime /\ removeAt \in 0..MaxTime /\ lastGood \in 0..MaxTime /\ deadline \in Nat
  BY DEF Init
<1>8. /\ wakeByte \in BOOLEAN /\ wakeReady \in BOOLEAN /\ delayed \in BOOLEAN
      /\ tardy \in BOOLEAN /\ goodNow \in BOOLEAN
  BY Zenon DEF Init
<1>9. phase = "drain" /\ resize = "none" /\ remove = "no"
  BY DEF Init
<1>10. QED
  BY <1>2, <1>4, <1>5, <1>6, <1>7, <1>8, <1>9 DEF Shape, TypeOK

\* What service_connections does to the connection when a packet is due.
LEMMA BuildEffect ==
  ASSUME Shape, IsSendDue(conn, now)
  PROVE  \E k, j \in Nat :
           /\ conn.next_send = O2TApi * k /\ k < j
           /\ BuildPacket(conn, now) \in Connection
           /\ BuildPacket(conn, now).next_send = O2TApi * j
           /\ BuildPacket(conn, now).last_receive = conn.last_receive
           /\ O2TApi * j <= now + O2TApi
           /\ now < conn.next_send + O2TApi * U32 => now < O2TApi * j
           /\ now < conn.next_send + O2TApi => now < O2TApi * j
<1>1. PICK k \in Nat : conn.next_send = O2TApi * k
  BY DEF Shape, ScheduleInv
<1>2. now \in Nat /\ O2TApi * k <= now /\ conn \in Connection
  BY <1>1 DEF IsSendDue, Shape, TypeOK
<1>3. PICK j \in Nat :
           /\ Advance(conn.next_send, now) = O2TApi * j /\ k < j
           /\ O2TApi * j <= now + O2TApi
           /\ now < O2TApi * k + O2TApi * U32 => now < O2TApi * j
           /\ now < O2TApi * k + O2TApi => j = k + 1
  BY <1>1, <1>2, AdvanceSchedule
<1>4. O2TApi * j \in Nat /\ O2TApi * (k + 1) = O2TApi * k + O2TApi
  BY <1>1, <1>2, <1>3, Intervals DEF Connection, Instants
<1>5. \A x \in Int : (x + 1) % U32 \in 0..(U32 - 1) /\ (x + 1) % U16 \in 0..(U16 - 1)
  OBVIOUS
<1>6. /\ BuildPacket(conn, now) \in Connection
      /\ BuildPacket(conn, now).next_send = O2TApi * j
      /\ BuildPacket(conn, now).last_receive = conn.last_receive
  <2>1. CASE MaySend(conn)
    <3>1. BuildPacket(conn, now) =
            [conn EXCEPT !.next_send = O2TApi * j,
                         !.seq = (conn.seq + 1) % U32,
                         !.count = IF HasCount THEN (conn.count + 1) % U16 ELSE conn.count]
      BY <1>3, <2>1 DEF BuildPacket
    <3>2. /\ (conn.seq + 1) % U32 \in 0..(U32 - 1)
          /\ (IF HasCount THEN (conn.count + 1) % U16 ELSE conn.count) \in 0..(U16 - 1)
      BY <1>2, <1>5 DEF Connection
    <3>3. QED
      BY <1>2, <1>4, <3>1, <3>2 DEF Connection, Instants
  <2>2. CASE ~MaySend(conn)
    BY <1>2, <1>3, <1>4, <2>2 DEF BuildPacket, Connection, Instants
  <2>3. QED
    BY <2>1, <2>2
<1>7. now < conn.next_send + O2TApi => now < O2TApi * j
  BY <1>1, <1>2, <1>3, <1>4
<1>8. QED
  BY <1>1, <1>3, <1>6, <1>7

\* The deadline of the wait.
LEMMA DeadlineEffect ==
  ASSUME NEW c \in Connection, NEW t \in Nat
  PROVE  /\ DeadlineOf(c, t) \in Nat
         /\ DeadlineOf(c, t) <= c.next_send
         /\ DeadlineOf(c, t) <= TimeoutAt(c)
         /\ DeadlineOf(c, t) <= t + IdleWait
<1>1. c.next_send \in Nat /\ TimeoutAt(c) \in Nat
  BY TimeoutType DEF Connection, Instants, TimeoutAt
<1>2. QED
  BY <1>1 DEF DeadlineOf, NextDeadline, Earlier

\* Every step keeps the types and the schedule.
LEMMA StepShape == Shape /\ [Next]_vars => Shape'
<1> SUFFICES ASSUME Shape, [Next]_vars PROVE Shape'
  OBVIOUS
<1> USE DEF Shape, TypeOK, ScheduleInv, envVars, histVars, goodVars
<1>0. conn.next_send \in Nat /\ conn.last_receive \in Nat
  BY DEF Connection, Instants
<1>1. CASE Tick
  <2>1. delayed' \in BOOLEAN
    BY <1>1, Zenon DEF Tick
  <2>2. now' = now + 1 /\ now' \in 0..MaxTime /\ lastGood' \in 0..MaxTime
    BY <1>1 DEF Tick
  <2>3. UNCHANGED <<conn, phase, deadline, socket, wakeByte, wakeReady, resize, remove, removeAt,
                    lastSlot, tardy>> /\ goodNow' = FALSE
    BY <1>1 DEF Tick
  <2>4. ScheduleInv'
    <3>1. \E k \in Nat : conn'.next_send = O2TApi * k
      BY <2>3
    <3>2. conn.next_send <= now + O2TApi /\ now \in Nat
      OBVIOUS
    <3>3. conn'.next_send <= now' + O2TApi
      BY <1>0, <2>2, <2>3, <3>2
    <3>4. QED
      BY <3>1, <3>3
  <2>5. TypeOK'
    BY <2>1, <2>2, <2>3
  <2>6. QED
    BY <2>4, <2>5
<1>2. ASSUME NEW p \in Payloads, Arrive(p) PROVE Shape'
  <2>1. socket' \in Seq(Payloads) /\ Len(socket') <= MaxSocket
    BY <1>2 DEF Arrive
  <2>2. goodNow' \in BOOLEAN
    BY <1>2, Zenon DEF Arrive, Accepted
  <2>3. QED
    BY <1>2, <2>1, <2>2 DEF Arrive
<1>3. ASSUME NEW s \in {"good", "bad"}, SetOutput(s) PROVE Shape'
  BY <1>3 DEF SetOutput
<1>4. CASE QueueRemove
  BY <1>4 DEF QueueRemove
<1>5. CASE SendWake
  BY <1>5 DEF SendWake
<1>6. CASE Drain
  <2>1. conn' \in Connection /\ conn'.next_send = conn.next_send
    BY <1>6 DEF Drain, Connection
  <2>2. QED
    BY <1>6, <2>1 DEF Drain
<1>7. CASE TimeOut
  BY <1>7 DEF TimeOut
<1>8. CASE Service
  <2>1. /\ conn' \in Connection /\ conn'.next_send <= now + O2TApi
        /\ \E k \in Nat : conn'.next_send = O2TApi * k
    <3>1. CASE IsSendDue(conn, now)
      BY <1>8, <3>1, BuildEffect DEF Service
    <3>2. CASE ~IsSendDue(conn, now)
      BY <1>8, <3>2 DEF Service
    <3>3. QED
      BY <3>1, <3>2
  <2>2. deadline' \in Nat
    <3>1. deadline' = DeadlineOf(conn', now) /\ now \in Nat
      BY <1>8 DEF Service
    <3>2. QED
      BY <2>1, <3>1, DeadlineEffect
  <2>3. lastSlot' \in -1..MaxTime
    <3>1. now \div O2TApi \in 0..MaxTime
      <4>1. now = O2TApi * (now \div O2TApi) + (now % O2TApi) /\ now \div O2TApi \in Int
            /\ now % O2TApi \in 0..(O2TApi - 1)
        BY DivMod
      <4>2. QED
        BY <4>1
    <3>2. QED
      BY <1>8, <3>1 DEF Service
  <2>4. tardy' \in BOOLEAN
    BY <1>8 DEF Service
  <2>5. QED
    BY <1>8, <2>1, <2>2, <2>3, <2>4 DEF Service
<1>9. CASE WaitReturn
  BY <1>9 DEF WaitReturn
<1>10. CASE WaitInterrupted
  BY <1>10 DEF WaitInterrupted
<1>11. CASE ReceivePacket
  <2>1. conn' \in Connection /\ conn'.next_send = conn.next_send
    <3>1. conn' \in {conn, [conn EXCEPT !.last_receive = now]} /\ now \in Nat
      BY <1>11 DEF ReceivePacket, OnReceive
    <3>2. QED
      BY <3>1 DEF Connection, Instants
  <2>2. socket' \in Seq(Payloads) /\ Len(socket') <= MaxSocket
    BY <1>11 DEF ReceivePacket
  <2>3. QED
    BY <1>11, <2>1, <2>2 DEF ReceivePacket
<1>12. CASE ReceiveDone
  BY <1>12 DEF ReceiveDone
<1>13. CASE EmptyWakeSocket
  BY <1>13 DEF EmptyWakeSocket
<1>14. CASE Gone \/ OutOfTime \/ UNCHANGED vars
  <2>1. UNCHANGED <<now, phase, conn, deadline, socket, wakeByte, wakeReady, resize, remove,
                    delayed, removeAt, lastSlot, tardy, lastGood, goodNow>>
    BY <1>14 DEF Gone, OutOfTime, vars
  <2>2. QED
    BY <2>1
<1>15. QED
  BY <1>1, <1>2, <1>3, <1>4, <1>5, <1>6, <1>7, <1>8, <1>9, <1>10, <1>11, <1>12, <1>13, <1>14
  DEF Next, Worker

\* Types and schedule hold in every reachable state.
LEMMA Shaped == Spec => []Shape
BY InitShape, StepShape, PTL DEF Spec

\* build_packet keeps the phase: packets stay due at whole intervals from the
\* opening, at most one ahead of the clock, whatever stalls happen.
THEOREM PhaseKept == Spec => []KeepsPhase
<1>1. Shape => KeepsPhase
  BY Intervals DEF Shape, ScheduleInv, KeepsPhase
<1>2. QED
  BY <1>1, Shaped, PTL

\* How the entry, the clock and the history of the schedule change: in
\* service_connections, by a new setting or a packet, or not at all.
LEMMA ConnStep ==
  ASSUME Shape, [Next]_vars
  PROVE  \/ Service
         \/ /\ UNCHANGED <<lastSlot, tardy>> /\ conn'.next_send = conn.next_send
            /\ conn'.seq = conn.seq /\ conn'.count = conn.count
<1>1. CASE Drain
  BY <1>1 DEF Drain, histVars, Shape, TypeOK, Connection
<1>2. CASE ReceivePacket
  BY <1>2 DEF ReceivePacket, OnReceive, histVars, Shape, TypeOK, Connection
<1>3. CASE \/ Tick \/ QueueRemove \/ SendWake \/ TimeOut \/ WaitReturn \/ WaitInterrupted
           \/ ReceiveDone \/ EmptyWakeSocket \/ Gone \/ OutOfTime \/ UNCHANGED vars
           \/ \E p \in Payloads : Arrive(p)
           \/ \E s \in {"good", "bad"} : SetOutput(s)
  BY <1>3 DEF Tick, QueueRemove, SendWake, TimeOut, WaitReturn, WaitInterrupted, ReceiveDone,
     EmptyWakeSocket, Gone, OutOfTime, Arrive, SetOutput, vars, histVars
<1>4. QED
  BY <1>1, <1>2, <1>3 DEF Next, Worker

\* The thread was never stalled for as many intervals as 32 bits can count.
NoEndlessStall == now < conn.next_send + O2TApi * U32

\* NoBurst is kept.
LEMMA StepNoBurst ==
  Shape /\ NoEndlessStall /\ NoBurst /\ [Next]_vars => NoBurst'
<1> SUFFICES ASSUME Shape, NoEndlessStall, NoBurst, [Next]_vars PROVE NoBurst'
  OBVIOUS
<1>1. CASE UNCHANGED lastSlot /\ conn'.next_send = conn.next_send
  BY <1>1 DEF NoBurst
<1>2. CASE Service /\ IsSendDue(conn, now)
  <2>1. conn' = BuildPacket(conn, now) /\ lastSlot' \in {lastSlot, now \div O2TApi}
    BY <1>2 DEF Service
  <2>2. PICK k \in Nat, j \in Nat :
           /\ conn.next_send = O2TApi * k /\ k < j
           /\ BuildPacket(conn, now).next_send = O2TApi * j
           /\ now < conn.next_send + O2TApi * U32 => now < O2TApi * j
    BY <1>2, BuildEffect
  <2>3. conn.next_send \div O2TApi = k /\ conn'.next_send \div O2TApi = j
    BY <2>1, <2>2, Intervals
  <2>4. lastSlot < k /\ lastSlot \in Int
    BY <2>3 DEF NoBurst, Shape, TypeOK
  <2>5. now \div O2TApi < j
    <3> DEFINE q == now \div O2TApi
    <3> DEFINE r == now % O2TApi
    <3>1. now = O2TApi * q + r /\ q \in Int /\ r \in 0..(O2TApi - 1)
      BY DivMod DEF Shape, TypeOK
    <3>2. now < O2TApi * j
      BY <2>2 DEF NoEndlessStall
    <3> HIDE DEF q, r
    <3>3. O2TApi * q < O2TApi * j
      BY <3>1, <3>2, Intervals
    <3>4. q < j
      BY <3>1, <3>3, Intervals
    <3>5. QED
      BY <3>4 DEF q
  <2>6. lastSlot' < j
    BY <2>1, <2>2, <2>4, <2>5
  <2>7. QED
    BY <2>3, <2>6 DEF NoBurst
<1>3. CASE Service /\ ~IsSendDue(conn, now)
  BY <1>3 DEF Service, histVars, NoBurst
<1>4. QED
  BY <1>1, <1>2, <1>3, ConnStep

\* build_packet skips missed slots: no two packets go out in one interval, as
\* long as no single stall lasts 2^32 intervals (the missed intervals are
\* counted in 32 bits).
THEOREM NeverBursts == Spec /\ []NoEndlessStall => []NoBurst
<1>1. Init => NoBurst
  <2> SUFFICES ASSUME Init PROVE NoBurst
    OBVIOUS
  <2>1. conn.next_send = O2TApi * 0 /\ lastSlot = -1
    BY DEF Init, NewConnection
  <2>2. (O2TApi * 0) \div O2TApi = 0
    BY Intervals
  <2>3. QED
    BY <2>1, <2>2 DEF NoBurst
<1>2. QED
  BY <1>1, StepNoBurst, Shaped, PTL DEF Spec

\* CountersAgree is kept, when the narrower width divides the wider one.
LEMMA StepCounters ==
  ASSUME NEW m \in Nat \ {0}, U32 = U16 * m
  PROVE  Shape /\ CountersAgree /\ [Next]_vars => CountersAgree'
<1> SUFFICES ASSUME Shape, CountersAgree, [Next]_vars, HasCount
             PROVE  conn'.count = conn'.seq % U16
  BY DEF CountersAgree
<1>1. conn.count = conn.seq % U16 /\ conn.seq \in 0..(U32 - 1)
  BY DEF CountersAgree, Shape, TypeOK, Connection
<1>2. CASE conn'.seq = conn.seq /\ conn'.count = conn.count
  BY <1>1, <1>2
<1>3. CASE Service
  <2>1. CASE IsSendDue(conn, now) /\ MaySend(conn)
    <3>1. conn' = BuildPacket(conn, now)
      BY <1>3, <2>1 DEF Service
    <3>2. conn'.seq = (conn.seq + 1) % U32 /\ conn'.count = (conn.count + 1) % U16
      BY <2>1, <3>1 DEF BuildPacket, Shape, TypeOK, Connection
    <3>3. ((conn.seq + 1) % U32) % U16 = ((conn.seq % U16) + 1) % U16
      BY <1>1, CounterStep
    <3>4. QED
      BY <1>1, <3>2, <3>3
  <2>2. CASE ~(IsSendDue(conn, now) /\ MaySend(conn))
    <3>1. conn'.seq = conn.seq /\ conn'.count = conn.count
      BY <1>3, <2>2 DEF Service, BuildPacket, Shape, TypeOK, Connection
    <3>2. QED
      BY <1>1, <3>1
  <2>3. QED
    BY <2>1, <2>2
<1>4. QED
  BY <1>2, <1>3, ConnStep

\* The sequence count and the sequence number of a class 1 connection count
\* the same packets, across the wraps of both (2^16 divides 2^32).
THEOREM CountersInStep ==
  ASSUME NEW m \in Nat \ {0}, U32 = U16 * m
  PROVE  Spec => []CountersAgree
<1>1. Init => CountersAgree
  BY DEF Init, NewConnection, CountersAgree
<1>2. Shape /\ CountersAgree /\ [Next]_vars => CountersAgree'
  BY StepCounters
<1>3. QED
  BY <1>1, <1>2, Shaped, PTL DEF Spec

-----------------------------------------------------------------------------
(* What a thread that is not delayed does on time *)

\* The deadline of a wait is never past the schedule, the timeout or
\* idle_wait, and the clock only advances in a wait.
OnTimeInv ==
  /\ phase = "wait" => /\ deadline <= conn.next_send
                       /\ deadline <= TimeoutAt(conn)
                       /\ deadline <= now + IdleWait
  /\ ~delayed => /\ ~tardy
                 /\ phase # "gone" => now <= conn.next_send /\ now <= TimeoutAt(conn)

\* OnTimeInv is kept.
LEMMA StepOnTime == Shape /\ OnTimeInv /\ [Next]_vars => OnTimeInv'
<1> SUFFICES ASSUME Shape, OnTimeInv, [Next]_vars PROVE OnTimeInv'
  OBVIOUS
<1>0. /\ now \in Nat /\ conn.next_send \in Nat /\ conn.last_receive \in Nat
      /\ TimeoutAt(conn) \in Nat /\ Timeout \in Nat /\ deadline \in Nat
  BY TimeoutType DEF Shape, TypeOK, Connection, Instants, TimeoutAt
<1>1. CASE Tick
  <2>1. /\ now' = now + 1 /\ UNCHANGED <<phase, conn, deadline, tardy>> /\ phase # "gone"
        /\ delayed' = (delayed \/ phase # "wait" \/ WaitOver)
    BY <1>1 DEF Tick, histVars
  <2>2. ~delayed' => ~delayed /\ phase = "wait" /\ now < deadline
    <3>1. ~delayed' => ~delayed /\ phase = "wait" /\ ~WaitOver
      BY <2>1, Zenon
    <3>2. ~WaitOver => now < deadline
      BY <1>0 DEF WaitOver
    <3>3. QED
      BY <3>1, <3>2
  <2>3. QED
    BY <1>0, <2>1, <2>2 DEF OnTimeInv, TimeoutAt
<1>2. CASE \/ QueueRemove \/ SendWake \/ Gone \/ OutOfTime \/ UNCHANGED vars
           \/ \E p \in Payloads : Arrive(p)
           \/ \E s \in {"good", "bad"} : SetOutput(s)
  <2>1. UNCHANGED <<now, phase, conn, deadline, tardy, delayed>>
    BY <1>2 DEF QueueRemove, SendWake, Gone, OutOfTime, Arrive, SetOutput, vars, envVars, histVars
  <2>2. QED
    BY <2>1 DEF OnTimeInv, TimeoutAt
<1>3. CASE Drain \/ ReceivePacket
  <2>1. /\ conn'.next_send = conn.next_send /\ phase # "gone" /\ phase' # "wait"
        /\ conn'.last_receive \in {conn.last_receive, now}
        /\ UNCHANGED <<now, tardy, delayed>>
    BY <1>3 DEF Drain, ReceivePacket, OnReceive, envVars, histVars, Shape, TypeOK, Connection
  <2>2. QED
    BY <1>0, <2>1 DEF OnTimeInv, TimeoutAt
<1>4. CASE TimeOut \/ WaitReturn \/ WaitInterrupted \/ ReceiveDone \/ EmptyWakeSocket
  <2>1. /\ UNCHANGED <<now, conn, tardy, delayed>> /\ phase # "gone" /\ phase' # "wait"
    BY <1>4 DEF TimeOut, WaitReturn, WaitInterrupted, ReceiveDone, EmptyWakeSocket, envVars, histVars
  <2>2. QED
    BY <2>1 DEF OnTimeInv, TimeoutAt
<1>5. CASE Service
  <2>1. /\ phase = "service" /\ ~IsTimedOut(conn, now) /\ deadline' = DeadlineOf(conn', now)
        /\ UNCHANGED <<now, delayed>>
    BY <1>5 DEF Service, envVars
  <2>2. conn' \in Connection
    BY StepShape DEF Shape, TypeOK
  <2>3. deadline' <= conn'.next_send /\ deadline' <= TimeoutAt(conn') /\ deadline' <= now + IdleWait
    BY <1>0, <2>1, <2>2, DeadlineEffect
  <2>4. conn'.last_receive = conn.last_receive
    BY <1>5, BuildEffect DEF Service
  <2>5. ASSUME ~delayed PROVE ~tardy' /\ now <= conn'.next_send
    <3>1. now <= conn.next_send /\ ~tardy
      BY <2>1, <2>5 DEF OnTimeInv
    <3>2. CASE IsSendDue(conn, now)
      <4>1. now < conn.next_send + O2TApi
        BY <1>0, <3>1
      <4>2. conn' = BuildPacket(conn, now) /\ tardy' = (tardy \/ now > conn.next_send)
        BY <1>5, <3>2 DEF Service
      <4>3. conn'.next_send \in Nat /\ now < conn'.next_send
        BY <2>2, <3>2, <4>1, <4>2, BuildEffect DEF Connection, Instants
      <4>4. ~(now > conn.next_send) /\ now <= conn'.next_send
        BY <1>0, <3>1, <4>3
      <4>5. ~tardy'
        BY <3>1, <4>2, <4>4, Zenon
      <4>6. QED
        BY <4>4, <4>5
    <3>3. CASE ~IsSendDue(conn, now)
      BY <1>5, <3>1, <3>3 DEF Service, histVars
    <3>4. QED
      BY <3>2, <3>3
  <2>6. now <= TimeoutAt(conn')
    BY <1>0, <2>1, <2>4 DEF IsTimedOut, TimeoutAt
  <2>7. QED
    BY <2>1, <2>3, <2>5, <2>6 DEF OnTimeInv, TimeoutAt
<1>6. QED
  BY <1>1, <1>2, <1>3, <1>4, <1>5 DEF Next, Worker

\* Init is on time, and the invariants so far hold throughout.
LEMMA Timely == Spec => [](Shape /\ OnTimeInv)
<1>1. Init => OnTimeInv
  <2> SUFFICES ASSUME Init PROVE OnTimeInv
    OBVIOUS
  <2>1. now = 0 /\ conn.next_send = 0 /\ conn.last_receive = 0 /\ phase = "drain" /\ ~tardy
    BY DEF Init, NewConnection
  <2>2. QED
    BY <2>1, TimeoutType DEF OnTimeInv, TimeoutAt
<1>2. QED
  BY <1>1, Shaped, StepOnTime, PTL DEF Spec

\* An IO thread that is not delayed sends every packet the instant it is due,
\* whatever packets, commands, wake-ups and signals interrupt its wait.
THEOREM OnTime == Spec => []SentOnTime
<1>1. OnTimeInv => SentOnTime
  BY DEF OnTimeInv, SentOnTime
<1>2. QED
  BY <1>1, Timely, PTL

\* Is an acceptable packet waiting in the socket?
GoodWaiting == \E i \in 1..Len(socket) : Accepted(socket[i])

\* What arrivals and receptions do to it.
LEMMA WaitingStep ==
  ASSUME socket \in Seq(Payloads)
  PROVE  /\ socket' = socket => (GoodWaiting' <=> GoodWaiting)
         /\ socket = <<>> => ~GoodWaiting
         /\ \A p \in Payloads :
              socket' = Append(socket, p) => (GoodWaiting' <=> GoodWaiting \/ Accepted(p))
         /\ socket # <<>> /\ socket' = Tail(socket) =>
              (GoodWaiting <=> GoodWaiting' \/ Accepted(Head(socket)))
<1>1. /\ socket' = socket => (GoodWaiting' <=> GoodWaiting)
      /\ socket = <<>> => ~GoodWaiting
  BY DEF GoodWaiting
<1>2. ASSUME NEW p \in Payloads, socket' = Append(socket, p)
      PROVE  GoodWaiting' <=> GoodWaiting \/ Accepted(p)
  <2>1. /\ Len(socket) \in Nat /\ Len(socket') = Len(socket) + 1
        /\ \A i \in 1..Len(socket) : socket'[i] = socket[i]
        /\ socket'[Len(socket) + 1] = p
    BY <1>2
  <2>2. 1..Len(socket') = 1..Len(socket) \cup {Len(socket) + 1}
    BY <2>1
  <2>3. QED
    BY <2>1, <2>2 DEF GoodWaiting
<1>3. ASSUME socket # <<>>, socket' = Tail(socket)
      PROVE  GoodWaiting <=> GoodWaiting' \/ Accepted(Head(socket))
  <2>1. /\ Len(socket) \in Nat \ {0} /\ Len(socket') = Len(socket) - 1
        /\ \A i \in 1..Len(socket') : socket'[i] = socket[i + 1]
        /\ socket[1] = Head(socket)
    BY <1>3
  <2>2. \A i \in 1..Len(socket) : i # 1 => i - 1 \in 1..Len(socket') /\ socket'[i - 1] = socket[i]
    BY <2>1
  <2>3. \A i \in 1..Len(socket') : i + 1 \in 1..Len(socket) /\ socket[i + 1] = socket'[i]
    BY <2>1
  <2>4. 1 \in 1..Len(socket)
    BY <2>1
  <2>5. QED
    BY <2>1, <2>2, <2>3, <2>4 DEF GoodWaiting
<1>4. QED
  BY <1>1, <1>2, <1>3

\* Without a delay last_receive is the last acceptable packet, but for one
\* that is still in the socket, and that one arrived at this instant.
SilenceInv ==
  /\ lastGood <= now
  /\ ~delayed =>
       /\ phase # "gone" =>
            /\ GoodWaiting => goodNow
            /\ lastGood <= conn.last_receive
            /\ conn.last_receive <= IF goodNow THEN now ELSE lastGood
            /\ goodNow /\ ~GoodWaiting => conn.last_receive = now
       /\ phase = "gone" /\ remove = "no" => now >= lastGood + Timeout

\* SilenceInv is kept.
LEMMA StepSilence == Shape /\ SilenceInv /\ [Next]_vars => SilenceInv'
<1> SUFFICES ASSUME Shape, SilenceInv, [Next]_vars PROVE SilenceInv'
  OBVIOUS
<1>0. /\ now \in Nat /\ lastGood \in Nat /\ conn.last_receive \in Nat /\ Timeout \in Nat
      /\ socket \in Seq(Payloads) /\ goodNow \in BOOLEAN
  BY TimeoutType DEF Shape, TypeOK, Connection, Instants
<1>1. CASE Tick
  <2>1. /\ now' = now + 1 /\ UNCHANGED <<phase, conn, socket>> /\ phase # "gone"
        /\ delayed' = (delayed \/ phase # "wait" \/ WaitOver)
        /\ lastGood' = (IF goodNow THEN now ELSE lastGood) /\ goodNow' = FALSE
    BY <1>1 DEF Tick
  <2>2. ~delayed' => ~delayed /\ ~WaitOver
    BY <2>1, Zenon
  <2>3. ~WaitOver => ~GoodWaiting /\ ~GoodWaiting'
    BY <1>0, <2>1, WaitingStep DEF WaitOver
  <2>4. lastGood' <= now'
    BY <1>0, <2>1 DEF SilenceInv
  <2>5. CASE goodNow
    BY <1>0, <2>1, <2>2, <2>3, <2>4, <2>5 DEF SilenceInv
  <2>6. CASE ~goodNow
    BY <1>0, <2>1, <2>2, <2>3, <2>4, <2>6 DEF SilenceInv
  <2>7. QED
    BY <2>5, <2>6
<1>2. ASSUME NEW p \in Payloads, Arrive(p) PROVE SilenceInv'
  <2>1. /\ UNCHANGED <<now, phase, conn, delayed, lastGood>> /\ phase # "gone"
        /\ goodNow' = (goodNow \/ Accepted(p)) /\ socket' = Append(socket, p)
    BY <1>2 DEF Arrive, envVars
  <2>2. GoodWaiting' <=> GoodWaiting \/ Accepted(p)
    BY <1>0, <2>1, WaitingStep
  <2>3. CASE Accepted(p)
    <3>1. goodNow' /\ GoodWaiting'
      BY <2>1, <2>2, <2>3, Zenon
    <3>2. QED
      BY <1>0, <2>1, <3>1 DEF SilenceInv
  <2>4. CASE ~Accepted(p)
    <3>1. (goodNow' <=> goodNow) /\ (GoodWaiting' <=> GoodWaiting)
      BY <2>1, <2>2, <2>4, Zenon
    <3>2. QED
      BY <1>0, <2>1, <3>1 DEF SilenceInv
  <2>5. QED
    BY <2>3, <2>4
<1>3. CASE ReceivePacket
  <2>1. /\ UNCHANGED <<now, phase, delayed, lastGood, goodNow>> /\ phase # "gone"
        /\ socket # <<>> /\ socket' = Tail(socket) /\ conn' = OnReceive(conn, Head(socket), now)
    BY <1>3 DEF ReceivePacket, envVars, goodVars
  <2>2. GoodWaiting <=> GoodWaiting' \/ Accepted(Head(socket))
    BY <1>0, <2>1, WaitingStep
  <2>3. CASE Accepted(Head(socket))
    <3>1. conn'.last_receive = now
      BY <2>1, <2>3 DEF OnReceive, Shape, TypeOK, Connection
    <3>2. QED
      BY <1>0, <2>1, <2>2, <2>3, <3>1 DEF SilenceInv
  <2>4. CASE ~Accepted(Head(socket))
    <3>1. conn' = conn
      BY <2>1, <2>4 DEF OnReceive
    <3>2. QED
      BY <2>1, <2>2, <2>4, <3>1 DEF SilenceInv
  <2>5. QED
    BY <2>3, <2>4
<1>4. CASE TimeOut
  <2>1. /\ UNCHANGED <<now, lastGood, delayed>> /\ phase = "service" /\ phase' = "gone"
        /\ now >= conn.last_receive + Timeout
    BY <1>4 DEF TimeOut, IsTimedOut, TimeoutAt, envVars, goodVars
  <2>2. QED
    BY <1>0, <2>1 DEF SilenceInv
<1>5. CASE Drain \/ Service
  <2>1. /\ UNCHANGED <<now, lastGood, delayed, goodNow, socket, remove>> /\ phase # "gone"
        /\ phase' = "gone" => remove # "no"
    BY <1>5 DEF Drain, Service, envVars, goodVars
  <2>2. conn'.last_receive = conn.last_receive
    <3>1. CASE Drain
      BY <3>1 DEF Drain, Shape, TypeOK, Connection
    <3>2. CASE Service
      BY <3>2, BuildEffect DEF Service
    <3>3. QED
      BY <1>5, <3>1, <3>2
  <2>3. GoodWaiting' <=> GoodWaiting
    BY <1>0, <2>1, WaitingStep
  <2>4. QED
    BY <2>1, <2>2, <2>3 DEF SilenceInv
<1>6. CASE \/ QueueRemove \/ SendWake \/ WaitReturn \/ WaitInterrupted \/ ReceiveDone
           \/ EmptyWakeSocket
           \/ \E s \in {"good", "bad"} : SetOutput(s)
  <2>1. /\ UNCHANGED <<now, lastGood, delayed, goodNow, socket, conn>>
        /\ phase # "gone" /\ phase' # "gone"
    BY <1>6 DEF QueueRemove, SendWake, WaitReturn, WaitInterrupted, ReceiveDone,
       EmptyWakeSocket, SetOutput, envVars, goodVars
  <2>2. GoodWaiting' <=> GoodWaiting
    BY <1>0, <2>1, WaitingStep
  <2>3. QED
    BY <2>1, <2>2 DEF SilenceInv
<1>7. CASE Gone \/ OutOfTime \/ UNCHANGED vars
  <2>1. UNCHANGED <<now, lastGood, delayed, goodNow, socket, conn, phase, remove>>
    BY <1>7 DEF Gone, OutOfTime, vars
  <2>2. GoodWaiting' <=> GoodWaiting
    BY <1>0, <2>1, WaitingStep
  <2>3. QED
    BY <2>1, <2>2 DEF SilenceInv
<1>8. QED
  BY <1>1, <1>2, <1>3, <1>4, <1>5, <1>6, <1>7 DEF Next, Worker

\* SilenceInv holds throughout.
LEMMA Silence == Spec => []SilenceInv
<1>1. Init => SilenceInv
  <2> SUFFICES ASSUME Init PROVE SilenceInv
    OBVIOUS
  <2>1. /\ now = 0 /\ lastGood = 0 /\ conn.last_receive = 0 /\ phase = "drain"
        /\ socket = <<>> /\ ~goodNow
    BY DEF Init, NewConnection
  <2>2. ~GoodWaiting
    BY <2>1 DEF GoodWaiting
  <2>3. QED
    BY <2>1, <2>2 DEF SilenceInv
<1>2. QED
  BY <1>1, Shaped, StepSilence, PTL DEF Spec

\* A thread that is not delayed never times out a connection before the
\* target has been silent for the whole timeout.
THEOREM DropsOnlySilent == Spec => []DroppedOnlyWhenSilent
<1>1. SilenceInv => DroppedOnlyWhenSilent
  BY DEF SilenceInv, DroppedOnlyWhenSilent
<1>2. QED
  BY <1>1, Silence, PTL

\* Nor does it keep one longer: packets it cannot accept do not count.
THEOREM DropsInTime == Spec => []DroppedInTime
<1>1. Shape /\ OnTimeInv /\ SilenceInv => DroppedInTime
  <2> SUFFICES ASSUME Shape, OnTimeInv, SilenceInv, ~delayed, phase # "gone", ~goodNow
               PROVE  now <= lastGood + Timeout
    BY DEF DroppedInTime
  <2>1. now \in Nat /\ lastGood \in Nat /\ conn.last_receive \in Nat /\ Timeout \in Nat
    BY TimeoutType DEF Shape, TypeOK, Connection, Instants
  <2>2. conn.last_receive <= lastGood /\ now <= conn.last_receive + Timeout
    BY DEF SilenceInv, OnTimeInv, TimeoutAt
  <2>3. QED
    BY <2>1, <2>2
<1>2. QED
  BY <1>1, Timely, Silence, PTL

-----------------------------------------------------------------------------
(* The wake socket *)

\* The wake byte of a Remove stays until the commands are drained; a Remove
\* that the thread has not been woken for waits at most until the deadline.
RemoveInv ==
  /\ remove = "woken" /\ phase \notin {"drain", "gone"} => wakeByte
  /\ ~delayed /\ remove # "no" /\ phase # "gone" =>
       /\ now <= removeAt + IdleWait
       /\ phase = "wait" => deadline <= removeAt + IdleWait
       /\ phase = "service" => removeAt = now

\* RemoveInv is kept.
LEMMA StepRemove == Shape /\ OnTimeInv /\ RemoveInv /\ [Next]_vars => RemoveInv'
<1> SUFFICES ASSUME Shape, OnTimeInv, RemoveInv, [Next]_vars PROVE RemoveInv'
  OBVIOUS
<1>0. now \in Nat /\ deadline \in Nat /\ removeAt \in Nat /\ conn \in Connection
  BY DEF Shape, TypeOK
<1>1. CASE Tick
  <2>1. /\ now' = now + 1 /\ UNCHANGED <<phase, deadline, wakeByte, remove, removeAt>>
        /\ delayed' = (delayed \/ phase # "wait" \/ WaitOver)
    BY <1>1 DEF Tick
  <2>2. ~delayed' => ~delayed /\ phase = "wait" /\ ~WaitOver
    BY <2>1, Zenon
  <2>3. ~WaitOver => now < deadline
    BY <1>0 DEF WaitOver
  <2>4. QED
    BY <1>0, <2>1, <2>2, <2>3 DEF RemoveInv
<1>2. CASE \/ \E p \in Payloads : Arrive(p)
           \/ \E s \in {"good", "bad"} : SetOutput(s)
           \/ Gone \/ OutOfTime \/ UNCHANGED vars \/ ReceivePacket
  <2>1. UNCHANGED <<now, phase, deadline, wakeByte, remove, removeAt, delayed>>
    BY <1>2 DEF Arrive, SetOutput, Gone, OutOfTime, ReceivePacket, vars, envVars
  <2>2. QED
    BY <2>1 DEF RemoveInv
<1>3. CASE QueueRemove
  <2>1. /\ remove' = "queued" /\ removeAt' = now
        /\ UNCHANGED <<now, phase, deadline, wakeByte, delayed>>
    BY <1>3 DEF QueueRemove
  <2>2. QED
    BY <1>0, <2>1 DEF RemoveInv, OnTimeInv
<1>4. CASE SendWake
  <2>1. /\ remove = "queued" /\ remove' \in {"woken", "lost"} /\ (remove' = "woken" => wakeByte')
        /\ UNCHANGED <<now, phase, deadline, removeAt, delayed>>
    BY <1>4 DEF SendWake
  <2>2. QED
    BY <2>1 DEF RemoveInv
<1>5. CASE Drain
  <2>1. phase' = (IF remove = "no" THEN "service" ELSE "gone") /\ UNCHANGED remove
    BY <1>5 DEF Drain
  <2>2. QED
    BY <2>1 DEF RemoveInv
<1>6. CASE TimeOut
  BY <1>6 DEF TimeOut, RemoveInv
<1>7. CASE Service
  <2>1. /\ phase = "service" /\ phase' = "wait" /\ deadline' = DeadlineOf(conn', now)
        /\ UNCHANGED <<now, wakeByte, remove, removeAt, delayed>>
    BY <1>7 DEF Service, envVars
  <2>2. deadline' <= now + IdleWait
    BY <1>0, <2>1, StepShape, DeadlineEffect DEF Shape, TypeOK
  <2>3. QED
    BY <1>0, <2>1, <2>2 DEF RemoveInv
<1>8. CASE WaitReturn \/ WaitInterrupted \/ ReceiveDone
  <2>1. /\ phase \in {"wait", "receive"} /\ phase' \in {"receive", "wake"}
        /\ UNCHANGED <<now, wakeByte, remove, removeAt, delayed>>
    BY <1>8 DEF WaitReturn, WaitInterrupted, ReceiveDone, envVars
  <2>2. QED
    BY <2>1 DEF RemoveInv
<1>9. CASE EmptyWakeSocket
  <2>1. phase = "wake" /\ phase' = "drain" /\ UNCHANGED <<now, remove, removeAt, delayed>>
    BY <1>9 DEF EmptyWakeSocket, envVars
  <2>2. QED
    BY <2>1 DEF RemoveInv
<1>10. QED
  BY <1>1, <1>2, <1>3, <1>4, <1>5, <1>6, <1>7, <1>8, <1>9 DEF Next, Worker

\* RemoveInv holds throughout.
LEMMA Removal == Spec => []RemoveInv
<1>1. Init => RemoveInv
  BY DEF Init, RemoveInv
<1>2. QED
  BY <1>1, Timely, StepRemove, PTL DEF Spec

\* The IO thread never blocks in wait_readable while a command it was woken
\* for waits: emptying the wake socket before draining loses nothing.
THEOREM WakeSeen == Spec => []WakeNotMissed
<1>1. RemoveInv => WakeNotMissed
  BY DEF RemoveInv, WakeNotMissed
<1>2. QED
  BY <1>1, Removal, PTL

\* "Losing a wake byte only delays the command by idle_wait" (IoSender::send).
THEOREM LostWakeBounded == Spec => []LostWakeDelay
<1>1. RemoveInv => LostWakeDelay
  BY DEF RemoveInv, LostWakeDelay
<1>2. QED
  BY <1>1, Removal, PTL

=============================================================================
