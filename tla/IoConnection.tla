---------------------------- MODULE IoConnection ----------------------------
(***************************************************************************)
(* The implicit-messaging state of one connection and the operations on it *)
(* (io/connection.rs): the O->T send schedule, the sequence counters and   *)
(* the T->O timeout.  Pure operators; module IoTiming runs them against a  *)
(* clock.                                                                  *)
(*                                                                         *)
(* A connection is a record                                                *)
(*   next_send, last_receive  instants (natural numbers of clock ticks)    *)
(*   out_ok                   does the output have the configured size?    *)
(*   seq, count               o2t_sequence_number (u32) and                *)
(*                            sequence_count (u16)                         *)
(* The "already warned" booleans only silence repeated log lines.          *)
(***************************************************************************)
EXTENDS Integers

CONSTANTS
  O2TApi,     \* O->T packet interval granted by the target
  T2OApi,     \* T->O packet interval granted by the target
  Multiplier, \* connection timeout multiplier code, 0..7
  O2TFixed,   \* fixed-size O->T direction
  T2OFixed,   \* fixed-size T->O direction
  HasCount,   \* transport class 1: packets carry a sequence count
  U32, U16    \* number of values of the two integer widths

ASSUME ScheduleAssumption ==
  /\ O2TApi \in Nat \ {0}
  /\ T2OApi \in Nat \ {0}
  /\ Multiplier \in 0..7
  /\ O2TFixed \in BOOLEAN /\ T2OFixed \in BOOLEAN /\ HasCount \in BOOLEAN
  /\ U32 \in Nat \ {0} /\ U16 \in Nat \ {0}

Instants   == Nat
Connection == [next_send: Instants, last_receive: Instants, out_ok: BOOLEAN,
               seq: 0..U32 - 1, count: 0..U16 - 1]

\* forward_open: the timeout is the granted T->O interval times 4 << code.
Timeout == T2OApi * <<4, 8, 16, 32, 64, 128, 256, 512>>[Multiplier + 1]

\* IoConnection::new: output of the right size (zeros), due at once.
NewConnection(now) ==
  [next_send |-> now, last_receive |-> now, out_ok |-> TRUE,
   seq |-> 0, count |-> 0]

TimeoutAt(conn) == conn.last_receive + Timeout

\* Mutant: one tick too early.
BugTimedOutEarly(conn, now) == now + 1 >= TimeoutAt(conn)
IsTimedOut(conn, now) == now >= TimeoutAt(conn)

IsSendDue(conn, now) == now >= conn.next_send

Earlier(a, b) == IF a <= b THEN a ELSE b

NextDeadline(conn) == Earlier(conn.next_send, TimeoutAt(conn))

\* Mutant: missed slots are not skipped and go out in a burst.
BugBurst(next, now) == next + O2TApi
\* Mutant: the schedule restarts from the late wake-up.
BugLosePhase(next, now) == now + O2TApi

\* The schedule after a packet: one interval on and, if that is already past,
\* on by the number of intervals missed (computed in nanoseconds and
\* truncated to u32).
Advance(next, now) ==
  LET n      == next + O2TApi
      missed == (now - n) \div O2TApi + 1
  IN  IF n <= now THEN n + O2TApi * (missed % U32) ELSE n

\* build_packet refuses to send output of the wrong size on a fixed-size
\* connection.
MaySend(conn) == ~O2TFixed \/ conn.out_ok

\* Mutant: the sequence count also counts the packets that are not sent.
BugCountUnsent(conn, now) ==
  [conn EXCEPT !.next_send = Advance(@, now),
               !.seq = IF MaySend(conn) THEN (@ + 1) % U32 ELSE @,
               !.count = (@ + 1) % U16]

\* build_packet: the schedule advances even when nothing is sent; the
\* counters wrap.
BuildPacket(conn, now) ==
  IF MaySend(conn)
  THEN [conn EXCEPT !.next_send = Advance(@, now),
                    !.seq = (@ + 1) % U32,
                    !.count = IF HasCount THEN (@ + 1) % U16 ELSE @]
  ELSE [conn EXCEPT !.next_send = Advance(@, now)]

\* Payloads: of the configured size, of another size, too short to hold the
\* sequence count and the run/idle header.
Payloads == {"good", "otherSize", "short"}

Accepted(payload) ==
  \/ payload = "good"
  \/ payload = "otherSize" /\ ~T2OFixed

\* on_receive: a packet that is malformed or of the wrong size does not reset
\* the timeout.
OnReceive(conn, payload, now) ==
  IF Accepted(payload) THEN [conn EXCEPT !.last_receive = now] ELSE conn

=============================================================================
