----------------------------- MODULE IoLifecycle -----------------------------
(***************************************************************************)
(* What the io module promises the holder of a connection handle, without  *)
(* threads, channels or tables: a connection is opened once and closed     *)
(* once, by exactly one of forward_close, a timeout and a clash of keys;   *)
(* has_open_connections follows each change at once; on_close is called at *)
(* most once, and only after the close.                                    *)
(***************************************************************************)
EXTENDS Integers, FiniteSets

CONSTANT Conns

VARIABLES
  status,    \* "unborn", "open", or what closed the connection
  count,     \* number of open connections
  reported   \* on_close calls

lvars == <<status, count, reported>>

LInit ==
  /\ status = [c \in Conns |-> "unborn"]
  /\ count = 0
  /\ reported = [c \in Conns |-> 0]

Open(c) ==
  /\ status[c] = "unborn"
  /\ status' = [status EXCEPT ![c] = "open"]
  /\ count' = count + 1
  /\ UNCHANGED reported

Close(c, who) ==
  /\ status[c] = "open"
  /\ status' = [status EXCEPT ![c] = who]
  /\ count' = count - 1
  /\ UNCHANGED reported

\* A forward_close that overtakes a timeout in progress is reported as well.
Report(c) ==
  /\ status[c] \in {"timeout", "user"}
  /\ reported[c] = 0
  /\ reported' = [reported EXCEPT ![c] = 1]
  /\ UNCHANGED <<status, count>>

LNext ==
  \E c \in Conns :
    \/ Open(c)
    \/ \E who \in {"user", "timeout", "duplicate"} : Close(c, who)
    \/ Report(c)

LSpec == LInit /\ [][LNext]_lvars

=============================================================================
