--------------------------- MODULE DiscoveryProofs ---------------------------
(***************************************************************************)
(* discover against its deadline, for any timeout, any replies and any     *)
(* number of them.                                                         *)
(*                                                                         *)
(* The read timeout is computed at one time and counts from a later one.   *)
(* While the thread is not delayed the clock moves only during a wait, so  *)
(* the two are the same and the wait ends at the deadline.                 *)
(***************************************************************************)
EXTENDS Device, TLAPS

USE DiscoveryAssumption

Stages == {"start", "send", "check", "read", "wait", "done", "failed"}

Arrivals == [datagram : Datagrams, at : Nat]

\* Reading has begun; before that the clock stands still.
Reading == stage \in {"check", "read", "wait", "done"}

Typing ==
  /\ stage \in Stages
  /\ now \in Nat /\ deadline \in Nat /\ timer \in Nat /\ taken \in Nat
  /\ delayed \in BOOLEAN
  /\ arrived \in Seq(Arrivals)
  /\ taken <= Len(arrived)
  /\ stage \in {"start", "send"} => now = 0 /\ deadline = 0 /\ ~delayed

\* When a read ends by its timeout, the deadline is over.
TimerInv ==
  /\ stage = "read" => now + timer >= deadline
  /\ stage = "wait" => timer >= deadline
  /\ stage = "done" => now >= deadline

\* An undelayed thread has looked at all that came before this instant, and it
\* waits for the deadline exactly.
PromptInv ==
  ~delayed =>
    /\ \A i \in 1..Len(arrived) : arrived[i].at < now => i <= taken
    /\ Reading => now <= deadline
    /\ stage = "read" => now + timer = deadline
    /\ stage = "wait" => timer = deadline
    /\ stage = "done" => \A i \in 1..Len(arrived) : arrived[i].at < deadline => i <= taken

TimeInv == Typing /\ TimerInv /\ PromptInv

LEMMA InitTime == DiscoverInit => TimeInv
<1>1. DiscoverInit => Typing
  <2> SUFFICES ASSUME DiscoverInit PROVE Typing
    OBVIOUS
  <2>1. arrived \in Seq(Arrivals) /\ Len(arrived) = 0
    BY DEF DiscoverInit
  <2>2. /\ stage = "start" /\ delayed = FALSE
        /\ now = 0 /\ deadline = 0 /\ timer = 0 /\ taken = 0
    BY DEF DiscoverInit
  <2> QED
    <3>1. stage \in Stages
      BY <2>2 DEF Stages
    <3>2. now \in Nat /\ deadline \in Nat /\ timer \in Nat /\ taken \in Nat
      BY <2>2
    <3>3. delayed \in BOOLEAN
      BY <2>2
    <3>4. taken <= Len(arrived)
      BY <2>1, <2>2
    <3>5. stage \in {"start", "send"} => now = 0 /\ deadline = 0 /\ ~delayed
      BY <2>2
    <3> QED
      BY <2>1, <3>1, <3>2, <3>3, <3>4, <3>5 DEF Typing
<1>2. DiscoverInit => TimerInv /\ PromptInv
  BY DEF DiscoverInit, TimerInv, PromptInv, Reading
<1> QED
  BY <1>1, <1>2 DEF TimeInv

LEMMA StepTime == TimeInv /\ [DiscoverNext]_discoverVars => TimeInv'
<1> SUFFICES ASSUME TimeInv, [DiscoverNext]_discoverVars PROVE TimeInv'
  OBVIOUS
<1> USE DEF TimeInv, Typing, TimerInv, PromptInv, Stages, Reading
<1>1. ASSUME StartDiscover PROVE TimeInv'
  BY <1>1 DEF StartDiscover
<1>2. ASSUME NEW ok \in BOOLEAN, SendTo(ok) PROVE TimeInv'
  BY <1>2 DEF SendTo
<1>3. ASSUME AllSent PROVE TimeInv'
  BY <1>3 DEF AllSent
<1>4. ASSUME CheckTime PROVE TimeInv'
  BY <1>4 DEF CheckTime, ReadTimeout
<1>5. ASSUME BeginRead PROVE TimeInv'
  BY <1>5 DEF BeginRead
<1>6. ASSUME Receive PROVE TimeInv'
  BY <1>6 DEF Receive
<1>7. ASSUME ReadTimedOut PROVE TimeInv'
  BY <1>7 DEF ReadTimedOut
<1>8. ASSUME Mishap PROVE TimeInv'
  BY <1>8 DEF Mishap, StartFails, Interrupted, ReceiveFails
<1>9. ASSUME NEW d \in Datagrams, Arrive(d) PROVE TimeInv'
  <2> DEFINE new == [datagram |-> d, at |-> now]
  <2>1. new \in Arrivals
    BY DEF Arrivals
  <2>2. arrived' = Append(arrived, new) /\ arrived' \in Seq(Arrivals)
    BY <1>9, <2>1 DEF Arrive
  <2>3. /\ Len(arrived') = Len(arrived) + 1
        /\ \A i \in 1..Len(arrived) : arrived'[i] = arrived[i]
        /\ arrived'[Len(arrived) + 1].at = now
    BY <2>1, <2>2
  <2>4. \A i \in 1..Len(arrived') : i \in 1..Len(arrived) \/ i = Len(arrived) + 1
    BY <2>3
  <2> QED
    BY <1>9, <2>2, <2>3, <2>4 DEF Arrive
<1>10. ASSUME Tick PROVE TimeInv'
  <2>1. now' = now + 1 /\ UNCHANGED <<stage, deadline, timer, arrived, taken>>
    BY <1>10 DEF Tick
  <2>2. stage \in {"check", "read", "wait"}
    BY <1>10 DEF Tick
  <2>3. delayed' \in BOOLEAN /\ (~delayed' => ~delayed /\ Waiting)
    BY <1>10 DEF Tick, Waiting
  <2>4. Typing' /\ TimerInv'
    BY <2>1, <2>2, <2>3
  <2>5. PromptInv'
    BY <2>1, <2>2, <2>3 DEF Waiting
  <2> QED
    BY <2>4, <2>5
<1>11. ASSUME UNCHANGED discoverVars PROVE TimeInv'
  BY <1>11 DEF discoverVars
<1> QED
  BY <1>1, <1>2, <1>3, <1>4, <1>5, <1>6, <1>7, <1>8, <1>9, <1>10, <1>11
  DEF DiscoverNext, DiscoverThread

\* The other tasks of Device leave discovery alone.
LEMMA DiscoverSteps == [Next]_vars => [DiscoverNext]_discoverVars
BY DEF Next, vars, Discover

LEMMA Timed == Spec => []TimeInv
<1>1. Init => TimeInv
  BY InitTime DEF Init
<1>2. TimeInv /\ [Next]_vars => TimeInv'
  BY StepTime, DiscoverSteps
<1>3. QED
  BY <1>1, <1>2, PTL DEF Spec

\* discover returns Ok at its deadline: never before, whatever replies and
\* interruptions there were, and not after it if the thread was not delayed.
THEOREM TimeoutIsTotal == Spec => []TotalTimeout
<1>1. TimeInv => TotalTimeout
  BY DEF TimeInv, Typing, TimerInv, PromptInv, Reading, TotalTimeout
<1> QED
  BY <1>1, Timed, PTL

\* A reply that arrives before the deadline is received before discover
\* returns, whatever arrived before it, if the thread was not delayed.
THEOREM EarlyTaken == Spec => []EarlyRepliesTaken
<1>1. TimeInv => EarlyRepliesTaken
  BY DEF TimeInv, Typing, PromptInv, EarlyRepliesTaken
<1> QED
  BY <1>1, Timed, PTL

=============================================================================
