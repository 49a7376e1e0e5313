------------------------------- MODULE Device -------------------------------
(***************************************************************************)
(* What a scanner does with a drive beside I/O: it looks for it on the     *)
(* network, reads the EDS that came with it, reads its objects, or reads   *)
(* and clears its fault queue.  The tasks share no state: a behaviour has  *)
(* one of them.                                                            *)
(***************************************************************************)
EXTENDS FaultQueue, Parameter, Discovery, EdsText

VARIABLE task

vars == <<task, faultVars, paramVars, discoverVars, edsVars>>

\* The parts that are not at work have nothing in them.
Init ==
  /\ task \in {"discover", "eds", "objects", "faults"}
  /\ FaultInit /\ ParamInit /\ DiscoverInit /\ EdsInit
  /\ task # "faults" => queue = <<>>
  /\ task # "objects" => object.kind = "none"
  /\ task # "discover" => ~all

\* A step of discovery.
Discover(A) ==
  task = "discover" /\ A /\ UNCHANGED <<task, faultVars, paramVars, edsVars>>

Next ==
  \/ task = "faults" /\ FaultNext
       /\ UNCHANGED <<task, paramVars, discoverVars, edsVars>>
  \/ task = "objects" /\ ParamNext
       /\ UNCHANGED <<task, faultVars, discoverVars, edsVars>>
  \/ Discover(DiscoverNext)
  \/ task = "eds" /\ EdsNext
       /\ UNCHANGED <<task, faultVars, paramVars, discoverVars>>

\* The thread that discovers runs and the clock does not stop.
Spec ==
  /\ Init /\ [][Next]_vars
  /\ WF_vars(Discover(DiscoverThread)) /\ WF_vars(Discover(Tick))

\* discover returns, also when signals keep interrupting it.
DiscoverReturns == task = "discover" ~> stage \in {"done", "failed"}

=============================================================================
