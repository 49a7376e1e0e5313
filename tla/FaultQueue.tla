----------------------------- MODULE FaultQueue -----------------------------
(***************************************************************************)
(* DpiFaultManager::handle_fault_parameters (PowerFlex 525): the entries   *)
(* of the drive's fault queue are read one request at a time, reported to  *)
(* the handler and returned, and the queue is then cleared.  Meanwhile the *)
(* drive goes on faulting.                                                 *)
(*                                                                         *)
(* Faults are numbered as they occur; the number is the fault's code, and  *)
(* determines what the drive recorded with it.  A request that fails does  *)
(* so before or after the drive has acted; a reply of less than two bytes  *)
(* is one that fails.                                                      *)
(***************************************************************************)
EXTENDS Naturals, Sequences, SequencesExt, FiniteSetsExt

CONSTANTS
  QueueLengths, \* faults in the queue at the start
  MaxNewFaults, \* bound on the faults that occur later
  MaxCalls      \* bound on the calls of handle_fault_parameters

MAX_FAULT_NUMBER == 10

\* The drive keeps no more faults than there are parameters for them.
ASSUME FaultAssumption ==
  /\ QueueLengths \subseteq 0..MAX_FAULT_NUMBER
  /\ MaxNewFaults \in Nat

VARIABLES
  queue,    \* the drive's queue, the latest fault first
  newest,   \* the last fault that occurred
  limit,    \* faults that will have occurred at most
  step,     \* "idle", or what is asked next: "code", "volts", "current",
            \* "frequency", "clear"
  options,  \* clear_faults and get_fault_details
  entry,    \* the fault being read
  faults,   \* faults reported to the handler; what a call returns
  result,   \* "none", "ok", "failed"
  calls,
  \* History of the current or last call.
  before,   \* the queue when it began
  during,   \* faults that occurred since
  cleared   \* faults it removed from the queue

driveVars == <<queue, newest, limit>>
callVars  == <<step, options, entry, faults, result, calls, before, cleared>>
faultVars == <<driveVars, callVars, during>>

FaultInit ==
  /\ \E n \in QueueLengths :
       /\ queue = [i \in 1..n |-> n + 1 - i]
       /\ newest = n /\ limit = n + MaxNewFaults
  /\ step = "idle" /\ options = [clear |-> FALSE, details |-> FALSE]
  /\ entry = [number |-> 0] /\ faults = <<>> /\ result = "none" /\ calls = 0
  /\ before = <<>> /\ during = {} /\ cleared = {}

-----------------------------------------------------------------------------
(* The drive *)

\* What it recorded, in volts, hundredths of an ampere and of a hertz.
Recorded(f) == [volts |-> 300 + f, current |-> 1000 + 7 * f, frequency |-> 6000 + 3 * f]

\* A fault pushes the others back, the last one out.
FaultOccurs ==
  /\ newest < limit
  /\ newest' = newest + 1
  /\ queue' = SubSeq(<<newest'>> \o queue, 1, Min({MAX_FAULT_NUMBER, Len(queue) + 1}))
  /\ during' = during \cup {newest'}
  /\ entry' = IF "torn" \in DOMAIN entry THEN [entry EXCEPT !.torn = TRUE] ELSE entry
  /\ UNCHANGED <<limit, step, options, faults, result, calls, before, cleared>>

\* Its parameters: the codes of faults 1 to 3 and of 4 to 10, and the records.
ParameterValue(instance) ==
  LET at(n) == IF n \in DOMAIN queue THEN queue[n] ELSE 0
      recorded(n, what) == IF at(n) = 0 THEN 0 ELSE Recorded(at(n))[what]
  IN  CASE instance \in 7..9     -> at(instance - 6)
        [] instance \in 604..610 -> at(instance - 600)
        [] instance \in 631..640 -> recorded(instance - 630, "frequency")
        [] instance \in 641..650 -> recorded(instance - 640, "current")
        [] instance \in 651..660 -> recorded(instance - 650, "volts")

-----------------------------------------------------------------------------
(* handle_fault_parameters *)

\* Index n is fault n.
CODE_PARAMS      == <<7, 8, 9, 604, 605, 606, 607, 608, 609, 610>>
FREQUENCY_PARAMS == [n \in 1..10 |-> 630 + n]
CURRENT_PARAMS   == [n \in 1..10 |-> 640 + n]
BUS_VOLTS_PARAMS == [n \in 1..10 |-> 650 + n]

Call(clear, details) ==
  /\ step = "idle" /\ calls < MaxCalls
  /\ calls' = calls + 1
  /\ options' = [clear |-> clear, details |-> details]
  /\ step' = "code" /\ entry' = [number |-> 1]
  /\ faults' = <<>> /\ result' = "none"
  /\ before' = queue /\ during' = {} /\ cleared' = {}
  /\ UNCHANGED driveVars

Return(res) == step' = "idle" /\ result' = res

\* Mutant: the loop stops one fault early.
BugReport(e) ==
  /\ faults' = Append(faults, e)
  /\ entry' = [number |-> e.number + 1]
  /\ IF e.number < MAX_FAULT_NUMBER - 1 THEN step' = "code" /\ UNCHANGED result
     ELSE IF options.clear THEN step' = "clear" /\ UNCHANGED result ELSE Return("ok")

\* The handler is called, and the next fault read unless this was the tenth.
Report(e) ==
  /\ faults' = Append(faults, e)
  /\ entry' = [number |-> e.number + 1]
  /\ IF e.number < MAX_FAULT_NUMBER THEN step' = "code" /\ UNCHANGED result
     ELSE IF options.clear THEN step' = "clear" /\ UNCHANGED result ELSE Return("ok")

\* The code; 0 ends the loop, and the queue is cleared if anything was read.
ReadCode ==
  /\ step = "code"
  /\ LET code == ParameterValue(CODE_PARAMS[entry.number])
         e    == [number |-> entry.number, code |-> code, torn |-> FALSE,
                  volts |-> 0, current |-> 0, frequency |-> 0]
     IN  IF code = 0
         THEN /\ IF faults # <<>> /\ options.clear
                 THEN step' = "clear" /\ UNCHANGED result
                 ELSE Return("ok")
              /\ UNCHANGED <<entry, faults>>
         ELSE IF options.details
         THEN entry' = e /\ step' = "volts" /\ UNCHANGED <<faults, result>>
         ELSE Report(e)
  /\ UNCHANGED <<driveVars, options, calls, before, during, cleared>>

\* Mutant: voltage and current are read from each other's parameters.
BugDetailParams ==
  [volts |-> CURRENT_PARAMS, current |-> BUS_VOLTS_PARAMS, frequency |-> FREQUENCY_PARAMS]

DetailParams ==
  [volts |-> BUS_VOLTS_PARAMS, current |-> CURRENT_PARAMS, frequency |-> FREQUENCY_PARAMS]
Following == [volts |-> "current", current |-> "frequency"]

\* One of the details, each by a request of its own; the last one reports.
ReadDetail ==
  /\ step \in DOMAIN DetailParams
  /\ LET e == [entry EXCEPT ![step] = ParameterValue(DetailParams[step][entry.number])]
     IN  IF step \in DOMAIN Following
         THEN entry' = e /\ step' = Following[step] /\ UNCHANGED <<faults, result>>
         ELSE Report(e)
  /\ UNCHANGED <<driveVars, options, calls, before, during, cleared>>

\* An error ends the call; the handler keeps what it was told.
ReadFails ==
  /\ step \in {"code", "volts", "current", "frequency"}
  /\ Return("failed")
  /\ UNCHANGED <<driveVars, options, entry, faults, calls, before, during, cleared>>

ClearQueue(acted, res) ==
  /\ step = "clear"
  /\ acted \/ res = "failed"
  /\ IF acted THEN queue' = <<>> /\ cleared' = ToSet(queue)
     ELSE UNCHANGED <<queue, cleared>>
  /\ Return(res)
  /\ UNCHANGED <<newest, limit, options, entry, faults, calls, before, during>>

FaultNext ==
  \/ FaultOccurs
  \/ \E clear, details \in BOOLEAN : Call(clear, details)
  \/ ReadCode
  \/ ReadDetail
  \/ ReadFails
  \/ \E acted \in BOOLEAN, res \in {"ok", "failed"} : ClearQueue(acted, res)

-----------------------------------------------------------------------------
(* Properties *)

Codes == {faults[i].code : i \in DOMAIN faults}

\* A fault that the call removed from the queue was reported to the handler
\* or occurred after the call had begun, also when the call ends in an error;
\* and a call that succeeds has reported every fault that was in the queue
\* when it began and is still there, although each new fault moves the others
\* to another number.
NoFaultMissed ==
  /\ cleared \subseteq Codes \cup during
  /\ result = "ok" => ToSet(before) \cap ToSet(queue) \subseteq Codes

\* The details reported with a code are those of that fault (current and
\* frequency in hundredths), unless a fault occurred between their requests;
\* if none occurred during a call that succeeds, it returns the queue as it
\* was, in order, and has cleared it if asked to.
FaultsExact ==
  /\ \A i \in DOMAIN faults :
       LET e == faults[i]
       IN  /\ e.number = i
           /\ ~e.torn /\ options.details =>
                [volts |-> e.volts, current |-> e.current, frequency |-> e.frequency]
                  = Recorded(e.code)
  /\ result = "ok" /\ during = {} =>
       /\ [i \in DOMAIN faults |-> faults[i].code] = before
       /\ options.clear => queue = <<>>

=============================================================================
