# A verification project for eipscanner-rs

eipscanner-rs is an EtherNet/IP scanner: it opens TCP sessions to devices, sends
CIP requests over them, and keeps class 0/1 I/O connections alive by exchanging
UDP packets at fixed intervals on a thread of its own. This directory holds TLA+
models of its parts, TLC configurations that check them on small instances, and
TLAPS proofs. Paths are relative to the repository (`src/src/...` is the crate).

## Inventory

| Part | State it keeps | Operations | Where |
|---|---|---|---|
| `io::manager` | counters for IDs and serials, `open_count`, the IO thread | `forward_open`, `forward_close`, `has_open_connections`, the handle's `set_output`, `set_run`, `is_open`, drop | IoManager |
| `io::thread` | command channel, table of entries, one `OpenFlag` per connection, sockets | `drain_commands`, `service_connections`, wait, `receive_all`, shutdown | IoManager, IoTiming |
| `io::connection` | next send, last receive, output, two sequence counters | `build_packet`, `on_receive`, `is_timed_out`, `next_deadline` | IoConnection, IoTiming |
| `io::rt` | none | `wait_readable`; real-time settings | IoTiming (the wait) |
| `session` | a TCP stream under a mutex, the session handle | connect and register, `send_and_receive`, drop | Session |
| `objects::file` | the upload in progress: size, number, content, handler | `new`, `begin_upload`, `handle_transfers`, `upload` | FileUpload |
| `message_router`, `cip`, `eip`, `codec` | none | encoding and decoding of requests, paths, items, packets | Wire, ForwardOpen |
| `discovery`, `netif` | a socket and a deadline | broadcast, collect replies | Discovery |
| `objects::parameter`, `identity`, `vendor` (fault object) | the copy of a parameter | `read`, `update_value`, typed values, engineering units, offline setters | Parameter, Device |
| `vendor` (PowerFlex 525 fault queue) | none (the drive's) | `handle_fault_parameters` | FaultQueue, Device |
| `eds` | the parsed document | text parser, conversion of a connection entry | EdsText, EdsConnection, ForwardOpen |

**Interactions.** Application threads share a `ConnectionManager` by reference;
`forward_open` and `forward_close` send requests through a session and commands
through one mpsc channel to the IO thread. Application and IO thread also share
each connection's `OpenFlag`, an atomic boolean with a counter common to all
connections. The IO thread calls user callbacks. The File object and everything
else that speaks CIP goes through `Session::send_and_receive`, which serializes
callers by a lock.

**What is hard.** A close by the application racing a timeout on the IO thread;
commands that name a table key rather than a connection and are carried out
later; a counter changed in two atomic operations by either side; panicking
callbacks; a wake-up byte that may be lost; a send schedule that must keep its
phase across stalls; a timeout racing the packet that would prevent it; a read
timeout that leaves a reply in the stream; an upload that fails half way; sizes
and lengths at the edge of their fields; replies cut short; one timeout for many
replies; a fault queue that moves while it is read; several requests that are
meant to describe one thing; text in any layout, or cut.
`PROJECT.json` lists these hazards line by line with the properties that cover
them.

## Modules

* **IoManager** (the core). One state machine for the application threads, the
  manager and the IO thread. Each connection has a program counter `pc` for the
  `forward_open`/`forward_close` call that works on it; `OpenFlag::close` is two
  steps (swap, `fetch_sub`), because another thread can run in between. The IO
  thread has a phase (`worker`) and takes one command, one entry or one callback
  per step. Commands carry the connection they come from, but the receiving
  actions look only at its key, as `drain_commands` does. The key a connection
  gets is the constant `KeyOf`: the *target* picks the T->O ID in its reply, and
  nothing keeps it from picking one again, since it times connections out by itself.
  Time is left out: an entry may be found timed out, due or idle in any pass.
  `reused` (IDs given out again while the scanner still served their connection),
  `wanted`, `stale`, `late`, `onClose` and `closedBy` are history for the properties.
* **IoLifecycle**: what the holder of a handle may rely on, in one step per
  event: a connection opens once, closes once and for one reason, the counter
  follows, `on_close` comes at most once and after the close. IoManager's
  `ImplementsLifecycle` is the refinement; a flag that is swapped and not yet
  subtracted maps to a closed connection already uncounted.
* **IoConnection**: the arithmetic of one connection as operators (`Advance` with
  its `u32` truncation, the timeout, both counters with their widths).
* **IoTiming**: those operators in the loop of the IO thread against a clock, with
  the data socket, the wake socket and the commands. `receive_all` may stop at a
  socket error with packets left. The clock may move between any two steps; `delayed` records whether it did so while the thread had
  something to do, and the promptness properties are about threads that were not
  delayed.
* **Session**: `send_and_receive` step by step for any number of threads: lock,
  write, read header, read body, timeout, garbage after a timeout inside a reply,
  a device that closes the connection. Replies are numbered for the properties
  only; the code does not compare `sender_context`.
* **FileUpload**: the File object's upload with requests that fail before or after
  the device has acted, late replies, a wrong reported size, a short last packet, and
  a device that sends middle packets for ever.
* **Wire**: the byte formats as operators: integers with their casts, routes and
  path segments, EPATH both ways and in both segment sizes, network parameters,
  common packet items, the encapsulation header with its checks, router requests
  and replies, and a target's reading of a path.
* **EdsConnection**: a connection entry of an EDS with the parameters and
  assemblies it refers to, as operators: sizes, intervals, the path, and the
  conversion to a `ConnectionConfig`.
* **ForwardOpen**: one configuration, given directly or converted from an EDS, on
  its way through `forward_open` and `forward_close`: refused or encoded, read by a
  target that follows the CIP layout, answered with a reply of which any prefix may
  arrive, decoded. Intervals are in nanoseconds, as in a `Duration`; the request has
  them in whole microseconds.
* **Discovery**: `discover`: one request per broadcast address, then the receive
  loop against its deadline, with datagrams that arrive between any two steps,
  and the parsing of replies. `CheckTime` and `BeginRead` are two steps, because
  the read timeout counts from `recv_from` and not from where it was computed.
  Wire's operators read the replies.
* **EdsText**: `eds/parse.rs` one character at a time against a vendor who writes
  sections, entries, strings, tokens, comments and line ends in any order, makes
  mistakes, or stops anywhere. The code is recursive descent with a one-character
  peek; the model has one mode for each of its loops.
* **FaultQueue**: `handle_fault_parameters` request by request, against a drive that
  faults between any two requests, with requests that fail before or after the
  drive has acted.
* **Parameter**: `ParameterObject::read` request by request (size, attributes,
  four scaling values), `update_value`, typed values and engineering units; the
  identity and the fault object. Replies are cut anywhere; the device changes the
  value meanwhile.
* **Device**: what a scanner does with a drive beside I/O: Discovery, EdsText, Parameter
  or FaultQueue at work, in one specification; a behaviour has one of these tasks.
* **IoManagerProofs** (types, `open_count`, where a connection is, how it leaves, what
  a pass of the IO thread still sends, which entries stay, the refinement),
  **IoTimingProofs**, **SessionProofs**, **FileUploadProofs**: the
  theorems about these modules. **WireProofs** has lemmas about bytes, for
  **ForwardOpenProofs**; **DeviceProofs** is about the objects and faults of Device,
  **DiscoveryProofs** about its discovery.
* **MC\*** modules hold the model values.

Definitions named `Bug...` are mutants: plausible mistakes in the definition that
follows them, used to see that each property can fail.

## Runs

| Run | Question | Result |
|---|---|---|
| io_safety | three connections, two that may be given one ID, in turn or at once, panics: is the shared state consistent at every interleaving? can the `Remove` of a closed connection hit a later one? | passes (607 000 states up to symmetry): `forward_close` queues `Remove` before the target lets the ID go |
| io_liveness | two connections given the *same* key, `set_output` or `set_run` once on the first: life cycle refinement; how many packets still carry the old setting? do entries leave, timeouts get reported, drops return? | passes (127 000 states) |
| io_on_close | "Not called on forward close" | violated |
| io_reused_id | an open connection can time out, whatever IDs the target gives | violated |
| timing | schedule and counters under arbitrary delays, no wake-up missed; does the thread, when not delayed, wake for each packet and for the timeout, and does a lost wake byte cost at most `idle_wait`? | passes (2.4 million states) |
| session | two threads and four requests: replies match until a read times out, come in order, every call returns | passes |
| session_late_reply | every reply answers its own request | violated |
| file | three uploads of five packets, transfer numbers modulo three, a file that may not end | passes (20 000 states) |
| file_stuck | an upload is over when `upload` returns | violated |
| forward_open | does the target read what the configuration, and the EDS behind it, say? is a cut reply noticed? does the close name the connection? | passes (300 000 states) |
| config_data | do the 510 bytes of configuration data that are said to fit reach the target? | violated |
| drive | discovery: exactly the timeout, no reply in time lost, devices as replied, and it returns. EDS text: does `parse` return what was written, with its line, in any layout; is a cut or malformed text an error? Fault queue: is a fault cleared that nobody was told of? whose details are reported? Objects: is one read from cut replies exact or an error? are limits stored to the nearest value? | passes (a million states, of the four tasks) |

### What the violations show

* **io_on_close.** `service_connections` ignores the answer of `flag.close()`. If
  `forward_close` has closed the flag and its `Remove` is not drained yet, a
  timeout found in that pass calls `on_close` (`io/thread.rs:344`), against the
  comment on `IoCallbacks::on_close`.
* **io_reused_id.** A target that misses the scanner's packets times the connection out
  and may give its ID to the next Forward Open while the IO thread still has the old
  entry. The new `Add` is refused then. If the second handle is closed before the
  IO thread has drained that `Add`, its `Remove` takes out the *old* entry
  (`io/thread.rs:297`): the flag of the old connection stays open for ever,
  `has_open_connections` with it, and no timeout and no `on_close` will come.
* **session_late_reply.** A read timeout leaves the session usable and one reply
  behind: the next call returns the previous request's reply (`session.rs:77`).
* **file_stuck.** An error of a transfer request leaves the object in
  `UploadInProgress` after `upload` has returned (`objects/file.rs:178`).

* **config_data.** The path size in words is cast to `u8`
  (`cip/connection_manager/forward_open.rs:50`). 510 bytes of configuration data, which
  `forward_open` accepts (its message says that many fit), with a 10-byte path in
  front make 261 words, and the byte says 5. The target reads the path and no data.

What passes has these limits:

* `OpenIsTracked` excepts the IDs that a target gave out again while the connection that
  had them was still in use here (`reused`); io_reused_id shows that for those it is
  false. For all others, also IDs given out again after a `forward_close` or a timeout,
  no open connection is lost.
* The target may give the ID of a connection that has timed out to a new one.
  `set_output` on the old handle then sends `SetOutput` with the key, and the IO
  thread applies it to the new connection (`io/thread.rs:299`). No property covers this:
  `OneStalePacket` does not count the packets of a connection whose key another one
  that is set has (`OwnSettings`).
* `PathReadBack` is about paths of up to 255 words, beyond which the size byte wraps. The
  run has configurations on both sides: with 497 or 498 bytes of data the shortest path
  has exactly 255 words. Longer ones are sent, as the code sends them, and are what
  config_data is about.
* `UploadReturns` excepts a device that never sends a last packet: the loop of `upload`
  has no limit (`objects/file.rs:211`).
* A fault that occurs while the queue is read can be cleared unread, or be reported
  with the details of a neighbour (`fault_manager.rs:73`, `fault_parameter.rs:58`).
  `NoFaultMissed` and `FaultsExact` name exactly these faults as the exceptions;
  one that was in the queue when the call began is never cleared unread.
* A value of any length that the device answers to `update_value` is the device's value
  for `ObjectExactOrError` (`objects/parameter.rs:193`).

### Bounds

Two connections are enough for every race between two closers, for the counter
and for a key clash; io_safety takes a third so that the reused ID has a
bystander. Each connection is opened once: a handle is consumed by
`forward_close`, and a later connection is another element of `Conns`.
`Setters` and `MaxSets` bound the calls of `set_output` and `set_run`; io_liveness has
one, of either, at any point of the life of a connection. The proof is for
any number. The other runs have none: those commands only change
settings, which their properties do not read.

In timing any of the three terms of a wait's deadline may be the one that ends it:
`idle_wait` (2 ticks) is shorter than the O->T interval (3), so that it bounds what a
lost wake byte costs; an interrupted wait, or one that begins less than 2 ticks before
the next packet or the timeout, ends by these. A wait that left out any of them violates a property (the mutants
`BugIgnoresIdle`, `BugIgnoresSchedule`, `BugIgnoresTimeout`). The T->O interval is 2 ticks
and the multiplier code 0, so the timeout is 8 ticks, no multiple of the O->T interval;
stalls go over up to two whole intervals, and `MaxTime` (12) leaves time for five
packets. `U32` and `U16` are 4 and 2: both counters wrap, at different times. Once a
behaviour is `delayed` it stays so, and four history variables are of no use to any
property any more; the run's VIEW (`State` in MCIoTiming) leaves them out there.

Four requests let two
threads each be one reply behind. In FileUpload the file takes more packets than
there are transfer numbers, so that numbers repeat within a file. ForwardOpen's
configurations have sizes on both sides of 511 and 65535, all flags, routes
with every form of port segment and odd and even configuration data, up to 255 words
of path and beyond; intervals are not whole microseconds; each reply is cut at every
byte. Intervals above 2^32 microseconds, which the request clamps, are numbers TLC
cannot hold; the proofs have them, and the cast of an EDS interval to `u32`. Discovery has two replies, cut in the header, between
items, inside an item and not at all; two are what it takes for one to hide the
other, and `MaxTime` leaves room for a read that starts as late as possible.
EdsText writes up to seven pieces, enough for a section, an entry with two fields
and something wrong behind them; strings, names and tokens are made of the
characters the parser tells apart, and a comment holds all of the separators.
FaultQueue starts with 0, 1, 2, 9 or 10 faults, so that the loop ends by an empty
entry and by its count and a new fault pushes one out; two new faults and two
calls let a fault fall between any two requests and between calls. Parameter has
types of one and two bytes; the proofs take types of four bytes too. Engineering values are
hundredths and the arithmetic on them is exact; where the exact result lies halfway
between two integers, the model lets the `f64` result fall on either side.

### Fairness

* `WorkerStep`: the IO thread never blocks for ever; its wait is bounded by
  `idle_wait` and callbacks are assumed to return.
* The steps of `forward_close`: its request is bounded by the session's socket
  timeouts. Nothing is assumed of `forward_open` or of the application.
* `JoinThread`: a join returns once the thread has ended.
* Session: a thread that holds the lock runs, and a read without data ends by the
  socket timeout. Neither the device nor the mutex is assumed fair, so the claim
  is that a call returns once it has the lock.
* FileUpload: inside `upload`, `handle_transfers` is called again and returns.

* Discovery: the thread runs and the clock does not stop; interruptions and errors
  are not assumed to happen.

IoTiming, ForwardOpen and the other tasks of Device have no fairness: their properties
are invariants. drive is allowed to stop: `discover` returns, the text ends, and the
application makes a bounded number of calls.

## Proofs

TLC checks one small instance of each module; TLAPS proves the following for every
value of the constants that the modules' `ASSUME`s allow (any finite set of
connections and threads, any intervals, widths and file sizes). `ForwardOpenAssumption`
gives the types of configurations, EDS entries and replies: numbers fit their fields, a
path has at most 60000 bytes, for the packet's length is a `u16`, a reply's additional
status and application data at most 255 words, and it has at most one socket address
item. `FaultAssumption`
only says that the drive's queue has at most `MAX_FAULT_NUMBER` entries,
`DiscoveryAssumption` that the clock's bound is beyond the timeout, and
`ParameterAssumption` gives the types of objects, scalings and limits: texts fit their
length byte, numbers their fields, and an integer type has one, two or four bytes. All
theorems are about the specification that the runs use.

| Module | Theorem | What is proved |
|---|---|---|
| IoManagerProofs | `TypeCorrect`, `CountIsRight` | `[]TypeOK`, `[]CountMatches` |
| | `OnCloseIsOnce`, `ClosedLeaves` | `[]OnCloseOnce`, `[]ClosedIsLeaving` |
| | `LatePacketIsLast`, `OpenTracked`, `StalePacketIsLast` | `[]OneLatePacket`; `[]OpenIsTracked`; `[]OneStalePacket` |
| | `Refinement` | `Spec => ImplementsLifecycle` |
| IoTimingProofs | `PhaseKept`, `NeverBursts`, `CountersInStep` | `[]KeepsPhase`; `[]NoBurst` under `NoEndlessStall`; `[]CountersAgree` when `U16` divides `U32` |
| | `OnTime`, `DropsOnlySilent`, `DropsInTime`, `WakeSeen`, `LostWakeBounded` | the five promptness properties |
| SessionProofs | `LockHeld`, `InStepBeforeTimeout`, `AnswersInOrder` | types and the lock; `[]InStepUntilTimeout`; `RepliesInOrder` |
| FileUploadProofs | `UploadsWholeFile`, `CallsHandlerOnce` | `[]WholeFile`, `[]HandlerOnce` |
| DiscoveryProofs | `TimeoutIsTotal`, `EarlyTaken` | `[]TotalTimeout`, `[]EarlyRepliesTaken` |
| ForwardOpenProofs | `SeesConfigured`, `ExactReplies` | `[]TargetSeesConfig`; `[]ReplyExactOrError` when the session's handle is not 0 |
| DeviceProofs | `NeverMissed`, `ReportedExactly` | `[]NoFaultMissed`, `[]FaultsExact` |
| | `ReadExactly`, `NearestStored` | `[]ObjectExactOrError`, `[]EngNearest` |

Every proof has the same layout: an invariant, a lemma that Init establishes it, a
lemma that a step keeps it with one case per action, and a last temporal step.

### Hypotheses beyond the modules' assumptions

* `NoEndlessStall` (`NeverBursts`): no stall lasts 2^32 intervals. Missed intervals are
  counted in an `as u32`, so after a longer stall `next_send` stays in the past.
* `Handle # 0` (`ExactReplies`): the target registered the session under a handle that is
  not 0. `send_and_receive` does not compare a handle of 0 with that of a reply.
* `U32 = U16 * m` (`CountersInStep`): true of 2^32 and 2^16. When the narrower width does not
  divide the wider one, the counters part at the first wrap.

### IoManager

`TypeOK` and `CountMatches` are not inductive. `open_count - 1` stays a natural
number only because the count equals the open flags plus the closes in progress; and
that sum is kept only if a close in progress is never counted twice: when a thread is
between swap and `fetch_sub`, the flag it works on is closed (so it is in one of the
two sets, never in both), the application thread and the IO thread are never both
there for the same connection, and a connection that has not reached `OpenFlag::new`
has no flag. `Shape` adds these facts (`PhaseInv` on `pc`, `cur` and the phase of the
IO thread, `FlagInv` on flags and who closed them) to the domains (`Domains`). The
lemmas `CountSame`, `CountNew`, `CountSwap` and `CountSub` say how the two
cardinalities change.

Where a connection is takes five invariants (`Track`), each inductive given those
before it. `CloserInv` relates a flag to who closed it and to the application
thread's position: `forward_close` goes on only after its own swap. `QueueInv` is
the order of a connection's commands in the channel: at most one `Add`, before every
`Remove`. `PlaceInv` says that a connection is in one place at a time: still to be
added, or in the table under its own key, or the one that is being closed, or
none of these. This is what makes `on_close` unique: the entry is taken out before
the callback and no `Add` can bring it back (`ReportInv`). `LeaveInv` says that
after the `Remove` was sent, whatever the IO thread still has of the connection is
followed by a `Remove` in the channel. Commands name a key and not a connection, so all of this
has to follow from the key: `AddTaken` and `QueueChange` collect what draining one
command does.

The other three properties look at a pass of `service_connections`. `LateInv`: a
packet after the `Remove` was sent is of the pass under way, and its entry is behind
the pass (no longer in `todo`). `StaleInv` is the same for settings; it needs
`SetOrder` (commands of one field carry increasing settings, all behind the `Add`)
and `FreshInv` (an entry has the last setting or a command in the channel has it,
given `OwnSettings`).
`OpenIsTracked` needs `Sole`: of the connections with a key that was not given out too
early (`reused`), at most one is `Served`, that is being opened, open, or closed with its
`Remove` still to be sent. So when a new connection gets a key, the old one's `Remove` was
queued before the new one's `Add` (`OldRemoves`): `forward_close` queues it before it asks
the target to let the ID go (`ReleasedInv`). Nothing is assumed of the target.

The refinement follows from `Track`: the swap of a flag is `Close`, the step of
`forward_open` that creates one is `Open`, the callback is `Report`, all others are
stutters, the subtraction included, since `CountMatches` makes the abstract counter
`Cardinality(OpenFlags)`.

### IoTiming

`PhaseKept` rests on `AdvanceSchedule`: however many whole intervals `Advance` skips,
with its `u32` truncation, the new time is on the same grid and at most one interval
ahead. `OnTimeInv` bounds the deadline of a wait by the next send, the timeout and
`idle_wait`, from which the promptness of an undelayed thread follows. `SilenceInv`
relates `last_receive` to the last good packet: without a delay they are the same but
for a packet that is still in the socket, and that one came at this instant. So a
timeout found then is of a target that was silent.
`RemoveInv`: the wake byte of a queued command stays in its socket until the commands
are drained, and a command without one waits until the deadline at most.

### Session

`Shape` is the types and `LockInv`: a thread inside a call has the lock. Before the
first timeout the stream holds nothing but the exchange of that thread (`StepInv`):
it is `Quiet` while nobody waits, `Awaited` while a reply is due, `HalfRead`
between header and body, and each of them allows for a connection that breaks half
way. For the order (`OrderInv`), numbers increase along the stream (`StreamOrder`),
a header in hand is later than the last answer (`HandOrder`) and everything still to
come is later than both (`Before`); this survives timeouts and swallowed pieces,
which take from the front only.

### FileUpload

`ContentInv`: of an upload in progress, the content is the file so far, the transfer
number is its length modulo the width, and the device has served that block or is one
ahead, the reply being lost. The point is `ServesNext`: a device that keeps only the
number, modulo `U8`, repeats or advances correctly because it is never more than one
block away (`NumberStep`, from `Remainder` and `WithinARound`). `CountInv` says that
uploads to come have begun and called nothing.

### Discovery

The read timeout is computed by `CheckTime` from one reading of the clock and counts from
the later `BeginRead`. `TimerInv` therefore only says that a read ends at the deadline or
after it; so `discover` never returns early. `PromptInv` is the other half: while the
thread was not delayed the clock moved only during a wait, so the wait ends at the
deadline exactly, and every datagram that came before this instant has been taken.

### ForwardOpen

Both theorems are about bytes read back. `Then` and `Holds` (WireProofs) name
concatenation and "these bytes stand here", since the prover regroups longer sums of
sequences without end. `Part` places each part of a sum behind those before it, `Read16`
and `Read32` read a number where its bytes stand, and `EncapsRead`, `PacketRead`,
`ItemRoundsSteps` and `ResponseRead` do the same for a header, the items in it and a reply,
whether the buffer is whole or ends in between.

For `SeesConfigured`, `BodyRead` unwraps the packet and `OpenRequestRead` finds each field
of the request at its place, which depends on the form (`Large`); `ParamsRead` reads the
network parameters in either form: a size that the small one would mask has chosen
the large one. Configurations made from an EDS entry have the same type as those given
directly (`EdsConfigIs`, from `IntervalIs`, `DirectionSizeIs`, `ResolvedPathIs`). For
`ExactReplies`, `ReplyRead` says of every number of bytes received that decoding
fails or gives the whole response, with the items that are complete; `ReplyDecoded`
goes on to the outcome. The invariant `Inv` carries these through the stages:
what is under way (`MessageKnown`), what the target read (`SeenKnown`), what it
answered and what was made of it (`AnswerKnown`).

### FaultQueue

`NoFaultMissed` speaks of the queue at the beginning of a call, and faults push the
others to higher numbers, so the invariant cannot follow an entry by its number.
`Since(b)` takes the last fault `b` before the call instead: of the entries up to the
one being read, those not newer than `b` are reported (`Passed`). A new fault moves
them up together, and so keeps it. `FaultsExact` follows the entry being read
(`EntryInv`: until a fault occurs its number still names it, so the details read are its
own) and the whole list (`CopyInv`: without a new fault, what was reported is a prefix
of the queue). Lemmas on the parameter numbers (`CodeLow` to `DetailAt`) say
which fault and which field each of the drive's parameters holds.

### Parameter

The claim is about replies of any length, cut at any byte, and values that change
meanwhile. It has a part about bytes and a part about requests.

*Bytes.* A decoder takes fields off the front of a buffer (`Take`, a loop of `Get`).
`GetExact`: if the buffer begins like a field, whether it goes on like the whole reply or ends
somewhere, `Get` gives that field and a rest of which the same is true, or an error.
`TakeExact` repeats this for a list of fields, and `Take2` to `Take8` name the
fields. From these each decoder gives back what `DeviceBytes` encodes: the
attributes, an identity, a fault, a scaling value (`AttributesExact`, `IdentityExact`,
`FaultExact`, `ScalingExact`). `Take` is a recursive function; that it exists, and what holds
after each round, is by induction, for which `Induction` is derived from the
minimal element of a set of naturals.

*Requests.* `ObjectExactOrError` speaks of a finished read and is not inductive. `Inv` says
how far each stage of `ParameterObject::read` has come: the size only, everything but
the scaling, or the object with one of the values the device had since the call
(`ReadingInv`). The four scaling replies are put one after another before they are
decoded, so a cut reply would shift the later ones. `ScalingInv` says that at any time
this buffer begins like the whole replies do (`Upto`): it can be as long as all of
them only if none was cut, and otherwise the decoder finds too few bytes.

*Engineering units.* `EngNearest` needs `SetInv`: the limit in the copy is the one
computed when it was set, with the scaling the copy still has. `ActualsNearest` shows that
the rounded value is nearest among all values of the integer type, the ends of the
type's range included, where `ClampedNearest` is used; `DecodeBack` that writing it to
bytes and reading it, signed or unsigned, gives it back.

### Only model-checked

* Liveness (`ClosedLeavesTable`, `TimeoutReported`, `DropReturns`, `CallsReturn`,
  `UploadReturns`, `DiscoverReturns`): fairness means ENABLED, which the prover does not
  handle.
* `PathReadBack`, `EdsHonoured` and `CloseNamesConnection` of ForwardOpen, and
  `DevicesAsReplied` of Discovery: a path or a list of items is read in a loop, one
  segment inside the other, as `TakeExact` has the fields of a reply. Not done.
* EdsText: the properties compare the result with what the vendor wrote, along the whole
  text; an inductive invariant would relate each of the parser's modes to the writer's
  position. Not done.

## Plan

1. *(done)* IoManager, IoLifecycle, IoConnection, IoTiming, Session, FileUpload,
   first theorems.
2. *(done)* Wire with the encapsulation header, ForwardOpen, Discovery.
3. *(done)* FaultQueue, Parameter, Device, EdsText, EdsConnection and ForwardOpen
   from an EDS. Left: the counters for serial numbers and connection IDs as state,
   the EDS's `[Device]` section and list of connections.
4. *(done)* Proofs of the invariants and action properties of IoManager, IoTiming,
   Session, FileUpload, FaultQueue and Parameter, of the deadline of Discovery, and of the
   refinement of IoLifecycle.
5. *(done)* Proofs about the packets of Forward Open and its replies. Left: `PathReadBack`;
   `CutIsNoticed` of EdsText.

## Not modelled, and why

Payloads of I/O packets, log lines and the "already warned" booleans
(no property depends on them); prefaulting, scheduling class and CPU affinity
(requests to the operating system); tables of status, type and fault codes
(data); examples. Of the EDS: number parsing (decimal and `0x`), the `[Device]`
section and the list of all connections, which repeat the lookup that is modelled.
Display and FromStr of a whole path (text). `f32` and `f64` parameter values, which
need no rounding, and a divisor of 0, for which `actual_to_eng` has no finite value.
The counters behind serial numbers and connection IDs: each number is drawn by one
`fetch_add`, so two living connections share one only after a whole round of the
counter (2^16 and 2^32 numbers), and an ID is 0 only after at least 65535 others.
The mutex of a session and the mpsc channel are taken at their documentation: mutual
exclusion, FIFO, failure once the receiver is gone. `receive_all` reads until its socket is empty; the models bound the
packets that can be there, so a flood that starves the loop is out of scope.
