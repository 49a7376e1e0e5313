------------------------------ MODULE Discovery ------------------------------
(***************************************************************************)
(* DiscoveryManager::discover: ListIdentity to the broadcast address of    *)
(* every interface, then replies until a total timeout has passed.         *)
(*                                                                         *)
(* Replies arrive while the thread does anything at all; each may be cut   *)
(* short, come from something else than a device, or never come, and        *)
(* recv_from may be interrupted at any time.                               *)
(***************************************************************************)
EXTENDS Wire

CONSTANTS
  Interfaces,      \* what getifaddrs lists, in order
  Address,         \* the address of BroadcastTarget::Address
  IdentityReplies, \* what may be sent in answer
  Cuts,            \* how many bytes of a reply may be kept (any more: all of them)
  Timeout,         \* DiscoveryManager.timeout
  MaxReplies,      \* bound on the datagrams that arrive
  MaxTime          \* bound on the clock, which leaves room for a late read

ASSUME DiscoveryAssumption ==
  /\ Timeout \in Nat /\ MaxReplies \in Nat /\ MaxTime \in Nat /\ Cuts \subseteq Nat
  /\ 2 * Timeout <= MaxTime

LIST_IDENTITY == 12

VARIABLES
  stage,     \* "start", "send", "check", "read", "wait", "done" (Ok), "failed" (Err)
  all,       \* is the target AllInterfaces?
  targets,   \* addresses still to ask
  sent,      \* has any request been sent?
  now, deadline,
  timer,     \* the read timeout; in "wait", when the read times out
  arrived,   \* every datagram that reached the socket, with its time
  taken,     \* how many of them recv_from returned
  delayed,   \* has the clock moved while the thread had something to do?
  devices    \* what discover collected

discoverVars == <<stage, all, targets, sent, now, deadline, timer, arrived, taken,
          delayed, devices>>

-----------------------------------------------------------------------------
(* Broadcast addresses.  A broadcast address that is null or not IPv4 is 0. *)

ipv4_broadcast_addrs(interfaces) ==
  LET wanted == {i \in ToSet(interfaces) : i.up /\ i.broadcast /\ ~i.loopback
                                             /\ i.addr # 0}
  IN  SetToSortSeq({i.addr : i \in wanted}, LAMBDA a, b : a < b)

-----------------------------------------------------------------------------
(* One ListIdentity reply.  The product name is its bytes. *)

ShortReply(b) == Len(b) < 33 \/ Len(b) < 33 + b[33]
Identity(b) ==
  [ip |-> SubSeq(b, 7, 10), port |-> 256 * b[5] + b[6], vendor |-> Get16(b, 19),
   device_type |-> Get16(b, 21), product |-> Get16(b, 23),
   major |-> b[25], minor |-> b[26], status |-> Get16(b, 27),
   serial |-> Get32(b, 29), name |-> SubSeq(b, 34, 33 + b[33])]

\* Mutant: every item is taken for an identity.
BugIdentityItems(items) == items

IdentityItems(items) == SelectSeq(items, LAMBDA i : i.type = LIST_IDENTITY)

\* One bad identity item makes the whole reply an error.
parse_list_identity_response(b) ==
  IF Len(b) < HEADER_SIZE THEN Err
  ELSE LET packet == DecodeCommonPacket(From(b, HEADER_SIZE + 1))
       IN  IF ~packet.ok THEN Err
           ELSE LET found == IdentityItems(packet.items)
                IN  IF \E i \in DOMAIN found : ShortReply(found[i].data) THEN Err
                    ELSE [ok |-> TRUE,
                          devices |-> [i \in DOMAIN found |-> Identity(found[i].data)]]

\* A reply is a list of items; an item that is a device's is encoded here, the
\* state byte at its end included.  One with a bad name says it has a longer
\* name than it has.
DeviceItem(d, bad) == [device |-> d, bad |-> bad]
Foreign(data)  == [foreign |-> data]
IsDevice(item) == "device" \in DOMAIN item
ItemBytes(item) ==
  IF ~IsDevice(item) THEN Item(134, item.foreign)
  ELSE LET d == item.device
       IN  Item(LIST_IDENTITY,
                <<1, 0, 0, 2, d.port \div 256, d.port % 256>> \o d.ip \o Zeros(8)
                  \o Le16(d.vendor) \o Le16(d.device_type) \o Le16(d.product)
                  \o <<d.major, d.minor>> \o Le16(d.status) \o Le32(d.serial)
                  \o <<Len(d.name) + (IF item.bad THEN 2 ELSE 0)>> \o d.name \o <<255>>)
ReplyBytes(r) ==
  Le16(99) \o Zeros(HEADER_SIZE - 2)
    \o CommonPacket([i \in DOMAIN r |-> ItemBytes(r[i])])

\* What may arrive, and what the code makes of it.
Cut(r, n) == SubSeq(ReplyBytes(r), 1, Min({n, Len(ReplyBytes(r))}))
Datagrams == {[reply |-> r, bytes |-> Cut(r, n)] : r \in IdentityReplies, n \in Cuts}
Parsed    == [d \in Datagrams |-> parse_list_identity_response(d.bytes)]

-----------------------------------------------------------------------------
DiscoverInit ==
  /\ stage = "start"
  /\ all \in BOOLEAN
  /\ targets = <<>> /\ sent = FALSE
  /\ now = 0 /\ deadline = 0 /\ timer = 0
  /\ arrived = <<>> /\ taken = 0 /\ delayed = FALSE
  /\ devices = <<>>

\* bind, set_broadcast or getifaddrs fails.
StartFails ==
  /\ stage = "start"
  /\ stage' = "failed"
  /\ UNCHANGED <<all, targets, sent, now, deadline, timer, arrived, taken,
                 delayed, devices>>

StartDiscover ==
  /\ stage = "start"
  /\ targets' = IF all THEN ipv4_broadcast_addrs(Interfaces) ELSE <<Address>>
  /\ stage' = "send"
  /\ UNCHANGED <<all, sent, now, deadline, timer, arrived, taken, delayed,
                 devices>>

\* A send that fails is logged and the next target is tried.
SendTo(ok) ==
  /\ stage = "send" /\ targets # <<>>
  /\ sent' = (sent \/ ok)
  /\ targets' = Tail(targets)
  /\ UNCHANGED <<stage, all, now, deadline, timer, arrived, taken, delayed, devices>>

AllSent ==
  /\ stage = "send" /\ targets = <<>>
  /\ deadline' = now + Timeout
  /\ stage' = "check"
  /\ UNCHANGED <<all, targets, sent, now, timer, arrived, taken, delayed,
                 devices>>

\* Mutant: every read waits for the whole timeout.
BugReadTimeout == Timeout

\* The time remaining is the read timeout.
ReadTimeout == deadline - now

CheckTime ==
  /\ stage = "check"
  /\ IF now >= deadline
     THEN stage' = "done" /\ UNCHANGED timer
     ELSE stage' = "read" /\ timer' = ReadTimeout
  /\ UNCHANGED <<all, targets, sent, now, deadline, arrived, taken, delayed,
                 devices>>

\* recv_from is called: the read timeout counts from here.
BeginRead ==
  /\ stage = "read"
  /\ timer' = now + timer
  /\ stage' = "wait"
  /\ UNCHANGED <<all, targets, sent, now, deadline, arrived, taken, delayed,
                 devices>>

\* Mutant: a malformed reply ends the search.
BugReceive ==
  /\ stage = "wait" /\ taken < Len(arrived)
  /\ taken' = taken + 1
  /\ LET found == Parsed[arrived[taken + 1].datagram]
     IN  IF found.ok THEN devices' = devices \o found.devices /\ stage' = "check"
         ELSE UNCHANGED devices /\ stage' = "done"
  /\ timer' = 0
  /\ UNCHANGED <<all, targets, sent, now, deadline, arrived, delayed>>

Receive ==
  /\ stage = "wait" /\ taken < Len(arrived)
  /\ taken' = taken + 1
  /\ LET found == Parsed[arrived[taken + 1].datagram]
     IN  devices' = IF found.ok THEN devices \o found.devices ELSE devices
  /\ stage' = "check"
  /\ timer' = 0
  /\ UNCHANGED <<all, targets, sent, now, deadline, arrived, delayed>>

\* Mutant: an interrupted call starts the timeout anew.
BugInterrupted ==
  /\ stage = "wait"
  /\ stage' = "check"
  /\ deadline' = now + Timeout
  /\ timer' = 0
  /\ UNCHANGED <<all, targets, sent, now, arrived, taken, delayed, devices>>

Interrupted ==
  /\ stage = "wait"
  /\ stage' = "check"
  /\ timer' = 0
  /\ UNCHANGED <<all, targets, sent, now, deadline, arrived, taken,
                 delayed, devices>>

ReadTimedOut ==
  /\ stage = "wait" /\ taken = Len(arrived) /\ now >= timer
  /\ stage' = "done"
  /\ timer' = 0
  /\ UNCHANGED <<all, targets, sent, now, deadline, arrived, taken,
                 delayed, devices>>

\* Any other error, of set_read_timeout or of recv_from, ends discover.
ReceiveFails ==
  /\ stage \in {"read", "wait"}
  /\ stage' = "failed"
  /\ timer' = 0
  /\ UNCHANGED <<all, targets, sent, now, deadline, arrived, taken,
                 delayed, devices>>

-----------------------------------------------------------------------------
(* Network and clock *)

Arrive(d) ==
  /\ sent /\ stage \notin {"done", "failed"} /\ Len(arrived) < MaxReplies
  /\ arrived' = Append(arrived, [datagram |-> d, at |-> now])
  /\ UNCHANGED <<stage, all, targets, sent, now, deadline, timer, taken,
                 delayed, devices>>

Waiting == stage = "wait" /\ taken = Len(arrived) /\ now < timer

\* The clock starts at the deadline's computation; the sends take their time,
\* but nothing measures it.
Tick ==
  /\ now < MaxTime /\ stage \in {"check", "read", "wait"}
  /\ stage = "read" => now < MaxTime - timer
  /\ now' = now + 1
  /\ delayed' = (delayed \/ ~Waiting)
  /\ UNCHANGED <<stage, all, targets, sent, deadline, timer, arrived, taken,
                 devices>>

\* What the thread does without anyone's help, and what may befall it.
DiscoverThread ==
  \/ StartDiscover
  \/ \E ok \in BOOLEAN : SendTo(ok)
  \/ AllSent \/ CheckTime \/ BeginRead \/ ReadTimedOut \/ Receive
Mishap == StartFails \/ Interrupted \/ ReceiveFails

DiscoverNext ==
  \/ DiscoverThread \/ Mishap
  \/ \E d \in Datagrams : Arrive(d)
  \/ Tick

-----------------------------------------------------------------------------
(* Properties *)

\* "Sends ListIdentity and collects replies until timeout has passed": however
\* many replies, malformed or not, and interruptions there are, discover does
\* not return before the timeout, nor after it unless the thread was delayed.
TotalTimeout ==
  stage = "done" => /\ now >= deadline
                    /\ ~delayed => now = deadline

\* A reply that reaches the socket before the deadline is looked at, whatever
\* came before it, unless the thread was delayed.
EarlyRepliesTaken ==
  stage = "done" /\ ~delayed =>
    \A i \in DOMAIN arrived : arrived[i].at < deadline => i <= taken

\* What was collected is, in order of arrival, what the replies taken say: all
\* identity items of a reply that is whole, the leading ones of a reply that
\* ends between two items, and nothing of one that ends elsewhere or holds a
\* bad item.
ItemEnd ==
  [r \in IdentityReplies |-> [n \in 0..Len(r) |-> Len(ReplyBytes(SubSeq(r, 1, n)))]]
Promised(d) ==
  LET whole == {n \in 0..Len(d.reply) : ItemEnd[d.reply][n] = Len(d.bytes)}
      found == SelectSeq(SubSeq(d.reply, 1, CHOOSE n \in whole : TRUE), IsDevice)
  IN  IF whole = {} THEN <<>>
      ELSE IF \E i \in DOMAIN found : found[i].bad THEN <<>>
      ELSE [i \in DOMAIN found |-> found[i].device]
DevicesAsReplied ==
  stage \in {"done", "failed"} =>
    devices = FlattenSeq([i \in 1..taken |-> Promised(arrived[i].datagram)])

=============================================================================
