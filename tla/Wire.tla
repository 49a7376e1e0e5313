-------------------------------- MODULE Wire --------------------------------
(***************************************************************************)
(* The byte formats of CIP requests and replies as operators: integers,    *)
(* paths, network parameters, the message router and the common packet     *)
(* format.                                                                 *)
(*                                                                         *)
(* A buffer is a sequence of bytes.  A decoder returns a record with a     *)
(* field ok; ok = FALSE stands for the code's Err.                         *)
(***************************************************************************)
EXTENDS Naturals, Sequences, SequencesExt, TLC

\* Casts keep the low bits, as "as u8" and "as u16" do.
U8(n)       == n % 256
Le16(n)     == <<n % 256, (n \div 256) % 256>>
Le32(n)     == Le16(n % 65536) \o Le16(n \div 65536)
Get16(s, i) == s[i] + 256 * s[i + 1]
Get32(s, i) == Get16(s, i) + 65536 * Get16(s, i + 2)
From(s, i)  == SubSeq(s, i, Len(s))
Zeros(n)    == [i \in 1..n |-> 0]

\* Numbers that a u16 and a u32 hold.
Fits16(n) == n \in Nat /\ n < 65536
Fits32(n) == n \in Nat /\ n \div 65536 < 65536
\* The cast of a longer number to u32.
Low32(n)  == (n % 65536) + 65536 * ((n \div 65536) % 65536)

\* The first n of the eight bytes of a u64; the values here are below 2^32.
Weight == <<1, 256, 65536, 16777216>>
LeBytes(v, n) == [i \in 1..n |-> IF i > 4 THEN 0 ELSE (v \div Weight[i]) % 256]

Err == [ok |-> FALSE]

\* A loop of at most n rounds.
Rounds(n, Round(_), start) ==
  LET after[k \in 0..n] == IF k = 0 THEN start ELSE Round(after[k - 1])
  IN  after[n]

-----------------------------------------------------------------------------
(* Paths are sequences of segments. *)

LogicalCode == [class |-> 32, instance |-> 36, point |-> 44, attribute |-> 48]
Logical(kind, id) == [kind |-> kind, id |-> id]
Port(port, link)  == [kind |-> "port", port |-> port, link |-> link]
Raw(bytes)        == [kind |-> "raw", bytes |-> bytes]
Key(vendor, major, compatible) ==
  [kind |-> "key", vendor |-> vendor, major |-> major, compatible |-> compatible]

Segments ==
  [kind : {"port"}, port : Nat, link : Seq(Nat)]
    \cup [kind : {"key"}, vendor : Nat, major : Nat, compatible : BOOLEAN]
    \cup [kind : {"raw"}, bytes : Seq(Nat)]
    \cup [kind : DOMAIN LogicalCode, id : Nat]

\* 8-bit where the value fits and 8-bit segments are wanted, else 16-bit with
\* a pad byte.
LogicalSegment(kind, id, bits8) ==
  IF bits8 /\ id <= 255
  THEN <<LogicalCode[kind], id>>
  ELSE <<LogicalCode[kind] + 1, 0>> \o Le16(id)

\* Mutant: a segment of odd length is not padded.
BugPortSegment(port, link) ==
  <<(IF port >= 15 THEN 15 ELSE port) + (IF Len(link) # 1 THEN 16 ELSE 0)>>
    \o (IF Len(link) # 1 THEN <<U8(Len(link))>> ELSE <<>>)
    \o (IF port >= 15 THEN Le16(port) ELSE <<>>)
    \o link

PortSegment(port, link) ==
  LET segment == <<(IF port >= 15 THEN 15 ELSE port)
                     + (IF Len(link) # 1 THEN 16 ELSE 0)>>
                   \o (IF Len(link) # 1 THEN <<U8(Len(link))>> ELSE <<>>)
                   \o (IF port >= 15 THEN Le16(port) ELSE <<>>)
                   \o link
  IN  segment \o Zeros(Len(segment) % 2)

\* Device type, product code and minor revision are 0 here.
KeySegment(key) ==
  <<52, 4>> \o Le16(key.vendor) \o Le16(0) \o Le16(0)
    \o <<(key.major % 128) + (IF key.compatible THEN 128 ELSE 0), 0>>

Segment(s) ==
  CASE s.kind = "port" -> PortSegment(s.port, s.link)
    [] s.kind = "key"  -> KeySegment(s)
    [] s.kind = "raw"  -> s.bytes
    [] OTHER           -> LogicalSegment(s.kind, s.id, TRUE)

ConnectionPath(path) == FlattenSeq([i \in DOMAIN path |-> Segment(path[i])])

\* A route "port,link,...": each token is a number, an IPv4 address (kept as
\* its text) or something else.  A link is a number up to 255 or an address.
Number(n)     == [kind |-> "number", n |-> n]
Address4(text) == [kind |-> "address", text |-> text]
BadToken      == [kind |-> "text"]
Tokens ==
  [kind : {"number"}, n : Nat] \cup [kind : {"address"}, text : Seq(Nat)] \cup {BadToken}

Route(tokens) ==
  LET pairs   == 1..(Len(tokens) \div 2)
      port(i) == tokens[2 * i - 1]
      link(i) == tokens[2 * i]
      good(i) == /\ port(i).kind = "number" /\ port(i).n # 0 /\ Fits16(port(i).n)
                 /\ \/ link(i).kind = "number" /\ link(i).n <= 255
                    \/ link(i).kind = "address"
  IN  IF Len(tokens) % 2 = 1 \/ \E i \in pairs : ~good(i) THEN Err
      ELSE [ok |-> TRUE,
            bytes |-> FlattenSeq([i \in pairs |->
                        PortSegment(port(i).n, IF link(i).kind = "number" THEN <<link(i).n>>
                                               ELSE link(i).text)])]

\* Class, instance and attribute IDs; the last two may be absent.
NoId == 65536
EPathOf(class, instance, attribute) ==
  [class |-> class, instance |-> instance, attribute |-> attribute]

EPath(path, bits8) ==
  LET segment(kind) == IF path[kind] = NoId THEN <<>>
                       ELSE LogicalSegment(kind, path[kind], bits8)
  IN  segment("class") \o segment("instance") \o segment("attribute")

\* EPath::decode: a later segment of a kind replaces an earlier one.
NextEPathSegment(t) ==
  LET b     == t.rest
      n     == IF b[1] % 2 = 1 THEN 4 ELSE 2
      kinds == {k \in DOMAIN t.path : LogicalCode[k] = b[1] - (b[1] % 2)}
  IN  IF ~t.ok \/ b = <<>> THEN t
      ELSE IF kinds = {} \/ Len(b) < n THEN [t EXCEPT !.ok = FALSE]
      ELSE [t EXCEPT !.rest = From(b, n + 1),
                     !.path[CHOOSE k \in kinds : TRUE] =
                       IF n = 4 THEN Get16(b, 3) ELSE b[2]]

DecodeEPath(b) ==
  LET t == Rounds(Len(b), NextEPathSegment,
                  [ok |-> TRUE, path |-> EPathOf(0, NoId, NoId), rest |-> b])
  IN  IF t.ok THEN [ok |-> TRUE, path |-> t.path] ELSE Err

\* How a target reads the first segment of a path, and its length in bytes.
PortLink(b) == IF b[1] >= 16 THEN b[2] ELSE 1
PortHead(b) == 1 + (IF b[1] >= 16 THEN 1 ELSE 0) + (IF b[1] % 16 = 15 THEN 2 ELSE 0)
SegmentLength(b) ==
  IF b[1] < 32 THEN LET n == PortHead(b) + PortLink(b) IN n + (n % 2)
  ELSE IF b[1] = 52 THEN 10
  ELSE IF b[1] = 128 THEN 2 + 2 * b[2]
  ELSE IF b[1] % 2 = 0 THEN 2 ELSE 4
ReadSegment(b) ==
  IF b[1] < 32
  THEN Port(IF b[1] % 16 = 15 THEN Get16(b, PortHead(b) - 1) ELSE b[1] % 16,
            SubSeq(b, PortHead(b) + 1, PortHead(b) + PortLink(b)))
  ELSE IF b[1] = 52 THEN Key(Get16(b, 3), b[9] % 128, b[9] >= 128)
  ELSE IF b[1] = 128 THEN [kind |-> "data", data |-> SubSeq(b, 3, 2 + 2 * b[2])]
  ELSE LET code  == b[1] - (b[1] % 2)
           kinds == {k \in DOMAIN LogicalCode : LogicalCode[k] = code}
       IN  IF kinds = {} THEN [kind |-> "unknown"]
           ELSE Logical(CHOOSE k \in kinds : TRUE,
                        IF b[1] % 2 = 0 THEN b[2] ELSE Get16(b, 3))

\* The segments in the last n bytes, up to one that is not whole.
ReadPath(b) ==
  LET last(n) == From(b, Len(b) - n + 1)
      read[n \in 0..Len(b)] ==
        IF n < 2 \/ n < SegmentLength(last(n)) THEN <<>>
        ELSE <<ReadSegment(last(n))>> \o read[n - SegmentLength(last(n))]
  IN  read[Len(b)]

-----------------------------------------------------------------------------
(* Network parameters: a word of flags and the size, which share 16 bits in  *)
(* the small form.                                                           *)

Flags(p) == p.type * 8192 + p.priority * 1024 + (IF p.variable THEN 512 ELSE 0)

NetworkParams(p, large) ==
  IF large THEN Le16(p.size) \o Le16(Flags(p))
  ELSE Le16(Flags(p) + (p.size % 512))

ReadNetworkParams(b, large) ==
  LET flags == Get16(b, IF large THEN 3 ELSE 1)
  IN  [type |-> (flags \div 8192) % 4, priority |-> (flags \div 1024) % 4,
       variable |-> (flags \div 512) % 2 = 1,
       size |-> IF large THEN Get16(b, 1) ELSE flags % 512]

-----------------------------------------------------------------------------
(* Common packet format and message router *)

NULL_ADDRESS == 0
UNCONNECTED_MESSAGE == 178
O2T_SOCKADDR_INFO == 32768
Item(type, data) == [type |-> type, data |-> data]

CommonPacket(items) ==
  Le16(Len(items))
    \o FlattenSeq([i \in DOMAIN items |->
                     Le16(items[i].type) \o Le16(Len(items[i].data))
                       \o items[i].data])

\* Mutant: an item that is cut short ends the list.
BugNextItem(t) ==
  LET b   == t.rest
      end == 4 + Get16(b, 3)
  IN  IF Len(b) < 4 \/ Len(b) < end THEN t
      ELSE [t EXCEPT !.items = Append(@, Item(Get16(b, 1), SubSeq(b, 5, end))),
                     !.rest = From(b, end + 1)]

\* A buffer that ends between two items ends the list.
NextItem(t) ==
  LET b   == t.rest
      end == 4 + Get16(b, 3)
  IN  IF ~t.ok \/ b = <<>> THEN t
      ELSE IF Len(b) < 4 \/ Len(b) < end THEN [t EXCEPT !.ok = FALSE]
      ELSE [t EXCEPT !.items = Append(@, Item(Get16(b, 1), SubSeq(b, 5, end))),
                     !.rest = From(b, end + 1)]

TakeItems(n, b) ==
  LET t == Rounds(n, NextItem, [ok |-> TRUE, items |-> <<>>, rest |-> b])
  IN  IF t.ok THEN [ok |-> TRUE, items |-> t.items] ELSE Err

DecodeCommonPacket(b) == IF Len(b) < 2 THEN Err ELSE TakeItems(Get16(b, 1), From(b, 3))

Request(service, path, data) == <<service, U8(Len(path) \div 2)>> \o path \o data

\* The encapsulation header, with the data length as u16; sender context and
\* options are 0.
HEADER_SIZE  == 24
SEND_RR_DATA == 111

Encaps(command, handle, status, data) ==
  Le16(command) \o Le16(Len(data)) \o Le32(handle) \o Le32(status) \o Zeros(12)
    \o data

DecodeEncaps(b) ==
  IF Len(b) < HEADER_SIZE \/ Len(b) - HEADER_SIZE # Get16(b, 3) THEN Err
  ELSE [ok |-> TRUE, command |-> Get16(b, 1), handle |-> Get32(b, 5),
        status |-> Get32(b, 9), data |-> From(b, HEADER_SIZE + 1)]

\* send_and_receive's reading of a stream that holds b and then ends: header,
\* as many bytes as it says, status and session handle.
ReceiveReply(b, handle) ==
  IF Len(b) < HEADER_SIZE \/ Len(b) < HEADER_SIZE + Get16(b, 3) THEN Err
  ELSE LET reply == DecodeEncaps(SubSeq(b, 1, HEADER_SIZE + Get16(b, 3)))
       IN  IF ~reply.ok \/ reply.status # 0 \/ (handle # 0 /\ reply.handle # handle)
           THEN Err ELSE reply

\* The data of a SendRRData packet: interface handle, timeout, items.
SendRRData(items) == Zeros(6) \o CommonPacket(items)

DecodeResponse(b) ==
  IF Len(b) < 4 \/ 2 * b[4] > Len(b) - 4 THEN Err
  ELSE [ok |-> TRUE, status |-> b[3], additional |-> SubSeq(b, 5, 4 + 2 * b[4]),
        data |-> From(b, 5 + 2 * b[4])]

\* MessageRouter: the second item of the reply is the response, the others
\* come with it.
DecodeReply(b) ==
  IF Len(b) < 6 THEN Err
  ELSE LET packet == DecodeCommonPacket(From(b, 7))
       IN  IF ~packet.ok \/ Len(packet.items) < 2 THEN Err
           ELSE LET response == DecodeResponse(packet.items[2].data)
                IN  IF ~response.ok THEN Err
                    ELSE [ok |-> TRUE, response |-> response, items |-> From(packet.items, 3)]

=============================================================================
