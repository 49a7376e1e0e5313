----------------------------- MODULE ForwardOpen -----------------------------
(***************************************************************************)
(* One connection configuration, given or made from an EDS entry, on its   *)
(* way through forward_open: checked, encoded, read by the target,         *)
(* answered (possibly with a reply that is cut short), decoded; then       *)
(* forward_close's request for it.                                         *)
(*                                                                         *)
(* Configuration data is given by its length, byte i of it being i mod     *)
(* 256; the originator's vendor ID and serial number are passed through    *)
(* unchanged and stand for any value; an interval is in nanoseconds.       *)
(***************************************************************************)
EXTENDS EdsConnection

CONSTANTS
  Configs,    \* configurations to open
  EdsFiles,   \* EDS files with a connection to open, and what they mean
  Replies,    \* what the target may answer
  SerialNumber, ConnectionId,  \* next values of the manager's counters
  Handle,     \* the session's handle
  PeerIp      \* the device's address

Directions ==
  [size : Nat, type : 0..3, priority : 0..3, variable : BOOLEAN, run_idle : BOOLEAN,
   rpi : Nat]

\* The route to the device and the path within it.
FullPath(c) == Route(c.route).bytes \o ConnectionPath(c.path)

\* A path is short enough for a packet, whose length is a u16.
MaxPath == 60000

ConfigType(c) ==
  /\ c \in [o2t : Directions, t2o : Directions, class : Nat, trigger : 0..2,
            timeout_multiplier : Nat, config_data : Nat, bits8 : BOOLEAN,
            route : Seq(Tokens), path : Seq(Segments)]
  /\ Route(c.route).ok => Len(FullPath(c)) <= MaxPath

\* Words of additional status and of application data are counted in a byte.
ReplyType(r) ==
  /\ r \in [status : Nat, additional : Seq(Nat), application : Seq(Nat),
            sockaddr : Seq([ip : Nat, port : Nat]), handle : Nat, encaps_status : Nat,
            o2t_id : Nat, t2o_id : Nat, o2t_api : Nat, t2o_api : Nat]
  /\ Fits32(r.handle) /\ Fits32(r.encaps_status) /\ Fits32(r.o2t_id) /\ Fits32(r.t2o_id)
  /\ Fits32(r.o2t_api) /\ Fits32(r.t2o_api)
  /\ Len(r.additional) % 2 = 0 /\ Len(r.additional) <= 510
  /\ Len(r.application) % 2 = 0 /\ Len(r.application) <= 510
  /\ Len(r.sockaddr) <= 1

\* handle is what the target gave when the session was registered.
ASSUME ForwardOpenAssumption ==
  /\ \A c \in Configs : ConfigType(c)
  /\ \A e \in EdsFiles : EdsType(e) /\ (EdsConfig(e).ok => Len(FullPath(EdsConfig(e).v)) <= MaxPath)
  /\ \A r \in Replies : ReplyType(r)
  /\ Fits16(SerialNumber) /\ Fits32(ConnectionId) /\ Fits32(Handle) /\ PeerIp \in Nat

MaxConfigData == 510
ImplicitPort  == 2222
Multicast     == 1
PointToPoint  == 2

VARIABLES
  eds,      \* the EDS file the configuration comes from, or Nothing
  config,   \* the configuration
  stage,    \* "eds", "call", "target", "answer", "receive", "open", "closing", "end"
  message,  \* the bytes under way
  seen,     \* what the target read
  answer,   \* what the target meant to answer, and how much of it arrives
  outcome   \* what forward_open returned

vars == <<eds, config, stage, message, seen, answer, outcome>>

Nothing == [none |-> TRUE]

Init ==
  /\ \/ config \in Configs /\ eds = Nothing /\ stage = "call"
     \/ eds \in EdsFiles /\ config = Nothing /\ stage = "eds"
  /\ message = <<>>
  /\ seen = Nothing /\ answer = Nothing /\ outcome = Nothing

\* Eds::connection, to_connection_config.
Convert ==
  /\ stage = "eds"
  /\ LET converted == EdsConfig(eds)
     IN  IF converted.ok
         THEN /\ config' = converted.v
              /\ stage' = "call" /\ UNCHANGED outcome
         ELSE outcome' = Err /\ stage' = "end" /\ UNCHANGED config
  /\ UNCHANGED <<eds, message, seen, answer>>

-----------------------------------------------------------------------------
(* The request *)

HasSequenceCount(c) == c.class # 0

WireSize(c, dir) ==
  (IF HasSequenceCount(c) THEN 2 ELSE 0) + (IF dir.run_idle THEN 4 ELSE 0)
    + dir.size

LargestSize(c) == Max({WireSize(c, c.o2t), WireSize(c, c.t2o)})

\* A route that cannot be parsed never gets as far as forward_open.
Refused(c) ==
  \/ ~Route(c.route).ok
  \/ c.config_data > MaxConfigData
  \/ c.timeout_multiplier > 7
  \/ c.class \notin {0, 1}
  \/ LargestSize(c) > 65535

\* Mutant: only the O->T direction decides.
BugLarge(c) == WireSize(c, c.o2t) > 511

Large(c) == LargestSize(c) > 511

DataOf(n) == [i \in 1..n |-> U8(i)]

\* The path, then the configuration data padded to words.
EncodedPath(c) ==
  LET words == (c.config_data + 1) \div 2
  IN  FullPath(c)
        \o (IF c.config_data = 0 THEN <<>>
            ELSE <<128, U8(words)>> \o DataOf(c.config_data)
                   \o Zeros(2 * words - c.config_data))

ParamsOf(c, dir) ==
  [type |-> dir.type, priority |-> dir.priority, variable |-> dir.variable,
   size |-> WireSize(c, dir)]

Transport(c) == c.trigger * 16 + c.class

PathSize(path) == U8((Len(path) + 1) \div 2)

Originator == Zeros(6)

\* Microseconds, no more than fit.
Micros(rpi) ==
  IF Fits32(rpi \div 1000) THEN Le32(rpi \div 1000) ELSE <<255, 255, 255, 255>>

OpenRequest(c) ==
  <<10, 5>>
    \o Le32(IF c.o2t.type = Multicast THEN ConnectionId ELSE 0)
    \o Le32(IF c.t2o.type = PointToPoint THEN ConnectionId ELSE 0)
    \o Le16(SerialNumber) \o Originator
    \o <<c.timeout_multiplier, 0, 0, 0>>
    \o Micros(c.o2t.rpi) \o NetworkParams(ParamsOf(c, c.o2t), Large(c))
    \o Micros(c.t2o.rpi) \o NetworkParams(ParamsOf(c, c.t2o), Large(c))
    \o <<Transport(c), PathSize(EncodedPath(c))>>
    \o EncodedPath(c)

\* Mutant: the configuration data is sent along with the close.
BugCloseRequest(c, serial) ==
  <<0, 0>> \o Le16(serial) \o Originator
    \o <<PathSize(EncodedPath(c)), 0>> \o EncodedPath(c)

CloseRequest(c, serial) ==
  <<0, 0>> \o Le16(serial) \o Originator
    \o <<PathSize(FullPath(c)), 0>> \o FullPath(c)

FORWARD_OPEN == 84
LARGE_FORWARD_OPEN == 91
FORWARD_CLOSE == 78
ManagerPath == EPathOf(6, 1, NoId)

Packet(service, bits8, data) ==
  Encaps(SEND_RR_DATA, Handle, 0,
    SendRRData(<<Item(NULL_ADDRESS, <<>>),
                 Item(UNCONNECTED_MESSAGE,
                      Request(service, EPath(ManagerPath, bits8), data))>>))

Refuse ==
  /\ stage = "call" /\ Refused(config)
  /\ stage' = "end"
  /\ outcome' = Err
  /\ UNCHANGED <<eds, config, message, seen, answer>>

SendOpen ==
  /\ stage = "call" /\ ~Refused(config)
  /\ message' = Packet(IF Large(config) THEN LARGE_FORWARD_OPEN ELSE FORWARD_OPEN,
                       config.bits8, OpenRequest(config))
  /\ stage' = "target"
  /\ UNCHANGED <<eds, config, seen, answer, outcome>>

-----------------------------------------------------------------------------
(* The target, by the CIP layout of the two services. *)

ReadTransport(b) ==
  [class |-> Min({b % 16, 3}), server |-> b >= 128,
   trigger |-> LET t == (b \div 16) % 8 IN IF t \in {1, 2} THEN t ELSE 0]

\* As many words of path as the size byte says, if there are that many.
Announced(rest, words) == SubSeq(rest, 1, Min({2 * words, Len(rest)}))

ReadOpen(body) ==
  LET b     == body.data
      large == body.service = LARGE_FORWARD_OPEN
      n     == IF large THEN 4 ELSE 2
  IN  [service |-> body.service, path |-> body.path,
       serial |-> Get16(b, 11), multiplier |-> b[19],
       o2t_rpi |-> Get32(b, 23), t2o_rpi |-> Get32(b, 27 + n),
       o2t |-> ReadNetworkParams(SubSeq(b, 27, 26 + n), large),
       t2o |-> ReadNetworkParams(SubSeq(b, 31 + n, 30 + 2 * n), large),
       transport |-> ReadTransport(b[31 + 2 * n]),
       segments |-> ReadPath(Announced(From(b, 33 + 2 * n), b[32 + 2 * n]))]

ReadClose(body) ==
  [service |-> body.service, path |-> body.path, serial |-> Get16(body.data, 3),
   segments |-> ReadPath(Announced(From(body.data, 13), body.data[11]))]

\* The service, the request path and the body of a packet.
Body(b) ==
  LET request == DecodeCommonPacket(From(DecodeEncaps(b).data, 7)).items[2].data
  IN  [service |-> request[1],
       path |-> DecodeEPath(SubSeq(request, 3, 2 + 2 * request[2])),
       data |-> From(request, 3 + 2 * request[2])]

TargetReads ==
  /\ stage = "target"
  /\ seen' = ReadOpen(Body(message))
  /\ message' = <<>>
  /\ stage' = "answer"
  /\ UNCHANGED <<eds, config, answer, outcome>>

\* The reply: a response with its additional status (pairs of bytes), a
\* socket address item or none.  A device that cuts its reply short says so
\* in the header's length.
Sockaddr(s) == <<0, 2, s.port \div 256, s.port % 256, 0, 0, 0, s.ip>> \o Zeros(8)
Granted(r) ==
  Le32(r.o2t_id) \o Le32(r.t2o_id) \o Le16(SerialNumber) \o Originator
    \o Le32(r.o2t_api) \o Le32(r.t2o_api) \o <<Len(r.application) \div 2, 0>> \o r.application
Response(r) ==
  <<212, 0, r.status, Len(r.additional) \div 2>> \o r.additional
    \o (IF r.status = 0 THEN Granted(r) ELSE <<>>)
SockaddrItemsOf(r) ==
  [i \in DOMAIN r.sockaddr |-> Item(O2T_SOCKADDR_INFO, Sockaddr(r.sockaddr[i]))]
ReplyBytes(r) ==
  SendRRData(<<Item(NULL_ADDRESS, <<>>), Item(UNCONNECTED_MESSAGE, Response(r))>>
               \o SockaddrItemsOf(r))

TargetAnswers(r) ==
  /\ stage = "answer"
  /\ \E n \in 0..Len(ReplyBytes(r)) :
       /\ message' = Encaps(SEND_RR_DATA, r.handle, r.encaps_status,
                            SubSeq(ReplyBytes(r), 1, n))
       /\ answer' = [reply |-> r, kept |-> n]
  /\ stage' = "receive"
  /\ UNCHANGED <<eds, config, seen, outcome>>

-----------------------------------------------------------------------------
(* The reply *)

DecodeForwardOpen(b) ==
  IF Len(b) < 26 \/ Len(b) < 26 + 2 * b[25] THEN Err
  ELSE [ok |-> TRUE, o2t_id |-> Get32(b, 1), t2o_id |-> Get32(b, 5),
        serial |-> Get16(b, 9), o2t_api |-> Get32(b, 17), t2o_api |-> Get32(b, 21),
        application |-> SubSeq(b, 27, 26 + 2 * b[25])]

\* The first socket address item for O->T; one that is too short is an error.
SockaddrItems(items) == SelectSeq(items, LAMBDA i : i.type = O2T_SOCKADDR_INFO)
BadSockaddr(items) ==
  SockaddrItems(items) # <<>> /\ Len(SockaddrItems(items)[1].data) < 16
Destination(items) ==
  IF SockaddrItems(items) = <<>> THEN [ip |-> PeerIp, port |-> ImplicitPort]
  ELSE LET b    == SockaddrItems(items)[1].data
           port == 256 * b[3] + b[4]
       IN  [ip |-> IF SubSeq(b, 5, 8) = Zeros(4) THEN PeerIp ELSE b[8],
            port |-> IF port = 0 THEN ImplicitPort ELSE port]

\* What forward_open makes of a reply to a request for c; the timeout is that
\* of the new IoConnection.
Outcome(c, b) ==
  LET received == ReceiveReply(b, Handle)
      decoded  == IF received.ok THEN DecodeReply(received.data) ELSE Err
  IN  IF ~decoded.ok THEN Err
      ELSE IF decoded.response.status # 0
      THEN [ok |-> FALSE, status |-> decoded.response.status,
            additional |-> decoded.response.additional]
      ELSE LET reply == DecodeForwardOpen(decoded.response.data)
           IN  IF ~reply.ok \/ BadSockaddr(decoded.items) THEN Err
               ELSE [ok |-> TRUE, reply |-> reply,
                     destination |-> Destination(decoded.items),
                     timeout |-> reply.t2o_api * 4 * 2^c.timeout_multiplier]

Receive ==
  /\ stage = "receive"
  /\ outcome' = Outcome(config, message)
  /\ stage' = IF outcome'.ok THEN "open" ELSE "end"
  /\ message' = <<>>
  /\ UNCHANGED <<eds, config, seen, answer>>

SendClose ==
  /\ stage = "open"
  /\ message' = Packet(FORWARD_CLOSE, config.bits8, CloseRequest(config, outcome.reply.serial))
  /\ stage' = "closing"
  /\ UNCHANGED <<eds, config, seen, answer, outcome>>

TargetReadsClose ==
  /\ stage = "closing"
  /\ seen' = ReadClose(Body(message))
  /\ message' = <<>>
  /\ stage' = "end"
  /\ UNCHANGED <<eds, config, answer, outcome>>

Finished == stage = "end" /\ UNCHANGED vars

Next ==
  \/ Convert \/ Refuse \/ SendOpen \/ TargetReads
  \/ \E r \in Replies : TargetAnswers(r)
  \/ Receive \/ SendClose \/ TargetReadsClose
  \/ Finished

Spec == Init /\ [][Next]_vars

-----------------------------------------------------------------------------
(* Properties *)

IsOpenRequest == seen # Nothing /\ seen.service # FORWARD_CLOSE

\* The path asked for, as segments.
PathMeant ==
  IF eds # Nothing THEN eds.meant.path
  ELSE [i \in 1..(Len(config.route) \div 2) |->
          LET link == config.route[2 * i]
          IN  Port(config.route[2 * i - 1].n,
                   IF link.kind = "number" THEN <<link.n>> ELSE link.text)]
         \o config.path

\* The target reads from the request what the configuration says: the
\* connection manager's path in either segment size, the timeout multiplier,
\* the transport byte, both intervals in whole microseconds (unless they are
\* over an hour and do not fit 32 bits), and both directions' parameters with
\* the sizes of the packets build_packet sends and on_receive accepts
\* (sequence count, run/idle header, data), whether they fit the small form
\* or not.
TargetSeesConfig ==
  IsOpenRequest =>
    LET packet(dir) == (IF config.class = 1 THEN 2 ELSE 0)
                         + (IF dir.run_idle THEN 4 ELSE 0) + dir.size
        params(dir) == [type |-> dir.type, priority |-> dir.priority,
                        variable |-> dir.variable, size |-> packet(dir)]
    IN  /\ seen.path = [ok |-> TRUE, path |-> ManagerPath]
        /\ seen.serial = SerialNumber
        /\ seen.multiplier = config.timeout_multiplier
        /\ seen.o2t = params(config.o2t) /\ seen.t2o = params(config.t2o)
        /\ Fits32(config.o2t.rpi \div 1000) => seen.o2t_rpi = config.o2t.rpi \div 1000
        /\ Fits32(config.t2o.rpi \div 1000) => seen.t2o_rpi = config.t2o.rpi \div 1000
        /\ seen.transport = [class |-> config.class, trigger |-> config.trigger,
                             server |-> FALSE]

\* The target finds the segments of the path again, in order and none running
\* into the next: routing ports (small and extended, with short and long
\* links), an electronic key, 8-bit and 16-bit IDs, parameters of an EDS path
\* and the configuration data.  Paths above 255 words are ConfigDataArrives'
\* matter.
PathReadBack ==
  IsOpenRequest /\ Len(EncodedPath(config)) <= 510 =>
    LET n == Len(PathMeant)
    IN  /\ IsPrefix(PathMeant, seen.segments)
        /\ IF config.config_data = 0 THEN Len(seen.segments) = n
           ELSE /\ Len(seen.segments) = n + 1
                /\ seen.segments[n + 1].kind = "data"
                /\ IsPrefix(DataOf(config.config_data), seen.segments[n + 1].data)

\* forward_open's error: "at most {MAX_CONFIG_DATA} fit in a Forward Open".  What
\* it accepts reaches the target as the segment after the path.
ConfigDataArrives ==
  IsOpenRequest /\ config.config_data > 0 =>
    LET n == Len(PathMeant) + 1
    IN  /\ n \in DOMAIN seen.segments
        /\ seen.segments[n].kind = "data"
        /\ IsPrefix(DataOf(config.config_data), seen.segments[n].data)

\* What an EDS entry says reaches the target: point-to-point where the entry
\* allows it, else null where it allows that, never multicast ("point-to-point
\* is preferred"); a priority, size type, class and trigger that its bits allow,
\* the run/idle header its format bits ask for, its sizes, however they are
\* given, and its intervals.  Where a group of bits is empty
\* to_connection_config picks something; a size above 65535 it casts to u16.
EdsHonoured ==
  IsOpenRequest /\ eds # Nothing =>
    LET tt == eds.entry.trigger_transport.n
        cp == eds.entry.connection_params.n
        preferred(null) == IF null + PointToPoint \in cp THEN PointToPoint ELSE 0
        allowed(word, first, options, choice) ==
          \/ first + choice \in word
          \/ \A n \in options : first + n \notin word
        header(first)  == {n \in 0..2 : first + n \in cp} = {2}
        size(dir, first) == dir.size
          + (IF seen.transport.class = 1 THEN 2 ELSE 0) + (IF header(first) THEN 4 ELSE 0)
        variable(dir) == IF dir.variable THEN 1 ELSE 0
    IN  /\ seen.transport.class \in tt
        /\ allowed(tt, 16, 0..2, seen.transport.trigger)
        /\ seen.o2t.type = preferred(16) /\ 16 + seen.o2t.type \in cp
        /\ seen.t2o.type = preferred(20) /\ 20 + seen.t2o.type \in cp
        /\ allowed(cp, 24, 0..2, seen.o2t.priority)
        /\ allowed(cp, 28, 0..2, seen.t2o.priority)
        /\ allowed(cp, 0, 0..1, variable(seen.o2t))
        /\ allowed(cp, 2, 0..1, variable(seen.t2o))
        /\ eds.meant.o2t.size <= 65535 => seen.o2t.size = size(eds.meant.o2t, 8)
        /\ eds.meant.t2o.size <= 65535 => seen.t2o.size = size(eds.meant.t2o, 12)
        /\ seen.o2t_rpi = eds.meant.o2t.rpi /\ seen.t2o_rpi = eds.meant.t2o.rpi

\* However much of the reply is cut off, forward_open returns an error, or
\* exactly what the target answered: never a shorter status, other IDs or
\* intervals or another destination, and never the reply of another session.
\* The timeout of the new connection is the one the target computes from the
\* multiplier it read and the interval it granted.  Only a socket address item
\* that is missing as a whole goes unnoticed.
ReplyExactOrError ==
  outcome # Nothing /\ answer # Nothing =>
    LET r == answer.reply
    IN  IF outcome.ok
        THEN /\ r.status = 0
             /\ r.encaps_status = 0 /\ r.handle = Handle
             /\ outcome.reply = [ok |-> TRUE, o2t_id |-> r.o2t_id, t2o_id |-> r.t2o_id,
                                 serial |-> SerialNumber, o2t_api |-> r.o2t_api,
                                 t2o_api |-> r.t2o_api, application |-> r.application]
             /\ seen.service # FORWARD_CLOSE =>
                  outcome.timeout = r.t2o_api * 4 * 2^seen.multiplier
             /\ \/ outcome.destination = Destination(SockaddrItemsOf(r))
                \/ answer.kept = Len(ReplyBytes(r)) - 20
        ELSE outcome = Err \/ ( /\ outcome.status = r.status
                                /\ outcome.additional = r.additional)

\* Forward Close names the connection by the serial number of the open (the
\* code takes it from the reply) and by the path without its configuration
\* data.
CloseNamesConnection ==
  seen # Nothing /\ seen.service = FORWARD_CLOSE =>
    seen.serial = SerialNumber /\ seen.segments = PathMeant

=============================================================================
