---------------------------- MODULE EdsConnection ----------------------------
(***************************************************************************)
(* From a ConnectionN entry of an EDS file to a connection configuration   *)
(* (eds/mod.rs): references to parameters and assemblies, sizes, packet    *)
(* intervals, the path, and the two words of capability bits.              *)
(*                                                                         *)
(* A file is a record of its numbered parameters and assemblies and one    *)
(* connection entry; a field is Empty, Number(n), a reference or text that  *)
(* is neither.  A word of bits is the set of its bits that are 1.  An       *)
(* optional value is a sequence of at most one.                             *)
(***************************************************************************)
EXTENDS Wire, FiniteSetsExt

Empty      == [kind |-> "empty"]
Param(n)   == [kind |-> "param", n |-> n]
Assem(n)   == [kind |-> "assem", n |-> n]
Ok(v)      == [ok |-> TRUE, v |-> v]

DefaultRpi == 10000

IsInt(f)       == f.kind = "number"
NotInt(f)      == ~IsInt(f) /\ f # Empty
IntField(f)    == IF IsInt(f) THEN <<f.n>> ELSE <<>>
Or(first, alt) == IF first # <<>> THEN first[1] ELSE alt

\* What the text between two commas can be.
Fields(numbers) ==
  [kind : {"number"}, n : numbers] \cup [kind : {"param", "assem"}, n : Nat]
    \cup {Empty, BadToken}
Values == Fields(Nat)
Halves == [rpi : Values, size : Values, format : Values]

EdsType(eds) ==
  /\ eds.params \in Seq([type : Values, size : Values, min : Values, default : Values])
  /\ eds.assemblies \in Seq([size : Values, members : Seq(Values)])
  /\ eds.entry \in [trigger_transport : Fields(SUBSET Nat), connection_params : Fields(SUBSET Nat),
                    o2t : Halves, t2o : Halves, path : Seq(Values)]

-----------------------------------------------------------------------------
(* Parameters and assemblies *)

\* The type and size must be numbers where given; limits may be any text.
param(eds, n) ==
  IF n \notin DOMAIN eds.params THEN Err
  ELSE LET p == eds.params[n]
       IN  IF NotInt(p.type) \/ NotInt(p.size) THEN Err
           ELSE Ok([size |-> Or(IntField(p.size), 0), min |-> IntField(p.min),
                    default |-> IntField(p.default)])

\* The size, or the sum of the members' bits rounded up to bytes; a member
\* whose size is not a number is passed over.
assembly(eds, n) ==
  IF n \notin DOMAIN eds.assemblies THEN Err
  ELSE LET a == eds.assemblies[n]
           bits[i \in 0..Len(a.members)] ==
             IF i = 0 THEN 0 ELSE bits[i - 1] + Or(IntField(a.members[i]), 0)
       IN  IF NotInt(a.size) THEN Err
           ELSE Ok(Or(IntField(a.size), (bits[Len(a.members)] + 7) \div 8))

-----------------------------------------------------------------------------
(* One direction: interval, size and format fields *)

\* The interval the entry names, in microseconds and cast to u32: its default,
\* else its minimum, else nothing.
AsU32(value) == [i \in DOMAIN value |-> Low32(value[i])]
Interval(eds, f) ==
  IF f.kind # "param" THEN Ok(AsU32(IntField(f)))
  ELSE LET p == param(eds, f.n)
       IN  IF ~p.ok THEN Err
           ELSE Ok(AsU32(IF p.v.default # <<>> THEN p.v.default ELSE p.v.min))

DirectionSize(eds, d) ==
  CASE d.size.kind = "number" -> Ok(d.size.n)
    [] d.size.kind = "param"  -> LET p == param(eds, d.size.n)
                                 IN  IF p.ok THEN Ok(Or(p.v.default, 0)) ELSE Err
    [] d.size = Empty         -> IF d.format.kind = "assem" THEN assembly(eds, d.format.n)
                                 ELSE Ok(0)
    [] OTHER                  -> Err

\* A path token is a byte, a parameter whose default is meant, or an error.
Clamp(n, low, high) == IF n < low THEN low ELSE IF n > high THEN high ELSE n
PathToken(eds, t) ==
  CASE t.kind = "number" -> IF t.n < 256 THEN Ok(<<t.n>>) ELSE Err
    [] t.kind = "param"  -> LET p == param(eds, t.n)
                            IN  IF ~p.ok THEN Err
                                ELSE IF p.v.default = <<>> THEN Err
                                ELSE Ok(LeBytes(p.v.default[1], Clamp(p.v.size, 1, 8)))
    [] OTHER             -> Err

resolve_path(eds, tokens) ==
  LET bytes == [i \in DOMAIN tokens |-> PathToken(eds, tokens[i])]
  IN  IF \E i \in DOMAIN tokens : ~bytes[i].ok THEN Err
      ELSE Ok(FlattenSeq([i \in DOMAIN tokens |-> bytes[i].v]))

direction(eds, d) ==
  LET rpi  == Interval(eds, d.rpi)
      size == DirectionSize(eds, d)
  IN  IF ~rpi.ok \/ ~size.ok THEN Err ELSE Ok([rpi |-> rpi.v, size |-> size.v])

decode_connection(eds) ==
  LET e    == eds.entry
      o2t  == direction(eds, e.o2t)
      t2o  == direction(eds, e.t2o)
      path == resolve_path(eds, e.path)
  IN  IF ~IsInt(e.trigger_transport) \/ ~IsInt(e.connection_params)
           \/ ~o2t.ok \/ ~t2o.ok \/ ~path.ok
      THEN Err
      ELSE Ok([tt |-> e.trigger_transport.n \cap 0..31,
               cp |-> e.connection_params.n \cap 0..31,
               o2t |-> o2t.v, t2o |-> t2o.v, path |-> path.v])

-----------------------------------------------------------------------------
(* to_connection_config.  Connection types, priorities and triggers are the  *)
(* numbers they have in the request.  bits8 says how the router encodes its  *)
(* own paths: MessageRouter::new() in 16 bits.                               *)

\* A class above 1 stands for "none that is supported".
ClassOf(tt)   == IF 1 \in tt THEN 1 ELSE IF 0 \in tt THEN 0 ELSE 2
TriggerOf(tt) == IF 17 \in tt /\ 16 \notin tt THEN 1
                 ELSE IF 18 \in tt /\ 16 \notin tt THEN 2 ELSE 0

HasType(cp, shift) == 18 + shift \in cp \/ 16 + shift \in cp

\* Mutant: a null connection is preferred.
BugDirectionConfig(cp, shift, fixed_bit, d) ==
  [size |-> d.size % 65536, rpi |-> 1000 * Or(d.rpi, DefaultRpi),
   type |-> IF 16 + shift \in cp THEN 0 ELSE 2,
   priority |-> IF 26 + shift \in cp THEN 2 ELSE IF 25 + shift \in cp THEN 1 ELSE 0,
   variable |-> fixed_bit \notin cp,
   run_idle |-> {n \in 0..2 : 8 + shift + n \in cp} = {2}]

DirectionConfig(cp, shift, fixed_bit, d) ==
  [size |-> d.size % 65536, rpi |-> 1000 * Or(d.rpi, DefaultRpi),
   type |-> IF 18 + shift \in cp THEN 2 ELSE 0,
   priority |-> IF 26 + shift \in cp THEN 2 ELSE IF 25 + shift \in cp THEN 1 ELSE 0,
   variable |-> fixed_bit \notin cp,
   run_idle |-> {n \in 0..2 : 8 + shift + n \in cp} = {2}]

to_connection_config(c) ==
  IF ClassOf(c.tt) = 2 \/ ~HasType(c.cp, 0) \/ ~HasType(c.cp, 4) THEN Err
  ELSE Ok([path |-> <<Raw(c.path)>>, route |-> <<>>, config_data |-> 0,
           o2t |-> DirectionConfig(c.cp, 0, 0, c.o2t),
           t2o |-> DirectionConfig(c.cp, 4, 2, c.t2o),
           class |-> ClassOf(c.tt), trigger |-> TriggerOf(c.tt),
           timeout_multiplier |-> 0, bits8 |-> FALSE])

\* Eds::connection and then to_connection_config.
EdsConfig(eds) ==
  LET connection == decode_connection(eds)
  IN  IF connection.ok THEN to_connection_config(connection.v) ELSE Err

=============================================================================
