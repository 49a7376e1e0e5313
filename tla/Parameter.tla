------------------------------ MODULE Parameter ------------------------------
(***************************************************************************)
(* Objects read from a device, attribute by attribute: ParameterObject     *)
(* with its engineering units, IdentityObject and DpiFaultObject.          *)
(*                                                                         *)
(* A request fails, or its reply arrives whole or cut short; the device    *)
(* changes the parameter's value at any time.  Text is a sequence of       *)
(* bytes.  Engineering values are hundredths, and f64 arithmetic is exact  *)
(* but for a result halfway between two integers, which may come out on    *)
(* either side.  T is an integer type of one, two or four bytes.           *)
(***************************************************************************)
EXTENDS Wire, Integers, FiniteSetsExt

CONSTANTS
  Objects,  \* the objects of the device; see DeviceBytes for their fields
  Scalings, \* scaling given to a parameter that is built offline
  Settings, \* engineering values that are set
  Values,   \* values the device gives a parameter
  Types     \* [size, signed]

-----------------------------------------------------------------------------
(* What the constants may be: numbers as wide as their fields, texts with a *)
(* length byte.                                                             *)

Byte       == 0..255
Word       == {n \in Nat : n < 65536}
SignedWord == {n \in Int : -32768 <= n /\ n < 32768}
Texts  == {t \in Seq(Byte) : Len(t) <= 255}
Scales == [multiplier : Word, divisor : Word, base : Word, offset : SignedWord,
           precision : Byte]

\* The value of up to four bytes, and how many values they have.
Unsigned(bytes) ==
  LET part(i) == IF i <= Len(bytes) THEN bytes[i] * Weight[i] ELSE 0
  IN  part(1) + part(2) + part(3) + part(4)
Span(size) == CASE size = 1 -> 256 [] size = 2 -> 65536 [] size = 4 -> 65536 * 65536

IdentityType(o) ==
  /\ o \in [kind : {"identity"}, numbers : Seq(Nat), name : Texts]
  /\ Len(o.numbers) = 7
  /\ \A i \in {1, 2, 3, 6} : o.numbers[i] \in Word
  /\ \A i \in {4, 5} : o.numbers[i] \in Byte
  /\ o.numbers[7] \div 65536 \in Word

\* The text is up to 16 characters, none of them NUL.
FaultType(o) ==
  /\ o \in [kind : {"fault"}, code : Word, port : Byte, device : Byte,
            text : Seq(1..255), timer : Seq(Byte), valid : BOOLEAN, realTime : BOOLEAN]
  /\ Len(o.text) <= 16 /\ Len(o.timer) = 8

ParameterType(o) ==
  /\ o \in [kind : {"parameter"}, size : {1, 2, 4}, value : Nat, link : Texts,
            scalable : BOOLEAN, readOnly : BOOLEAN, type : Byte,
            name : Texts, units : Texts, help : Texts,
            min : Seq(Byte), max : Seq(Byte), default : Seq(Byte), scaling : Scales]
  /\ o.value < Span(o.size)
  /\ Len(o.min) = o.size /\ Len(o.max) = o.size /\ Len(o.default) = o.size

ObjectType(o) ==
  o = [kind |-> "none"] \/ IdentityType(o) \/ FaultType(o) \/ ParameterType(o)

ASSUME ParameterAssumption ==
  /\ \A o \in Objects : ObjectType(o)
  /\ Scalings \subseteq Scales /\ Settings \subseteq Int /\ Values \subseteq Nat
  /\ Types \subseteq [size : {1, 2, 4}, signed : BOOLEAN]

VARIABLES
  object,   \* the device's object
  param,    \* the scanner's copy of it, or Err
  asked,    \* "none", or what the next request of ParameterObject::read is for:
            \* "size", "all", or one of the four scaling attributes
  reading,  \* the object that read is building
  scaling,  \* replies to the requests for scaling attributes, one after another
  set,      \* the last engineering value set, or Err
  \* History.
  since,    \* values the device had since the call began
  held      \* values it had during the last call that succeeded

paramVars == <<object, param, asked, reading, scaling, set, since, held>>

-----------------------------------------------------------------------------
(* Decoding, by a list of field widths *)

SHORT_STRING == 0

\* A field of a given width behind those already taken.
Get(t, width) ==
  LET prefix == IF width = SHORT_STRING THEN 1 ELSE 0
      n      == IF prefix = 0 THEN width ELSE IF t.rest = <<>> THEN 0 ELSE t.rest[1]
  IN  IF ~t.ok \/ Len(t.rest) < prefix + n THEN Err
      ELSE [ok |-> TRUE, rest |-> From(t.rest, prefix + n + 1),
            fields |-> Append(t.fields, SubSeq(t.rest, prefix + 1, prefix + n))]

\* The fields at the start of b and what follows them.
Take(b, widths) ==
  LET taken[k \in 0..Len(widths)] ==
        IF k = 0 THEN [ok |-> TRUE, fields |-> <<>>, rest |-> b]
        ELSE Get(taken[k - 1], widths[k])
  IN  taken[Len(widths)]

\* CipValue for the integer types: range, decode, encode.
MinOf(T) == IF T.signed THEN -(Span(T.size) \div 2) ELSE 0
MaxOf(T) == Span(T.size) - 1 + MinOf(T)
Bytes(v, size) == LeBytes(v % Span(size), size)

\* decode::<T>: the length must be the type's.
Decode(bytes, T) ==
  IF Len(bytes) # T.size THEN Err
  ELSE LET u == Unsigned(bytes)
       IN  [ok |-> TRUE, v |-> IF u > MaxOf(T) THEN u - Span(T.size) ELSE u]

TrimZeros(text) ==
  SubSeq(text, 1, Max({0} \cup {i \in DOMAIN text : text[i] # 0}))

IdentityOf(b) ==
  LET t == Take(b, <<2, 2, 2, 1, 1, 2, 4, SHORT_STRING>>)
  IN  IF ~t.ok THEN Err
      ELSE [ok |-> TRUE, kind |-> "identity",
            numbers |-> [i \in 1..7 |-> Unsigned(t.fields[i])], name |-> t.fields[8]]

FaultOf(b) ==
  LET t == Take(b, <<2, 1, 1, 16, 8, 2>>)
  IN  IF ~t.ok THEN Err
      ELSE [ok |-> TRUE, kind |-> "fault", code |-> Unsigned(t.fields[1]),
            port |-> t.fields[2][1], device |-> t.fields[3][1],
            text |-> TrimZeros(t.fields[4]), timer |-> t.fields[5],
            valid |-> t.fields[6][1] % 2 = 1,
            realTime |-> (t.fields[6][1] \div 2) % 2 = 1]

-----------------------------------------------------------------------------
(* ParameterObject *)

NoScaling == [multiplier |-> 1, divisor |-> 1, base |-> 1, offset |-> 0, precision |-> 0]

\* ParameterObject::new
New(size, full) ==
  [ok |-> TRUE, kind |-> "parameter", size |-> size, full |-> full,
   scalable |-> FALSE, readOnly |-> FALSE, type |-> 0,
   name |-> <<>>, units |-> <<>>, help |-> <<>>, value |-> Zeros(size),
   min |-> Zeros(size), max |-> Zeros(size), default |-> Zeros(size),
   scaling |-> NoScaling]

\* Mutant: the link path is taken to be empty.
BugFirstWidths(p) == <<p.size, 1, 2, 1>>

\* Value, link path (with its size in bytes in front), descriptor, data type.
FirstWidths(p) == <<p.size, SHORT_STRING, 2, 1>>

\* The reply to Get_Attributes_All: value, link path, descriptor, type, and if
\* wanted the texts and limits and, after attributes 13 to 20, the precision.
Attributes(p, b) ==
  LET t       == Take(b, FirstWidths(p))
      desc    == t.fields[3]
      first   == [p EXCEPT !.value = t.fields[1], !.type = t.fields[4][1],
                           !.scalable = (desc[1] \div 4) % 2 = 1,
                           !.readOnly = (desc[1] \div 16) % 2 = 1]
      u       == Take(t.rest, <<1, SHORT_STRING, SHORT_STRING, SHORT_STRING,
                                p.size, p.size, p.size>>)
      second  == [first EXCEPT !.name = u.fields[2], !.units = u.fields[3],
                               !.help = u.fields[4], !.min = u.fields[5],
                               !.max = u.fields[6], !.default = u.fields[7]]
      w       == Take(u.rest, <<16, 1>>)
  IN  IF ~t.ok THEN Err
      ELSE IF ~p.full THEN first
      ELSE IF ~u.ok THEN Err
      ELSE IF ~second.scalable THEN second
      ELSE IF ~w.ok THEN Err
      ELSE [second EXCEPT !.scaling.precision = w.fields[2][1]]

\* The four scaling values out of the replies' bytes.
WithScaling(p, b) ==
  IF Len(b) < 8 THEN Err
  ELSE [p EXCEPT !.scaling.multiplier = Get16(b, 1), !.scaling.divisor = Get16(b, 3),
                 !.scaling.base = Get16(b, 5),
                 !.scaling.offset = Decode(SubSeq(b, 7, 8), [size |-> 2, signed |-> TRUE]).v]

-----------------------------------------------------------------------------
(* Engineering units.  A parameter that is not scalable has both alike. *)

ScalingOf(p) == IF p.scalable THEN p.scaling ELSE NoScaling

\* actual_to_eng times Unit(p)
Unit(p) == LET s == ScalingOf(p) IN s.divisor * 10^s.precision
ActualToEng(p, actual) ==
  LET s == ScalingOf(p) IN (actual + s.offset) * s.multiplier * s.base

Abs(n) == IF n < 0 THEN -n ELSE n

\* The integers nearest to n / d, for d > 0.
Rounded(n, d) ==
  LET low == n \div d
  IN  IF 2 * (n - low * d) < d THEN {low}
      ELSE IF 2 * (n - low * d) > d THEN {low + 1} ELSE {low, low + 1}

\* Mutant: from_f64 without the rounding.
BugFromF64(n, d, T) ==
  LET toZero == IF n < 0 THEN -((-n) \div d) ELSE n \div d
  IN  IF d = 0 THEN {0} ELSE {Max({MinOf(T), Min({MaxOf(T), toZero})})}

\* from_f64(n / d): rounded, then cast.  The cast takes what is out of range,
\* an infinity too, to the nearest end of it, and NaN to 0.
FromF64(n, d, T) ==
  IF d = 0
  THEN {IF n = 0 THEN 0 ELSE IF n > 0 THEN MaxOf(T) ELSE MinOf(T)}
  ELSE {Max({MinOf(T), Min({MaxOf(T), v})}) : v \in Rounded(n, d)}

\* What set_eng_* may store for eng hundredths: from_f64 of eng_to_actual.  An
\* infinite or undefined quotient stays so when the offset is subtracted.
Actuals(p, eng, T) ==
  LET s == ScalingOf(p)
      d == 100 * s.multiplier * s.base
      n == eng * s.divisor * 10^s.precision
  IN  FromF64(IF d = 0 THEN n ELSE n - s.offset * d, d, T)

-----------------------------------------------------------------------------
(* The device *)

Short(text) == <<Len(text)>> \o text

\* A parameter: what is always read of it, its texts and limits, and what a
\* scalable one adds.
FirstBytes(o) ==
  Bytes(o.value, o.size) \o Short(o.link)
    \o <<(IF o.scalable THEN 4 ELSE 0) + (IF o.readOnly THEN 16 ELSE 0), 0>> \o <<o.type>>
TextBytes(o) ==
  (<<o.size>> \o Short(o.name) \o Short(o.units) \o Short(o.help))
    \o (o.min \o o.max \o o.default)
ScaleBytes(o) == IF o.scalable THEN Zeros(16) \o <<o.scaling.precision>> ELSE <<>>

\* What it sends for the object: all attributes of a parameter or an identity,
\* the full information of a fault.
DeviceBytes(o) ==
  CASE o.kind = "identity" ->
         (Le16(o.numbers[1]) \o Le16(o.numbers[2]) \o Le16(o.numbers[3]))
           \o (<<o.numbers[4]>> \o <<o.numbers[5]>> \o Le16(o.numbers[6])
                \o (Le32(o.numbers[7]) \o Short(o.name)))
    [] o.kind = "fault" ->
         Le16(o.code) \o <<o.port>> \o <<o.device>>
           \o ((o.text \o Zeros(16 - Len(o.text))) \o (o.timer \o
                <<(IF o.valid THEN 1 ELSE 0) + (IF o.realTime THEN 2 ELSE 0), 0>>))
    [] o.kind = "parameter" ->
         FirstBytes(o) \o (TextBytes(o) \o ScaleBytes(o))
    [] o.kind = "none" -> <<>>

\* Attributes 13 to 16, in the order they are asked for.
NextAttribute == [multiplier |-> "divisor", divisor |-> "base", base |-> "offset"]
ScalingReply(o, attribute) == Le16(o.scaling[attribute] % 65536)

DeviceChanges(v) ==
  /\ object.kind = "parameter" /\ v # object.value /\ v < Span(object.size)
  /\ object' = [object EXCEPT !.value = v]
  /\ since' = IF asked = "none" THEN since ELSE since \cup {v}
  /\ UNCHANGED <<param, asked, reading, scaling, set, held>>

-----------------------------------------------------------------------------
(* The operations of the scanner *)

ParamInit ==
  /\ object \in Objects
  /\ param = Err /\ reading = Err /\ asked = "none" /\ scaling = <<>> /\ set = Err
  /\ since = {} /\ held = {}

\* IdentityObject::read and DpiFaultObject::read, with the first n bytes of
\* the reply.
ReadObject(n) ==
  /\ object.kind \in {"identity", "fault"} /\ param = Err
  /\ LET b == SubSeq(DeviceBytes(object), 1, n)
     IN  param' = IF object.kind = "identity" THEN IdentityOf(b) ELSE FaultOf(b)
  /\ UNCHANGED <<object, asked, reading, scaling, set, since, held>>

\* ParameterObject::read, one request at a time.
Read(full) ==
  /\ object.kind = "parameter" /\ asked = "none" /\ param = Err
  /\ asked' = "size" /\ reading' = New(0, full) /\ since' = {object.value}
  /\ UNCHANGED <<object, param, scaling, set, held>>

ReadSize ==
  /\ asked = "size"
  /\ asked' = "all" /\ reading' = New(object.size, reading.full)
  /\ UNCHANGED <<object, param, scaling, set, since, held>>

Answer(p) ==
  /\ asked' = "none" /\ reading' = Err /\ scaling' = <<>> /\ since' = {}
  /\ IF p.ok THEN param' = p /\ held' = since ELSE UNCHANGED <<param, held>>

ReadAll(n) ==
  /\ asked = "all"
  /\ LET p == Attributes(reading, SubSeq(DeviceBytes(object), 1, n))
     IN  IF p.ok /\ p.full /\ p.scalable
         THEN asked' = "multiplier" /\ reading' = p /\ UNCHANGED <<param, scaling, since, held>>
         ELSE Answer(p)
  /\ UNCHANGED <<object, set>>

\* The replies are put together, whatever their lengths, and decoded after the
\* last one.
ReadScaling(n) ==
  /\ asked \in {"multiplier", "divisor", "base", "offset"}
  /\ LET replies == scaling \o SubSeq(ScalingReply(object, asked), 1, n)
     IN  IF asked # "offset"
         THEN /\ asked' = NextAttribute[asked] /\ scaling' = replies
              /\ UNCHANGED <<reading, param, since, held>>
         ELSE Answer(WithScaling(reading, replies))
  /\ UNCHANGED <<object, set>>

\* A request fails, is refused, or the size is missing in its reply.
RequestFails ==
  /\ asked # "none" /\ Answer(Err)
  /\ UNCHANGED <<object, set>>

\* update_value: any reply is the value.  A failure changes nothing.
UpdateValue(n) ==
  /\ asked = "none" /\ param.ok /\ object.kind = "parameter" /\ n <= object.size
  /\ param' = [param EXCEPT !.value = SubSeq(Bytes(object.value, object.size), 1, n)]
  /\ held' = {object.value}
  /\ UNCHANGED <<object, asked, reading, scaling, set, since>>

\* A parameter built without a device, its public fields set by the user.
Offline(scales, s) ==
  /\ object.kind = "none" /\ param = Err
  /\ param' = [New(1, TRUE) EXCEPT !.scalable = scales, !.scaling = s]
  /\ UNCHANGED <<object, asked, reading, scaling, set, since, held>>

\* set_eng_min_value, set_eng_max_value, set_eng_default_value
SetEng(which, eng, T) ==
  /\ asked = "none" /\ param.ok /\ param.kind = "parameter" /\ set = Err
  /\ \E v \in Actuals(param, eng, T) :
       param' = [param EXCEPT ![which] = Bytes(v, T.size)]
  /\ set' = [ok |-> TRUE, which |-> which, eng |-> eng, T |-> T]
  /\ UNCHANGED <<object, asked, reading, scaling, since, held>>

ParamNext ==
  \/ \E v \in Values : DeviceChanges(v)
  \/ \E n \in 0..Len(DeviceBytes(object)) : ReadObject(n)
  \/ \E full \in BOOLEAN : Read(full)
  \/ ReadSize
  \/ \E n \in 0..Len(DeviceBytes(object)) : ReadAll(n)
  \/ \E n \in 0..2 : ReadScaling(n)
  \/ RequestFails
  \/ \E n \in 0..4 : UpdateValue(n)
  \/ \E scales \in BOOLEAN, s \in Scalings : Offline(scales, s)
  \/ \E which \in {"min", "max", "default"}, eng \in Settings, T \in Types :
       SetEng(which, eng, T)

-----------------------------------------------------------------------------
(* Properties *)

\* A read with replies cut anywhere gives an error or what the device has: an
\* identity or fault record field by field; of a parameter the texts, limits
\* and scaling (or the defaults, if they were not asked for or the parameter
\* does not scale), and a value that either the device had during the read or
\* the last update, or that cannot be decoded as a type of the parameter's
\* size.  A limit the user has set since is not the device's.
ObjectExactOrError ==
  LET unscaled == ~object.scalable \/ ~param.full
      expected == [size |-> object.size, scalable |-> object.scalable,
                   readOnly |-> object.readOnly, type |-> object.type,
                   scaling |-> IF unscaled THEN NoScaling ELSE object.scaling]
      texts    == {"name", "units", "help", "min", "max", "default"}
                    \ (IF set.ok THEN {set.which} ELSE {})
      empty    == New(object.size, FALSE)
  IN  param.ok =>
        CASE object.kind = "parameter" ->
               /\ \A f \in DOMAIN expected : param[f] = expected[f]
               /\ \A f \in texts : param[f] = IF param.full THEN object[f] ELSE empty[f]
               /\ \/ Len(param.value) # object.size
                  \/ Unsigned(param.value) \in held
          [] object.kind \in {"identity", "fault"} ->
               \A f \in DOMAIN object : param[f] = object[f]
          [] object.kind = "none" -> TRUE

\* A limit set in engineering units is stored as the value of the type that
\* is nearest to it when read back in engineering units: neither of its
\* neighbours within the type's range comes closer.  What is out of range is
\* stored as the end of the range.
EngNearest ==
  set.ok =>
    LET s       == ScalingOf(param)
        stored  == Decode(param[set.which], set.T)
        miss(v) == Abs(100 * ActualToEng(param, v) - set.eng * Unit(param))
    IN  /\ stored.ok
        /\ s.multiplier * s.base # 0 =>
             \A v \in {stored.v - 1, stored.v + 1} \cap MinOf(set.T)..MaxOf(set.T) :
               miss(stored.v) <= miss(v)

=============================================================================
