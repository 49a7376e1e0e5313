------------------------------ MODULE MCDevice ------------------------------
EXTENDS Device

Scale(m, d, b, o, p) ==
  [multiplier |-> m, divisor |-> d, base |-> b, offset |-> o, precision |-> p]

\* Among them factors above and below 1, a negative offset, a zero.
SomeScalings ==
  {Scale(1, 1, 1, 0, 0), Scale(2, 4, 1, 6, 1), Scale(3, 1, 2, -7, 0),
   Scale(7, 2, 1, 100, 1), Scale(0, 1, 1, 3, 0), Scale(1, 1, 10, -300, 2)}

Text(n) == [i \in 1..n |-> 64 + i]

SomeParameter(size, link, scalable, readOnly, s) ==
  [kind |-> "parameter", size |-> size, value |-> 5, link |-> link,
   scalable |-> scalable, readOnly |-> readOnly, type |-> 194 + size,
   name |-> Text(3), units |-> Text(1), help |-> <<>>,
   min |-> Bytes(1, size), max |-> Bytes(250, size), default |-> Bytes(7, size),
   scaling |-> s]

SomeObjects ==
  {[kind |-> "none"],
   [kind |-> "identity", numbers |-> <<1, 258, 3, 4, 5, 48, 305419>>, name |-> Text(2)],
   [kind |-> "identity", numbers |-> <<65535, 0, 255, 0, 255, 256, 0>>, name |-> <<>>],
   [kind |-> "fault", code |-> 13, port |-> 1, device |-> 2, text |-> Text(12),
    timer |-> <<8, 7, 6, 5, 4, 3, 2, 1>>, valid |-> TRUE, realTime |-> FALSE],
   [kind |-> "fault", code |-> 300, port |-> 0, device |-> 9, text |-> Text(16),
    timer |-> Zeros(8), valid |-> FALSE, realTime |-> TRUE]}
  \cup {SomeParameter(size, link, scalable, ~scalable, Scale(2, 4, 258, -6, 1)) :
          size \in {1, 2}, link \in {<<>>, <<32, 5, 36, 2, 48, 1>>}, scalable \in BOOLEAN}

\* u8, i8, u16, i16
IntegerTypes == [size: {1, 2}, signed: BOOLEAN]

\* In hundredths: around 0, halves, and both ends of the one-byte types.
SomeSettings ==
  {0, 1, 30, 49, 50, 51, 150, -50, -51, 12749, 12750, 25550, 30000, -12851, -30000}

-----------------------------------------------------------------------------
(* Discovery *)

Interface(up, broadcast, loopback, addr) ==
  [up |-> up, broadcast |-> broadcast, loopback |-> loopback, addr |-> addr]

\* Two interfaces on one network, one on another, and four that do not count.
Networks ==
  <<Interface(TRUE, TRUE, FALSE, 9), Interface(TRUE, TRUE, TRUE, 3),
    Interface(TRUE, TRUE, FALSE, 7), Interface(FALSE, TRUE, FALSE, 4),
    Interface(TRUE, FALSE, FALSE, 5), Interface(TRUE, TRUE, FALSE, 9),
    Interface(TRUE, TRUE, FALSE, 0)>>

Drive(serial, name) ==
  [ip |-> <<192, 168, 1, 15>>, port |-> 44818, vendor |-> 1, device_type |-> 150,
   product |-> 9, major |-> 5, minor |-> 1, status |-> 48, serial |-> serial,
   name |-> name]

\* Two devices, one after something else, and one with a bad name.
SomeReplies ==
  {<<DeviceItem(Drive(70000, <<80, 70>>), FALSE), DeviceItem(Drive(3, <<>>), FALSE)>>,
   <<Foreign(<<1, 2, 3>>), DeviceItem(Drive(5, <<77>>), FALSE)>>,
   <<DeviceItem(Drive(6, <<80>>), FALSE), DeviceItem(Drive(7, <<80>>), TRUE)>>}

-----------------------------------------------------------------------------
(* EDS texts, made of the characters the parser tells apart. *)

SomeBlanks   == {<<" ">>, <<NL>>, <<"$", ";", Quote, "[", NL>>}
SomeNames    == {<<"n", " ", "n">>}
SomeKeywords == {<<"n">>}
SomeStrings  == {<<"n", "$", ";">>, <<Quote, Backslash, NL>>}
SomeTokens   == {<<"n">>, <<"n", " ", "[">>}
SomeMistakes == {<<"[", "n", NL>>, <<"n", ";">>, <<"n", ",">>, <<"n", "[">>, <<Quote>>}

=============================================================================
