--------------------------- MODULE MCForwardOpen ---------------------------
(* Configurations and EDS entries around every limit of forward_open. *)
EXTENDS ForwardOpen

Dir(size, type, priority, variable, run_idle) ==
  [size |-> size, type |-> type, priority |-> priority, variable |-> variable,
   run_idle |-> run_idle, rpi |-> 1000000 * (size % 3) + 70000999]
Assembly == <<Logical("class", 4), Logical("instance", 151),
              Logical("point", 150), Logical("point", 300)>>
Config(o2t, t2o, class, config_data, route, path, bits8) ==
  [o2t |-> o2t, t2o |-> t2o, class |-> class, trigger |-> 0,
   timeout_multiplier |-> 2, config_data |-> config_data, route |-> route,
   path |-> path, bits8 |-> bits8]

Usual(size) == Dir(size, 2, 2, FALSE, FALSE)

\* Sizes on both sides of 511 and 65535, with and without headers.
BySize ==
  {Config(Dir(o, 2, 2, FALSE, h), Dir(t, 1, 3, TRUE, FALSE), class, 0, <<>>, Assembly, TRUE) :
     o \in {0, 505, 506, 509, 65529, 65530}, t \in {32, 511, 512, 65533, 65534},
     h \in BOOLEAN, class \in 0..2}

\* Flags, multiplier and trigger.
ByFlags ==
  {[Config(Dir(32, o, p, FALSE, TRUE), Dir(600, t, p, v, TRUE), 1, 0, <<>>, Assembly, FALSE)
      EXCEPT !.timeout_multiplier = m, !.trigger = m % 3] :
     o \in 0..3, t \in 0..3, p \in 0..3, v \in BOOLEAN, m \in {0, 7, 8}}

\* Configuration data (with 497 or 498 bytes the shortest path is 255 words,
\* the most its size byte can say), port segments and routes.
Ports ==
  {<<>>, <<Port(1, <<3>>)>>, <<Port(2, <<49, 48, 46>>), Port(1, <<0>>)>>,
   <<Port(15, <<7>>)>>, <<Port(300, <<49, 46>>)>>, <<Port(14, <<>>)>>,
   <<Key(7, 1, TRUE)>>, <<Port(1, <<3>>), Key(300, 5, FALSE)>>}
Routes ==
  {<<Number(1), Number(0), Number(2), Address4(<<49, 46, 50>>)>>,
   <<Number(20), Number(5)>>, <<Number(1), Number(255), Number(1)>>,
   <<Number(0), Number(1)>>, <<Number(1), Number(256)>>, <<BadToken, Number(1)>>,
   <<Number(1), BadToken>>}
ByPath ==
  {Config(Usual(32), Usual(32), 1, n, <<>>, p \o Assembly, TRUE) :
     n \in {0, 1, 2, 3, 254, 255, 495, 496, 497, 498, 499, 510, 511}, p \in Ports}
    \cup {Config(Usual(32), Usual(32), 1, 0, r, Assembly, TRUE) : r \in Routes}

FullConfigData == {Config(Usual(32), Usual(32), 1, MaxConfigData, <<>>, Assembly, TRUE)}

SmallConfigs == BySize \cup ByFlags \cup ByPath

-----------------------------------------------------------------------------
(* EDS files.  Parameters 1 to 4 and the assemblies are the same in all. *)

EdsParam(size, min, default) ==
  [type |-> Number(199), size |-> size, min |-> min, default |-> default]
Params ==
  << EdsParam(Number(4), Number(1000), Number(70000)),  \* an interval
     EdsParam(Number(4), Number(2000), Empty),          \* only a minimum
     EdsParam(Number(2), Empty, Number(600)),           \* a size, or an ID
     EdsParam(Empty, Empty, Number(151)),               \* an 8-bit ID
     EdsParam(Number(2), Empty, BadToken),              \* no number as default
     EdsParam(BadToken, Empty, Number(1)) >>            \* an error
Assemblies ==
  << [size |-> Number(9), members |-> <<Number(8)>>],
     [size |-> Empty, members |-> <<Number(8), Number(1), BadToken, Number(4)>>],
     [size |-> BadToken, members |-> <<>>] >>

Half(rpi, size, format) == [rpi |-> rpi, size |-> size, format |-> format]
Meant(rpi, size)          == [rpi |-> rpi, size |-> size]

\* Hex bytes 20 04 24 97 2C 96 2C 64.
PathTokens == [i \in 1..8 |-> Number(<<32, 4, 36, 151, 44, 150, 44, 100>>[i])]
PathRead   == <<Logical("class", 4), Logical("instance", 151),
                Logical("point", 150), Logical("point", 100)>>

Eds(tt, cp, o2t, t2o, path, meant) ==
  [params |-> Params, assemblies |-> Assemblies, meant |-> meant,
   entry |-> [trigger_transport |-> tt, connection_params |-> cp, o2t |-> o2t,
              t2o |-> t2o, path |-> path]]

PlainFields == Half(Param(1), Number(32), Empty)
PlainMeant  == [o2t |-> Meant(70000, 32), t2o |-> Meant(70000, 32), path |-> PathRead]
PlainBits   == {0, 2, 10, 18, 22, 26, 30}
WithBits(tt, cp) ==
  Eds(Number(tt), Number(cp), PlainFields, PlainFields, PathTokens, PlainMeant)

\* Every group of bits in turn, for each direction.
Vary(bits) == {(PlainBits \ bits) \cup b : b \in SUBSET bits}
ByBits ==
  {WithBits({1, 16}, cp) : cp \in UNION {Vary(g) : g \in
     {{16, 17, 18}, {20, 21, 22}, {24, 25, 26}, {28, 29, 30}, {0, 1}, {2, 3},
      {8, 9, 10}, {12, 13, 14}}}}
    \cup {WithBits(tt, PlainBits) : tt \in SUBSET {0, 1, 16, 17, 18}}

\* Every way to give an interval and a size, with what it means.
Given ==
  {<<Half(Param(1), Number(600), Assem(1)), Meant(70000, 600)>>,
   <<Half(Param(2), Param(3), Empty), Meant(2000, 600)>>,
   <<Half(Number(5000), Empty, Assem(1)), Meant(5000, 9)>>,
   <<Half(Empty, Empty, Assem(2)), Meant(DefaultRpi, 2)>>,
   <<Half(BadToken, Param(5), Assem(1)), Meant(DefaultRpi, 0)>>,
   <<Half(Param(1), Empty, Empty), Meant(70000, 0)>>,
   <<Half(Param(1), Number(65540), Empty), Meant(70000, 65540)>>}
WrongFields ==
  {Half(Param(6), Number(1), Empty), Half(Param(7), Number(1), Empty),
   Half(Empty, BadToken, Empty), Half(Empty, Param(7), Empty),
   Half(Empty, Empty, Assem(3)), Half(Empty, Empty, Assem(4))}
ByFields ==
  {Eds(Number({1}), Number(PlainBits), o[1], t[1], PathTokens,
       [o2t |-> o[2], t2o |-> t[2], path |-> PathRead]) : o \in Given, t \in Given}
    \cup {Eds(Number({1}), Number(PlainBits), PlainFields, t, PathTokens, PlainMeant) :
            t \in WrongFields}
    \cup {Eds(tt, Number(PlainBits), PlainFields, PlainFields, PathTokens, PlainMeant) :
            tt \in {Empty, BadToken}}

\* Paths with parameters: 20 04 24 Param4 2D 00 [Param3], and wrong ones.
ParamPath == <<Number(32), Number(4), Number(36), Param(4), Number(45), Number(0), Param(3)>>
ByEdsPath ==
  {Eds(Number({1}), Number(PlainBits), PlainFields, PlainFields, p,
       [PlainMeant EXCEPT !.path = <<Logical("class", 4), Logical("instance", 151),
                                     Logical("point", 600)>>]) :
     p \in {ParamPath, <<Number(32), Param(5)>>, <<Param(7)>>, <<Number(32), BadToken>>}}

SomeEds == ByBits \cup ByFields \cup ByEdsPath

-----------------------------------------------------------------------------
Reply(status, additional, application, sockaddr) ==
  [status |-> status, additional |-> additional, application |-> application,
   sockaddr |-> sockaddr, o2t_id |-> 70000, t2o_id |-> 66051,
   o2t_api |-> 69000, t2o_api |-> 71000, handle |-> Handle, encaps_status |-> 0]
SomeReplies ==
  {Reply(0, <<>>, <<>>, <<[ip |-> 9, port |-> 2223]>>),
   Reply(0, <<>>, <<1, 2>>, <<[ip |-> 0, port |-> 0]>>),
   Reply(1, <<20, 1, 3, 2>>, <<>>, <<>>),
   [Reply(0, <<>>, <<>>, <<>>) EXCEPT !.handle = Handle + 1],
   [Reply(0, <<>>, <<>>, <<>>) EXCEPT !.encaps_status = 3]}

=============================================================================
