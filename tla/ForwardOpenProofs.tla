--------------------------- MODULE ForwardOpenProofs ---------------------------
(***************************************************************************)
(* What the target reads of a Forward Open, and what forward_open makes of *)
(* the target's answer, for any configuration, any answer and any number   *)
(* of bytes of it that arrive.                                             *)
(***************************************************************************)
EXTENDS ForwardOpen, WireProofs

-----------------------------------------------------------------------------
(* The target's answer *)

IdsOf(r) ==
  /\ r.o2t_id \in Nat /\ Fits32(r.o2t_id) /\ r.t2o_id \in Nat /\ Fits32(r.t2o_id)
  /\ r.o2t_api \in Nat /\ Fits32(r.o2t_api) /\ r.t2o_api \in Nat /\ Fits32(r.t2o_api)

LEMMA ReplyParts ==
  ASSUME NEW r, ReplyType(r)
  PROVE  /\ IdsOf(r) /\ r.status \in Nat
         /\ Over(r.additional) /\ Over(r.application)
         /\ Len(r.additional) \in Nat /\ Len(r.application) \in Nat
         /\ 2 * (Len(r.additional) \div 2) = Len(r.additional)
         /\ 2 * (Len(r.application) \div 2) = Len(r.application)
         /\ Len(r.additional) <= 510 /\ Len(r.application) <= 510
         /\ Len(r.additional) \div 2 \in Nat /\ Len(r.application) \div 2 \in Nat
<1>1. /\ r.status \in Nat /\ r.additional \in Seq(Nat) /\ r.application \in Seq(Nat)
      /\ r.o2t_id \in Nat /\ r.t2o_id \in Nat /\ r.o2t_api \in Nat /\ r.t2o_api \in Nat
  BY DEF ReplyType
<1>2. Len(r.additional) \in Nat /\ Len(r.application) \in Nat
  BY <1>1, LenProperties
<1>3. /\ Len(r.additional) % 2 = 0 /\ Len(r.additional) <= 510
      /\ Len(r.application) % 2 = 0 /\ Len(r.application) <= 510
  BY DEF ReplyType
<1>4. \A n \in Nat : n % 2 = 0 => 2 * (n \div 2) = n /\ n \div 2 \in Nat
  OBVIOUS
<1>5. IdsOf(r)
  BY <1>1 DEF IdsOf, ReplyType
<1> QED
  BY <1>1, <1>2, <1>3, <1>4, <1>5 DEF Over

LEMMA ConstantsFit ==
  /\ SerialNumber \in Nat /\ Fits16(SerialNumber) /\ ConnectionId \in Nat /\ Fits32(ConnectionId)
  /\ Handle \in Nat /\ Fits32(Handle)
BY ForwardOpenAssumption DEF Fits16, Fits32

\* The fields of a reply that grants the connection.
LEMMA GrantedRead ==
  ASSUME NEW r, ReplyType(r)
  PROVE  /\ Over(Granted(r)) /\ Len(Granted(r)) = 26 + Len(r.application)
         /\ DecodeForwardOpen(Granted(r)) =
              [ok |-> TRUE, o2t_id |-> r.o2t_id, t2o_id |-> r.t2o_id,
               serial |-> SerialNumber, o2t_api |-> r.o2t_api, t2o_api |-> r.t2o_api,
               application |-> r.application]

<1> DEFINE words == Len(r.application) \div 2
           size  == Len(r.application)
           whole == Granted(r)
           p1    == Le32(r.o2t_id)
           p2    == Le32(r.t2o_id)
           p3    == Le16(SerialNumber)
           p4    == Originator
           p5    == Le32(r.o2t_api)
           p6    == Le32(r.t2o_api)
           p7    == <<words, 0>>
           p8    == r.application
           seqs  == <<p1, p2, p3, p4, p5, p6, p7, p8>>
<1>29. r.o2t_id \in Nat /\ r.t2o_id \in Nat /\ r.o2t_api \in Nat /\ r.t2o_api \in Nat
  BY ZenonT(60), ReplyParts DEF IdsOf
<1>30. Over(r.application) /\ size = Len(r.application) /\ size \in Nat /\ words \in Nat /\ 2 * words = size
  BY ZenonT(60), ReplyParts
<1> HIDE DEF size, words
<1>1. /\ Over(p1) /\ Len(p1) = 4
      /\ Over(p2) /\ Len(p2) = 4
      /\ Over(p3) /\ Len(p3) = 2
      /\ Over(p4) /\ Len(p4) = 6
      /\ Over(p5) /\ Len(p5) = 4
      /\ Over(p6) /\ Len(p6) = 4
      /\ Over(p7) /\ Len(p7) = 2
      /\ Over(p8) /\ Len(p8) = size
  <2>1. Over(p1) /\ Len(p1) = 4
    BY <1>29, Le32Is
  <2>2. Over(p2) /\ Len(p2) = 4
    BY <1>29, Le32Is
  <2>3. Over(p3) /\ Len(p3) = 2
    BY ConstantsFit, Le16Is
  <2>4. Over(p4) /\ Len(p4) = 6
    BY ZerosAre DEF Originator
  <2>5. Over(p5) /\ Len(p5) = 4
    BY <1>29, Le32Is
  <2>6. Over(p6) /\ Len(p6) = 4
    BY <1>29, Le32Is
  <2>7. Over(p7) /\ Len(p7) = 2
    BY <1>30 DEF Over
  <2>8. Over(p8) /\ Len(p8) = size
    BY <1>30
  <2> HIDE DEF p1, p2, p3, p4, p5, p6, p7, p8
  <2> QED
    BY <2>1, <2>2, <2>3, <2>4, <2>5, <2>6, <2>7, <2>8
<1>2. whole = Then(Then(Then(Then(Then(Then(Then(p1, p2), p3), p4), p5), p6), p7), p8)
  BY DEF Granted, words, size, Then
<1> HIDE DEF whole, p1, p2, p3, p4, p5, p6, p7, p8
<1>3. seqs \in Seq(Seq(Nat)) /\ Len(seqs) = 8
  BY <1>1 DEF Over
<1>4. /\ seqs[1] = p1
      /\ seqs[2] = p2
      /\ seqs[3] = p3
      /\ seqs[4] = p4
      /\ seqs[5] = p5
      /\ seqs[6] = p6
      /\ seqs[7] = p7
      /\ seqs[8] = p8
  OBVIOUS
<1> HIDE DEF seqs
<1>5. PICK f : Row(seqs, f)
  BY <1>3, RowExists
<1>6. /\ 1 \in 1..Len(seqs) /\ 1 - 1 = 0
      /\ 2 \in 1..Len(seqs) /\ 2 - 1 = 1
      /\ 3 \in 1..Len(seqs) /\ 3 - 1 = 2
      /\ 4 \in 1..Len(seqs) /\ 4 - 1 = 3
      /\ 5 \in 1..Len(seqs) /\ 5 - 1 = 4
      /\ 6 \in 1..Len(seqs) /\ 6 - 1 = 5
      /\ 7 \in 1..Len(seqs) /\ 7 - 1 = 6
      /\ 8 \in 1..Len(seqs) /\ 8 - 1 = 7
  BY <1>3
<1>7. /\ \A k \in 1..Len(seqs) : f[k] = Then(f[k - 1], seqs[k])
      /\ \A k \in 1..Len(seqs) : Len(f[k]) = Len(f[k - 1]) + Len(seqs[k])
      /\ \A k \in 1..Len(seqs) : Holds(f[Len(seqs)], Len(f[k - 1]) + 1, seqs[k])
      /\ f[0] = <<>> /\ Len(f[0]) = 0 /\ Over(f[8])
  BY <1>3, <1>5 DEF Row
<1>8. /\ f[1] = Then(f[0], p1)
      /\ f[2] = Then(f[1], p2)
      /\ f[3] = Then(f[2], p3)
      /\ f[4] = Then(f[3], p4)
      /\ f[5] = Then(f[4], p5)
      /\ f[6] = Then(f[5], p6)
      /\ f[7] = Then(f[6], p7)
      /\ f[8] = Then(f[7], p8)
  BY <1>4, <1>6, <1>7
<1>9. f[8] = whole
  BY <1>1, <1>2, <1>7, <1>8, NothingIs
<1>10. /\ Len(f[1]) = Len(f[0]) + 4
       /\ Len(f[2]) = Len(f[1]) + 4
       /\ Len(f[3]) = Len(f[2]) + 2
       /\ Len(f[4]) = Len(f[3]) + 6
       /\ Len(f[5]) = Len(f[4]) + 4
       /\ Len(f[6]) = Len(f[5]) + 4
       /\ Len(f[7]) = Len(f[6]) + 2
       /\ Len(f[8]) = Len(f[7]) + size
  BY <1>1, <1>4, <1>6, <1>7
<1>11. /\ Len(f[1]) = 4 /\ Len(f[2]) = 8 /\ Len(f[3]) = 10 /\ Len(f[4]) = 16
       /\ Len(f[5]) = 20 /\ Len(f[6]) = 24 /\ Len(f[7]) = 26 /\ Len(f[8]) = 26 + size
  BY <1>7, <1>10
<1>12. /\ Holds(whole, Len(f[0]) + 1, p1) /\ Holds(whole, Len(f[1]) + 1, p2)
       /\ Holds(whole, Len(f[2]) + 1, p3) /\ Holds(whole, Len(f[4]) + 1, p5)
       /\ Holds(whole, Len(f[5]) + 1, p6) /\ Holds(whole, Len(f[6]) + 1, p7)
       /\ Holds(whole, Len(f[7]) + 1, p8)
  BY <1>3, <1>4, <1>6, <1>7, <1>9
<1>13. /\ Holds(whole, 1, p1) /\ Holds(whole, 5, p2) /\ Holds(whole, 9, p3)
       /\ Holds(whole, 17, p5) /\ Holds(whole, 21, p6) /\ Holds(whole, 25, p7)
       /\ Holds(whole, 27, p8)
  BY <1>7, <1>11, <1>12
<1>14. Over(whole) /\ Len(whole) = 26 + size
  BY <1>7, <1>9, <1>11
<1>15. Get32(whole, 1) = r.o2t_id
  BY ZenonT(60), <1>13, <1>14, ReplyParts, Read32 DEF IdsOf, p1
<1>16. Get32(whole, 5) = r.t2o_id
  BY ZenonT(60), <1>13, <1>14, ReplyParts, Read32 DEF IdsOf, p2
<1>17. Get16(whole, 9) = SerialNumber
  BY <1>13, <1>14, ConstantsFit, Read16 DEF p3
<1>18. Get32(whole, 17) = r.o2t_api
  BY ZenonT(60), <1>13, <1>14, ReplyParts, Read32 DEF IdsOf, p5
<1>19. Get32(whole, 21) = r.t2o_api
  BY ZenonT(60), <1>13, <1>14, ReplyParts, Read32 DEF IdsOf, p6
<1>20. whole[25] = words
  <2>1. Len(p7) = 2 /\ p7[1] = words
    BY DEF p7
  <2>2. 1 \in 1..Len(p7) /\ 25 + 1 - 1 = 25
    BY <2>1
  <2> QED
    BY <1>13, <2>1, <2>2 DEF Holds
<1>21. SubSeq(whole, 27, 26 + 2 * words) = r.application
  <2>1. Over(p8) /\ Len(p8) = size /\ p8 = r.application
    BY <1>1 DEF p8
  <2>4. 27 \in Nat /\ 27 >= 1
    OBVIOUS
  <2>2. SubSeq(whole, 27, 27 + Len(p8) - 1) = p8
    BY <1>13, <1>14, <2>1, <2>4, Cut
  <2>3. 27 + Len(p8) - 1 = 26 + 2 * words
    BY <1>30, <2>1
  <2> QED
    BY <2>1, <2>2, <2>3
<1>22. ~(Len(whole) < 26) /\ ~(Len(whole) < 26 + 2 * whole[25])
  BY <1>14, <1>20, <1>30
<1>23. DecodeForwardOpen(whole) =
         [ok |-> TRUE, o2t_id |-> r.o2t_id, t2o_id |-> r.t2o_id,
          serial |-> SerialNumber, o2t_api |-> r.o2t_api, t2o_api |-> r.t2o_api,
          application |-> r.application]
  BY <1>15, <1>16, <1>17, <1>18, <1>19, <1>20, <1>21, <1>22 DEF DecodeForwardOpen
<1> QED
  BY <1>14, <1>23 DEF whole, size

\* The items of a reply, and the response among them.
ReplyItems(r) ==
  <<Item(NULL_ADDRESS, <<>>), Item(UNCONNECTED_MESSAGE, Response(r))>> \o SockaddrItemsOf(r)

LEMMA ResponseDecoded ==
  ASSUME NEW r, ReplyType(r)
  PROVE  /\ Over(Response(r)) /\ Len(Response(r)) \in Nat /\ Len(Response(r)) <= 1050
         /\ DecodeResponse(Response(r)) =
              [ok |-> TRUE, status |-> r.status, additional |-> r.additional,
               data |-> IF r.status = 0 THEN Granted(r) ELSE <<>>]
<1> DEFINE data == IF r.status = 0 THEN Granted(r) ELSE <<>>
           w    == Len(r.additional) \div 2
<1>1. /\ r.status \in Nat /\ Over(r.additional) /\ w \in Nat /\ 2 * w = Len(r.additional)
      /\ Len(r.additional) \in Nat /\ Len(r.additional) <= 510
      /\ Len(r.application) \in Nat /\ Len(r.application) <= 510
  <2>1. r.status \in Nat /\ Over(r.additional)
    BY ZenonT(60), ReplyParts
  <2>3. Len(r.additional) \in Nat /\ Len(r.additional) <= 510
    BY ZenonT(60), ReplyParts
  <2>4. Len(r.application) \in Nat /\ Len(r.application) <= 510
    BY ZenonT(60), ReplyParts
  <2>2. w \in Nat /\ 2 * w = Len(r.additional)
    BY ZenonT(60), ReplyParts
  <2> HIDE DEF w
  <2> QED
    BY <2>1, <2>2, <2>3, <2>4
<1>2. Over(Granted(r)) /\ Len(Granted(r)) = 26 + Len(r.application)
  BY GrantedRead
<1>3. Over(data) /\ Len(data) \in Nat /\ Len(data) <= 536
  BY <1>1, <1>2, NothingIs
<1>4. Response(r) = <<212, 0, r.status, w>> \o r.additional \o data
  BY DEF Response
<1> HIDE DEF data, w
<1>5. 212 \in Nat /\ 0 \in Nat
  OBVIOUS
<1>6. /\ Over(Response(r)) /\ Len(Response(r)) = 4 + Len(r.additional) + Len(data)
      /\ DecodeResponse(Response(r)) =
           [ok |-> TRUE, status |-> r.status, additional |-> r.additional, data |-> data]
  <2> DEFINE h == <<212, 0, r.status, w>>
  <2>1. Over(h) /\ Len(h) = 4 /\ h[3] = r.status /\ h[4] = w
    BY <1>1, <1>5 DEF Over
  <2>2. Response(r) = Then(Then(h, r.additional), data)
    BY <1>4 DEF Then
  <2> HIDE DEF h
  <2> DEFINE b == Then(Then(h, r.additional), data)
  <2>3. /\ Over(b) /\ Len(b) = 4 + Len(r.additional) + Len(data)
        /\ DecodeResponse(b) =
             [ok |-> TRUE, status |-> h[3], additional |-> r.additional, data |-> data]
    <3>1. h[4] \in Nat /\ 2 * h[4] = Len(r.additional)
      BY <1>1, <2>1
    <3> QED
      BY <1>1, <1>3, <2>1, <3>1, ResponseRead
  <2> HIDE DEF b
  <2> QED
    BY <2>1, <2>2, <2>3 DEF b
<1>7. Len(Response(r)) \in Nat /\ Len(Response(r)) <= 1050
  BY <1>1, <1>3, <1>6
<1> QED
  BY ZenonT(60), <1>6, <1>7 DEF data

LEMMA SockaddrIs ==
  ASSUME NEW s \in [ip : Nat, port : Nat]
  PROVE  Over(Sockaddr(s)) /\ Len(Sockaddr(s)) = 16
<1> DEFINE head == <<0, 2, s.port \div 256, s.port % 256, 0, 0, 0, s.ip>>
           tail == Zeros(8)
<1>1. Over(head) /\ Len(head) = 8
  BY DEF Over
<1>2. Over(tail) /\ Len(tail) = 8
  BY ZerosAre
<1>3. Sockaddr(s) = Then(head, tail)
  BY DEF Sockaddr, Then
<1> HIDE DEF head, tail
<1>4. Over(Then(head, tail)) /\ Len(Then(head, tail)) = Len(head) + Len(tail)
  BY <1>1, <1>2, Joined
<1> QED
  BY <1>1, <1>2, <1>3, <1>4

\* Small lengths, and the types of the items, are 16-bit numbers.
LEMMA Small16 ==
  /\ Fits16(NULL_ADDRESS) /\ Fits16(UNCONNECTED_MESSAGE) /\ Fits16(O2T_SOCKADDR_INFO)
  /\ NULL_ADDRESS \in Nat /\ UNCONNECTED_MESSAGE \in Nat /\ O2T_SOCKADDR_INFO \in Nat
  /\ \A n \in Nat : n <= 1100 => Fits16(n)
BY DEF NULL_ADDRESS, UNCONNECTED_MESSAGE, O2T_SOCKADDR_INFO, Fits16

LEMMA AtMostOne ==
  ASSUME NEW S, NEW q \in Seq(S), Len(q) <= 1, q # <<>>
  PROVE  Len(q) = 1 /\ q[1] \in S /\ DOMAIN q = 1..1
<1>1. Len(q) \in Nat \ {0}
  BY EmptySeq
<1>2. Len(q) = 1
  BY <1>1
<1> QED
  BY <1>2, ElementOfSeq, LenProperties

LEMMA ReplyItemsAre ==
  ASSUME NEW r, ReplyType(r)
  PROVE  LET items == ReplyItems(r)
             more  == SockaddrItemsOf(r)
             first == Item(NULL_ADDRESS, <<>>)
             second == Item(UNCONNECTED_MESSAGE, Response(r))
         IN  /\ ItemType(first) /\ ItemType(second)
             /\ \/ more = <<>> /\ items = <<first, second>>
                \/ \E s \in [ip : Nat, port : Nat] :
                     LET third == Item(O2T_SOCKADDR_INFO, Sockaddr(s))
                     IN  ItemType(third) /\ more = <<third>> /\ items = <<first, second, third>>
<1> DEFINE first == Item(NULL_ADDRESS, <<>>)
           second == Item(UNCONNECTED_MESSAGE, Response(r))
           more  == SockaddrItemsOf(r)
<1>1. r.sockaddr \in Seq([ip : Nat, port : Nat]) /\ Len(r.sockaddr) <= 1
  BY DEF ReplyType
<1>2. ItemType(first)
  <2>1. <<>> \in Seq(Nat) /\ Len(<<>>) = 0 /\ Fits16(0)
    BY Small16
  <2> QED
    BY <2>1, Small16 DEF ItemType, Item
<1>3. ItemType(second)
  <2>1. Response(r) \in Seq(Nat) /\ Len(Response(r)) \in Nat /\ Len(Response(r)) <= 1100
    BY ResponseDecoded DEF Over
  <2>2. Fits16(Len(Response(r)))
    BY <2>1, Small16
  <2> QED
    BY <2>1, <2>2, Small16 DEF ItemType, Item
<1> HIDE DEF first, second
<1>4. CASE r.sockaddr = <<>>
  <2>1. more = <<>>
    BY <1>4 DEF SockaddrItemsOf
  <2>2. ReplyItems(r) = <<first, second>>
    BY <2>1 DEF ReplyItems, first, second
  <2> QED
    BY <1>2, <1>3, <2>1, <2>2 DEF first, second
<1>5. CASE r.sockaddr # <<>>
  <2> DEFINE s == r.sockaddr[1]
             third == Item(O2T_SOCKADDR_INFO, Sockaddr(s))
  <2>1. Len(r.sockaddr) = 1 /\ s \in [ip : Nat, port : Nat] /\ DOMAIN r.sockaddr = 1..1
    BY <1>1, <1>5, AtMostOne
  <2> HIDE DEF s
  <2>2. more = <<third>>
    <3>1. more = [i \in 1..1 |-> Item(O2T_SOCKADDR_INFO, Sockaddr(r.sockaddr[i]))]
      BY <2>1 DEF SockaddrItemsOf
    <3> QED
      BY <3>1 DEF s
  <2>3. ItemType(third)
    <3>1. Sockaddr(s) \in Seq(Nat) /\ Len(Sockaddr(s)) \in Nat /\ Len(Sockaddr(s)) <= 1100
      <4>1. Over(Sockaddr(s)) /\ Len(Sockaddr(s)) = 16
        BY <2>1, SockaddrIs
      <4> QED
        BY <4>1 DEF Over
    <3>2. Fits16(Len(Sockaddr(s)))
      BY <3>1, Small16
    <3> QED
      BY <3>1, <3>2, Small16 DEF ItemType, Item
  <2>4. ReplyItems(r) = <<first, second, third>>
    <3>1. ReplyItems(r) = <<first, second>> \o <<third>>
      BY <2>2 DEF ReplyItems, first, second
    <3>2. first \in Items /\ second \in Items /\ third \in Items
      BY <1>2, <1>3, <2>3 DEF ItemType, Items, first, second
    <3> HIDE DEF third
    <3> QED
      BY <3>1, <3>2, TwoAndOne
  <2> QED
    BY <1>2, <1>3, <2>1, <2>2, <2>3, <2>4 DEF first, second
<1> QED
  BY <1>4, <1>5

\* How many bytes the first items take.
LEMMA PartLength ==
  ASSUME NEW items, ItemsType(items), NEW f, Parts(AllCoded(items), f),
         NEW k \in 1..Len(items)
  PROVE  /\ Len(f[0]) = 0 /\ Len(f[k - 1]) \in Nat /\ Len(items[k].data) \in Nat
         /\ Len(f[k]) = Len(f[k - 1]) + 4 + Len(items[k].data)
<1>1. /\ Len(items) \in Nat /\ Len(AllCoded(items)) = Len(items)
      /\ \A i \in 1..Len(items) : AllCoded(items)[i] = Coded(items[i]) /\ Over(AllCoded(items)[i])
  BY AllCodedIs
<1>2. k - 1 \in 0..Len(items)
  BY <1>1
<1>3. f[k] = Then(f[k - 1], Coded(items[k])) /\ Over(f[k - 1]) /\ Over(Coded(items[k])) /\ f[0] = <<>>
  BY <1>1, <1>2 DEF Parts
<1>4. Len(f[k]) = Len(f[k - 1]) + Len(Coded(items[k])) /\ Len(f[k - 1]) \in Nat
  BY <1>3, Joined
<1>5. ItemType(items[k])
  BY DEF ItemsType
<1>6. Len(Coded(items[k])) = 4 + Len(items[k].data) /\ Len(items[k].data) \in Nat
  BY <1>5, CodedIs
<1>7. Len(f[0]) = 0
  BY <1>3, NothingIs
<1> DEFINE x == Len(items[k].data)
           g == Len(f[k])
           before == Len(f[k - 1])
           coded == Len(Coded(items[k]))
<1>8. g = before + coded /\ before \in Nat /\ coded = 4 + x /\ x \in Nat
  BY <1>4, <1>6
<1> HIDE DEF x, g, before, coded
<1>9. g = before + 4 + x
  BY <1>8
<1> QED
  BY <1>7, <1>8, <1>9 DEF x, g, before

LEMMA TwoItems ==
  ASSUME NEW items, ItemsType(items), Len(items) = 2, NEW f, Parts(AllCoded(items), f)
  PROVE  /\ Len(f[2]) = 8 + Len(items[1].data) + Len(items[2].data)
         /\ Len(items[1].data) \in Nat /\ Len(items[2].data) \in Nat
<1>1. 1 \in 1..Len(items) /\ 2 \in 1..Len(items) /\ 1 - 1 = 0 /\ 2 - 1 = 1
  OBVIOUS
<1>2. /\ Len(f[0]) = 0 /\ Len(items[1].data) \in Nat /\ Len(f[1]) = Len(f[0]) + 4 + Len(items[1].data)
      /\ Len(items[2].data) \in Nat /\ Len(f[2]) = Len(f[1]) + 4 + Len(items[2].data)
  BY ZenonT(60), <1>1, PartLength
<1> DEFINE x == Len(items[1].data)
           y == Len(items[2].data)
           g1 == Len(f[1])
           g2 == Len(f[2])
           g0 == Len(f[0])
<1>3. g0 = 0 /\ x \in Nat /\ g1 = g0 + 4 + x /\ y \in Nat /\ g2 = g1 + 4 + y
  BY <1>2
<1> HIDE DEF x, y, g1, g2, g0
<1>4. g2 = 8 + x + y
  BY <1>3
<1> QED
  BY <1>3, <1>4 DEF x, y, g2

LEMMA ThreeItems ==
  ASSUME NEW items, ItemsType(items), Len(items) = 3, NEW f, Parts(AllCoded(items), f)
  PROVE  /\ Len(f[2]) = 8 + Len(items[1].data) + Len(items[2].data)
         /\ Len(f[3]) = Len(f[2]) + 4 + Len(items[3].data)
         /\ Len(items[1].data) \in Nat /\ Len(items[2].data) \in Nat /\ Len(items[3].data) \in Nat
<1>1. 1 \in 1..Len(items) /\ 2 \in 1..Len(items) /\ 3 \in 1..Len(items) /\ 1 - 1 = 0 /\ 2 - 1 = 1 /\ 3 - 1 = 2
  OBVIOUS
<1>2. /\ Len(f[0]) = 0 /\ Len(items[1].data) \in Nat /\ Len(f[1]) = Len(f[0]) + 4 + Len(items[1].data)
      /\ Len(items[2].data) \in Nat /\ Len(f[2]) = Len(f[1]) + 4 + Len(items[2].data)
      /\ Len(items[3].data) \in Nat /\ Len(f[3]) = Len(f[2]) + 4 + Len(items[3].data)
  <2>1. /\ Len(f[0]) = 0 /\ Len(items[1].data) \in Nat /\ Len(f[1]) = Len(f[0]) + 4 + Len(items[1].data)
        /\ Len(items[2].data) \in Nat /\ Len(f[2]) = Len(f[1]) + 4 + Len(items[2].data)
    BY ZenonT(60), <1>1, PartLength
  <2>2. Len(items[3].data) \in Nat /\ Len(f[3]) = Len(f[2]) + 4 + Len(items[3].data)
    BY ZenonT(60), <1>1, PartLength
  <2> QED
    BY <2>1, <2>2
<1> DEFINE x == Len(items[1].data)
           y == Len(items[2].data)
           g1 == Len(f[1])
           g2 == Len(f[2])
           g0 == Len(f[0])
<1>3. g0 = 0 /\ x \in Nat /\ g1 = g0 + 4 + x /\ y \in Nat /\ g2 = g1 + 4 + y
  BY <1>2
<1> HIDE DEF x, y, g1, g2, g0
<1>4. g2 = 8 + x + y
  BY <1>3
<1> QED
  BY <1>2, <1>3, <1>4 DEF x, y, g2

\* What DecodeReply makes of a packet it has found items in.
LEMMA ReplyOf ==
  ASSUME NEW b, ~(Len(b) < 6), NEW items, ~(Len(items) < 2),
         DecodeCommonPacket(From(b, 7)) = [ok |-> TRUE, items |-> items],
         DecodeResponse(items[2].data).ok
  PROVE  DecodeReply(b) = [ok |-> TRUE, response |-> DecodeResponse(items[2].data),
                           items |-> From(items, 3)]
<1> DEFINE packet == DecodeCommonPacket(From(b, 7))
           response == DecodeResponse(items[2].data)
<1>1. packet.ok /\ packet.items = items
  OBVIOUS
<1> HIDE DEF packet
<1>2. DecodeReply(b) =
        IF ~packet.ok \/ Len(packet.items) < 2 THEN Err
        ELSE IF ~DecodeResponse(packet.items[2].data).ok THEN Err
             ELSE [ok |-> TRUE, response |-> DecodeResponse(packet.items[2].data),
                   items |-> From(packet.items, 3)]
  BY DEF DecodeReply, packet
<1> QED
  BY <1>1, <1>2

LEMMA ThirdOf ==
  ASSUME NEW S, NEW x \in S, NEW y \in S, NEW z \in S
  PROVE  SubSeq(<<x, y, z>>, 3, 3) = <<z>>
<1> DEFINE s == <<x, y, z>>
           t == <<z>>
<1>1. s[3] = z /\ t \in Seq(S) /\ Len(t) = 1 /\ t[1] = z
  OBVIOUS
<1> HIDE DEF s, t
<1>2. \A i \in 3..3 : s[i] \in S
  BY <1>1
<1>3. /\ SubSeq(s, 3, 3) \in Seq(S)
      /\ Len(SubSeq(s, 3, 3)) = IF 3 <= 3 THEN 3 - 3 + 1 ELSE 0
      /\ \A i \in 1..(3 - 3 + 1) : SubSeq(s, 3, 3)[i] = s[3 + i - 1]
  <2>1. 3 \in Int
    OBVIOUS
  <2> QED
    BY <1>2, <2>1, SubSeqProperties
<1>4. SubSeq(s, 3, 3) \in Seq(S) /\ Len(SubSeq(s, 3, 3)) = 1 /\ SubSeq(s, 3, 3)[1] = s[3]
  BY <1>3
<1>5. \A i \in 1..1 : i = 1
  OBVIOUS
<1>6. SubSeq(s, 3, 3) = t
  BY <1>1, <1>4, <1>5, SeqEqual
<1> QED
  BY <1>6 DEF s, t

\* What a reader makes of a reply of which n bytes have come.
ReplyFound(r, n, d) ==
  \/ d = Err
  \/ \E items : /\ d = [ok |-> TRUE, response |-> DecodeResponse(Response(r)), items |-> items]
                /\ items = SockaddrItemsOf(r) \/ n = Len(ReplyBytes(r)) - 20

LEMMA ReplyRead ==
  ASSUME NEW r, ReplyType(r)
  PROVE  /\ Over(ReplyBytes(r)) /\ Len(ReplyBytes(r)) \in Nat /\ Len(ReplyBytes(r)) <= 1100
         /\ \A n \in 0..Len(ReplyBytes(r)) :
              ReplyFound(r, n, DecodeReply(SubSeq(ReplyBytes(r), 1, n)))
<1> DEFINE items == ReplyItems(r)
           more  == SockaddrItemsOf(r)
           first == Item(NULL_ADDRESS, <<>>)
           second == Item(UNCONNECTED_MESSAGE, Response(r))
           bytes == ReplyBytes(r)
           N == Len(items)
<1>1. /\ ItemsType(items) /\ Fits16(N) /\ N \in {2, 3} /\ items[1] = first /\ items[2] = second
      /\ From(items, 3) = more
      /\ N = 3 => Len(items[3].data) = 16
  <2>1. ItemType(first) /\ ItemType(second)
    BY ReplyItemsAre
  <2>2. first \in Items /\ second \in Items
    BY <2>1 DEF ItemType, Items
  <2>3. Fits16(2) /\ Fits16(3)
    BY Small16
  <2>4. CASE more = <<>> /\ items = <<first, second>>
    <3> DEFINE two == <<first, second>>
    <3>1. two \in Seq(Items) /\ Len(two) = 2 /\ two[1] = first /\ two[2] = second
      BY <2>2
    <3>2. From(two, 3) = <<>>
      BY <2>2 DEF From
    <3> HIDE DEF two
    <3>3. \A i \in 1..2 : i = 1 \/ i = 2
      OBVIOUS
    <3>4. ItemsType(two)
      BY <2>1, <3>1, <3>3 DEF ItemsType
    <3>5. items = two /\ more = <<>>
      BY <2>4 DEF two
    <3> HIDE DEF first, second, items, more
    <3>6. N = 2
      BY <3>1, <3>5
    <3>7. ItemsType(items) /\ items[1] = first /\ items[2] = second /\ From(items, 3) = more
      BY <3>1, <3>2, <3>4, <3>5
    <3> HIDE DEF N
    <3>8. Fits16(N) /\ N \in {2, 3} /\ N # 3
      BY <2>3, <3>6
    <3> QED
      BY <3>7, <3>8 DEF N
  <2>5. ASSUME NEW s \in [ip : Nat, port : Nat], NEW third, third = Item(O2T_SOCKADDR_INFO, Sockaddr(s)),
               ItemType(third), more = <<third>>, items = <<first, second, third>>
        PROVE  /\ ItemsType(items) /\ Len(items) = 3 /\ items[1] = first /\ items[2] = second
               /\ From(items, 3) = more /\ Len(items[3].data) = 16
    <3> DEFINE three == <<first, second, third>>
    <3>0. third \in Items
      BY <2>5 DEF ItemType, Items
    <3>1. three \in Seq(Items) /\ Len(three) = 3 /\ three[1] = first /\ three[2] = second /\ three[3] = third
      BY <2>2, <3>0
    <3>2. From(three, 3) = <<third>>
      <4>1. From(three, 3) = SubSeq(three, 3, 3)
        BY <3>1 DEF From
      <4> HIDE DEF first, second
      <4>2. SubSeq(three, 3, 3) = <<third>>
        BY <2>2, <3>0, ThirdOf
      <4> QED
        BY <4>1, <4>2
    <3> HIDE DEF three
    <3>3. \A i \in 1..3 : i = 1 \/ i = 2 \/ i = 3
      OBVIOUS
    <3>4. ItemsType(three)
      BY <2>1, <2>5, <3>1, <3>3 DEF ItemsType
    <3>5. Len(third.data) = 16
      BY <2>5, SockaddrIs DEF Item
    <3>6. items = three /\ more = <<third>>
      BY <2>5 DEF three
    <3> QED
      BY <3>1, <3>2, <3>4, <3>5, <3>6
  <2>6. CASE \E s \in [ip : Nat, port : Nat] :
               LET third == Item(O2T_SOCKADDR_INFO, Sockaddr(s))
               IN  ItemType(third) /\ more = <<third>> /\ items = <<first, second, third>>
    <3>1. PICK s \in [ip : Nat, port : Nat] :
            LET third == Item(O2T_SOCKADDR_INFO, Sockaddr(s))
            IN  ItemType(third) /\ more = <<third>> /\ items = <<first, second, third>>
      BY <2>6
    <3> HIDE DEF items, more, first, second
    <3>2. /\ ItemsType(items) /\ Len(items) = 3 /\ items[1] = first /\ items[2] = second
          /\ From(items, 3) = more /\ Len(items[3].data) = 16
      BY <2>5, <3>1, Zenon
    <3> QED
      BY <2>3, <3>2
  <2> QED
    BY <2>4, <2>6, ReplyItemsAre
<1>2. bytes = SendRRData(items)
  BY DEF ReplyBytes, ReplyItems
<1>3. /\ Len(items[1].data) = 0 /\ items[2].data = Response(r)
      /\ Len(Response(r)) \in Nat /\ Len(Response(r)) <= 1050
      /\ DecodeResponse(Response(r)).ok
  <2>1. items[1].data = <<>> /\ items[2].data = Response(r)
    BY <1>1 DEF Item
  <2>2. /\ Len(Response(r)) \in Nat /\ Len(Response(r)) <= 1050
        /\ DecodeResponse(Response(r)).ok
    BY ResponseDecoded
  <2> QED
    BY <2>1, <2>2, NothingIs
<1> HIDE DEF items, more, first, second, bytes
<1>4. PICK f : /\ Parts(AllCoded(items), f)
               /\ Over(SendRRData(items))
               /\ Len(SendRRData(items)) = 8 + Len(f[Len(items)])
               /\ \A j \in 0..Len(items) : Len(f[j]) \in Nat
               /\ \A n \in 6..Len(SendRRData(items)) :
                    LET d == DecodeCommonPacket(From(SubSeq(SendRRData(items), 1, n), 7))
                    IN  IF n < 8 THEN d = Err ELSE Found(d, items, f, n - 8)
  BY <1>1, SendRead
<1> DEFINE size == Len(f[N])
           two  == Len(f[2])
           x    == Len(items[1].data)
           y    == Len(items[2].data)
<1>5. size \in Nat /\ size <= 1080 /\ (N = 3 => size = two + 20)
  <2>1. x = 0 /\ y \in Nat /\ y <= 1050
    BY <1>3
  <2>2. CASE N = 2
    <3>1. size = 8 + x + y
      BY <1>1, <1>4, <2>2, TwoItems
    <3> HIDE DEF size, x, y, N, two
    <3> QED
      BY <2>1, <2>2, <3>1
  <2>3. CASE N = 3
    <3> DEFINE z == Len(items[3].data)
    <3>1. two = 8 + x + y /\ size = two + 4 + z
      BY <1>1, <1>4, <2>3, ThreeItems
    <3>2. z = 16
      BY <1>1, <2>3
    <3> HIDE DEF size, x, y, N, two, z
    <3> QED
      BY <2>1, <3>1, <3>2
  <2> QED
    BY <1>1, <2>2, <2>3
<1>6. Over(bytes) /\ Len(bytes) = 8 + size
  BY <1>2, <1>4
<1> HIDE DEF x, y
<1>7. ASSUME NEW n \in 0..Len(bytes)
      PROVE  ReplyFound(r, n, DecodeReply(SubSeq(bytes, 1, n)))
  <2> DEFINE b == SubSeq(bytes, 1, n)
             d == DecodeCommonPacket(From(b, 7))
  <2>1. n \in Nat /\ n <= Len(bytes)
    BY <1>5, <1>6
  <2>2. Len(b) = n
    <3>1. RestOf(b, bytes, 0, n)
      BY <1>6, <2>1, RestStart
    <3> HIDE DEF b
    <3> QED
      BY <2>1, <3>1 DEF RestOf
  <2>3. CASE n < 6
    <3> HIDE DEF b
    <3>1. DecodeReply(b) = Err
      BY <2>2, <2>3 DEF DecodeReply
    <3> QED
      BY <3>1 DEF ReplyFound, b
  <2>4. CASE ~(n < 6)
    <3>1. n \in 6..Len(bytes)
      BY <1>5, <1>6, <2>1, <2>4
    <3>2. IF n < 8 THEN d = Err ELSE Found(d, items, f, n - 8)
      BY <1>2, <1>4, <3>1
    <3> HIDE DEF b, d
    <3>3. CASE d = Err
      <4>1. ~d.ok
        BY <3>3 DEF Err
      <4>2. DecodeReply(b) = Err
        BY <2>2, <2>4, <4>1 DEF DecodeReply, d
      <4> QED
        BY <4>2 DEF ReplyFound, b
    <3>4. CASE d # Err
      <4>1. PICK j \in 0..N : /\ d = [ok |-> TRUE, items |-> SubSeq(items, 1, j)]
                              /\ Len(f[j]) <= n - 8
                              /\ j = N \/ Len(f[j]) = n - 8
        BY <3>2, <3>4 DEF Found
      <4> DEFINE got == SubSeq(items, 1, j)
      <4>2. items \in Seq(Items) /\ N = Len(items) /\ N \in Nat
        BY <1>1 DEF ItemsType
      <4>3. j \in Nat /\ j <= N
        BY <4>1, <4>2
      <4>4. Len(got) = j /\ \A i \in 1..j : got[i] = items[i]
        <5>1. \A i \in 1..j : items[i] \in Items
          BY <4>2, <4>3, ElementOfSeq
        <5>2. /\ Len(SubSeq(items, 1, j)) = IF 1 <= j THEN j - 1 + 1 ELSE 0
              /\ \A i \in 1..(j - 1 + 1) : SubSeq(items, 1, j)[i] = items[1 + i - 1]
          BY <4>3, <5>1, SubSeqProperties
        <5>3. (IF 1 <= j THEN j - 1 + 1 ELSE 0) = j /\ j - 1 + 1 = j /\ \A i \in 1..j : 1 + i - 1 = i
          BY <4>3
        <5> QED
          BY <5>2, <5>3
      <4>5. CASE j < 2
        <5> HIDE DEF got
        <5>1. d.ok /\ d.items = got
          BY <4>1 DEF got
        <5>2. DecodeReply(b) = Err
          BY <2>2, <2>4, <4>4, <4>5, <5>1 DEF DecodeReply, d
        <5> QED
          BY <5>2 DEF ReplyFound, b
      <4>6. CASE ~(j < 2)
        <5>1. 2 \in 1..j
          BY <4>3, <4>6
        <5>2. got[2].data = Response(r)
          BY <1>3, <4>4, <5>1
        <5>3. DecodeReply(b) = [ok |-> TRUE, response |-> DecodeResponse(Response(r)),
                                items |-> From(got, 3)]
          <6>1. ~(Len(b) < 6) /\ ~(Len(got) < 2)
            BY <2>2, <2>4, <4>4, <4>6
          <6>2. DecodeCommonPacket(From(b, 7)) = [ok |-> TRUE, items |-> got]
            BY <4>1 DEF d
          <6>3. DecodeResponse(got[2].data).ok
            BY ZenonT(60), <1>3, <5>2
          <6> HIDE DEF got
          <6>4. DecodeReply(b) = [ok |-> TRUE, response |-> DecodeResponse(got[2].data),
                                  items |-> From(got, 3)]
            BY <6>1, <6>2, <6>3, ReplyOf
          <6> QED
            BY <5>2, <6>4
        <5>4. CASE j = N
          <6>1. got = items
            <7>1. SubSeq(items, 1, Len(items)) = items
              BY <4>2, SubSeqFull
            <7> QED
              BY <5>4, <7>1
          <6>2. From(got, 3) = more
            BY <1>1, <6>1
          <6> QED
            BY <5>3, <6>2 DEF ReplyFound, b, more
        <5>5. CASE j # N
          <6>1. N = 3 /\ j = 2
            <7> HIDE DEF N
            <7> QED
              BY <1>1, <4>3, <4>6, <5>5
          <6>2. two = n - 8 /\ size = two + 20
            BY <1>5, <4>1, <5>5, <6>1
          <6>3. n = Len(bytes) - 20
            <7> HIDE DEF two, size
            <7> QED
              BY <1>5, <1>6, <2>1, <6>2
          <6> QED
            BY <5>3, <6>3 DEF ReplyFound, b, bytes
        <5> QED
          BY <5>4, <5>5
      <4> QED
        BY <4>5, <4>6
    <3> QED
      BY <3>3, <3>4 DEF b
  <2> QED
    BY <2>3, <2>4
<1>8. Len(bytes) \in Nat /\ Len(bytes) <= 1100
  <2> HIDE DEF size
  <2> QED
    BY <1>5, <1>6
<1> QED
  BY <1>6, <1>7, <1>8 DEF bytes

\* The fields of a reply, and what forward_open may make of n bytes of it.
FieldsOf(r) ==
  [ok |-> TRUE, o2t_id |-> r.o2t_id, t2o_id |-> r.t2o_id, serial |-> SerialNumber,
   o2t_api |-> r.o2t_api, t2o_api |-> r.t2o_api, application |-> r.application]

OutcomeOf(c, r, n, o) ==
  \/ o = Err
  \/ r.status # 0 /\ o = [ok |-> FALSE, status |-> r.status, additional |-> r.additional]
  \/ /\ r.status = 0 /\ r.encaps_status = 0 /\ (Handle # 0 => r.handle = Handle)
     /\ \E items :
          /\ items = SockaddrItemsOf(r) \/ n = Len(ReplyBytes(r)) - 20
          /\ o = [ok |-> TRUE, reply |-> FieldsOf(r), destination |-> Destination(items),
                  timeout |-> r.t2o_api * 4 * 2^c.timeout_multiplier]

LEMMA ReplyDecoded ==
  ASSUME NEW c, NEW r, ReplyType(r), NEW n \in 0..Len(ReplyBytes(r))
  PROVE  OutcomeOf(c, r, n,
           Outcome(c, Encaps(SEND_RR_DATA, r.handle, r.encaps_status,
                             SubSeq(ReplyBytes(r), 1, n))))
<1> DEFINE bytes == ReplyBytes(r)
           data == SubSeq(bytes, 1, n)
           b == Encaps(SEND_RR_DATA, r.handle, r.encaps_status, data)
           o == Outcome(c, b)
           received == ReceiveReply(b, Handle)
           decoded == IF received.ok THEN DecodeReply(received.data) ELSE Err
<1>1. Over(bytes) /\ Len(bytes) \in Nat /\ Len(bytes) <= 1100
  BY ReplyRead
<1>2. n \in Nat /\ n <= Len(bytes) /\ n <= 1100
  BY <1>1
<1>3. Over(data) /\ Len(data) = n
  <2>1. RestOf(data, bytes, 0, n)
    BY <1>1, <1>2, RestStart
  <2> HIDE DEF data
  <2> QED
    BY <1>2, <2>1 DEF RestOf, Over
<1>4. ReplyFound(r, n, DecodeReply(data))
  BY ReplyRead
<1> HIDE DEF data
<1>5. HeaderType(SEND_RR_DATA, r.handle, r.encaps_status, data)
  <2>1. /\ r.handle \in Nat /\ Fits32(r.handle)
        /\ r.encaps_status \in Nat /\ Fits32(r.encaps_status)
    BY DEF ReplyType, Fits32
  <2>2. SEND_RR_DATA \in Nat /\ Fits16(SEND_RR_DATA)
    <3>1. SEND_RR_DATA \in Nat /\ SEND_RR_DATA <= 1100
      BY DEF SEND_RR_DATA
    <3> QED
      BY <3>1, Small16
  <2>3. Fits16(Len(data))
    BY <1>2, <1>3, Small16
  <2> QED
    BY <1>3, <2>1, <2>2, <2>3 DEF HeaderType
<1>6. received =
        IF r.encaps_status # 0 \/ (Handle # 0 /\ r.handle # Handle) THEN Err
        ELSE [ok |-> TRUE, command |-> SEND_RR_DATA, handle |-> r.handle,
              status |-> r.encaps_status, data |-> data]
  <2> DEFINE handle == r.handle
             status == r.encaps_status
             own == Handle
             command == SEND_RR_DATA
  <2>1. HeaderType(command, handle, status, data)
    BY <1>5
  <2> HIDE DEF handle, status, own, command
  <2>2. ReceiveReply(Encaps(command, handle, status, data), own) =
          IF status # 0 \/ (own # 0 /\ handle # own) THEN Err
          ELSE [ok |-> TRUE, command |-> command, handle |-> handle,
                status |-> status, data |-> data]
    BY <2>1, ReplyReceived
  <2> QED
    BY <2>2 DEF handle, status, own, command
<1>7. /\ DecodeResponse(Response(r)) =
           [ok |-> TRUE, status |-> r.status, additional |-> r.additional,
            data |-> IF r.status = 0 THEN Granted(r) ELSE <<>>]
      /\ DecodeForwardOpen(Granted(r)) = FieldsOf(r)
  BY ResponseDecoded, GrantedRead DEF FieldsOf
<1> HIDE DEF b, received
<1>8. o = IF ~decoded.ok THEN Err
          ELSE IF decoded.response.status # 0
          THEN [ok |-> FALSE, status |-> decoded.response.status,
                additional |-> decoded.response.additional]
          ELSE LET reply == DecodeForwardOpen(decoded.response.data)
               IN  IF ~reply.ok \/ BadSockaddr(decoded.items) THEN Err
                   ELSE [ok |-> TRUE, reply |-> reply,
                         destination |-> Destination(decoded.items),
                         timeout |-> reply.t2o_api * 4 * 2^c.timeout_multiplier]
  BY DEF Outcome, received
<1> HIDE DEF o, decoded
<1>9. CASE decoded = Err
  BY <1>8, <1>9 DEF Err, OutcomeOf, o, b, data, bytes
<1>10. CASE decoded # Err
  <2>1. received # Err
    BY <1>10 DEF decoded, Err
  <2>2. r.encaps_status = 0 /\ (Handle # 0 => r.handle = Handle)
    BY <1>6, <2>1
  <2>3. decoded = DecodeReply(data)
    BY <1>6, <2>1 DEF decoded
  <2>4. PICK items :
          /\ decoded = [ok |-> TRUE, response |-> DecodeResponse(Response(r)), items |-> items]
          /\ items = SockaddrItemsOf(r) \/ n = Len(bytes) - 20
    BY <1>4, <1>10, <2>3 DEF ReplyFound
  <2>5. decoded.ok /\ decoded.items = items /\ decoded.response = DecodeResponse(Response(r))
    BY <2>4
  <2>6. CASE r.status # 0
    <3>1. o = [ok |-> FALSE, status |-> r.status, additional |-> r.additional]
      BY <1>7, <1>8, <2>5, <2>6
    <3> QED
      BY <2>6, <3>1 DEF OutcomeOf, o, b, data, bytes
  <2>7. CASE r.status = 0
    <3>1. DecodeForwardOpen(decoded.response.data) = FieldsOf(r) /\ decoded.response.status = 0
      BY <1>7, <2>5, <2>7
    <3>2. FieldsOf(r).ok /\ FieldsOf(r).t2o_api = r.t2o_api
      BY DEF FieldsOf
    <3>3. \/ o = Err
          \/ o = [ok |-> TRUE, reply |-> FieldsOf(r), destination |-> Destination(items),
                  timeout |-> r.t2o_api * 4 * 2^c.timeout_multiplier]
      BY <1>8, <2>5, <3>1, <3>2
    <3> QED
      BY <2>2, <2>4, <2>7, <3>3 DEF OutcomeOf, o, b, data, bytes
  <2> QED
    BY <2>6, <2>7
<1> QED
  BY <1>9, <1>10

-----------------------------------------------------------------------------
(* Configurations *)

LEMMA LargerOf ==
  ASSUME NEW a \in Nat, NEW b \in Nat
  PROVE  /\ Max({a, b}) \in Nat /\ a <= Max({a, b}) /\ b <= Max({a, b})
         /\ Max({a, b}) = a \/ Max({a, b}) = b
<1>1. \E x \in {a, b} : \A y \in {a, b} : x >= y
  <2>1. CASE a >= b
    BY <2>1
  <2>2. CASE ~(a >= b)
    BY <2>2
  <2> QED
    BY <2>1, <2>2
<1>2. Max({a, b}) \in {a, b} /\ \A y \in {a, b} : Max({a, b}) >= y
  BY <1>1 DEF Max
<1> QED
  BY <1>2

LEMMA SmallerOf ==
  ASSUME NEW a \in Nat, NEW b \in Nat, a <= b
  PROVE  Min({a, b}) = a
<1>1. \E x \in {a, b} : \A y \in {a, b} : x <= y
  BY DEF Min
<1>2. Min({a, b}) \in {a, b} /\ \A y \in {a, b} : Min({a, b}) <= y
  BY <1>1 DEF Min
<1> QED
  BY <1>2

\* The sizes of a configuration that is not refused.
SizesOf(c, dir) ==
  /\ WireSize(c, dir) \in Nat /\ Fits16(WireSize(c, dir))
  /\ ~Large(c) => WireSize(c, dir) <= 511

LEMMA SizesFit ==
  ASSUME NEW c, c.o2t.size \in Nat, c.t2o.size \in Nat, ~Refused(c)
  PROVE  SizesOf(c, c.o2t) /\ SizesOf(c, c.t2o)
<1> DEFINE x == WireSize(c, c.o2t)
           y == WireSize(c, c.t2o)
           m == Max({x, y})
<1>1. x \in Nat /\ y \in Nat
  <2>1. \A n \in Nat : 2 + 4 + n \in Nat /\ 0 + 4 + n \in Nat /\ 2 + 0 + n \in Nat /\ 0 + 0 + n \in Nat
    OBVIOUS
  <2> QED
    BY <2>1 DEF WireSize
<1> HIDE DEF x, y
<1>2. m \in Nat /\ x <= m /\ y <= m
  BY <1>1, LargerOf
<1>3. LargestSize(c) = m
  BY DEF LargestSize, x, y
<1> HIDE DEF m
<1>4. ~(m > 65535) /\ (~Large(c) => ~(m > 511))
  BY <1>3 DEF Refused, Large
<1>5. Fits16(x) /\ Fits16(y)
  BY <1>1, <1>2, <1>4 DEF Fits16
<1>6. ~(m > 511) => x <= 511 /\ y <= 511
  BY <1>1, <1>2
<1> QED
  BY <1>1, <1>4, <1>5, <1>6 DEF SizesOf, x, y

-----------------------------------------------------------------------------
(* The packet of a request *)

\* Data that fits a packet with all that goes around it.
DataFits(n) == n \in Nat /\ n <= 62000

LEMMA PacketFits ==
  ASSUME NEW n, DataFits(n), NEW w \in Nat, w <= 4
  PROVE  Fits16(2 + 2 * w + n) /\ Fits16(18 + 2 * w + n)
BY DEF DataFits, Fits16

\* The target finds the service, the path and the data of a request again.
LEMMA BodyRead ==
  ASSUME NEW service \in Nat, NEW bits8 \in BOOLEAN, NEW data, Over(data), DataFits(Len(data))
  PROVE  Body(Packet(service, bits8, data)) =
           [service |-> service, path |-> [ok |-> TRUE, path |-> ManagerPath], data |-> data]
<1> DEFINE path    == EPath(ManagerPath, bits8)
           w       == IF bits8 THEN 2 ELSE 4
           request == Request(service, path, data)
           first   == Item(NULL_ADDRESS, <<>>)
           second  == Item(UNCONNECTED_MESSAGE, request)
           items   == <<first, second>>
           s       == SendRRData(items)
           b       == Packet(service, bits8, data)
           d       == DecodeCommonPacket(From(s, 7))
<1>1. /\ Over(path) /\ Len(path) = 2 * w /\ w \in Nat /\ w <= 255
      /\ DecodeEPath(path) = [ok |-> TRUE, path |-> ManagerPath]
  <2>1. 6 \in Nat /\ 6 <= 255 /\ 1 \in Nat /\ 1 <= 255
    OBVIOUS
  <2>2. /\ Over(path) /\ Len(path) = (IF bits8 THEN 4 ELSE 8)
        /\ DecodeEPath(path) = [ok |-> TRUE, path |-> ManagerPath]
    BY <2>1, PathDecoded DEF ManagerPath
  <2>3. (IF bits8 THEN 4 ELSE 8) = 2 * w /\ w \in Nat /\ w <= 255
    OBVIOUS
  <2> HIDE DEF path, w
  <2> QED
    BY <2>2, <2>3
<1>2. w <= 4
  OBVIOUS
<1> HIDE DEF path, w
<1>3. /\ Over(request) /\ Len(request) = 2 + Len(path) + Len(data) /\ Len(request) \in Nat
      /\ request[1] = service /\ request[2] = w
      /\ SubSeq(request, 3, 2 + 2 * w) = path /\ From(request, 3 + 2 * w) = data
  <2>1. RequestIs(request, service, path, w, data)
    BY <1>1, RequestRead
  <2> HIDE DEF request
  <2> QED
    BY <2>1 DEF RequestIs
<1> HIDE DEF request
<1>4. Fits16(Len(request)) /\ Len(request) = 2 + 2 * w + Len(data) /\ Fits16(18 + 2 * w + Len(data))
  <2>1. Len(request) = 2 + 2 * w + Len(data)
    BY <1>1, <1>3
  <2>2. Fits16(2 + 2 * w + Len(data)) /\ Fits16(18 + 2 * w + Len(data))
    BY <1>1, <1>2, PacketFits
  <2> QED
    BY <2>1, <2>2
<1>5. ItemType(first) /\ ItemType(second)
  <2>1. <<>> \in Seq(Nat) /\ Len(<<>>) = 0 /\ Fits16(0)
    BY Small16
  <2>2. ItemType(first)
    BY <2>1, Small16 DEF ItemType, Item
  <2>4. ItemType(second)
    BY <1>3, <1>4, Small16 DEF ItemType, Item, Over
  <2> QED
    BY <2>2, <2>4
<1>6. Len(first.data) = 0 /\ second.data = request
  BY EmptySeq DEF Item
<1> HIDE DEF first, second
<1>7. items \in Seq(Items) /\ Len(items) = 2 /\ items[1] = first /\ items[2] = second
  BY <1>5 DEF ItemType, Items
<1> HIDE DEF items
<1>8. ItemsType(items) /\ Fits16(Len(items))
  <2>1. \A i \in 1..2 : i = 1 \/ i = 2
    OBVIOUS
  <2>2. Fits16(2)
    BY Small16
  <2> QED
    BY <1>5, <1>7, <2>1, <2>2 DEF ItemsType
<1>9. PICK f : /\ Parts(AllCoded(items), f)
               /\ Over(s)
               /\ Len(s) = 8 + Len(f[Len(items)])
               /\ \A j \in 0..Len(items) : Len(f[j]) \in Nat
               /\ \A n \in 6..Len(s) :
                    LET e == DecodeCommonPacket(From(SubSeq(s, 1, n), 7))
                    IN  IF n < 8 THEN e = Err ELSE Found(e, items, f, n - 8)
  BY <1>8, SendRead
<1> DEFINE x  == Len(request)
           g1 == Len(f[1])
           g2 == Len(f[2])
           g0 == Len(f[0])
<1>10. g2 = 8 + x /\ g1 = 4 /\ g0 = 0 /\ x \in Nat
  <2>1. 1 \in 1..Len(items) /\ 1 - 1 = 0
    BY <1>7
  <2>2. g0 = 0 /\ g1 = g0 + 4 + Len(items[1].data)
    BY <1>8, <1>9, <2>1, PartLength
  <2>3. g2 = 8 + Len(items[1].data) + Len(items[2].data)
    BY <1>7, <1>8, <1>9, TwoItems
  <2>4. Len(items[1].data) = 0 /\ Len(items[2].data) = x
    BY <1>6, <1>7
  <2>5. x \in Nat
    BY <1>3
  <2> HIDE DEF x, g0, g1, g2
  <2> QED
    BY <2>2, <2>3, <2>4, <2>5
<1> HIDE DEF x, g0, g1
<1> DEFINE n == Len(s)
<1>11. n \in Nat /\ n = 8 + g2 /\ g2 \in Nat /\ n - 8 = g2 /\ Fits16(n)
  <2> DEFINE y == Len(data)
  <2>1. n = 8 + g2
    BY <1>7, <1>9
  <2>2. x = 2 + 2 * w + y /\ Fits16(18 + 2 * w + y) /\ y \in Nat
    BY <1>4 DEF x, DataFits
  <2> HIDE DEF n, g2, y
  <2>3. n = 18 + 2 * w + y
    BY <1>1, <1>10, <2>1, <2>2
  <2> QED
    BY <1>10, <2>1, <2>2, <2>3
<1> HIDE DEF s
<1>12. SubSeq(s, 1, n) = s
  BY <1>9, SubSeqFull DEF Over
<1>13. Found(d, items, f, g2)
  <2>1. n \in 6..Len(s) /\ ~(n < 8)
    <3>1. n = Len(s)
      OBVIOUS
    <3> HIDE DEF n, g2
    <3> QED
      BY <1>11, <3>1
  <2>2. LET e == DecodeCommonPacket(From(SubSeq(s, 1, n), 7))
        IN  IF n < 8 THEN e = Err ELSE Found(e, items, f, n - 8)
    BY <1>9, <2>1, Zenon
  <2> HIDE DEF n
  <2> QED
    BY <1>11, <1>12, <2>1, <2>2
<1> HIDE DEF d
<1>14. d = [ok |-> TRUE, items |-> items]
  <2>1. Len(f[Len(items)]) = g2
    BY <1>7
  <2>2. PICK j \in 0..Len(items) :
          /\ d = [ok |-> TRUE, items |-> SubSeq(items, 1, j)]
          /\ j = Len(items) \/ Len(f[j]) = g2
    <3> HIDE DEF g2
    <3>1. ~(g2 < Len(f[Len(items)]))
      BY <1>11, <2>1
    <3> QED
      BY <1>13, <3>1, Zenon DEF Found
  <2>3. j = Len(items)
    <3>1. j \in 0..2
      BY <1>7
    <3>2. j = 0 \/ j = 1 \/ j = 2
      BY <3>1
    <3>3. Len(f[0]) # g2 /\ Len(f[1]) # g2
      <4>1. Len(f[0]) = g0 /\ Len(f[1]) = g1
        BY DEF g0, g1
      <4> HIDE DEF g2
      <4> QED
        BY <1>10, <4>1
    <3> HIDE DEF g2
    <3> QED
      BY <1>7, <2>2, <3>2, <3>3
  <2>4. SubSeq(items, 1, Len(items)) = items
    BY <1>7, SubSeqFull
  <2> QED
    BY <2>2, <2>3, <2>4
<1>15. DecodeEncaps(b) = [ok |-> TRUE, command |-> SEND_RR_DATA, handle |-> Handle,
                          status |-> 0, data |-> s]
  <2>1. HeaderType(SEND_RR_DATA, Handle, 0, s)
    <3>1. SEND_RR_DATA \in Nat /\ SEND_RR_DATA <= 1100
      BY DEF SEND_RR_DATA
    <3>2. Fits16(SEND_RR_DATA) /\ 0 \in Nat /\ Fits32(0)
      BY <3>1, Small16 DEF Fits32
    <3>3. Fits16(Len(s))
      BY <1>11
    <3> QED
      BY <1>9, <3>1, <3>2, <3>3, ConstantsFit DEF HeaderType
  <2>2. b = Encaps(SEND_RR_DATA, Handle, 0, s)
    BY DEF Packet, s, items, first, second, request, path
  <2> DEFINE command == SEND_RR_DATA
             handle == Handle
             status == 0
  <2>3. HeaderType(command, handle, status, s) /\ b = Encaps(command, handle, status, s)
    BY <2>1, <2>2
  <2> HIDE DEF command, handle, status, b
  <2>4. DecodeEncaps(b) = [ok |-> TRUE, command |-> command, handle |-> handle,
                           status |-> status, data |-> s]
    BY <2>3, EncapsRead
  <2> QED
    BY <2>4 DEF command, handle, status
<1> HIDE DEF b
<1>16. DecodeCommonPacket(From(DecodeEncaps(b).data, 7)).items[2].data = request
  <2>1. DecodeEncaps(b).data = s
    BY <1>15
  <2>2. d.items = items
    BY <1>14
  <2>3. items[2].data = request
    BY <1>6, <1>7
  <2> QED
    BY <2>1, <2>2, <2>3 DEF d
<1>17. Body(b) = [service |-> request[1],
                  path |-> DecodeEPath(SubSeq(request, 3, 2 + 2 * request[2])),
                  data |-> From(request, 3 + 2 * request[2])]
  BY <1>16 DEF Body
<1>18. Body(b) = [service |-> service, path |-> [ok |-> TRUE, path |-> ManagerPath], data |-> data]
  BY <1>1, <1>3, <1>17
<1> QED
  BY <1>18 DEF b

\* The bytes of the paths.
LEMMA PathsFit ==
  /\ MaxPath \in Nat
  /\ \A n \in Nat, x \in 0..600 : n <= MaxPath => DataFits(x + n)
BY DEF MaxPath, DataFits

LEMMA FullPathIs ==
  ASSUME NEW c, ConfigType(c), ~Refused(c)
  PROVE  Over(FullPath(c)) /\ Len(FullPath(c)) \in Nat /\ Len(FullPath(c)) <= MaxPath
<1>1. Route(c.route).ok
  BY DEF Refused
<1>2. c.route \in Seq(Tokens) /\ c.path \in Seq(Segments)
  BY DEF ConfigType
<1>3. Over(Route(c.route).bytes)
  BY <1>1, <1>2, RouteIs
<1>4. Over(ConnectionPath(c.path))
  BY <1>2, ConnectionPathIs
<1>5. Over(FullPath(c))
  BY SMTT(60), <1>3, <1>4, Both DEF FullPath
<1>6. Len(FullPath(c)) <= MaxPath
  BY SMTT(60), <1>1 DEF ConfigType
<1> QED
  BY <1>5, <1>6, LenProperties DEF Over

\* The configuration data as a segment.
DataSegment(n) ==
  IF n = 0 THEN <<>>
  ELSE <<128, U8((n + 1) \div 2)>> \o DataOf(n) \o Zeros(2 * ((n + 1) \div 2) - n)

LEMMA DataSegmentIs ==
  ASSUME NEW n \in Nat, n <= 510
  PROVE  Over(DataSegment(n)) /\ Len(DataSegment(n)) \in 0..512
<1> DEFINE w == (n + 1) \div 2
           h == <<128, U8(w)>>
           d == DataOf(n)
           z == Zeros(2 * w - n)
<1>1. w \in Nat /\ 2 * w - n \in Nat /\ 2 * w <= 510
  OBVIOUS
<1>2. U8(w) \in Nat /\ \A i \in 1..n : U8(i) \in Nat
  BY <1>1 DEF U8
<1>3. Over(h) /\ Len(h) = 2
  <2>1. 128 \in Nat
    OBVIOUS
  <2> HIDE DEF w
  <2> QED
    BY <1>2, <2>1 DEF Over
<1>4. Over(d) /\ Len(d) = n
  BY <1>2 DEF DataOf, Over
<1>5. Over(z) /\ Len(z) = 2 * w - n
  <2> HIDE DEF w
  <2> QED
    BY <1>1, ZerosAre
<1>6. DataSegment(n) = IF n = 0 THEN <<>> ELSE Then(Then(h, d), z)
  BY DEF DataSegment, Then
<1> HIDE DEF w, h, d, z
<1>7. Over(Then(h, d)) /\ Len(Then(h, d)) = Len(h) + Len(d)
  BY ZenonT(60), <1>3, <1>4, Joined
<1>8. Over(Then(Then(h, d), z)) /\ Len(Then(Then(h, d), z)) = Len(Then(h, d)) + Len(z)
  BY ZenonT(60), <1>5, <1>7, Joined
<1>9. Over(Then(Then(h, d), z)) /\ Len(Then(Then(h, d), z)) \in 0..512
  BY <1>1, <1>3, <1>4, <1>5, <1>7, <1>8
<1>10. CASE n = 0
  <2>1. DataSegment(n) = <<>> /\ 0 \in 0..512
    BY <1>6, <1>10
  <2> QED
    BY <2>1, NothingIs
<1>11. CASE n # 0
  BY ZenonT(60), <1>6, <1>9, <1>11
<1> QED
  BY ZenonT(60), <1>10, <1>11

LEMMA EncodedPathIs ==
  ASSUME NEW c, ConfigType(c), ~Refused(c)
  PROVE  /\ Over(EncodedPath(c)) /\ Len(EncodedPath(c)) \in Nat
         /\ \A x \in 0..80 : DataFits(x + Len(EncodedPath(c)))
<1> DEFINE p == FullPath(c)
           d == DataSegment(c.config_data)
           n == c.config_data
<1>1. n \in Nat /\ n <= 510
  BY SMTT(60) DEF ConfigType, Refused, MaxConfigData
<1>2. EncodedPath(c) = Then(p, d)
  BY DEF EncodedPath, DataSegment, Then
<1>3. Over(p) /\ Len(p) \in Nat /\ Len(p) <= MaxPath
  BY SMTT(60), FullPathIs
<1>4. Over(d) /\ Len(d) \in 0..512
  <2> HIDE DEF n
  <2>1. Over(DataSegment(n)) /\ Len(DataSegment(n)) \in 0..512
    BY ZenonT(60), <1>1, DataSegmentIs
  <2> QED
    BY ZenonT(60), <2>1 DEF n
<1> HIDE DEF p, d, n
<1>5. Over(Then(p, d)) /\ Len(Then(p, d)) = Len(p) + Len(d)
  BY ZenonT(60), <1>3, <1>4, Joined
<1>6. ASSUME NEW x \in 0..80
      PROVE  DataFits(x + Len(Then(p, d)))
  <2> DEFINE l == Len(p)
             m == Len(d)
             t == Len(Then(p, d))
             k == x + m
  <2>1. m \in 0..512 /\ l \in Nat /\ l <= MaxPath /\ t = l + m
    BY ZenonT(60), <1>3, <1>4, <1>5
  <2> HIDE DEF l, m, t
  <2>3. k \in 0..600 /\ x + t = k + l
    BY <2>1
  <2> HIDE DEF k
  <2>2. DataFits(k + l)
    BY ZenonT(60), <2>1, <2>3, PathsFit
  <2> QED
    BY SMTT(60), <2>2, <2>3 DEF t
<1>7. Len(Then(p, d)) \in Nat
  BY <1>5, LenProperties DEF Over
<1> QED
  BY <1>2, <1>5, <1>6, <1>7

-----------------------------------------------------------------------------
(* The Forward Open request *)

\* An interval in its field: whole microseconds if they fit.
MicrosAre(rpi) ==
  /\ Over(Micros(rpi)) /\ Len(Micros(rpi)) = 4
  /\ rpi \div 1000 \in Nat
  /\ Fits32(rpi \div 1000) => Micros(rpi) = Le32(rpi \div 1000)

LEMMA MicrosIs ==
  ASSUME NEW rpi \in Nat
  PROVE  MicrosAre(rpi)
<1> DEFINE us == rpi \div 1000
           all == <<255, 255, 255, 255>>
<1>1. us \in Nat
  OBVIOUS
<1>2. Over(all) /\ Len(all) = 4
  BY DEF Over
<1>3. Micros(rpi) = IF Fits32(us) THEN Le32(us) ELSE all
  BY DEF Micros
<1> HIDE DEF us, all
<1>4. Over(Le32(us)) /\ Len(Le32(us)) = 4
  BY <1>1, Le32Is
<1>5. /\ Over(Micros(rpi)) /\ Len(Micros(rpi)) = 4
      /\ Fits32(us) => Micros(rpi) = Le32(us)
  BY <1>2, <1>3, <1>4
<1> QED
  BY <1>1, <1>5 DEF MicrosAre, us

\* A direction's parameters in the form the sizes ask for.
DirectionIs(c, dir) ==
  LET b == NetworkParams(ParamsOf(c, dir), Large(c))
  IN  /\ Over(b) /\ Len(b) = (IF Large(c) THEN 4 ELSE 2)
      /\ ReadNetworkParams(b, Large(c)) = ParamsOf(c, dir)
      /\ MicrosAre(dir.rpi)

LEMMA DirectionRead ==
  ASSUME NEW c, NEW dir \in Directions, SizesOf(c, dir)
  PROVE  DirectionIs(c, dir)
<1> DEFINE size == WireSize(c, dir)
           large == Large(c)
           p == [type |-> dir.type, priority |-> dir.priority, variable |-> dir.variable,
                 size |-> size]
<1>1. /\ dir.type \in 0..3 /\ dir.priority \in 0..3 /\ dir.variable \in BOOLEAN
      /\ MicrosAre(dir.rpi)
  BY MicrosIs DEF Directions
<1>2. size \in Nat /\ Fits16(size) /\ (~large => size <= 511)
  BY DEF SizesOf
<1>3. large \in BOOLEAN
  BY DEF Large
<1>4. ParamsOf(c, dir) = p
  BY DEF ParamsOf
<1> HIDE DEF size, large
<1>5. p \in [type : 0..3, priority : 0..3, variable : BOOLEAN, size : Nat] /\ p.size = size
  BY <1>1, <1>2
<1> HIDE DEF p
<1>6. /\ Over(NetworkParams(p, large)) /\ Len(NetworkParams(p, large)) = IF large THEN 4 ELSE 2
      /\ ReadNetworkParams(NetworkParams(p, large), large) = p
  BY <1>2, <1>3, <1>5, ParamsRead
<1> QED
  BY <1>1, <1>4, <1>6 DEF DirectionIs, large

LEMMA ConfigParts ==
  ASSUME NEW c, ConfigType(c), ~Refused(c)
  PROVE  /\ DirectionIs(c, c.o2t) /\ DirectionIs(c, c.t2o)
         /\ c.timeout_multiplier \in Nat /\ c.class \in 0..1 /\ c.trigger \in 0..2
         /\ Large(c) \in BOOLEAN
<1>1. /\ c.o2t \in Directions /\ c.t2o \in Directions /\ c.timeout_multiplier \in Nat
      /\ c.trigger \in 0..2
  BY DEF ConfigType
<1>2. c.class \in 0..1
  BY DEF Refused
<1>3. c.o2t.size \in Nat /\ c.t2o.size \in Nat
  BY <1>1 DEF Directions
<1>4. SizesOf(c, c.o2t) /\ SizesOf(c, c.t2o)
  BY <1>3, SizesFit
<1>5. Large(c) \in BOOLEAN
  BY DEF Large
<1> QED
  BY <1>1, <1>2, <1>4, <1>5, DirectionRead

LEMMA TransportRead ==
  ASSUME NEW class \in 0..1, NEW trigger \in 0..2
  PROVE  ReadTransport(trigger * 16 + class) =
           [class |-> class, trigger |-> trigger, server |-> FALSE]
<1> DEFINE b == trigger * 16 + class
<1>1. b \in Nat /\ b % 16 = class /\ b \div 16 = trigger /\ ~(b >= 128) /\ trigger % 8 = trigger
  OBVIOUS
<1>2. Min({class, 3}) = class
  <2>1. class \in Nat /\ 3 \in Nat /\ class <= 3
    OBVIOUS
  <2> QED
    BY <2>1, SmallerOf
<1>3. (IF trigger \in {1, 2} THEN trigger ELSE 0) = trigger
  OBVIOUS
<1> HIDE DEF b
<1>4. ReadTransport(b) = [class |-> class, trigger |-> trigger, server |-> FALSE]
  <2> DEFINE x == Min({b % 16, 3})
             y == LET t == (b \div 16) % 8 IN IF t \in {1, 2} THEN t ELSE 0
             z == b >= 128
  <2>1. x = class /\ y = trigger /\ z = FALSE
    BY <1>1, <1>2, <1>3
  <2>2. ReadTransport(b) = [class |-> x, trigger |-> y, server |-> z]
    BY DEF ReadTransport
  <2> HIDE DEF x, y, z
  <2> QED
    BY <2>1, <2>2
<1> QED
  BY <1>4 DEF b

\* What the target has read of a Forward Open for c.
OpenService(c) == IF Large(c) THEN LARGE_FORWARD_OPEN ELSE FORWARD_OPEN
OpenSeen(c, s) ==
  /\ s.service = OpenService(c) /\ s.path = [ok |-> TRUE, path |-> ManagerPath]
  /\ s.serial = SerialNumber /\ s.multiplier = c.timeout_multiplier
  /\ s.o2t = ParamsOf(c, c.o2t) /\ s.t2o = ParamsOf(c, c.t2o)
  /\ Fits32(c.o2t.rpi \div 1000) => s.o2t_rpi = c.o2t.rpi \div 1000
  /\ Fits32(c.t2o.rpi \div 1000) => s.t2o_rpi = c.t2o.rpi \div 1000
  /\ s.transport = [class |-> c.class, trigger |-> c.trigger, server |-> FALSE]

LEMMA OpenRequestRead ==
  ASSUME NEW c, ConfigType(c), ~Refused(c)
  PROVE  /\ Over(OpenRequest(c)) /\ DataFits(Len(OpenRequest(c)))
         /\ OpenSeen(c, ReadOpen([service |-> OpenService(c),
                                  path |-> [ok |-> TRUE, path |-> ManagerPath],
                                  data |-> OpenRequest(c)]))
<1> DEFINE n     == IF Large(c) THEN 4 ELSE 2
           rest  == Len(EncodedPath(c))
           whole == OpenRequest(c)
           p1    == <<10, 5>>
           p2    == Le32(IF c.o2t.type = Multicast THEN ConnectionId ELSE 0)
           p3    == Le32(IF c.t2o.type = PointToPoint THEN ConnectionId ELSE 0)
           p4    == Le16(SerialNumber)
           p5    == Originator
           p6    == <<c.timeout_multiplier, 0, 0, 0>>
           p7    == Micros(c.o2t.rpi)
           p8    == NetworkParams(ParamsOf(c, c.o2t), Large(c))
           p9    == Micros(c.t2o.rpi)
           p10   == NetworkParams(ParamsOf(c, c.t2o), Large(c))
           p11   == <<Transport(c), PathSize(EncodedPath(c))>>
           p12   == EncodedPath(c)
           seqs  == <<p1, p2, p3, p4, p5, p6, p7, p8, p9, p10, p11, p12>>
<1>30. /\ 10 \in Nat /\ 5 \in Nat /\ 0 \in Nat /\ c.timeout_multiplier \in Nat
       /\ Transport(c) \in Nat /\ PathSize(EncodedPath(c)) \in Nat
  <2>1. c.timeout_multiplier \in Nat /\ c.class \in 0..1 /\ c.trigger \in 0..2
    BY ConfigParts
  <2>2. Transport(c) \in Nat
    BY <2>1 DEF Transport
  <2>3. rest \in Nat
    BY EncodedPathIs
  <2> HIDE DEF rest
  <2>4. U8((rest + 1) \div 2) \in Nat
    BY <2>3 DEF U8
  <2>5. PathSize(EncodedPath(c)) \in Nat
    BY <2>4 DEF PathSize, rest
  <2>6. 10 \in Nat /\ 5 \in Nat /\ 0 \in Nat
    OBVIOUS
  <2> QED
    BY <2>1, <2>2, <2>5, <2>6
<1>31. /\ (IF c.o2t.type = Multicast THEN ConnectionId ELSE 0) \in Nat
       /\ (IF c.t2o.type = PointToPoint THEN ConnectionId ELSE 0) \in Nat
  BY ConstantsFit
<1>32. /\ Over(p8) /\ Len(p8) = n /\ Over(p10) /\ Len(p10) = n
       /\ ReadNetworkParams(p8, Large(c)) = ParamsOf(c, c.o2t)
       /\ ReadNetworkParams(p10, Large(c)) = ParamsOf(c, c.t2o)
  BY ConfigParts DEF DirectionIs
<1>35. MicrosAre(c.o2t.rpi) /\ MicrosAre(c.t2o.rpi)
  BY ConfigParts DEF DirectionIs
<1>33. Over(EncodedPath(c)) /\ Len(EncodedPath(c)) = rest /\ rest \in Nat
       /\ \A x \in 0..80 : DataFits(x + rest)
  BY EncodedPathIs
<1>34. n \in {2, 4} /\ n = (IF Large(c) THEN 4 ELSE 2)
  OBVIOUS
<1> HIDE DEF n, rest
<1>1. /\ Over(p1) /\ Len(p1) = 2
      /\ Over(p2) /\ Len(p2) = 4
      /\ Over(p3) /\ Len(p3) = 4
      /\ Over(p4) /\ Len(p4) = 2
      /\ Over(p5) /\ Len(p5) = 6
      /\ Over(p6) /\ Len(p6) = 4
      /\ Over(p7) /\ Len(p7) = 4
      /\ Over(p8) /\ Len(p8) = n
      /\ Over(p9) /\ Len(p9) = 4
      /\ Over(p10) /\ Len(p10) = n
      /\ Over(p11) /\ Len(p11) = 2
      /\ Over(p12) /\ Len(p12) = rest
  <2>1. Over(p1) /\ Len(p1) = 2
    BY <1>30 DEF Over
  <2>2. Over(p2) /\ Len(p2) = 4
    BY <1>31, Le32Is
  <2>3. Over(p3) /\ Len(p3) = 4
    BY <1>31, Le32Is
  <2>4. Over(p4) /\ Len(p4) = 2
    BY ConstantsFit, Le16Is
  <2>5. Over(p5) /\ Len(p5) = 6
    BY ZerosAre DEF Originator
  <2>6. Over(p6) /\ Len(p6) = 4
    BY <1>30 DEF Over
  <2>7. Over(p7) /\ Len(p7) = 4
    BY <1>35 DEF MicrosAre
  <2>8. Over(p8) /\ Len(p8) = n
    BY <1>32
  <2>9. Over(p9) /\ Len(p9) = 4
    BY <1>35 DEF MicrosAre
  <2>10. Over(p10) /\ Len(p10) = n
    BY <1>32
  <2>11. Over(p11) /\ Len(p11) = 2
    BY <1>30 DEF Over
  <2>12. Over(p12) /\ Len(p12) = rest
    BY <1>33
  <2> HIDE DEF p1, p2, p3, p4, p5, p6, p7, p8, p9, p10, p11, p12
  <2> QED
    BY <2>1, <2>2, <2>3, <2>4, <2>5, <2>6, <2>7, <2>8, <2>9, <2>10, <2>11, <2>12
<1>2. whole = Then(Then(Then(Then(Then(Then(Then(Then(Then(Then(Then(p1, p2), p3), p4), p5), p6), p7), p8), p9), p10), p11), p12)
  BY DEF OpenRequest, Then
<1> HIDE DEF whole, p1, p2, p3, p4, p5, p6, p7, p8, p9, p10, p11, p12
<1>3. seqs \in Seq(Seq(Nat)) /\ Len(seqs) = 12
  BY <1>1 DEF Over
<1>4. /\ seqs[1] = p1
      /\ seqs[2] = p2
      /\ seqs[3] = p3
      /\ seqs[4] = p4
      /\ seqs[5] = p5
      /\ seqs[6] = p6
      /\ seqs[7] = p7
      /\ seqs[8] = p8
      /\ seqs[9] = p9
      /\ seqs[10] = p10
      /\ seqs[11] = p11
      /\ seqs[12] = p12
  OBVIOUS
<1> HIDE DEF seqs
<1>5. PICK f : Row(seqs, f)
  BY <1>3, RowExists
<1>6. /\ 1 \in 1..Len(seqs) /\ 1 - 1 = 0
      /\ 2 \in 1..Len(seqs) /\ 2 - 1 = 1
      /\ 3 \in 1..Len(seqs) /\ 3 - 1 = 2
      /\ 4 \in 1..Len(seqs) /\ 4 - 1 = 3
      /\ 5 \in 1..Len(seqs) /\ 5 - 1 = 4
      /\ 6 \in 1..Len(seqs) /\ 6 - 1 = 5
      /\ 7 \in 1..Len(seqs) /\ 7 - 1 = 6
      /\ 8 \in 1..Len(seqs) /\ 8 - 1 = 7
      /\ 9 \in 1..Len(seqs) /\ 9 - 1 = 8
      /\ 10 \in 1..Len(seqs) /\ 10 - 1 = 9
      /\ 11 \in 1..Len(seqs) /\ 11 - 1 = 10
      /\ 12 \in 1..Len(seqs) /\ 12 - 1 = 11
  BY <1>3
<1>7. /\ \A k \in 1..Len(seqs) : f[k] = Then(f[k - 1], seqs[k])
      /\ \A k \in 1..Len(seqs) : Len(f[k]) = Len(f[k - 1]) + Len(seqs[k])
      /\ \A k \in 1..Len(seqs) : Holds(f[Len(seqs)], Len(f[k - 1]) + 1, seqs[k])
      /\ f[0] = <<>> /\ Len(f[0]) = 0 /\ Over(f[12])
  BY <1>3, <1>5 DEF Row
<1>8. /\ f[1] = Then(f[0], p1)
      /\ f[2] = Then(f[1], p2)
      /\ f[3] = Then(f[2], p3)
      /\ f[4] = Then(f[3], p4)
      /\ f[5] = Then(f[4], p5)
      /\ f[6] = Then(f[5], p6)
      /\ f[7] = Then(f[6], p7)
      /\ f[8] = Then(f[7], p8)
      /\ f[9] = Then(f[8], p9)
      /\ f[10] = Then(f[9], p10)
      /\ f[11] = Then(f[10], p11)
      /\ f[12] = Then(f[11], p12)
  BY ZenonT(60), <1>4, <1>6, <1>7
<1>9. f[12] = whole
  BY <1>1, <1>2, <1>7, <1>8, NothingIs
<1>10. /\ Len(f[1]) = Len(f[0]) + 2
       /\ Len(f[2]) = Len(f[1]) + 4
       /\ Len(f[3]) = Len(f[2]) + 4
       /\ Len(f[4]) = Len(f[3]) + 2
       /\ Len(f[5]) = Len(f[4]) + 6
       /\ Len(f[6]) = Len(f[5]) + 4
       /\ Len(f[7]) = Len(f[6]) + 4
       /\ Len(f[8]) = Len(f[7]) + n
       /\ Len(f[9]) = Len(f[8]) + 4
       /\ Len(f[10]) = Len(f[9]) + n
       /\ Len(f[11]) = Len(f[10]) + 2
       /\ Len(f[12]) = Len(f[11]) + rest
  BY ZenonT(60), <1>1, <1>4, <1>6, <1>7
<1>11. /\ Len(f[1]) = 2 /\ Len(f[2]) = 6 /\ Len(f[3]) = 10 /\ Len(f[4]) = 12
       /\ Len(f[5]) = 18 /\ Len(f[6]) = 22 /\ Len(f[7]) = 26 /\ Len(f[8]) = 26 + n
       /\ Len(f[9]) = 30 + n /\ Len(f[10]) = 30 + 2 * n /\ Len(f[11]) = 32 + 2 * n
       /\ Len(f[12]) = 32 + 2 * n + rest
  <2>0. Len(f[0]) = 0
    BY <1>7
  <2>1. n \in Nat /\ rest \in Nat
    BY <1>33, <1>34
  <2>2. /\ Len(f[1]) = 2 /\ Len(f[2]) = 6 /\ Len(f[3]) = 10 /\ Len(f[4]) = 12
        /\ Len(f[5]) = 18 /\ Len(f[6]) = 22 /\ Len(f[7]) = 26
    BY <1>10, <2>0
  <2>3. /\ Len(f[8]) = 26 + n /\ Len(f[9]) = 30 + n
        /\ Len(f[10]) = 30 + 2 * n /\ Len(f[11]) = 32 + 2 * n
    <3>1. CASE n = 2
      <4>1. /\ Len(f[8]) = Len(f[7]) + 2 /\ Len(f[9]) = Len(f[8]) + 4
            /\ Len(f[10]) = Len(f[9]) + 2 /\ Len(f[11]) = Len(f[10]) + 2 /\ Len(f[7]) = 26
        BY <1>10, <2>2, <3>1
      <4>2. Len(f[8]) = 28 /\ Len(f[9]) = 32 /\ Len(f[10]) = 34 /\ Len(f[11]) = 36
        BY <4>1
      <4>3. 26 + n = 28 /\ 30 + n = 32 /\ 30 + 2 * n = 34 /\ 32 + 2 * n = 36
        BY <3>1
      <4> QED
        BY <4>2, <4>3
    <3>2. CASE n = 4
      <4>1. /\ Len(f[8]) = Len(f[7]) + 4 /\ Len(f[9]) = Len(f[8]) + 4
            /\ Len(f[10]) = Len(f[9]) + 4 /\ Len(f[11]) = Len(f[10]) + 2 /\ Len(f[7]) = 26
        BY <1>10, <2>2, <3>2
      <4>2. Len(f[8]) = 30 /\ Len(f[9]) = 34 /\ Len(f[10]) = 38 /\ Len(f[11]) = 40
        BY <4>1
      <4>3. 26 + n = 30 /\ 30 + n = 34 /\ 30 + 2 * n = 38 /\ 32 + 2 * n = 40
        BY <3>2
      <4> QED
        BY <4>2, <4>3
    <3> QED
      BY <1>34, <3>1, <3>2
  <2>5. Len(f[12]) = 32 + 2 * n + rest
    BY <1>10, <2>1, <2>3
  <2> QED
    BY <2>2, <2>3, <2>5
<1>12. /\ Holds(whole, Len(f[3]) + 1, p4) /\ Holds(whole, Len(f[5]) + 1, p6)
       /\ Holds(whole, Len(f[6]) + 1, p7) /\ Holds(whole, Len(f[7]) + 1, p8)
       /\ Holds(whole, Len(f[8]) + 1, p9) /\ Holds(whole, Len(f[9]) + 1, p10)
       /\ Holds(whole, Len(f[10]) + 1, p11)
  BY <1>3, <1>4, <1>6, <1>7, <1>9
<1>13. /\ Holds(whole, 11, p4) /\ Holds(whole, 19, p6) /\ Holds(whole, 23, p7)
       /\ Holds(whole, 27, p8) /\ Holds(whole, 27 + n, p9) /\ Holds(whole, 31 + n, p10)
       /\ Holds(whole, 31 + 2 * n, p11)
  <2>1. /\ Len(f[3]) + 1 = 11 /\ Len(f[5]) + 1 = 19 /\ Len(f[6]) + 1 = 23 /\ Len(f[7]) + 1 = 27
        /\ Len(f[8]) + 1 = 27 + n /\ Len(f[9]) + 1 = 31 + n /\ Len(f[10]) + 1 = 31 + 2 * n
    BY <1>11, <1>34
  <2> QED
    BY <1>12, <2>1
<1>14. Over(whole) /\ Len(whole) = 32 + 2 * n + rest
  BY <1>7, <1>9, <1>11
<1>15. DataFits(Len(whole))
  <2>1. 32 + 2 * n \in 0..80
    BY <1>34
  <2>2. DataFits((32 + 2 * n) + rest)
    BY <1>33, <2>1
  <2> QED
    BY <1>14, <2>2
<1>16. Get16(whole, 11) = SerialNumber
  <2>1. 11 \in Nat
    OBVIOUS
  <2> QED
    BY <1>13, <1>14, <2>1, ConstantsFit, Read16 DEF p4
<1>17. whole[19] = c.timeout_multiplier
  <2>1. Len(p6) = 4 /\ p6[1] = c.timeout_multiplier
    BY DEF p6
  <2>2. 1 \in 1..Len(p6) /\ 19 + 1 - 1 = 19
    BY <2>1
  <2> QED
    BY <1>13, <2>1, <2>2 DEF Holds
<1>18. ASSUME Fits32(c.o2t.rpi \div 1000) PROVE Get32(whole, 23) = c.o2t.rpi \div 1000
  <2> DEFINE v == c.o2t.rpi \div 1000
  <2>1. 23 \in Nat /\ v \in Nat /\ Fits32(v) /\ Holds(whole, 23, Le32(v))
    BY <1>13, <1>18, <1>35 DEF p7, MicrosAre
  <2> HIDE DEF v
  <2>2. Get32(whole, 23) = v
    BY <1>14, <2>1, Read32
  <2> QED
    BY <2>2 DEF v
<1>19. ASSUME Fits32(c.t2o.rpi \div 1000) PROVE Get32(whole, 27 + n) = c.t2o.rpi \div 1000
  <2> DEFINE v == c.t2o.rpi \div 1000
             i == 27 + n
  <2>1. i \in Nat /\ i >= 1 /\ v \in Nat /\ Fits32(v) /\ Holds(whole, i, Le32(v))
    BY <1>13, <1>19, <1>34, <1>35 DEF p9, MicrosAre
  <2> HIDE DEF v, i
  <2>2. Get32(whole, i) = v
    BY <1>14, <2>1, Read32
  <2> QED
    BY <2>2 DEF v, i
<1>20. SubSeq(whole, 27, 26 + n) = p8
  <2>1. 27 \in Nat /\ 27 >= 1 /\ 27 + Len(p8) - 1 = 26 + n
    BY <1>1, <1>34
  <2>2. SubSeq(whole, 27, 27 + Len(p8) - 1) = p8
    BY <1>1, <1>13, <1>14, <2>1, Cut
  <2> QED
    BY <2>1, <2>2
<1>21. SubSeq(whole, 31 + n, 30 + 2 * n) = p10
  <2> DEFINE i == 31 + n
  <2>1. i \in Nat /\ i >= 1 /\ i + Len(p10) - 1 = 30 + 2 * n /\ Holds(whole, i, p10)
    BY <1>1, <1>13, <1>34
  <2> HIDE DEF i
  <2>2. SubSeq(whole, i, i + Len(p10) - 1) = p10
    BY <1>1, <1>14, <2>1, Cut
  <2>3. SubSeq(whole, i, 30 + 2 * n) = p10
    BY <2>1, <2>2
  <2> QED
    BY <2>3 DEF i
<1>22. whole[31 + 2 * n] = Transport(c)
  <2> DEFINE i == 31 + 2 * n
  <2>1. Len(p11) = 2 /\ p11[1] = Transport(c)
    BY DEF p11
  <2>2. i \in Nat /\ 1 \in 1..Len(p11) /\ i + 1 - 1 = i /\ Holds(whole, i, p11)
    BY <1>13, <1>34, <2>1
  <2> HIDE DEF i
  <2>3. whole[i + 1 - 1] = p11[1]
    BY <2>2 DEF Holds
  <2>4. whole[i] = Transport(c)
    BY <2>1, <2>2, <2>3
  <2> QED
    BY <2>4 DEF i
<1>23. ReadTransport(Transport(c)) = [class |-> c.class, trigger |-> c.trigger, server |-> FALSE]
  <2> DEFINE class == c.class
             trigger == c.trigger
  <2>1. class \in 0..1 /\ trigger \in 0..2
    BY ConfigParts
  <2>2. Transport(c) = trigger * 16 + class
    BY DEF Transport
  <2> HIDE DEF class, trigger
  <2>3. ReadTransport(trigger * 16 + class) = [class |-> class, trigger |-> trigger, server |-> FALSE]
    BY <2>1, TransportRead
  <2> QED
    BY <2>2, <2>3 DEF class, trigger
<1> DEFINE body == [service |-> OpenService(c), path |-> [ok |-> TRUE, path |-> ManagerPath],
                    data |-> whole]
           large == body.service = LARGE_FORWARD_OPEN
           s == ReadOpen(body)
<1>24. large = Large(c)
  BY ConfigParts DEF OpenService, LARGE_FORWARD_OPEN, FORWARD_OPEN
<1>25. /\ body.data = whole /\ body.service = OpenService(c)
       /\ body.path = [ok |-> TRUE, path |-> ManagerPath]
  OBVIOUS
<1>26. n = IF large THEN 4 ELSE 2
  BY <1>24, <1>34
<1> HIDE DEF body, large
<1>27. /\ s.service = body.service /\ s.path = body.path
       /\ s.serial = Get16(whole, 11) /\ s.multiplier = whole[19]
       /\ s.o2t_rpi = Get32(whole, 23) /\ s.t2o_rpi = Get32(whole, 27 + n)
       /\ s.o2t = ReadNetworkParams(SubSeq(whole, 27, 26 + n), large)
       /\ s.t2o = ReadNetworkParams(SubSeq(whole, 31 + n, 30 + 2 * n), large)
       /\ s.transport = ReadTransport(whole[31 + 2 * n])
  BY <1>25, <1>26, Zenon DEF ReadOpen, large
<1> HIDE DEF s
<1>28. OpenSeen(c, s)
  <2>1. Fits32(c.o2t.rpi \div 1000) => s.o2t_rpi = c.o2t.rpi \div 1000
    BY <1>18, <1>27
  <2>2. Fits32(c.t2o.rpi \div 1000) => s.t2o_rpi = c.t2o.rpi \div 1000
    BY <1>19, <1>27
  <2>3. s.o2t = ParamsOf(c, c.o2t) /\ s.t2o = ParamsOf(c, c.t2o)
    BY <1>20, <1>21, <1>24, <1>27, <1>32, Zenon
  <2>4. s.serial = SerialNumber /\ s.multiplier = c.timeout_multiplier
    BY <1>16, <1>17, <1>27
  <2>5. s.transport = [class |-> c.class, trigger |-> c.trigger, server |-> FALSE]
    BY <1>22, <1>23, <1>27, Zenon
  <2>6. s.service = OpenService(c) /\ s.path = [ok |-> TRUE, path |-> ManagerPath]
    BY <1>25, <1>27, Zenon
  <2> QED
    BY <2>1, <2>2, <2>3, <2>4, <2>5, <2>6, Zenon DEF OpenSeen
<1> QED
  BY <1>14, <1>15, <1>28 DEF whole, s, body

-----------------------------------------------------------------------------
(* Configurations made from an EDS entry *)

LEMMA IntFieldIs ==
  ASSUME NEW f \in Values
  PROVE  IntField(f) \in Seq(Nat)
<1>1. CASE f \in [kind : {"number"}, n : Nat]
  <2>1. f.kind = "number" /\ f.n \in Nat
    BY <1>1
  <2>2. IntField(f) = <<f.n>>
    BY <2>1 DEF IntField, IsInt
  <2> QED
    BY <2>1, <2>2
<1>2. CASE f \notin [kind : {"number"}, n : Nat]
  <2>1. f.kind # "number"
    BY <1>2 DEF Values, Fields, Empty, BadToken
  <2> QED
    BY <2>1 DEF IntField, IsInt
<1> QED
  BY <1>1, <1>2

LEMMA OrIs ==
  ASSUME NEW S, NEW s \in Seq(S), NEW alt \in S
  PROVE  Or(s, alt) \in S
<1>1. CASE s = <<>>
  BY <1>1 DEF Or
<1>2. CASE s # <<>>
  <2>1. Len(s) \in Nat \ {0}
    BY <1>2, EmptySeq
  <2>2. 1 \in 1..Len(s)
    BY <2>1
  <2> QED
    BY <1>2, <2>2, ElementOfSeq DEF Or
<1> QED
  BY <1>1, <1>2

LEMMA DefaultIs == DefaultRpi \in Nat
BY DEF DefaultRpi

\* The sum of an assembly's bits.
Adds(members, n, f) ==
  f = [i \in 0..n |-> IF i = 0 THEN 0 ELSE f[i - 1] + Or(IntField(members[i]), 0)]

LEMMA SumExists ==
  ASSUME NEW members
  PROVE  \A n \in Nat : \E f : Adds(members, n, f)
<1> DEFINE Good == {n \in Nat : \E f : Adds(members, n, f)}
           bits(i) == Or(IntField(members[i]), 0)
<1>1. 0 \in Good
  <2> DEFINE f == [i \in 0..0 |-> 0]
  <2>1. Adds(members, 0, f)
    BY DEF Adds
  <2> QED
    BY <2>1
<1> HIDE DEF bits
<1>2. ASSUME NEW n \in Good PROVE n + 1 \in Good
  <2>1. n \in Nat
    OBVIOUS
  <2>2. PICK f : Adds(members, n, f)
    OBVIOUS
  <2> DEFINE new == f[n] + bits(n + 1)
             g == [i \in 0..(n + 1) |-> IF i = n + 1 THEN new ELSE f[i]]
  <2>3. \A i \in 0..(n + 1) : g[i] = IF i = 0 THEN 0 ELSE g[i - 1] + bits(i)
    <3> TAKE i \in 0..(n + 1)
    <3>1. CASE i \in 0..n
      <4>1. i # n + 1 /\ i \in 0..(n + 1) /\ (i # 0 => i - 1 \in 0..(n + 1) /\ i - 1 # n + 1)
        BY <2>1, <3>1
      <4>2. g[i] = f[i] /\ (i # 0 => g[i - 1] = f[i - 1])
        BY <4>1
      <4>3. f[i] = IF i = 0 THEN 0 ELSE f[i - 1] + bits(i)
        BY <2>2, <3>1 DEF Adds, bits
      <4> HIDE DEF g
      <4> QED
        BY <4>2, <4>3
    <3>2. CASE i = n + 1
      <4>1. i # 0 /\ i - 1 = n /\ n \in 0..(n + 1) /\ n # n + 1 /\ i \in 0..(n + 1)
        BY <2>1, <3>2
      <4>2. g[i] = new /\ g[n] = f[n]
        BY <3>2, <4>1
      <4>3. new = g[n] + bits(i)
        BY <3>2, <4>2
      <4> HIDE DEF new, g
      <4> QED
        BY <4>1, <4>2, <4>3
    <3> QED
      BY <2>1, <3>1, <3>2
  <2>4. Adds(members, n + 1, g)
    BY <2>3 DEF Adds, bits
  <2> HIDE DEF g
  <2> QED
    BY <2>1, <2>4
<1>3. Good = Nat
  <2> HIDE DEF Good
  <2>1. Good \subseteq Nat
    BY DEF Good
  <2> QED
    BY <1>1, <1>2, <2>1, Induction
<1> QED
  BY <1>3

LEMMA SumIs ==
  ASSUME NEW members \in Seq(Values), NEW f, Adds(members, Len(members), f)
  PROVE  f[Len(members)] \in Nat
<1> DEFINE N == Len(members)
           Good == {k \in Nat : k <= N => f[k] \in Nat}
<1>1. N \in Nat /\ \A i \in 1..N : Or(IntField(members[i]), 0) \in Nat
  <2>1. ASSUME NEW i \in 1..N PROVE Or(IntField(members[i]), 0) \in Nat
    <3>1. members[i] \in Values
      BY ElementOfSeq
    <3>2. IntField(members[i]) \in Seq(Nat)
      BY <3>1, IntFieldIs
    <3>3. Or(IntField(members[i]), 0) \in Nat
      BY <3>2, DefaultIs, OrIs
    <3> QED
      BY <3>3, DefaultIs
  <2> QED
    BY <2>1, LenProperties
<1>2. \A k \in 0..N : f[k] = IF k = 0 THEN 0 ELSE f[k - 1] + Or(IntField(members[k]), 0)
  BY DEF Adds
<1>3. 0 \in Good
  BY <1>1, <1>2
<1>4. ASSUME NEW k \in Good PROVE k + 1 \in Good
  <2>1. CASE k + 1 <= N
    <3>1. k \in Nat /\ N \in Nat
      BY <1>1
    <3>2. k <= N /\ k + 1 \in 0..N /\ k + 1 \in 1..N /\ k + 1 # 0 /\ (k + 1) - 1 = k
      BY <2>1, <3>1
    <3>3. f[k] \in Nat /\ f[k + 1] = f[k] + Or(IntField(members[k + 1]), 0)
      BY <1>2, <3>2
    <3>4. Or(IntField(members[k + 1]), 0) \in Nat
      BY <1>1, <3>2
    <3> QED
      BY <3>1, <3>3, <3>4
  <2> QED
    BY <2>1
<1>5. Good = Nat
  <2> HIDE DEF Good
  <2>1. Good \subseteq Nat
    BY DEF Good
  <2> QED
    BY <1>3, <1>4, <2>1, Induction
<1>6. N \in Good
  BY <1>1, <1>5
<1> QED
  BY <1>1, <1>6

LEMMA ParamIs ==
  ASSUME NEW e, EdsType(e), NEW n, param(e, n).ok
  PROVE  /\ param(e, n).v.size \in Nat
         /\ param(e, n).v.min \in Seq(Nat) /\ param(e, n).v.default \in Seq(Nat)
<1> DEFINE p == e.params[n]
           v == [size |-> Or(IntField(p.size), 0), min |-> IntField(p.min),
                 default |-> IntField(p.default)]
<1>1. n \in DOMAIN e.params
  BY DEF param, Err
<1>2. p \in [type : Values, size : Values, min : Values, default : Values]
  <2>1. e.params \in Seq([type : Values, size : Values, min : Values, default : Values])
    BY DEF EdsType
  <2>2. n \in 1..Len(e.params)
    BY <1>1, <2>1, LenProperties
  <2> QED
    BY <2>1, <2>2, ElementOfSeq
<1>3. param(e, n) = Ok(v)
  BY <1>1 DEF param, Err
<1>4. p.size \in Values /\ p.min \in Values /\ p.default \in Values
  BY <1>2
<1> HIDE DEF p
<1>5. /\ IntField(p.size) \in Seq(Nat) /\ IntField(p.min) \in Seq(Nat)
      /\ IntField(p.default) \in Seq(Nat)
  BY <1>4, IntFieldIs
<1>6. Or(IntField(p.size), 0) \in Nat
  BY <1>5, DefaultIs, OrIs
<1>7. param(e, n).v = v
  BY <1>3 DEF Ok
<1>8. v.size \in Nat /\ v.min \in Seq(Nat) /\ v.default \in Seq(Nat)
  BY <1>5, <1>6
<1> QED
  BY <1>7, <1>8

LEMMA AsU32Is ==
  ASSUME NEW s \in Seq(Nat)
  PROVE  AsU32(s) \in Seq(Nat)
<1>1. \A n \in Nat : Low32(n) \in Nat
  BY DEF Low32
<1>2. DOMAIN s = 1..Len(s) /\ Len(s) \in Nat
  OBVIOUS
<1>3. \A i \in 1..Len(s) : Low32(s[i]) \in Nat
  BY SMTT(60), <1>1
<1> QED
  BY <1>2, <1>3 DEF AsU32

LEMMA IntervalIs ==
  ASSUME NEW e, EdsType(e), NEW f \in Values, Interval(e, f).ok
  PROVE  Interval(e, f).v \in Seq(Nat)
<1>1. CASE f.kind # "param"
  BY <1>1, IntFieldIs, AsU32Is DEF Interval, Ok
<1>2. CASE f.kind = "param"
  <2> DEFINE n == f.n
             p == param(e, n)
  <2>1. Interval(e, f) = IF ~p.ok THEN Err
                         ELSE Ok(AsU32(IF p.v.default # <<>> THEN p.v.default ELSE p.v.min))
    BY <1>2 DEF Interval
  <2> HIDE DEF p, n
  <2>2. p.ok
    BY <2>1 DEF Err
  <2>3. p.v.default \in Seq(Nat) /\ p.v.min \in Seq(Nat)
    BY <2>2, ParamIs DEF p
  <2> QED
    BY <2>1, <2>2, <2>3, AsU32Is DEF Ok
<1> QED
  BY <1>1, <1>2

LEMMA AssemblyIs ==
  ASSUME NEW e, EdsType(e), NEW n, assembly(e, n).ok
  PROVE  assembly(e, n).v \in Nat
<1> DEFINE a == e.assemblies[n]
           N == Len(a.members)
           bits == CHOOSE f : Adds(a.members, N, f)
<1>1. n \in DOMAIN e.assemblies
  BY ZenonT(60) DEF assembly, Err
<1>2. a \in [size : Values, members : Seq(Values)]
  <2>1. e.assemblies \in Seq([size : Values, members : Seq(Values)])
    BY DEF EdsType
  <2>2. n \in 1..Len(e.assemblies)
    BY <1>1, <2>1, LenProperties
  <2> QED
    BY <2>1, <2>2, ElementOfSeq
<1>3. a.size \in Values /\ a.members \in Seq(Values)
  BY <1>2
<1>4. N \in Nat
  BY SMTT(60), <1>3, LenProperties
<1>5. Adds(a.members, N, bits)
  <2>1. \E f : Adds(a.members, N, f)
    BY <1>4, SumExists
  <2> QED
    BY SMTT(60), <2>1
<1>6. assembly(e, n) = IF NotInt(a.size) THEN Err
                       ELSE Ok(Or(IntField(a.size), (bits[N] + 7) \div 8))
  BY ZenonT(60), <1>1 DEF assembly, Adds
<1> HIDE DEF a, bits
<1>7. bits[N] \in Nat
  BY <1>3, <1>5, SumIs
<1> DEFINE t == bits[N]
           u == (t + 7) \div 8
<1>8. u \in Nat
  <2> HIDE DEF t
  <2>1. t \in Nat
    BY <1>7 DEF t
  <2> QED
    BY <2>1
<1>9. Or(IntField(a.size), u) \in Nat
  <2> HIDE DEF u
  <2>1. IntField(a.size) \in Seq(Nat)
    <3>1. IntField(a.size) \in Seq(Nat)
      BY <1>3, IntFieldIs
    <3>2. \A i \in 1..Len(IntField(a.size)) : IntField(a.size)[i] \in Nat
      BY <3>1, ElementOfSeq, DefaultIs
    <3> QED
      BY <3>1, <3>2, SeqDef
  <2> QED
    BY <1>8, <2>1, OrIs
<1>10. assembly(e, n) = Ok(Or(IntField(a.size), u))
  <2> HIDE DEF u, N
  <2>1. ~NotInt(a.size)
    BY <1>6 DEF Err
  <2> QED
    BY <1>6, <2>1 DEF u, t
<1> HIDE DEF u
<1> QED
  BY SMTT(60), <1>9, <1>10 DEF Ok

LEMMA DirectionSizeIs ==
  ASSUME NEW e, EdsType(e), NEW d \in Halves, DirectionSize(e, d).ok
  PROVE  DirectionSize(e, d).v \in Nat
<1> DEFINE f == d.size
<1>1. f \in Values /\ d.format \in Values
  BY DEF Halves
<1>2. CASE f.kind = "number"
  <2>1. f.n \in Nat
    BY <1>1, <1>2 DEF Values, Fields, Empty, BadToken
  <2>3. d.size.kind = "number" /\ d.size.kind # "param" /\ d.size # Empty
    BY <1>2 DEF Empty
  <2>2. DirectionSize(e, d) = Ok(d.size.n)
    BY <2>3, Zenon DEF DirectionSize
  <2> QED
    BY <2>1, <2>2 DEF Ok
<1>3. CASE f.kind = "param"
  <2> DEFINE n == f.n
             p == param(e, n)
  <2>5. d.size.kind = "param" /\ d.size.kind # "number" /\ d.size # Empty
    BY <1>3 DEF Empty
  <2>1. DirectionSize(e, d) = IF p.ok THEN Ok(Or(p.v.default, 0)) ELSE Err
    BY <2>5, Zenon DEF DirectionSize
  <2> HIDE DEF p, n
  <2>2. p.ok
    BY <2>1 DEF Err
  <2>3. p.v.default \in Seq(Nat)
    BY <2>2, ParamIs DEF p
  <2>4. Or(p.v.default, 0) \in Nat
    BY <2>3, OrIs, DefaultIs
  <2> QED
    BY <2>1, <2>2, <2>4 DEF Ok
<1>4. CASE f = Empty
  <2>1. f.kind # "number" /\ f.kind # "param"
    BY <1>4 DEF Empty
  <2>2. DirectionSize(e, d) = IF d.format.kind = "assem" THEN assembly(e, d.format.n) ELSE Ok(0)
    BY <1>4, <2>1, Zenon DEF DirectionSize
  <2>3. CASE d.format.kind = "assem"
    <3> DEFINE n == d.format.n
    <3>1. DirectionSize(e, d) = assembly(e, n)
      BY <2>2, <2>3
    <3> HIDE DEF n
    <3> QED
      BY <3>1, AssemblyIs
  <2>4. CASE d.format.kind # "assem"
    BY <2>2, <2>4 DEF Ok
  <2> QED
    BY <2>3, <2>4
<1>5. CASE f.kind # "number" /\ f.kind # "param" /\ f # Empty
  <2>1. DirectionSize(e, d) = Err
    BY <1>5, Zenon DEF DirectionSize
  <2> QED
    BY <2>1 DEF Err
<1> QED
  BY <1>2, <1>3, <1>4, <1>5

LEMMA LeBytesIs ==
  ASSUME NEW v \in Nat, NEW n \in Nat
  PROVE  LeBytes(v, n) \in Seq(Nat)
<1>1. \A i \in 1..n : (IF i > 4 THEN 0 ELSE (v \div Weight[i]) % 256) \in Nat
  <2> TAKE i \in 1..n
  <2>1. CASE i > 4
    BY <2>1
  <2>2. CASE ~(i > 4)
    <3>1. i = 1 \/ i = 2 \/ i = 3 \/ i = 4
      BY <2>2
    <3>2. Weight[i] \in Nat \ {0}
      BY <3>1 DEF Weight
    <3> DEFINE w == Weight[i]
    <3> HIDE DEF w
    <3>3. w \in Nat \ {0}
      BY <3>2 DEF w
    <3>4. v \div w \in Nat
      BY <3>3
    <3> DEFINE x == v \div w
    <3>5. x \in Nat
      BY <3>4
    <3> HIDE DEF x
    <3>6. x % 256 \in Nat
      BY <3>5
    <3> QED
      BY <2>2, <3>6 DEF x, w
  <2> QED
    BY <2>1, <2>2
<1> QED
  BY <1>1 DEF LeBytes

LEMMA PathTokenIs ==
  ASSUME NEW e, EdsType(e), NEW t \in Values, PathToken(e, t).ok
  PROVE  PathToken(e, t).v \in Seq(Nat)
<1>1. CASE t.kind = "number"
  <2>1. t.n \in Nat
    BY <1>1 DEF Values, Fields, Empty, BadToken
  <2>2. t.kind # "param"
    BY <1>1
  <2>3. PathToken(e, t) = IF t.n < 256 THEN Ok(<<t.n>>) ELSE Err
    BY <1>1, <2>2, Zenon DEF PathToken
  <2> QED
    BY <2>1, <2>3 DEF Ok, Err
<1>2. CASE t.kind = "param"
  <2> DEFINE n == t.n
             p == param(e, n)
             d == p.v.default[1]
             k == Clamp(p.v.size, 1, 8)
  <2>1. t.kind # "number"
    BY <1>2
  <2>2. PathToken(e, t) = IF ~p.ok THEN Err
                          ELSE IF p.v.default = <<>> THEN Err ELSE Ok(LeBytes(d, k))
    BY <1>2, <2>1, Zenon DEF PathToken
  <2> HIDE DEF d, k, n
  <2>3. p.ok /\ p.v.default # <<>> /\ PathToken(e, t) = Ok(LeBytes(d, k))
    <3> HIDE DEF p
    <3> QED
      BY <2>2 DEF Err
  <2>4. p.v.default \in Seq(Nat) /\ p.v.size \in Nat
    BY <2>3, ParamIs
  <2> HIDE DEF p
  <2>5. d \in Nat
    <3>1. 1 \in 1..Len(p.v.default)
      BY <2>3, <2>4, EmptySeq
    <3>2. p.v.default[1] \in Nat
      BY <2>4, <3>1, ElementOfSeq
    <3> QED
      BY <3>2, DefaultIs DEF d
  <2>6. k \in Nat
    <3> DEFINE s == p.v.size
    <3>1. s \in Nat
      BY <2>4, DefaultIs
    <3> HIDE DEF s
    <3>2. Clamp(s, 1, 8) \in Nat
      BY <3>1 DEF Clamp
    <3> QED
      BY <3>2 DEF k, s
  <2>7. LeBytes(d, k) \in Seq(Nat)
    BY <2>5, <2>6, LeBytesIs
  <2> QED
    BY <2>3, <2>7 DEF Ok
<1>3. CASE t.kind # "number" /\ t.kind # "param"
  <2>1. PathToken(e, t) = Err
    BY <1>3, Zenon DEF PathToken
  <2> QED
    BY <2>1 DEF Err
<1> QED
  BY <1>1, <1>2, <1>3

LEMMA ResolvedPathIs ==
  ASSUME NEW e, EdsType(e), NEW tokens \in Seq(Values), resolve_path(e, tokens).ok
  PROVE  resolve_path(e, tokens).v \in Seq(Nat)
<1> DEFINE bytes == [i \in DOMAIN tokens |-> PathToken(e, tokens[i])]
           seqs == [i \in DOMAIN tokens |-> bytes[i].v]
           bad == \E i \in DOMAIN tokens : ~bytes[i].ok
<1>1. resolve_path(e, tokens) = IF bad THEN Err ELSE Ok(FlattenSeq(seqs))
  BY DEF resolve_path
<1>2. ~bad
  <2> HIDE DEF bad, seqs
  <2> QED
    BY <1>1 DEF Err
<1>3. DOMAIN tokens = 1..Len(tokens) /\ Len(tokens) \in Nat
  BY LenProperties
<1>4. ASSUME NEW i \in 1..Len(tokens)
      PROVE  PathToken(e, tokens[i]).v \in Seq(Nat)
  <2>1. tokens[i] \in Values
    BY ElementOfSeq
  <2>2. PathToken(e, tokens[i]).ok
    BY <1>2, <1>3
  <2> QED
    BY <2>1, <2>2, PathTokenIs
<1>5. seqs = [i \in 1..Len(tokens) |-> PathToken(e, tokens[i]).v]
  BY <1>3
<1>6. seqs \in Seq(Seq(Nat))
  <2> HIDE DEF seqs
  <2> QED
    BY <1>3, <1>4, <1>5
<1> HIDE DEF seqs, bad
<1>7. Over(FlattenSeq(seqs))
  BY <1>6, FlattenIs
<1> QED
  BY <1>1, <1>2, <1>7 DEF Ok, Over

LEMMA HalfIs ==
  ASSUME NEW e, EdsType(e), NEW d \in Halves, direction(e, d).ok
  PROVE  direction(e, d).v \in [rpi : Seq(Nat), size : Nat]
<1> DEFINE rpi == Interval(e, d.rpi)
           size == DirectionSize(e, d)
<1>1. direction(e, d) = IF ~rpi.ok \/ ~size.ok THEN Err ELSE Ok([rpi |-> rpi.v, size |-> size.v])
  BY DEF direction
<1>2. d.rpi \in Values
  BY DEF Halves
<1> HIDE DEF rpi, size
<1>3. rpi.ok /\ size.ok
  BY <1>1 DEF Err
<1>4. rpi.v \in Seq(Nat)
  BY <1>2, <1>3, IntervalIs DEF rpi
<1>5. size.v \in Nat
  BY <1>3, DirectionSizeIs DEF size
<1> QED
  BY <1>1, <1>3, <1>4, <1>5 DEF Ok

LEMMA ConnectionIs ==
  ASSUME NEW e, EdsType(e), decode_connection(e).ok
  PROVE  LET c == decode_connection(e).v
         IN  /\ c.o2t \in [rpi : Seq(Nat), size : Nat]
             /\ c.t2o \in [rpi : Seq(Nat), size : Nat]
             /\ c.path \in Seq(Nat)
<1> DEFINE o2t == direction(e, e.entry.o2t)
           t2o == direction(e, e.entry.t2o)
           path == resolve_path(e, e.entry.path)
           tt == e.entry.trigger_transport.n \cap 0..31
           cp == e.entry.connection_params.n \cap 0..31
           c == [tt |-> tt, cp |-> cp, o2t |-> o2t.v, t2o |-> t2o.v, path |-> path.v]
           refused == \/ ~IsInt(e.entry.trigger_transport) \/ ~IsInt(e.entry.connection_params)
                      \/ ~o2t.ok \/ ~t2o.ok \/ ~path.ok
<1>1. decode_connection(e) = IF refused THEN Err ELSE Ok(c)
  BY DEF decode_connection
<1>2. e.entry.o2t \in Halves /\ e.entry.t2o \in Halves /\ e.entry.path \in Seq(Values)
  BY DEF EdsType
<1> HIDE DEF o2t, t2o, path, tt, cp
<1>3. ~refused
  <2> HIDE DEF refused, c
  <2> QED
    BY <1>1 DEF Err
<1>4. o2t.ok /\ t2o.ok /\ path.ok
  BY <1>3
<1>5. o2t.v \in [rpi : Seq(Nat), size : Nat]
  BY <1>2, <1>4, HalfIs DEF o2t
<1>6. t2o.v \in [rpi : Seq(Nat), size : Nat]
  BY <1>2, <1>4, HalfIs DEF t2o
<1>7. path.v \in Seq(Nat)
  BY <1>2, <1>4, ResolvedPathIs DEF path
<1>8. decode_connection(e).v = c
  <2> HIDE DEF refused, c
  <2> QED
    BY <1>1, <1>3 DEF Ok
<1>9. c.o2t = o2t.v /\ c.t2o = t2o.v /\ c.path = path.v
  OBVIOUS
<1> HIDE DEF c
<1> QED
  BY <1>5, <1>6, <1>7, <1>8, <1>9

LEMMA DirectionConfigIs ==
  ASSUME NEW cp, NEW shift, NEW fixed_bit, NEW d \in [rpi : Seq(Nat), size : Nat]
  PROVE  DirectionConfig(cp, shift, fixed_bit, d) \in Directions
<1> DEFINE size == d.size
           rpi == 1000 * Or(d.rpi, DefaultRpi)
           type == IF 18 + shift \in cp THEN 2 ELSE 0
           priority == IF 26 + shift \in cp THEN 2 ELSE IF 25 + shift \in cp THEN 1 ELSE 0
           variable == fixed_bit \notin cp
           run_idle == {n \in 0..2 : 8 + shift + n \in cp} = {2}
           small == size % 65536
<1>1. size \in Nat
  OBVIOUS
<1>2. rpi \in Nat
  <2>1. d.rpi \in Seq(Nat)
    OBVIOUS
  <2>2. Or(d.rpi, DefaultRpi) \in Nat
    BY <2>1, DefaultIs, OrIs
  <2> QED
    BY <2>2
<1>3. small \in Nat
  <2> HIDE DEF size
  <2> QED
    BY <1>1
<1>4. type \in 0..3 /\ priority \in 0..3 /\ variable \in BOOLEAN /\ run_idle \in BOOLEAN
  OBVIOUS
<1>5. DirectionConfig(cp, shift, fixed_bit, d) =
        [size |-> small, rpi |-> rpi, type |-> type, priority |-> priority,
         variable |-> variable, run_idle |-> run_idle]
  BY DEF DirectionConfig
<1> HIDE DEF small, rpi, type, priority, variable, run_idle
<1> QED
  BY <1>2, <1>3, <1>4, <1>5 DEF Directions

LEMMA EdsConfigIs ==
  ASSUME NEW e \in EdsFiles, EdsConfig(e).ok
  PROVE  ConfigType(EdsConfig(e).v)
<1> DEFINE c == decode_connection(e).v
           class == ClassOf(c.tt)
           trigger == TriggerOf(c.tt)
           o2t == DirectionConfig(c.cp, 0, 0, c.o2t)
           t2o == DirectionConfig(c.cp, 4, 2, c.t2o)
           path == <<Raw(c.path)>>
           v == [path |-> path, route |-> <<>>, config_data |-> 0,
                 o2t |-> o2t, t2o |-> t2o, class |-> class, trigger |-> trigger,
                 timeout_multiplier |-> 0, bits8 |-> FALSE]
           bad == class = 2 \/ ~HasType(c.cp, 0) \/ ~HasType(c.cp, 4)
<1>1. EdsType(e) /\ (EdsConfig(e).ok => Len(FullPath(EdsConfig(e).v)) <= MaxPath)
  BY ForwardOpenAssumption
<1>2. EdsConfig(e) = IF decode_connection(e).ok THEN to_connection_config(c) ELSE Err
  BY DEF EdsConfig
<1>3. decode_connection(e).ok
  BY <1>2 DEF Err
<1>4. /\ c.o2t \in [rpi : Seq(Nat), size : Nat] /\ c.t2o \in [rpi : Seq(Nat), size : Nat]
      /\ c.path \in Seq(Nat)
  BY <1>1, <1>3, ConnectionIs
<1> HIDE DEF c
<1>5. EdsConfig(e) = IF bad THEN Err ELSE Ok(v)
  BY <1>2, <1>3 DEF to_connection_config
<1>6. EdsConfig(e).v = v
  <2> HIDE DEF bad, v
  <2> QED
    BY <1>5 DEF Err, Ok
<1>7. o2t \in Directions /\ t2o \in Directions
  BY <1>4, DirectionConfigIs
<1>8. class \in Nat /\ trigger \in 0..2
  BY DEF ClassOf, TriggerOf
<1>9. path \in Seq(Segments)
  <2>1. Raw(c.path) \in Segments
    BY <1>4 DEF Raw, Segments
  <2> QED
    BY <2>1
<1> HIDE DEF o2t, t2o, class, trigger, path
<1>10. v \in [o2t : Directions, t2o : Directions, class : Nat, trigger : 0..2,
              timeout_multiplier : Nat, config_data : Nat, bits8 : BOOLEAN,
              route : Seq(Tokens), path : Seq(Segments)]
  <2>1. <<>> \in Seq(Tokens) /\ 0 \in Nat /\ FALSE \in BOOLEAN
    OBVIOUS
  <2> HIDE DEF v
  <2>2. v = [path |-> path, route |-> <<>>, config_data |-> 0,
             o2t |-> o2t, t2o |-> t2o, class |-> class, trigger |-> trigger,
             timeout_multiplier |-> 0, bits8 |-> FALSE]
    BY DEF v
  <2> QED
    BY <1>7, <1>8, <1>9, <2>1, <2>2
<1>11. Len(FullPath(v)) <= MaxPath
  BY <1>1, <1>6
<1> HIDE DEF v
<1>12. ConfigType(v)
  BY <1>10, <1>11 DEF ConfigType
<1> QED
  BY <1>6, <1>12

-----------------------------------------------------------------------------
(* The Forward Close request *)

LEMMA CloseRequestIs ==
  ASSUME NEW c, ConfigType(c), ~Refused(c), NEW serial \in Nat
  PROVE  Over(CloseRequest(c, serial)) /\ DataFits(Len(CloseRequest(c, serial)))
<1> DEFINE p == FullPath(c)
           a == <<0, 0>>
           s == Le16(serial)
           o == Originator
           h == <<PathSize(p), 0>>
           x == Then(a, s)
           y == Then(x, o)
           z == Then(y, h)
           w == Then(z, p)
<1>1. Over(p) /\ Len(p) \in Nat /\ Len(p) <= MaxPath
  BY FullPathIs
<1>2. CloseRequest(c, serial) = w
  BY DEF CloseRequest, Then
<1> HIDE DEF p
<1>3. PathSize(p) \in Nat
  <2> DEFINE n == Len(p)
  <2>1. n \in Nat
    BY <1>1
  <2> HIDE DEF n
  <2>2. U8((n + 1) \div 2) \in Nat
    BY <2>1 DEF U8
  <2> QED
    BY <2>2 DEF PathSize, n
<1>4. Over(a) /\ Len(a) = 2 /\ Over(h) /\ Len(h) = 2
  BY <1>3 DEF Over
<1>5. Over(s) /\ Len(s) = 2
  BY Le16Is
<1>6. Over(o) /\ Len(o) = 6
  BY ZerosAre DEF Originator
<1> HIDE DEF a, s, o, h
<1>7. Over(x) /\ Len(x) = 4
  <2>1. Over(x) /\ Len(x) = Len(a) + Len(s)
    BY <1>4, <1>5, Joined
  <2> QED
    BY <1>4, <1>5, <2>1
<1> HIDE DEF x
<1>8. Over(y) /\ Len(y) = 10
  <2>1. Over(y) /\ Len(y) = Len(x) + Len(o)
    BY <1>6, <1>7, Joined
  <2> QED
    BY <1>6, <1>7, <2>1
<1> HIDE DEF y
<1>9. Over(z) /\ Len(z) = 12
  <2>1. Over(z) /\ Len(z) = Len(y) + Len(h)
    BY <1>4, <1>8, Joined
  <2> QED
    BY <1>4, <1>8, <2>1
<1> HIDE DEF z
<1>10. Over(w) /\ Len(w) = 12 + Len(p)
  <2>1. Over(w) /\ Len(w) = Len(z) + Len(p)
    BY <1>1, <1>9, Joined
  <2> QED
    BY <1>9, <2>1
<1> HIDE DEF w
<1>11. DataFits(12 + Len(p))
  <2>1. 12 \in 0..600
    OBVIOUS
  <2> QED
    BY <1>1, <2>1, PathsFit
<1> QED
  BY <1>2, <1>10, <1>11

-----------------------------------------------------------------------------
(* The invariant *)

Opened == {"target", "answer", "receive", "open", "closing"}

\* The configuration in use, and that it is one forward_open does not refuse.
ConfigKnown ==
  /\ stage = "eds" => eds \in EdsFiles
  /\ stage \in Opened \cup {"call"} => ConfigType(config)
  /\ stage \in Opened => ~Refused(config)

\* What is on its way.
MessageKnown ==
  /\ stage = "target" =>
       message = Packet(OpenService(config), config.bits8, OpenRequest(config))
  /\ stage = "receive" =>
       message = Encaps(SEND_RR_DATA, answer.reply.handle, answer.reply.encaps_status,
                        SubSeq(ReplyBytes(answer.reply), 1, answer.kept))
  /\ stage = "closing" =>
       message = Packet(FORWARD_CLOSE, config.bits8,
                        CloseRequest(config, outcome.reply.serial))

\* What the target has read: nothing, the open request for a configuration
\* that was not refused, or the close.
OpenRead == ConfigType(config) /\ ~Refused(config) /\ OpenSeen(config, seen)
SeenKnown ==
  /\ stage \in {"eds", "call", "target"} => seen = Nothing
  /\ stage \in Opened \ {"target"} => OpenRead
  /\ seen = Nothing \/ OpenRead \/ seen.service = FORWARD_CLOSE

\* What the target has answered, and what forward_open made of it.
Answered == answer.reply \in Replies /\ answer.kept \in 0..Len(ReplyBytes(answer.reply))
Decided == OutcomeOf(config, answer.reply, answer.kept, outcome)
AnswerKnown ==
  /\ stage \in {"eds", "call", "target", "answer"} => answer = Nothing
  /\ stage \in {"receive", "open", "closing"} => Answered
  /\ stage \in {"eds", "call", "target", "answer", "receive"} => outcome = Nothing
  /\ stage \in {"open", "closing"} => outcome.ok /\ Decided
  /\ answer # Nothing => OpenRead \/ seen.service = FORWARD_CLOSE
  /\ answer # Nothing /\ outcome # Nothing => Decided

Stages == Opened \cup {"eds", "call", "end"}
Inv == stage \in Stages /\ ConfigKnown /\ MessageKnown /\ SeenKnown /\ AnswerKnown

\* The invariant holds at first, when nothing has been sent.
LEMMA InitInv == Init => Inv
<1> SUFFICES ASSUME Init PROVE Inv
  OBVIOUS
<1>1. /\ \/ stage = "call" /\ config \in Configs
         \/ stage = "eds" /\ eds \in EdsFiles
      /\ seen = Nothing /\ answer = Nothing /\ outcome = Nothing
  BY DEF Init
<1>2. stage = "call" => ConfigType(config)
  BY <1>1, ForwardOpenAssumption
<1>3. stage \in {"eds", "call"}
  BY <1>1
<1>4. ConfigKnown
  BY <1>1, <1>2, <1>3 DEF ConfigKnown, Opened
<1>5. MessageKnown
  BY <1>3 DEF MessageKnown
<1>6. SeenKnown
  BY <1>1, <1>3 DEF SeenKnown, Opened
<1>7. AnswerKnown
  BY <1>1, <1>3 DEF AnswerKnown
<1> QED
  BY <1>3, <1>4, <1>5, <1>6, <1>7 DEF Inv, Stages

LEMMA ConvertInv == Inv /\ Convert => Inv'
<1> SUFFICES ASSUME Inv, Convert PROVE Inv'
  OBVIOUS
<1>1. /\ stage = "eds" /\ eds \in EdsFiles
      /\ seen = Nothing /\ answer = Nothing /\ outcome = Nothing
      /\ seen' = seen /\ answer' = answer
  BY DEF Convert, Inv, ConfigKnown, SeenKnown, AnswerKnown
<1>2. \/ /\ EdsConfig(eds).ok /\ config' = EdsConfig(eds).v
         /\ stage' = "call" /\ outcome' = outcome
      \/ stage' = "end"
  BY DEF Convert
<1>3. stage' = "call" => ConfigType(config') /\ outcome' = Nothing
  BY <1>1, <1>2, EdsConfigIs
<1>4. stage' \in {"call", "end"} /\ seen' = Nothing /\ answer' = Nothing
  BY <1>1, <1>2
<1> QED
  BY <1>3, <1>4 DEF Inv, Stages, Opened, ConfigKnown, MessageKnown, SeenKnown, AnswerKnown

LEMMA RefuseInv == Inv /\ Refuse => Inv'
<1> SUFFICES ASSUME Inv, Refuse PROVE Inv'
  OBVIOUS
<1>1. seen' = Nothing /\ answer' = Nothing /\ stage' = "end"
  BY DEF Refuse, Inv, SeenKnown, AnswerKnown
<1> QED
  BY <1>1 DEF Inv, Stages, Opened, ConfigKnown, MessageKnown, SeenKnown, AnswerKnown

LEMMA SendOpenInv == Inv /\ SendOpen => Inv'
<1> SUFFICES ASSUME Inv, SendOpen PROVE Inv'
  OBVIOUS
<1>1. /\ ConfigType(config) /\ ~Refused(config) /\ config' = config
      /\ stage' = "target" /\ seen' = Nothing /\ answer' = Nothing /\ outcome' = Nothing
      /\ message' = Packet(OpenService(config), config.bits8, OpenRequest(config))
  BY DEF SendOpen, Inv, ConfigKnown, SeenKnown, AnswerKnown, OpenService
<1>2. ConfigKnown'
  BY <1>1 DEF ConfigKnown
<1>3. MessageKnown'
  BY <1>1 DEF MessageKnown
<1>4. SeenKnown'
  BY <1>1 DEF SeenKnown
<1>5. AnswerKnown'
  BY <1>1 DEF AnswerKnown
<1> QED
  BY <1>1, <1>2, <1>3, <1>4, <1>5 DEF Inv, Stages, Opened

\* The target reads from the packet what the configuration says.
LEMMA TargetReadsInv == Inv /\ TargetReads => Inv'
<1> SUFFICES ASSUME Inv, TargetReads PROVE Inv'
  OBVIOUS
<1> DEFINE service == OpenService(config)
           data    == OpenRequest(config)
           body    == [service |-> service, path |-> [ok |-> TRUE, path |-> ManagerPath],
                       data |-> data]
<1>1. /\ ConfigType(config) /\ ~Refused(config) /\ config' = config
      /\ stage' = "answer" /\ answer' = Nothing /\ outcome' = Nothing
      /\ seen' = ReadOpen(Body(message))
      /\ message = Packet(service, config.bits8, data)
  BY DEF TargetReads, Inv, ConfigKnown, MessageKnown, AnswerKnown, Opened
<1>2. Over(data) /\ DataFits(Len(data)) /\ OpenSeen(config, ReadOpen(body))
  BY <1>1, OpenRequestRead
<1>3. service \in Nat /\ config.bits8 \in BOOLEAN
  BY <1>1 DEF OpenService, LARGE_FORWARD_OPEN, FORWARD_OPEN, ConfigType
<1> HIDE DEF service, data
<1>4. Body(message) = body
  BY <1>1, <1>2, <1>3, BodyRead
<1>5. OpenRead'
  BY <1>1, <1>2, <1>4 DEF OpenRead
<1>6. ConfigKnown' /\ MessageKnown'
  BY <1>1 DEF ConfigKnown, MessageKnown
<1>7. SeenKnown'
  BY <1>1, <1>5 DEF SeenKnown
<1>8. AnswerKnown'
  BY <1>1 DEF AnswerKnown
<1> QED
  BY <1>1, <1>6, <1>7, <1>8 DEF Inv, Stages, Opened

LEMMA TargetAnswersInv ==
  ASSUME NEW r \in Replies
  PROVE  Inv /\ TargetAnswers(r) => Inv'
<1> SUFFICES ASSUME Inv, TargetAnswers(r) PROVE Inv'
  OBVIOUS
<1>1. PICK n \in 0..Len(ReplyBytes(r)) :
        /\ message' = Encaps(SEND_RR_DATA, r.handle, r.encaps_status,
                             SubSeq(ReplyBytes(r), 1, n))
        /\ answer' = [reply |-> r, kept |-> n]
  BY DEF TargetAnswers
<1>2. answer'.reply = r /\ answer'.kept = n
  BY <1>1
<1>3. /\ OpenRead /\ ConfigType(config) /\ ~Refused(config)
      /\ outcome = Nothing
  BY DEF TargetAnswers, Inv, ConfigKnown, SeenKnown, AnswerKnown, Opened
<1>4. /\ config' = config /\ seen' = seen /\ outcome' = Nothing
      /\ stage' = "receive"
  BY <1>3 DEF TargetAnswers
<1>5. OpenRead'
  BY <1>3, <1>4 DEF OpenRead
<1>6. ConfigKnown'
  BY <1>3, <1>4 DEF ConfigKnown
<1>7. MessageKnown'
  BY <1>1, <1>2, <1>4 DEF MessageKnown
<1>8. SeenKnown'
  BY <1>4, <1>5 DEF SeenKnown
<1>9. AnswerKnown'
  BY <1>2, <1>4, <1>5 DEF AnswerKnown, Answered
<1> QED
  BY <1>4, <1>6, <1>7, <1>8, <1>9 DEF Inv, Stages, Opened

\* What forward_open makes of the part of the answer that arrived.
LEMMA ReceiveInv == Inv /\ Receive => Inv'
<1> SUFFICES ASSUME Inv, Receive PROVE Inv'
  OBVIOUS
<1> DEFINE r == answer.reply
           n == answer.kept
<1>1. /\ ConfigType(config) /\ ~Refused(config) /\ OpenRead /\ Answered
      /\ message = Encaps(SEND_RR_DATA, r.handle, r.encaps_status, SubSeq(ReplyBytes(r), 1, n))
  BY DEF Receive, Inv, ConfigKnown, MessageKnown, SeenKnown, AnswerKnown, Opened
<1>2. /\ config' = config /\ seen' = seen /\ answer' = answer
      /\ outcome' = Outcome(config, message)
      /\ stage' = IF outcome'.ok THEN "open" ELSE "end"
  BY DEF Receive
<1>3. ReplyType(r) /\ n \in 0..Len(ReplyBytes(r))
  BY <1>1, ForwardOpenAssumption DEF Answered
<1>4. Decided'
  <2>1. OutcomeOf(config, r, n, Outcome(config, message))
    BY <1>1, <1>3, ReplyDecoded
  <2> QED
    BY <1>2, <2>1 DEF Decided
<1>5. OpenRead' /\ Answered'
  BY <1>1, <1>2 DEF OpenRead, Answered
<1>6. stage' \in {"open", "end"} /\ (stage' = "open" => outcome'.ok)
  BY <1>2
<1>7. ConfigKnown'
  BY <1>1, <1>2, <1>6 DEF ConfigKnown
<1>8. MessageKnown'
  BY <1>6 DEF MessageKnown
<1>9. SeenKnown'
  BY <1>5, <1>6 DEF SeenKnown
<1>10. AnswerKnown'
  BY <1>4, <1>5, <1>6 DEF AnswerKnown
<1> QED
  BY <1>6, <1>7, <1>8, <1>9, <1>10 DEF Inv, Stages, Opened

LEMMA SendCloseInv == Inv /\ SendClose => Inv'
<1> SUFFICES ASSUME Inv, SendClose PROVE Inv'
  OBVIOUS
<1>1. /\ ConfigType(config) /\ ~Refused(config) /\ OpenRead /\ Answered
      /\ outcome.ok /\ Decided
  BY DEF SendClose, Inv, ConfigKnown, SeenKnown, AnswerKnown, Opened
<1>2. /\ config' = config /\ seen' = seen /\ answer' = answer /\ outcome' = outcome
      /\ stage' = "closing"
      /\ message' = Packet(FORWARD_CLOSE, config.bits8,
                           CloseRequest(config, outcome.reply.serial))
  BY DEF SendClose
<1>3. OpenRead' /\ Answered' /\ Decided'
  BY <1>1, <1>2 DEF OpenRead, Answered, Decided
<1>4. ConfigKnown'
  BY <1>1, <1>2 DEF ConfigKnown
<1>5. MessageKnown'
  BY <1>2 DEF MessageKnown
<1>6. SeenKnown'
  BY <1>2, <1>3 DEF SeenKnown
<1>7. AnswerKnown'
  BY <1>1, <1>2, <1>3 DEF AnswerKnown
<1> QED
  BY <1>2, <1>4, <1>5, <1>6, <1>7 DEF Inv, Stages, Opened

\* The request that forward_close sends names the serial number of the reply.
LEMMA TargetReadsCloseInv == Inv /\ TargetReadsClose => Inv'
<1> SUFFICES ASSUME Inv, TargetReadsClose PROVE Inv'
  OBVIOUS
<1> DEFINE serial == outcome.reply.serial
           data   == CloseRequest(config, serial)
           body   == [service |-> FORWARD_CLOSE, path |-> [ok |-> TRUE, path |-> ManagerPath],
                      data |-> data]
<1>1. /\ ConfigType(config) /\ ~Refused(config) /\ outcome.ok /\ Decided
      /\ message = Packet(FORWARD_CLOSE, config.bits8, data)
  BY DEF TargetReadsClose, Inv, ConfigKnown, MessageKnown, AnswerKnown, Opened
<1>2. /\ config' = config /\ answer' = answer /\ outcome' = outcome
      /\ stage' = "end" /\ seen' = ReadClose(Body(message))
  BY DEF TargetReadsClose
<1>3. serial \in Nat
  <2>1. outcome.reply = FieldsOf(answer.reply)
    <3> DEFINE r == answer.reply
    <3>1. OutcomeOf(config, r, answer.kept, outcome)
      BY <1>1 DEF Decided
    <3> HIDE DEF r
    <3>2. ~(outcome = Err)
      BY <1>1 DEF Err
    <3>3. ~(outcome = [ok |-> FALSE, status |-> r.status, additional |-> r.additional])
      BY <1>1
    <3>4. PICK items, t :
            outcome = [ok |-> TRUE, reply |-> FieldsOf(r), destination |-> Destination(items),
                       timeout |-> t]
      BY <3>1, <3>2, <3>3, Zenon DEF OutcomeOf
    <3> HIDE DEF Destination
    <3> QED
      BY <3>4 DEF r
  <2>2. FieldsOf(answer.reply).serial = SerialNumber
    BY DEF FieldsOf
  <2> QED
    BY <2>1, <2>2, ConstantsFit
<1>4. Over(data) /\ DataFits(Len(data))
  BY <1>1, <1>3, CloseRequestIs
<1>5. FORWARD_CLOSE \in Nat /\ config.bits8 \in BOOLEAN
  BY <1>1 DEF FORWARD_CLOSE, ConfigType
<1> HIDE DEF data
<1>6. Body(message) = body
  BY <1>1, <1>4, <1>5, BodyRead
<1>7. seen'.service = FORWARD_CLOSE
  BY <1>2, <1>6 DEF ReadClose
<1>8. Decided'
  BY <1>1, <1>2 DEF Decided
<1>9. ConfigKnown' /\ MessageKnown'
  BY <1>2 DEF ConfigKnown, MessageKnown, Opened
<1>10. SeenKnown'
  BY <1>2, <1>7 DEF SeenKnown, Opened
<1>11. AnswerKnown'
  BY <1>2, <1>7, <1>8 DEF AnswerKnown
<1> QED
  BY <1>2, <1>9, <1>10, <1>11 DEF Inv, Stages

LEMMA StutterInv == Inv /\ UNCHANGED vars => Inv'
BY DEF vars, Inv, ConfigKnown, MessageKnown, SeenKnown, AnswerKnown, OpenRead, Answered, Decided

\* What is known of the configuration, of the bytes under way, of what the
\* target read and of what forward_open returned, at every stage.
THEOREM Inductive == Spec => []Inv
<1>1. Init => Inv
  BY InitInv
<1>2. Inv /\ [Next]_vars => Inv'
  <2> SUFFICES ASSUME Inv, [Next]_vars PROVE Inv'
    OBVIOUS
  <2>1. CASE Convert
    BY <2>1, ConvertInv
  <2>2. CASE Refuse
    BY <2>2, RefuseInv
  <2>3. CASE SendOpen
    BY <2>3, SendOpenInv
  <2>4. CASE TargetReads
    BY <2>4, TargetReadsInv
  <2>5. CASE \E r \in Replies : TargetAnswers(r)
    BY <2>5, TargetAnswersInv
  <2>6. CASE Receive
    BY <2>6, ReceiveInv
  <2>7. CASE SendClose
    BY <2>7, SendCloseInv
  <2>8. CASE TargetReadsClose
    BY <2>8, TargetReadsCloseInv
  <2>9. CASE Finished \/ UNCHANGED vars
    BY <2>9, StutterInv DEF Finished
  <2> QED
    BY <2>1, <2>2, <2>3, <2>4, <2>5, <2>6, <2>7, <2>8, <2>9 DEF Next
<1> QED
  BY <1>1, <1>2, PTL DEF Spec

\* The sizes the target reads are those of the packets, as build_packet and
\* on_receive count them.
LEMMA SeesConfig == Inv => TargetSeesConfig
<1> SUFFICES ASSUME Inv, IsOpenRequest PROVE TargetSeesConfig
  BY DEF TargetSeesConfig
<1>1. ConfigType(config) /\ ~Refused(config) /\ OpenSeen(config, seen)
  BY DEF Inv, SeenKnown, IsOpenRequest, OpenRead
<1>2. config.class \in {0, 1}
  BY <1>1 DEF Refused
<1>3. ASSUME NEW dir
      PROVE  WireSize(config, dir)
               = (IF config.class = 1 THEN 2 ELSE 0) + (IF dir.run_idle THEN 4 ELSE 0) + dir.size
  <2>1. (config.class # 0) <=> (config.class = 1)
    BY <1>2
  <2> QED
    BY <2>1 DEF WireSize, HasSequenceCount
<1> QED
  BY <1>1, <1>3 DEF TargetSeesConfig, OpenSeen, ParamsOf

\* The connection manager's path, the serial number, the multiplier, both
\* directions' sizes and parameters, the intervals in whole microseconds that
\* fit 32 bits, and the transport byte: what the target reads from the bytes
\* forward_open sends is what the configuration says, given or made by
\* to_connection_config, for every configuration that forward_open accepts.
THEOREM SeesConfigured == Spec => []TargetSeesConfig
BY Inductive, SeesConfig, PTL

LEMMA ExactOrError ==
  ASSUME Handle # 0
  PROVE  Inv => ReplyExactOrError
<1> SUFFICES ASSUME Inv, outcome # Nothing, answer # Nothing PROVE ReplyExactOrError
  BY DEF ReplyExactOrError
<1> DEFINE r == answer.reply
           n == answer.kept
<1>1. /\ OutcomeOf(config, r, n, outcome)
      /\ OpenRead \/ seen.service = FORWARD_CLOSE
  BY DEF Inv, AnswerKnown, Decided
<1> HIDE DEF r, n
<1>2. seen.service # FORWARD_CLOSE => seen.multiplier = config.timeout_multiplier
  BY <1>1 DEF OpenRead, OpenSeen
<1>3. CASE outcome = Err
  <2>1. ~outcome.ok
    BY <1>3 DEF Err
  <2> QED
    BY <1>3, <2>1 DEF ReplyExactOrError
<1>4. CASE r.status # 0 /\ outcome = [ok |-> FALSE, status |-> r.status,
                                      additional |-> r.additional]
  <2>1. ~outcome.ok /\ outcome.status = r.status /\ outcome.additional = r.additional
    BY <1>4
  <2> QED
    BY <2>1 DEF ReplyExactOrError, r
<1>5. CASE /\ r.status = 0 /\ r.encaps_status = 0 /\ (Handle # 0 => r.handle = Handle)
           /\ \E items :
                /\ items = SockaddrItemsOf(r) \/ n = Len(ReplyBytes(r)) - 20
                /\ outcome = [ok |-> TRUE, reply |-> FieldsOf(r),
                              destination |-> Destination(items),
                              timeout |-> r.t2o_api * 4 * 2^config.timeout_multiplier]
  <2>1. PICK items :
          /\ items = SockaddrItemsOf(r) \/ n = Len(ReplyBytes(r)) - 20
          /\ outcome = [ok |-> TRUE, reply |-> FieldsOf(r),
                        destination |-> Destination(items),
                        timeout |-> r.t2o_api * 4 * 2^config.timeout_multiplier]
    BY <1>5
  <2> DEFINE t(m) == r.t2o_api * 4 * 2^m
             d == Destination(items)
  <2>2. outcome = [ok |-> TRUE, reply |-> FieldsOf(r), destination |-> d,
                   timeout |-> t(config.timeout_multiplier)]
    BY <2>1
  <2> HIDE DEF t, d
  <2>3. /\ outcome.ok /\ outcome.reply = FieldsOf(r) /\ outcome.destination = d
        /\ outcome.timeout = t(config.timeout_multiplier)
    BY <2>2
  <2>4. seen.service # FORWARD_CLOSE => outcome.timeout = t(seen.multiplier)
    BY <1>2, <2>3
  <2>5. d = Destination(SockaddrItemsOf(r)) \/ n = Len(ReplyBytes(r)) - 20
    BY <2>1 DEF d
  <2>6. r.status = 0 /\ r.encaps_status = 0 /\ r.handle = Handle
    BY <1>5
  <2>7. seen.service # FORWARD_CLOSE => outcome.timeout = r.t2o_api * 4 * 2^seen.multiplier
    BY <2>4 DEF t
  <2>8. outcome.reply = [ok |-> TRUE, o2t_id |-> r.o2t_id, t2o_id |-> r.t2o_id,
                         serial |-> SerialNumber, o2t_api |-> r.o2t_api,
                         t2o_api |-> r.t2o_api, application |-> r.application]
    BY <2>3 DEF FieldsOf
  <2>9. outcome.destination = Destination(SockaddrItemsOf(r)) \/ n = Len(ReplyBytes(r)) - 20
    BY <2>3, <2>5
  <2> QED
    BY <2>3, <2>6, <2>7, <2>8, <2>9, Zenon DEF ReplyExactOrError, r, n
<1> QED
  BY <1>1, <1>3, <1>4, <1>5 DEF OutcomeOf

\* For every reply and every length at which it is cut off, forward_open
\* returns an error, or the status, IDs, intervals, timeout and destination
\* that the target answered.  A session whose handle is zero accepts replies of
\* any session: SessionInfo compares the handles of no other.
THEOREM ExactReplies ==
  ASSUME Handle # 0
  PROVE  Spec => []ReplyExactOrError
<1>1. Inv => ReplyExactOrError
  BY ExactOrError
<1> QED
  BY <1>1, Inductive, PTL

=============================================================================
