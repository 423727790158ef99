------------------------ MODULE JtagUartChannelProofs ------------------------
(***************************************************************************)
(* The interrupt-driven driver of the JTAG UART implements the two         *)
(* abstract channels, for every buffer length, FIFO depth and character    *)
(* set: ChannelInv is inductive, and under it every step of program,       *)
(* handler, alarm and host is a step of each channel or none.              *)
(***************************************************************************)
EXTENDS JtagUartProofs, SequenceTheorems

-----------------------------------------------------------------------------
(* Sequences, as the channels take them apart. *)

(* A non-empty sequence is its first element and the rest.                 *)
LEMMA FirstAndRest ==
  ASSUME NEW S, NEW s \in Seq(S), s # <<>>
  PROVE  /\ Len(s) \in Nat \ {0}
         /\ Head(s) \in S /\ Head(s) = s[1]
         /\ Tail(s) \in Seq(S) /\ Tail(s) = SubSeq(s, 2, Len(s))
         /\ s = <<Head(s)>> \o Tail(s)
<1>1. Len(s) \in Nat \ {0}
  BY EmptySeq
<1>2. Head(s) \in S /\ Head(s) = s[1] /\ Tail(s) \in Seq(S)
  BY <1>1, HeadTailProperties, SMT
<1>3. Tail(s) = SubSeq(s, 2, Len(s))
  BY TailIsSubSeq
<1>4. s = <<s[1]>> \o SubSeq(s, 1 + 1, Len(s))
  <2>1. 1 \in 1 .. Len(s) /\ Len(s) \in 1 .. Len(s)
    BY <1>1
  <2>2. SubSeq(s, 1, Len(s)) = <<s[1]>> \o SubSeq(s, 1 + 1, Len(s))
    BY <2>1, SubSeqRecursiveFirst
  <2>3. SubSeq(s, 1, Len(s)) = s
    BY SubSeqFull
  <2> QED
    BY <2>2, <2>3
<1> QED
  BY <1>1, <1>2, <1>3, <1>4

(* The tail of two sequences put together is the tail of the first, then   *)
(* the second.                                                             *)
LEMMA TailOfConcat ==
  ASSUME NEW S, NEW s \in Seq(S), NEW t \in Seq(S), s # <<>>
  PROVE  s \o t # <<>> /\ Tail(s \o t) = Tail(s) \o t
<1> DEFINE whole == s \o t
<1>1. Tail(s) \in Seq(S) /\ Head(s) \in S /\ s = <<Head(s)>> \o Tail(s)
  BY FirstAndRest
<1>2. <<Head(s)>> \in Seq(S)
  BY <1>1
<1>3. whole = <<Head(s)>> \o (Tail(s) \o t)
  BY <1>1, <1>2, ConcatAssociative
<1>4. whole \in Seq(S) /\ Tail(s) \o t \in Seq(S)
  BY <1>1, ConcatProperties
<1>5. whole # <<>>
  BY ConcatEqualIffEmpty
<1>6. whole = <<Head(whole)>> \o Tail(whole) /\ Head(whole) = whole[1]
      /\ Tail(whole) \in Seq(S) /\ Head(whole) \in S
  BY <1>4, <1>5, FirstAndRest
<1>7. Head(whole) = Head(s)
  <2>1. whole[1] = s[1] /\ Head(s) = s[1]
    BY ConcatProperties, FirstAndRest
  <2> QED
    BY <1>6, <2>1
<1>8. Tail(whole) = Tail(s) \o t
  BY <1>2, <1>3, <1>4, <1>6, <1>7, ConcatSimplifications
<1> QED
  BY <1>5, <1>8

(* Adding to the second of two sequences adds to both put together.        *)
LEMMA AppendToConcat ==
  ASSUME NEW S, NEW s \in Seq(S), NEW t \in Seq(S), NEW e \in S
  PROVE  s \o Append(t, e) = Append(s \o t, e)
<1>1. <<e>> \in Seq(S) /\ s \o t \in Seq(S)
  BY ConcatProperties
<1>2. Append(t, e) = t \o <<e>>
  BY AppendIsConcat
<1>3. Append(s \o t, e) = (s \o t) \o <<e>>
  BY <1>1, AppendIsConcat
<1>4. (s \o t) \o <<e>> = s \o (t \o <<e>>)
  BY <1>1, ConcatAssociative
<1> QED
  BY <1>2, <1>3, <1>4

(* An element moved from the head of one sequence to the end of another    *)
(* stays in its place between them, also while the first one grows.        *)
LEMMA MoveBetween ==
  ASSUME NEW S, NEW s \in Seq(S), NEW e \in S, NEW r \in Seq(S), NEW a \in Seq(S)
  PROVE  (s \o <<e>>) \o (r \o a) = (s \o (<<e>> \o r)) \o a
<1>1. <<e>> \in Seq(S) /\ r \o a \in Seq(S) /\ <<e>> \o r \in Seq(S)
  BY ConcatProperties
<1>2. (s \o <<e>>) \o (r \o a) = s \o (<<e>> \o (r \o a))
  BY <1>1, ConcatAssociative
<1>3. (<<e>> \o r) \o a = <<e>> \o (r \o a)
  BY <1>1, ConcatAssociative
<1>4. (s \o (<<e>> \o r)) \o a = s \o ((<<e>> \o r) \o a)
  BY <1>1, ConcatAssociative
<1> QED
  BY <1>2, <1>3, <1>4

(* What is left of a sequence after its first m elements.                  *)
LEMMA RestOf ==
  ASSUME NEW S, NEW s \in Seq(S), NEW m \in Nat, m <= Len(s)
  PROVE  /\ SubSeq(s, m + 1, Len(s)) \in Seq(S)
         /\ Len(SubSeq(s, m + 1, Len(s))) = Len(s) - m
         /\ \A j \in 1 .. Len(s) - m : SubSeq(s, m + 1, Len(s))[j] = s[m + j]
<1> DEFINE rest == SubSeq(s, m + 1, Len(s))
<1>1. Len(s) \in Nat
  BY LenProperties
<1>2. \A j \in m + 1 .. Len(s) : s[j] \in S
  BY <1>1, ElementOfSeq
<1>3. m + 1 \in Int /\ Len(s) \in Int
  BY <1>1
<1>4. /\ rest \in Seq(S)
      /\ Len(rest) = IF m + 1 <= Len(s) THEN Len(s) - (m + 1) + 1 ELSE 0
      /\ \A j \in 1 .. Len(s) - (m + 1) + 1 : rest[j] = s[m + 1 + j - 1]
  BY <1>2, <1>3, SubSeqProperties
<1> HIDE DEF rest
<1>5. rest \in Seq(S) /\ Len(rest) = Len(s) - m
      /\ \A j \in 1 .. Len(s) - m : rest[j] = s[m + j]
  BY <1>1, <1>3, <1>4
<1> QED
  BY <1>5 DEF rest

(* The first m elements of a sequence.                                     *)
LEMMA Front ==
  ASSUME NEW S, NEW s \in Seq(S), NEW m \in Nat, m <= Len(s)
  PROVE  /\ SubSeq(s, 1, m) \in Seq(S)
         /\ Len(SubSeq(s, 1, m)) = m
         /\ \A j \in 1 .. m : SubSeq(s, 1, m)[j] = s[j]
<1> DEFINE front == SubSeq(s, 1, m)
<1>1. Len(s) \in Nat
  BY LenProperties
<1>2. \A j \in 1 .. m : s[j] \in S
  BY <1>1, ElementOfSeq
<1>3. 1 \in Int /\ m \in Int
  OBVIOUS
<1>4. /\ front \in Seq(S)
      /\ Len(front) = IF 1 <= m THEN m - 1 + 1 ELSE 0
      /\ \A j \in 1 .. m - 1 + 1 : front[j] = s[1 + j - 1]
  BY <1>2, <1>3, SubSeqProperties
<1> HIDE DEF front
<1>5. front \in Seq(S) /\ Len(front) = m /\ \A j \in 1 .. m : front[j] = s[j]
  BY <1>4
<1> QED
  BY <1>5 DEF front

(* Taking m elements off the front of two sequences put together takes     *)
(* them off the first.                                                     *)
LEMMA FrontOfConcat ==
  ASSUME NEW S, NEW s \in Seq(S), NEW t \in Seq(S), NEW m \in Nat,
         1 <= m, m <= Len(s)
  PROVE  /\ SubSeq(s \o t, 1, m) = SubSeq(s, 1, m)
         /\ SubSeq(s \o t, m + 1, Len(s \o t)) = SubSeq(s, m + 1, Len(s)) \o t
<1> DEFINE whole == s \o t
           rest  == SubSeq(s, m + 1, Len(s))
           last  == SubSeq(whole, m + 1, Len(whole))
           both  == rest \o t
<1>1. Len(s) \in Nat /\ Len(t) \in Nat /\ 1 \in 1 .. Len(s) /\ m \in 1 .. Len(s)
  BY LenProperties
<1>2. /\ whole \in Seq(S) /\ Len(whole) = Len(s) + Len(t)
      /\ \A j \in 1 .. Len(s) + Len(t) :
           whole[j] = IF j <= Len(s) THEN s[j] ELSE t[j - Len(s)]
  BY ConcatProperties
<1>3. SubSeq(whole, 1, m) = SubSeq(s, 1, m)
  BY <1>1, SubSeqOfConcat1
<1>4. rest \in Seq(S) /\ Len(rest) = Len(s) - m
      /\ \A j \in 1 .. Len(s) - m : rest[j] = s[m + j]
  BY RestOf
<1> HIDE DEF whole, rest
<1>5. last \in Seq(S) /\ Len(last) = Len(whole) - m
      /\ \A j \in 1 .. Len(whole) - m : last[j] = whole[m + j]
  BY <1>1, <1>2, RestOf
<1>6. both \in Seq(S) /\ Len(both) = Len(rest) + Len(t)
      /\ \A j \in 1 .. Len(rest) + Len(t) :
           both[j] = IF j <= Len(rest) THEN rest[j] ELSE t[j - Len(rest)]
  BY <1>4, ConcatProperties
<1> HIDE DEF last, both
<1>7. ASSUME NEW j \in 1 .. Len(last) PROVE last[j] = both[j]
  <2>1. j \in 1 .. Len(whole) - m /\ m + j \in 1 .. Len(s) + Len(t)
        /\ j \in 1 .. Len(rest) + Len(t)
    BY <1>1, <1>2, <1>4, <1>5
  <2>2. last[j] = IF m + j <= Len(s) THEN s[m + j] ELSE t[m + j - Len(s)]
    BY <1>2, <1>5, <2>1, SMTT(30)
  <2>3. CASE j <= Len(rest)
    <3>1. m + j <= Len(s) /\ j \in 1 .. Len(s) - m
      BY <1>1, <1>4, <2>1, <2>3
    <3> QED
      BY <1>4, <1>6, <2>1, <2>2, <2>3, <3>1
  <2>4. CASE ~(j <= Len(rest))
    <3>1. ~(m + j <= Len(s)) /\ j - Len(rest) = m + j - Len(s)
      BY <1>1, <1>4, <2>1, <2>4
    <3> QED
      BY <1>6, <2>1, <2>2, <2>4, <3>1
  <2> QED
    BY <2>3, <2>4
<1>8. Len(last) = Len(both)
  BY <1>1, <1>2, <1>4, <1>5, <1>6
<1>9. last = both
  BY <1>5, <1>6, <1>7, <1>8, SeqEqual
<1> QED
  BY <1>3, <1>9 DEF whole, rest, last, both

-----------------------------------------------------------------------------
(* The rings, whose indices only ever move forwards. *)

(* A position less than two lengths away comes back into the buffer.       *)
LEMMA WrapOnce ==
  ASSUME NEW x \in Nat, x < 2 * BufLen
  PROVE  /\ x < BufLen => Wrap(x) = x
         /\ x >= BufLen => Wrap(x) = x - BufLen
         /\ Wrap(x) \in Slots
<1>1. CASE x < BufLen
  BY <1>1, DriverAssumption, SMT DEF Wrap, Slots
<1>2. CASE x >= BufLen
  BY <1>2, DriverAssumption, SMT DEF Wrap, Slots
<1> QED
  BY <1>1, <1>2, DriverAssumption

(* One slot of a ring always stays free. *)
LEMMA UsedRange ==
  ASSUME NEW i \in Slots, NEW o \in Slots
  PROVE  Used(i, o) \in 0 .. BufLen - 1
  BY DriverAssumption DEF Used, Slots

(* A producer that adds m characters without filling the ring (write.c:126, *)
(* init.c:137) makes it m longer.                                          *)
LEMMA UsedGrows ==
  ASSUME NEW i \in Slots, NEW o \in Slots, NEW m \in Nat,
         i + m <= BufLen, Used(i, o) + m <= BufLen - 1
  PROVE  /\ Wrap(i + m) \in Slots
         /\ Used(Wrap(i + m), o) = Used(i, o) + m
<1>1. Wrap(i + m) = (IF i + m = BufLen THEN 0 ELSE i + m) /\ Wrap(i + m) \in Slots
  BY WrapPlus, DriverAssumption DEF Slots
<1> QED
  BY <1>1, DriverAssumption DEF Used, Slots

(* A consumer that takes m characters (read.c:140, init.c:178) leaves it m *)
(* shorter.                                                                *)
LEMMA UsedShrinks ==
  ASSUME NEW i \in Slots, NEW o \in Slots, NEW m \in Nat,
         o + m <= BufLen, m <= Used(i, o)
  PROVE  /\ Wrap(o + m) \in Slots
         /\ Used(i, Wrap(o + m)) = Used(i, o) - m
<1>1. Wrap(o + m) = (IF o + m = BufLen THEN 0 ELSE o + m) /\ Wrap(o + m) \in Slots
  BY WrapPlus, DriverAssumption DEF Slots
<1> QED
  BY <1>1, DriverAssumption DEF Used, Slots

(* The contents of a ring are a sequence of as many characters. *)
LEMMA RingType ==
  ASSUME NEW buf \in [Slots -> Byte], NEW i \in Slots, NEW o \in Slots
  PROVE  /\ Ring(buf, i, o) \in Seq(Byte)
         /\ Len(Ring(buf, i, o)) = Used(i, o)
         /\ \A j \in 1 .. Used(i, o) :
              /\ Wrap(o + j - 1) \in Slots
              /\ Ring(buf, i, o)[j] = buf[Wrap(o + j - 1)]
<1>1. Used(i, o) \in 0 .. BufLen - 1
  BY UsedRange
<1>2. \A j \in 1 .. Used(i, o) : Wrap(o + j - 1) \in Slots
  <2> SUFFICES ASSUME NEW j \in 1 .. Used(i, o) PROVE Wrap(o + j - 1) \in Slots
    OBVIOUS
  <2>1. o + j - 1 \in Nat /\ o + j - 1 < 2 * BufLen
    BY <1>1, DriverAssumption DEF Slots
  <2> QED
    BY <2>1, WrapOnce
<1>3. \A j \in 1 .. Used(i, o) : buf[Wrap(o + j - 1)] \in Byte
  BY <1>2
<1>4. Ring(buf, i, o) \in [1 .. Used(i, o) -> Byte]
  BY <1>3 DEF Ring
<1>5. Ring(buf, i, o) \in Seq(Byte) /\ Len(Ring(buf, i, o)) = Used(i, o)
  <2>1. Ring(buf, i, o) \in Seq(Byte) /\ DOMAIN Ring(buf, i, o) = 1 .. Used(i, o)
    BY <1>1, <1>4, DriverAssumption
  <2> QED
    BY <1>1, <2>1, LenProperties, DriverAssumption
<1> QED
  BY <1>2, <1>5 DEF Ring

(* Writing to slots outside the ring does not change its contents.         *)
LEMMA RingSame ==
  ASSUME NEW buf, NEW new, NEW i \in Slots, NEW o \in Slots,
         \A j \in 1 .. Used(i, o) : new[Wrap(o + j - 1)] = buf[Wrap(o + j - 1)]
  PROVE  Ring(new, i, o) = Ring(buf, i, o)
  BY DEF Ring

(* A slot at or behind the end of the ring, as far as there is room, is    *)
(* none of its slots.                                                      *)
LEMMA SlotOutside ==
  ASSUME NEW i \in Slots, NEW o \in Slots, NEW m \in Nat,
         i + m < BufLen, Used(i, o) + m <= BufLen - 1,
         NEW j \in 1 .. Used(i, o)
  PROVE  Wrap(o + j - 1) # i + m
<1>1. Used(i, o) \in 0 .. BufLen - 1
  BY UsedRange
<1> DEFINE x == o + j - 1
<1>2. x \in Nat /\ x < 2 * BufLen
  BY <1>1, DriverAssumption DEF Slots
<1> HIDE DEF x
<1>3. (x < BufLen => Wrap(x) = x) /\ (x >= BufLen => Wrap(x) = x - BufLen)
  BY <1>2, WrapOnce
<1>4. Wrap(x) # i + m
  BY <1>2, <1>3, DriverAssumption DEF Used, Slots, x
<1> QED
  BY <1>4 DEF x

(* What lies in the m slots behind the end of the ring becomes its last m  *)
(* characters when the producer's index passes over them.                  *)
LEMMA RingGrows ==
  ASSUME NEW buf \in [Slots -> Byte], NEW i \in Slots, NEW o \in Slots,
         NEW s \in Seq(Byte), i + Len(s) <= BufLen,
         Used(i, o) + Len(s) <= BufLen - 1,
         \A j \in 1 .. Len(s) : buf[i + j - 1] = s[j]
  PROVE  Ring(buf, Wrap(i + Len(s)), o) = Ring(buf, i, o) \o s
<1> DEFINE old  == Ring(buf, i, o)
           used == Used(i, o)
           end  == Wrap(i + Len(s))
           new  == Ring(buf, end, o)
           both == old \o s
<1>1. Len(s) \in Nat /\ used \in 0 .. BufLen - 1
  BY UsedRange, LenProperties
<1>2. end \in Slots /\ Used(end, o) = used + Len(s)
  BY <1>1, UsedGrows
<1>3. /\ old \in Seq(Byte) /\ Len(old) = used
      /\ \A j \in 1 .. used : old[j] = buf[Wrap(o + j - 1)]
  BY RingType
<1>4. /\ new \in Seq(Byte) /\ Len(new) = used + Len(s)
      /\ \A j \in 1 .. used + Len(s) : new[j] = buf[Wrap(o + j - 1)]
  <2> HIDE DEF end
  <2> QED
    BY <1>2, RingType
<1> HIDE DEF old, end, new
<1>5. /\ both \in Seq(Byte) /\ Len(both) = used + Len(s)
      /\ \A j \in 1 .. used + Len(s) :
           both[j] = IF j <= used THEN old[j] ELSE s[j - used]
  <2>1. /\ both \in Seq(Byte) /\ Len(both) = Len(old) + Len(s)
        /\ \A j \in 1 .. Len(old) + Len(s) :
             both[j] = IF j <= Len(old) THEN old[j] ELSE s[j - Len(old)]
    BY <1>3, ConcatProperties
  <2> HIDE DEF both, used
  <2> QED
    BY <1>3, <2>1
<1> HIDE DEF both
<1>6. ASSUME NEW j \in 1 .. used + Len(s)
      PROVE  new[j] = both[j]
  <2>1. CASE j <= used
    <3>1. j \in 1 .. used
      BY <1>1, <2>1, DriverAssumption
    <3> HIDE DEF used
    <3> QED
      BY <1>3, <1>4, <1>5, <2>1, <3>1
  <2>2. CASE j > used
    <3> DEFINE d == j - used
               x == o + j - 1
    <3>1. d \in 1 .. Len(s) /\ j = used + d
      BY <1>1, <2>2, DriverAssumption
    <3>2. x \in Nat /\ x < 2 * BufLen
      BY <1>1, DriverAssumption DEF Slots
    <3> HIDE DEF x
    <3>3. (x < BufLen => Wrap(x) = x) /\ (x >= BufLen => Wrap(x) = x - BufLen)
      BY <3>2, WrapOnce
    <3>4. Wrap(x) = i + d - 1
      BY <1>1, <3>1, <3>2, <3>3, DriverAssumption DEF Used, Slots, x
    <3> HIDE DEF d
    <3>5. buf[i + d - 1] = s[d]
      BY <3>1
    <3>6. both[j] = s[d]
      BY <1>1, <1>5, <2>2, DriverAssumption DEF d
    <3>7. new[j] = buf[Wrap(x)]
      BY <1>4 DEF x
    <3> QED
      BY <3>4, <3>5, <3>6, <3>7
  <2> QED
    BY <1>1, <2>1, <2>2, DriverAssumption
<1>7. new = both
  BY <1>4, <1>5, <1>6, SeqEqual
<1> QED
  BY <1>7 DEF new, old, end, both

(* The first m characters of the ring lie in the m slots from the          *)
(* consumer's index on; when that passes over them, the rest is left.      *)
LEMMA RingShrinks ==
  ASSUME NEW buf \in [Slots -> Byte], NEW i \in Slots, NEW o \in Slots,
         NEW m \in Nat, o + m <= BufLen, m <= Used(i, o)
  PROVE  /\ \A j \in 1 .. m : Ring(buf, i, o)[j] = buf[o + j - 1]
         /\ Ring(buf, i, Wrap(o + m)) = SubSeq(Ring(buf, i, o), m + 1, Used(i, o))
<1> DEFINE old   == Ring(buf, i, o)
           used  == Used(i, o)
           start == Wrap(o + m)
           new   == Ring(buf, i, start)
           rest  == SubSeq(old, m + 1, used)
<1>1. used \in 0 .. BufLen - 1
  BY UsedRange
<1>2. start \in Slots /\ Used(i, start) = used - m
      /\ start = IF o + m = BufLen THEN 0 ELSE o + m
  <2>1. m \in 0 .. BufLen
    BY DriverAssumption DEF Slots
  <2> QED
    BY <2>1, UsedShrinks, WrapPlus
<1>3. /\ old \in Seq(Byte) /\ Len(old) = used
      /\ \A j \in 1 .. used : old[j] = buf[Wrap(o + j - 1)]
  BY RingType
<1>4. /\ new \in Seq(Byte) /\ Len(new) = used - m
      /\ \A j \in 1 .. used - m : new[j] = buf[Wrap(start + j - 1)]
  <2> HIDE DEF start
  <2>1. /\ new \in Seq(Byte) /\ Len(new) = Used(i, start)
        /\ \A j \in 1 .. Used(i, start) : new[j] = buf[Wrap(start + j - 1)]
    BY <1>2, RingType
  <2> HIDE DEF used, new
  <2> QED
    BY <1>2, <2>1
<1> HIDE DEF old, new
<1>5. ASSUME NEW j \in 1 .. m PROVE old[j] = buf[o + j - 1]
  <2> DEFINE x == o + j - 1
  <2>1. j \in 1 .. used /\ x \in Nat /\ x < BufLen
    BY <1>1, DriverAssumption DEF Slots
  <2> HIDE DEF x
  <2>2. Wrap(x) = x
    BY <2>1, WrapOnce, DriverAssumption
  <2> QED
    BY <1>3, <2>1, <2>2 DEF x
<1>6. /\ rest \in Seq(Byte) /\ Len(rest) = used - m
      /\ \A j \in 1 .. used - m : rest[j] = old[m + j]
  BY <1>3, RestOf
<1> HIDE DEF rest
<1>7. ASSUME NEW j \in 1 .. used - m
      PROVE  new[j] = rest[j]
  <2> DEFINE x == o + (m + j) - 1
             y == start + j - 1
  <2>1. m + j \in 1 .. used
    BY <1>1, DriverAssumption
  <2>2. x \in Nat /\ x < 2 * BufLen /\ y \in Nat /\ y < 2 * BufLen
    BY <1>1, <1>2, <2>1, DriverAssumption, SMTT(30) DEF Slots
  <2>3. old[m + j] = buf[Wrap(x)] /\ new[j] = buf[Wrap(y)]
    BY <1>3, <1>4, <2>1
  <2> HIDE DEF x, y
  <2>4. /\ x < BufLen => Wrap(x) = x
        /\ x >= BufLen => Wrap(x) = x - BufLen
        /\ y < BufLen => Wrap(y) = y
        /\ y >= BufLen => Wrap(y) = y - BufLen
    BY <2>2, WrapOnce
  <2> HIDE DEF start
  <2>5. Wrap(x) = Wrap(y)
    BY <1>1, <1>2, <2>1, <2>2, <2>4, DriverAssumption DEF Slots, Used, x, y
  <2> QED
    BY <1>6, <2>3, <2>5
<1>8. new = rest
  BY <1>4, <1>6, <1>7, SeqEqual
<1> QED
  BY <1>5, <1>8 DEF new, old, rest

-----------------------------------------------------------------------------
(* The invariant behind the refinements. *)

(* A receive ring that is not full has room for one more character         *)
(* (init.c:128-139), which goes into the slot behind its end.              *)
LEMMA ReceiveRoom ==
  ASSUME TypeOK, ~RxFull
  PROVE  Used(rx_in, rx_out) + 1 <= BufLen - 1
  BY DriverAssumption, WrapNext DEF TypeOK, StateTypeOK, RxFull, Used, Slots

(* A call's variables are cleared on return, and nothing else touches them *)
(* outside the call that uses them.                                        *)
LEMMA CallStep ==
  ASSUME TypeOK, PlaceInv, CallInv, [Next]_vars
  PROVE  CallInv'
<1> USE DEF CallInv, PlaceInv, BootPcs, ReadPcs, WritePcs, EnablePcs, device,
     state, frame, task, isrvars, At
<1>1. CASE StartCall
  BY <1>1 DEF StartCall, ReadCall, WriteCall, CloseCall, IoctlSetTimeout,
       Return
<1>2. CASE Booting
  BY <1>2 DEF Booting, InitDevice, InitRegister, InitAlarm
<1>3. CASE Reading
  BY <1>3 DEF Reading, ReadSnap, ReadCopy, ReadPublish, ReadSpin, ReadCheck,
       ReadReturn, Return
<1>4. CASE Writing
  BY <1>4 DEF Writing, WriteSnap, WriteCopy, WritePublish, WriteSpin,
       WriteCheck, WriteReturn, Return
<1>5. CASE Enabling
  BY <1>5 DEF Enabling, EnableDisableAll, EnableLoad, EnableStore, EnableIowr,
       EnableAll
<1>6. CASE CloseWait
  BY <1>6 DEF CloseWait, Return
<1>7. CASE Handler
  BY <1>7 DEF Handler, IsrEnter, IsrControl, IsrReceive, IsrReceiveFull,
       IsrReceiveEnd, IsrTransmit, IsrTransmitEnd, TimeoutClear
<1>8. CASE TimeoutCheck
  BY <1>8 DEF TimeoutCheck
<1>9. CASE HostStep
  BY <1>9 DEF HostStep
<1>10. CASE UNCHANGED vars
  BY <1>10 DEF vars
<1> QED
  BY <1>1, <1>2, <1>3, <1>4, <1>5, <1>6, <1>7, <1>8, <1>9, <1>10 DEF Next,
       Program

(* While write copies, the handler only takes characters out of the ring,  *)
(* so the room write saw stays, and nobody touches what it has copied.     *)
LEMMA WriteWindowStep ==
  ASSUME TypeOK, PlaceInv, WriteInv, WriteWindow, [Next]_vars
  PROVE  WriteWindow'
<1> USE DEF WriteWindow, TxCount, device, state, frame, task, isrvars, At
<1>1. CASE StartCall
  BY <1>1 DEF StartCall, ReadCall, WriteCall, CloseCall, IoctlSetTimeout
<1>2. CASE Booting
  BY <1>2 DEF Booting, InitDevice, InitRegister, InitAlarm
<1>3. CASE Reading
  BY <1>3 DEF Reading, ReadSnap, ReadCopy, ReadPublish, ReadSpin, ReadCheck,
       ReadReturn
<1>4. CASE Writing
  <2>1. CASE WriteSnap
    <3>1. tx_in \in Slots /\ tx_out \in Slots /\ Len(src) \in Nat
      BY LenProperties DEF TypeOK, StateTypeOK, CallTypeOK
    <3>2. Used(tx_in, tx_out) + TxRun(tx_in, tx_out) <= BufLen - 1
          /\ TxRun(tx_in, tx_out) \in Nat
      BY <3>1, DriverAssumption DEF Used, TxRun, Slots
    <3>3. n' \in Nat /\ n' <= TxRun(tx_in, tx_out)
      BY <2>1, <3>1, <3>2 DEF WriteSnap, AtMost
    <3>4. Used(tx_in, tx_out) + n' <= BufLen - 1
      BY <3>1, <3>2, <3>3, UsedRange, DriverAssumption
    <3>5. \A j \in 1 .. 0 : FALSE
      OBVIOUS
    <3> QED
      BY <2>1, <3>4, <3>5 DEF WriteSnap
  <2>2. CASE WriteCopy
    <3>1. /\ k \in Nat /\ n \in Nat /\ k < n /\ in + n <= BufLen /\ in \in Slots
          /\ tx_buf \in [Slots -> Byte]
      BY <2>2 DEF WriteCopy, WriteInv, TypeOK, CallTypeOK, StateTypeOK
    <3>2. \A j \in 1 .. k + 1 : in + j - 1 \in Slots
      BY <3>1, DriverAssumption DEF Slots
    <3>3. \A j \in 1 .. k : in + j - 1 # in + k /\ tx_buf[in + j - 1] = src[j]
      BY <2>2, <3>1, DriverAssumption DEF WriteCopy, Slots
    <3>4. tx_buf' = [tx_buf EXCEPT ![in + k] = src[k + 1]] /\ UNCHANGED <<in, src, n>>
      BY <2>2 DEF WriteCopy
    <3>5. ASSUME NEW j \in 1 .. k + 1
          PROVE  tx_buf'[in + j - 1] = src[j]
      <4>1. CASE j = k + 1
        <5>1. in + j - 1 = in + k
          BY <3>1, <4>1, DriverAssumption DEF Slots
        <5> QED
          BY <3>1, <3>2, <3>4, <4>1, <5>1
      <4>2. CASE j # k + 1
        <5>1. j \in 1 .. k
          BY <3>1, <4>2
        <5> QED
          BY <3>1, <3>2, <3>3, <3>4, <5>1
      <4> QED
        BY <4>1, <4>2
    <3> QED
      BY <2>2, <3>4, <3>5 DEF WriteCopy
  <2>3. CASE WritePublish \/ WriteSpin \/ WriteCheck \/ WriteReturn
    BY <2>3 DEF WritePublish, WriteSpin, WriteCheck, WriteReturn
  <2> QED
    BY <1>4, <2>1, <2>2, <2>3 DEF Writing
<1>5. CASE Enabling
  BY <1>5 DEF Enabling, EnableDisableAll, EnableLoad, EnableStore, EnableIowr,
       EnableAll
<1>6. CASE CloseWait
  BY <1>6 DEF CloseWait
<1>7. CASE Handler
  <2>1. CASE IsrTransmit
    <3>1. tx_in \in Slots /\ tx_out \in Slots /\ tx_out' = Wrap(tx_out + 1)
          /\ UNCHANGED <<tx_in, tx_buf, pc, frame>>
      BY <2>1 DEF IsrTransmit, TypeOK, StateTypeOK
    <3>2. tx_out + 1 <= BufLen /\ 1 <= Used(tx_in, tx_out)
      BY <2>1, <3>1, DriverAssumption DEF IsrTransmit, Used, Slots
    <3>3. Used(tx_in, tx_out') = Used(tx_in, tx_out) - 1
      BY <3>1, <3>2, UsedShrinks
    <3>4. Used(tx_in, tx_out) \in Nat /\ n \in Nat
      BY <3>1, UsedRange, DriverAssumption DEF TypeOK, CallTypeOK
    <3> QED
      BY <3>1, <3>3, <3>4, DriverAssumption
  <2>2. CASE ~IsrTransmit
    BY <1>7, <2>2 DEF Handler, IsrEnter, IsrControl, IsrReceive, IsrReceiveFull,
         IsrReceiveEnd, IsrTransmitEnd, TimeoutClear
  <2> QED
    BY <2>1, <2>2
<1>8. CASE TimeoutCheck
  BY <1>8 DEF TimeoutCheck
<1>9. CASE HostStep
  BY <1>9 DEF HostStep
<1>10. CASE UNCHANGED vars
  BY <1>10 DEF vars
<1> QED
  BY <1>1, <1>2, <1>3, <1>4, <1>5, <1>6, <1>7, <1>8, <1>9, <1>10 DEF Next,
       Program

(* While read copies, the handler only adds characters behind the ring's   *)
(* end, so what read saw stays there until it gives the slots up.          *)
LEMMA ReadWindowStep ==
  ASSUME TypeOK, PlaceInv, ReadInv, CallInv, ReadWindow, [Next]_vars
  PROVE  ReadWindow'
<1> USE DEF ReadWindow, device, state, frame, task, isrvars, At
<1>1. CASE StartCall
  BY <1>1 DEF StartCall, ReadCall, WriteCall, CloseCall, IoctlSetTimeout,
       Return, CallInv
<1>2. CASE Booting
  BY <1>2 DEF Booting, InitDevice, InitRegister, InitAlarm
<1>3. CASE Reading
  <2>1. CASE ReadSnap
    BY <2>1, DriverAssumption DEF ReadSnap, TypeOK, StateTypeOK, CallTypeOK,
         Slots, AtMost, RxRun, Used, PlaceInv, ReadPcs
  <2>2. CASE ReadCopy
    <3>1. /\ k \in Nat /\ n \in Nat /\ k < n /\ out + n <= BufLen /\ out \in Slots
          /\ moved \in Nat /\ ubuf \in Seq(Byte) /\ Len(ubuf) = moved + k
          /\ rx_buf \in [Slots -> Byte]
      BY <2>2 DEF ReadCopy, ReadInv, TypeOK, CallTypeOK, StateTypeOK
    <3>2. out + k \in Slots
      BY <3>1, DriverAssumption DEF Slots
    <3>3. rx_buf[out + k] \in Byte
      BY <3>1, <3>2
    <3>4. ubuf' = Append(ubuf, rx_buf[out + k])
          /\ UNCHANGED <<out, moved, n, rx_buf, rx_in, rx_out>>
      BY <2>2 DEF ReadCopy
    <3>5. /\ Len(ubuf') = moved + (k + 1)
          /\ \A j \in 1 .. moved + k : ubuf'[j] = ubuf[j]
          /\ ubuf'[moved + k + 1] = rx_buf[out + k]
      BY <3>1, <3>3, <3>4, AppendProperties, SMTT(30)
    <3>6. ASSUME NEW j \in 1 .. k + 1
          PROVE  ubuf'[moved + j] = rx_buf[out + j - 1]
      <4>1. CASE j = k + 1
        <5>1. moved + j = moved + k + 1 /\ out + j - 1 = out + k
          BY <3>1, <4>1, DriverAssumption DEF Slots
        <5> QED
          BY <3>5, <5>1
      <4>2. CASE j # k + 1
        <5>1. j \in 1 .. k /\ moved + j \in 1 .. moved + k
          BY <3>1, <4>2
        <5>2. ubuf[moved + j] = rx_buf[out + j - 1]
          BY <2>2, <5>1 DEF ReadCopy
        <5> QED
          BY <3>5, <5>1, <5>2
      <4> QED
        BY <4>1, <4>2
    <3> QED
      BY <2>2, <3>4, <3>5, <3>6 DEF ReadCopy
  <2>3. CASE ReadPublish
    BY <2>3 DEF ReadPublish, TypeOK, CallTypeOK
  <2>4. CASE ReadSpin
    BY <2>4 DEF ReadSpin
  <2>5. CASE ReadCheck
    BY <2>5 DEF ReadCheck
  <2>6. CASE ReadReturn
    BY <2>6, EmptySeq DEF ReadReturn, Return
  <2> QED
    BY <1>3, <2>1, <2>2, <2>3, <2>4, <2>5, <2>6 DEF Reading
<1>4. CASE Writing
  BY <1>4 DEF Writing, WriteSnap, WriteCopy, WritePublish, WriteSpin,
       WriteCheck, WriteReturn, PlaceInv, WritePcs
<1>5. CASE Enabling
  BY <1>5 DEF Enabling, EnableDisableAll, EnableLoad, EnableStore, EnableIowr,
       EnableAll
<1>6. CASE CloseWait
  BY <1>6 DEF CloseWait, CallInv
<1>7. CASE Handler
  <2>1. CASE IsrReceive /\ rfifo # <<>> /\ pc \in {"r_copy", "r_publish"}
    <3>1. /\ rx_in \in Slots /\ rx_out \in Slots /\ rx_buf \in [Slots -> Byte]
          /\ n \in Nat /\ k \in Nat /\ moved \in Nat
      BY DEF TypeOK, StateTypeOK, CallTypeOK
    <3>2. /\ rx_in' = Wrap(rx_in + 1)
          /\ rx_buf' = [rx_buf EXCEPT ![rx_in] = Head(rfifo)]
          /\ UNCHANGED <<rx_out, pc, frame>>
      BY <2>1 DEF IsrReceive
    <3>3. Used(rx_in, rx_out) + 1 <= BufLen - 1 /\ rx_in + 1 <= BufLen
      BY <2>1, <3>1, ReceiveRoom, DriverAssumption DEF IsrReceive, Slots
    <3>4. Used(rx_in', rx_out') = Used(rx_in, rx_out) + 1
      BY <3>1, <3>2, <3>3, UsedGrows
    <3>5. Used(rx_in, rx_out) \in Nat
      BY <3>1, UsedRange, DriverAssumption
    <3>6. k <= n /\ out + n <= BufLen /\ out = rx_out /\ n <= Used(rx_in, rx_out)
      BY <2>1, <3>1 DEF ReadInv
    <3>7. ASSUME NEW j \in 1 .. k
          PROVE  rx_buf'[out + j - 1] = rx_buf[out + j - 1]
      <4>1. out + j - 1 \in Slots /\ out + j - 1 # rx_in
        BY <3>1, <3>3, <3>6, DriverAssumption DEF Slots, Used
      <4> QED
        BY <3>1, <3>2, <4>1
    <3> QED
      BY <2>1, <3>1, <3>2, <3>4, <3>5, <3>6, <3>7, DriverAssumption
  <2>2. CASE IsrReceive /\ (rfifo = <<>> \/ pc \notin {"r_copy", "r_publish"})
    BY <2>2 DEF IsrReceive
  <2>3. CASE ~IsrReceive
    BY <1>7, <2>3 DEF Handler, IsrEnter, IsrControl, IsrReceiveFull,
         IsrReceiveEnd, IsrTransmit, IsrTransmitEnd, TimeoutClear
  <2> QED
    BY <2>1, <2>2, <2>3
<1>8. CASE TimeoutCheck
  BY <1>8 DEF TimeoutCheck
<1>9. CASE HostStep
  BY <1>9 DEF HostStep
<1>10. CASE UNCHANGED vars
  BY <1>10 DEF vars
<1> QED
  BY <1>1, <1>2, <1>3, <1>4, <1>5, <1>6, <1>7, <1>8, <1>9, <1>10 DEF Next,
       Program

(* ChannelInv holds in every reachable state. *)
THEOREM ChannelInvariance == Spec => []ChannelInv
<1>1. Init => ChannelInv
  <2> SUFFICES ASSUME Init PROVE ChannelInv
    OBVIOUS
  <2>1. IInv
    BY InitIInv
  <2>2. CallInv /\ WriteWindow /\ ReadWindow
    BY DEF Init, CallInv, WriteWindow, ReadWindow, ReadPcs, WritePcs, EnablePcs
  <2> QED
    BY <2>1, <2>2 DEF ChannelInv
<1>2. ChannelInv /\ [Next]_vars => ChannelInv'
  BY NextIInv, CallStep, WriteWindowStep, ReadWindowStep DEF ChannelInv, IInv
<1> QED
  BY <1>1, <1>2, PTL DEF Spec

-----------------------------------------------------------------------------
(* The transmit half: wfifo, then the ring. *)

ToHost == wfifo \o Ring(tx_buf, tx_in, tx_out)

(* What is on its way to the host fits into FIFO and ring. *)
LEMMA ToHostType ==
  ASSUME TypeOK
  PROVE  /\ Ring(tx_buf, tx_in, tx_out) \in Seq(Byte)
         /\ Len(Ring(tx_buf, tx_in, tx_out)) = TxCount
         /\ TxCount \in 0 .. BufLen - 1
         /\ wfifo \in Seq(Byte) /\ Len(wfifo) \in 0 .. Depth
         /\ ToHost \in Seq(Byte) /\ Len(ToHost) = Len(wfifo) + TxCount
<1>1. tx_in \in Slots /\ tx_out \in Slots /\ tx_buf \in [Slots -> Byte]
      /\ wfifo \in Seq(Byte) /\ Len(wfifo) <= Depth
  BY DEF TypeOK, StateTypeOK, DeviceTypeOK
<1>2. /\ Ring(tx_buf, tx_in, tx_out) \in Seq(Byte)
      /\ Len(Ring(tx_buf, tx_in, tx_out)) = TxCount
      /\ TxCount \in 0 .. BufLen - 1
  BY <1>1, RingType, UsedRange DEF TxCount
<1>3. ToHost \in Seq(Byte) /\ Len(ToHost) = Len(wfifo) + Len(Ring(tx_buf, tx_in, tx_out))
  BY <1>1, <1>2, ConcatProperties DEF ToHost
<1> QED
  BY <1>1, <1>2, <1>3, DeviceAssumption, LenProperties

(* write copies into slots the handler does not look at yet. *)
LEMMA CopyKeepsOrder ==
  ASSUME ChannelInv, WriteCopy
  PROVE  ToHost' = ToHost
<1>1. /\ tx_in \in Slots /\ tx_out \in Slots /\ tx_buf \in [Slots -> Byte]
      /\ in = tx_in /\ in + n <= BufLen /\ k \in Nat /\ n \in Nat /\ k < n
      /\ Used(tx_in, tx_out) + n <= BufLen - 1
  BY DEF WriteCopy, At, ChannelInv, IInv, TypeOK, StateTypeOK, CallTypeOK, WriteInv,
     WriteWindow, TxCount
<1>2. tx_in + k < BufLen /\ Used(tx_in, tx_out) + k <= BufLen - 1 /\ tx_in + k \in Slots
  <2>1. Used(tx_in, tx_out) \in 0 .. BufLen - 1
    BY <1>1, UsedRange
  <2> QED
    BY <1>1, <2>1, DriverAssumption DEF Slots
<1>3. tx_buf' = [tx_buf EXCEPT ![tx_in + k] = src[k + 1]]
      /\ UNCHANGED <<tx_in, tx_out, wfifo>>
  BY <1>1 DEF WriteCopy, device
<1>4. ASSUME NEW j \in 1 .. Used(tx_in, tx_out)
      PROVE  tx_buf'[Wrap(tx_out + j - 1)] = tx_buf[Wrap(tx_out + j - 1)]
  <2>1. Wrap(tx_out + j - 1) # tx_in + k
    BY <1>1, <1>2, SlotOutside
  <2>2. Wrap(tx_out + j - 1) \in Slots
    BY <1>1, RingType
  <2> QED
    BY <1>1, <1>3, <2>1, <2>2
<1>5. Ring(tx_buf', tx_in, tx_out) = Ring(tx_buf, tx_in, tx_out)
  BY <1>1, <1>4, RingSame
<1> QED
  BY <1>3, <1>5 DEF ToHost

(* Publishing the copied window hands the channel the front of what write  *)
(* has still to send, and there is room for it.                            *)
LEMMA PublishAccepts ==
  ASSUME ChannelInv, WritePublish
  PROVE  n \in 1 .. Len(src) /\ Writes!Accept(n)
<1> DEFINE ring == Ring(tx_buf, tx_in, tx_out)
           part == SubSeq(src, 1, n)
<1>1. /\ tx_in \in Slots /\ tx_out \in Slots /\ tx_buf \in [Slots -> Byte]
      /\ in = tx_in /\ in + n <= BufLen /\ n \in Nat /\ n > 0 /\ k = n
      /\ TxCount + n <= BufLen - 1 /\ src \in Seq(Byte) /\ n <= Len(src)
      /\ \A j \in 1 .. n : tx_buf[tx_in + j - 1] = src[j]
  BY DEF WritePublish, At, ChannelInv, IInv, TypeOK, StateTypeOK, CallTypeOK, WriteInv,
     WriteWindow
<1>2. n \in 1 .. Len(src)
  BY <1>1, LenProperties
<1>3. part \in Seq(Byte) /\ Len(part) = n /\ \A j \in 1 .. n : part[j] = src[j]
  BY <1>1, Front
<1> HIDE DEF part
<1>4. Ring(tx_buf, Wrap(tx_in + n), tx_out) = ring \o part
  <2>1. \A j \in 1 .. Len(part) : tx_buf[tx_in + j - 1] = part[j]
    BY <1>1, <1>3
  <2>2. tx_in + Len(part) <= BufLen /\ Used(tx_in, tx_out) + Len(part) <= BufLen - 1
    BY <1>1, <1>3 DEF TxCount
  <2>3. Ring(tx_buf, Wrap(tx_in + Len(part)), tx_out) = ring \o part
    BY <1>1, <1>3, <2>1, <2>2, RingGrows
  <2> QED
    BY <1>3, <2>3
<1>5. /\ tx_in' = Wrap(tx_in + n) /\ moved' = moved + n
      /\ src' = SubSeq(src, n + 1, Len(src))
      /\ UNCHANGED <<wfifo, tx_buf, tx_out, ret, op>>
      /\ op = "write"
  BY <1>1 DEF WritePublish, At, ChannelInv, IInv, PlaceInv, WritePcs, device
<1>6. ring \in Seq(Byte) /\ wfifo \in Seq(Byte) /\ Len(ToHost) = Len(wfifo) + TxCount
      /\ Len(wfifo) \in 0 .. Depth /\ TxCount \in 0 .. BufLen - 1
  BY ToHostType DEF ChannelInv, IInv
<1>7. ToHost' = ToHost \o part
  <2>1. ToHost' = wfifo \o (ring \o part)
    BY <1>4, <1>5 DEF ToHost
  <2>2. (wfifo \o ring) \o part = wfifo \o (ring \o part)
    BY <1>3, <1>6, ConcatAssociative, SMTT(30)
  <2> QED
    BY <2>1, <2>2, SMTT(30) DEF ToHost
<1>8. Len(ToHost) + n <= Depth + BufLen - 1
  BY <1>1, <1>6, DeviceAssumption, DriverAssumption
<1> QED
  BY <1>2, <1>5, <1>7, <1>8 DEF Writes!Accept, ToHost, part

(* The handler moves the oldest character of the ring to the end of the    *)
(* FIFO, which has room for it.                                            *)
LEMMA TransmitKeepsOrder ==
  ASSUME ChannelInv, IsrTransmit
  PROVE  ToHost' = ToHost
<1> DEFINE ring == Ring(tx_buf, tx_in, tx_out)
<1>1. /\ tx_in \in Slots /\ tx_out \in Slots /\ tx_buf \in [Slots -> Byte]
      /\ tx_out # tx_in /\ Len(wfifo) < Depth
      /\ tx_out' = Wrap(tx_out + 1) /\ UNCHANGED <<tx_in, tx_buf>>
  <2>1. wroom > 0 /\ wroom <= Depth - Len(wfifo) /\ wroom \in Nat /\ Len(wfifo) \in Nat
    BY ToHostType, DeviceAssumption
       DEF IsrTransmit, ChannelInv, IInv, HandlerInv, wspace, TypeOK, HandlerTypeOK
  <2>2. Len(wfifo) < Depth
    BY <2>1, DeviceAssumption
  <2> QED
    BY <2>2 DEF IsrTransmit, ChannelInv, IInv, TypeOK, StateTypeOK
<1>2. ring \in Seq(Byte) /\ wfifo \in Seq(Byte) /\ Len(ring) = Used(tx_in, tx_out)
  BY ToHostType DEF ChannelInv, IInv, TxCount
<1>3. tx_out + 1 <= BufLen /\ 1 <= Used(tx_in, tx_out)
  BY <1>1, DriverAssumption DEF Used, Slots
<1>4. /\ ring[1] = tx_buf[tx_out]
      /\ Ring(tx_buf, tx_in, Wrap(tx_out + 1)) = SubSeq(ring, 2, Len(ring))
  <2>1. 1 \in Nat /\ 1 \in 1 .. 1 /\ 1 + 1 = 2
    OBVIOUS
  <2>2. /\ \A j \in 1 .. 1 : ring[j] = tx_buf[tx_out + j - 1]
        /\ Ring(tx_buf, tx_in, Wrap(tx_out + 1)) = SubSeq(ring, 1 + 1, Used(tx_in, tx_out))
    BY <1>1, <1>3, <2>1, RingShrinks, Zenon
  <2>3. ring[1] = tx_buf[tx_out + 1 - 1] /\ tx_out + 1 - 1 = tx_out
    BY <1>1, <2>1, <2>2, DriverAssumption DEF Slots
  <2> QED
    BY <1>2, <2>1, <2>2, <2>3
<1>5. ring # <<>>
  BY <1>2, <1>3, EmptySeq
<1> HIDE DEF ring
<1>6. ring = <<ring[1]>> \o SubSeq(ring, 2, Len(ring)) /\ ring[1] \in Byte
      /\ SubSeq(ring, 2, Len(ring)) \in Seq(Byte)
  BY <1>2, <1>5, FirstAndRest
<1>7. wfifo' = wfifo \o <<ring[1]>>
  <2>1. wfifo' = Append(wfifo, ring[1])
    BY <1>1, <1>4 DEF IsrTransmit, WriteData
  <2> QED
    BY <1>2, <1>6, <2>1, AppendIsConcat
<1>8. (wfifo \o <<ring[1]>>) \o SubSeq(ring, 2, Len(ring))
        = wfifo \o (<<ring[1]>> \o SubSeq(ring, 2, Len(ring)))
  BY <1>2, <1>6, ConcatAssociative, SMTT(30)
<1>9. ToHost' = wfifo' \o SubSeq(ring, 2, Len(ring))
  BY <1>1, <1>4 DEF ToHost
<1> QED
  BY <1>6, <1>7, <1>8, <1>9 DEF ToHost, ring

(* The host takes the oldest character. *)
LEMMA HostTakesOldest ==
  ASSUME ChannelInv, r_ena, UNCHANGED <<tx_buf, tx_in, tx_out>>
  PROVE  ToHost # <<>> /\ ToHost' = Tail(ToHost)
  BY ToHostType, TailOfConcat DEF ToHost, r_ena, ChannelInv, IInv

(* The writes of the interrupt-driven driver implement WriteChannel: every *)
(* character reaches the host once and in order, whatever the handler and  *)
(* the host do between two steps of a write, and the result of a write is  *)
(* the number of characters taken from its buffer (write.c:99-214,         *)
(* init.c:170-196).                                                        *)
THEOREM WritesInOrder == Spec => WriteInOrder
<1>1. Init => Writes!Init
  <2> SUFFICES ASSUME Init PROVE Writes!Init
    OBVIOUS
  <2>1. IInv
    BY InitIInv
  <2>2. ToHost = <<>>
    <3>1. ToHost \in Seq(Byte) /\ Len(ToHost) = Len(wfifo) + TxCount
      BY <2>1, ToHostType DEF IInv
    <3>2. Len(wfifo) = 0 /\ TxCount = 0
      BY DriverAssumption, EmptySeq DEF Init, DeviceInit, TxCount, Used
    <3> QED
      BY <3>1, <3>2, EmptySeq
  <2> QED
    BY <2>2 DEF Init, Writes!Init, ToHost
<1>2. ChannelInv /\ [Next]_vars => [Writes!Next]_Writes!vars
  <2> SUFFICES ASSUME ChannelInv, [Next]_vars PROVE [Writes!Next]_Writes!vars
    OBVIOUS
  <2> USE DEF device, state, frame, task, isrvars, At
  <2>0. PlaceInv /\ CallInv /\ moved \in Nat
    BY DEF ChannelInv, IInv, TypeOK, CallTypeOK
  <2> DEFINE taken  == IF op = "write" THEN moved ELSE 0
             result == IF op = "write" THEN ret ELSE 0
             Same   == UNCHANGED <<src, taken, ToHost, result>>
  <2>1. ASSUME Same PROVE [Writes!Next]_Writes!vars
    BY <2>1 DEF Writes!vars, ToHost
  <2>2. ASSUME src = <<>>, taken = 0, src' \in Seq(Byte), result' = 0,
               UNCHANGED <<taken, ToHost>>
        PROVE  [Writes!Next]_Writes!vars
    BY <2>2 DEF Writes!Next, Writes!Offer, ToHost
  <2>3. CASE StartCall
    <3>1. ASSUME NEW count \in 0 .. MaxCount, NEW nb \in BOOLEAN, ReadCall(count, nb)
          PROVE  [Writes!Next]_Writes!vars
      BY <2>0, <2>2, <3>1, EmptySeq DEF ReadCall, Return, CallInv, ToHost
    <3>2. ASSUME NEW bytes \in BytesUpTo(MaxCount), NEW nb \in BOOLEAN, WriteCall(bytes, nb)
          PROVE  [Writes!Next]_Writes!vars
      BY <2>0, <2>2, <3>2, BytesAreSequences, DriverAssumption DEF WriteCall, CallInv, ToHost
    <3>3. ASSUME NEW nb \in BOOLEAN, CloseCall(nb)
          PROVE  [Writes!Next]_Writes!vars
      BY <2>0, <2>2, <3>3, EmptySeq DEF CloseCall, CallInv, ToHost
    <3>4. ASSUME NEW arg \in TimeoutArgs, IoctlSetTimeout(arg)
          PROVE  [Writes!Next]_Writes!vars
      BY <2>0, <2>2, <3>4, EmptySeq DEF IoctlSetTimeout, CallInv, ToHost
    <3> QED
      BY <2>3, <3>1, <3>2, <3>3, <3>4 DEF StartCall
  <2>4. CASE Booting
    BY <2>1, <2>4 DEF Booting, InitDevice, InitRegister, InitAlarm, WriteControl, ToHost
  <2>5. CASE Reading
    BY <2>0, <2>1, <2>5 DEF Reading, ReadSnap, ReadCopy, ReadPublish, ReadSpin, ReadCheck,
       ReadReturn, Return, PlaceInv, ReadPcs, CallInv, ToHost
  <2>6. CASE Writing
    <3>1. CASE WriteCopy
      <4>1. ToHost' = ToHost
        BY <3>1, CopyKeepsOrder
      <4> QED
        BY <2>1, <3>1, <4>1 DEF WriteCopy
    <3>2. CASE WritePublish
      BY <3>2, PublishAccepts DEF Writes!Next
    <3>3. CASE WriteReturn
      <4>1. op = "write" /\ op' = "write"
        BY <2>0, <3>3 DEF WriteReturn, PlaceInv, WritePcs
      <4>2. ret' \in (IF moved > 0 THEN {moved} ELSE {-EIO, -EWOULDBLOCK})
        BY <3>3 DEF WriteReturn, Return, Result
      <4>3. src' = <<>> /\ moved' = 0 /\ ToHost' = ToHost
        BY <3>3 DEF WriteReturn, Return, ToHost
      <4>4. Writes!Finish
        BY <4>1, <4>2, <4>3 DEF Writes!Finish, ToHost
      <4> QED
        BY <4>4 DEF Writes!Next
    <3>4. CASE WriteSnap \/ WriteSpin \/ WriteCheck
      BY <2>1, <3>4 DEF WriteSnap, WriteSpin, WriteCheck, ToHost
    <3> QED
      BY <2>6, <3>1, <3>2, <3>3, <3>4 DEF Writing
  <2>7. CASE Enabling
    BY <2>1, <2>7 DEF Enabling, EnableDisableAll, EnableLoad, EnableStore, EnableIowr,
       EnableAll, WriteControl, ToHost
  <2>8. CASE CloseWait
    BY <2>0, <2>1, <2>8 DEF CloseWait, Return, CallInv, ToHost
  <2>9. CASE Handler
    <3>1. CASE IsrTransmit
      <4>1. ToHost' = ToHost
        BY <3>1, TransmitKeepsOrder
      <4> QED
        BY <2>1, <3>1, <4>1 DEF IsrTransmit
    <3>2. CASE ~IsrTransmit
      BY <2>1, <2>9, <3>2 DEF Handler, IsrEnter, IsrControl, IsrReceive, IsrReceiveFull,
         IsrReceiveEnd, IsrTransmitEnd, TimeoutClear, ReadData, WriteControl, ToHost
    <3> QED
      BY <3>1, <3>2
  <2>10. CASE TimeoutCheck
    BY <2>1, <2>10 DEF TimeoutCheck, ToHost
  <2>11. CASE HostStep
    <3>1. CASE r_ena
      <4>1. ToHost # <<>> /\ ToHost' = Tail(ToHost) /\ UNCHANGED <<src, op, moved, ret>>
        BY <2>11, <3>1, HostTakesOldest DEF HostStep
      <4>2. Writes!Deliver
        BY <4>1 DEF Writes!Deliver, ToHost
      <4> QED
        BY <4>2 DEF Writes!Next
    <3>2. CASE ~r_ena
      BY <2>1, <2>11, <3>2 DEF HostStep, Host, t_ena, t_pause, ToHost
    <3> QED
      BY <3>1, <3>2
  <2>12. CASE UNCHANGED vars
    BY <2>1, <2>12 DEF vars, ToHost
  <2> QED
    BY <2>3, <2>4, <2>5, <2>6, <2>7, <2>8, <2>9, <2>10, <2>11, <2>12 DEF Next, Program
<1> QED
  BY <1>1, <1>2, ChannelInvariance, PTL DEF Spec, WriteInOrder, Writes!Spec

-----------------------------------------------------------------------------
(* The receive half: the ring, then rfifo. *)

FromHost == Ring(rx_buf, rx_in, rx_out) \o rfifo

(* What is on its way to the program fits into ring and FIFO. *)
LEMMA FromHostType ==
  ASSUME TypeOK
  PROVE  /\ Ring(rx_buf, rx_in, rx_out) \in Seq(Byte)
         /\ Len(Ring(rx_buf, rx_in, rx_out)) = Used(rx_in, rx_out)
         /\ Used(rx_in, rx_out) \in 0 .. BufLen - 1
         /\ rfifo \in Seq(Byte) /\ Len(rfifo) \in 0 .. Depth
         /\ FromHost \in Seq(Byte) /\ Len(FromHost) = Used(rx_in, rx_out) + Len(rfifo)
<1>1. rx_in \in Slots /\ rx_out \in Slots /\ rx_buf \in [Slots -> Byte]
      /\ rfifo \in Seq(Byte) /\ Len(rfifo) <= Depth
  BY DEF TypeOK, StateTypeOK, DeviceTypeOK
<1>2. /\ Ring(rx_buf, rx_in, rx_out) \in Seq(Byte)
      /\ Len(Ring(rx_buf, rx_in, rx_out)) = Used(rx_in, rx_out)
      /\ Used(rx_in, rx_out) \in 0 .. BufLen - 1
  BY <1>1, RingType, UsedRange
<1>3. FromHost \in Seq(Byte) /\ Len(FromHost) = Len(Ring(rx_buf, rx_in, rx_out)) + Len(rfifo)
  BY <1>1, <1>2, ConcatProperties DEF FromHost
<1> QED
  BY <1>1, <1>2, <1>3, DeviceAssumption, LenProperties

(* A character the host adds goes to the end, and there is room for it. *)
LEMMA HostAddsLast ==
  ASSUME ChannelInv, NEW b \in HostByte, t_ena(b), UNCHANGED <<rx_buf, rx_in, rx_out>>
  PROVE  Len(FromHost) < Depth + BufLen - 1 /\ FromHost' = Append(FromHost, b)
<1> DEFINE ring == Ring(rx_buf, rx_in, rx_out)
<1>1. /\ ring \in Seq(Byte) /\ rfifo \in Seq(Byte) /\ FromHost \in Seq(Byte)
      /\ Used(rx_in, rx_out) \in 0 .. BufLen - 1 /\ Len(rfifo) \in 0 .. Depth
      /\ Len(FromHost) = Used(rx_in, rx_out) + Len(rfifo)
  BY FromHostType DEF ChannelInv, IInv
<1>2. b \in Byte /\ Len(rfifo) < Depth /\ rfifo' = Append(rfifo, b)
  BY DeviceAssumption DEF t_ena
<1>3. Len(FromHost) < Depth + BufLen - 1
  BY <1>1, <1>2, DeviceAssumption, DriverAssumption
<1>4. FromHost' = ring \o Append(rfifo, b)
  BY <1>2 DEF FromHost
<1>5. ring \o Append(rfifo, b) = Append(ring \o rfifo, b)
  BY <1>1, <1>2, AppendToConcat
<1> QED
  BY <1>3, <1>4, <1>5 DEF FromHost

(* The handler moves the oldest character of the FIFO to the end of the    *)
(* ring; a character that enters the FIFO at that moment comes last        *)
(* (init.c:142-150).                                                       *)
LEMMA ReceiveKeepsOrder ==
  ASSUME ChannelInv, IsrReceive
  PROVE  \/ FromHost' = FromHost
         \/ Len(FromHost) < Depth + BufLen - 1
            /\ \E b \in Byte : FromHost' = Append(FromHost, b)
<1> DEFINE ring == Ring(rx_buf, rx_in, rx_out)
<1>1. PICK arriving \in Arrivals : ReadData(arriving)
  BY DEF IsrReceive
<1>2. /\ ring \in Seq(Byte) /\ rfifo \in Seq(Byte) /\ FromHost \in Seq(Byte)
      /\ Used(rx_in, rx_out) \in 0 .. BufLen - 1 /\ Len(rfifo) \in 0 .. Depth
      /\ Len(FromHost) = Used(rx_in, rx_out) + Len(rfifo)
      /\ FromHost = ring \o rfifo
  BY FromHostType DEF ChannelInv, IInv, FromHost
<1>3. arriving = <<>> \/ (Len(rfifo) < Depth /\ \E b \in Byte : arriving = <<b>>)
  BY DeviceAssumption DEF Arrivals
<1>4. arriving \in Seq(Byte)
  <2>1. CASE arriving = <<>>
    BY <2>1
  <2>2. CASE arriving # <<>>
    <3>1. PICK b \in Byte : arriving = <<b>>
      BY <1>3, <2>2
    <3> QED
      BY <3>1
  <2> QED
    BY <2>1, <2>2
<1>5. FromHost' = FromHost \o arriving
  <2>1. CASE rfifo = <<>>
    <3>1. rfifo' = <<>> \o arriving /\ UNCHANGED <<rx_in, rx_out, rx_buf>>
      BY <1>1, <2>1 DEF IsrReceive, ReadData, AfterRead
    <3>2. rfifo' = arriving
      BY <1>4, <3>1, ConcatEmptySeq
    <3>3. FromHost' = ring \o arriving
      BY <3>1, <3>2 DEF FromHost
    <3>4. FromHost = ring
      BY <1>2, <2>1, ConcatEmptySeq
    <3> QED
      BY <3>3, <3>4
  <2>2. CASE rfifo # <<>>
    <3> DEFINE b == Head(rfifo)
               rest == Tail(rfifo)
    <3>1. /\ b \in Byte /\ rest \in Seq(Byte) /\ rfifo = <<b>> \o rest
      BY <1>2, <2>2, FirstAndRest
    <3>2. /\ rx_in \in Slots /\ rx_out \in Slots /\ rx_buf \in [Slots -> Byte]
          /\ rx_in' = Wrap(rx_in + 1) /\ rx_buf' = [rx_buf EXCEPT ![rx_in] = b]
          /\ rx_out' = rx_out /\ rfifo' = rest \o arriving
      BY <1>1, <2>2 DEF IsrReceive, ReadData, AfterRead, ChannelInv, IInv, TypeOK, StateTypeOK
    <3> HIDE DEF b, rest
    <3>3. /\ Used(rx_in, rx_out) + 1 <= BufLen - 1 /\ rx_in + 1 <= BufLen
          /\ rx_in + 0 = rx_in /\ rx_in + 0 < BufLen /\ Used(rx_in, rx_out) + 0 <= BufLen - 1
      BY <1>2, <3>2, ReceiveRoom, DriverAssumption DEF IsrReceive, Slots, ChannelInv, IInv
    <3>4. rx_buf' \in [Slots -> Byte]
      BY <3>1, <3>2
    <3>5. Ring(rx_buf', rx_in, rx_out) = Ring(rx_buf, rx_in, rx_out)
      <4>1. ASSUME NEW j \in 1 .. Used(rx_in, rx_out)
            PROVE  rx_buf'[Wrap(rx_out + j - 1)] = rx_buf[Wrap(rx_out + j - 1)]
        <5>1. Wrap(rx_out + j - 1) # rx_in + 0
          BY <3>2, <3>3, SlotOutside
        <5>2. Wrap(rx_out + j - 1) \in Slots
          BY <3>2, RingType
        <5> QED
          BY <3>2, <3>3, <5>1, <5>2
      <4> QED
        BY <4>1 DEF Ring
    <3>6. Ring(rx_buf', Wrap(rx_in + 1), rx_out) = ring \o <<b>>
      <4>1. <<b>> \in Seq(Byte) /\ Len(<<b>>) = 1 /\ <<b>>[1] = b
        BY <3>1
      <4>2. \A j \in 1 .. Len(<<b>>) : rx_buf'[rx_in + j - 1] = <<b>>[j]
        <5>1. \A j \in 1 .. Len(<<b>>) : j = 1
          BY <4>1
        <5>2. rx_in + 1 - 1 = rx_in /\ rx_buf'[rx_in] = b
          BY <3>2, DriverAssumption DEF Slots
        <5> QED
          BY <4>1, <5>1, <5>2
      <4>3. rx_in + Len(<<b>>) <= BufLen /\ Used(rx_in, rx_out) + Len(<<b>>) <= BufLen - 1
        BY <3>3, <4>1
      <4>4. Ring(rx_buf', Wrap(rx_in + Len(<<b>>)), rx_out)
              = Ring(rx_buf', rx_in, rx_out) \o <<b>>
        BY <3>2, <3>4, <4>1, <4>2, <4>3, RingGrows
      <4> QED
        BY <3>5, <4>1, <4>4, SMTT(30)
    <3> HIDE DEF ring
    <3>7. FromHost' = (ring \o <<b>>) \o (rest \o arriving)
      BY <3>2, <3>6 DEF FromHost
    <3>8. (ring \o <<b>>) \o (rest \o arriving) = (ring \o (<<b>> \o rest)) \o arriving
      <4>1. ring \in Seq(Byte)
        BY <1>2
      <4>2. b \in Byte
        BY <3>1
      <4>3. rest \in Seq(Byte)
        BY <3>1
      <4> QED
        BY <1>4, <4>1, <4>2, <4>3, MoveBetween, SMTT(30)
    <3> QED
      BY <1>2, <3>1, <3>7, <3>8
  <2> QED
    BY <2>1, <2>2
<1>6. CASE arriving = <<>>
  BY <1>2, <1>5, <1>6, ConcatEmptySeq
<1>7. CASE arriving # <<>>
  <2>1. PICK b \in Byte : arriving = <<b>>
    BY <1>3, <1>7
  <2>2. Len(FromHost) < Depth + BufLen - 1
    BY <1>2, <1>3, <1>7, DeviceAssumption, DriverAssumption
  <2>3. FromHost' = Append(FromHost, b)
    BY <1>2, <1>5, <2>1, AppendIsConcat
  <2> QED
    BY <2>2, <2>3
<1> QED
  BY <1>6, <1>7

(* What read has stored of the call so far: the copied window is not yet   *)
(* counted.                                                                *)
Stored == SubSeq(ubuf, 1, moved)

(* Copying adds nothing to it ...                                          *)
LEMMA CopyStoresNothing ==
  ASSUME ChannelInv, ReadCopy
  PROVE  Stored' = Stored
<1>1. /\ moved \in Nat /\ ubuf \in Seq(Byte) /\ k \in Nat /\ n \in Nat /\ k < n
      /\ out \in Slots /\ out + n <= BufLen /\ rx_buf \in [Slots -> Byte]
      /\ Len(ubuf) = moved + k /\ moved' = moved
      /\ ubuf' = Append(ubuf, rx_buf[out + k])
  BY DEF ReadCopy, At, ChannelInv, IInv, TypeOK, StateTypeOK, CallTypeOK, ReadInv,
     ReadWindow
<1>2. out + k \in Slots
  BY <1>1, DriverAssumption DEF Slots
<1>3. rx_buf[out + k] \in Byte
  BY <1>1, <1>2
<1>4. ubuf' \in Seq(Byte) /\ ubuf' = ubuf \o <<rx_buf[out + k]>>
      /\ <<rx_buf[out + k]>> \in Seq(Byte)
  BY <1>1, <1>3, AppendIsConcat, AppendProperties
<1>5. CASE moved = 0
  BY <1>1, <1>5, SubSeqEmpty DEF Stored
<1>6. CASE moved # 0
  <2>1. 1 \in 1 .. Len(ubuf) /\ moved \in 1 .. Len(ubuf)
    BY <1>1, <1>6
  <2>2. SubSeq(ubuf \o <<rx_buf[out + k]>>, 1, moved) = SubSeq(ubuf, 1, moved)
    BY <1>1, <1>4, <2>1, SubSeqOfConcat1
  <2> QED
    BY <1>1, <1>4, <2>2 DEF Stored
<1> QED
  BY <1>5, <1>6

(* ... and publishing the window takes it off the front of the channel.    *)
LEMMA PublishStores ==
  ASSUME ChannelInv, ReadPublish
  PROVE  n \in 1 .. Len(FromHost) /\ Reads!Store(n)
<1> DEFINE ring == Ring(rx_buf, rx_in, rx_out)
           used == Used(rx_in, rx_out)
<1>1. /\ rx_in \in Slots /\ rx_out \in Slots /\ rx_buf \in [Slots -> Byte]
      /\ out = rx_out /\ out + n <= BufLen /\ n \in Nat /\ n > 0 /\ k = n
      /\ n <= used /\ moved \in Nat /\ ubuf \in Seq(Byte) /\ Len(ubuf) = moved + n
      /\ \A j \in 1 .. n : ubuf[moved + j] = rx_buf[rx_out + j - 1]
  BY DEF ReadPublish, At, ChannelInv, IInv, TypeOK, StateTypeOK, CallTypeOK, ReadInv,
     ReadWindow
<1>2. /\ ring \in Seq(Byte) /\ rfifo \in Seq(Byte) /\ Len(ring) = used
      /\ used \in 0 .. BufLen - 1 /\ Len(rfifo) \in Nat
      /\ Len(FromHost) = used + Len(rfifo) /\ FromHost = ring \o rfifo
  BY FromHostType, LenProperties DEF ChannelInv, IInv, FromHost
<1>3. /\ rx_out' = Wrap(rx_out + n) /\ moved' = moved + n
      /\ UNCHANGED <<rfifo, rx_in, rx_buf, ubuf, ret, op>>
      /\ op = "read"
  BY <1>1 DEF ReadPublish, At, ChannelInv, IInv, PlaceInv, ReadPcs, device
<1>4. /\ \A j \in 1 .. n : ring[j] = rx_buf[rx_out + j - 1]
      /\ Ring(rx_buf, rx_in, Wrap(rx_out + n)) = SubSeq(ring, n + 1, used)
  BY <1>1, RingShrinks
<1>5. FromHost' = SubSeq(ring, n + 1, used) \o rfifo
  BY <1>3, <1>4 DEF FromHost
<1> HIDE DEF ring, used
<1>6. /\ SubSeq(ring \o rfifo, 1, n) = SubSeq(ring, 1, n)
      /\ SubSeq(ring \o rfifo, n + 1, Len(ring \o rfifo))
           = SubSeq(ring, n + 1, Len(ring)) \o rfifo
  <2>1. 1 <= n /\ n <= Len(ring)
    BY <1>1, <1>2
  <2> QED
    BY <1>1, <1>2, <2>1, FrontOfConcat
<1>7. FromHost' = SubSeq(FromHost, n + 1, Len(FromHost))
  BY <1>2, <1>5, <1>6
<1>8. SubSeq(ubuf, moved + 1, moved + n) = SubSeq(FromHost, 1, n)
  <2>1. SubSeq(FromHost, 1, n) = SubSeq(ring, 1, n)
    BY <1>2, <1>6
  <2>2. /\ SubSeq(ring, 1, n) \in Seq(Byte) /\ Len(SubSeq(ring, 1, n)) = n
        /\ \A j \in 1 .. n : SubSeq(ring, 1, n)[j] = ring[j]
    BY <1>1, <1>2, Front
  <2>3. /\ SubSeq(ubuf, moved + 1, Len(ubuf)) \in Seq(Byte)
        /\ Len(SubSeq(ubuf, moved + 1, Len(ubuf))) = Len(ubuf) - moved
        /\ \A j \in 1 .. Len(ubuf) - moved :
             SubSeq(ubuf, moved + 1, Len(ubuf))[j] = ubuf[moved + j]
    <3>1. moved <= Len(ubuf)
      BY <1>1
    <3> QED
      BY <1>1, <3>1, RestOf
  <2> DEFINE new == SubSeq(ubuf, moved + 1, Len(ubuf))
             front == SubSeq(ring, 1, n)
  <2>4. Len(ubuf) - moved = n /\ Len(ubuf) = moved + n
    BY <1>1
  <2>5. new \in Seq(Byte) /\ Len(new) = n /\ \A j \in 1 .. n : new[j] = ubuf[moved + j]
    BY <2>3, <2>4
  <2> HIDE DEF new, front
  <2>6. \A j \in 1 .. Len(new) : new[j] = front[j]
    BY <1>1, <1>4, <2>2, <2>5 DEF front
  <2>7. new = front
    BY <2>2, <2>5, <2>6, SeqEqual DEF front
  <2> QED
    BY <2>1, <2>4, <2>7 DEF new, front
<1>9. SubSeq(ubuf, 1, moved) \o SubSeq(ubuf, moved + 1, moved + n)
        = SubSeq(ubuf, 1, moved + n)
  <2>1. 1 \in 1 .. Len(ubuf) + 1 /\ moved \in 1 - 1 .. Len(ubuf)
        /\ moved + n \in moved .. Len(ubuf)
    BY <1>1
  <2> QED
    BY <1>1, <2>1, ConcatAdjacentSubSeq, Zenon
<1>10. Stored' = Stored \o SubSeq(FromHost, 1, n)
  BY <1>3, <1>8, <1>9 DEF Stored
<1>11. n \in 1 .. Len(FromHost)
  BY <1>1, <1>2
<1> QED
  BY <1>3, <1>7, <1>10, <1>11 DEF Reads!Store, Stored, FromHost

(* The reads of the interrupt-driven driver implement ReadChannel: what    *)
(* the host sends is stored once and in order, whatever the handler and    *)
(* the host do between two steps of a read, and the result of a read is    *)
(* the number of characters it stored (read.c:113-202, init.c:123-163).    *)
THEOREM ReadsInOrder == Spec => ReadInOrder
<1>1. Init => Reads!Init
  <2> SUFFICES ASSUME Init PROVE Reads!Init
    OBVIOUS
  <2>1. IInv
    BY InitIInv
  <2>2. FromHost = <<>>
    <3>1. FromHost \in Seq(Byte) /\ Len(FromHost) = Used(rx_in, rx_out) + Len(rfifo)
      BY <2>1, FromHostType DEF IInv
    <3>2. Len(rfifo) = 0 /\ Used(rx_in, rx_out) = 0
      BY DriverAssumption, EmptySeq DEF Init, DeviceInit, Used
    <3> QED
      BY <3>1, <3>2, EmptySeq
  <2> QED
    BY <2>2 DEF Init, Reads!Init, FromHost
<1>2. ChannelInv /\ [Next]_vars => [Reads!Next]_Reads!vars
  <2> SUFFICES ASSUME ChannelInv, [Next]_vars PROVE [Reads!Next]_Reads!vars
    OBVIOUS
  <2> USE DEF device, state, frame, task, isrvars, At
  <2>0. /\ PlaceInv /\ CallInv /\ ReadWindow
        /\ moved \in Nat /\ ubuf \in Seq(Byte)
    BY DEF ChannelInv, IInv, TypeOK, CallTypeOK
  <2> DEFINE stored == IF op = "read" THEN Stored ELSE <<>>
             result == IF op = "read" THEN ret ELSE 0
             Same   == UNCHANGED <<FromHost, stored, result>>
  <2>1. ASSUME Same PROVE [Reads!Next]_Reads!vars
    BY <2>1 DEF Reads!vars, FromHost, Stored
  <2>2. ASSUME stored = <<>>, stored' = <<>>, result' = 0, UNCHANGED FromHost
        PROVE  [Reads!Next]_Reads!vars
    BY <2>2 DEF Reads!Next, Reads!Start, FromHost, Stored
  <2>3. ASSUME NEW result2 \in (IF stored # <<>> THEN {Len(stored)} ELSE {-EIO, -EWOULDBLOCK}),
               result' = result2, stored' = <<>>, UNCHANGED FromHost
        PROVE  [Reads!Next]_Reads!vars
    BY <2>3 DEF Reads!Next, Reads!Finish, FromHost, Stored
  <2>4. SubSeq(<<>>, 1, 0) = <<>>
    BY SubSeqEmpty
  <2>5. pc = "idle" => stored = <<>>
    BY <2>0, <2>4 DEF CallInv, Stored
  <2>6. CASE StartCall
    <3>1. ASSUME NEW count \in 0 .. MaxCount, NEW nb \in BOOLEAN, ReadCall(count, nb)
          PROVE  [Reads!Next]_Reads!vars
      <4>1. pc = "idle" /\ ubuf = <<>> /\ moved = 0 /\ op' = "read" /\ FromHost' = FromHost
        BY <2>0, <3>1 DEF ReadCall, CallInv, FromHost
      <4>2. stored = <<>>
        BY <2>5, <4>1
      <4>3. CASE count > 0
        <5>1. ubuf' = ubuf /\ moved' = moved /\ ret' = 0
          BY <3>1, <4>3 DEF ReadCall
        <5>2. stored' = <<>> /\ result' = 0
          BY <2>4, <4>1, <5>1 DEF Stored
        <5> QED
          BY <2>2, <4>1, <4>2, <5>2
      <4>4. CASE ~(count > 0)
        <5>1. ubuf' = <<>> /\ moved' = 0 /\ ret' = Result(0, nb)
          BY <3>1, <4>4 DEF ReadCall, Return
        <5>2. stored' = <<>> /\ result' = Result(0, nb)
          BY <2>4, <4>1, <5>1 DEF Stored
        <5>3. Result(0, nb) \in {-EIO, -EWOULDBLOCK}
          BY DEF Result
        <5> QED
          BY <2>3, <4>1, <4>2, <5>2, <5>3
      <4> QED
        BY <4>3, <4>4
    <3>2. ASSUME NEW bytes \in BytesUpTo(MaxCount), NEW nb \in BOOLEAN, WriteCall(bytes, nb)
          PROVE  [Reads!Next]_Reads!vars
      BY <2>2, <2>5, <3>2 DEF WriteCall, FromHost
    <3>3. ASSUME NEW nb \in BOOLEAN, CloseCall(nb)
          PROVE  [Reads!Next]_Reads!vars
      BY <2>2, <2>5, <3>3 DEF CloseCall, FromHost
    <3>4. ASSUME NEW arg \in TimeoutArgs, IoctlSetTimeout(arg)
          PROVE  [Reads!Next]_Reads!vars
      BY <2>2, <2>5, <3>4 DEF IoctlSetTimeout, FromHost
    <3> QED
      BY <2>6, <3>1, <3>2, <3>3, <3>4 DEF StartCall
  <2>7. CASE Booting
    BY <2>1, <2>7 DEF Booting, InitDevice, InitRegister, InitAlarm, WriteControl, FromHost,
       Stored
  <2>8. CASE Reading
    <3>1. CASE ReadCopy
      <4>1. Stored' = Stored
        BY <3>1, CopyStoresNothing
      <4> QED
        BY <2>1, <3>1, <4>1 DEF ReadCopy, FromHost
    <3>2. CASE ReadPublish
      <4>1. n \in 1 .. Len(FromHost) /\ Reads!Store(n)
        BY <2>0, <3>2, PublishStores
      <4>2. \E m \in 1 .. Len(FromHost) : Reads!Store(m)
        BY <4>1
      <4> QED
        BY <4>2 DEF Reads!Next, FromHost
    <3>3. CASE ReadReturn
      <4>1. /\ op = "read" /\ op' = "read" /\ Len(ubuf) = moved
            /\ ret' = Result(moved, nonblock) /\ ubuf' = <<>> /\ moved' = 0
            /\ FromHost' = FromHost
        BY <2>0, <3>3 DEF ReadReturn, Return, PlaceInv, ReadPcs, ReadWindow, FromHost
      <4>2. stored = ubuf
        BY <2>0, <4>1, SubSeqFull DEF Stored
      <4>3. (ubuf # <<>>) <=> (moved > 0)
        BY <2>0, <4>1, EmptySeq
      <4>4. ret' \in (IF stored # <<>> THEN {Len(stored)} ELSE {-EIO, -EWOULDBLOCK})
        BY <4>1, <4>2, <4>3 DEF Result
      <4>5. stored' = <<>> /\ result' = ret'
        BY <2>4, <4>1 DEF Stored
      <4> QED
        BY <2>3, <4>1, <4>4, <4>5
    <3>4. CASE ReadSnap \/ ReadSpin \/ ReadCheck
      BY <2>1, <3>4 DEF ReadSnap, ReadSpin, ReadCheck, FromHost, Stored
    <3> QED
      BY <2>8, <3>1, <3>2, <3>3, <3>4 DEF Reading
  <2>9. CASE Writing
    BY <2>0, <2>1, <2>9 DEF Writing, WriteSnap, WriteCopy, WritePublish, WriteSpin,
       WriteCheck, WriteReturn, Return, PlaceInv, WritePcs, FromHost
  <2>10. CASE Enabling
    BY <2>1, <2>10 DEF Enabling, EnableDisableAll, EnableLoad, EnableStore, EnableIowr,
       EnableAll, WriteControl, FromHost, Stored
  <2>11. CASE CloseWait
    BY <2>0, <2>1, <2>11 DEF CloseWait, Return, CallInv, FromHost
  <2>12. CASE Handler
    <3>1. CASE IsrReceive
      <4>1. UNCHANGED <<ubuf, moved, op, ret>>
        BY <3>1 DEF IsrReceive
      <4>2. CASE FromHost' = FromHost
        BY <2>1, <4>1, <4>2 DEF Stored
      <4>3. CASE Len(FromHost) < Depth + BufLen - 1
                 /\ \E b \in Byte : FromHost' = Append(FromHost, b)
        <5>1. Reads!Send
          BY <4>1, <4>3 DEF Reads!Send, FromHost
        <5> QED
          BY <5>1 DEF Reads!Next
      <4> QED
        BY <3>1, <4>2, <4>3, ReceiveKeepsOrder
    <3>2. CASE ~IsrReceive
      BY <2>1, <2>12, <3>2 DEF Handler, IsrEnter, IsrControl, IsrReceiveFull,
         IsrReceiveEnd, IsrTransmit, IsrTransmitEnd, TimeoutClear, WriteData, WriteControl,
         FromHost, Stored
    <3> QED
      BY <3>1, <3>2
  <2>13. CASE TimeoutCheck
    BY <2>1, <2>13 DEF TimeoutCheck, FromHost, Stored
  <2>14. CASE HostStep
    <3>1. ASSUME NEW b \in HostByte, t_ena(b) PROVE [Reads!Next]_Reads!vars
      <4>1. /\ Len(FromHost) < Depth + BufLen - 1 /\ FromHost' = Append(FromHost, b)
            /\ b \in Byte
        BY <2>14, <3>1, HostAddsLast, DeviceAssumption DEF HostStep
      <4>2. Reads!Send
        BY <2>14, <4>1 DEF HostStep, Reads!Send, FromHost
      <4> QED
        BY <4>2 DEF Reads!Next
    <3>2. CASE t_pause \/ r_ena
      BY <2>1, <2>14, <3>2 DEF HostStep, t_pause, r_ena, FromHost, Stored
    <3> QED
      BY <2>14, <3>1, <3>2 DEF HostStep, Host
  <2>15. CASE UNCHANGED vars
    BY <2>1, <2>15 DEF vars, FromHost, Stored
  <2> QED
    BY <2>6, <2>7, <2>8, <2>9, <2>10, <2>11, <2>12, <2>13, <2>14, <2>15 DEF Next, Program
<1> QED
  BY <1>1, <1>2, ChannelInvariance, PTL DEF Spec, ReadInOrder, Reads!Spec

=============================================================================
