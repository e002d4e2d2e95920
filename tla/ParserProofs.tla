---------------------------- MODULE ParserProofs ----------------------------
(***************************************************************************)
(* Proofs about Parser for every preamble, every function that reads the   *)
(* size of a packet from its header, every size of the ring buffer and of  *)
(* the working buffer, and every way in which bytes arrive in the middle   *)
(* of what the parser does.                                                *)
(***************************************************************************)
EXTENDS Parser, SequenceTheorems, WellFoundedInduction, TLAPS

(* r is the end of s. *)
IsSuffix(r, s) ==
    /\ Len(r) <= Len(s)
    /\ \A i \in 1 .. Len(r) : r[i] = s[Len(s) - Len(r) + i]

(* What Framing looks for behind the end of a packet, and what it gives    *)
(* from a place on, if g says what it gives from the later ones on.        *)
Begins(s, p) == {q \in p .. Len(s) : BeginsAt(s, q)}
FirstOf(s, p) == CHOOSE b \in Begins(s, p) : \A c \in Begins(s, p) : b <= c
EndOf(s, p) == FirstOf(s, p) + SizeAt(s, FirstOf(s, p))

PacketsStep(s, g, p) ==
    IF Begins(s, p) = {} THEN << >>
    ELSE IF EndOf(s, p) > Len(s) + 1 THEN << >>
    ELSE Given(SubSeq(s, FirstOf(s, p), EndOf(s, p) - 1)) \o g[EndOf(s, p)]

-----------------------------------------------------------------------------
(* Induction over a set of numbers. *)
LEMMA NaturalsAreReached ==
    ASSUME NEW T, 0 \in T, \A n \in Nat : n \in T => n + 1 \in T
    PROVE  Nat \subseteq T
<1> SUFFICES ASSUME ~(Nat \subseteq T) PROVE FALSE
    OBVIOUS
<1> DEFINE Smaller == {ss \in Nat \X Nat : ss[1] < ss[2]}
           Missed == Nat \ T
<1>1. Missed \subseteq Nat /\ Missed # {}
    OBVIOUS
<1>2. IsWellFoundedOn(Smaller, Nat)
    BY NatLessThanWellFounded DEF OpToRel
<1> HIDE DEF Smaller, Missed
<1>3. PICK x \in Missed : \A y \in Missed : ~(<<y, x>> \in Smaller)
    BY <1>1, <1>2, WFMin
<1>4. x \in Nat /\ x # 0 /\ x - 1 \in Nat
    BY DEF Missed
<1>5. x - 1 \in Missed
    <2>1. x - 1 \in T => (x - 1) + 1 \in T
        BY <1>4
    <2>2. (x - 1) + 1 = x /\ x \notin T
        BY <1>4 DEF Missed
    <2> QED BY <1>4, <2>1, <2>2 DEF Missed
<1>6. <<x - 1, x>> \in Smaller
    BY <1>4 DEF Smaller
<1> QED BY <1>3, <1>5, <1>6

LEMMA SmallestExists ==
    ASSUME NEW S \in SUBSET Nat, S # {}
    PROVE  \E b \in S : \A c \in S : b <= c
<1> DEFINE Smaller == {ss \in Nat \X Nat : ss[1] < ss[2]}
<1>1. IsWellFoundedOn(Smaller, Nat)
    BY NatLessThanWellFounded DEF OpToRel
<1> HIDE DEF Smaller
<1>2. PICK b \in S : \A c \in S : ~(<<c, b>> \in Smaller)
    BY <1>1, WFMin
<1>3. ASSUME NEW c \in S PROVE b <= c
    <2>1. b \in Nat /\ c \in Nat /\ ~(<<c, b>> \in Smaller)
        BY <1>2
    <2> QED BY <2>1 DEF Smaller
<1> QED BY <1>3
-----------------------------------------------------------------------------
(* Windows: what the parser sees at the begin of its ring buffer is what   *)
(* stands in the stream behind the bytes it has consumed, whatever comes   *)
(* behind that.                                                            *)
LEMMA WindowOfSuffix ==
    ASSUME NEW s \in Seq(Byte), NEW e \in Seq(Byte), NEW r \in Seq(Byte),
           IsSuffix(r, s), NEW n \in 0 .. Len(r)
    PROVE  SubSeq(s \o e, Len(s) - Len(r) + 1, Len(s) - Len(r) + n) = First(n, r)
<1> DEFINE k == Len(s) - Len(r)
           t == s \o e
<1>0. /\ Len(s) \in Nat /\ Len(r) \in Nat /\ Len(e) \in Nat /\ n \in Nat
      /\ k \in Nat /\ k + n <= Len(s)
    BY DEF IsSuffix
<1>1. t \in Seq(Byte) /\ Len(t) = Len(s) + Len(e) /\ \A i \in 1 .. Len(s) : t[i] = s[i]
    OBVIOUS
<1>2. \A i \in 1 .. n : t[k + i] = r[i]
    <2> TAKE i \in 1 .. n
    <2>1. r[i] = s[k + i]
        <3>1. i \in 1 .. Len(r)
            BY <1>0
        <3> QED BY <3>1 DEF IsSuffix
    <2>2. k + i \in 1 .. Len(s)
        BY <1>0
    <2> QED BY <1>1, <2>1, <2>2
<1> HIDE DEF k, t
<1> DEFINE a == SubSeq(t, k + 1, k + n)
           b == SubSeq(r, 1, n)
<1>3. a \in Seq(Byte) /\ Len(a) = n /\ \A i \in 1 .. n : a[i] = t[k + i]
    BY <1>0, <1>1
<1>4. b \in Seq(Byte) /\ Len(b) = n /\ \A i \in 1 .. n : b[i] = r[i]
    BY <1>0
<1> HIDE DEF a, b
<1>5. Len(a) = Len(b) /\ \A i \in 1 .. Len(a) : a[i] = b[i]
    BY <1>2, <1>3, <1>4
<1>6. a = b
    BY <1>3, <1>4, <1>5, SeqEqual
<1> QED BY <1>6 DEF a, b, k, t, First

LEMMA SuffixGrows ==
    ASSUME NEW s \in Seq(Byte), NEW d \in Seq(Byte), NEW r \in Seq(Byte), IsSuffix(r, s)
    PROVE  IsSuffix(r \o d, s \o d)
<1>0. Len(s) \in Nat /\ Len(r) \in Nat /\ Len(d) \in Nat /\ Len(r) <= Len(s)
    BY DEF IsSuffix
<1>1. Len(r \o d) = Len(r) + Len(d) /\ Len(s \o d) = Len(s) + Len(d)
    OBVIOUS
<1>2. ASSUME NEW i \in 1 .. Len(r) + Len(d)
      PROVE  (r \o d)[i] = (s \o d)[Len(s) - Len(r) + i]
    <2>1. CASE i <= Len(r)
        <3>1. i \in 1 .. Len(r) /\ Len(s) - Len(r) + i \in 1 .. Len(s)
            BY <1>0, <2>1
        <3>2. (r \o d)[i] = r[i] /\ (s \o d)[Len(s) - Len(r) + i] = s[Len(s) - Len(r) + i]
            BY <3>1
        <3> QED BY <3>1, <3>2 DEF IsSuffix
    <2>2. CASE i > Len(r)
        <3>1. /\ (r \o d)[i] = d[i - Len(r)]
              /\ (s \o d)[Len(s) - Len(r) + i] = d[Len(s) - Len(r) + i - Len(s)]
            BY <1>0, <2>2
        <3>2. Len(s) - Len(r) + i - Len(s) = i - Len(r)
            BY <1>0
        <3> QED BY <3>1, <3>2
    <2> QED BY <1>0, <2>1, <2>2
<1>3. (Len(s) + Len(d)) - (Len(r) + Len(d)) = Len(s) - Len(r)
    BY <1>0
<1> QED BY <1>0, <1>1, <1>2, <1>3 DEF IsSuffix

LEMMA RestOfSequence ==
    ASSUME NEW B, NEW r \in Seq(B), NEW n \in 0 .. Len(r)
    PROVE  /\ Rest(n, r) \in Seq(B) /\ Len(Rest(n, r)) = Len(r) - n
           /\ \A i \in 1 .. Len(r) - n : Rest(n, r)[i] = r[n + i]
<1>1. Len(r) \in Nat /\ n \in Nat
    OBVIOUS
<1> DEFINE b == SubSeq(r, n + 1, Len(r))
<1>2. b \in Seq(B)
    BY <1>1
<1>3. Len(b) = Len(r) - n
    BY <1>1
<1>4. ASSUME NEW i \in 1 .. Len(r) - n PROVE b[i] = r[n + i]
    <2>1. i \in 1 .. Len(r) - (n + 1) + 1 /\ (n + 1) + i - 1 = n + i
        BY <1>1
    <2> QED BY <1>1, <2>1
<1> QED BY <1>2, <1>3, <1>4 DEF Rest

LEMMA SuffixShrinks ==
    ASSUME NEW s \in Seq(Byte), NEW r \in Seq(Byte), IsSuffix(r, s), NEW n \in 0 .. Len(r)
    PROVE  IsSuffix(Rest(n, r), s)
<1>0. Len(s) \in Nat /\ Len(r) \in Nat /\ Len(r) <= Len(s) /\ n \in Nat
    BY DEF IsSuffix
<1>1. /\ Len(Rest(n, r)) = Len(r) - n
      /\ \A i \in 1 .. Len(r) - n : Rest(n, r)[i] = r[n + i]
    BY RestOfSequence
<1>2. ASSUME NEW i \in 1 .. Len(r) - n
      PROVE  Rest(n, r)[i] = s[Len(s) - (Len(r) - n) + i]
    <2>1. n + i \in 1 .. Len(r) /\ Len(s) - Len(r) + (n + i) = Len(s) - (Len(r) - n) + i
        BY <1>0
    <2>2. r[n + i] = s[Len(s) - Len(r) + (n + i)]
        BY <2>1 DEF IsSuffix
    <2> QED BY <1>1, <2>1, <2>2
<1> QED BY <1>0, <1>1, <1>2 DEF IsSuffix
-----------------------------------------------------------------------------
(* Framing: PacketsOf is the function that its definition describes.       *)
LEMMA MagicHasBytes == MagicSize \in Nat \ {0} /\ HeaderSize \in Nat /\ BuffSize \in Nat
BY MagicAssumption, SizesAssumption, EmptySeq DEF MagicSize

LEMMA FirstOfBegins ==
    ASSUME NEW s \in Seq(Byte), NEW p \in 1 .. Len(s) + 1, Begins(s, p) # {}
    PROVE  /\ FirstOf(s, p) \in p .. Len(s) /\ BeginsAt(s, FirstOf(s, p))
           /\ \A c \in Begins(s, p) : FirstOf(s, p) <= c
           /\ EndOf(s, p) \in Nat /\ EndOf(s, p) > p
<1>0. Begins(s, p) \subseteq Nat /\ Begins(s, p) \subseteq p .. Len(s)
    BY DEF Begins
<1>1. \E b \in Begins(s, p) : \A c \in Begins(s, p) : b <= c
    BY <1>0, SmallestExists
<1>2. FirstOf(s, p) \in Begins(s, p) /\ \A c \in Begins(s, p) : FirstOf(s, p) <= c
    BY <1>1 DEF FirstOf
<1>3. FirstOf(s, p) \in p .. Len(s) /\ BeginsAt(s, FirstOf(s, p))
    BY <1>2 DEF Begins
<1>4. SizeAt(s, FirstOf(s, p)) \in Nat \ {0}
    BY <1>3, MagicHasBytes DEF BeginsAt
<1> QED BY <1>2, <1>3, <1>4 DEF EndOf

LEMMA StepLooksAhead ==
    ASSUME NEW s \in Seq(Byte), NEW p \in 1 .. Len(s) + 1, NEW g, NEW h,
           \A x \in 1 .. Len(s) + 1 : x > p => g[x] = h[x]
    PROVE  PacketsStep(s, g, p) = PacketsStep(s, h, p)
<1>1. CASE Begins(s, p) = {} \/ EndOf(s, p) > Len(s) + 1
    BY <1>1 DEF PacketsStep
<1>2. CASE Begins(s, p) # {} /\ ~(EndOf(s, p) > Len(s) + 1)
    <2>1. EndOf(s, p) \in 1 .. Len(s) + 1 /\ EndOf(s, p) > p
        BY <1>2, FirstOfBegins
    <2>2. g[EndOf(s, p)] = h[EndOf(s, p)]
        BY <2>1
    <2> QED BY <1>2, <2>2 DEF PacketsStep
<1> QED BY <1>1, <1>2

LEMMA PacketsExist ==
    ASSUME NEW s \in Seq(Byte)
    PROVE  \E g : g = [p \in 1 .. Len(s) + 1 |-> PacketsStep(s, g, p)]
<1> DEFINE L == Len(s)
           Holds(g, n) == /\ g = [p \in 1 .. L + 1 |-> g[p]]
                          /\ \A p \in 1 .. L + 1 : p >= L + 1 - n => g[p] = PacketsStep(s, g, p)
           T == {n \in Nat : \E g : Holds(g, n)}
<1>0. L \in Nat
    OBVIOUS
<1>1. ASSUME NEW n \in Int, NEW g, Holds(g, n)
      PROVE  \E h : Holds(h, n + 1)
    <2> DEFINE h == [p \in 1 .. L + 1 |-> IF p = L - n THEN PacketsStep(s, g, p) ELSE g[p]]
    <2>1. h = [p \in 1 .. L + 1 |-> h[p]]
        OBVIOUS
    <2>2. ASSUME NEW p \in 1 .. L + 1, p >= L + 1 - (n + 1) PROVE h[p] = PacketsStep(s, h, p)
        <3>1. p >= L - n /\ p \in Int
            BY <1>0, <2>2
        <3>2. \A x \in 1 .. L + 1 : x > p => g[x] = h[x]
            BY <1>0, <3>1
        <3>3. PacketsStep(s, g, p) = PacketsStep(s, h, p)
            <4> HIDE DEF h
            <4> QED BY <3>2, StepLooksAhead
        <3>4. CASE p = L - n
            BY <3>3, <3>4
        <3>5. CASE p # L - n
            <4>1. p >= L + 1 - n
                BY <1>0, <3>1, <3>5
            <4>2. g[p] = PacketsStep(s, g, p)
                BY <1>1, <4>1
            <4> QED BY <3>3, <3>5, <4>2
        <3> QED BY <3>4, <3>5
    <2> HIDE DEF h
    <2> QED BY <2>1, <2>2
<1>2. 0 \in T
    <2> DEFINE g == [p \in 1 .. L + 1 |-> << >>]
    <2>1. Holds(g, -1)
        BY <1>0
    <2>2. -1 \in Int /\ -1 + 1 = 0
        OBVIOUS
    <2> HIDE DEF g, Holds
    <2>3. \E h : Holds(h, -1 + 1)
        BY <1>1, <2>1, <2>2
    <2> QED BY <2>2, <2>3
<1>3. ASSUME NEW n \in Nat, n \in T PROVE n + 1 \in T
    <2> HIDE DEF Holds
    <2> QED BY <1>1, <1>3
<1>4. Nat \subseteq T
    <2> HIDE DEF T
    <2> QED BY <1>2, <1>3, NaturalsAreReached
<1>5. PICK g : Holds(g, L)
    BY <1>0, <1>4
<1>6. \A p \in 1 .. L + 1 : g[p] = PacketsStep(s, g, p)
    BY <1>0, <1>5
<1>7. g = [p \in 1 .. L + 1 |-> PacketsStep(s, g, p)]
    BY <1>5, <1>6
<1> QED BY <1>7

LEMMA PacketsAreDefined ==
    ASSUME NEW s \in Seq(Byte), NEW p \in 1 .. Len(s) + 1
    PROVE  PacketsOf(s)[p] = PacketsStep(s, PacketsOf(s), p)
<1> DEFINE IsIt(g) == g = [x \in 1 .. Len(s) + 1 |-> PacketsStep(s, g, x)]
<1>1. \E g : IsIt(g)
    BY PacketsExist
<1>2. PacketsOf(s) = CHOOSE g : IsIt(g)
    BY DEF PacketsOf, PacketsStep, Begins, FirstOf, EndOf
<1>3. IsIt(PacketsOf(s))
    <2> HIDE DEF IsIt
    <2> QED BY <1>1, <1>2
<1> DEFINE k == PacketsOf(s)
<1>4. k = [x \in 1 .. Len(s) + 1 |-> PacketsStep(s, k, x)]
    BY <1>3
<1> HIDE DEF k
<1>5. k[p] = PacketsStep(s, k, p)
    BY <1>4
<1> QED BY <1>5 DEF k

(* Where no packet begins, one behind there.                               *)
LEMMA NoPacketLeft ==
    ASSUME NEW s \in Seq(Byte), NEW p \in 1 .. Len(s) + 1, Begins(s, p) = {}
    PROVE  PacketsOf(s)[p] = << >>
BY PacketsAreDefined DEF PacketsStep

LEMMA PacketIsFurtherOn ==
    ASSUME NEW s \in Seq(Byte), NEW p \in 1 .. Len(s), ~BeginsAt(s, p)
    PROVE  PacketsOf(s)[p] = PacketsOf(s)[p + 1]
<1>0. p \in 1 .. Len(s) + 1 /\ p + 1 \in 1 .. Len(s) + 1
    OBVIOUS
<1>1. Begins(s, p) = Begins(s, p + 1)
    <2>1. ASSUME NEW q \in p .. Len(s), BeginsAt(s, q) PROVE q \in (p + 1) .. Len(s)
        <3>1. q # p
            BY <2>1
        <3> QED BY <3>1
    <2>2. (p + 1) .. Len(s) \subseteq p .. Len(s)
        OBVIOUS
    <2> QED BY <2>1, <2>2 DEF Begins
<1>2. FirstOf(s, p) = FirstOf(s, p + 1) /\ EndOf(s, p) = EndOf(s, p + 1)
    BY <1>1 DEF FirstOf, EndOf
<1>3. PacketsStep(s, PacketsOf(s), p) = PacketsStep(s, PacketsOf(s), p + 1)
    BY <1>1, <1>2 DEF PacketsStep
<1> QED BY <1>0, <1>3, PacketsAreDefined

LEMMA PacketIsHere ==
    ASSUME NEW s \in Seq(Byte), NEW p \in 1 .. Len(s), BeginsAt(s, p)
    PROVE  /\ p + SizeAt(s, p) > Len(s) + 1 => PacketsOf(s)[p] = << >>
           /\ p + SizeAt(s, p) <= Len(s) + 1 =>
                 PacketsOf(s)[p] = Given(SubSeq(s, p, (p + SizeAt(s, p)) - 1))
                                       \o PacketsOf(s)[p + SizeAt(s, p)]
<1>0. p \in 1 .. Len(s) + 1 /\ SizeAt(s, p) \in Nat
    BY MagicHasBytes DEF BeginsAt
<1>1. p \in Begins(s, p)
    BY DEF Begins
<1>2. FirstOf(s, p) \in p .. Len(s) /\ FirstOf(s, p) <= p
    BY <1>0, <1>1, FirstOfBegins
<1>3. FirstOf(s, p) = p
    BY <1>2
<1>4. EndOf(s, p) = p + SizeAt(s, p)
    BY <1>3 DEF EndOf
<1>5. PacketsOf(s)[p] = PacketsStep(s, PacketsOf(s), p)
    BY <1>0, PacketsAreDefined
<1> DEFINE g == PacketsOf(s)
           end == EndOf(s, p)
<1>6. /\ end > Len(s) + 1 => PacketsStep(s, g, p) = << >>
      /\ ~(end > Len(s) + 1) => PacketsStep(s, g, p) = Given(SubSeq(s, FirstOf(s, p), end - 1)) \o g[end]
    <2>1. Begins(s, p) # {}
        BY <1>1
    <2> QED BY <2>1 DEF PacketsStep
<1>7. end <= Len(s) + 1 => ~(end > Len(s) + 1)
    BY <1>0, <1>4
<1>8. /\ end > Len(s) + 1 => g[p] = << >>
      /\ end <= Len(s) + 1 => g[p] = Given(SubSeq(s, p, end - 1)) \o g[end]
    <2>1. g[p] = PacketsStep(s, g, p)
        BY <1>5
    <2> HIDE DEF g, end
    <2>2. end > Len(s) + 1 => g[p] = << >>
        BY <1>6, <2>1
    <2>3. end <= Len(s) + 1 => g[p] = Given(SubSeq(s, FirstOf(s, p), end - 1)) \o g[end]
        BY <1>6, <1>7, <2>1
    <2> QED BY <1>3, <2>2, <2>3
<1> DEFINE n == p + SizeAt(s, p)
<1>9. end = n
    BY <1>4
<1> HIDE DEF g, end, n
<1>10. /\ n > Len(s) + 1 => g[p] = << >>
       /\ n <= Len(s) + 1 => g[p] = Given(SubSeq(s, p, n - 1)) \o g[n]
    BY <1>8, <1>9
<1> QED BY <1>10 DEF g, n

LEMMA GivenIsIntact == ASSUME NEW pack PROVE Given(pack) \in Seq(Intact)
BY DEF Given

LEMMA PacketsAreIntact ==
    ASSUME NEW s \in Seq(Byte), NEW p \in 1 .. Len(s) + 1
    PROVE  PacketsOf(s)[p] \in Seq(Intact)
<1> DEFINE L == Len(s)
           Good(x) == PacketsOf(s)[x] \in Seq(Intact)
           T == {n \in Nat : \A x \in 1 .. L + 1 : x >= L + 1 - n => Good(x)}
<1>0. L \in Nat
    OBVIOUS
<1>1. ASSUME NEW n \in Int, \A x \in 1 .. L + 1 : x >= L + 1 - n => Good(x), NEW y \in 1 .. L + 1,
             y >= L + 1 - (n + 1)
      PROVE  Good(y)
    <2>1. PacketsOf(s)[y] = PacketsStep(s, PacketsOf(s), y)
        BY PacketsAreDefined
    <2>2. CASE Begins(s, y) = {} \/ EndOf(s, y) > L + 1
        <3>1. PacketsStep(s, PacketsOf(s), y) = << >>
            BY <2>2 DEF PacketsStep
        <3> QED BY <2>1, <3>1
    <2>3. CASE Begins(s, y) # {} /\ ~(EndOf(s, y) > L + 1)
        <3>1. EndOf(s, y) \in Nat /\ EndOf(s, y) > y
            BY <2>3, FirstOfBegins
        <3>2. EndOf(s, y) \in 1 .. L + 1 /\ EndOf(s, y) >= L + 1 - n
            BY <1>0, <1>1, <2>3, <3>1
        <3>3. Good(EndOf(s, y))
            BY <1>1, <3>2
        <3> DEFINE one == Given(SubSeq(s, FirstOf(s, y), EndOf(s, y) - 1))
                   more == PacketsOf(s)[EndOf(s, y)]
        <3>4. one \in Seq(Intact) /\ more \in Seq(Intact)
            BY <3>3, GivenIsIntact
        <3>5. PacketsStep(s, PacketsOf(s), y) = one \o more
            BY <2>3 DEF PacketsStep
        <3> HIDE DEF one, more
        <3>6. one \o more \in Seq(Intact)
            BY <3>4
        <3> QED BY <2>1, <3>5, <3>6
    <2> QED BY <2>2, <2>3
<1> HIDE DEF Good
<1>2. 0 \in T
    <2>1. \A x \in 1 .. L + 1 : ~(x >= L + 1 - (-1))
        BY <1>0
    <2>2. -1 \in Int /\ -1 + 1 = 0
        OBVIOUS
    <2>3. \A y \in 1 .. L + 1 : y >= L + 1 - (-1 + 1) => Good(y)
        BY <1>1, <2>1, <2>2
    <2> QED BY <2>2, <2>3
<1>3. ASSUME NEW n \in Nat, n \in T PROVE n + 1 \in T
    <2>1. n \in Int /\ n + 1 \in Nat /\ \A x \in 1 .. L + 1 : x >= L + 1 - n => Good(x)
        BY <1>3
    <2>2. \A y \in 1 .. L + 1 : y >= L + 1 - (n + 1) => Good(y)
        BY <1>1, <2>1
    <2> QED BY <2>1, <2>2
<1>4. Nat \subseteq T
    <2> HIDE DEF T
    <2> QED BY <1>2, <1>3, NaturalsAreReached
<1>5. L \in T /\ p >= L + 1 - L
    BY <1>0, <1>4
<1>6. Good(p)
    BY <1>5
<1> QED BY <1>6 DEF Good
-----------------------------------------------------------------------------
(* What stands at the begin of the ring buffer. *)
SeesMagic == Len(rbuf) >= MagicSize /\ First(MagicSize, rbuf) = Magic

SeesHeader == Len(rbuf) >= MagicSize + HeaderSize

HeaderSeen == PackSize[Rest(MagicSize, First(MagicSize + HeaderSize, rbuf))]

SeesNoPacket ==
    \/ Len(rbuf) >= MagicSize /\ First(MagicSize, rbuf) # Magic
    \/ SeesHeader /\ HeaderSeen \notin 1 .. BuffSize

(* The state of the parser is true of the bytes in the ring buffer, though *)
(* it was reached by an earlier look, or in an earlier call.               *)
StateIsTrue ==
    /\ m_parserState # "SearchForPreamble" => SeesMagic
    /\ m_parserState = "ReadPayload" => SeesHeader /\ m_packSize = HeaderSeen
    /\ pc = "case" => rbuf # << >>
    /\ pc = "drop" => rbuf # << >> /\ SeesNoPacket

(* What was handled are the packets of the part of the stream that was     *)
(* consumed, whatever comes behind what has arrived.                       *)
Place == Len(stream) - Len(rbuf) + 1

HandledSoFar ==
    \A e \in Seq(Byte) :
        PacketsOf(stream \o e)[1] = handled \o PacketsOf(stream \o e)[Place]

(* Who comes to rest has looked at all that can be decided. *)
RestsOnlyShort ==
    pc \in {"idle", "return"} /\ ~notified /\ Without({"mainLoop"}) =>
        rbuf = << >> \/ Len(rbuf) < Needed

FramingInv == IsSuffix(rbuf, stream) /\ StateIsTrue /\ HandledSoFar /\ RestsOnlyShort

IInv ==
    /\ TypeOK /\ handled \in Seq(Intact)
    /\ Without({"displace", "clear"}) => FramingInv
-----------------------------------------------------------------------------
LEMMA SizesAreNumbers ==
    ASSUME TypeOK
    PROVE  /\ rbuf \in Seq(Byte) /\ Len(rbuf) \in Nat
           /\ stream \in Seq(Byte) /\ Len(stream) \in Nat
           /\ IsSuffix(rbuf, stream) => Place \in 1 .. Len(stream) + 1
<1>1. rbuf \in Seq(Byte) /\ Len(rbuf) \in Nat /\ stream \in Seq(Byte) /\ Len(stream) \in Nat
    BY DEF TypeOK
<1> QED BY <1>1 DEF IsSuffix, Place

LEMMA WindowIsFirst ==
    ASSUME TypeOK, IsSuffix(rbuf, stream), NEW e \in Seq(Byte), NEW n \in 0 .. Len(rbuf)
    PROVE  SubSeq(stream \o e, Place, (Place + n) - 1) = First(n, rbuf)
<1>1. /\ rbuf \in Seq(Byte) /\ Len(rbuf) \in Nat
      /\ stream \in Seq(Byte) /\ Len(stream) \in Nat /\ n \in Nat
    BY SizesAreNumbers
<1>2. SubSeq(stream \o e, Len(stream) - Len(rbuf) + 1, Len(stream) - Len(rbuf) + n) = First(n, rbuf)
    BY <1>1, WindowOfSuffix
<1>3. (Place + n) - 1 = Len(stream) - Len(rbuf) + n
    BY <1>1 DEF Place
<1> QED BY <1>2, <1>3 DEF Place

LEMMA StreamGoesOn ==
    ASSUME TypeOK, IsSuffix(rbuf, stream), NEW e \in Seq(Byte)
    PROVE  /\ stream \o e \in Seq(Byte) /\ Len(stream \o e) \in Nat
           /\ Len(stream \o e) = Len(stream) + Len(e) /\ Len(e) \in Nat
           /\ Place \in 1 .. Len(stream \o e) + 1
           /\ rbuf # << >> => Place \in 1 .. Len(stream \o e)
<1>1. /\ rbuf \in Seq(Byte) /\ Len(rbuf) \in Nat
      /\ stream \in Seq(Byte) /\ Len(stream) \in Nat /\ Place \in 1 .. Len(stream) + 1
    BY SizesAreNumbers
<1>2. stream \o e \in Seq(Byte) /\ Len(stream \o e) = Len(stream) + Len(e) /\ Len(e) \in Nat
    BY <1>1
<1>3. rbuf # << >> => Len(rbuf) > 0
    BY <1>1
<1> QED BY <1>1, <1>2, <1>3 DEF Place

(* BeginsAt and SizeAt, of the place the parser has come to.               *)
LEMMA PlaceSeen ==
    ASSUME TypeOK, IsSuffix(rbuf, stream), NEW e \in Seq(Byte)
    PROVE  /\ Len(rbuf) >= MagicSize =>
                 (SubSeq(stream \o e, Place, Place + MagicSize - 1) = Magic
                      <=> First(MagicSize, rbuf) = Magic)
           /\ SeesHeader => SizeAt(stream \o e, Place) = HeaderSeen
           /\ SeesHeader => Place + MagicSize + HeaderSize - 1 <= Len(stream \o e)
<1>0. /\ Len(rbuf) \in Nat /\ MagicSize \in Nat /\ HeaderSize \in Nat
      /\ Place \in Nat /\ Place = Len(stream) - Len(rbuf) + 1 /\ Len(stream) \in Nat
    BY SizesAreNumbers, MagicHasBytes DEF Place
<1>1. ASSUME Len(rbuf) >= MagicSize
      PROVE  SubSeq(stream \o e, Place, Place + MagicSize - 1) = First(MagicSize, rbuf)
    <2>1. MagicSize \in 0 .. Len(rbuf) /\ Place + MagicSize - 1 = (Place + MagicSize) - 1
        BY <1>0, <1>1
    <2> QED BY <2>1, WindowIsFirst
<1>2. ASSUME SeesHeader
      PROVE  /\ SizeAt(stream \o e, Place) = HeaderSeen
             /\ Place + MagicSize + HeaderSize - 1 <= Len(stream \o e)
    <2>1. /\ MagicSize + HeaderSize \in 0 .. Len(rbuf)
          /\ Place + MagicSize + HeaderSize - 1 = (Place + (MagicSize + HeaderSize)) - 1
        BY <1>0, <1>2 DEF SeesHeader
    <2>2. SubSeq(stream \o e, Place, Place + MagicSize + HeaderSize - 1)
              = First(MagicSize + HeaderSize, rbuf)
        BY <2>1, WindowIsFirst
    <2>3. SizeAt(stream \o e, Place) = HeaderSeen
        BY <2>2 DEF SizeAt, HeaderSeen
    <2>4. Len(stream \o e) = Len(stream) + Len(e) /\ Len(e) \in Nat
        BY StreamGoesOn
    <2> QED BY <1>0, <2>1, <2>3, <2>4
<1> QED BY <1>1, <1>2

LEMMA NoPacketSeen ==
    ASSUME TypeOK, IsSuffix(rbuf, stream), SeesNoPacket, NEW e \in Seq(Byte)
    PROVE  ~BeginsAt(stream \o e, Place)
BY PlaceSeen DEF BeginsAt, SeesNoPacket

LEMMA PacketSeen ==
    ASSUME TypeOK, IsSuffix(rbuf, stream), SeesMagic, SeesHeader, HeaderSeen \in 1 .. BuffSize,
           NEW e \in Seq(Byte)
    PROVE  BeginsAt(stream \o e, Place) /\ SizeAt(stream \o e, Place) = HeaderSeen
BY PlaceSeen DEF BeginsAt, SeesMagic

LEMMA HeaderIsRead ==
    ASSUME TypeOK, SeesHeader PROVE HeaderSeen \in Nat
<1> DEFINE w == First(MagicSize + HeaderSize, rbuf)
<1>0. /\ rbuf \in Seq(Byte) /\ Len(rbuf) \in Nat /\ MagicSize \in Nat /\ HeaderSize \in Nat
      /\ MagicSize + HeaderSize \in 0 .. Len(rbuf)
    BY SizesAreNumbers, MagicHasBytes DEF SeesHeader
<1>1. w \in Seq(Byte) /\ Len(w) = MagicSize + HeaderSize
    BY <1>0 DEF First
<1> HIDE DEF w
<1>2. MagicSize \in 0 .. Len(w)
    BY <1>0, <1>1
<1>3. Rest(MagicSize, w) \in Seq(Byte) /\ Len(Rest(MagicSize, w)) = HeaderSize
    BY <1>0, <1>1, <1>2, RestOfSequence
<1>4. Rest(MagicSize, w) \in Header
    BY <1>3 DEF Header
<1> QED BY <1>4, PackSizeAssumption DEF HeaderSeen, w

(* More bytes behind the stored ones change nothing of what is seen at     *)
(* their begin.                                                            *)
LEMMA FirstStays ==
    ASSUME NEW r \in Seq(Byte), NEW d \in Seq(Byte), NEW n \in 0 .. Len(r)
    PROVE  First(n, r \o d) = First(n, r)
<1> DEFINE a == SubSeq(r \o d, 1, n)
           b == SubSeq(r, 1, n)
<1>0. Len(r) \in Nat /\ Len(d) \in Nat /\ n \in Nat /\ r \o d \in Seq(Byte)
      /\ Len(r \o d) = Len(r) + Len(d)
    OBVIOUS
<1>1. a \in Seq(Byte) /\ Len(a) = n /\ \A i \in 1 .. n : a[i] = (r \o d)[i]
    BY <1>0
<1>2. b \in Seq(Byte) /\ Len(b) = n /\ \A i \in 1 .. n : b[i] = r[i]
    BY <1>0
<1>3. \A i \in 1 .. n : (r \o d)[i] = r[i]
    BY <1>0
<1> HIDE DEF a, b
<1>4. a = b
    BY <1>1, <1>2, <1>3
<1> QED BY <1>4 DEF a, b, First
-----------------------------------------------------------------------------
LEMMA EmptyIsConcatenated ==
    ASSUME NEW B, NEW q \in Seq(B) PROVE q \o << >> = q /\ << >> \o q = q
OBVIOUS

LEMMA InitIInv == Init => IInv
<1> SUFFICES ASSUME Init PROVE IInv
    OBVIOUS
<1>1. TypeOK /\ handled \in Seq(Intact)
    <2>1. /\ rbuf \in Seq(Byte) /\ Len(rbuf) = 0 /\ stream \in Seq(Byte) /\ Len(stream) = 0
          /\ handled \in Seq(Intact) /\ DOMAIN handled = {}
        BY DEF Init
    <2>2. /\ notified = FALSE /\ m_parserState = "SearchForPreamble" /\ m_packSize = 0
          /\ pc = "idle" /\ allowed \in Usage
        BY DEF Init
    <2>3. 0 <= Capacity /\ 0 <= MaxStream
        BY SizesAssumption
    <2>4. \A i \in DOMAIN handled : handled[i] \in Intact
        BY <2>1
    <2> QED BY <2>1, <2>2, <2>3, <2>4 DEF TypeOK
<1>2. IsSuffix(rbuf, stream)
    BY DEF Init, IsSuffix
<1>3. StateIsTrue /\ RestsOnlyShort
    BY DEF Init, StateIsTrue, RestsOnlyShort
<1>4. HandledSoFar
    <2>1. handled = << >> /\ Place = 1
        BY DEF Init, Place
    <2>2. ASSUME NEW e \in Seq(Byte)
          PROVE  PacketsOf(stream \o e)[1] = << >> \o PacketsOf(stream \o e)[1]
        <3>1. stream \o e \in Seq(Byte) /\ 1 \in 1 .. Len(stream \o e) + 1
            BY <1>1, <1>2, <2>1, StreamGoesOn
        <3>2. PacketsOf(stream \o e)[1] \in Seq(Intact)
            BY <3>1, PacketsAreIntact
        <3> QED BY <3>2, EmptyIsConcatenated
    <2> QED BY <2>1, <2>2 DEF HandledSoFar
<1> QED BY <1>1, <1>2, <1>3, <1>4 DEF IInv, FramingInv

(* The steps that only look, and those in between. *)
LEMMA LookingKeeps ==
    ASSUME IInv, UNCHANGED <<rbuf, stream, handled, allowed>>, TypeOK',
           IInv /\ Without({"displace", "clear"}) => StateIsTrue' /\ RestsOnlyShort'
    PROVE  IInv'
<1>1. handled' \in Seq(Intact)
    BY DEF IInv
<1>2. ASSUME Without({"displace", "clear"}) PROVE IsSuffix(rbuf', stream') /\ HandledSoFar'
    <2>1. IsSuffix(rbuf, stream) /\ HandledSoFar
        BY <1>2 DEF IInv, FramingInv
    <2>2. rbuf' = rbuf /\ stream' = stream /\ handled' = handled
        OBVIOUS
    <2>3. Place' = Place
        BY <2>2 DEF Place
    <2> QED BY <2>1, <2>2, <2>3 DEF HandledSoFar
<1>3. Without({"displace", "clear"})' <=> Without({"displace", "clear"})
    BY DEF Without
<1> QED BY <1>1, <1>2, <1>3 DEF IInv, FramingInv

LEMMA StartParseIInv == IInv /\ StartParse => IInv'
<1> SUFFICES ASSUME IInv, StartParse PROVE IInv'
    OBVIOUS
<1>1. TypeOK'
    BY DEF IInv, TypeOK, StartParse
<1>2. ASSUME FramingInv PROVE StateIsTrue' /\ RestsOnlyShort'
    BY <1>2 DEF FramingInv, StartParse, StateIsTrue, RestsOnlyShort, SeesMagic, SeesHeader,
                HeaderSeen, First, Rest
<1>3. UNCHANGED <<rbuf, stream, handled, allowed>>
    BY DEF StartParse
<1> QED BY <1>1, <1>2, <1>3, LookingKeeps DEF IInv

(* The two ways to leave. *)
LEMMA LeavingKeeps ==
    ASSUME IInv, Leave, rbuf = << >> \/ Len(rbuf) < Needed
    PROVE  IInv'
<1>1. TypeOK'
    BY DEF IInv, TypeOK, Leave
<1>2. ASSUME FramingInv PROVE StateIsTrue'
    BY <1>2 DEF FramingInv, Leave, StateIsTrue, SeesMagic, SeesHeader, HeaderSeen, First, Rest
<1>3. RestsOnlyShort'
    <2>1. rbuf' = rbuf /\ Needed' = Needed
        BY DEF Leave, Needed
    <2> QED BY <2>1 DEF RestsOnlyShort
<1>4. UNCHANGED <<rbuf, stream, handled, allowed>>
    BY DEF Leave
<1> QED BY <1>1, <1>2, <1>3, <1>4, LookingKeeps DEF IInv

LEMMA ReturnIInv == IInv /\ Return => IInv'
<1> SUFFICES ASSUME IInv, Return PROVE IInv'
    OBVIOUS
<1>1. TypeOK'
    BY DEF IInv, TypeOK, Return
<1>2. ASSUME FramingInv PROVE StateIsTrue'
    BY <1>2 DEF FramingInv, Return, StateIsTrue, SeesMagic, SeesHeader, HeaderSeen, First, Rest
<1>3. ASSUME FramingInv PROVE RestsOnlyShort'
    <2>1. rbuf' = rbuf /\ Needed' = Needed
        BY DEF Return, Needed
    <2>2. ~notified' /\ Without({"mainLoop"})' => ~notified /\ Without({"mainLoop"})
        BY DEF Return, Without, IInv, TypeOK
    <2>3. pc = "return"
        BY DEF Return
    <2> QED BY <1>3, <2>1, <2>2, <2>3 DEF FramingInv, RestsOnlyShort
<1>4. UNCHANGED <<rbuf, stream, handled, allowed>>
    BY DEF Return
<1> QED BY <1>1, <1>2, <1>3, <1>4, LookingKeeps DEF IInv

LEMMA LoopGoesOnIInv == IInv /\ LoopGoesOn => IInv'
<1> SUFFICES ASSUME IInv, LoopGoesOn PROVE IInv'
    OBVIOUS
<1>1. TypeOK'
    BY DEF IInv, TypeOK, LoopGoesOn
<1>2. ASSUME FramingInv PROVE StateIsTrue' /\ RestsOnlyShort'
    BY <1>2 DEF FramingInv, LoopGoesOn, StateIsTrue, RestsOnlyShort, SeesMagic, SeesHeader,
                HeaderSeen, First, Rest
<1>3. UNCHANGED <<rbuf, stream, handled, allowed>>
    BY DEF LoopGoesOn
<1> QED BY <1>1, <1>2, <1>3, LookingKeeps DEF IInv

LEMMA LookForPreambleIInv == IInv /\ LookForPreamble => IInv'
<1> SUFFICES ASSUME IInv, LookForPreamble PROVE IInv'
    OBVIOUS
<1>0. /\ pc = "case" /\ m_parserState = "SearchForPreamble" /\ Len(rbuf) >= MagicSize
      /\ UNCHANGED <<rbuf, notified, m_packSize, stream, handled, allowed>>
    BY DEF LookForPreamble, Needed
<1>1. \/ /\ First(MagicSize, rbuf) = Magic
         /\ m_parserState' = "ReadHeader" /\ pc' = "loop"
      \/ /\ First(MagicSize, rbuf) # Magic
         /\ m_parserState' = m_parserState /\ pc' = "drop"
    BY DEF LookForPreamble
<1>2. TypeOK'
    BY <1>0, <1>1 DEF IInv, TypeOK
<1>3. ASSUME FramingInv PROVE StateIsTrue' /\ RestsOnlyShort'
    <2>1. rbuf # << >>
        BY <1>0, <1>3 DEF FramingInv, StateIsTrue
    <2>2. rbuf' = rbuf
        BY <1>0
    <2> QED BY <1>0, <1>1, <2>1, <2>2
            DEF StateIsTrue, RestsOnlyShort, SeesMagic, SeesNoPacket, First
<1> QED BY <1>0, <1>2, <1>3, LookingKeeps DEF IInv

LEMMA LookAtHeaderIInv == IInv /\ LookAtHeader => IInv'
<1> SUFFICES ASSUME IInv, LookAtHeader PROVE IInv'
    OBVIOUS
<1>0. /\ pc = "case" /\ m_parserState = "ReadHeader" /\ SeesHeader /\ m_packSize' = HeaderSeen
      /\ UNCHANGED <<rbuf, notified, stream, handled, allowed>>
    BY DEF LookAtHeader, Needed, SeesHeader, HeaderSeen
<1>1. \/ /\ m_packSize' = 0 \/ m_packSize' > BuffSize
         /\ m_parserState' = m_parserState /\ pc' = "drop"
      \/ /\ ~(m_packSize' = 0 \/ m_packSize' > BuffSize)
         /\ m_parserState' = "ReadPayload" /\ pc' = "loop"
    BY DEF LookAtHeader
<1>2. m_packSize' \in Nat /\ BuffSize \in Nat
    BY <1>0, HeaderIsRead, MagicHasBytes DEF IInv
<1>3. TypeOK'
    BY <1>0, <1>1, <1>2 DEF IInv, TypeOK
<1>4. ASSUME FramingInv PROVE StateIsTrue' /\ RestsOnlyShort'
    <2>1. rbuf # << >> /\ SeesMagic
        BY <1>0, <1>4 DEF FramingInv, StateIsTrue
    <2>2. rbuf' = rbuf /\ HeaderSeen' = HeaderSeen /\ (SeesHeader' <=> SeesHeader)
          /\ (SeesMagic' <=> SeesMagic)
        BY <1>0 DEF HeaderSeen, SeesHeader, SeesMagic
    <2>3. CASE pc' = "drop"
        <3>1. m_packSize' \notin 1 .. BuffSize
            BY <1>1, <1>2, <2>3
        <3> QED BY <1>0, <1>1, <2>1, <2>2, <2>3, <3>1 DEF StateIsTrue, RestsOnlyShort, SeesNoPacket
    <2>4. CASE pc' = "loop"
        BY <1>0, <1>1, <2>1, <2>2, <2>4 DEF StateIsTrue, RestsOnlyShort
    <2> QED BY <1>1, <2>3, <2>4
<1> QED BY <1>0, <1>3, <1>4, LookingKeeps DEF IInv
-----------------------------------------------------------------------------
(* The steps that put bytes into the ring buffer or take some out. *)
LEMMA ReceiveIInv == ASSUME NEW d \in Chunk PROVE IInv /\ Receive(d) => IInv'
<1> SUFFICES ASSUME IInv, Receive(d) PROVE IInv'
    OBVIOUS
<1>0. /\ rbuf' = rbuf \o d /\ stream' = stream \o d /\ notified' = TRUE
      /\ m_parserState' = m_parserState /\ m_packSize' = m_packSize /\ pc' = pc
      /\ handled' = handled /\ allowed' = allowed
      /\ Len(stream) + Len(d) <= MaxStream /\ Len(rbuf) + Len(d) <= Capacity
    BY DEF Receive, parser
<1>1. /\ d \in Seq(Byte) /\ Len(d) \in Nat
      /\ rbuf \in Seq(Byte) /\ Len(rbuf) \in Nat /\ stream \in Seq(Byte) /\ Len(stream) \in Nat
    BY ChunkAssumption, SizesAreNumbers DEF IInv
<1>2. /\ rbuf' \in Seq(Byte) /\ Len(rbuf') = Len(rbuf) + Len(d)
      /\ stream' \in Seq(Byte) /\ Len(stream') = Len(stream) + Len(d)
    BY <1>0, <1>1
<1>3. TypeOK' /\ handled' \in Seq(Intact)
    BY <1>0, <1>2 DEF IInv, TypeOK
<1>4. ASSUME FramingInv PROVE FramingInv'
    <2>1. IsSuffix(rbuf, stream) /\ StateIsTrue /\ HandledSoFar
        BY <1>4 DEF FramingInv
    <2>2. IsSuffix(rbuf', stream')
        BY <1>0, <1>1, <2>1, SuffixGrows
    <2>3. StateIsTrue'
        <3>1. MagicSize \in Nat \ {0} /\ HeaderSize \in Nat
            BY MagicHasBytes
        <3>2. Len(rbuf) >= MagicSize =>
                  First(MagicSize, rbuf') = First(MagicSize, rbuf) /\ Len(rbuf') >= MagicSize
            <4>1. Len(rbuf) >= MagicSize => MagicSize \in 0 .. Len(rbuf)
                BY <1>1, <3>1
            <4> QED BY <1>0, <1>1, <1>2, <4>1, FirstStays
        <3>3. SeesHeader => HeaderSeen' = HeaderSeen /\ SeesHeader'
            <4> SUFFICES ASSUME SeesHeader PROVE HeaderSeen' = HeaderSeen /\ SeesHeader'
                OBVIOUS
            <4>1. MagicSize + HeaderSize \in 0 .. Len(rbuf)
                BY <1>1, <3>1 DEF SeesHeader
            <4>2. First(MagicSize + HeaderSize, rbuf') = First(MagicSize + HeaderSize, rbuf)
                BY <1>0, <1>1, <4>1, FirstStays
            <4>3. SeesHeader'
                BY <1>1, <1>2, <3>1, <4>1 DEF SeesHeader
            <4> QED BY <4>2, <4>3 DEF HeaderSeen
        <3>4. rbuf # << >> => rbuf' # << >>
            BY <1>1, <1>2
        <3>5. SeesMagic => SeesMagic'
            BY <3>2 DEF SeesMagic
        <3>6. SeesNoPacket => SeesNoPacket'
            BY <3>2, <3>3 DEF SeesNoPacket
        <3> QED BY <1>0, <2>1, <3>3, <3>4, <3>5, <3>6 DEF StateIsTrue
    <2>4. HandledSoFar'
        <3>1. Place' = Place
            BY <1>1, <1>2 DEF Place
        <3>2. ASSUME NEW e \in Seq(Byte)
              PROVE  PacketsOf(stream' \o e)[1] = handled \o PacketsOf(stream' \o e)[Place]
            <4>1. d \o e \in Seq(Byte)
                BY <1>1
            <4>2. stream' \o e = stream \o (d \o e)
                <5>1. (stream \o d) \o e = stream \o (d \o e)
                    BY <1>1, ConcatAssociative
                <5> QED BY <1>0, <5>1
            <4>3. PacketsOf(stream \o (d \o e))[1] = handled \o PacketsOf(stream \o (d \o e))[Place]
                BY <2>1, <4>1 DEF HandledSoFar
            <4> QED BY <4>2, <4>3
        <3> QED BY <1>0, <3>1, <3>2 DEF HandledSoFar
    <2>5. RestsOnlyShort'
        BY <1>0 DEF RestsOnlyShort
    <2> QED BY <2>2, <2>3, <2>4, <2>5 DEF FramingInv
<1>5. Without({"displace", "clear"})' <=> Without({"displace", "clear"})
    BY <1>0 DEF Without
<1> QED BY <1>3, <1>4, <1>5 DEF IInv

LEMMA ReceiveOverwritingIInv ==
    ASSUME NEW d \in Chunk PROVE IInv /\ ReceiveOverwriting(d) => IInv'
<1> SUFFICES ASSUME IInv, ReceiveOverwriting(d) PROVE IInv'
    OBVIOUS
<1> DEFINE all == rbuf \o d
           n == Len(all) - Capacity
<1>0. /\ rbuf' = Rest(n, all) /\ stream' = stream \o d /\ notified' = TRUE
      /\ m_parserState' = m_parserState /\ m_packSize' = m_packSize /\ pc' = pc
      /\ handled' = handled /\ allowed' = allowed /\ "displace" \in allowed
      /\ Len(stream) + Len(d) <= MaxStream /\ Len(rbuf) + Len(d) > Capacity
    BY DEF ReceiveOverwriting, parser
<1>1. /\ d \in Seq(Byte) /\ Len(d) \in Nat /\ Capacity \in Nat
      /\ rbuf \in Seq(Byte) /\ Len(rbuf) \in Nat /\ stream \in Seq(Byte) /\ Len(stream) \in Nat
    BY ChunkAssumption, SizesAssumption, SizesAreNumbers DEF IInv
<1>2. all \in Seq(Byte) /\ Len(all) = Len(rbuf) + Len(d)
    BY <1>1
<1>3. n \in 0 .. Len(all) /\ Len(all) - n = Capacity
    BY <1>0, <1>1, <1>2
<1>4. rbuf' \in Seq(Byte) /\ Len(rbuf') = Capacity
    <2> HIDE DEF all, n
    <2> QED BY <1>0, <1>2, <1>3, RestOfSequence
<1>5. stream' \in Seq(Byte) /\ Len(stream') = Len(stream) + Len(d)
    BY <1>0, <1>1
<1>6. TypeOK' /\ handled' \in Seq(Intact)
    BY <1>0, <1>1, <1>4, <1>5 DEF IInv, TypeOK
<1>7. ~Without({"displace", "clear"})'
    BY <1>0 DEF Without
<1> QED BY <1>6, <1>7 DEF IInv

LEMMA ClearBetweenCallsIInv == IInv /\ ClearBetweenCalls => IInv'
<1> SUFFICES ASSUME IInv, ClearBetweenCalls PROVE IInv'
    OBVIOUS
<1>1. /\ rbuf' \in Seq(Byte) /\ Len(rbuf') = 0 /\ "clear" \in allowed
      /\ UNCHANGED <<notified, parser, stream, handled, allowed>>
    BY DEF ClearBetweenCalls
<1>2. TypeOK' /\ handled' \in Seq(Intact)
    BY <1>1, SizesAssumption DEF IInv, TypeOK, parser
<1>3. ~Without({"displace", "clear"})'
    BY <1>1 DEF Without
<1> QED BY <1>2, <1>3 DEF IInv

LEMMA DropOneIInv == IInv /\ DropOne => IInv'
<1> SUFFICES ASSUME IInv, DropOne PROVE IInv'
    OBVIOUS
<1>0. /\ pc = "drop" /\ rbuf' = Rest(1, rbuf)
      /\ m_parserState' = "SearchForPreamble" /\ pc' = "loop"
      /\ UNCHANGED <<notified, m_packSize, stream, handled, allowed>>
    BY DEF DropOne
<1>1. TypeOK /\ rbuf \in Seq(Byte) /\ Len(rbuf) \in Nat
    BY SizesAreNumbers DEF IInv
<1>2. rbuf' \in Seq(Byte) /\ Len(rbuf') <= Len(rbuf)
    <2>1. CASE rbuf = << >>
        BY <1>0, <1>1, <2>1 DEF Rest
    <2>2. CASE rbuf # << >>
        <3>1. 1 \in 0 .. Len(rbuf)
            BY <1>1, <2>2
        <3> QED BY <1>0, <1>1, <3>1, RestOfSequence
    <2> QED BY <2>1, <2>2
<1>3. TypeOK' /\ handled' \in Seq(Intact)
    BY <1>0, <1>1, <1>2, SizesAssumption DEF IInv, TypeOK
<1>4. ASSUME FramingInv PROVE FramingInv'
    <2>1. /\ IsSuffix(rbuf, stream) /\ StateIsTrue /\ HandledSoFar
          /\ rbuf # << >> /\ SeesNoPacket
        BY <1>0, <1>4 DEF FramingInv, StateIsTrue
    <2>2. 1 \in 0 .. Len(rbuf) /\ Len(rbuf') = Len(rbuf) - 1
        <3>1. 1 \in 0 .. Len(rbuf)
            BY <1>1, <2>1
        <3> QED BY <1>0, <1>1, <3>1, RestOfSequence
    <2>3. stream \in Seq(Byte) /\ Len(stream) \in Nat /\ Place' = Place + 1
        BY <1>0, <1>1, <2>2, SizesAreNumbers DEF Place
    <2>4. IsSuffix(rbuf', stream')
        BY <1>0, <1>1, <2>1, <2>2, <2>3, SuffixShrinks
    <2>5. StateIsTrue' /\ RestsOnlyShort'
        BY <1>0 DEF StateIsTrue, RestsOnlyShort
    <2>6. HandledSoFar'
        <3>1. ASSUME NEW e \in Seq(Byte)
              PROVE  PacketsOf(stream \o e)[1] = handled \o PacketsOf(stream \o e)[Place + 1]
            <4>1. stream \o e \in Seq(Byte) /\ Place \in 1 .. Len(stream \o e)
                BY <1>1, <2>1, StreamGoesOn
            <4>2. ~BeginsAt(stream \o e, Place)
                BY <1>1, <2>1, NoPacketSeen
            <4>3. PacketsOf(stream \o e)[Place] = PacketsOf(stream \o e)[Place + 1]
                BY <4>1, <4>2, PacketIsFurtherOn
            <4> QED BY <2>1, <4>3 DEF HandledSoFar
        <3>2. stream' = stream /\ handled' = handled
            BY <1>0
        <3> QED BY <2>3, <3>1, <3>2 DEF HandledSoFar
    <2> QED BY <2>4, <2>5, <2>6 DEF FramingInv
<1>5. Without({"displace", "clear"})' <=> Without({"displace", "clear"})
    BY <1>0 DEF Without
<1> QED BY <1>3, <1>4, <1>5 DEF IInv

LEMMA TakePacketIInv == IInv /\ TakePacket => IInv'
<1> SUFFICES ASSUME IInv, TakePacket PROVE IInv'
    OBVIOUS
<1> DEFINE pack == First(m_packSize, rbuf)
<1>0. /\ pc = "case" /\ m_parserState = "ReadPayload" /\ Len(rbuf) >= m_packSize
      /\ handled' = handled \o Given(pack) /\ rbuf' = Rest(m_packSize, rbuf)
      /\ m_parserState' = "SearchForPreamble" /\ pc' = "loop"
      /\ UNCHANGED <<notified, m_packSize, stream, allowed>>
    BY DEF TakePacket, Needed
<1>1. /\ TypeOK /\ rbuf \in Seq(Byte) /\ Len(rbuf) \in Nat
      /\ m_packSize \in Nat /\ m_packSize \in 0 .. Len(rbuf) /\ m_packSize \in 1 .. BuffSize
    BY <1>0, SizesAreNumbers DEF IInv, TypeOK
<1>2. /\ rbuf' \in Seq(Byte) /\ Len(rbuf') = Len(rbuf) - m_packSize
    BY <1>0, <1>1, RestOfSequence
<1>3. handled \in Seq(Intact) /\ Given(pack) \in Seq(Intact) /\ handled' \in Seq(Intact)
    <2>1. handled \in Seq(Intact) /\ Given(pack) \in Seq(Intact)
        BY GivenIsIntact DEF IInv
    <2> HIDE DEF pack
    <2> DEFINE one == Given(pack)
    <2>2. one \in Seq(Intact) /\ handled' = handled \o one
        BY <1>0, <2>1
    <2> HIDE DEF one
    <2>3. handled' \in Seq(Intact)
        BY <2>1, <2>2
    <2> QED BY <2>1, <2>3
<1>4. TypeOK'
    <2>1. \A i \in DOMAIN handled' : handled'[i] \in Intact
        BY <1>3
    <2> QED BY <1>0, <1>1, <1>2, <2>1, SizesAssumption DEF IInv, TypeOK
<1>5. ASSUME FramingInv PROVE FramingInv'
    <2>1. /\ IsSuffix(rbuf, stream) /\ HandledSoFar
          /\ rbuf # << >> /\ SeesMagic /\ SeesHeader /\ m_packSize = HeaderSeen
        BY <1>0, <1>5 DEF FramingInv, StateIsTrue
    <2>2. /\ stream \in Seq(Byte) /\ Len(stream) \in Nat /\ Place' = Place + m_packSize
          /\ Place + m_packSize <= Len(stream) + 1 /\ Place \in Nat
        BY <1>0, <1>1, <1>2, <2>1, SizesAreNumbers DEF Place
    <2>3. IsSuffix(rbuf', stream')
        BY <1>0, <1>1, <2>1, <2>2, SuffixShrinks
    <2>4. StateIsTrue' /\ RestsOnlyShort'
        BY <1>0 DEF StateIsTrue, RestsOnlyShort
    <2>5. HandledSoFar'
        <3>1. ASSUME NEW e \in Seq(Byte)
              PROVE  PacketsOf(stream \o e)[1]
                         = (handled \o Given(pack)) \o PacketsOf(stream \o e)[Place + m_packSize]
            <4> DEFINE t == stream \o e
                       g == PacketsOf(t)
                       end == Place + m_packSize
            <4>1. /\ t \in Seq(Byte) /\ Place \in 1 .. Len(t) /\ end <= Len(t) + 1
                  /\ end \in 1 .. Len(t) + 1
                BY <1>1, <2>1, <2>2, StreamGoesOn
            <4>2. BeginsAt(t, Place) /\ SizeAt(t, Place) = m_packSize
                BY <1>1, <2>1, PacketSeen
            <4>3. SubSeq(t, Place, end - 1) = pack
                BY <1>1, <2>1, WindowIsFirst
            <4>4. g[end] \in Seq(Intact)
                BY <4>1, PacketsAreIntact
            <4>5. g[1] = handled \o g[Place]
                BY <2>1 DEF HandledSoFar
            <4>6. g[Place] = Given(pack) \o g[end]
                <5> DEFINE n == Place + SizeAt(t, Place)
                <5>1. n = end
                    BY <4>2
                <5>2. n <= Len(t) + 1 => g[Place] = Given(SubSeq(t, Place, n - 1)) \o g[n]
                    <6> HIDE DEF t
                    <6> QED BY <4>1, <4>2, PacketIsHere
                <5> HIDE DEF t, g, n, end, pack
                <5> QED BY <4>1, <4>3, <5>1, <5>2
            <4> DEFINE one == Given(pack)
            <4>7. one \in Seq(Intact) /\ handled \in Seq(Intact)
                BY <1>3
            <4>8. g[1] = handled \o (one \o g[end])
                BY <4>5, <4>6
            <4>9. g[1] = (handled \o one) \o g[end]
                <5> DEFINE others == g[end]
                <5>1. others \in Seq(Intact)
                    BY <4>4
                <5>2. g[1] = handled \o (one \o others)
                    BY <4>8
                <5> HIDE DEF one, others
                <5>3. handled \o (one \o others) = (handled \o one) \o others
                    BY <4>7, <5>1, ConcatAssociative
                <5>4. g[1] = (handled \o one) \o others
                    <6> HIDE DEF g
                    <6> QED BY <5>2, <5>3
                <5> QED BY <5>4 DEF others
            <4> QED BY <4>9
        <3>2. stream' = stream /\ handled' = handled \o Given(pack)
            BY <1>0
        <3> HIDE DEF pack
        <3> QED BY <2>2, <3>1, <3>2 DEF HandledSoFar
    <2> QED BY <2>3, <2>4, <2>5 DEF FramingInv
<1>6. Without({"displace", "clear"})' <=> Without({"displace", "clear"})
    BY <1>0 DEF Without
<1> QED BY <1>3, <1>4, <1>5, <1>6 DEF IInv

LEMMA NextIInv == IInv /\ [Next]_parserVars => IInv'
<1> SUFFICES ASSUME IInv, [Next]_parserVars PROVE IInv'
    OBVIOUS
<1>1. CASE \E d \in Chunk : Receive(d) \/ ReceiveOverwriting(d)
    BY <1>1, ReceiveIInv, ReceiveOverwritingIInv
<1>2. CASE ClearBetweenCalls
    BY <1>2, ClearBetweenCallsIInv
<1>3. CASE LoopEnds \/ AwaitMore
    BY <1>3, LeavingKeeps DEF LoopEnds, AwaitMore
<1>4. CASE StartParse \/ LoopGoesOn \/ Return
    BY <1>4, StartParseIInv, LoopGoesOnIInv, ReturnIInv
<1>5. CASE LookForPreamble \/ LookAtHeader \/ DropOne \/ TakePacket
    BY <1>5, LookForPreambleIInv, LookAtHeaderIInv, DropOneIInv, TakePacketIInv
<1>6. CASE UNCHANGED parserVars
    <2>1. UNCHANGED <<rbuf, notified, m_parserState, m_packSize, pc, stream, handled, allowed>>
        BY <1>6 DEF parserVars, parser
    <2>2. TypeOK'
        BY <2>1 DEF IInv, TypeOK
    <2>3. ASSUME FramingInv PROVE StateIsTrue' /\ RestsOnlyShort'
        <3>1. Needed' = Needed /\ HeaderSeen' = HeaderSeen
              /\ (SeesMagic' <=> SeesMagic) /\ (SeesHeader' <=> SeesHeader)
              /\ (SeesNoPacket' <=> SeesNoPacket)
            BY <2>1 DEF Needed, HeaderSeen, SeesMagic, SeesHeader, SeesNoPacket
        <3> QED BY <2>1, <2>3, <3>1 DEF FramingInv, StateIsTrue, RestsOnlyShort, Without
    <2> QED BY <2>1, <2>2, <2>3, LookingKeeps DEF IInv
<1> QED BY <1>1, <1>2, <1>3, <1>4, <1>5, <1>6 DEF Next, parseNewData
-----------------------------------------------------------------------------
(* The parser's state is true of what stands in the ring buffer, in every  *)
(* state it can be in.                                                     *)
THEOREM Invariance == Spec => []IInv
BY InitIInv, NextIInv, PTL DEF Spec

(* m_buffer is never read into beyond its end: the size a payload is read  *)
(* with passed the check of the header, however long ago, and whatever the *)
(* interrupt has done to the ring buffer since.                            *)
THEOREM TypeCorrect == Spec => []TypeOK
<1>1. IInv => TypeOK
    BY DEF IInv
<1> QED BY <1>1, Invariance, PTL

(* Nothing is left to be decided when the parser is at rest. *)
LEMMA RestIsDone ==
    ASSUME IInv, FramingInv, pc = "idle", ~notified, Without({"mainLoop"})
    PROVE  PacketsOf(stream)[Place] = << >>
<1>0. /\ rbuf \in Seq(Byte) /\ Len(rbuf) \in Nat /\ stream \in Seq(Byte) /\ Len(stream) \in Nat
      /\ Place \in 1 .. Len(stream) + 1 /\ Place = Len(stream) - Len(rbuf) + 1
      /\ MagicSize \in Nat \ {0} /\ HeaderSize \in Nat
      /\ TypeOK /\ IsSuffix(rbuf, stream) /\ StateIsTrue
    BY SizesAreNumbers, MagicHasBytes DEF IInv, FramingInv, Place
<1>1. rbuf = << >> \/ Len(rbuf) < Needed
    BY DEF FramingInv, RestsOnlyShort
<1>2. CASE Len(rbuf) < MagicSize + HeaderSize
    <2>1. ASSUME NEW q \in Place .. Len(stream) PROVE ~BeginsAt(stream, q)
        <3>1. q + MagicSize + HeaderSize - 1 > Len(stream)
            BY <1>0, <1>2
        <3> QED BY <1>0, <3>1 DEF BeginsAt
    <2>2. Begins(stream, Place) = {}
        BY <2>1 DEF Begins
    <2> QED BY <1>0, <2>2, NoPacketLeft
<1>3. CASE m_parserState = "ReadPayload" /\ Len(rbuf) < m_packSize
    <2>1. SeesMagic /\ SeesHeader /\ m_packSize = HeaderSeen /\ HeaderSeen \in 1 .. BuffSize
        BY <1>0, <1>3 DEF StateIsTrue, TypeOK
    <2>2. << >> \in Seq(Byte) /\ stream \o << >> = stream
        BY <1>0, EmptyIsConcatenated
    <2>3. BeginsAt(stream, Place) /\ SizeAt(stream, Place) = m_packSize
        BY <1>0, <2>1, <2>2, PacketSeen
    <2>4. Place \in 1 .. Len(stream)
        BY <1>0, <2>1 DEF SeesHeader
    <2>5. m_packSize \in Nat /\ Place + m_packSize > Len(stream) + 1
        BY <1>0, <1>3 DEF TypeOK
    <2> QED BY <1>0, <2>3, <2>4, <2>5, PacketIsHere
<1>4. Len(rbuf) < MagicSize + HeaderSize \/ (m_parserState = "ReadPayload" /\ Len(rbuf) < m_packSize)
    <2>1. CASE rbuf = << >>
        BY <1>0, <2>1
    <2>2. CASE Len(rbuf) < Needed
        BY <1>0, <2>2 DEF Needed, TypeOK
    <2> QED BY <1>1, <2>1, <2>2
<1> QED BY <1>2, <1>3, <1>4

LEMMA HandledAreFirst ==
    ASSUME NEW h \in Seq(Intact), NEW q \in Seq(Intact)
    PROVE  Len(h) <= Len(h \o q) /\ h = First(Len(h), h \o q)
<1> DEFINE b == SubSeq(h \o q, 1, Len(h))
<1>0. Len(h) \in Nat /\ Len(q) \in Nat /\ Len(h \o q) = Len(h) + Len(q) /\ h \o q \in Seq(Intact)
    OBVIOUS
<1>1. b \in Seq(Intact) /\ Len(b) = Len(h) /\ \A i \in 1 .. Len(h) : b[i] = (h \o q)[i]
    BY <1>0
<1>2. \A i \in 1 .. Len(h) : (h \o q)[i] = h[i]
    BY <1>0
<1> HIDE DEF b
<1>3. b = h
    BY <1>1, <1>2
<1> QED BY <1>0, <1>3 DEF b, First

(* For every preamble, size and order in which bytes arrive: the handler   *)
(* is given the packets of the stream, in order, none twice, none left out *)
(* and none cut wrong, and all that are complete once the parser rests, if *)
(* nobody overwrites or clears the ring buffer under it.                   *)
THEOREM FramingIsHandled == Spec => []HandlesTheFraming
<1>1. IInv => HandlesTheFraming
    <2> SUFFICES ASSUME IInv, Without({"displace", "clear"})
                 PROVE  /\ Len(handled) <= Len(Framing(stream))
                        /\ handled = First(Len(handled), Framing(stream))
                        /\ pc = "idle" /\ ~notified /\ Without({"mainLoop"}) => handled = Framing(stream)
        BY DEF HandlesTheFraming
    <2> DEFINE left == PacketsOf(stream)[Place]
    <2>1. FramingInv /\ TypeOK /\ handled \in Seq(Intact)
        BY DEF IInv
    <2>2. << >> \in Seq(Byte) /\ stream \o << >> = stream
        BY <2>1, SizesAreNumbers, EmptyIsConcatenated
    <2>3. Framing(stream) = handled \o left
        BY <2>1, <2>2 DEF FramingInv, HandledSoFar, Framing
    <2>4. left \in Seq(Intact)
        BY <2>1, SizesAreNumbers, PacketsAreIntact DEF FramingInv
    <2>5. pc = "idle" /\ ~notified /\ Without({"mainLoop"}) => left = << >>
        BY <2>1, RestIsDone
    <2> HIDE DEF left
    <2>6. left = << >> => handled \o left = handled
        BY <2>1, EmptyIsConcatenated
    <2> QED BY <2>1, <2>3, <2>4, <2>5, <2>6, HandledAreFirst
<1> QED BY <1>1, Invariance, PTL
=============================================================================
