--------------------------- MODULE TerminalProofs ---------------------------
(***************************************************************************)
(* Proofs about Terminal for every alphabet, every length of the line and  *)
(* of the arguments, every set of ring buffers and every way in which      *)
(* characters arrive while others are read.                                *)
(***************************************************************************)
EXTENDS Terminal, SequenceTheorems, FiniteSetTheorems, WellFoundedInduction, TLAPS

(* What WordsFrom looks for behind a place of the line, and what it gives  *)
(* from a place on, if g says what it gives from the later ones on.        *)
Spaces(s, p) == {q \in p .. Len(s) : s[q] = Space}
FirstSpace(s, p) == CHOOSE q \in Spaces(s, p) : \A other \in Spaces(s, p) : q <= other

WordsStep(s, g, p) ==
    IF Spaces(s, p) = {} THEN <<SubSeq(s, p, Len(s))>>
    ELSE <<SubSeq(s, p, FirstSpace(s, p) - 1)>> \o g[FirstSpace(s, p) + 1]

(* The cells of the terminators of the first cells up to end, from cell i  *)
(* on, and how many of a set of them are in front of one.                  *)
EndsFrom(buffer, end, i) == {j \in i .. end - 1 : buffer[j] = Nul}
Rank(ends, i) == Cardinality({j \in ends : j < i})

(* buffer is what parse makes of a line s. *)
IsTerminated(buffer, s) ==
    /\ buffer \in [0 .. LastCharPos -> Printable \cup {Nul}]
    /\ Len(s) <= LastCharPos
    /\ \A i \in 0 .. Len(s) - 1 : buffer[i] = IF s[i + 1] = Space THEN Nul ELSE s[i + 1]
    /\ buffer[Len(s)] = Nul

(* The strings in the buffer from cell p - 1 on are the words w: the first *)
(* one begins there, the others behind the terminators in the line.        *)
StringsAre(buffer, end, p, w) ==
    LET ends == EndsFrom(buffer, end, p - 1)
    IN  /\ w \in Seq(Seq(Printable))
        /\ Len(w) = Cardinality(ends) + 1
        /\ w[1] = CString(buffer, p - 1)
        /\ \A i \in ends : Rank(ends, i) \in 0 .. Len(w) - 2
                           /\ w[Rank(ends, i) + 2] = CString(buffer, i + 1)
        /\ \A k \in 0 .. Len(w) - 2 : \E i \in ends : Rank(ends, i) = k
-----------------------------------------------------------------------------
(* Induction over a set of numbers. *)
LEMMA SmallestExists ==
    ASSUME NEW S \in SUBSET Nat, S # {}
    PROVE  \E b \in S : \A c \in S : b <= c
<1> DEFINE Smaller == {ss \in Nat \X Nat : ss[1] < ss[2]}
<1>1. IsWellFoundedOn(Smaller, Nat)
    BY NatLessThanWellFounded DEF OpToRel
<1> HIDE DEF Smaller
<1>2. PICK b \in S : \A c \in S : ~(<<c, b>> \in Smaller)
    BY <1>1, WFMin
<1>3. ASSUME NEW c \in S PROVE b <= c
    <2>1. b \in Nat /\ c \in Nat /\ ~(<<c, b>> \in Smaller)
        BY <1>2
    <2> QED BY <2>1 DEF Smaller
<1> QED BY <1>3

LEMMA NaturalsAreReached ==
    ASSUME NEW T, 0 \in T, \A n \in Nat : n \in T => n + 1 \in T
    PROVE  Nat \subseteq T
<1> SUFFICES ASSUME Nat \ T # {} PROVE FALSE
    OBVIOUS
<1>0. Nat \ T \in SUBSET Nat
    OBVIOUS
<1>1. PICK x \in Nat \ T : \A y \in Nat \ T : x <= y
    BY <1>0, SmallestExists
<1>2. x # 0 /\ x - 1 \in Nat /\ (x - 1) + 1 = x
    BY <1>1
<1>3. x - 1 \notin T
    BY <1>1, <1>2
<1> QED BY <1>1, <1>2, <1>3
-----------------------------------------------------------------------------
(* Sets of cells: with one more in front, the rank of every other grows.   *)
IsInFront(f, S) == \A j \in S : f < j

RanksAre(S, f, S1) ==
    /\ Cardinality(S) \in Nat /\ Cardinality(S1) = Cardinality(S) + 1
    /\ Rank(S1, f) = 0
    /\ \A i \in S : Rank(S, i) \in Nat /\ Rank(S1, i) = Rank(S, i) + 1

LEMMA RanksGrow ==
    ASSUME NEW S \in SUBSET Nat, IsFiniteSet(S), NEW f \in Nat, IsInFront(f, S),
           NEW S1, S1 = S \cup {f}
    PROVE  RanksAre(S, f, S1)
<1> USE DEF IsInFront
<1>1. f \notin S
    OBVIOUS
<1>2. IsFiniteSet(S1) /\ Cardinality(S1) = Cardinality(S) + 1
    BY <1>1, FS_AddElement
<1>3. Cardinality(S) \in Nat
    BY FS_CardinalityType
<1>4. {j \in S1 : j < f} = {}
    <2>1. ASSUME NEW j \in S1 PROVE ~(j < f)
        <3>1. j \in Nat /\ (j = f \/ f < j)
            OBVIOUS
        <3> QED BY <3>1
    <2> QED BY <2>1
<1>5. ASSUME NEW i \in S
      PROVE  Rank(S, i) \in Nat /\ Rank(S1, i) = Rank(S, i) + 1
    <2> DEFINE before == {j \in S : j < i}
    <2>1. {j \in S1 : j < i} = before \cup {f} /\ f \notin before
        BY <1>1
    <2>2. IsFiniteSet(before)
        BY FS_Subset
    <2> HIDE DEF before
    <2>3. Cardinality(before \cup {f}) = Cardinality(before) + 1 /\ Cardinality(before) \in Nat
        BY <2>1, <2>2, FS_AddElement, FS_CardinalityType
    <2> QED BY <2>1, <2>3 DEF Rank, before
<1>6. Rank(S1, f) = 0
    BY <1>4, FS_EmptySet DEF Rank
<1> QED BY <1>2, <1>3, <1>5, <1>6 DEF RanksAre
-----------------------------------------------------------------------------
(* A C string ends in front of the first terminator. *)
CellsFrom(buffer, i, n) == [k \in 1 .. n |-> buffer[(i + k) - 1]]
NoEndAmong(buffer, i, n) == \A k \in i .. (i + n) - 1 : buffer[k] # Nul

LEMMA CStringIs ==
    ASSUME NEW buffer \in [0 .. LastCharPos -> Printable \cup {Nul}],
           NEW i \in Nat, NEW n \in Nat, i + n <= LastCharPos,
           buffer[i + n] = Nul, NoEndAmong(buffer, i, n)
    PROVE  CString(buffer, i) = CellsFrom(buffer, i, n)
<1>0. LastCharPos \in Nat
    BY SizeAssumption
<1> DEFINE IsLength(m) == /\ i + m \in DOMAIN buffer => buffer[i + m] = Nul
                          /\ \A k \in i .. i + m - 1 : buffer[k] # Nul
           Lengths == 0 .. LastCharPos + 1 - i
           length == CHOOSE m \in Lengths : IsLength(m)
<1>1. n \in Lengths /\ IsLength(n)
    BY <1>0 DEF NoEndAmong
<1>2. ASSUME NEW m \in Lengths, IsLength(m) PROVE m = n
    <2>0. m \in Nat /\ i + m <= LastCharPos + 1
        BY <1>0
    <2>1. CASE m < n
        <3>1. i + m \in DOMAIN buffer /\ i + m \in i .. (i + n) - 1
            BY <1>0, <2>0, <2>1
        <3> QED BY <1>2, <3>1 DEF NoEndAmong
    <2>2. CASE n < m
        <3>1. i + n \in i .. (i + m) - 1
            BY <1>0, <2>0, <2>2
        <3> QED BY <1>2, <3>1
    <2> QED BY <2>0, <2>1, <2>2
<1>3. length = n
    <2> HIDE DEF IsLength, Lengths
    <2> QED BY <1>1, <1>2
<1>4. CString(buffer, i) = [k \in 1 .. length |-> buffer[i + k - 1]]
    BY DEF CString
<1>5. \A k \in 1 .. n : i + k - 1 = (i + k) - 1
    OBVIOUS
<1> HIDE DEF length
<1> QED BY <1>3, <1>4, <1>5 DEF CellsFrom
-----------------------------------------------------------------------------
(* WordsFrom is the function that its definition describes. *)
LEMMA FirstOfSpaces ==
    ASSUME NEW s \in Seq(Printable), NEW p \in 1 .. Len(s) + 1, Spaces(s, p) # {}
    PROVE  /\ FirstSpace(s, p) \in p .. Len(s) /\ s[FirstSpace(s, p)] = Space
           /\ \A q \in p .. Len(s) : s[q] = Space => FirstSpace(s, p) <= q
<1>0. Spaces(s, p) \subseteq Nat
    BY DEF Spaces
<1>1. \E b \in Spaces(s, p) : \A c \in Spaces(s, p) : b <= c
    BY <1>0, SmallestExists
<1>2. FirstSpace(s, p) \in Spaces(s, p) /\ \A c \in Spaces(s, p) : FirstSpace(s, p) <= c
    BY <1>1 DEF FirstSpace
<1> QED BY <1>2 DEF Spaces

LEMMA StepLooksAhead ==
    ASSUME NEW s \in Seq(Printable), NEW p \in 1 .. Len(s) + 1, NEW g, NEW h,
           \A x \in 1 .. Len(s) + 1 : x > p => g[x] = h[x]
    PROVE  WordsStep(s, g, p) = WordsStep(s, h, p)
<1>1. CASE Spaces(s, p) = {}
    BY <1>1 DEF WordsStep
<1>2. CASE Spaces(s, p) # {}
    <2>1. FirstSpace(s, p) + 1 \in 1 .. Len(s) + 1 /\ FirstSpace(s, p) + 1 > p
        BY <1>2, FirstOfSpaces
    <2>2. g[FirstSpace(s, p) + 1] = h[FirstSpace(s, p) + 1]
        BY <2>1
    <2> QED BY <1>2, <2>2 DEF WordsStep
<1> QED BY <1>1, <1>2

LEMMA WordsExist ==
    ASSUME NEW s \in Seq(Printable)
    PROVE  \E g : g = [p \in 1 .. Len(s) + 1 |-> WordsStep(s, g, p)]
<1> DEFINE L == Len(s)
           GoodFrom(g, n) == /\ g = [p \in 1 .. L + 1 |-> g[p]]
                             /\ \A p \in 1 .. L + 1 : p >= L + 1 - n => g[p] = WordsStep(s, g, p)
           T == {n \in Nat : \E g : GoodFrom(g, n)}
<1>0. L \in Nat
    OBVIOUS
<1>1. ASSUME NEW n \in Int, NEW g, GoodFrom(g, n)
      PROVE  \E h : GoodFrom(h, n + 1)
    <2> DEFINE h == [p \in 1 .. L + 1 |-> IF p = L - n THEN WordsStep(s, g, p) ELSE g[p]]
    <2>1. h = [p \in 1 .. L + 1 |-> h[p]]
        OBVIOUS
    <2>2. ASSUME NEW p \in 1 .. L + 1, p >= L + 1 - (n + 1) PROVE h[p] = WordsStep(s, h, p)
        <3>1. p >= L - n /\ p \in Int
            BY <1>0, <2>2
        <3>2. \A x \in 1 .. L + 1 : x > p => g[x] = h[x]
            BY <1>0, <3>1
        <3>3. WordsStep(s, g, p) = WordsStep(s, h, p)
            <4> HIDE DEF h
            <4> QED BY <3>2, StepLooksAhead
        <3>4. CASE p = L - n
            BY <3>3, <3>4
        <3>5. CASE p # L - n
            <4>1. p >= L + 1 - n
                BY <1>0, <3>1, <3>5
            <4>2. g[p] = WordsStep(s, g, p)
                BY <1>1, <4>1
            <4> QED BY <3>3, <3>5, <4>2
        <3> QED BY <3>4, <3>5
    <2> HIDE DEF h
    <2> QED BY <2>1, <2>2
<1>2. 0 \in T
    <2> DEFINE g == [p \in 1 .. L + 1 |-> << >>]
    <2>1. GoodFrom(g, -1)
        BY <1>0
    <2>2. -1 \in Int /\ -1 + 1 = 0
        OBVIOUS
    <2> HIDE DEF g, GoodFrom
    <2>3. \E h : GoodFrom(h, -1 + 1)
        BY <1>1, <2>1, <2>2
    <2> QED BY <2>2, <2>3
<1>3. ASSUME NEW n \in Nat, n \in T PROVE n + 1 \in T
    <2> HIDE DEF GoodFrom
    <2> QED BY <1>1, <1>3
<1>4. Nat \subseteq T
    <2> HIDE DEF T
    <2> QED BY <1>2, <1>3, NaturalsAreReached
<1>5. PICK g : GoodFrom(g, L)
    BY <1>0, <1>4
<1>6. \A p \in 1 .. L + 1 : g[p] = WordsStep(s, g, p)
    BY <1>0, <1>5
<1>7. g = [p \in 1 .. L + 1 |-> WordsStep(s, g, p)]
    BY <1>5, <1>6
<1> QED BY <1>7

LEMMA WordsAreDefined ==
    ASSUME NEW s \in Seq(Printable), NEW p \in 1 .. Len(s) + 1
    PROVE  WordsFrom(s)[p] = WordsStep(s, WordsFrom(s), p)
<1> DEFINE IsIt(g) == g = [x \in 1 .. Len(s) + 1 |-> WordsStep(s, g, x)]
<1>1. \E g : IsIt(g)
    BY WordsExist
<1>2. WordsFrom(s) = CHOOSE g : IsIt(g)
    BY DEF WordsFrom, WordsStep, Spaces, FirstSpace
<1>3. IsIt(WordsFrom(s))
    <2> HIDE DEF IsIt
    <2> QED BY <1>1, <1>2
<1> DEFINE k == WordsFrom(s)
<1>4. k = [x \in 1 .. Len(s) + 1 |-> WordsStep(s, k, x)]
    BY <1>3
<1> HIDE DEF k
<1>5. k[p] = WordsStep(s, k, p)
    BY <1>4
<1> QED BY <1>5 DEF k
-----------------------------------------------------------------------------
(* The words and the strings, from the last one to the first.              *)
LEMMA CharsDiffer == Nul \notin Printable /\ Space \in Printable /\ Space # Nul
BY CharAssumption DEF Printable

(* What stands between two terminators is the word between two spaces.     *)
LEMMA StringIsWord ==
    ASSUME NEW s \in Seq(Printable), NEW buffer, IsTerminated(buffer, s),
           NEW p \in 1 .. Len(s) + 1, NEW q \in p .. Len(s) + 1,
           q <= Len(s) => s[q] = Space, \A x \in p .. q - 1 : s[x] # Space
    PROVE  /\ CString(buffer, p - 1) = SubSeq(s, p, q - 1)
           /\ SubSeq(s, p, q - 1) \in Seq(Printable)
<1>0. /\ Len(s) \in Nat /\ p \in Nat /\ q \in Nat /\ q - p \in Nat /\ p - 1 \in Nat
      /\ LastCharPos \in Nat /\ Len(s) <= LastCharPos
    BY SizeAssumption DEF IsTerminated
<1>1. buffer[(p - 1) + (q - p)] = Nul
    <2>1. (p - 1) + (q - p) = q - 1
        BY <1>0
    <2>2. CASE q = Len(s) + 1
        <3>1. q - 1 = Len(s)
            BY <1>0, <2>2
        <3> QED BY <2>1, <3>1 DEF IsTerminated
    <2>3. CASE q # Len(s) + 1
        <3>1. q - 1 \in 0 .. Len(s) - 1 /\ (q - 1) + 1 = q /\ q <= Len(s)
            BY <1>0, <2>3
        <3> QED BY <2>1, <3>1 DEF IsTerminated
    <2> QED BY <2>2, <2>3
<1>2. \A k \in 1 .. q - p : buffer[((p - 1) + k) - 1] = s[(p + k) - 1] /\ s[(p + k) - 1] # Space
                            /\ s[(p + k) - 1] \in Printable
    <2> TAKE k \in 1 .. q - p
    <2>1. /\ ((p - 1) + k) - 1 \in 0 .. Len(s) - 1 /\ (((p - 1) + k) - 1) + 1 = (p + k) - 1
          /\ (p + k) - 1 \in p .. q - 1 /\ (p + k) - 1 \in 1 .. Len(s)
        BY <1>0
    <2>2. s[(p + k) - 1] # Space /\ s[(p + k) - 1] \in Printable
        BY <2>1
    <2> QED BY <2>1, <2>2 DEF IsTerminated
<1>3. \A k \in p - 1 .. ((p - 1) + (q - p)) - 1 : buffer[k] # Nul
    <2> TAKE k \in p - 1 .. ((p - 1) + (q - p)) - 1
    <2>1. (k - (p - 1)) + 1 \in 1 .. q - p /\ ((p - 1) + ((k - (p - 1)) + 1)) - 1 = k
        BY <1>0
    <2> DEFINE m == (k - (p - 1)) + 1
    <2>2. buffer[((p - 1) + m) - 1] \in Printable
        BY <1>2, <2>1
    <2> QED BY <2>1, <2>2, CharsDiffer
<1>4. buffer \in [0 .. LastCharPos -> Printable \cup {Nul}] /\ (p - 1) + (q - p) <= LastCharPos
    BY <1>0 DEF IsTerminated
<1>5. CString(buffer, p - 1) = CellsFrom(buffer, p - 1, q - p)
    <2> DEFINE i == p - 1
               n == q - p
    <2>1. /\ i \in Nat /\ n \in Nat /\ i + n <= LastCharPos /\ buffer[i + n] = Nul
          /\ NoEndAmong(buffer, i, n)
        BY <1>0, <1>1, <1>3, <1>4 DEF NoEndAmong
    <2> HIDE DEF i, n
    <2>2. CString(buffer, i) = CellsFrom(buffer, i, n)
        BY <1>4, <2>1, CStringIs
    <2> QED BY <2>2 DEF i, n
<1> DEFINE a == CellsFrom(buffer, p - 1, q - p)
           b == SubSeq(s, p, q - 1)
<1>6. a = [k \in 1 .. q - p |-> s[(p + k) - 1]]
    BY <1>2 DEF CellsFrom
<1>7. a \in Seq(Printable) /\ Len(a) = q - p /\ \A k \in 1 .. q - p : a[k] = s[(p + k) - 1]
    <2> DEFINE n == q - p
    <2>1. a \in [1 .. n -> Printable] /\ \A k \in 1 .. n : a[k] = s[(p + k) - 1]
        BY <1>2, <1>6
    <2>2. n \in Nat
        BY <1>0
    <2> HIDE DEF a, n
    <2>3. a \in Seq(Printable) /\ Len(a) = n
        BY <2>1, <2>2
    <2> QED BY <2>1, <2>3 DEF n
<1>8. b \in Seq(Printable) /\ Len(b) = q - p /\ \A k \in 1 .. q - p : b[k] = s[(p + k) - 1]
    BY <1>0
<1> HIDE DEF a, b
<1>9. a = b
    <2>1. Len(a) = Len(b) /\ \A k \in 1 .. Len(a) : a[k] = b[k]
        BY <1>7, <1>8
    <2> QED BY <1>7, <1>8, <2>1, SeqEqual
<1> QED BY <1>5, <1>8, <1>9 DEF a, b

LEMMA EndsAreFinite ==
    ASSUME NEW buffer, NEW end \in Nat, NEW i \in Nat
    PROVE  /\ IsFiniteSet(EndsFrom(buffer, end, i)) /\ EndsFrom(buffer, end, i) \in SUBSET Nat
           /\ Cardinality(EndsFrom(buffer, end, i)) \in Nat
<1>1. IsFiniteSet(i .. end - 1)
    BY FS_Interval
<1>2. EndsFrom(buffer, end, i) \in SUBSET (i .. end - 1)
    BY DEF EndsFrom
<1>3. IsFiniteSet(EndsFrom(buffer, end, i))
    BY <1>1, <1>2, FS_Subset
<1> QED BY <1>2, <1>3, FS_CardinalityType

(* The last word. *)
LEMMA LastString ==
    ASSUME NEW s \in Seq(Printable), NEW buffer, IsTerminated(buffer, s),
           NEW p \in 1 .. Len(s) + 1, Spaces(s, p) = {}
    PROVE  StringsAre(buffer, Len(s), p, WordsFrom(s)[p])
<1>0. Len(s) \in Nat /\ p \in Nat /\ p - 1 \in Nat
    OBVIOUS
<1> DEFINE word == SubSeq(s, p, Len(s))
           w == WordsFrom(s)[p]
           ends == EndsFrom(buffer, Len(s), p - 1)
<1>1. w = <<word>>
    BY WordsAreDefined DEF WordsStep
<1>2. CString(buffer, p - 1) = word /\ word \in Seq(Printable)
    <2> DEFINE q == Len(s) + 1
    <2>1. q \in p .. Len(s) + 1 /\ ~(q <= Len(s)) /\ q - 1 = Len(s)
        BY <1>0
    <2>2. \A x \in p .. q - 1 : s[x] # Space
        BY <2>1 DEF Spaces
    <2> HIDE DEF q
    <2>3. /\ CString(buffer, p - 1) = SubSeq(s, p, q - 1)
          /\ SubSeq(s, p, q - 1) \in Seq(Printable)
        BY <2>1, <2>2, StringIsWord
    <2> QED BY <2>1, <2>3
<1>3. ends = {}
    <2>1. ASSUME NEW j \in p - 1 .. Len(s) - 1 PROVE buffer[j] # Nul
        <3>1. j \in 0 .. Len(s) - 1 /\ j + 1 \in p .. Len(s) /\ j + 1 \in 1 .. Len(s)
            BY <1>0
        <3>2. s[j + 1] # Space /\ s[j + 1] \in Printable
            BY <3>1 DEF Spaces
        <3> QED BY <3>1, <3>2, CharsDiffer DEF IsTerminated
    <2> QED BY <2>1 DEF EndsFrom
<1> HIDE DEF word, w, ends
<1>4. w \in Seq(Seq(Printable)) /\ Len(w) = 1 /\ w[1] = word
    BY <1>1, <1>2
<1>5. Cardinality(ends) = 0
    BY <1>3, FS_EmptySet
<1>6. 0 .. Len(w) - 2 = {}
    BY <1>4
<1>7. /\ w \in Seq(Seq(Printable))
      /\ Len(w) = Cardinality(ends) + 1
      /\ w[1] = CString(buffer, p - 1)
      /\ \A i \in ends : Rank(ends, i) \in 0 .. Len(w) - 2
                         /\ w[Rank(ends, i) + 2] = CString(buffer, i + 1)
      /\ \A k \in 0 .. Len(w) - 2 : \E i \in ends : Rank(ends, i) = k
    BY <1>2, <1>3, <1>4, <1>5, <1>6
<1> QED BY <1>7 DEF StringsAre, w, ends

(* w is v with one more element in front. *)
Extends(w, a, v, A) ==
    /\ w \in Seq(A) /\ Len(w) = Len(v) + 1 /\ w[1] = a
    /\ \A k \in 1 .. Len(v) : w[k + 1] = v[k]

LEMMA OneInFront ==
    ASSUME NEW A, NEW a \in A, NEW v \in Seq(A)
    PROVE  Extends(<<a>> \o v, a, v, A)
<1> DEFINE one == <<a>>
<1>1. one \in Seq(A) /\ Len(one) = 1 /\ one[1] = a
    OBVIOUS
<1> HIDE DEF one
<1> DEFINE w == one \o v
<1>2. w \in Seq(A) /\ Len(w) = Len(one) + Len(v)
    BY <1>1, ConcatProperties
<1>3. \A i \in 1 .. Len(one) + Len(v) : w[i] = IF i <= Len(one) THEN one[i] ELSE v[i - Len(one)]
    BY <1>1, ConcatProperties, Zenon
<1> HIDE DEF w
<1>4. Len(v) \in Nat
    OBVIOUS
<1>5. Len(w) = Len(v) + 1 /\ w[1] = a
    BY <1>1, <1>2, <1>3, <1>4
<1>6. ASSUME NEW k \in 1 .. Len(v) PROVE w[k + 1] = v[k]
    <2>1. k + 1 \in 1 .. Len(one) + Len(v) /\ ~(k + 1 <= Len(one)) /\ (k + 1) - Len(one) = k
        BY <1>1, <1>4
    <2> QED BY <1>3, <2>1
<1>7. Extends(w, a, v, A)
    BY <1>2, <1>5, <1>6 DEF Extends
<1> QED BY <1>7 DEF w, one

(* A word in front of others. *)
LEMMA StringInFront ==
    ASSUME NEW s \in Seq(Printable), NEW buffer, IsTerminated(buffer, s),
           NEW p \in 1 .. Len(s) + 1, Spaces(s, p) # {},
           NEW f, f = FirstSpace(s, p),
           StringsAre(buffer, Len(s), f + 1, WordsFrom(s)[f + 1])
    PROVE  StringsAre(buffer, Len(s), p, WordsFrom(s)[p])
<1>0. /\ Len(s) \in Nat /\ p \in Nat /\ p - 1 \in Nat
      /\ f \in p .. Len(s) /\ f \in 1 .. Len(s) /\ f - 1 \in Nat /\ s[f] = Space
      /\ \A q \in p .. Len(s) : s[q] = Space => f <= q
    BY FirstOfSpaces
<1> DEFINE word == SubSeq(s, p, f - 1)
           v == WordsFrom(s)[f + 1]
           w == WordsFrom(s)[p]
           later == EndsFrom(buffer, Len(s), f)
           ends == EndsFrom(buffer, Len(s), p - 1)
<1>1. w = <<word>> \o v
    BY WordsAreDefined DEF WordsStep
<1>2. CString(buffer, p - 1) = word /\ word \in Seq(Printable)
    <2>1. f \in p .. Len(s) + 1 /\ (f <= Len(s) => s[f] = Space)
        BY <1>0
    <2>2. ASSUME NEW x \in p .. f - 1 PROVE s[x] # Space
        <3>1. x \in p .. Len(s) /\ ~(f <= x)
            BY <1>0
        <3> QED BY <1>0, <3>1
    <2> QED BY <2>1, <2>2, StringIsWord
<1>3. /\ v \in Seq(Seq(Printable))
      /\ Len(v) = Cardinality(later) + 1
      /\ v[1] = CString(buffer, f)
      /\ \A i \in later : Rank(later, i) \in 0 .. Len(v) - 2
                          /\ v[Rank(later, i) + 2] = CString(buffer, i + 1)
      /\ \A k \in 0 .. Len(v) - 2 : \E i \in later : Rank(later, i) = k
    <2>1. (f + 1) - 1 = f
        BY <1>0
    <2> QED BY <2>1 DEF StringsAre
<1>4. ends = later \cup {f - 1}
    <2>1. ASSUME NEW j \in p - 1 .. Len(s) - 1, buffer[j] = Nul PROVE j = f - 1 \/ j \in f .. Len(s) - 1
        <3>1. j \in 0 .. Len(s) - 1 /\ j + 1 \in p .. Len(s) /\ j + 1 \in 1 .. Len(s)
            BY <1>0
        <3>2. s[j + 1] \in Printable
            BY <3>1
        <3>3. s[j + 1] = Space
            BY <2>1, <3>1, <3>2, CharsDiffer DEF IsTerminated
        <3>4. f <= j + 1
            BY <1>0, <3>1, <3>3
        <3> QED BY <1>0, <3>1, <3>4
    <2>2. f - 1 \in p - 1 .. Len(s) - 1 /\ buffer[f - 1] = Nul
        <3>1. f - 1 \in 0 .. Len(s) - 1 /\ (f - 1) + 1 = f
            BY <1>0
        <3> QED BY <1>0, <3>1 DEF IsTerminated
    <2>3. f .. Len(s) - 1 \subseteq p - 1 .. Len(s) - 1
        BY <1>0
    <2> QED BY <2>1, <2>2, <2>3 DEF EndsFrom
<1>5. IsFiniteSet(later) /\ later \in SUBSET Nat /\ IsInFront(f - 1, later)
    <2>0. f \in Nat
        BY <1>0
    <2>1. IsFiniteSet(later) /\ later \in SUBSET Nat
        BY <1>0, <2>0, EndsAreFinite
    <2>2. ASSUME NEW j \in later PROVE f - 1 < j
        BY <2>0 DEF EndsFrom
    <2> QED BY <2>1, <2>2 DEF IsInFront
<1> HIDE DEF word, v, w, later, ends
<1>6. /\ Cardinality(later) \in Nat /\ Cardinality(ends) = Cardinality(later) + 1
      /\ Rank(ends, f - 1) = 0
      /\ \A i \in later : Rank(later, i) \in Nat /\ Rank(ends, i) = Rank(later, i) + 1
    <2> DEFINE e == f - 1
    <2>1. e \in Nat /\ ends = later \cup {e} /\ IsInFront(e, later)
        BY <1>0, <1>4, <1>5
    <2> HIDE DEF e
    <2>2. RanksAre(later, e, ends)
        BY <1>5, <2>1, RanksGrow
    <2> QED BY <2>2 DEF e, RanksAre
<1>7. /\ w \in Seq(Seq(Printable)) /\ Len(v) \in Nat \ {0} /\ Len(w) = Len(v) + 1 /\ w[1] = word
      /\ \A k \in 1 .. Len(v) : w[k + 1] = v[k]
    <2>1. Len(v) \in Nat \ {0}
        BY <1>3, <1>6
    <2> DEFINE Strings == Seq(Printable)
    <2>2. word \in Strings /\ v \in Seq(Strings)
        BY <1>2, <1>3
    <2> HIDE DEF Strings
    <2>3. Extends(w, word, v, Strings)
        BY <1>1, <2>2, OneInFront
    <2> QED BY <2>1, <2>3 DEF Extends, Strings
<1>8. ASSUME NEW i \in ends
      PROVE  Rank(ends, i) \in 0 .. Len(w) - 2 /\ w[Rank(ends, i) + 2] = CString(buffer, i + 1)
    <2>1. CASE i = f - 1
        <3>1. i + 1 = f /\ 0 + 2 = 1 + 1 /\ 1 \in 1 .. Len(v)
            BY <1>0, <1>7, <2>1
        <3>2. Rank(ends, i) = 0 /\ w[2] = v[1]
            BY <1>6, <1>7, <2>1, <3>1
        <3> QED BY <1>3, <1>7, <3>1, <3>2
    <2>2. CASE i \in later
        <3>1. Rank(later, i) \in 0 .. Len(v) - 2 /\ v[Rank(later, i) + 2] = CString(buffer, i + 1)
              /\ Rank(ends, i) = Rank(later, i) + 1
            BY <1>3, <1>6, <2>2
        <3> DEFINE n == Rank(later, i)
        <3>2. n \in 0 .. Len(v) - 2 /\ Rank(ends, i) = n + 1
            BY <3>1
        <3> HIDE DEF n
        <3>3. n + 2 \in 1 .. Len(v) /\ n + 1 \in 0 .. Len(w) - 2 /\ (n + 2) + 1 = (n + 1) + 2
            BY <1>7, <3>2
        <3>4. w[(n + 2) + 1] = v[n + 2]
            BY <1>7, <3>3
        <3>5. v[n + 2] = CString(buffer, i + 1)
            BY <3>1 DEF n
        <3> QED BY <3>2, <3>3, <3>4, <3>5
    <2> QED BY <1>4, <1>8, <2>1, <2>2
<1>9. ASSUME NEW k \in 0 .. Len(w) - 2
      PROVE  \E i \in ends : Rank(ends, i) = k
    <2>1. CASE k = 0
        BY <1>4, <1>6, <2>1
    <2>2. CASE k # 0
        <3> DEFINE m == k - 1
        <3>1. m \in 0 .. Len(v) - 2 /\ m + 1 = k
            BY <1>7, <2>2
        <3> HIDE DEF m
        <3>2. PICK i \in later : Rank(later, i) = m
            BY <1>3, <3>1
        <3>3. i \in ends /\ Rank(ends, i) = m + 1
            BY <1>4, <1>6, <3>2
        <3> QED BY <3>1, <3>3
    <2> QED BY <2>1, <2>2
<1>10. /\ w \in Seq(Seq(Printable))
       /\ Len(w) = Cardinality(ends) + 1
       /\ w[1] = CString(buffer, p - 1)
    BY <1>2, <1>3, <1>6, <1>7
<1> QED BY <1>8, <1>9, <1>10 DEF StringsAre, w, ends

(* All of them. *)
LEMMA StringsAreWords ==
    ASSUME NEW s \in Seq(Printable), NEW buffer, IsTerminated(buffer, s)
    PROVE  StringsAre(buffer, Len(s), 1, Words(s))
<1> DEFINE L == Len(s)
           Good(p) == StringsAre(buffer, L, p, WordsFrom(s)[p])
           T == {n \in Nat : \A p \in 1 .. L + 1 : p >= L + 1 - n => Good(p)}
<1>0. L \in Nat
    OBVIOUS
<1>1. ASSUME NEW p \in 1 .. L + 1, \A x \in 1 .. L + 1 : x > p => Good(x)
      PROVE  Good(p)
    <2>1. CASE Spaces(s, p) = {}
        BY <2>1, LastString
    <2>2. CASE Spaces(s, p) # {}
        <3> DEFINE f == FirstSpace(s, p)
        <3>1. f + 1 \in 1 .. L + 1 /\ f + 1 > p
            BY <2>2, FirstOfSpaces
        <3>2. Good(f + 1)
            BY <1>1, <3>1
        <3> QED BY <2>2, <3>2, StringInFront
    <2> QED BY <2>1, <2>2
<1> HIDE DEF Good
<1>2. 0 \in T
    <2>1. ASSUME NEW p \in 1 .. L + 1, p >= L + 1 - 0 PROVE Good(p)
        <3>1. \A x \in 1 .. L + 1 : ~(x > p)
            BY <1>0, <2>1
        <3> QED BY <1>1, <3>1
    <2> QED BY <2>1
<1>3. ASSUME NEW n \in Nat, n \in T PROVE n + 1 \in T
    <2>1. ASSUME NEW p \in 1 .. L + 1, p >= L + 1 - (n + 1) PROVE Good(p)
        <3>1. \A x \in 1 .. L + 1 : x > p => x >= L + 1 - n
            BY <1>0, <2>1
        <3>2. \A x \in 1 .. L + 1 : x > p => Good(x)
            BY <1>3, <3>1
        <3> QED BY <1>1, <3>2
    <2> QED BY <2>1
<1>4. Nat \subseteq T
    <2> HIDE DEF T
    <2> QED BY <1>2, <1>3, NaturalsAreReached
<1>5. L \in T
    <2> HIDE DEF T
    <2> QED BY <1>0, <1>4
<1>6. 1 \in 1 .. L + 1 /\ 1 >= L + 1 - L
    BY <1>0
<1>7. Good(1)
    BY <1>5, <1>6
<1> QED BY <1>7 DEF Good, Words
-----------------------------------------------------------------------------
(* What exec is given.  m_arg points behind the terminators, in order.     *)
Behind(ends, k) == {i \in ends : Rank(ends, i) = k}

LEMMA ArgumentsAre ==
    ASSUME NEW buffer, NEW end, NEW k \in 0 .. MaxArgCounter - 1,
           NEW ends, ends = EndsFrom(buffer, end, 0)
    PROVE  /\ Behind(ends, k) = {} => Arguments(buffer, end)[k] = Null
           /\ Behind(ends, k) # {} =>
                 \E i \in Behind(ends, k) : Arguments(buffer, end)[k] = i + 1
<1>1. Arguments(buffer, end) =
        [m \in 0 .. MaxArgCounter - 1 |->
            IF Behind(ends, m) = {} THEN Null ELSE (CHOOSE i \in Behind(ends, m) : TRUE) + 1]
    BY DEF Arguments, Behind, Rank, EndsFrom
<1>2. Arguments(buffer, end)[k] =
        IF Behind(ends, k) = {} THEN Null ELSE (CHOOSE i \in Behind(ends, k) : TRUE) + 1
    BY <1>1
<1>3. Behind(ends, k) # {} => (CHOOSE i \in Behind(ends, k) : TRUE) \in Behind(ends, k)
    OBVIOUS
<1> QED BY <1>2, <1>3

(* The command that a Run is has the words of the line that was typed.     *)
GetsItsWords(run) ==
    LET words == Words(run.typed)
    IN  /\ run.name = words[1]
        /\ run.argc = Len(words) - 1
        /\ \A k \in 0 .. MaxArgCounter - 1 :
               run.args[k] = IF k + 1 < Len(words) THEN words[k + 2] ELSE NoString

LEMMA RunGetsItsWords ==
    ASSUME NEW buffer, line \in Seq(Printable), IsTerminated(buffer, line)
    PROVE  GetsItsWords(Run(buffer, Len(line)))
<1> DEFINE end == Len(line)
           run == Run(buffer, end)
           w == Words(line)
           ends == EndsFrom(buffer, end, 0)
           m_arg == Arguments(buffer, end)
<1>0. end \in Nat /\ 1 - 1 = 0 /\ MaxArgCounter \in Nat
    BY SizeAssumption
<1>1. /\ w \in Seq(Seq(Printable))
      /\ Len(w) = Cardinality(ends) + 1
      /\ w[1] = CString(buffer, 0)
      /\ \A i \in ends : Rank(ends, i) \in 0 .. Len(w) - 2
                         /\ w[Rank(ends, i) + 2] = CString(buffer, i + 1)
      /\ \A k \in 0 .. Len(w) - 2 : \E i \in ends : Rank(ends, i) = k
    BY <1>0, StringsAreWords DEF StringsAre
<1>2. ends \in SUBSET Nat /\ Cardinality(ends) \in Nat /\ Len(w) \in Nat \ {0}
    BY <1>0, <1>1, EndsAreFinite
<1>3. DOMAIN m_arg = 0 .. MaxArgCounter - 1
    BY DEF Arguments
<1>4. /\ run.typed = line
      /\ run.name = CString(buffer, 0)
      /\ run.argc = Cardinality({i \in 0 .. end - 1 : buffer[i] = Nul})
      /\ run.args = [k \in DOMAIN m_arg |->
                        IF m_arg[k] = Null THEN NoString ELSE CString(buffer, m_arg[k])]
    BY DEF Run
<1>5. run.argc = Cardinality(ends)
    BY <1>4 DEF EndsFrom
<1>6. ASSUME NEW k \in 0 .. MaxArgCounter - 1
      PROVE  run.args[k] = IF k + 1 < Len(w) THEN w[k + 2] ELSE NoString
    <2>1. run.args[k] = IF m_arg[k] = Null THEN NoString ELSE CString(buffer, m_arg[k])
        BY <1>3, <1>4
    <2>2. /\ Behind(ends, k) = {} => m_arg[k] = Null
          /\ Behind(ends, k) # {} => \E i \in Behind(ends, k) : m_arg[k] = i + 1
        BY ArgumentsAre
    <2> HIDE DEF run, w, ends, m_arg, end
    <2>3. CASE Behind(ends, k) = {}
        <3>1. k \notin 0 .. Len(w) - 2
            BY <1>1, <2>3 DEF Behind
        <3>2. ~(k + 1 < Len(w))
            BY <1>2, <3>1
        <3> QED BY <2>1, <2>2, <2>3, <3>2
    <2>4. CASE Behind(ends, k) # {}
        <3>1. PICK i \in Behind(ends, k) : m_arg[k] = i + 1
            BY <2>2, <2>4
        <3>2. i \in ends /\ Rank(ends, i) = k /\ i + 1 # Null
            BY <1>2, <3>1 DEF Behind, Null
        <3>3. k \in 0 .. Len(w) - 2 /\ w[k + 2] = CString(buffer, i + 1)
            BY <1>1, <3>2
        <3>4. k + 1 < Len(w)
            BY <1>2, <3>3
        <3> QED BY <2>1, <3>1, <3>2, <3>3, <3>4
    <2> QED BY <2>3, <2>4
<1> HIDE DEF run, w, ends, m_arg
<1>7. run.argc = Len(w) - 1
    BY <1>1, <1>2, <1>5
<1>8. Words(run.typed) = w
    BY <1>4 DEF w
<1>9. GetsItsWords(run)
    BY <1>1, <1>4, <1>6, <1>7, <1>8 DEF GetsItsWords
<1> QED BY <1>9 DEF run
-----------------------------------------------------------------------------
(* The inductive invariant.  The characters taken are the first cells of   *)
(* the array; without "cancel" none is in a ring buffer.                   *)
LineIsStored ==
    /\ line \in Seq(Printable) /\ Len(line) = m_endLine
    /\ \A i \in 0 .. m_endLine - 1 : m_bufferStr[i] = line[i + 1]

CancelIsExcluded ==
    "cancel" \notin allowed =>
        \A r \in Ring : \A i \in 1 .. Len(waiting[r]) : waiting[r][i] # Cancel

IInv == /\ TypeOK /\ LineIsStored /\ CancelIsExcluded
        /\ ConsoleShowsTheLine /\ CommandGetsItsWords

LEMMA NothingIsGiven == ran' = NothingRan => CommandGetsItsWords'
BY DEF CommandGetsItsWords

(* What the editor and the console keep when nothing is read. *)
LEMMA EditorKeeps ==
    ASSUME IInv, UNCHANGED <<editor, logEnable, shown, allowed>>
    PROVE  LineIsStored' /\ ConsoleShowsTheLine'
BY DEF IInv, LineIsStored, ConsoleShowsTheLine, editor, Without

LEMMA InitIInv == Init => IInv
<1> SUFFICES ASSUME Init PROVE IInv
    OBVIOUS
<1>0. LastCharPos \in Nat /\ m_endLine = 0 /\ line = << >>
    BY SizeAssumption DEF Init
<1>1. TypeOK
    <2>1. waiting \in [Ring -> Seq(Char)]
        BY DEF Init
    <2>2. m_bufferStr \in [0 .. LastCharPos -> Printable \cup {Nul}] /\ m_endLine \in 0 .. LastCharPos
        BY <1>0 DEF Init
    <2> QED BY <2>1, <2>2 DEF Init, TypeOK
<1>2. LineIsStored
    <2>1. line \in Seq(Printable) /\ Len(line) = 0
        BY <1>0
    <2> QED BY <1>0, <2>1 DEF LineIsStored
<1>3. CancelIsExcluded
    <2>1. \A r \in Ring : Len(waiting[r]) = 0
        BY DEF Init
    <2> QED BY <2>1 DEF CancelIsExcluded
<1>4. ConsoleShowsTheLine /\ CommandGetsItsWords
    BY DEF Init, ConsoleShowsTheLine, CommandGetsItsWords
<1> QED BY <1>1, <1>2, <1>3, <1>4 DEF IInv
-----------------------------------------------------------------------------
(* Steps that leave the line alone. *)
LEMMA ReceiveIInv == ASSUME NEW r \in Ring, NEW c \in Char PROVE IInv /\ Receive(r, c) => IInv'
<1> SUFFICES ASSUME IInv, Receive(r, c) PROVE IInv'
    OBVIOUS
<1>1. /\ waiting \in [Ring -> Seq(Char)]
      /\ waiting' = [waiting EXCEPT ![r] = Append(waiting[r], c)]
      /\ allowed' = allowed /\ (c = Cancel => "cancel" \in allowed)
    BY DEF IInv, TypeOK, Receive
<1>2. TypeOK'
    <2>1. waiting' \in [Ring -> Seq(Char)]
        BY <1>1
    <2>2. mailbox' \in Ring \cup {NoRing}
        BY DEF IInv, TypeOK, Receive
    <2> QED BY <2>1, <2>2 DEF IInv, TypeOK, Receive, editor
<1>3. CancelIsExcluded'
    <2> SUFFICES ASSUME "cancel" \notin allowed, NEW q \in Ring, NEW i \in 1 .. Len(waiting'[q])
                 PROVE  waiting'[q][i] # Cancel
        BY <1>1 DEF CancelIsExcluded
    <2>1. \A x \in 1 .. Len(waiting[q]) : waiting[q][x] # Cancel
        BY DEF IInv, CancelIsExcluded
    <2>2. CASE q # r
        BY <1>1, <2>1, <2>2
    <2>3. CASE q = r
        <3> DEFINE s == waiting[r]
        <3>1. s \in Seq(Char) /\ waiting'[q] = Append(s, c) /\ c # Cancel
            BY <1>1, <2>3
        <3>2. i \in 1 .. Len(s) + 1
            BY <3>1
        <3>3. CASE i = Len(s) + 1
            BY <3>1, <3>3
        <3>4. CASE i # Len(s) + 1
            <4>1. i \in 1 .. Len(s)
                BY <3>1, <3>2, <3>4
            <4> QED BY <2>1, <2>3, <3>1, <4>1
        <3> QED BY <3>3, <3>4
    <2> QED BY <2>2, <2>3
<1>4. LineIsStored' /\ ConsoleShowsTheLine' /\ CommandGetsItsWords'
    BY EditorKeeps, NothingIsGiven DEF Receive
<1> QED BY <1>2, <1>3, <1>4 DEF IInv

LEMMA BetweenReadsIInv == IInv /\ (StartRead \/ RingFoundEmpty \/ EndRead) => IInv'
<1> SUFFICES ASSUME IInv, StartRead \/ RingFoundEmpty \/ EndRead PROVE IInv'
    OBVIOUS
<1>1. /\ ran' = NothingRan /\ UNCHANGED <<waiting, editor, logEnable, shown, allowed>>
      /\ mailbox' \in Ring \cup {NoRing} /\ reading' \in Ring \cup {NoRing, Leaving}
    BY DEF IInv, TypeOK, StartRead, RingFoundEmpty, EndRead
<1>2. TypeOK'
    BY <1>1 DEF IInv, TypeOK, editor
<1>3. CancelIsExcluded'
    BY <1>1 DEF IInv, CancelIsExcluded
<1>4. LineIsStored' /\ ConsoleShowsTheLine' /\ CommandGetsItsWords'
    BY <1>1, EditorKeeps, NothingIsGiven
<1> QED BY <1>2, <1>3, <1>4 DEF IInv

LEMMA OtherLogIInv == IInv /\ OtherLog => IInv'
<1> SUFFICES ASSUME IInv, OtherLog PROVE IInv'
    OBVIOUS
<1>1. /\ ran' = NothingRan /\ logEnable
      /\ UNCHANGED <<waiting, mailbox, reading, editor, logEnable, allowed>>
    BY DEF OtherLog
<1>2. TypeOK' /\ LineIsStored' /\ CancelIsExcluded'
    BY <1>1 DEF IInv, TypeOK, LineIsStored, CancelIsExcluded, editor
<1>3. ConsoleShowsTheLine'
    BY <1>1 DEF ConsoleShowsTheLine
<1> QED BY <1>1, <1>2, <1>3, NothingIsGiven DEF IInv

LEMMA EnableLogsIInv == IInv /\ EnableLogs => IInv'
<1> SUFFICES ASSUME IInv, EnableLogs PROVE IInv'
    OBVIOUS
<1>1. /\ ran' = NothingRan /\ logEnable' = TRUE
      /\ UNCHANGED <<waiting, mailbox, reading, editor, shown, allowed>>
    BY DEF EnableLogs
<1>2. TypeOK' /\ LineIsStored' /\ CancelIsExcluded'
    BY <1>1 DEF IInv, TypeOK, LineIsStored, CancelIsExcluded, editor
<1>3. ConsoleShowsTheLine'
    BY <1>1 DEF ConsoleShowsTheLine
<1> QED BY <1>1, <1>2, <1>3, NothingIsGiven DEF IInv
-----------------------------------------------------------------------------
(* Steps that take a character out of a ring buffer. *)
LEMMA PoppedKeeps ==
    ASSUME IInv, NEW c, Popped(c)
    PROVE  /\ c \in Char /\ (c = Cancel => "cancel" \in allowed)
           /\ waiting' \in [Ring -> Seq(Char)]
           /\ mailbox' \in Ring \cup {NoRing} /\ reading' \in Ring \cup {NoRing, Leaving}
           /\ allowed' = allowed /\ allowed \in Usage
           /\ CancelIsExcluded'
<1> DEFINE s == waiting[reading]
<1>1. /\ waiting \in [Ring -> Seq(Char)] /\ reading \in Ring
      /\ s \in Seq(Char) /\ s # << >> /\ c = Head(s)
      /\ waiting' = [waiting EXCEPT ![reading] = Tail(s)]
      /\ UNCHANGED <<mailbox, reading, allowed>>
    BY DEF IInv, TypeOK, Popped
<1>2. Len(s) \in Nat \ {0} /\ c = s[1] /\ c \in Char /\ Tail(s) \in Seq(Char) /\ Len(Tail(s)) = Len(s) - 1
    BY <1>1
<1>3. waiting' \in [Ring -> Seq(Char)]
    BY <1>1, <1>2
<1>4. CancelIsExcluded'
    <2> SUFFICES ASSUME "cancel" \notin allowed, NEW q \in Ring, NEW i \in 1 .. Len(waiting'[q])
                 PROVE  waiting'[q][i] # Cancel
        BY <1>1 DEF CancelIsExcluded
    <2>1. \A x \in 1 .. Len(waiting[q]) : waiting[q][x] # Cancel
        BY DEF IInv, CancelIsExcluded
    <2>2. CASE q # reading
        BY <1>1, <2>1, <2>2
    <2>3. CASE q = reading
        <3>1. waiting'[q] = Tail(s)
            BY <1>1, <2>3
        <3>2. i + 1 \in 1 .. Len(s) /\ Tail(s)[i] = s[i + 1]
            BY <1>1, <1>2, <3>1
        <3> QED BY <2>1, <2>3, <3>1, <3>2
    <2> QED BY <2>2, <2>3
<1>5. c = Cancel => "cancel" \in allowed
    <2>1. 1 \in 1 .. Len(waiting[reading])
        BY <1>2
    <2> QED BY <1>1, <1>2, <2>1 DEF IInv, CancelIsExcluded
<1>6. /\ mailbox' \in Ring \cup {NoRing} /\ reading' \in Ring \cup {NoRing, Leaving}
      /\ allowed' = allowed /\ allowed \in Usage
    BY <1>1 DEF IInv, TypeOK
<1> QED BY <1>2, <1>3, <1>4, <1>5, <1>6

(* What is shown is never Garbled if it is what was typed. *)
LEMMA LineIsNotGarbled == LineIsStored => line # Garbled
<1> SUFFICES ASSUME LineIsStored, line = <<Nul>> PROVE FALSE
    BY DEF Garbled
<1>1. Len(line) = 1 /\ line[1] = Nul
    OBVIOUS
<1>2. line \in Seq(Printable) /\ 1 \in 1 .. Len(line)
    BY <1>1 DEF LineIsStored
<1>3. line[1] \in Printable
    BY <1>2
<1> QED BY <1>1, <1>3, CharsDiffer

LEMMA PutCharIInv == ASSUME NEW c \in Char PROVE IInv /\ PutChar(c) => IInv'
<1> SUFFICES ASSUME IInv, PutChar(c) PROVE IInv'
    OBVIOUS
<1>0. /\ LastCharPos \in Nat /\ m_endLine \in 0 .. LastCharPos /\ m_endLine < LastCharPos
      /\ m_bufferStr \in [0 .. LastCharPos -> Printable \cup {Nul}]
      /\ line \in Seq(Printable) /\ Len(line) = m_endLine /\ c \in Printable
      /\ m_bufferStr' = [m_bufferStr EXCEPT ![m_endLine] = c]
      /\ m_endLine' = m_endLine + 1 /\ line' = Append(line, c)
      /\ ran' = NothingRan /\ logEnable' = logEnable /\ logEnable \in BOOLEAN
    BY SizeAssumption DEF IInv, TypeOK, LineIsStored, PutChar
<1>1. /\ waiting' \in [Ring -> Seq(Char)]
      /\ mailbox' \in Ring \cup {NoRing} /\ reading' \in Ring \cup {NoRing, Leaving}
      /\ allowed' = allowed /\ allowed \in Usage
      /\ CancelIsExcluded'
    BY PoppedKeeps DEF PutChar
<1>2. TypeOK'
    <2>1. m_bufferStr' \in [0 .. LastCharPos -> Printable \cup {Nul}] /\ m_endLine' \in 0 .. LastCharPos
        BY <1>0
    <2> QED BY <1>0, <1>1, <2>1 DEF TypeOK
<1>3. LineIsStored'
    <2>1. line' \in Seq(Printable) /\ Len(line') = m_endLine'
        BY <1>0
    <2>2. ASSUME NEW i \in 0 .. m_endLine' - 1 PROVE m_bufferStr'[i] = line'[i + 1]
        <3>1. CASE i = m_endLine
            BY <1>0, <3>1
        <3>2. CASE i # m_endLine
            <4>1. i \in 0 .. m_endLine - 1 /\ i \in 0 .. LastCharPos /\ i + 1 \in 1 .. Len(line)
                BY <1>0, <3>2
            <4>2. m_bufferStr[i] = line[i + 1]
                BY <4>1 DEF IInv, LineIsStored
            <4>3. line'[i + 1] = line[i + 1]
                BY <1>0, <4>1
            <4> QED BY <1>0, <3>2, <4>1, <4>2, <4>3
        <3> QED BY <3>1, <3>2
    <2> QED BY <2>1, <2>2 DEF LineIsStored
<1>4. ConsoleShowsTheLine'
    <2> SUFFICES ASSUME ~logEnable, Without({"cancel", "busyConsole"})
                 PROVE  shown' = line'
        BY <1>0, <1>1 DEF ConsoleShowsTheLine, Without
    <2>1. "busyConsole" \notin allowed
        BY DEF Without
    <2>2. shown = line /\ line # Garbled
        BY LineIsNotGarbled DEF IInv, ConsoleShowsTheLine
    <2>3. shown' = Echoed(c)
        BY <2>1 DEF PutChar, Printed
    <2> QED BY <1>0, <2>2, <2>3 DEF Echoed
<1> QED BY <1>0, <1>1, <1>2, <1>3, <1>4, NothingIsGiven DEF IInv

LEMMA IgnoreCharIInv == ASSUME NEW c \in Char PROVE IInv /\ IgnoreChar(c) => IInv'
<1> SUFFICES ASSUME IInv, IgnoreChar(c) PROVE IInv'
    OBVIOUS
<1>1. /\ waiting' \in [Ring -> Seq(Char)]
      /\ mailbox' \in Ring \cup {NoRing} /\ reading' \in Ring \cup {NoRing, Leaving}
      /\ allowed' = allowed /\ allowed \in Usage
      /\ CancelIsExcluded'
    BY PoppedKeeps DEF IgnoreChar
<1>2. ran' = NothingRan /\ UNCHANGED <<editor, logEnable, shown>>
    BY DEF IgnoreChar
<1>3. TypeOK'
    BY <1>1, <1>2 DEF IInv, TypeOK, editor
<1>4. LineIsStored' /\ ConsoleShowsTheLine' /\ CommandGetsItsWords'
    BY <1>1, <1>2, EditorKeeps, NothingIsGiven
<1> QED BY <1>1, <1>3, <1>4 DEF IInv

LEMMA CancelLineIInv == IInv /\ CancelLine => IInv'
<1> SUFFICES ASSUME IInv, CancelLine PROVE IInv'
    OBVIOUS
<1>1. /\ waiting' \in [Ring -> Seq(Char)]
      /\ mailbox' \in Ring \cup {NoRing} /\ reading' \in Ring \cup {NoRing, Leaving}
      /\ allowed' = allowed /\ allowed \in Usage
      /\ CancelIsExcluded'
    BY PoppedKeeps DEF CancelLine
<1>2. "cancel" \in allowed
    BY PoppedKeeps DEF CancelLine
<1>3. ran' = NothingRan /\ UNCHANGED editor /\ logEnable' = FALSE
    BY DEF CancelLine
<1>4. TypeOK'
    BY <1>1, <1>3 DEF IInv, TypeOK, editor
<1>5. LineIsStored'
    BY <1>3 DEF IInv, LineIsStored, editor
<1>6. ConsoleShowsTheLine'
    BY <1>1, <1>2 DEF ConsoleShowsTheLine, Without
<1> QED BY <1>1, <1>3, <1>4, <1>5, <1>6, NothingIsGiven DEF IInv
-----------------------------------------------------------------------------
(* Enter. *)
LEMMA LineIsTerminated ==
    ASSUME IInv, m_endLine # 0
    PROVE  IsTerminated(Terminated(m_bufferStr, m_endLine), line)
<1> DEFINE buffer == Terminated(m_bufferStr, m_endLine)
<1>1. /\ LastCharPos \in Nat /\ m_endLine \in 0 .. LastCharPos
      /\ m_bufferStr \in [0 .. LastCharPos -> Printable \cup {Nul}]
      /\ line \in Seq(Printable) /\ Len(line) = m_endLine
      /\ \A i \in 0 .. m_endLine - 1 : m_bufferStr[i] = line[i + 1]
    BY SizeAssumption DEF IInv, TypeOK, LineIsStored
<1>2. buffer = [i \in 0 .. LastCharPos |->
                   IF i = m_endLine \/ (i < m_endLine /\ m_bufferStr[i] = Space)
                   THEN Nul ELSE m_bufferStr[i]]
    BY <1>1 DEF Terminated
<1> HIDE DEF buffer
<1>3. buffer \in [0 .. LastCharPos -> Printable \cup {Nul}]
    BY <1>1, <1>2
<1>4. buffer[m_endLine] = Nul
    BY <1>1, <1>2
<1>5. ASSUME NEW i \in 0 .. m_endLine - 1
      PROVE  buffer[i] = IF line[i + 1] = Space THEN Nul ELSE line[i + 1]
    <2>1. i \in 0 .. LastCharPos /\ i # m_endLine /\ i < m_endLine
        BY <1>1
    <2>2. buffer[i] = IF m_bufferStr[i] = Space THEN Nul ELSE m_bufferStr[i]
        BY <1>2, <2>1
    <2> QED BY <1>1, <2>2
<1> QED BY <1>1, <1>3, <1>4, <1>5 DEF IsTerminated, buffer

LEMMA EnterLineIInv == IInv /\ EnterLine => IInv'
<1> SUFFICES ASSUME IInv, EnterLine PROVE IInv'
    OBVIOUS
<1>1. /\ waiting' \in [Ring -> Seq(Char)]
      /\ mailbox' \in Ring \cup {NoRing} /\ reading' \in Ring \cup {NoRing, Leaving}
      /\ allowed' = allowed /\ allowed \in Usage
      /\ CancelIsExcluded'
    BY PoppedKeeps DEF EnterLine
<1>2. ParseLine /\ m_endLine' = 0 /\ line' = << >> /\ Printed(<< >>)
    BY DEF EnterLine
<1>3. m_bufferStr' \in [0 .. LastCharPos -> Printable \cup {Nul}] /\ logEnable' \in BOOLEAN
    <2>1. CASE m_endLine = 0
        BY <1>2, <2>1 DEF ParseLine, IInv, TypeOK
    <2>2. CASE m_endLine # 0
        <3>1. m_bufferStr' = Terminated(m_bufferStr, m_endLine)
            BY <1>2, <2>2 DEF ParseLine
        <3>2. IsTerminated(m_bufferStr', line)
            BY <2>2, <3>1, LineIsTerminated
        <3>3. logEnable' = FALSE \/ logEnable' = logEnable
            BY <1>2, <2>2 DEF ParseLine
        <3> QED BY <3>2, <3>3 DEF IsTerminated, IInv, TypeOK
    <2> QED BY <2>1, <2>2
<1>4. TypeOK'
    <2>1. m_endLine' \in 0 .. LastCharPos
        BY <1>2, SizeAssumption
    <2> QED BY <1>1, <1>3, <2>1 DEF TypeOK
<1>5. LineIsStored'
    <2>1. line' \in Seq(Printable) /\ Len(line') = 0 /\ 0 .. m_endLine' - 1 = {}
        BY <1>2
    <2> QED BY <1>2, <2>1 DEF LineIsStored
<1>6. ConsoleShowsTheLine'
    <2> SUFFICES ASSUME Without({"cancel", "busyConsole"}) PROVE shown' = line'
        BY <1>1 DEF ConsoleShowsTheLine, Without
    <2>1. "busyConsole" \notin allowed
        BY DEF Without
    <2> QED BY <1>2, <2>1 DEF Printed
<1>7. CommandGetsItsWords'
    <2>1. CASE ran' = NothingRan
        BY <2>1, NothingIsGiven
    <2>2. CASE ran' # NothingRan
        <3>1. /\ m_endLine # 0 /\ m_bufferStr' = Terminated(m_bufferStr, m_endLine)
              /\ ran' = Run(m_bufferStr', m_endLine)
            BY <1>2, <2>2 DEF ParseLine
        <3>2. line \in Seq(Printable) /\ Len(line) = m_endLine
            BY DEF IInv, LineIsStored
        <3>3. IsTerminated(m_bufferStr', line)
            BY <3>1, LineIsTerminated
        <3>4. GetsItsWords(Run(m_bufferStr', Len(line)))
            BY <3>2, <3>3, RunGetsItsWords
        <3>5. GetsItsWords(ran')
            BY <3>1, <3>2, <3>4
        <3> QED BY <3>5 DEF CommandGetsItsWords, GetsItsWords
    <2> QED BY <2>1, <2>2
<1> QED BY <1>1, <1>4, <1>5, <1>6, <1>7 DEF IInv
-----------------------------------------------------------------------------
LEMMA NextIInv == IInv /\ [Next]_terminalVars => IInv'
<1> SUFFICES ASSUME IInv, [Next]_terminalVars PROVE IInv'
    OBVIOUS
<1>1. ASSUME NEW r \in Ring, NEW c \in Char, Receive(r, c) PROVE IInv'
    BY <1>1, ReceiveIInv
<1>2. CASE StartRead \/ RingFoundEmpty \/ EndRead
    BY <1>2, BetweenReadsIInv
<1>3. ASSUME NEW c \in Char, PutChar(c) \/ IgnoreChar(c) PROVE IInv'
    BY <1>3, PutCharIInv, IgnoreCharIInv
<1>4. CASE CancelLine
    BY <1>4, CancelLineIInv
<1>5. CASE EnterLine
    BY <1>5, EnterLineIInv
<1>6. CASE OtherLog \/ EnableLogs
    BY <1>6, OtherLogIInv, EnableLogsIInv
<1>7. CASE UNCHANGED terminalVars
    <2>1. TypeOK' /\ LineIsStored' /\ CancelIsExcluded'
        BY <1>7 DEF IInv, TypeOK, LineIsStored, CancelIsExcluded, terminalVars, editor
    <2>2. ConsoleShowsTheLine' /\ CommandGetsItsWords'
        BY <1>7 DEF IInv, ConsoleShowsTheLine, CommandGetsItsWords, Without, terminalVars, editor
    <2> QED BY <2>1, <2>2 DEF IInv
<1> QED BY <1>1, <1>2, <1>3, <1>4, <1>5, <1>6, <1>7 DEF Next, read

(* The inductive invariant holds whatever Usage allows. *)
THEOREM Invariance == Spec => []IInv
<1>1. Init => IInv
    BY InitIInv
<1>2. IInv /\ [Next]_terminalVars => IInv'
    BY NextIInv
<1> QED BY <1>1, <1>2, PTL DEF Spec

(* The editor stays inside its array, the cell of the terminator included, *)
(* however long a line is typed.                                           *)
THEOREM TypeCorrect == Spec => []TypeOK
<1>1. IInv => TypeOK
    BY DEF IInv
<1> QED BY <1>1, Invariance, PTL

(* A command is given the words of its own line, whatever lines were in    *)
(* the arrays before it.                                                   *)
THEOREM CommandsGetTheirWords == Spec => []CommandGetsItsWords
<1>1. IInv => CommandGetsItsWords
    BY DEF IInv
<1> QED BY <1>1, Invariance, PTL

(* On a console without messages, what is behind the prompt is the line    *)
(* that Enter will run.                                                    *)
THEOREM LineIsShown == Spec => []ConsoleShowsTheLine
<1>1. IInv => ConsoleShowsTheLine
    BY DEF IInv
<1> QED BY <1>1, Invariance, PTL
=============================================================================
