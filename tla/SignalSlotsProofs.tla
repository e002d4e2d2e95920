------------------------- MODULE SignalSlotsProofs -------------------------
(***************************************************************************)
(* Proofs about SignalSlots for every set of signals and slots, every size *)
(* of the storage, every depth of activations, and every set of calls that *)
(* slots make: what connect, disconnect and disconnectAll do to the linked *)
(* lists, and what becomes of the walks through them.                      *)
(***************************************************************************)
EXTENDS SignalSlots, SequenceTheorems, FiniteSetTheorems, TLAPS

(* c is the linked list that begins with first. *)
IsPath(c, first, links) ==
    /\ c \in Seq(Node)
    /\ c = << >> => first = Null
    /\ c # << >> => c[1] = first /\ links[c[Len(c)]] = Null
    /\ \A k \in 1 .. Len(c) - 1 : links[c[k]] = c[k + 1]
    /\ \A i, j \in 1 .. Len(c) : c[i] = c[j] => i = j
-----------------------------------------------------------------------------
(* Induction over a set of numbers. *)
LEMMA NaturalsAreReached ==
    ASSUME NEW T, 0 \in T, \A n \in Nat : n \in T => n + 1 \in T
    PROVE  Nat \subseteq T
<1> SUFFICES ASSUME ~(Nat \subseteq T) PROVE FALSE
    OBVIOUS
<1> DEFINE Less == {ss \in Nat \X Nat : ss[1] < ss[2]}
           Missed == Nat \ T
<1>1. Missed \subseteq Nat /\ Missed # {}
    OBVIOUS
<1>2. IsWellFoundedOn(Less, Nat)
    BY NatLessThanWellFounded DEF OpToRel
<1> HIDE DEF Less, Missed
<1>3. PICK x \in Missed : \A y \in Missed : ~(<<y, x>> \in Less)
    BY <1>1, <1>2, WFMin
<1>4. x \in Nat /\ x # 0 /\ x - 1 \in Nat
    BY DEF Missed
<1>5. x - 1 \in Missed
    <2>1. x - 1 \in T => (x - 1) + 1 \in T
        BY <1>4
    <2>2. (x - 1) + 1 = x /\ x \notin T
        BY <1>4 DEF Missed
    <2> QED BY <1>4, <2>1, <2>2 DEF Missed
<1>6. <<x - 1, x>> \in Less
    BY <1>4 DEF Less
<1> QED BY <1>3, <1>5, <1>6

(* A sequence that repeats nothing has as many elements as places, and no  *)
(* more than the set they are from.                                        *)
LEMMA DistinctAreCounted ==
    ASSUME NEW S, NEW c \in Seq(S), \A i, j \in 1 .. Len(c) : c[i] = c[j] => i = j
    PROVE  /\ IsFiniteSet(ToSet(c)) /\ Cardinality(ToSet(c)) = Len(c)
           /\ ToSet(c) \subseteq S
<1>1. DOMAIN c = 1 .. Len(c) /\ Len(c) \in Nat /\ ToSet(c) = {c[i] : i \in 1 .. Len(c)}
    BY DEF ToSet
<1>2. ToSet(c) \subseteq S
    BY <1>1
<1>3. c \in Bijection(1 .. Len(c), ToSet(c))
    BY <1>1 DEF Bijection, Injection, Surjection, IsInjective
<1>4. ExistsBijection(1 .. Len(c), ToSet(c))
    BY <1>3 DEF ExistsBijection
<1>5. Cardinality(ToSet(c)) = Len(c)
    BY <1>1, <1>4, FS_CountingElements
<1>6. IsFiniteSet(ToSet(c))
    BY <1>1, <1>4, FS_NatBijection
<1> QED BY <1>2, <1>5, <1>6

LEMMA PathIsNoLongerThanStorage ==
    ASSUME NEW c, NEW first, NEW links, IsPath(c, first, links)
    PROVE  /\ c \in Seq(Node) /\ Len(c) \in 0 .. StorageSize
           /\ IsFiniteSet(ToSet(c)) /\ Cardinality(ToSet(c)) = Len(c)
           /\ ToSet(c) \subseteq Node
<1>1. c \in Seq(Node) /\ \A i, j \in 1 .. Len(c) : c[i] = c[j] => i = j
    BY DEF IsPath
<1>2. /\ IsFiniteSet(ToSet(c)) /\ Cardinality(ToSet(c)) = Len(c)
      /\ ToSet(c) \subseteq Node
    BY <1>1, DistinctAreCounted
<1>3. IsFiniteSet(Node) /\ Cardinality(Node) = StorageSize
    BY StorageSizeAssumption, FS_Interval DEF Node
<1>4. Len(c) <= StorageSize
    BY <1>2, <1>3, FS_Subset
<1> QED BY <1>1, <1>2, <1>4, StorageSizeAssumption

(* Chain finds the linked list if there is one. *)
LEMMA ChainIsThePath ==
    ASSUME NEW c, NEW first, NEW links, IsPath(c, first, links)
    PROVE  ChainIn(links, first) = c
<1> DEFINE Step(g, k) == IF k = 0 THEN first ELSE IF g[k - 1] = Null THEN Null ELSE links[g[k - 1]]
           IsIt(g) == g = [k \in 0 .. StorageSize |-> Step(g, k)]
           node == CHOOSE g : IsIt(g)
           At(k) == IF k < Len(c) THEN c[k + 1] ELSE Null
           length == Cardinality({k \in 0 .. StorageSize - 1 : node[k] # Null})
<1>1. ChainIn(links, first) = [k \in 1 .. length |-> node[k - 1]]
    BY DEF ChainIn
<1>2. /\ c \in Seq(Node) /\ Len(c) \in 0 .. StorageSize /\ Len(c) \in Nat /\ StorageSize \in Nat
      /\ 0 \notin Node
    BY PathIsNoLongerThanStorage, StorageSizeAssumption DEF Node
<1>3. ASSUME NEW k \in Nat, k # 0, NEW g, g[k - 1] = At(k - 1)
      PROVE  Step(g, k) = At(k)
    <2>1. CASE k - 1 < Len(c)
        <3>1. g[k - 1] = c[k] /\ k \in 1 .. Len(c)
            BY <1>2, <1>3, <2>1
        <3>2. c[k] \in Node /\ c[k] # Null /\ c # << >>
            BY <1>2, <3>1 DEF Null
        <3>3. Step(g, k) = links[c[k]]
            BY <1>3, <3>1, <3>2
        <3>4. CASE k = Len(c)
            BY <1>2, <3>2, <3>3, <3>4 DEF IsPath
        <3>5. CASE k # Len(c)
            <4>1. k \in 1 .. Len(c) - 1
                BY <1>2, <3>1, <3>5
            <4>2. links[c[k]] = c[k + 1]
                BY <4>1 DEF IsPath
            <4>3. At(k) = c[k + 1]
                BY <1>2, <4>1
            <4> QED BY <3>3, <4>2, <4>3
        <3> QED BY <3>4, <3>5
    <2>2. CASE ~(k - 1 < Len(c))
        <3>1. At(k - 1) = Null /\ At(k) = Null
            BY <1>2, <1>3, <2>2
        <3> QED BY <1>3, <3>1
    <2> QED BY <2>1, <2>2
<1>4. first = At(0)
    BY <1>2 DEF IsPath
<1>5. IsIt(node)
    <2> DEFINE g == [k \in 0 .. StorageSize |-> At(k)]
    <2>1. ASSUME NEW k \in 0 .. StorageSize PROVE g[k] = Step(g, k)
        <3>1. CASE k = 0
            BY <1>2, <1>4, <3>1
        <3>2. CASE k # 0
            <4>1. k \in Nat /\ k - 1 \in 0 .. StorageSize
                BY <1>2, <3>2
            <4>2. g[k - 1] = At(k - 1) /\ g[k] = At(k)
                BY <4>1
            <4> HIDE DEF g, Step, At
            <4> QED BY <1>3, <3>2, <4>1, <4>2
        <3> QED BY <3>1, <3>2
    <2>2. g = [k \in 0 .. StorageSize |-> Step(g, k)]
        <3> HIDE DEF Step
        <3> QED BY <2>1
    <2>3. IsIt(g)
        <3> HIDE DEF g, Step
        <3> QED BY <2>2
    <2> HIDE DEF IsIt, g
    <2> QED BY <2>3
<1>6. \A k \in 0 .. StorageSize : node[k] = Step(node, k)
    <2> HIDE DEF node, Step
    <2> QED BY <1>5
<1> HIDE DEF node, Step, IsIt
<1>7. \A k \in 0 .. StorageSize : node[k] = At(k)
    <2> DEFINE T == {n \in Nat : n <= StorageSize => node[n] = At(n)}
    <2>1. 0 \in T
        BY <1>2, <1>4, <1>6 DEF Step
    <2>2. ASSUME NEW n \in Nat, n \in T PROVE n + 1 \in T
        <3> SUFFICES ASSUME n + 1 <= StorageSize PROVE node[n + 1] = At(n + 1)
            OBVIOUS
        <3>1. node[n] = At(n) /\ n + 1 \in 0 .. StorageSize
            BY <1>2, <2>2
        <3>2. n + 1 \in Nat /\ n + 1 # 0 /\ (n + 1) - 1 = n
            OBVIOUS
        <3>3. node[(n + 1) - 1] = At((n + 1) - 1)
            BY <3>1, <3>2
        <3> HIDE DEF At
        <3> QED BY <1>3, <1>6, <3>1, <3>2, <3>3
    <2> HIDE DEF T
    <2>3. Nat \subseteq T
        BY <2>1, <2>2, NaturalsAreReached
    <2> QED BY <1>2, <2>3 DEF T
<1>8. {k \in 0 .. StorageSize - 1 : node[k] # Null} = 0 .. Len(c) - 1
    <2>1. ASSUME NEW k \in 0 .. StorageSize - 1
          PROVE  node[k] # Null <=> k \in 0 .. Len(c) - 1
        <3>1. node[k] = At(k)
            BY <1>2, <1>7
        <3>2. k < Len(c) => c[k + 1] \in Node
            BY <1>2
        <3> QED BY <1>2, <3>1, <3>2 DEF Null
    <2>2. 0 .. Len(c) - 1 \subseteq 0 .. StorageSize - 1
        BY <1>2
    <2> QED BY <2>1, <2>2
<1>9. length = Len(c)
    <2>1. Cardinality(0 .. Len(c) - 1) = Len(c)
        <3>1. 0 \in Int /\ Len(c) - 1 \in Int
            BY <1>2
        <3>2. Cardinality(0 .. Len(c) - 1) = IF 0 > Len(c) - 1 THEN 0 ELSE (Len(c) - 1) - 0 + 1
            BY <3>1, FS_Interval
        <3> QED BY <1>2, <3>2
    <2>2. length = Cardinality(0 .. Len(c) - 1)
        BY <1>8
    <2> QED BY <2>1, <2>2
<1>10. \A k \in 1 .. Len(c) : node[k - 1] = c[k]
    BY <1>2, <1>7
<1> HIDE DEF length, At
<1>11. ChainIn(links, first) = [k \in 1 .. Len(c) |-> c[k]]
    BY <1>1, <1>9, <1>10
<1> QED BY <1>2, <1>11
-----------------------------------------------------------------------------
(* What becomes of a linked list. *)

LEMMA ElementsAreAt ==
    ASSUME NEW S, NEW c \in Seq(S)
    PROVE  /\ \A k \in 1 .. Len(c) : c[k] \in ToSet(c)
           /\ \A n \in ToSet(c) : \E k \in 1 .. Len(c) : n = c[k]
BY DEF ToSet

(* A list none of whose nodes is linked anew. *)
LEMMA PathStays ==
    ASSUME NEW c, NEW first, NEW old, NEW new, IsPath(c, first, old),
           \A n \in ToSet(c) : new[n] = old[n]
    PROVE  IsPath(c, first, new)
<1>1. c \in Seq(Node) /\ Len(c) \in Nat
    BY DEF IsPath
<1>2. \A k \in 1 .. Len(c) : new[c[k]] = old[c[k]]
    BY <1>1, ElementsAreAt
<1>3. c # << >> => Len(c) \in 1 .. Len(c)
    BY <1>1
<1>4. \A k \in 1 .. Len(c) - 1 : k \in 1 .. Len(c)
    BY <1>1
<1> QED BY <1>2, <1>3, <1>4 DEF IsPath

LEMMA PathOfNone ==
    ASSUME NEW links
    PROVE  IsPath(<< >>, Null, links) /\ ToSet(<< >>) = {}
<1>1. << >> \in Seq(Node) /\ Len(<< >>) = 0
    OBVIOUS
<1>2. ToSet(<< >>) = {}
    BY DEF ToSet
<1> QED BY <1>1, <1>2 DEF IsPath

(* A node is linked behind the last one. *)
IsGrown(d, c, n) == d = Append(c, n)

LEMMA GrownHas ==
    ASSUME NEW c \in Seq(Node), NEW n \in Node, NEW d, IsGrown(d, c, n)
    PROVE  ToSet(d) = ToSet(c) \cup {n}
<1>1. /\ Len(c) \in Nat /\ d \in Seq(Node) /\ Len(d) = Len(c) + 1 /\ d[Len(c) + 1] = n
      /\ \A k \in 1 .. Len(c) : d[k] = c[k]
    BY DEF IsGrown
<1>2. ASSUME NEW m \in ToSet(d) PROVE m \in ToSet(c) \cup {n}
    <2>1. PICK k \in 1 .. Len(d) : m = d[k]
        BY <1>1, ElementsAreAt
    <2>2. k \in 1 .. Len(c) \/ k = Len(c) + 1
        BY <1>1
    <2> QED BY <1>1, <2>1, <2>2, ElementsAreAt
<1>3. ASSUME NEW m \in ToSet(c) PROVE m \in ToSet(d)
    <2>1. PICK k \in 1 .. Len(c) : m = c[k]
        BY ElementsAreAt
    <2>2. k \in 1 .. Len(d) /\ d[k] = m
        BY <1>1, <2>1
    <2> QED BY <1>1, <2>2, ElementsAreAt
<1>4. n \in ToSet(d)
    <2>1. Len(d) \in 1 .. Len(d) /\ d[Len(d)] = n
        BY <1>1
    <2> QED BY <1>1, <2>1, ElementsAreAt
<1> QED BY <1>2, <1>3, <1>4

LEMMA PathGrows ==
    ASSUME NEW c, NEW first, NEW old, NEW new, NEW n, NEW d,
           IsPath(c, first, old), n \in Node, n \notin ToSet(c), new[n] = Null,
           c # << >> => new[c[Len(c)]] = n,
           \A k \in 1 .. Len(c) - 1 : new[c[k]] = old[c[k]],
           IsGrown(d, c, n)
    PROVE  /\ c = << >> => IsPath(d, n, new)
           /\ c # << >> => IsPath(d, first, new)
<1>1. c \in Seq(Node) /\ Len(c) \in Nat
    BY DEF IsPath
<1>2. /\ d \in Seq(Node) /\ Len(d) = Len(c) + 1 /\ d[Len(c) + 1] = n
      /\ \A k \in 1 .. Len(c) : d[k] = c[k]
    BY <1>1 DEF IsGrown
<1>3. d # << >> /\ new[d[Len(d)]] = Null
    BY <1>1, <1>2
<1>4. d[1] = IF c = << >> THEN n ELSE first
    <2>1. CASE c = << >>
        BY <1>1, <1>2, <2>1
    <2>2. CASE c # << >>
        <3>1. 1 \in 1 .. Len(c)
            BY <1>1, <2>2
        <3> QED BY <1>2, <2>2, <3>1 DEF IsPath
    <2> QED BY <2>1, <2>2
<1>5. ASSUME NEW k \in 1 .. Len(d) - 1 PROVE new[d[k]] = d[k + 1]
    <2>0. k \in 1 .. Len(c) /\ d[k] = c[k] /\ c # << >>
        BY <1>1, <1>2
    <2>1. CASE k = Len(c)
        BY <1>2, <2>0, <2>1
    <2>2. CASE k # Len(c)
        <3>1. k \in 1 .. Len(c) - 1 /\ k + 1 \in 1 .. Len(c)
            BY <1>1, <2>0, <2>2
        <3> QED BY <1>2, <2>0, <3>1 DEF IsPath
    <2> QED BY <2>1, <2>2
<1>6. ASSUME NEW i \in 1 .. Len(d), NEW j \in 1 .. Len(d), d[i] = d[j] PROVE i = j
    <2>1. ASSUME NEW k \in 1 .. Len(c) PROVE d[k] # n
        BY <1>1, <1>2, ElementsAreAt
    <2>2. i \in 1 .. Len(c) <=> j \in 1 .. Len(c)
        BY <1>1, <1>2, <1>6, <2>1
    <2>3. CASE i \in 1 .. Len(c)
        BY <1>2, <1>6, <2>2, <2>3 DEF IsPath
    <2>4. CASE i \notin 1 .. Len(c)
        BY <1>1, <1>2, <2>2, <2>4
    <2> QED BY <2>3, <2>4
<1>7. IsPath(d, IF c = << >> THEN n ELSE first, new)
    BY <1>2, <1>3, <1>4, <1>5, <1>6 DEF IsPath
<1> QED BY <1>7

(* The list without the node in place k; its predecessor is linked to its  *)
(* successor.                                                              *)
Cut(c, k) == [i \in 1 .. Len(c) - 1 |-> IF i < k THEN c[i] ELSE c[i + 1]]

LEMMA CutHas ==
    ASSUME NEW c \in Seq(Node), NEW k \in 1 .. Len(c),
           \A i, j \in 1 .. Len(c) : c[i] = c[j] => i = j
    PROVE  /\ Cut(c, k) \in Seq(Node) /\ Len(Cut(c, k)) = Len(c) - 1
           /\ \A i \in 1 .. Len(c) - 1 : Cut(c, k)[i] = IF i < k THEN c[i] ELSE c[i + 1]
           /\ ToSet(Cut(c, k)) = ToSet(c) \ {c[k]}
<1> DEFINE d == Cut(c, k)
           n == Len(c)
<1>1. c \in Seq(Node) /\ n \in Nat /\ k \in Nat /\ c # << >>
    OBVIOUS
<1>2. /\ d \in Seq(Node) /\ Len(d) = n - 1
      /\ \A i \in 1 .. n - 1 : d[i] = IF i < k THEN c[i] ELSE c[i + 1]
    <2>1. \A i \in 1 .. n - 1 : i \in 1 .. n /\ i + 1 \in 1 .. n
        BY <1>1
    <2>2. \A i \in 1 .. n : c[i] \in Node
        BY <1>1
    <2>3. \A i \in 1 .. n - 1 : (IF i < k THEN c[i] ELSE c[i + 1]) \in Node
        BY <2>1, <2>2
    <2>4. n - 1 \in Nat
        BY <1>1
    <2>5. d = [i \in 1 .. n - 1 |-> IF i < k THEN c[i] ELSE c[i + 1]]
        BY DEF Cut
    <2> HIDE DEF d, n
    <2>6. d \in [1 .. n - 1 -> Node]
        BY <2>3, <2>5
    <2>7. d \in Seq(Node) /\ Len(d) = n - 1
        BY <2>4, <2>6
    <2>8. \A i \in 1 .. n - 1 : d[i] = IF i < k THEN c[i] ELSE c[i + 1]
        BY <2>5
    <2> QED BY <2>7, <2>8
<1> HIDE DEF d
<1>3. ToSet(d) = ToSet(c) \ {c[k]}
    <2>1. ASSUME NEW m \in ToSet(d) PROVE m \in ToSet(c) \ {c[k]}
        <3>1. PICK i \in 1 .. n - 1 : m = d[i]
            BY <1>2, ElementsAreAt
        <3>2. i \in 1 .. n /\ i + 1 \in 1 .. n
            BY <1>1
        <3>3. PICK j \in 1 .. n : m = c[j] /\ j # k
            BY <1>1, <1>2, <3>1, <3>2
        <3>4. c[j] \in ToSet(c)
            BY <1>1, ElementsAreAt
        <3>5. c[j] # c[k]
            BY <3>3
        <3> QED BY <3>3, <3>4, <3>5
    <2>2. ASSUME NEW m \in ToSet(c) \ {c[k]} PROVE m \in ToSet(d)
        <3>1. PICK i \in 1 .. n : m = c[i]
            BY <1>1, ElementsAreAt
        <3>2. i # k
            BY <3>1
        <3>3. CASE i < k
            <4>1. i \in 1 .. n - 1 /\ d[i] = m
                BY <1>1, <1>2, <3>1, <3>3
            <4> QED BY <1>2, <4>1, ElementsAreAt
        <3>4. CASE i > k
            <4>1. i - 1 \in 1 .. n - 1 /\ ~(i - 1 < k) /\ (i - 1) + 1 = i
                BY <1>1, <3>4
            <4>2. d[i - 1] = m
                BY <1>2, <3>1, <4>1
            <4> QED BY <1>2, <4>1, <4>2, ElementsAreAt
        <3> QED BY <1>1, <3>2, <3>3, <3>4
    <2> QED BY <2>1, <2>2
<1> QED BY <1>2, <1>3 DEF d

LEMMA PathIsCut ==
    ASSUME NEW c, NEW first, NEW old, NEW new, IsPath(c, first, old),
           NEW k \in 1 .. Len(c),
           k > 1 => new[c[k - 1]] = old[c[k]],
           \A i \in 1 .. Len(c) : i # k /\ i # k - 1 => new[c[i]] = old[c[i]]
    PROVE  /\ k = 1 => IsPath(Cut(c, k), old[c[k]], new)
           /\ k # 1 => IsPath(Cut(c, k), first, new)
           /\ ToSet(Cut(c, k)) = ToSet(c) \ {c[k]}
           /\ Len(Cut(c, k)) = Len(c) - 1
<1> DEFINE d == Cut(c, k)
           n == Len(c)
<1>1. c \in Seq(Node) /\ n \in Nat /\ k \in Nat /\ c # << >>
    BY DEF IsPath
<1>2. /\ d \in Seq(Node) /\ Len(d) = n - 1
      /\ \A i \in 1 .. n - 1 : d[i] = IF i < k THEN c[i] ELSE c[i + 1]
      /\ ToSet(d) = ToSet(c) \ {c[k]}
    <2>1. \A i, j \in 1 .. Len(c) : c[i] = c[j] => i = j
        BY DEF IsPath
    <2> HIDE DEF d
    <2> QED BY <1>1, <2>1, CutHas DEF d
<1>3. /\ \A i \in 1 .. n - 1 : old[c[i]] = c[i + 1]
      /\ \A i, j \in 1 .. n : c[i] = c[j] => i = j
      /\ old[c[n]] = Null /\ c[1] = first
    BY <1>1 DEF IsPath
<1> HIDE DEF d
<1>4. ASSUME d = << >> PROVE (IF k = 1 THEN old[c[k]] ELSE first) = Null
    <2>1. Len(d) = 0
        BY <1>4
    <2>2. n = 1 /\ k = 1
        <3>1. n - 1 = 0
            BY <1>2, <2>1
        <3> HIDE DEF n
        <3>2. n = 1
            BY <1>1, <3>1
        <3> QED BY <3>2 DEF n
    <2> QED BY <1>3, <2>2
<1>5. ASSUME d # << >> PROVE d[1] = IF k = 1 THEN old[c[k]] ELSE first
    <2>1. 1 \in 1 .. n - 1
        BY <1>1, <1>2, <1>5
    <2>2. d[1] = IF 1 < k THEN c[1] ELSE c[2]
        BY <1>2, <2>1
    <2>3. old[c[1]] = c[2]
        BY <1>3, <2>1
    <2> QED BY <1>1, <1>3, <2>2, <2>3
<1>6. ASSUME d # << >> PROVE new[d[Len(d)]] = Null
    <2>1. n - 1 \in 1 .. n - 1 /\ n \in 1 .. n
        BY <1>1, <1>2, <1>5, <1>6
    <2>2. CASE k = n
        <3>1. d[n - 1] = c[n - 1] /\ k > 1 /\ k - 1 = n - 1
            BY <1>2, <2>1, <2>2
        <3> QED BY <1>2, <1>3, <2>2, <3>1
    <2>3. CASE k # n
        <3>1. k < n /\ k \in Nat
            BY <1>1, <2>3
        <3>2. ~(n - 1 < k) /\ n # k - 1
            BY <1>1, <2>1, <3>1
        <3>3. d[n - 1] = c[(n - 1) + 1] /\ (n - 1) + 1 = n
            BY <1>1, <1>2, <2>1, <3>2
        <3> QED BY <1>2, <1>3, <2>1, <2>3, <3>2, <3>3
    <2> QED BY <2>2, <2>3
<1>7. ASSUME NEW i \in 1 .. Len(d) - 1 PROVE new[d[i]] = d[i + 1]
    <2>1. /\ i \in 1 .. n - 1 /\ i + 1 \in 1 .. n - 1 /\ i \in 1 .. n /\ i + 1 \in 1 .. n
          /\ i \in Nat /\ (i + 1) + 1 = i + 2
        BY <1>1, <1>2
    <2>2. d[i] = (IF i < k THEN c[i] ELSE c[i + 1]) /\ d[i + 1] = IF i + 1 < k THEN c[i + 1] ELSE c[i + 2]
        BY <1>2, <2>1
    <2>3. old[c[i]] = c[i + 1] /\ old[c[i + 1]] = c[i + 2]
        BY <1>3, <2>1
    <2>4. CASE i + 1 < k
        <3>1. i # k /\ i # k - 1 /\ i < k
            BY <1>1, <2>1, <2>4
        <3> QED BY <2>1, <2>2, <2>3, <2>4, <3>1
    <2>5. CASE i + 1 = k
        <3>1. i < k /\ k > 1 /\ k - 1 = i /\ ~(i + 1 < k)
            BY <1>1, <2>1, <2>5
        <3> QED BY <2>2, <2>3, <2>5, <3>1
    <2>6. CASE i + 1 > k
        <3>1. ~(i < k) /\ ~(i + 1 < k) /\ i + 1 # k /\ i + 1 # k - 1
            BY <1>1, <2>1, <2>6
        <3> QED BY <2>1, <2>2, <2>3, <3>1
    <2> QED BY <1>1, <2>1, <2>4, <2>5, <2>6
<1>8. ASSUME NEW i \in 1 .. Len(d), NEW j \in 1 .. Len(d), d[i] = d[j] PROVE i = j
    <2>1. /\ i \in 1 .. n - 1 /\ j \in 1 .. n - 1
          /\ i \in 1 .. n /\ j \in 1 .. n /\ i + 1 \in 1 .. n /\ j + 1 \in 1 .. n
        BY <1>1, <1>2
    <2>2. d[i] = (IF i < k THEN c[i] ELSE c[i + 1]) /\ d[j] = IF j < k THEN c[j] ELSE c[j + 1]
        BY <1>2, <2>1
    <2> DEFINE a == IF i < k THEN i ELSE i + 1
               b == IF j < k THEN j ELSE j + 1
    <2>3. a \in 1 .. n /\ b \in 1 .. n /\ d[i] = c[a] /\ d[j] = c[b]
        BY <2>1, <2>2
    <2>4. c[a] = c[b]
        BY <1>8, <2>3
    <2> HIDE DEF a, b
    <2>5. a = b
        BY <1>3, <2>3, <2>4
    <2> QED BY <1>1, <2>1, <2>5 DEF a, b
<1>9. IsPath(d, IF k = 1 THEN old[c[k]] ELSE first, new)
    BY <1>2, <1>4, <1>5, <1>6, <1>7, <1>8 DEF IsPath
<1> QED BY <1>2, <1>9 DEF d

LEMMA HeadIsCut ==
    ASSUME NEW c, NEW first, NEW old, NEW new, IsPath(c, first, old),
           1 \in 1 .. Len(c),
           \A i \in 1 .. Len(c) : i # 1 => new[c[i]] = old[c[i]]
    PROVE  /\ IsPath(Cut(c, 1), old[c[1]], new)
           /\ ToSet(Cut(c, 1)) = ToSet(c) \ {c[1]}
           /\ Len(Cut(c, 1)) = Len(c) - 1
<1> DEFINE k == 1
<1>1. k \in 1 .. Len(c) /\ ~(k > 1)
    OBVIOUS
<1>2. \A i \in 1 .. Len(c) : i # k /\ i # k - 1 => new[c[i]] = old[c[i]]
    OBVIOUS
<1>3. k = 1
    OBVIOUS
<1> HIDE DEF k
<1>4. /\ k = 1 => IsPath(Cut(c, k), old[c[k]], new)
      /\ ToSet(Cut(c, k)) = ToSet(c) \ {c[k]}
      /\ Len(Cut(c, k)) = Len(c) - 1
    BY <1>1, <1>2, PathIsCut
<1> QED BY <1>3, <1>4

(* The nodes of c are put in front of the list r one after the other.      *)
Prepended(c, r) ==
    [i \in 1 .. Len(c) + Len(r) |-> IF i <= Len(c) THEN c[Len(c) + 1 - i] ELSE r[i - Len(c)]]

LEMMA PathTakesNodes ==
    ASSUME NEW c \in Seq(Node), c # << >>, \A i, j \in 1 .. Len(c) : c[i] = c[j] => i = j,
           NEW r, NEW first, NEW old, NEW new, IsPath(r, first, old),
           ToSet(c) \cap ToSet(r) = {},
           new[c[1]] = first,
           \A k \in 2 .. Len(c) : new[c[k]] = c[k - 1],
           \A n \in ToSet(r) : new[n] = old[n]
    PROVE  /\ IsPath(Prepended(c, r), c[Len(c)], new)
           /\ ToSet(Prepended(c, r)) = ToSet(c) \cup ToSet(r)
           /\ Len(Prepended(c, r)) = Len(c) + Len(r)
<1> DEFINE d == Prepended(c, r)
           m == Len(c)
           n == Len(r)
           At(i) == IF i <= m THEN c[m + 1 - i] ELSE r[i - m]
<1>1. /\ r \in Seq(Node) /\ m \in Nat /\ n \in Nat /\ m >= 1
      /\ IsPath(r, first, new)
    <2>1. IsPath(r, first, new)
        BY PathStays
    <2>2. r \in Seq(Node) /\ n \in Nat
        BY <2>1 DEF IsPath
    <2>3. m \in Nat /\ m >= 1
        BY EmptySeq
    <2> QED BY <2>1, <2>2, <2>3
<1>2. /\ \A i \in 1 .. n - 1 : new[r[i]] = r[i + 1]
      /\ \A i, j \in 1 .. n : r[i] = r[j] => i = j
      /\ n # 0 => r[1] = first /\ new[r[n]] = Null
      /\ n = 0 => first = Null
    <2>1. n = 0 <=> r = << >>
        BY <1>1
    <2> QED BY <1>1, <2>1 DEF IsPath
<1>3. ASSUME NEW i \in 1 .. m, NEW j \in 1 .. n PROVE c[i] # r[j]
    BY <1>1, ElementsAreAt
<1>4. /\ d \in Seq(Node) /\ Len(d) = m + n
      /\ \A i \in 1 .. m + n : d[i] = At(i)
    <2>1. ASSUME NEW i \in 1 .. m + n PROVE At(i) \in Node
        <3>1. CASE i <= m
            <4>1. m + 1 - i \in 1 .. m
                BY <1>1, <3>1
            <4> QED BY <3>1, <4>1
        <3>2. CASE ~(i <= m)
            <4>1. i - m \in 1 .. n
                BY <1>1, <3>2
            <4> QED BY <1>1, <3>2, <4>1
        <3> QED BY <3>1, <3>2
    <2>2. d = [i \in 1 .. m + n |-> At(i)] /\ m + n \in Nat
        BY <1>1 DEF Prepended
    <2> HIDE DEF d, m, n, At
    <2>3. d \in [1 .. m + n -> Node]
        BY <2>1, <2>2
    <2> QED BY <2>2, <2>3
<1> HIDE DEF d
<1>5. d # << >> /\ d[1] = c[m]
    <2>1. 1 \in 1 .. m + n /\ 1 <= m /\ m + 1 - 1 = m
        BY <1>1
    <2> QED BY <1>1, <1>4, <2>1
<1>6. new[d[m + n]] = Null
    <2>1. m + n \in 1 .. m + n
        BY <1>1
    <2>2. CASE n = 0
        <3>1. m + n <= m /\ m + 1 - (m + n) = 1
            BY <1>1, <2>2
        <3> QED BY <1>2, <1>4, <2>1, <2>2, <3>1
    <2>3. CASE n # 0
        <3>1. ~(m + n <= m) /\ (m + n) - m = n
            BY <1>1, <2>3
        <3> QED BY <1>2, <1>4, <2>1, <2>3, <3>1
    <2> QED BY <2>2, <2>3
<1>7. ASSUME NEW i \in 1 .. m + n - 1 PROVE new[d[i]] = d[i + 1]
    <2>1. i \in 1 .. m + n /\ i + 1 \in 1 .. m + n /\ i \in Nat
        BY <1>1
    <2>2. CASE i < m
        <3>1. i <= m /\ i + 1 <= m /\ m + 1 - i \in 2 .. m /\ m + 1 - (i + 1) = (m + 1 - i) - 1
            BY <1>1, <2>1, <2>2
        <3>2. d[i] = c[m + 1 - i] /\ d[i + 1] = c[m + 1 - (i + 1)]
            BY <1>4, <2>1, <3>1
        <3> QED BY <3>1, <3>2
    <2>3. CASE i = m
        <3>1. i <= m /\ m + 1 - i = 1 /\ ~(i + 1 <= m) /\ i + 1 - m = 1 /\ n # 0
            BY <1>1, <2>1, <2>3
        <3>2. d[i] = c[1] /\ d[i + 1] = r[1]
            BY <1>4, <2>1, <3>1
        <3> QED BY <1>2, <3>1, <3>2
    <2>4. CASE i > m
        <3>1. ~(i <= m) /\ ~(i + 1 <= m) /\ i - m \in 1 .. n - 1 /\ i + 1 - m = (i - m) + 1
            BY <1>1, <2>1, <2>4
        <3>2. d[i] = r[i - m] /\ d[i + 1] = r[i + 1 - m]
            BY <1>4, <2>1, <3>1, SMTT(30)
        <3> QED BY <1>2, <3>1, <3>2
    <2>5. m \in Nat
        BY <1>1
    <2>6. i < m \/ i = m \/ i > m
        BY <2>1, <2>5
    <2> QED BY <2>2, <2>3, <2>4, <2>6
<1>8. ASSUME NEW i \in 1 .. m + n
      PROVE  \/ i <= m /\ m + 1 - i \in 1 .. m /\ d[i] = c[m + 1 - i]
             \/ i > m /\ i - m \in 1 .. n /\ d[i] = r[i - m]
    BY <1>1, <1>4
<1>9. ASSUME NEW i \in 1 .. m + n, NEW j \in 1 .. m + n, d[i] = d[j] PROVE i = j
    <2>1. CASE i <= m /\ j <= m
        <3>1. /\ m + 1 - i \in 1 .. m /\ d[i] = c[m + 1 - i]
              /\ m + 1 - j \in 1 .. m /\ d[j] = c[m + 1 - j]
            BY <1>1, <1>8, <2>1
        <3>2. m + 1 - i = m + 1 - j
            BY <1>9, <3>1
        <3> QED BY <1>1, <3>2
    <2>2. CASE i > m /\ j > m
        <3>1. i - m \in 1 .. n /\ d[i] = r[i - m] /\ j - m \in 1 .. n /\ d[j] = r[j - m]
            BY <1>1, <1>8, <2>2
        <3>2. i - m = j - m
            BY <1>2, <1>9, <3>1, ZenonT(60)
        <3> QED BY <1>1, <3>2
    <2>3. CASE i <= m /\ j > m
        <3>1. m + 1 - i \in 1 .. m /\ d[i] = c[m + 1 - i] /\ j - m \in 1 .. n /\ d[j] = r[j - m]
            BY <1>1, <1>8, <2>3
        <3> QED BY <1>3, <1>9, <3>1, ZenonT(60)
    <2>4. CASE i > m /\ j <= m
        <3>1. m + 1 - j \in 1 .. m /\ d[j] = c[m + 1 - j] /\ i - m \in 1 .. n /\ d[i] = r[i - m]
            BY <1>1, <1>8, <2>4
        <3> QED BY <1>3, <1>9, <3>1
    <2>5. m \in Nat /\ i \in Int /\ j \in Int
        BY <1>1
    <2>6. (i <= m \/ i > m) /\ (j <= m \/ j > m)
        BY <2>5
    <2> QED BY <2>1, <2>2, <2>3, <2>4, <2>6
<1>10. ToSet(d) = ToSet(c) \cup ToSet(r)
    <2>1. ASSUME NEW x \in ToSet(d) PROVE x \in ToSet(c) \cup ToSet(r)
        <3>1. PICK i \in 1 .. m + n : x = d[i]
            BY <1>4, ElementsAreAt, SMTT(30)
        <3>2. CASE i <= m /\ m + 1 - i \in 1 .. m /\ d[i] = c[m + 1 - i]
            BY <3>1, <3>2, ElementsAreAt
        <3>3. CASE i > m /\ i - m \in 1 .. n /\ d[i] = r[i - m]
            BY <1>1, <3>1, <3>3, ElementsAreAt
        <3> QED BY <1>8, <3>2, <3>3
    <2>2. ASSUME NEW x \in ToSet(c) PROVE x \in ToSet(d)
        <3>1. PICK i \in 1 .. m : x = c[i]
            BY ElementsAreAt
        <3>2. m + 1 - i \in 1 .. m + n /\ m + 1 - i <= m /\ m + 1 - (m + 1 - i) = i
            BY <1>1
        <3>3. d[m + 1 - i] = x
            BY <1>4, <3>1, <3>2
        <3> QED BY <1>4, <3>2, <3>3, ElementsAreAt
    <2>3. ASSUME NEW x \in ToSet(r) PROVE x \in ToSet(d)
        <3>1. PICK i \in 1 .. n : x = r[i]
            BY <1>1, ElementsAreAt
        <3>2. m + i \in 1 .. m + n /\ ~(m + i <= m) /\ (m + i) - m = i
            BY <1>1
        <3>3. d[m + i] = x
            BY <1>4, <3>1, <3>2
        <3> QED BY <1>4, <3>2, <3>3, ElementsAreAt
    <2> QED BY <2>1, <2>2, <2>3
<1>11. IsPath(d, c[m], new)
    <2>1. Len(d) = m + n /\ d \in Seq(Node)
        BY <1>4
    <2>2. d[1] = c[m] /\ new[d[Len(d)]] = Null
        BY <1>5, <1>6, <2>1
    <2>3. \A i \in 1 .. Len(d) - 1 : new[d[i]] = d[i + 1]
        BY <1>7, <2>1
    <2>4. \A i, j \in 1 .. Len(d) : d[i] = d[j] => i = j
        BY <1>9, <2>1
    <2> HIDE DEF m, n
    <2> QED BY <1>5, <2>1, <2>2, <2>3, <2>4 DEF IsPath
<1> QED BY <1>4, <1>10, <1>11 DEF d
-----------------------------------------------------------------------------
(* The inductive invariant. *)

(* links leads through each signal's list from its head and through the    *)
(* released nodes; no node is in two of these, and none was never given.   *)
Listed(lists, released, links, heads, first, given) ==
    /\ links \in [Node -> Node \cup {Null}]
    /\ heads \in [Signal -> Node \cup {Null}]
    /\ first \in Node \cup {Null}
    /\ given \in 0 .. StorageSize
    /\ \A s \in Signal : IsPath(lists[s], heads[s], links)
    /\ IsPath(released, first, links)
    /\ \A s \in Signal : ToSet(lists[s]) \cap ToSet(released) = {}
    /\ \A s, t \in Signal : s # t => ToSet(lists[s]) \cap ToSet(lists[t]) = {}
    /\ \A s \in Signal : ToSet(lists[s]) \subseteq 1 .. given
    /\ ToSet(released) \subseteq 1 .. given

(* The nodes of all lists. *)
AllOf(lists, released) == (UNION {ToSet(lists[s]) : s \in Signal}) \cup ToSet(released)

Lists == [s \in Signal |-> Chain(m_slotList[s])]

Released == Chain(m_releasedSlots)

(* No slot is twice in a list. *)
NamedOnce(list, names) ==
    \A i, j \in 1 .. Len(list) : names[list[i]] = names[list[j]] => i = j

PoolInv ==
    /\ Listed(Lists, Released, next, m_slotList, m_releasedSlots, m_lastSlotIndex)
    /\ slotsInUse \in Nat /\ slotsInUse + Len(Released) = m_lastSlotIndex
    /\ slot \in [Node -> Slot \cup {NoSlot}]
    /\ \A n \in 1 .. m_lastSlotIndex : slot[n] \in Slot
    /\ \A s \in Signal : NamedOnce(Lists[s], slot)
    /\ "die" \notin allowed => AllOf(Lists, Released) = 1 .. m_lastSlotIndex

StackInv ==
    /\ m_lastGetSlot \in [Signal -> Node \cup {Null}]
    /\ m_data \in [Signal -> 0 .. MaxDepth]
    /\ stack \in Seq([signal : Signal, cmd : Slot \cup {NoSlot}, owed : SUBSET Slot])
    /\ Len(stack) <= MaxDepth
    /\ faulted \in BOOLEAN

(* A signal that runs once at a time keeps its cursor. *)
CursorInv ==
    "reenter" \notin allowed =>
        /\ ~faulted
        /\ \A i \in 1 .. Len(stack) : m_lastGetSlot[stack[i].signal] # Null
        /\ \A i, j \in 1 .. Len(stack) : stack[i].signal = stack[j].signal => i = j

(* The slot that entry runs is in list, and those it owes are behind it.   *)
OnItsWay(entry, list, names) ==
    \E k \in 1 .. Len(list) :
        /\ names[list[k]] = entry.cmd
        /\ \A x \in entry.owed : \E j \in k + 1 .. Len(list) : names[list[j]] = x

(* Slots that do not disconnect themselves stay in the lists; only the     *)
(* innermost activation of a signal still knows where it is.               *)
WalkInv ==
    "disconnectRunning" \notin allowed =>
        \A i \in 1 .. Len(stack) :
            LET s == stack[i].signal
            IN  /\ OnItsWay(stack[i], Lists[s], slot)
                /\ (\A j \in i + 1 .. Len(stack) : stack[j].signal # s) =>
                       \/ m_lastGetSlot[s] = Null
                       \/ /\ m_lastGetSlot[s] \in ToSet(Lists[s])
                          /\ slot[m_lastGetSlot[s]] = stack[i].cmd

IInv == PoolInv /\ StackInv /\ CursorInv /\ WalkInv
-----------------------------------------------------------------------------
(* What connect, disconnect, disconnectAll and the death of a signal do to *)
(* all the lists.                                                          *)

LEMMA ListedFacts ==
    ASSUME NEW lists, NEW released, NEW links, NEW heads, NEW first, NEW given,
           Listed(lists, released, links, heads, first, given)
    PROVE  /\ given \in Nat /\ \A m \in Node : links[m] \in Node \cup {Null}
           /\ \A s \in Signal :
                  /\ lists[s] \in Seq(Node) /\ Len(lists[s]) \in Nat
                  /\ \A i, j \in 1 .. Len(lists[s]) : lists[s][i] = lists[s][j] => i = j
                  /\ heads[s] = Null <=> lists[s] = << >>
                  /\ lists[s] # << >> => /\ Len(lists[s]) \in 1 .. Len(lists[s])
                                         /\ Last(lists[s]) = lists[s][Len(lists[s])]
                                         /\ heads[s] = lists[s][1]
           /\ released \in Seq(Node) /\ Len(released) \in Nat
           /\ \A i, j \in 1 .. Len(released) : released[i] = released[j] => i = j
           /\ first = Null <=> released = << >>
           /\ released # << >> => 1 \in 1 .. Len(released) /\ first = released[1]
<1>1. given \in Nat /\ \A m \in Node : links[m] \in Node \cup {Null}
    BY StorageSizeAssumption DEF Listed
<1>2. ASSUME NEW c, NEW f, f \in Node \cup {Null}, IsPath(c, f, links)
      PROVE  /\ c \in Seq(Node) /\ Len(c) \in Nat
             /\ \A i, j \in 1 .. Len(c) : c[i] = c[j] => i = j
             /\ f = Null <=> c = << >>
             /\ c # << >> => /\ 1 \in 1 .. Len(c) /\ Len(c) \in 1 .. Len(c)
                             /\ Last(c) = c[Len(c)] /\ f = c[1]
    <2>1. c \in Seq(Node) /\ Len(c) \in Nat
        BY <1>2 DEF IsPath
    <2>2. c # << >> => /\ 1 \in 1 .. Len(c) /\ Len(c) \in 1 .. Len(c)
                       /\ Last(c) = c[Len(c)] /\ f = c[1] /\ c[1] \in Node
        <3>1. c # << >> => Len(c) >= 1
            BY <2>1, EmptySeq
        <3>2. c # << >> => 1 \in 1 .. Len(c) /\ Len(c) \in 1 .. Len(c)
            BY <2>1, <3>1
        <3>3. c # << >> => Last(c) = c[Len(c)] /\ f = c[1] /\ c[1] \in Node
            BY <1>2, <2>1, <3>2 DEF IsPath, Last
        <3> QED BY <3>2, <3>3
    <2>3. f = Null <=> c = << >>
        <3>1. Null \notin Node
            BY DEF Node, Null
        <3> QED BY <1>2, <2>2, <3>1 DEF IsPath
    <2>4. \A i, j \in 1 .. Len(c) : c[i] = c[j] => i = j
        BY <1>2 DEF IsPath
    <2> QED BY <2>1, <2>2, <2>3, <2>4
<1>3. ASSUME NEW s \in Signal
      PROVE  IsPath(lists[s], heads[s], links) /\ heads[s] \in Node \cup {Null}
    BY DEF Listed
<1>4. IsPath(released, first, links) /\ first \in Node \cup {Null}
    BY DEF Listed
<1>5. ASSUME NEW s \in Signal
      PROVE  /\ lists[s] \in Seq(Node) /\ Len(lists[s]) \in Nat
             /\ \A i, j \in 1 .. Len(lists[s]) : lists[s][i] = lists[s][j] => i = j
             /\ heads[s] = Null <=> lists[s] = << >>
             /\ lists[s] # << >> => /\ Len(lists[s]) \in 1 .. Len(lists[s])
                                    /\ Last(lists[s]) = lists[s][Len(lists[s])]
                                    /\ heads[s] = lists[s][1]
    BY <1>2, <1>3
<1>6. /\ released \in Seq(Node) /\ Len(released) \in Nat
      /\ \A i, j \in 1 .. Len(released) : released[i] = released[j] => i = j
      /\ first = Null <=> released = << >>
      /\ released # << >> => 1 \in 1 .. Len(released) /\ first = released[1]
    BY <1>2, <1>4
<1> QED BY <1>1, <1>5, <1>6

(* list becomes the list of s. *)
With(lists, s, list) == [t \in Signal |-> IF t = s THEN list ELSE lists[t]]

LEMMA AllOfHas ==
    ASSUME NEW lists, NEW released, NEW m
    PROVE  m \in AllOf(lists, released)
               <=> m \in ToSet(released) \/ \E t \in Signal : m \in ToSet(lists[t])
<1> DEFINE U == UNION {ToSet(lists[s]) : s \in Signal}
<1>1. ASSUME m \in U
      PROVE  \E t \in Signal : m \in ToSet(lists[t])
    <2>1. PICK T \in {ToSet(lists[t]) : t \in Signal} : m \in T
        BY <1>1
    <2>2. PICK t \in Signal : T = ToSet(lists[t])
        BY <2>1
    <2> QED BY <2>1, <2>2
<1>2. ASSUME NEW t \in Signal, m \in ToSet(lists[t])
      PROVE  m \in U
    <2>1. ToSet(lists[t]) \in {ToSet(lists[u]) : u \in Signal}
        OBVIOUS
    <2> QED BY <1>2, <2>1
<1>3. AllOf(lists, released) = U \cup ToSet(released)
    BY DEF AllOf
<1> HIDE DEF U
<1> QED BY <1>1, <1>2, <1>3

(* connect: the node is the first released one or one never given.         *)
FirstFree(first, given) ==
    IF first # Null THEN first ELSE IF given < StorageSize THEN given + 1 ELSE Null

LinkedBehind(n, list, links) ==
    [m \in Node |-> IF m = n THEN Null
                    ELSE IF list # << >> /\ m = Last(list) THEN n
                    ELSE links[m]]

HeadsWith(n, s, heads) == IF heads[s] # Null THEN heads ELSE [heads EXCEPT ![s] = n]

LEMMA NodeIsAppended ==
    ASSUME NEW lists, NEW released, NEW links, NEW heads, NEW first, NEW given,
           Listed(lists, released, links, heads, first, given),
           NEW s \in Signal, NEW n, n = FirstFree(first, given), n # Null,
           NEW released2, released2 = (IF first # Null THEN Cut(released, 1) ELSE released),
           NEW given2, given2 = (IF first # Null THEN given ELSE n)
    PROVE  /\ Listed(With(lists, s, Append(lists[s], n)), released2,
                     LinkedBehind(n, lists[s], links), HeadsWith(n, s, heads),
                     IF first # Null THEN links[n] ELSE first, given2)
           /\ n \in Node /\ n \in 1 .. given2
           /\ 1 .. given2 = (1 .. given) \cup {n}
           /\ \A t \in Signal : n \notin ToSet(lists[t])
           /\ AllOf(With(lists, s, Append(lists[s], n)), released2)
                  = AllOf(lists, released) \cup {n}
           /\ given2 - Len(released2) = given - Len(released) + 1
<1> DEFINE lists2 == With(lists, s, Append(lists[s], n))
           links2 == LinkedBehind(n, lists[s], links)
           heads2 == HeadsWith(n, s, heads)
           first2 == IF first # Null THEN links[n] ELSE first
<1>a. /\ lists2[s] = Append(lists[s], n)
      /\ \A t \in Signal : t # s => lists2[t] = lists[t]
    <2>1. lists2 = With(lists, s, Append(lists[s], n))
        OBVIOUS
    <2> HIDE DEF lists2
    <2> QED BY <2>1 DEF With
<1> HIDE DEF lists2, links2, heads2, first2
<1> DEFINE c == lists[s]
<1>1. /\ given \in Nat /\ given \in 0 .. StorageSize /\ StorageSize \in Nat
      /\ \A m \in Node : links[m] \in Node \cup {Null}
      /\ links \in [Node -> Node \cup {Null}] /\ heads \in [Signal -> Node \cup {Null}]
      /\ first \in Node \cup {Null}
    BY ListedFacts, StorageSizeAssumption DEF Listed
<1>2. /\ \A t \in Signal : ToSet(lists[t]) \cap ToSet(released) = {}
      /\ \A t, u \in Signal : t # u => ToSet(lists[t]) \cap ToSet(lists[u]) = {}
      /\ \A t \in Signal : ToSet(lists[t]) \subseteq 1 .. given
      /\ ToSet(released) \subseteq 1 .. given
      /\ \A t \in Signal : IsPath(lists[t], heads[t], links)
      /\ IsPath(released, first, links)
    BY DEF Listed
<1>3. /\ c \in Seq(Node) /\ Len(c) \in Nat
      /\ \A i, j \in 1 .. Len(c) : c[i] = c[j] => i = j
      /\ heads[s] = Null <=> c = << >>
      /\ c # << >> => Len(c) \in 1 .. Len(c) /\ Last(c) = c[Len(c)]
    BY ListedFacts
<1>4. /\ released \in Seq(Node) /\ Len(released) \in Nat
      /\ \A i, j \in 1 .. Len(released) : released[i] = released[j] => i = j
      /\ first = Null <=> released = << >>
      /\ released # << >> => 1 \in 1 .. Len(released) /\ first = released[1]
    BY ListedFacts
<1>5. /\ n \in Node /\ \A t \in Signal : n \notin ToSet(lists[t])
      /\ given2 \in 0 .. StorageSize /\ n \in 1 .. given2
      /\ 1 .. given2 = (1 .. given) \cup {n}
      /\ first # Null => n \in ToSet(released) /\ n = released[1]
      /\ first = Null => n \notin ToSet(released)
    <2>1. CASE first # Null
        <3>1. n = released[1] /\ n \in ToSet(released) /\ given2 = given /\ n \in Node
            BY <1>1, <1>4, <2>1, ElementsAreAt DEF FirstFree
        <3>2. n \in 1 .. given
            BY <1>2, <3>1
        <3>3. \A t \in Signal : n \notin ToSet(lists[t])
            BY <1>2, <3>1
        <3> QED BY <1>1, <2>1, <3>1, <3>2, <3>3
    <2>2. CASE first = Null
        <3>1. n = given + 1 /\ given < StorageSize /\ given2 = n
            BY <2>2 DEF FirstFree
        <3>2. n \in Node /\ given2 \in 0 .. StorageSize /\ n \in 1 .. given2 /\ n \notin 1 .. given
            BY <1>1, <3>1 DEF Node
        <3>3. 1 .. given2 = (1 .. given) \cup {n}
            BY <1>1, <3>1
        <3>4. n \notin ToSet(released) /\ \A t \in Signal : n \notin ToSet(lists[t])
            BY <1>2, <3>2
        <3> QED BY <2>2, <3>2, <3>3, <3>4
    <2> QED BY <2>1, <2>2
<1>6. ASSUME NEW m \in Node, m # n, c # << >> => m # c[Len(c)] PROVE links2[m] = links[m]
    BY <1>3, <1>6 DEF links2, LinkedBehind
<1>7. c # << >> => c[Len(c)] \in ToSet(c)
    BY <1>3, ElementsAreAt
<1>8. ASSUME NEW t \in Signal, t # s
      PROVE  IsPath(lists2[t], heads2[t], links2) /\ ToSet(lists2[t]) = ToSet(lists[t])
    <2>1. lists2[t] = lists[t] /\ heads2[t] = heads[t]
        BY <1>1, <1>8, <1>a DEF heads2, HeadsWith
    <2>2. \A m \in ToSet(lists[t]) : m \in Node
        BY <1>2, PathIsNoLongerThanStorage
    <2>3. \A m \in ToSet(lists[t]) : links2[m] = links[m]
        BY <1>2, <1>5, <1>6, <1>7, <1>8, <2>2, SMTT(30)
    <2>4. IsPath(lists[t], heads[t], links2)
        BY <1>2, <2>3, PathStays
    <2> QED BY <2>1, <2>4
<1>9. /\ IsPath(lists2[s], heads2[s], links2)
      /\ ToSet(lists2[s]) = ToSet(c) \cup {n}
    <2>1. links2[n] = Null /\ IsPath(c, heads[s], links) /\ n \notin ToSet(c)
        BY <1>2, <1>5 DEF links2, LinkedBehind
    <2>2. c # << >> => links2[c[Len(c)]] = n
        <3> SUFFICES ASSUME c # << >> PROVE links2[c[Len(c)]] = n
            OBVIOUS
        <3>1. c[Len(c)] \in Node /\ c[Len(c)] # n /\ c[Len(c)] = Last(c)
            <4>1. Len(c) \in 1 .. Len(c) /\ c[Len(c)] = Last(c)
                BY <1>3
            <4>2. n \notin ToSet(c)
                BY <1>5
            <4> HIDE DEF c
            <4> QED BY <1>3, <1>7, <4>1, <4>2
        <3> QED BY <3>1 DEF links2, LinkedBehind
    <2>3. ASSUME NEW k \in 1 .. Len(c) - 1 PROVE links2[c[k]] = links[c[k]]
        <3>1. k \in 1 .. Len(c) /\ k # Len(c) /\ Len(c) \in 1 .. Len(c)
            BY <1>3
        <3> HIDE DEF c
        <3>2. c[k] # c[Len(c)] /\ c[k] \in Node
            BY <1>3, <3>1
        <3>3. c[k] \in ToSet(c)
            BY <1>3, <3>1, ElementsAreAt
        <3>4. c[k] # n
            BY <2>1, <3>3
        <3> QED BY <1>6, <3>2, <3>4
    <2> HIDE DEF c
    <2>4. /\ c = << >> => IsPath(Append(c, n), n, links2)
          /\ c # << >> => IsPath(Append(c, n), heads[s], links2)
          /\ ToSet(Append(c, n)) = ToSet(c) \cup {n}
        <3> DEFINE f == heads[s]
               d == Append(c, n)
        <3>1. IsPath(c, f, links) /\ n \in Node /\ n \notin ToSet(c) /\ links2[n] = Null
            BY <1>5, <2>1
        <3>2. IsGrown(d, c, n)
            BY DEF IsGrown
        <3> HIDE DEF f, d
        <3>3. /\ c = << >> => IsPath(d, n, links2)
              /\ c # << >> => IsPath(d, f, links2)
              /\ ToSet(d) = ToSet(c) \cup {n}
            <4>1. \A k \in 1 .. Len(c) - 1 : links2[c[k]] = links[c[k]]
                BY <2>3
            <4>2. c = << >> => IsPath(d, n, links2)
                BY <2>2, <3>1, <3>2, <4>1, PathGrows
            <4>3. c # << >> => IsPath(d, f, links2)
                BY <2>2, <3>1, <3>2, <4>1, PathGrows
            <4>4. c \in Seq(Node)
                BY <3>1 DEF IsPath
            <4>5. ToSet(d) = ToSet(c) \cup {n}
                BY <3>1, <3>2, <4>4, GrownHas
            <4> QED BY <4>2, <4>3, <4>5
        <3> QED BY <3>3 DEF f, d
    <2>5. lists2[s] = Append(c, n)
        BY <1>a DEF c
    <2>6. heads2[s] = IF c = << >> THEN n ELSE heads[s]
        BY <1>1, <1>3 DEF heads2, HeadsWith
    <2> QED BY <2>4, <2>5, <2>6
<1>10. /\ IsPath(released2, first2, links2)
       /\ ToSet(released2) = ToSet(released) \ {n}
       /\ given2 - Len(released2) = given - Len(released) + 1
    <2>0. c # << >> => c[Len(c)] \notin ToSet(released)
        BY <1>2, <1>7
    <2>1. CASE first # Null
        <3>1. released[1] = n /\ 1 \in 1 .. Len(released) /\ 1 \in Nat
            BY <1>4, <1>5, <2>1
        <3>2. ASSUME NEW i \in 1 .. Len(released), i # 1
              PROVE  links2[released[i]] = links[released[i]]
            <4>1. released[i] \in Node /\ released[i] # n /\ released[i] \in ToSet(released)
                BY <1>4, <3>1, <3>2, ElementsAreAt
            <4> QED BY <1>6, <2>0, <4>1
        <3>3. /\ IsPath(Cut(released, 1), links[released[1]], links2)
              /\ ToSet(Cut(released, 1)) = ToSet(released) \ {released[1]}
              /\ Len(Cut(released, 1)) = Len(released) - 1
            <4>0. IsPath(released, first, links)
                BY <1>2
            <4> QED BY <3>1, <3>2, <4>0, HeadIsCut
        <3>4. released2 = Cut(released, 1) /\ given2 = given
            BY <2>1
        <3>5. first2 = links[released[1]]
            BY <2>1, <3>1 DEF first2
        <3>6. given - (Len(released) - 1) = given - Len(released) + 1
            BY <1>1, <1>4
        <3> QED BY <3>1, <3>3, <3>4, <3>5, <3>6
    <2>2. CASE first = Null
        <3>1. \A m \in ToSet(released) : m \in Node
            BY <1>4, PathIsNoLongerThanStorage, <1>2
        <3>2. \A m \in ToSet(released) : links2[m] = links[m]
            BY <1>5, <1>6, <2>0, <2>2, <3>1
        <3>3. IsPath(released, first, links2)
            BY <1>2, <3>2, PathStays
        <3>4. released2 = released /\ given2 = given + 1 /\ n \notin ToSet(released)
            BY <1>5, <2>2 DEF FirstFree
        <3>5. first2 = first
            BY <2>2 DEF first2
        <3>6. (given + 1) - Len(released) = given - Len(released) + 1
            BY <1>1, <1>4
        <3> QED BY <3>3, <3>4, <3>5, <3>6
    <2> QED BY <2>1, <2>2
<1>11. /\ links2 \in [Node -> Node \cup {Null}] /\ heads2 \in [Signal -> Node \cup {Null}]
       /\ first2 \in Node \cup {Null}
    BY <1>1, <1>5 DEF links2, LinkedBehind, heads2, HeadsWith, first2
<1>12. /\ \A t \in Signal : ToSet(lists2[t]) \cap ToSet(released2) = {}
       /\ \A t, u \in Signal : t # u => ToSet(lists2[t]) \cap ToSet(lists2[u]) = {}
       /\ \A t \in Signal : ToSet(lists2[t]) \subseteq 1 .. given2
       /\ ToSet(released2) \subseteq 1 .. given2
    <2>1. \A t \in Signal : ToSet(lists2[t]) = IF t = s THEN ToSet(lists[t]) \cup {n} ELSE ToSet(lists[t])
        BY <1>8, <1>9
    <2>2. \A t \in Signal : n \notin ToSet(lists[t])
        BY <1>5
    <2>3. \A t \in Signal : ToSet(lists2[t]) \cap ToSet(released2) = {}
        BY <1>2, <1>10, <2>1
    <2>4. \A t, u \in Signal : t # u => ToSet(lists2[t]) \cap ToSet(lists2[u]) = {}
        BY <1>2, <2>1, <2>2, ZenonT(60)
    <2>5. \A t \in Signal : ToSet(lists2[t]) \subseteq 1 .. given2
        BY <1>2, <1>5, <2>1
    <2>6. ToSet(released2) \subseteq 1 .. given2
        BY <1>2, <1>5, <1>10
    <2> QED BY <2>3, <2>4, <2>5, <2>6
<1>13. AllOf(lists2, released2) = AllOf(lists, released) \cup {n}
    <2>1. \A t \in Signal : ToSet(lists2[t]) = IF t = s THEN ToSet(lists[t]) \cup {n} ELSE ToSet(lists[t])
        BY <1>8, <1>9
    <2>2. ASSUME NEW m \in AllOf(lists2, released2) PROVE m \in AllOf(lists, released) \cup {n}
        <3>1. m \in ToSet(released2) \/ \E t \in Signal : m \in ToSet(lists2[t])
            BY <2>2, AllOfHas
        <3>2. m = n \/ m \in ToSet(released) \/ \E t \in Signal : m \in ToSet(lists[t])
            BY <1>10, <2>1, <3>1
        <3> QED BY <3>2, AllOfHas
    <2>3. ASSUME NEW m \in AllOf(lists, released) \cup {n} PROVE m \in AllOf(lists2, released2)
        <3>1. n \in ToSet(lists2[s])
            BY <1>9
        <3>2. m = n \/ m \in ToSet(released) \/ \E t \in Signal : m \in ToSet(lists[t])
            BY <2>3, AllOfHas
        <3>3. m \in ToSet(released2) \/ \E t \in Signal : m \in ToSet(lists2[t])
            BY <1>10, <2>1, <3>1, <3>2
        <3> QED BY <3>3, AllOfHas
    <2> QED BY <2>2, <2>3
<1>14. \A t \in Signal : IsPath(lists2[t], heads2[t], links2)
    BY <1>8, <1>9
<1>15. Listed(lists2, released2, links2, heads2, first2, given2)
    BY <1>5, <1>10, <1>11, <1>12, <1>14 DEF Listed
<1> QED BY <1>5, <1>10, <1>13, <1>15 DEF lists2, links2, heads2, first2

(* A list and the released nodes together are no more than were given.     *)
LEMMA ListsAreCounted ==
    ASSUME NEW lists, NEW released, NEW links, NEW heads, NEW first, NEW given,
           Listed(lists, released, links, heads, first, given), NEW s \in Signal
    PROVE  Len(lists[s]) + Len(released) <= given
<1> DEFINE A == ToSet(lists[s])
           B == ToSet(released)
<1>1. IsPath(lists[s], heads[s], links) /\ IsPath(released, first, links)
    BY DEF Listed
<1>2. /\ A \cap B = {} /\ A \subseteq 1 .. given /\ B \subseteq 1 .. given
      /\ given \in 0 .. StorageSize
    BY DEF Listed
<1>3. IsFiniteSet(A) /\ Cardinality(A) = Len(lists[s])
    BY <1>1, PathIsNoLongerThanStorage
<1>4. IsFiniteSet(B) /\ Cardinality(B) = Len(released)
    BY <1>1, PathIsNoLongerThanStorage
<1>5. given \in Nat
    BY <1>2, StorageSizeAssumption
<1> HIDE DEF A, B
<1>6. Cardinality(A \cup B) = Cardinality(A) + Cardinality(B)
    <2>1. Cardinality(A \cup B) = Cardinality(A) + Cardinality(B) - Cardinality(A \cap B)
        BY <1>3, <1>4, FS_Union
    <2>2. Cardinality(A \cap B) = 0
        BY <1>2, FS_EmptySet
    <2>3. Cardinality(A) \in Nat /\ Cardinality(B) \in Nat
        BY <1>3, <1>4, FS_CardinalityType
    <2> QED BY <2>1, <2>2, <2>3
<1>7. IsFiniteSet(1 .. given) /\ Cardinality(1 .. given) = given
    <2>1. 1 \in Int /\ given \in Int
        BY <1>5
    <2>2. /\ IsFiniteSet(1 .. given)
          /\ Cardinality(1 .. given) = IF 1 > given THEN 0 ELSE given - 1 + 1
        BY <2>1, FS_Interval
    <2> QED BY <1>5, <2>2
<1>8. Cardinality(A \cup B) <= Cardinality(1 .. given)
    <2>1. (A \cup B) \subseteq 1 .. given
        BY <1>2
    <2> QED BY <1>7, <2>1, FS_Subset
<1> QED BY <1>3, <1>4, <1>6, <1>7, <1>8

(* disconnect: the node in place at becomes the first released one.        *)
Unlinked(at, list, first, links) ==
    [m \in Node |-> IF m = list[at] THEN first
                    ELSE IF at > 1 /\ m = list[at - 1] THEN links[list[at]]
                    ELSE links[m]]

HeadsWithout(at, n, s, heads) == IF at = 1 THEN [heads EXCEPT ![s] = n] ELSE heads

LEMMA NodeIsUnlinked ==
    ASSUME NEW lists, NEW released, NEW links, NEW heads, NEW first, NEW given,
           Listed(lists, released, links, heads, first, given),
           NEW s \in Signal, NEW at \in 1 .. Len(lists[s]), NEW n, n = lists[s][at]
    PROVE  /\ Listed(With(lists, s, Cut(lists[s], at)), Prepended(<<n>>, released),
                     Unlinked(at, lists[s], first, links),
                     HeadsWithout(at, links[n], s, heads), n, given)
           /\ AllOf(With(lists, s, Cut(lists[s], at)), Prepended(<<n>>, released))
                  = AllOf(lists, released)
           /\ Len(Prepended(<<n>>, released)) = Len(released) + 1
           /\ n \in Node
<1> DEFINE lists2 == With(lists, s, Cut(lists[s], at))
           links2 == Unlinked(at, lists[s], first, links)
           heads2 == HeadsWithout(at, links[n], s, heads)
           released2 == Prepended(<<n>>, released)
           c == lists[s]
<1>a. /\ lists2[s] = Cut(c, at)
      /\ \A t \in Signal : t # s => lists2[t] = lists[t]
    <2>1. lists2 = With(lists, s, Cut(lists[s], at))
        OBVIOUS
    <2> HIDE DEF lists2
    <2> QED BY <2>1 DEF With
<1> HIDE DEF lists2, links2, heads2, released2
<1>1. /\ links \in [Node -> Node \cup {Null}] /\ heads \in [Signal -> Node \cup {Null}]
      /\ first \in Node \cup {Null} /\ given \in 0 .. StorageSize
    BY DEF Listed
<1>2. /\ \A t \in Signal : ToSet(lists[t]) \cap ToSet(released) = {}
      /\ \A t, u \in Signal : t # u => ToSet(lists[t]) \cap ToSet(lists[u]) = {}
      /\ \A t \in Signal : ToSet(lists[t]) \subseteq 1 .. given
      /\ ToSet(released) \subseteq 1 .. given
      /\ \A t \in Signal : IsPath(lists[t], heads[t], links)
      /\ IsPath(released, first, links)
    BY DEF Listed
<1>3. /\ c \in Seq(Node) /\ Len(c) \in Nat
      /\ \A i, j \in 1 .. Len(c) : c[i] = c[j] => i = j
      /\ at \in 1 .. Len(c) /\ n = c[at] /\ IsPath(c, heads[s], links)
    BY <1>2, ListedFacts
<1>4. n \in Node /\ n \in ToSet(c)
    BY <1>3, ElementsAreAt
<1>5. /\ links2[n] = first
      /\ at > 1 => links2[c[at - 1]] = links[c[at]]
      /\ \A m \in Node : m \notin ToSet(c) => links2[m] = links[m]
      /\ \A i \in 1 .. Len(c) : i # at /\ i # at - 1 => links2[c[i]] = links[c[i]]
    <2>0. links2 = [m \in Node |-> IF m = c[at] THEN first
                                   ELSE IF at > 1 /\ m = c[at - 1] THEN links[c[at]]
                                   ELSE links[m]]
        BY DEF links2, Unlinked
    <2> HIDE DEF c
    <2>1. links2[n] = first
        BY <1>3, <1>4, <2>0
    <2>2. at > 1 => /\ at - 1 \in 1 .. Len(c) /\ c[at - 1] \in Node /\ c[at - 1] # c[at]
                    /\ c[at - 1] \in ToSet(c)
        <3> SUFFICES ASSUME at > 1
                     PROVE /\ at - 1 \in 1 .. Len(c) /\ c[at - 1] \in Node /\ c[at - 1] # c[at]
                           /\ c[at - 1] \in ToSet(c)
            OBVIOUS
        <3>1. at - 1 \in 1 .. Len(c) /\ at - 1 # at
            BY <1>3
        <3>2. c[at - 1] \in Node /\ c[at - 1] # c[at]
            BY <1>3, <3>1
        <3>3. c[at - 1] \in ToSet(c)
            BY <1>3, <3>1, ElementsAreAt
        <3> QED BY <3>1, <3>2, <3>3
    <2>3. at > 1 => links2[c[at - 1]] = links[c[at]]
        BY <2>0, <2>2
    <2>4. ASSUME NEW m \in Node, m \notin ToSet(c) PROVE links2[m] = links[m]
        BY <1>3, <1>4, <2>0, <2>2, <2>4
    <2>5. ASSUME NEW i \in 1 .. Len(c), i # at, i # at - 1 PROVE links2[c[i]] = links[c[i]]
        <3>1. c[i] \in Node /\ c[i] # c[at]
            BY <1>3, <2>5
        <3>2. at > 1 => c[i] # c[at - 1]
            BY <1>3, <2>2, <2>5
        <3> QED BY <2>0, <3>1, <3>2
    <2> QED BY <2>1, <2>3, <2>4, <2>5
<1>6. ASSUME NEW t \in Signal, t # s
      PROVE  IsPath(lists2[t], heads2[t], links2) /\ ToSet(lists2[t]) = ToSet(lists[t])
    <2>1. lists2[t] = lists[t] /\ heads2[t] = heads[t]
        BY <1>1, <1>6, <1>a DEF heads2, HeadsWithout
    <2>2. \A m \in ToSet(lists[t]) : m \in Node /\ m \notin ToSet(c)
        BY <1>2, <1>6, PathIsNoLongerThanStorage
    <2>3. \A m \in ToSet(lists[t]) : links2[m] = links[m]
        BY <1>5, <2>2
    <2>4. IsPath(lists[t], heads[t], links2)
        BY <1>2, <2>3, PathStays
    <2> QED BY <2>1, <2>4
<1>7. IsPath(lists2[s], heads2[s], links2) /\ ToSet(lists2[s]) = ToSet(c) \ {n}
    <2> HIDE DEF c
    <2>1. /\ at = 1 => IsPath(Cut(c, at), links[c[at]], links2)
          /\ at # 1 => IsPath(Cut(c, at), heads[s], links2)
          /\ ToSet(Cut(c, at)) = ToSet(c) \ {c[at]}
        <3> DEFINE f == heads[s]
        <3>1. /\ at \in 1 .. Len(c) /\ IsPath(c, f, links)
              /\ at > 1 => links2[c[at - 1]] = links[c[at]]
            BY <1>3, <1>5
        <3>2. \A i \in 1 .. Len(c) : i # at /\ i # at - 1 => links2[c[i]] = links[c[i]]
            BY <1>5
        <3> HIDE DEF f
        <3>3. /\ at = 1 => IsPath(Cut(c, at), links[c[at]], links2)
              /\ at # 1 => IsPath(Cut(c, at), f, links2)
            BY <3>1, <3>2, PathIsCut
        <3>4. ToSet(Cut(c, at)) = ToSet(c) \ {c[at]}
            BY <1>3, CutHas
        <3> QED BY <3>3, <3>4 DEF f
    <2>2. heads2[s] = IF at = 1 THEN links[c[at]] ELSE heads[s]
        BY <1>1, <1>3, <1>4 DEF heads2, HeadsWithout
    <2> QED BY <1>3, <1>a, <2>1, <2>2
<1>8. /\ IsPath(released2, n, links2)
      /\ ToSet(released2) = ToSet(released) \cup {n}
      /\ Len(released2) = Len(released) + 1
    <2> DEFINE one == <<n>>
    <2>1. one \in Seq(Node) /\ one # << >> /\ Len(one) = 1 /\ one[1] = n
        BY <1>4
    <2>2. ToSet(one) = {n}
        BY DEF ToSet
    <2>3. released2 = Prepended(one, released)
        BY DEF released2
    <2> HIDE DEF one
    <2>4. \A i, j \in 1 .. Len(one) : one[i] = one[j] => i = j
        BY <2>1
    <2>5. \A k \in 2 .. Len(one) : links2[one[k]] = one[k - 1]
        BY <2>1
    <2>6. ToSet(one) \cap ToSet(released) = {} /\ links2[one[1]] = first
        BY <1>2, <1>4, <1>5, <2>1, <2>2
    <2>7. \A m \in ToSet(released) : links2[m] = links[m]
        <3>1. \A m \in ToSet(released) : m \in Node /\ m \notin ToSet(c)
            BY <1>2, PathIsNoLongerThanStorage
        <3> QED BY <1>5, <3>1
    <2>8. IsPath(released, first, links)
        BY <1>2
    <2>9. /\ IsPath(Prepended(one, released), one[Len(one)], links2)
          /\ ToSet(Prepended(one, released)) = ToSet(one) \cup ToSet(released)
          /\ Len(Prepended(one, released)) = Len(one) + Len(released)
        BY <2>1, <2>4, <2>5, <2>6, <2>7, <2>8, PathTakesNodes
    <2>10. Len(released) \in Nat
        BY <2>8 DEF IsPath
    <2> QED BY <2>1, <2>2, <2>3, <2>9, <2>10
<1>9. links2 \in [Node -> Node \cup {Null}] /\ heads2 \in [Signal -> Node \cup {Null}]
    BY <1>1, <1>4 DEF links2, Unlinked, heads2, HeadsWithout
<1>10. \A t \in Signal : ToSet(lists2[t]) = IF t = s THEN ToSet(lists[t]) \ {n} ELSE ToSet(lists[t])
    BY <1>6, <1>7
<1>11. /\ \A t \in Signal : ToSet(lists2[t]) \cap ToSet(released2) = {}
       /\ \A t, u \in Signal : t # u => ToSet(lists2[t]) \cap ToSet(lists2[u]) = {}
       /\ \A t \in Signal : ToSet(lists2[t]) \subseteq 1 .. given
       /\ ToSet(released2) \subseteq 1 .. given
    <2>1. \A t \in Signal : t # s => n \notin ToSet(lists[t])
        BY <1>2, <1>4
    <2>2. ASSUME NEW t \in Signal PROVE ToSet(lists2[t]) \cap ToSet(released2) = {}
        <3>1. ToSet(lists[t]) \cap ToSet(released) = {}
            BY <1>2
        <3>2. ToSet(lists2[t]) \subseteq ToSet(lists[t]) /\ n \notin ToSet(lists2[t])
            BY <1>10, <2>1
        <3>3. ToSet(released2) = ToSet(released) \cup {n}
            BY <1>8
        <3> QED BY <3>1, <3>2, <3>3
    <2>3. ASSUME NEW t \in Signal, NEW u \in Signal, t # u
          PROVE  ToSet(lists2[t]) \cap ToSet(lists2[u]) = {}
        <3>1. ToSet(lists[t]) \cap ToSet(lists[u]) = {}
            BY <1>2, <2>3
        <3>2. ToSet(lists2[t]) \subseteq ToSet(lists[t]) /\ ToSet(lists2[u]) \subseteq ToSet(lists[u])
            BY <1>10
        <3> QED BY <3>1, <3>2
    <2>4. \A t \in Signal : ToSet(lists2[t]) \subseteq 1 .. given
        BY <1>2, <1>10
    <2>5. ToSet(released2) \subseteq 1 .. given
        BY <1>2, <1>4, <1>8
    <2> QED BY <2>2, <2>3, <2>4, <2>5
<1>12. AllOf(lists2, released2) = AllOf(lists, released)
    <2>1. ASSUME NEW m
          PROVE  (m \in ToSet(released2) \/ \E t \in Signal : m \in ToSet(lists2[t]))
                     <=> (m \in ToSet(released) \/ \E t \in Signal : m \in ToSet(lists[t]))
        <3>1. CASE m = n
            BY <1>4, <1>8, <3>1
        <3>2. CASE m # n
            BY <1>8, <1>10, <3>2
        <3> QED BY <3>1, <3>2
    <2>2. ASSUME NEW m PROVE m \in AllOf(lists2, released2) <=> m \in AllOf(lists, released)
        BY <2>1, AllOfHas
    <2> QED BY <2>2
<1>13. \A t \in Signal : IsPath(lists2[t], heads2[t], links2)
    BY <1>6, <1>7
<1>14. Listed(lists2, released2, links2, heads2, n, given)
    BY <1>1, <1>4, <1>8, <1>9, <1>11, <1>13 DEF Listed
<1> QED BY <1>4, <1>8, <1>12, <1>14 DEF lists2, links2, heads2, released2

(* disconnectAll: each node is linked to the one before it.                *)
Reversed(list, first, links) ==
    [m \in Node |-> IF m = Head(list) THEN first
                    ELSE IF m \in ToSet(list) THEN list[PlaceOf(list, m) - 1]
                    ELSE links[m]]

Emptied(s, heads) == [heads EXCEPT ![s] = Null]

LEMMA ListIsReleased ==
    ASSUME NEW lists, NEW released, NEW links, NEW heads, NEW first, NEW given,
           Listed(lists, released, links, heads, first, given),
           NEW s \in Signal, heads[s] # Null
    PROVE  /\ Listed(With(lists, s, << >>), Prepended(lists[s], released),
                     Reversed(lists[s], first, links), Emptied(s, heads),
                     Last(lists[s]), given)
           /\ AllOf(With(lists, s, << >>), Prepended(lists[s], released))
                  = AllOf(lists, released)
           /\ Len(Prepended(lists[s], released)) = Len(lists[s]) + Len(released)
<1> DEFINE lists2 == With(lists, s, << >>)
           links2 == Reversed(lists[s], first, links)
           heads2 == Emptied(s, heads)
           released2 == Prepended(lists[s], released)
           c == lists[s]
<1>a. /\ lists2[s] = << >>
      /\ \A t \in Signal : t # s => lists2[t] = lists[t]
    <2>1. lists2 = With(lists, s, << >>)
        OBVIOUS
    <2> HIDE DEF lists2
    <2> QED BY <2>1 DEF With
<1> HIDE DEF lists2, links2, heads2, released2
<1>1. /\ links \in [Node -> Node \cup {Null}] /\ heads \in [Signal -> Node \cup {Null}]
      /\ first \in Node \cup {Null} /\ given \in 0 .. StorageSize
    BY DEF Listed
<1>2. /\ \A t \in Signal : ToSet(lists[t]) \cap ToSet(released) = {}
      /\ \A t, u \in Signal : t # u => ToSet(lists[t]) \cap ToSet(lists[u]) = {}
      /\ \A t \in Signal : ToSet(lists[t]) \subseteq 1 .. given
      /\ ToSet(released) \subseteq 1 .. given
      /\ \A t \in Signal : IsPath(lists[t], heads[t], links)
      /\ IsPath(released, first, links)
    BY DEF Listed
<1>3. /\ c \in Seq(Node) /\ Len(c) \in Nat /\ c # << >>
      /\ \A i, j \in 1 .. Len(c) : c[i] = c[j] => i = j
      /\ Len(c) \in 1 .. Len(c) /\ Last(c) = c[Len(c)]
    BY ListedFacts
<1>4. /\ 1 \in 1 .. Len(c) /\ Head(c) = c[1] /\ c[1] \in Node /\ c[1] \in ToSet(c)
      /\ DOMAIN c = 1 .. Len(c)
    <2> HIDE DEF c
    <2>1. 1 \in 1 .. Len(c) /\ Head(c) = c[1] /\ DOMAIN c = 1 .. Len(c)
        BY <1>3
    <2> QED BY <1>3, <2>1, ElementsAreAt
<1>5. ASSUME NEW k \in 2 .. Len(c)
      PROVE  /\ k \in 1 .. Len(c) /\ k - 1 \in 1 .. Len(c) /\ c[k] \in Node /\ c[k - 1] \in Node
             /\ c[k] \in ToSet(c) /\ c[k] # c[1] /\ PlaceOf(c, c[k]) = k
    <2> HIDE DEF c
    <2>1. k \in 1 .. Len(c) /\ k - 1 \in 1 .. Len(c) /\ k # 1
        BY <1>3
    <2>2. c[k] \in Node /\ c[k - 1] \in Node /\ c[k] # c[1]
        BY <1>3, <1>4, <2>1
    <2>3. c[k] \in ToSet(c)
        BY <1>3, <2>1, ElementsAreAt
    <2>4. \A j \in DOMAIN c : c[j] = c[k] <=> j = k
        BY <1>3, <1>4, <2>1
    <2>5. PlaceOf(c, c[k]) = k
        BY <1>4, <2>1, <2>4 DEF PlaceOf
    <2> QED BY <2>1, <2>2, <2>3, <2>5
<1>6. links2 = [m \in Node |-> IF m = c[1] THEN first
                               ELSE IF m \in ToSet(c) THEN c[PlaceOf(c, m) - 1]
                               ELSE links[m]]
    BY <1>4 DEF links2, Reversed
<1>7. /\ links2[c[1]] = first
      /\ \A k \in 2 .. Len(c) : links2[c[k]] = c[k - 1]
      /\ \A m \in Node : m \notin ToSet(c) => links2[m] = links[m]
    <2> HIDE DEF c
    <2>1. links2[c[1]] = first
        BY <1>4, <1>6
    <2>2. ASSUME NEW k \in 2 .. Len(c) PROVE links2[c[k]] = c[k - 1]
        BY <1>5, <1>6
    <2>3. \A m \in Node : m \notin ToSet(c) => links2[m] = links[m]
        BY <1>4, <1>6
    <2> QED BY <2>1, <2>2, <2>3
<1>8. links2 \in [Node -> Node \cup {Null}] /\ heads2 \in [Signal -> Node \cup {Null}]
    <2>1. ASSUME NEW m \in Node PROVE links2[m] \in Node \cup {Null}
        <3> HIDE DEF c
        <3>1. CASE m \in ToSet(c)
            <4>1. PICK k \in 1 .. Len(c) : m = c[k]
                BY <1>3, <3>1, ElementsAreAt
            <4>2. CASE k = 1
                BY <1>1, <1>7, <4>1, <4>2
            <4>3. CASE k # 1
                <5>1. k \in 2 .. Len(c)
                    BY <1>3, <4>3
                <5> QED BY <1>5, <1>7, <4>1, <5>1
            <4> QED BY <4>2, <4>3
        <3>2. CASE m \notin ToSet(c)
            BY <1>1, <1>7, <3>2
        <3> QED BY <3>1, <3>2
    <2>2. links2 \in [Node -> Node \cup {Null}]
        <3> HIDE DEF c
        <3> QED BY <1>6, <2>1
    <2> QED BY <1>1, <2>2 DEF heads2, Emptied
<1>9. ASSUME NEW t \in Signal, t # s
      PROVE  IsPath(lists2[t], heads2[t], links2) /\ ToSet(lists2[t]) = ToSet(lists[t])
    <2>1. lists2[t] = lists[t] /\ heads2[t] = heads[t]
        BY <1>1, <1>9, <1>a DEF heads2, Emptied
    <2>2. \A m \in ToSet(lists[t]) : m \in Node /\ m \notin ToSet(c)
        BY <1>2, <1>9, PathIsNoLongerThanStorage
    <2>3. \A m \in ToSet(lists[t]) : links2[m] = links[m]
        BY <1>7, <2>2
    <2>4. IsPath(lists[t], heads[t], links2)
        BY <1>2, <2>3, PathStays
    <2> QED BY <2>1, <2>4
<1>10. IsPath(lists2[s], heads2[s], links2) /\ ToSet(lists2[s]) = {}
    <2>1. heads2[s] = Null
        BY <1>1 DEF heads2, Emptied
    <2> QED BY <1>a, <2>1, PathOfNone
<1>11. /\ IsPath(released2, Last(c), links2)
       /\ ToSet(released2) = ToSet(c) \cup ToSet(released)
       /\ Len(released2) = Len(c) + Len(released)
    <2>1. \A m \in ToSet(released) : links2[m] = links[m]
        <3>1. \A m \in ToSet(released) : m \in Node /\ m \notin ToSet(c)
            BY <1>2, PathIsNoLongerThanStorage
        <3> QED BY <1>7, <3>1
    <2>2. IsPath(released, first, links) /\ ToSet(c) \cap ToSet(released) = {}
        BY <1>2
    <2>3. released2 = Prepended(c, released)
        BY DEF released2
    <2> HIDE DEF c
    <2>4. /\ IsPath(Prepended(c, released), c[Len(c)], links2)
          /\ ToSet(Prepended(c, released)) = ToSet(c) \cup ToSet(released)
          /\ Len(Prepended(c, released)) = Len(c) + Len(released)
        BY <1>3, <1>7, <2>1, <2>2, PathTakesNodes
    <2> QED BY <1>3, <2>3, <2>4
<1>12. \A t \in Signal : ToSet(lists2[t]) = IF t = s THEN {} ELSE ToSet(lists[t])
    BY <1>9, <1>10
<1>13. /\ \A t \in Signal : ToSet(lists2[t]) \cap ToSet(released2) = {}
       /\ \A t, u \in Signal : t # u => ToSet(lists2[t]) \cap ToSet(lists2[u]) = {}
       /\ \A t \in Signal : ToSet(lists2[t]) \subseteq 1 .. given
       /\ ToSet(released2) \subseteq 1 .. given
    <2>1. \A t \in Signal : ToSet(lists2[t]) \cap ToSet(released2) = {}
        BY <1>2, <1>11, <1>12
    <2>2. \A t, u \in Signal : t # u => ToSet(lists2[t]) \cap ToSet(lists2[u]) = {}
        BY <1>2, <1>12
    <2>3. \A t \in Signal : ToSet(lists2[t]) \subseteq 1 .. given
        BY <1>2, <1>12
    <2>4. ToSet(released2) \subseteq 1 .. given
        BY <1>2, <1>11
    <2> QED BY <2>1, <2>2, <2>3, <2>4
<1>14. AllOf(lists2, released2) = AllOf(lists, released)
    <2>1. ASSUME NEW m
          PROVE  (m \in ToSet(released2) \/ \E t \in Signal : m \in ToSet(lists2[t]))
                     <=> (m \in ToSet(released) \/ \E t \in Signal : m \in ToSet(lists[t]))
        <3>1. CASE m \in ToSet(c)
            BY <1>11, <3>1
        <3>2. CASE m \notin ToSet(c)
            BY <1>11, <1>12, <3>2
        <3> QED BY <3>1, <3>2
    <2>2. ASSUME NEW m PROVE m \in AllOf(lists2, released2) <=> m \in AllOf(lists, released)
        BY <2>1, AllOfHas
    <2> QED BY <2>2
<1>15. \A t \in Signal : IsPath(lists2[t], heads2[t], links2)
    BY <1>9, <1>10
<1>16. Last(c) \in Node \cup {Null}
    BY <1>3
<1>17. Listed(lists2, released2, links2, heads2, Last(c), given)
    BY <1>1, <1>8, <1>11, <1>13, <1>15, <1>16 DEF Listed
<1> QED BY <1>11, <1>14, <1>17 DEF lists2, links2, heads2, released2

(* A signal dies: nobody knows its nodes any more.                         *)
LEMMA ListIsLost ==
    ASSUME NEW lists, NEW released, NEW links, NEW heads, NEW first, NEW given,
           Listed(lists, released, links, heads, first, given), NEW s \in Signal
    PROVE  Listed(With(lists, s, << >>), released, links, Emptied(s, heads), first, given)
<1> DEFINE lists2 == With(lists, s, << >>)
           heads2 == Emptied(s, heads)
<1>a. /\ lists2[s] = << >>
      /\ \A t \in Signal : t # s => lists2[t] = lists[t]
    <2>1. lists2 = With(lists, s, << >>)
        OBVIOUS
    <2> HIDE DEF lists2
    <2> QED BY <2>1 DEF With
<1> HIDE DEF lists2, heads2
<1>1. /\ links \in [Node -> Node \cup {Null}] /\ heads \in [Signal -> Node \cup {Null}]
      /\ first \in Node \cup {Null} /\ given \in 0 .. StorageSize
      /\ ToSet(released) \subseteq 1 .. given /\ IsPath(released, first, links)
    BY DEF Listed
<1>2. /\ \A t \in Signal : ToSet(lists[t]) \cap ToSet(released) = {}
      /\ \A t, u \in Signal : t # u => ToSet(lists[t]) \cap ToSet(lists[u]) = {}
      /\ \A t \in Signal : ToSet(lists[t]) \subseteq 1 .. given
      /\ \A t \in Signal : IsPath(lists[t], heads[t], links)
    BY DEF Listed
<1>3. heads2 \in [Signal -> Node \cup {Null}] /\ heads2[s] = Null
      /\ \A t \in Signal : t # s => heads2[t] = heads[t]
    BY <1>1 DEF heads2, Emptied
<1>4. \A t \in Signal : ToSet(lists2[t]) = IF t = s THEN {} ELSE ToSet(lists[t])
    BY <1>a, PathOfNone
<1>5. \A t \in Signal : IsPath(lists2[t], heads2[t], links)
    BY <1>2, <1>3, <1>a, PathOfNone
<1>6. \A t \in Signal : ToSet(lists2[t]) \cap ToSet(released) = {}
    BY <1>2, <1>4
<1>7. \A t, u \in Signal : t # u => ToSet(lists2[t]) \cap ToSet(lists2[u]) = {}
    BY <1>2, <1>4
<1>8. \A t \in Signal : ToSet(lists2[t]) \subseteq 1 .. given
    BY <1>2, <1>4
<1>9. Listed(lists2, released, links, heads2, first, given)
    BY <1>1, <1>3, <1>5, <1>6, <1>7, <1>8 DEF Listed
<1> QED BY <1>9 DEF lists2, heads2
-----------------------------------------------------------------------------
(* What becomes of a walk through a list. *)

LEMMA WalkStays ==
    ASSUME NEW e, NEW c \in Seq(Node), NEW names, NEW names2, OnItsWay(e, c, names),
           \A m \in ToSet(c) : names2[m] = names[m]
    PROVE  OnItsWay(e, c, names2)
<1>1. \A k \in 1 .. Len(c) : names2[c[k]] = names[c[k]]
    BY ElementsAreAt
<1>2. \A k, j \in Nat : k \in 1 .. Len(c) /\ j \in k + 1 .. Len(c) => j \in 1 .. Len(c)
    OBVIOUS
<1> QED BY <1>1, <1>2 DEF OnItsWay

LEMMA NamesStay ==
    ASSUME NEW c \in Seq(Node), NEW names, NEW names2, NamedOnce(c, names),
           \A m \in ToSet(c) : names2[m] = names[m]
    PROVE  NamedOnce(c, names2)
<1>1. \A k \in 1 .. Len(c) : names2[c[k]] = names[c[k]]
    BY ElementsAreAt
<1> QED BY <1>1 DEF NamedOnce

(* A slot is connected. *)
LEMMA WalkGrows ==
    ASSUME NEW e, NEW c \in Seq(Node), NEW names, OnItsWay(e, c, names),
           NEW n \in Node, NEW d, IsGrown(d, c, n)
    PROVE  OnItsWay(e, d, names)
<1>1. /\ Len(c) \in Nat /\ Len(d) = Len(c) + 1
      /\ \A k \in 1 .. Len(c) : d[k] = c[k]
    BY DEF IsGrown
<1>2. PICK k \in 1 .. Len(c) :
          /\ names[c[k]] = e.cmd
          /\ \A x \in e.owed : \E j \in k + 1 .. Len(c) : names[c[j]] = x
    BY DEF OnItsWay
<1>3. k \in 1 .. Len(d) /\ names[d[k]] = e.cmd
    BY <1>1, <1>2
<1>4. ASSUME NEW x \in e.owed PROVE \E j \in k + 1 .. Len(d) : names[d[j]] = x
    <2>1. PICK j \in k + 1 .. Len(c) : names[c[j]] = x
        BY <1>2, <1>4
    <2>2. j \in 1 .. Len(c) /\ j \in k + 1 .. Len(d)
        BY <1>1
    <2> QED BY <1>1, <2>1, <2>2
<1> QED BY <1>3, <1>4 DEF OnItsWay

LEMMA NamesGrow ==
    ASSUME NEW c \in Seq(Node), NEW names, NamedOnce(c, names),
           NEW n \in Node, NEW d, IsGrown(d, c, n),
           \A m \in ToSet(c) : names[m] # names[n]
    PROVE  NamedOnce(d, names)
<1>1. /\ Len(c) \in Nat /\ Len(d) = Len(c) + 1 /\ d[Len(c) + 1] = n
      /\ \A k \in 1 .. Len(c) : d[k] = c[k]
    BY DEF IsGrown
<1>2. \A k \in 1 .. Len(c) : names[d[k]] # names[n]
    BY <1>1, ElementsAreAt
<1>3. \A k \in 1 .. Len(d) : k \in 1 .. Len(c) \/ k = Len(c) + 1
    BY <1>1
<1> SUFFICES ASSUME NEW i \in 1 .. Len(d), NEW j \in 1 .. Len(d), names[d[i]] = names[d[j]]
             PROVE  i = j
    BY DEF NamedOnce
<1>4. CASE i \in 1 .. Len(c) /\ j \in 1 .. Len(c)
    BY <1>1, <1>4 DEF NamedOnce
<1>5. CASE i = Len(c) + 1 \/ j = Len(c) + 1
    BY <1>1, <1>2, <1>3, <1>5
<1> QED BY <1>3, <1>4, <1>5

(* Another slot is disconnected. *)
LEMMA WalkIsCut ==
    ASSUME NEW e, NEW f, NEW c \in Seq(Node), NEW names, OnItsWay(e, c, names),
           \A i, j \in 1 .. Len(c) : c[i] = c[j] => i = j,
           NEW at \in 1 .. Len(c), names[c[at]] # e.cmd,
           f.cmd = e.cmd, f.owed = e.owed \ {names[c[at]]}
    PROVE  OnItsWay(f, Cut(c, at), names)
<1> DEFINE d == Cut(c, at)
           Place(j) == IF j < at THEN j ELSE j - 1
<1>1. /\ Len(c) \in Nat /\ at \in Nat /\ Len(d) = Len(c) - 1
      /\ \A i \in 1 .. Len(c) - 1 : d[i] = IF i < at THEN c[i] ELSE c[i + 1]
    BY CutHas
<1> HIDE DEF d
<1>2. ASSUME NEW j \in 1 .. Len(c), j # at
      PROVE  Place(j) \in 1 .. Len(d) /\ d[Place(j)] = c[j]
    <2>1. CASE j < at
        <3>1. j \in 1 .. Len(c) - 1
            BY <1>1, <2>1
        <3> QED BY <1>1, <2>1, <3>1
    <2>2. CASE j > at
        <3>1. j - 1 \in 1 .. Len(c) - 1 /\ ~(j - 1 < at) /\ (j - 1) + 1 = j /\ ~(j < at)
            BY <1>1, <2>2
        <3> QED BY <1>1, <3>1
    <2> QED BY <1>1, <1>2, <2>1, <2>2
<1>3. PICK k \in 1 .. Len(c) :
          /\ names[c[k]] = e.cmd
          /\ \A x \in e.owed : \E j \in k + 1 .. Len(c) : names[c[j]] = x
    BY DEF OnItsWay
<1>4. k # at
    BY <1>3
<1>5. Place(k) \in 1 .. Len(d) /\ names[d[Place(k)]] = f.cmd
    BY <1>2, <1>3, <1>4
<1>6. ASSUME NEW x \in f.owed PROVE \E j \in Place(k) + 1 .. Len(d) : names[d[j]] = x
    <2>1. x \in e.owed /\ x # names[c[at]]
        BY <1>6
    <2>2. PICK j \in k + 1 .. Len(c) : names[c[j]] = x
        BY <1>3, <2>1
    <2>3. j \in 1 .. Len(c) /\ j # at /\ k < j
        BY <1>1, <2>1, <2>2
    <2>4. Place(j) \in 1 .. Len(d) /\ d[Place(j)] = c[j]
        BY <1>2, <2>3
    <2>5. Place(j) \in Place(k) + 1 .. Len(d)
        BY <1>1, <1>4, <2>3, <2>4
    <2> QED BY <2>2, <2>4, <2>5
<1> HIDE DEF Place
<1>7. OnItsWay(f, d, names)
    BY <1>5, <1>6 DEF OnItsWay
<1> QED BY <1>7 DEF d

LEMMA NamesAreCut ==
    ASSUME NEW c \in Seq(Node), NEW names, NamedOnce(c, names), NEW at \in 1 .. Len(c),
           \A i, j \in 1 .. Len(c) : c[i] = c[j] => i = j
    PROVE  NamedOnce(Cut(c, at), names)
<1> DEFINE d == Cut(c, at)
           Place(j) == IF j < at THEN j ELSE j + 1
<1>1. /\ Len(c) \in Nat /\ at \in Nat /\ Len(d) = Len(c) - 1
      /\ \A i \in 1 .. Len(c) - 1 : d[i] = IF i < at THEN c[i] ELSE c[i + 1]
    BY CutHas
<1> HIDE DEF d
<1>2. ASSUME NEW j \in 1 .. Len(d)
      PROVE  Place(j) \in 1 .. Len(c) /\ d[j] = c[Place(j)]
    BY <1>1
<1> SUFFICES ASSUME NEW i \in 1 .. Len(d), NEW j \in 1 .. Len(d), names[d[i]] = names[d[j]]
             PROVE  i = j
    BY DEF NamedOnce, d
<1>3. Place(i) \in 1 .. Len(c) /\ Place(j) \in 1 .. Len(c)
      /\ names[c[Place(i)]] = names[c[Place(j)]]
    BY <1>2
<1>4. Place(i) = Place(j)
    <2> HIDE DEF Place
    <2> QED BY <1>3 DEF NamedOnce
<1> QED BY <1>1, <1>4
-----------------------------------------------------------------------------
(* The invariant holds in every state: one lemma for each step.            *)

Entry == [signal : Signal, cmd : Slot \cup {NoSlot}, owed : SUBSET Slot]

(* The chains that the links lead through are the lists that were found.   *)
LEMMA ListsAreKnown ==
    ASSUME NEW L, NEW R, L = [s \in Signal |-> L[s]],
           Listed(L, R, next', m_slotList', m_releasedSlots', m_lastSlotIndex')
    PROVE  Lists' = L /\ Released' = R
<1>1. \A s \in Signal : IsPath(L[s], m_slotList'[s], next')
    BY DEF Listed
<1>2. \A s \in Signal : ChainIn(next', m_slotList'[s]) = L[s]
    BY <1>1, ChainIsThePath
<1>3. Lists' = [s \in Signal |-> ChainIn(next', m_slotList'[s])]
    BY DEF Lists, Chain
<1>4. Lists' = [s \in Signal |-> L[s]]
    BY <1>2, <1>3
<1>5. IsPath(R, m_releasedSlots', next')
    BY DEF Listed
<1>6. Released' = ChainIn(next', m_releasedSlots')
    BY DEF Released, Chain
<1>7. Released' = R
    BY <1>5, <1>6, ChainIsThePath
<1> QED BY <1>4, <1>7

LEMMA PoolFacts ==
    ASSUME PoolInv
    PROVE  /\ m_lastSlotIndex \in Nat
           /\ Released \in Seq(Node) /\ Len(Released) \in Nat
           /\ \A n \in Node : next[n] \in Node \cup {Null} /\ slot[n] \in Slot \cup {NoSlot}
           /\ \A s \in Signal :
                  /\ Chain(m_slotList[s]) = Lists[s]
                  /\ Lists[s] \in Seq(Node) /\ Len(Lists[s]) \in Nat
                  /\ \A i, j \in 1 .. Len(Lists[s]) : Lists[s][i] = Lists[s][j] => i = j
                  /\ m_slotList[s] \in Node \cup {Null}
                  /\ m_slotList[s] = Null <=> Lists[s] = << >>
                  /\ IsPath(Lists[s], m_slotList[s], next)
                  /\ ToSet(Lists[s]) \subseteq 1 .. m_lastSlotIndex
                  /\ \A n \in ToSet(Lists[s]) : n \in Node /\ slot[n] \in Slot
<1>1. Listed(Lists, Released, next, m_slotList, m_releasedSlots, m_lastSlotIndex)
    BY DEF PoolInv
<1>2. m_lastSlotIndex \in Nat /\ Released \in Seq(Node) /\ Len(Released) \in Nat
    BY <1>1, ListedFacts
<1>3. \A n \in Node : next[n] \in Node \cup {Null} /\ slot[n] \in Slot \cup {NoSlot}
    BY <1>1 DEF Listed, PoolInv
<1>4. ASSUME NEW s \in Signal
      PROVE  /\ Chain(m_slotList[s]) = Lists[s]
             /\ Lists[s] \in Seq(Node) /\ Len(Lists[s]) \in Nat
             /\ \A i, j \in 1 .. Len(Lists[s]) : Lists[s][i] = Lists[s][j] => i = j
             /\ m_slotList[s] \in Node \cup {Null}
             /\ m_slotList[s] = Null <=> Lists[s] = << >>
             /\ IsPath(Lists[s], m_slotList[s], next)
             /\ ToSet(Lists[s]) \subseteq 1 .. m_lastSlotIndex
             /\ \A n \in ToSet(Lists[s]) : n \in Node /\ slot[n] \in Slot
    <2>1. Chain(m_slotList[s]) = Lists[s]
        BY DEF Lists
    <2>2. /\ Lists[s] \in Seq(Node) /\ Len(Lists[s]) \in Nat
          /\ \A i, j \in 1 .. Len(Lists[s]) : Lists[s][i] = Lists[s][j] => i = j
          /\ m_slotList[s] = Null <=> Lists[s] = << >>
        BY <1>1, ListedFacts
    <2>3. /\ IsPath(Lists[s], m_slotList[s], next)
          /\ ToSet(Lists[s]) \subseteq 1 .. m_lastSlotIndex
          /\ m_slotList[s] \in Node \cup {Null}
        BY <1>1 DEF Listed
    <2>4. \A n \in ToSet(Lists[s]) : n \in Node
        BY <2>3, PathIsNoLongerThanStorage
    <2>5. \A n \in ToSet(Lists[s]) : slot[n] \in Slot
        BY <2>3 DEF PoolInv
    <2> QED BY <2>1, <2>2, <2>3, <2>4, <2>5
<1> QED BY <1>2, <1>3, <1>4

LEMMA StackFacts ==
    ASSUME StackInv
    PROVE  /\ stack \in Seq(Entry) /\ Len(stack) \in Nat /\ DOMAIN stack = 1 .. Len(stack)
           /\ \A i \in 1 .. Len(stack) :
                  /\ stack[i] \in Entry /\ stack[i].signal \in Signal
                  /\ stack[i].owed \subseteq Slot
           /\ stack # << >> => /\ Len(stack) \in 1 .. Len(stack)
                               /\ Last(stack) = stack[Len(stack)]
           /\ \A s : Running(s) <=> \E i \in 1 .. Len(stack) : stack[i].signal = s
<1>1. stack \in Seq(Entry) /\ Len(stack) \in Nat /\ DOMAIN stack = 1 .. Len(stack)
    BY DEF StackInv, Entry
<1>2. ASSUME NEW i \in 1 .. Len(stack)
      PROVE  stack[i] \in Entry /\ stack[i].signal \in Signal /\ stack[i].owed \subseteq Slot
    <2>1. stack[i] \in Entry
        BY <1>1
    <2> QED BY <2>1 DEF Entry
<1>3. stack # << >> => Len(stack) \in 1 .. Len(stack) /\ Last(stack) = stack[Len(stack)]
    <2>1. stack # << >> => Len(stack) >= 1
        BY <1>1, EmptySeq
    <2> QED BY <1>1, <2>1 DEF Last
<1>4. \A s : Running(s) <=> \E i \in 1 .. Len(stack) : stack[i].signal = s
    BY <1>1 DEF Running
<1> QED BY <1>1, <1>2, <1>3, <1>4

(* A step that leaves the signals of the activations and their cursors.    *)
LEMMA WalkersStay ==
    ASSUME StackInv, CursorInv, stack' \in Seq(Entry), Len(stack') = Len(stack),
           \A i \in 1 .. Len(stack) : stack'[i].signal = stack[i].signal,
           UNCHANGED <<m_lastGetSlot, m_data, faulted, allowed>>
    PROVE  StackInv' /\ CursorInv'
<1>1. StackInv'
    BY DEF StackInv, Entry
<1>2. CursorInv'
    BY DEF CursorInv
<1> QED BY <1>1, <1>2

LEMMA ForgivenFacts ==
    ASSUME StackInv, NEW s, NEW gone, Forgive(s, gone)
    PROVE  /\ stack' \in Seq(Entry) /\ Len(stack') = Len(stack)
           /\ \A i \in 1 .. Len(stack) :
                  /\ stack'[i].signal = stack[i].signal /\ stack'[i].cmd = stack[i].cmd
                  /\ stack[i].signal # s => stack'[i] = stack[i]
                  /\ stack[i].signal = s => stack'[i].owed = stack[i].owed \ gone
<1> DEFINE New(i) == IF stack[i].signal = s THEN [stack[i] EXCEPT !.owed = @ \ gone] ELSE stack[i]
<1>1. /\ stack \in Seq(Entry) /\ Len(stack) \in Nat /\ DOMAIN stack = 1 .. Len(stack)
      /\ \A i \in 1 .. Len(stack) : stack[i] \in Entry
    BY StackFacts
<1>2. stack' = [i \in 1 .. Len(stack) |-> New(i)]
    BY <1>1 DEF Forgive
<1>3. ASSUME NEW i \in 1 .. Len(stack)
      PROVE  /\ New(i) \in Entry
             /\ New(i).signal = stack[i].signal /\ New(i).cmd = stack[i].cmd
             /\ stack[i].signal # s => New(i) = stack[i]
             /\ stack[i].signal = s => New(i).owed = stack[i].owed \ gone
    <2>1. stack[i] \in Entry
        BY <1>1
    <2> QED BY <2>1 DEF Entry
<1> HIDE DEF New
<1>4. stack' \in [1 .. Len(stack) -> Entry] /\ \A i \in 1 .. Len(stack) : stack'[i] = New(i)
    BY <1>2, <1>3
<1>5. stack' \in Seq(Entry) /\ Len(stack') = Len(stack)
    BY <1>1, <1>4
<1> QED BY <1>3, <1>4, <1>5

LEMMA ConnectKeeps ==
    ASSUME IInv, NEW s \in Signal, NEW x \in Slot, Connect(s, x), UNCHANGED allowed
    PROVE  /\ IInv'
           /\ \E n \in Node : /\ \A t \in Signal : n \notin ToSet(Lists[t])
                              /\ Lists' = With(Lists, s, Append(Lists[s], n))
                              /\ slot' = [slot EXCEPT ![n] = x]
<1> DEFINE c == Lists[s]
           n == NodeToGive
           L == With(Lists, s, Append(c, n))
           R == IF m_releasedSlots # Null THEN Cut(Released, 1) ELSE Released
           given == IF m_releasedSlots # Null THEN m_lastSlotIndex ELSE n
<1>1. PoolInv /\ StackInv /\ CursorInv /\ WalkInv
    BY DEF IInv
<1>2. /\ Listed(Lists, Released, next, m_slotList, m_releasedSlots, m_lastSlotIndex)
      /\ slotsInUse \in Nat /\ slotsInUse + Len(Released) = m_lastSlotIndex
      /\ slot \in [Node -> Slot \cup {NoSlot}]
      /\ \A m \in 1 .. m_lastSlotIndex : slot[m] \in Slot
      /\ \A t \in Signal : NamedOnce(Lists[t], slot)
      /\ "die" \notin allowed => AllOf(Lists, Released) = 1 .. m_lastSlotIndex
    BY <1>1 DEF PoolInv
<1>3. c = Chain(m_slotList[s]) /\ c \in Seq(Node)
    BY <1>1, PoolFacts
<1>4. n = FirstFree(m_releasedSlots, m_lastSlotIndex) /\ n # Null
    BY DEF NodeToGive, FirstFree, Connect
<1>5. /\ next' = LinkedBehind(n, c, next)
      /\ m_slotList' = HeadsWith(n, s, m_slotList)
      /\ m_releasedSlots' = IF m_releasedSlots # Null THEN next[n] ELSE m_releasedSlots
      /\ m_lastSlotIndex' = given
      /\ slot' = [slot EXCEPT ![n] = x] /\ slotsInUse' = slotsInUse + 1
      /\ \A m \in ToSet(c) : slot[m] # x
      /\ UNCHANGED <<m_lastGetSlot, m_data, stack, faulted>>
    <2> HIDE DEF c, n
    <2>1. /\ next' = [m \in Node |-> IF m = n THEN Null
                                     ELSE IF c # << >> /\ m = Last(c) THEN n
                                     ELSE next[m]]
          /\ m_slotList' = IF m_slotList[s] # Null THEN m_slotList
                           ELSE [m_slotList EXCEPT ![s] = n]
          /\ \A m \in ToSet(c) : slot[m] # x
        BY <1>3 DEF Connect, IsConnected, IsConnectedTo, n
    <2>2. /\ m_releasedSlots' = IF m_releasedSlots # Null THEN next[n] ELSE m_releasedSlots
          /\ m_lastSlotIndex' = given
          /\ slot' = [slot EXCEPT ![n] = x] /\ slotsInUse' = slotsInUse + 1
          /\ UNCHANGED <<m_lastGetSlot, m_data, stack, faulted>>
        BY DEF Connect, n
    <2> QED BY <2>1, <2>2 DEF LinkedBehind, HeadsWith
<1> HIDE DEF n
<1>6. /\ Listed(L, R, next', m_slotList', m_releasedSlots', m_lastSlotIndex')
      /\ n \in Node /\ n \in 1 .. given
      /\ 1 .. given = (1 .. m_lastSlotIndex) \cup {n}
      /\ \A t \in Signal : n \notin ToSet(Lists[t])
      /\ AllOf(L, R) = AllOf(Lists, Released) \cup {n}
      /\ given - Len(R) = m_lastSlotIndex - Len(Released) + 1
    <2> DEFINE links2 == LinkedBehind(n, Lists[s], next)
               heads2 == HeadsWith(n, s, m_slotList)
               first2 == IF m_releasedSlots # Null THEN next[n] ELSE m_releasedSlots
    <2>1. R = (IF m_releasedSlots # Null THEN Cut(Released, 1) ELSE Released)
        OBVIOUS
    <2>2. given = (IF m_releasedSlots # Null THEN m_lastSlotIndex ELSE n)
        OBVIOUS
    <2> HIDE DEF R, given
    <2>3. /\ Listed(With(Lists, s, Append(Lists[s], n)), R, links2, heads2, first2, given)
          /\ n \in Node /\ n \in 1 .. given
          /\ 1 .. given = (1 .. m_lastSlotIndex) \cup {n}
          /\ \A t \in Signal : n \notin ToSet(Lists[t])
          /\ AllOf(With(Lists, s, Append(Lists[s], n)), R) = AllOf(Lists, Released) \cup {n}
          /\ given - Len(R) = m_lastSlotIndex - Len(Released) + 1
        BY <1>2, <1>4, <2>1, <2>2, NodeIsAppended
    <2> QED BY <1>5, <2>3
<1>7. /\ L[s] = Append(c, n) /\ \A t \in Signal : t # s => L[t] = Lists[t]
      /\ L = [t \in Signal |-> L[t]]
    BY DEF With
<1> HIDE DEF L, R, given
<1>8. Lists' = L /\ Released' = R
    BY <1>6, <1>7, ListsAreKnown
<1>9. /\ slot' \in [Node -> Slot \cup {NoSlot}] /\ slot'[n] = x
      /\ \A m \in Node : m # n => slot'[m] = slot[m]
    BY <1>2, <1>5, <1>6
<1>10. ASSUME NEW t \in Signal
       PROVE  /\ Lists[t] \in Seq(Node) /\ n \notin ToSet(Lists[t])
              /\ \A m \in ToSet(Lists[t]) : m \in Node /\ slot'[m] = slot[m]
    <2>1. Lists[t] \in Seq(Node) /\ \A m \in ToSet(Lists[t]) : m \in Node
        BY <1>1, PoolFacts
    <2>2. n \notin ToSet(Lists[t])
        BY <1>6
    <2> QED BY <1>9, <2>1, <2>2
<1>11. IsGrown(L[s], c, n)
    BY <1>7 DEF IsGrown
<1>12. PoolInv'
    <2>1. Listed(Lists', Released', next', m_slotList', m_releasedSlots', m_lastSlotIndex')
        BY <1>6, <1>8
    <2>2. slotsInUse' \in Nat /\ slotsInUse' + Len(Released') = m_lastSlotIndex'
        <3>1. Len(R) \in Nat /\ given \in Nat
            BY <1>5, <1>6, ListedFacts
        <3>2. Len(Released) \in Nat /\ m_lastSlotIndex \in Nat
            BY <1>1, PoolFacts
        <3> QED BY <1>2, <1>5, <1>6, <1>8, <3>1, <3>2
    <2>3. ASSUME NEW m \in 1 .. m_lastSlotIndex' PROVE slot'[m] \in Slot
        <3>1. m = n \/ m \in 1 .. m_lastSlotIndex
            BY <1>5, <1>6
        <3>2. m \in Node
            <4>1. m_lastSlotIndex' \in 0 .. StorageSize
                BY <1>6 DEF Listed
            <4> QED BY <4>1, StorageSizeAssumption DEF Node
        <3> QED BY <1>2, <1>9, <3>1, <3>2
    <2>4. ASSUME NEW t \in Signal PROVE NamedOnce(Lists'[t], slot')
        <3>1. NamedOnce(Lists[t], slot')
            BY <1>2, <1>10, NamesStay
        <3>2. CASE t = s
            <4>1. \A m \in ToSet(c) : slot'[m] # slot'[n]
                BY <1>5, <1>9, <1>10
            <4>2. NamedOnce(c, slot')
                BY <3>1, <3>2
            <4> HIDE DEF c
            <4>3. NamedOnce(L[s], slot')
                BY <1>3, <1>6, <1>11, <4>1, <4>2, NamesGrow
            <4> QED BY <1>8, <3>2, <4>3
        <3>3. CASE t # s
            BY <1>7, <1>8, <3>1, <3>3
        <3> QED BY <3>2, <3>3
    <2>5. "die" \notin allowed' => AllOf(Lists', Released') = 1 .. m_lastSlotIndex'
        BY <1>2, <1>5, <1>6, <1>8
    <2> QED BY <1>9, <2>1, <2>2, <2>3, <2>4, <2>5 DEF PoolInv
<1>13. StackInv' /\ CursorInv'
    <2>1. stack \in Seq(Entry)
        BY <1>1, StackFacts
    <2> QED BY <1>1, <1>5, <2>1, WalkersStay
<1>14. WalkInv'
    <2> SUFFICES ASSUME "disconnectRunning" \notin allowed, NEW i \in 1 .. Len(stack)
                 PROVE  LET t == stack[i].signal
                        IN  /\ OnItsWay(stack[i], L[t], slot')
                            /\ (\A j \in i + 1 .. Len(stack) : stack[j].signal # t) =>
                                   \/ m_lastGetSlot[t] = Null
                                   \/ /\ m_lastGetSlot[t] \in ToSet(L[t])
                                      /\ slot'[m_lastGetSlot[t]] = stack[i].cmd
        BY <1>5, <1>8 DEF WalkInv
    <2> DEFINE t == stack[i].signal
    <2>1. t \in Signal
        BY <1>1, StackFacts
    <2>2. /\ OnItsWay(stack[i], Lists[t], slot)
          /\ (\A j \in i + 1 .. Len(stack) : stack[j].signal # t) =>
                 \/ m_lastGetSlot[t] = Null
                 \/ /\ m_lastGetSlot[t] \in ToSet(Lists[t])
                    /\ slot[m_lastGetSlot[t]] = stack[i].cmd
        BY <1>1 DEF WalkInv
    <2> HIDE DEF t
    <2>3. OnItsWay(stack[i], Lists[t], slot')
        BY <1>10, <2>1, <2>2, WalkStays
    <2>4. OnItsWay(stack[i], L[t], slot')
        <3>1. CASE t = s
            <4>1. OnItsWay(stack[i], c, slot')
                BY <2>3, <3>1
            <4> HIDE DEF c
            <4>2. OnItsWay(stack[i], L[s], slot')
                BY <1>3, <1>6, <1>11, <4>1, WalkGrows
            <4> QED BY <3>1, <4>2
        <3>2. CASE t # s
            BY <1>7, <2>1, <2>3, <3>2
        <3> QED BY <3>1, <3>2
    <2>5. ToSet(Lists[t]) \subseteq ToSet(L[t])
        <3>1. CASE t = s
            BY <1>3, <1>6, <1>11, <3>1, GrownHas
        <3>2. CASE t # s
            BY <1>7, <2>1, <3>2
        <3> QED BY <3>1, <3>2
    <2> QED BY <1>10, <2>1, <2>2, <2>4, <2>5 DEF t
<1>15. IInv'
    BY <1>12, <1>13, <1>14 DEF IInv
<1>16. Lists' = With(Lists, s, Append(Lists[s], n))
    BY <1>8 DEF L
<1> QED BY <1>5, <1>6, <1>15, <1>16

LEMMA DisconnectKeeps ==
    ASSUME IInv, NEW s \in Signal, NEW x \in Slot, Disconnect(s, x), UNCHANGED allowed
    PROVE  /\ IInv'
           /\ \E k \in 1 .. Len(Lists[s]) : /\ slot[Lists[s][k]] = x
                                            /\ Lists' = With(Lists, s, Cut(Lists[s], k))
<1> DEFINE c == Lists[s]
           at == CHOOSE k \in DOMAIN Chain(m_slotList[s]) : slot[Chain(m_slotList[s])[k]] = x
           n == Chain(m_slotList[s])[at]
           L == With(Lists, s, Cut(c, at))
           R == Prepended(<<n>>, Released)
<1>1. PoolInv /\ StackInv /\ CursorInv /\ WalkInv
    BY DEF IInv
<1>2. /\ Listed(Lists, Released, next, m_slotList, m_releasedSlots, m_lastSlotIndex)
      /\ slotsInUse \in Nat /\ slotsInUse + Len(Released) = m_lastSlotIndex
      /\ slot \in [Node -> Slot \cup {NoSlot}]
      /\ \A m \in 1 .. m_lastSlotIndex : slot[m] \in Slot
      /\ \A t \in Signal : NamedOnce(Lists[t], slot)
      /\ "die" \notin allowed => AllOf(Lists, Released) = 1 .. m_lastSlotIndex
    BY <1>1 DEF PoolInv
<1>3. /\ c = Chain(m_slotList[s]) /\ c \in Seq(Node) /\ Len(c) \in Nat
      /\ \A i, j \in 1 .. Len(c) : c[i] = c[j] => i = j
    BY <1>1, PoolFacts
<1>4. at \in 1 .. Len(c) /\ slot[c[at]] = x /\ n = c[at]
    <2>1. \E m \in ToSet(Chain(m_slotList[s])) : slot[m] = x
        BY DEF Disconnect, IsConnectedTo
    <2> DEFINE d == Chain(m_slotList[s])
    <2>2. d \in Seq(Node) /\ d = c /\ DOMAIN d = 1 .. Len(d)
        BY <1>3
    <2> HIDE DEF c
    <2>3. \E k \in DOMAIN d : slot[d[k]] = x
        <3> HIDE DEF d
        <3> QED BY <2>1, <2>2, ElementsAreAt DEF d
    <2>4. at \in DOMAIN d /\ slot[d[at]] = x
        BY <2>3
    <2> QED BY <2>2, <2>4
<1>5. /\ next' = Unlinked(at, c, m_releasedSlots, next)
      /\ m_slotList' = HeadsWithout(at, next[n], s, m_slotList)
      /\ m_releasedSlots' = n /\ slotsInUse' = Lowered(slotsInUse, 1)
      /\ Forgive(s, {x})
      /\ "disconnectRunning" \in allowed
            \/ \A i \in DOMAIN stack : stack[i].signal = s => stack[i].cmd # x
      /\ UNCHANGED <<slot, m_lastSlotIndex, m_lastGetSlot, m_data, faulted>>
    <2> HIDE DEF c
    <2>1. /\ next' = [m \in Node |-> IF m = n THEN m_releasedSlots
                                     ELSE IF at > 1 /\ m = Chain(m_slotList[s])[at - 1] THEN next[n]
                                     ELSE next[m]]
          /\ m_slotList' = IF at = 1 THEN [m_slotList EXCEPT ![s] = next[n]] ELSE m_slotList
          /\ m_releasedSlots' = n /\ slotsInUse' = Lowered(slotsInUse, 1)
          /\ Forgive(s, {x})
          /\ "disconnectRunning" \in allowed
                \/ \A i \in DOMAIN stack : stack[i].signal = s => stack[i].cmd # x
          /\ UNCHANGED <<slot, m_lastSlotIndex, m_lastGetSlot, m_data, faulted>>
        BY DEF Disconnect
    <2> HIDE DEF at, n
    <2>2. next' = Unlinked(at, c, m_releasedSlots, next)
        BY <1>3, <1>4, <2>1 DEF Unlinked
    <2> QED BY <2>1, <2>2 DEF HeadsWithout
<1> HIDE DEF n, at
<1>6. /\ Listed(L, R, next', m_slotList', m_releasedSlots', m_lastSlotIndex')
      /\ AllOf(L, R) = AllOf(Lists, Released)
      /\ Len(R) = Len(Released) + 1
      /\ n \in Node
    <2> DEFINE links2 == Unlinked(at, Lists[s], m_releasedSlots, next)
               heads2 == HeadsWithout(at, next[n], s, m_slotList)
    <2>1. at \in 1 .. Len(Lists[s]) /\ n = Lists[s][at]
        BY <1>4
    <2>2. /\ Listed(With(Lists, s, Cut(Lists[s], at)), Prepended(<<n>>, Released),
                    links2, heads2, n, m_lastSlotIndex)
          /\ AllOf(With(Lists, s, Cut(Lists[s], at)), Prepended(<<n>>, Released))
                 = AllOf(Lists, Released)
          /\ Len(Prepended(<<n>>, Released)) = Len(Released) + 1
          /\ n \in Node
        BY <1>2, <2>1, NodeIsUnlinked
    <2> QED BY <1>5, <2>2
<1>7. /\ L[s] = Cut(c, at) /\ \A t \in Signal : t # s => L[t] = Lists[t]
      /\ L = [t \in Signal |-> L[t]]
    BY DEF With
<1> HIDE DEF L, R
<1>8. Lists' = L /\ Released' = R
    BY <1>6, <1>7, ListsAreKnown
<1>9. /\ slotsInUse' = slotsInUse - 1 /\ slotsInUse - 1 \in Nat
    <2>1. Len(c) + Len(Released) <= m_lastSlotIndex
        BY <1>2, ListsAreCounted
    <2>2. Len(Released) \in Nat /\ m_lastSlotIndex \in Nat /\ Len(c) >= 1
        BY <1>1, <1>3, <1>4, PoolFacts
    <2>3. slotsInUse >= 1
        BY <1>2, <1>3, <2>1, <2>2
    <2> QED BY <1>2, <1>5, <2>3 DEF Lowered
<1>10. PoolInv'
    <2>1. Listed(Lists', Released', next', m_slotList', m_releasedSlots', m_lastSlotIndex')
        BY <1>6, <1>8
    <2>2. slotsInUse' \in Nat /\ slotsInUse' + Len(Released') = m_lastSlotIndex'
        <3>1. Len(Released) \in Nat /\ m_lastSlotIndex \in Nat
            BY <1>1, PoolFacts
        <3> QED BY <1>2, <1>5, <1>6, <1>8, <1>9, <3>1
    <2>3. ASSUME NEW t \in Signal PROVE NamedOnce(Lists'[t], slot')
        <3>1. CASE t = s
            <4>1. NamedOnce(c, slot)
                BY <1>2
            <4> HIDE DEF c
            <4>2. NamedOnce(Cut(c, at), slot)
                BY <1>3, <1>4, <4>1, NamesAreCut
            <4> QED BY <1>5, <1>7, <1>8, <3>1, <4>2
        <3>2. CASE t # s
            BY <1>2, <1>5, <1>7, <1>8, <3>2
        <3> QED BY <3>1, <3>2
    <2>4. "die" \notin allowed' => AllOf(Lists', Released') = 1 .. m_lastSlotIndex'
        BY <1>2, <1>5, <1>6, <1>8
    <2>5. slot' \in [Node -> Slot \cup {NoSlot}] /\ \A m \in 1 .. m_lastSlotIndex' : slot'[m] \in Slot
        BY <1>2, <1>5
    <2> QED BY <2>1, <2>2, <2>3, <2>4, <2>5 DEF PoolInv
<1>11. /\ stack' \in Seq(Entry) /\ Len(stack') = Len(stack)
       /\ \A i \in 1 .. Len(stack) :
              /\ stack'[i].signal = stack[i].signal /\ stack'[i].cmd = stack[i].cmd
              /\ stack[i].signal # s => stack'[i] = stack[i]
              /\ stack[i].signal = s => stack'[i].owed = stack[i].owed \ {x}
    BY <1>1, <1>5, ForgivenFacts
<1>12. StackInv' /\ CursorInv'
    BY <1>1, <1>5, <1>11, WalkersStay
<1>13. WalkInv'
    <2> SUFFICES ASSUME "disconnectRunning" \notin allowed, NEW i \in 1 .. Len(stack)
                 PROVE  LET t == stack'[i].signal
                        IN  /\ OnItsWay(stack'[i], L[t], slot)
                            /\ (\A j \in i + 1 .. Len(stack) : stack'[j].signal # t) =>
                                   \/ m_lastGetSlot[t] = Null
                                   \/ /\ m_lastGetSlot[t] \in ToSet(L[t])
                                      /\ slot[m_lastGetSlot[t]] = stack'[i].cmd
        BY <1>5, <1>8, <1>11 DEF WalkInv
    <2> DEFINE t == stack[i].signal
    <2>1. /\ t \in Signal /\ Len(stack) \in Nat /\ DOMAIN stack = 1 .. Len(stack)
          /\ \A j \in i + 1 .. Len(stack) : j \in 1 .. Len(stack)
        BY <1>1, StackFacts
    <2>2. /\ OnItsWay(stack[i], Lists[t], slot)
          /\ (\A j \in i + 1 .. Len(stack) : stack[j].signal # t) =>
                 \/ m_lastGetSlot[t] = Null
                 \/ /\ m_lastGetSlot[t] \in ToSet(Lists[t])
                    /\ slot[m_lastGetSlot[t]] = stack[i].cmd
        BY <1>1 DEF WalkInv
    <2>3. /\ stack'[i].signal = t /\ stack'[i].cmd = stack[i].cmd
          /\ \A j \in i + 1 .. Len(stack) : stack'[j].signal = stack[j].signal
          /\ t # s => stack'[i] = stack[i]
          /\ t = s => stack'[i].owed = stack[i].owed \ {x} /\ stack[i].cmd # x
        BY <1>5, <1>11, <2>1
    <2> HIDE DEF t
    <2>4. CASE t = s
        <3> HIDE DEF c
        <3>1. OnItsWay(stack[i], c, slot)
            BY <2>2, <2>4 DEF c
        <3>2. slot[c[at]] # stack[i].cmd /\ stack'[i].owed = stack[i].owed \ {slot[c[at]]}
            BY <1>4, <2>3, <2>4
        <3>3. OnItsWay(stack'[i], Cut(c, at), slot)
            BY <1>3, <1>4, <2>3, <3>1, <3>2, WalkIsCut
        <3>4. ToSet(L[s]) = ToSet(c) \ {c[at]}
            BY <1>3, <1>4, <1>7, CutHas
        <3>5. /\ (\A j \in i + 1 .. Len(stack) : stack'[j].signal # t) =>
                     \/ m_lastGetSlot[t] = Null
                     \/ /\ m_lastGetSlot[t] \in ToSet(c) \ {c[at]}
                        /\ slot[m_lastGetSlot[t]] = stack'[i].cmd
            BY <2>2, <2>3, <2>4, <3>2 DEF c
        <3> QED BY <1>7, <2>3, <2>4, <3>3, <3>4, <3>5
    <2>5. CASE t # s
        BY <1>7, <2>1, <2>2, <2>3, <2>5
    <2> QED BY <2>4, <2>5
<1>14. IInv'
    BY <1>10, <1>12, <1>13 DEF IInv
<1>15. Lists' = With(Lists, s, Cut(Lists[s], at))
    BY <1>8 DEF L
<1> QED BY <1>4, <1>14, <1>15

LEMMA DisconnectAllKeeps ==
    ASSUME IInv, NEW s \in Signal, DisconnectAll(s), UNCHANGED allowed
    PROVE  IInv' /\ Lists' = With(Lists, s, << >>)
<1> DEFINE c == Lists[s]
           L == With(Lists, s, << >>)
           R == Prepended(c, Released)
<1>1. PoolInv /\ StackInv /\ CursorInv /\ WalkInv
    BY DEF IInv
<1>2. /\ Listed(Lists, Released, next, m_slotList, m_releasedSlots, m_lastSlotIndex)
      /\ slotsInUse \in Nat /\ slotsInUse + Len(Released) = m_lastSlotIndex
      /\ slot \in [Node -> Slot \cup {NoSlot}]
      /\ \A m \in 1 .. m_lastSlotIndex : slot[m] \in Slot
      /\ \A t \in Signal : NamedOnce(Lists[t], slot)
      /\ "die" \notin allowed => AllOf(Lists, Released) = 1 .. m_lastSlotIndex
    BY <1>1 DEF PoolInv
<1>3. c = Chain(m_slotList[s]) /\ c \in Seq(Node) /\ Len(c) \in Nat
    BY <1>1, PoolFacts
<1>4. /\ next' = Reversed(c, m_releasedSlots, next)
      /\ m_slotList' = Emptied(s, m_slotList)
      /\ m_releasedSlots' = Last(c) /\ slotsInUse' = Lowered(slotsInUse, Len(c))
      /\ Forgive(s, Slot)
      /\ m_slotList[s] # Null
      /\ "disconnectRunning" \in allowed \/ ~Running(s)
      /\ UNCHANGED <<slot, m_lastSlotIndex, m_lastGetSlot, m_data, faulted>>
    <2> HIDE DEF c
    <2> QED BY <1>3 DEF DisconnectAll, Reversed, Emptied, IsConnected
<1>5. /\ Listed(L, R, next', m_slotList', m_releasedSlots', m_lastSlotIndex')
      /\ AllOf(L, R) = AllOf(Lists, Released)
      /\ Len(R) = Len(c) + Len(Released)
    <2> DEFINE links2 == Reversed(Lists[s], m_releasedSlots, next)
               heads2 == Emptied(s, m_slotList)
    <2>1. /\ Listed(With(Lists, s, << >>), Prepended(Lists[s], Released), links2, heads2,
                    Last(Lists[s]), m_lastSlotIndex)
          /\ AllOf(With(Lists, s, << >>), Prepended(Lists[s], Released)) = AllOf(Lists, Released)
          /\ Len(Prepended(Lists[s], Released)) = Len(Lists[s]) + Len(Released)
        BY <1>2, <1>4, ListIsReleased
    <2> QED BY <1>4, <2>1
<1>6. /\ L[s] = << >> /\ \A t \in Signal : t # s => L[t] = Lists[t]
      /\ L = [t \in Signal |-> L[t]]
    BY DEF With
<1> HIDE DEF L, R
<1>7. Lists' = L /\ Released' = R
    BY <1>5, <1>6, ListsAreKnown
<1>8. slotsInUse' = slotsInUse - Len(c) /\ slotsInUse - Len(c) \in Nat
    <2>1. Len(c) + Len(Released) <= m_lastSlotIndex
        BY <1>2, ListsAreCounted
    <2>2. Len(Released) \in Nat /\ m_lastSlotIndex \in Nat
        BY <1>1, PoolFacts
    <2> HIDE DEF c
    <2>3. slotsInUse \in Nat /\ slotsInUse + Len(Released) = m_lastSlotIndex
        BY <1>2
    <2>4. Len(c) \in Nat
        BY <1>3
    <2>5. slotsInUse >= Len(c)
        BY <2>1, <2>2, <2>3, <2>4
    <2>6. slotsInUse' = IF slotsInUse > Len(c) THEN slotsInUse - Len(c) ELSE 0
        BY <1>4 DEF Lowered
    <2> QED BY <2>3, <2>4, <2>5, <2>6
<1>9. PoolInv'
    <2>1. Listed(Lists', Released', next', m_slotList', m_releasedSlots', m_lastSlotIndex')
        BY <1>5, <1>7
    <2>2. slotsInUse' \in Nat /\ slotsInUse' + Len(Released') = m_lastSlotIndex'
        <3>1. Len(Released) \in Nat /\ m_lastSlotIndex \in Nat
            BY <1>1, PoolFacts
        <3> HIDE DEF c
        <3> QED BY <1>2, <1>3, <1>4, <1>5, <1>7, <1>8, <3>1
    <2>3. ASSUME NEW t \in Signal PROVE NamedOnce(Lists'[t], slot')
        <3>1. CASE t = s
            <4>1. \A i : i \notin 1 .. Len(<< >>)
                OBVIOUS
            <4>2. NamedOnce(<< >>, slot')
                BY <4>1 DEF NamedOnce
            <4> QED BY <1>6, <1>7, <3>1, <4>2
        <3>2. CASE t # s
            BY <1>2, <1>4, <1>6, <1>7, <3>2
        <3> QED BY <3>1, <3>2
    <2>4. "die" \notin allowed' => AllOf(Lists', Released') = 1 .. m_lastSlotIndex'
        BY <1>2, <1>4, <1>5, <1>7
    <2>5. slot' \in [Node -> Slot \cup {NoSlot}] /\ \A m \in 1 .. m_lastSlotIndex' : slot'[m] \in Slot
        BY <1>2, <1>4
    <2> QED BY <2>1, <2>2, <2>3, <2>4, <2>5 DEF PoolInv
<1>10. /\ stack' \in Seq(Entry) /\ Len(stack') = Len(stack)
       /\ \A i \in 1 .. Len(stack) :
              /\ stack'[i].signal = stack[i].signal
              /\ stack[i].signal # s => stack'[i] = stack[i]
    BY <1>1, <1>4, ForgivenFacts
<1>11. StackInv' /\ CursorInv'
    BY <1>1, <1>4, <1>10, WalkersStay
<1>12. WalkInv'
    <2> SUFFICES ASSUME "disconnectRunning" \notin allowed PROVE WalkInv'
        BY DEF WalkInv
    <2>1. \A i \in 1 .. Len(stack) : stack[i].signal # s /\ stack[i].signal \in Signal
        BY <1>1, <1>4, StackFacts
    <2>2. \A i \in 1 .. Len(stack) : \A j \in i + 1 .. Len(stack) : j \in 1 .. Len(stack)
        BY <1>1, StackFacts
    <2>3. \A i \in 1 .. Len(stack) : stack'[i] = stack[i] /\ L[stack[i].signal] = Lists[stack[i].signal]
        BY <1>6, <1>10, <2>1
    <2> QED BY <1>1, <1>4, <1>7, <1>10, <2>2, <2>3 DEF WalkInv
<1>13. IInv'
    BY <1>9, <1>11, <1>12 DEF IInv
<1> QED BY <1>7, <1>13 DEF L

LEMMA DieKeeps ==
    ASSUME IInv, NEW s \in Signal, Die(s), UNCHANGED allowed
    PROVE  IInv'
<1> DEFINE L == With(Lists, s, << >>)
<1>1. PoolInv /\ StackInv /\ CursorInv /\ WalkInv
    BY DEF IInv
<1>2. /\ Listed(Lists, Released, next, m_slotList, m_releasedSlots, m_lastSlotIndex)
      /\ slotsInUse \in Nat /\ slotsInUse + Len(Released) = m_lastSlotIndex
      /\ slot \in [Node -> Slot \cup {NoSlot}]
      /\ \A m \in 1 .. m_lastSlotIndex : slot[m] \in Slot
      /\ \A t \in Signal : NamedOnce(Lists[t], slot)
    BY <1>1 DEF PoolInv
<1>3. /\ "die" \in allowed /\ ~Running(s)
      /\ m_slotList' = Emptied(s, m_slotList)
      /\ m_lastGetSlot' = [m_lastGetSlot EXCEPT ![s] = Null]
      /\ UNCHANGED <<slot, next, m_lastSlotIndex, m_releasedSlots, slotsInUse>>
      /\ UNCHANGED <<m_data, stack, faulted>>
    BY DEF Die, Emptied, storage
<1>4. Listed(L, Released, next', m_slotList', m_releasedSlots', m_lastSlotIndex')
    BY <1>2, <1>3, ListIsLost
<1>5. /\ L[s] = << >> /\ \A t \in Signal : t # s => L[t] = Lists[t]
      /\ L = [t \in Signal |-> L[t]]
    BY DEF With
<1> HIDE DEF L
<1>6. Lists' = L /\ Released' = Released
    BY <1>4, <1>5, ListsAreKnown
<1>7. PoolInv'
    <2>1. Listed(Lists', Released', next', m_slotList', m_releasedSlots', m_lastSlotIndex')
        BY <1>4, <1>6
    <2>2. slotsInUse' \in Nat /\ slotsInUse' + Len(Released') = m_lastSlotIndex'
        BY <1>2, <1>3, <1>6
    <2>3. ASSUME NEW t \in Signal PROVE NamedOnce(Lists'[t], slot')
        <3>1. CASE t = s
            <4>1. \A i : i \notin 1 .. Len(<< >>)
                OBVIOUS
            <4>2. NamedOnce(<< >>, slot')
                BY <4>1 DEF NamedOnce
            <4> QED BY <1>5, <1>6, <3>1, <4>2
        <3>2. CASE t # s
            BY <1>2, <1>3, <1>5, <1>6, <3>2
        <3> QED BY <3>1, <3>2
    <2>4. slot' \in [Node -> Slot \cup {NoSlot}] /\ \A m \in 1 .. m_lastSlotIndex' : slot'[m] \in Slot
        BY <1>2, <1>3
    <2> QED BY <1>3, <2>1, <2>2, <2>3, <2>4 DEF PoolInv
<1>8. /\ \A i \in 1 .. Len(stack) : stack[i].signal # s /\ stack[i].signal \in Signal
      /\ Len(stack) \in Nat
    BY <1>1, <1>3, StackFacts
<1>9. m_lastGetSlot' \in [Signal -> Node \cup {Null}] /\ \A t \in Signal : t # s => m_lastGetSlot'[t] = m_lastGetSlot[t]
    BY <1>1, <1>3 DEF StackInv
<1>10. StackInv'
    BY <1>1, <1>3, <1>9 DEF StackInv
<1>11. CursorInv'
    BY <1>1, <1>3, <1>8, <1>9 DEF CursorInv
<1>12. WalkInv'
    <2>1. \A i \in 1 .. Len(stack) : /\ L[stack[i].signal] = Lists[stack[i].signal]
                                     /\ m_lastGetSlot'[stack[i].signal] = m_lastGetSlot[stack[i].signal]
        BY <1>5, <1>8, <1>9
    <2> QED BY <1>1, <1>3, <1>6, <2>1 DEF WalkInv
<1> QED BY <1>7, <1>10, <1>11, <1>12 DEF IInv

(* A step that leaves the storage and the lists.                           *)
LEMMA PoolStays ==
    ASSUME PoolInv, UNCHANGED <<storage, m_slotList, allowed>>
    PROVE  PoolInv' /\ Lists' = Lists /\ Released' = Released /\ slot' = slot
<1>1. UNCHANGED <<slot, next, m_lastSlotIndex, m_releasedSlots, slotsInUse, m_slotList, allowed>>
    BY DEF storage
<1>2. Lists' = Lists /\ Released' = Released
    BY <1>1 DEF Lists, Released, Chain
<1>3. PoolInv'
    BY <1>1, <1>2 DEF PoolInv
<1> QED BY <1>1, <1>2, <1>3

LEMMA ActivKeeps ==
    ASSUME IInv, NEW s \in Signal, Activ(s), UNCHANGED allowed
    PROVE  IInv'
<1> DEFINE c == Lists[s]
           q == SlotsOf(c)
           m == Len(stack)
           e == [signal |-> s, cmd |-> slot[m_slotList[s]], owed |-> ToSet(Tail(q))]
<1>1. PoolInv /\ StackInv /\ CursorInv /\ WalkInv
    BY DEF IInv
<1>2. /\ c = Chain(m_slotList[s]) /\ c \in Seq(Node) /\ Len(c) \in Nat
      /\ m_slotList[s] \in Node \cup {Null}
      /\ IsPath(c, m_slotList[s], next)
      /\ \A n \in ToSet(c) : n \in Node /\ slot[n] \in Slot
      /\ m_slotList[s] = Null <=> c = << >>
      /\ \A n \in Node : slot[n] \in Slot \cup {NoSlot}
    BY <1>1, PoolFacts
<1>3. /\ stack \in Seq(Entry) /\ m \in Nat
      /\ \A i \in 1 .. m : stack[i].signal \in Signal
    BY <1>1, StackFacts
<1>4. /\ m < MaxDepth /\ ("reenter" \in allowed \/ ~Running(s)) /\ m_slotList[s] # Null
      /\ m_lastGetSlot' = [m_lastGetSlot EXCEPT ![s] = m_slotList[s]]
      /\ m_data' = [m_data EXCEPT ![s] = m + 1]
      /\ stack' = Append(stack, e)
      /\ UNCHANGED <<storage, m_slotList, faulted>>
    <2> HIDE DEF c
    <2> QED BY <1>2 DEF Activ, IsConnected
<1>5. PoolInv' /\ Lists' = Lists /\ slot' = slot
    BY <1>1, <1>4, PoolStays
<1>6. /\ m_slotList[s] \in Node /\ m_slotList[s] = c[1] /\ 1 \in 1 .. Len(c)
      /\ m_slotList[s] \in ToSet(c)
    <2> HIDE DEF c
    <2>1. m_slotList[s] \in Node /\ c # << >> /\ m_slotList[s] = c[1]
        BY <1>2, <1>4 DEF IsPath
    <2>2. 1 \in 1 .. Len(c)
        BY <1>2, <2>1
    <2> QED BY <1>2, <2>1, <2>2, ElementsAreAt
<1>7. ASSUME NEW x \in ToSet(Tail(q))
      PROVE  x \in Slot /\ \E j \in 2 .. Len(c) : slot[c[j]] = x
    <2> HIDE DEF c
    <2>1. q = [k \in 1 .. Len(c) |-> slot[c[k]]]
        <3>1. DOMAIN c = 1 .. Len(c)
            BY <1>2
        <3> QED BY <3>1 DEF SlotsOf
    <2>2. \A k \in 1 .. Len(c) : slot[c[k]] \in Slot
        BY <1>2, ElementsAreAt
    <2> HIDE DEF q
    <2>3. q \in Seq(Slot) /\ Len(q) = Len(c)
        <3>1. q \in [1 .. Len(c) -> Slot]
            BY <2>1, <2>2
        <3> QED BY <1>2, <3>1
    <2>4. /\ Tail(q) \in Seq(Slot) /\ Len(Tail(q)) = Len(c) - 1
          /\ \A k \in 1 .. Len(c) - 1 : Tail(q)[k] = q[k + 1]
        BY <1>2, <1>6, <2>3
    <2>5. PICK k \in 1 .. Len(c) - 1 : x = Tail(q)[k]
        <3> DEFINE r == Tail(q)
        <3>1. r \in Seq(Slot) /\ Len(r) = Len(c) - 1 /\ x \in ToSet(r)
            BY <1>7, <2>4
        <3> HIDE DEF r
        <3>2. \E k \in 1 .. Len(r) : x = r[k]
            BY <3>1, ElementsAreAt
        <3> QED BY <3>1, <3>2 DEF r
    <2>6. k + 1 \in 2 .. Len(c) /\ k + 1 \in 1 .. Len(c)
        BY <1>2
    <2>7. x = slot[c[k + 1]]
        BY <2>1, <2>4, <2>5, <2>6
    <2> QED BY <2>2, <2>6, <2>7
<1>8. e \in Entry /\ e.signal = s /\ e.cmd = slot[m_slotList[s]] /\ e.owed = ToSet(Tail(q))
    <2> HIDE DEF q, c
    <2>1. ToSet(Tail(q)) \subseteq Slot
        BY <1>7
    <2>2. slot[m_slotList[s]] \in Slot \cup {NoSlot}
        BY <1>2, <1>6
    <2> QED BY <2>1, <2>2 DEF Entry
<1>9. OnItsWay(e, c, slot)
    <2> HIDE DEF c, q, e
    <2>1. slot[c[1]] = e.cmd
        BY <1>6, <1>8
    <2>2. \A x \in e.owed : \E j \in 1 + 1 .. Len(c) : slot[c[j]] = x
        BY <1>7, <1>8
    <2> QED BY <1>6, <2>1, <2>2 DEF OnItsWay
<1> HIDE DEF e, q
<1>10. /\ stack' \in Seq(Entry) /\ Len(stack') = m + 1 /\ stack'[m + 1] = e
       /\ \A i \in 1 .. m : stack'[i] = stack[i]
    BY <1>3, <1>4, <1>8
<1>11. /\ m_lastGetSlot' \in [Signal -> Node \cup {Null}]
       /\ m_lastGetSlot'[s] = m_slotList[s]
       /\ \A t \in Signal : t # s => m_lastGetSlot'[t] = m_lastGetSlot[t]
    BY <1>1, <1>4, <1>6 DEF StackInv
<1>12. StackInv'
    <2>1. m_data' \in [Signal -> 0 .. MaxDepth]
        <3>1. m + 1 \in 0 .. MaxDepth
            BY <1>3, <1>4, StorageSizeAssumption
        <3> QED BY <1>1, <1>4, <3>1 DEF StackInv
    <2>2. Len(stack') <= MaxDepth
        BY <1>3, <1>4, <1>10, StorageSizeAssumption
    <2>3. faulted' \in BOOLEAN
        BY <1>1, <1>4 DEF StackInv
    <2> QED BY <1>10, <1>11, <2>1, <2>2, <2>3 DEF StackInv, Entry
<1>13. \A i \in 1 .. m + 1 : i \in 1 .. m \/ i = m + 1
    BY <1>3
<1>14. CursorInv'
    <2> SUFFICES ASSUME "reenter" \notin allowed
                 PROVE  /\ ~faulted'
                        /\ \A i \in 1 .. Len(stack') : m_lastGetSlot'[stack'[i].signal] # Null
                        /\ \A i, j \in 1 .. Len(stack') : stack'[i].signal = stack'[j].signal => i = j
        BY DEF CursorInv
    <2>1. /\ ~faulted
          /\ \A i \in 1 .. m : m_lastGetSlot[stack[i].signal] # Null
          /\ \A i, j \in 1 .. m : stack[i].signal = stack[j].signal => i = j
        BY <1>1 DEF CursorInv
    <2>2. \A i \in 1 .. m : stack[i].signal # s
        BY <1>1, <1>4, StackFacts
    <2>3. \A i \in 1 .. Len(stack') : m_lastGetSlot'[stack'[i].signal] # Null
        BY <1>3, <1>4, <1>8, <1>10, <1>11, <1>13, <2>1, <2>2
    <2>4. ASSUME NEW i \in 1 .. Len(stack'), NEW j \in 1 .. Len(stack'),
                 stack'[i].signal = stack'[j].signal
          PROVE  i = j
        <3>1. CASE i \in 1 .. m /\ j \in 1 .. m
            BY <1>10, <2>1, <2>4, <3>1
        <3>2. CASE i = m + 1 \/ j = m + 1
            BY <1>8, <1>10, <1>13, <2>2, <2>4, <3>2
        <3> QED BY <1>10, <1>13, <3>1, <3>2
    <2> QED BY <1>4, <2>1, <2>3, <2>4
<1>15. WalkInv'
    <2> SUFFICES ASSUME "disconnectRunning" \notin allowed, NEW i \in 1 .. m + 1
                 PROVE  LET t == stack'[i].signal
                        IN  /\ OnItsWay(stack'[i], Lists[t], slot)
                            /\ (\A j \in i + 1 .. m + 1 : stack'[j].signal # t) =>
                                   \/ m_lastGetSlot'[t] = Null
                                   \/ /\ m_lastGetSlot'[t] \in ToSet(Lists[t])
                                      /\ slot[m_lastGetSlot'[t]] = stack'[i].cmd
        BY <1>5, <1>10 DEF WalkInv
    <2>1. CASE i = m + 1
        BY <1>6, <1>8, <1>9, <1>10, <1>11, <2>1
    <2>2. CASE i \in 1 .. m
        <3> DEFINE t == stack[i].signal
        <3>1. stack'[i] = stack[i] /\ t \in Signal
            BY <1>3, <1>10, <2>2
        <3>2. /\ OnItsWay(stack[i], Lists[t], slot)
              /\ (\A j \in i + 1 .. m : stack[j].signal # t) =>
                     \/ m_lastGetSlot[t] = Null
                     \/ /\ m_lastGetSlot[t] \in ToSet(Lists[t])
                        /\ slot[m_lastGetSlot[t]] = stack[i].cmd
            BY <1>1, <2>2 DEF WalkInv
        <3>3. ASSUME \A j \in i + 1 .. m + 1 : stack'[j].signal # t
              PROVE  t # s /\ \A j \in i + 1 .. m : stack[j].signal # t
            <4>1. m + 1 \in i + 1 .. m + 1
                BY <1>3, <2>2
            <4>2. \A j \in i + 1 .. m : j \in i + 1 .. m + 1 /\ j \in 1 .. m
                BY <1>3, <2>2
            <4> QED BY <1>8, <1>10, <3>3, <4>1, <4>2
        <3> HIDE DEF t
        <3>4. /\ OnItsWay(stack[i], Lists[t], slot)
              /\ (\A j \in i + 1 .. m + 1 : stack'[j].signal # t) =>
                     \/ m_lastGetSlot'[t] = Null
                     \/ /\ m_lastGetSlot'[t] \in ToSet(Lists[t])
                        /\ slot[m_lastGetSlot'[t]] = stack[i].cmd
            BY <1>11, <3>1, <3>2, <3>3
        <3> QED BY <3>1, <3>4 DEF t
    <2> QED BY <1>13, <2>1, <2>2
<1> QED BY <1>5, <1>12, <1>14, <1>15 DEF IInv

(* The innermost activation is over.                                       *)
LEMMA PopKeeps ==
    ASSUME IInv, stack # << >>, GoOnWith(Null), UNCHANGED allowed,
           UNCHANGED <<storage, m_slotList, faulted>>,
           m_lastGetSlot' \in [Signal -> Node \cup {Null}],
           \A t \in Signal : t # Last(stack).signal => m_lastGetSlot'[t] = m_lastGetSlot[t],
           "disconnectRunning" \notin allowed => m_lastGetSlot'[Last(stack).signal] = Null
    PROVE  IInv' /\ Len(stack') = Len(stack) - 1
<1> DEFINE m == Len(stack)
           s == Last(stack).signal
<1>1. PoolInv /\ StackInv /\ CursorInv /\ WalkInv
    BY DEF IInv
<1>2. /\ stack \in Seq(Entry) /\ m \in Nat /\ m \in 1 .. m
      /\ \A i \in 1 .. m : stack[i].signal \in Signal
      /\ s = stack[m].signal /\ s \in Signal
    BY <1>1, StackFacts
<1>3. stack' = Front(stack) /\ m_data' = [m_data EXCEPT ![s] = 0]
    BY DEF GoOnWith
<1>4. /\ stack' \in Seq(Entry) /\ Len(stack') = m - 1 /\ m - 1 \in Nat
      /\ \A i \in 1 .. m - 1 : stack'[i] = stack[i] /\ i \in 1 .. m /\ i # m
    <2>1. stack' = SubSeq(stack, 1, m - 1)
        BY <1>3 DEF Front
    <2>2. m - 1 \in Nat /\ \A i \in 1 .. m - 1 : i \in 1 .. m /\ i # m
        BY <1>2
    <2> DEFINE p == m - 1
    <2>3. p \in Nat /\ p <= m /\ stack' = SubSeq(stack, 1, p)
        BY <1>2, <2>1
    <2> HIDE DEF p
    <2>4. /\ stack' \in Seq(Entry) /\ Len(stack') = p
          /\ \A i \in 1 .. p : stack'[i] = stack[i]
        BY <1>2, <2>3
    <2> QED BY <2>2, <2>4 DEF p
<1>5. PoolInv' /\ Lists' = Lists /\ slot' = slot
    BY <1>1, PoolStays
<1>6. StackInv'
    <2>1. m_data' \in [Signal -> 0 .. MaxDepth]
        <3>1. m_data \in [Signal -> 0 .. MaxDepth] /\ 0 \in 0 .. MaxDepth
            BY <1>1, StorageSizeAssumption DEF StackInv
        <3> HIDE DEF s
        <3> QED BY <1>3, <3>1
    <2>2. Len(stack') <= MaxDepth
        BY <1>1, <1>2, <1>4, StorageSizeAssumption DEF StackInv
    <2>3. faulted' \in BOOLEAN
        BY <1>1 DEF StackInv
    <2> QED BY <1>4, <2>1, <2>2, <2>3 DEF StackInv, Entry
<1> HIDE DEF s
<1>7. CursorInv'
    <2> SUFFICES ASSUME "reenter" \notin allowed
                 PROVE  /\ ~faulted'
                        /\ \A i \in 1 .. m - 1 : m_lastGetSlot'[stack'[i].signal] # Null
                        /\ \A i, j \in 1 .. m - 1 : stack'[i].signal = stack'[j].signal => i = j
        BY <1>4 DEF CursorInv
    <2>1. /\ ~faulted
          /\ \A i \in 1 .. m : m_lastGetSlot[stack[i].signal] # Null
          /\ \A i, j \in 1 .. m : stack[i].signal = stack[j].signal => i = j
        BY <1>1 DEF CursorInv
    <2>2. \A i \in 1 .. m - 1 : stack[i].signal # s
        BY <1>2, <1>4, <2>1
    <2>3. \A i \in 1 .. m - 1 : m_lastGetSlot'[stack[i].signal] = m_lastGetSlot[stack[i].signal]
        BY <1>2, <1>4, <2>2 DEF s
    <2>4. \A i \in 1 .. m - 1 : i \in 1 .. m /\ stack'[i] = stack[i]
        BY <1>2, <1>4
    <2>5. ~faulted'
        BY <1>4, <2>1
    <2>6. \A i \in 1 .. m - 1 : m_lastGetSlot'[stack'[i].signal] # Null
        BY <2>1, <2>3, <2>4
    <2>7. \A i, j \in 1 .. m - 1 : stack'[i].signal = stack'[j].signal => i = j
        BY <2>1, <2>4
    <2> QED BY <2>5, <2>6, <2>7
<1>8. WalkInv'
    <2> SUFFICES ASSUME "disconnectRunning" \notin allowed, NEW i \in 1 .. m - 1
                 PROVE  LET t == stack'[i].signal
                        IN  /\ OnItsWay(stack'[i], Lists[t], slot)
                            /\ (\A j \in i + 1 .. m - 1 : stack'[j].signal # t) =>
                                   \/ m_lastGetSlot'[t] = Null
                                   \/ /\ m_lastGetSlot'[t] \in ToSet(Lists[t])
                                      /\ slot[m_lastGetSlot'[t]] = stack'[i].cmd
        BY <1>4, <1>5 DEF WalkInv
    <2> DEFINE t == stack[i].signal
    <2>1. stack'[i] = stack[i] /\ t \in Signal /\ i \in 1 .. m
        BY <1>2, <1>4
    <2>2. /\ OnItsWay(stack[i], Lists[t], slot)
          /\ (\A j \in i + 1 .. m : stack[j].signal # t) =>
                 \/ m_lastGetSlot[t] = Null
                 \/ /\ m_lastGetSlot[t] \in ToSet(Lists[t])
                    /\ slot[m_lastGetSlot[t]] = stack[i].cmd
        BY <1>1, <2>1 DEF WalkInv
    <2>3. CASE t = s
        BY <2>1, <2>2, <2>3 DEF s
    <2>4. CASE t # s
        <3>1. ASSUME \A j \in i + 1 .. m - 1 : stack'[j].signal # t
              PROVE  \A j \in i + 1 .. m : stack[j].signal # t
            <4>1. \A j \in i + 1 .. m : j = m \/ (j \in i + 1 .. m - 1 /\ j \in 1 .. m - 1)
                BY <1>2, <2>1
            <4> QED BY <1>2, <1>4, <2>4, <3>1, <4>1
        <3>2. m_lastGetSlot'[t] = m_lastGetSlot[t]
            BY <2>1, <2>4 DEF s
        <3> HIDE DEF t
        <3>3. /\ OnItsWay(stack[i], Lists[t], slot)
              /\ (\A j \in i + 1 .. m - 1 : stack'[j].signal # t) =>
                     \/ m_lastGetSlot'[t] = Null
                     \/ /\ m_lastGetSlot'[t] \in ToSet(Lists[t])
                        /\ slot[m_lastGetSlot'[t]] = stack[i].cmd
            BY <2>2, <3>1, <3>2
        <3> QED BY <2>1, <3>3 DEF t
    <2> QED BY <2>3, <2>4
<1> QED BY <1>4, <1>5, <1>6, <1>7, <1>8 DEF IInv

(* The innermost activation runs the slot of node.                         *)
LEMMA RunKeeps ==
    ASSUME IInv, stack # << >>, NEW node \in Node, GoOnWith(node), UNCHANGED allowed,
           UNCHANGED <<storage, m_slotList, faulted>>,
           m_lastGetSlot' = [m_lastGetSlot EXCEPT ![Last(stack).signal] = node],
           "disconnectRunning" \notin allowed =>
               /\ node \in ToSet(Lists[Last(stack).signal])
               /\ OnItsWay([Last(stack) EXCEPT !.cmd = slot[node], !.owed = @ \ {slot[node]}],
                           Lists[Last(stack).signal], slot)
    PROVE  IInv' /\ Len(stack') = Len(stack)
<1> DEFINE m == Len(stack)
           top == Last(stack)
           s == Last(stack).signal
           e == [top EXCEPT !.cmd = slot[node], !.owed = @ \ {slot[node]}]
<1>1. PoolInv /\ StackInv /\ CursorInv /\ WalkInv
    BY DEF IInv
<1>2. /\ stack \in Seq(Entry) /\ m \in Nat /\ m \in 1 .. m
      /\ \A i \in 1 .. m : stack[i].signal \in Signal
      /\ top = stack[m] /\ top \in Entry /\ s = stack[m].signal /\ s \in Signal
    BY <1>1, StackFacts
<1>3. node # Null /\ slot[node] \in Slot \cup {NoSlot}
    BY <1>1, PoolFacts DEF Node, Null
<1>4. stack' = Append(Front(stack), e) /\ m_data' = m_data
    BY <1>3 DEF GoOnWith
<1>5. e \in Entry /\ e.signal = s /\ e.cmd = slot[node]
    BY <1>2, <1>3 DEF Entry
<1> HIDE DEF e, top
<1>6. /\ stack' \in Seq(Entry) /\ Len(stack') = m /\ stack'[m] = e
      /\ \A i \in 1 .. m : i # m => stack'[i] = stack[i]
    <2> DEFINE front == Front(stack)
               p == m - 1
    <2>1. p \in Nat /\ p <= m /\ front = SubSeq(stack, 1, p) /\ p + 1 = m
          /\ \A i \in 1 .. m : i # m => i \in 1 .. p
        BY <1>2 DEF Front
    <2> HIDE DEF p, front
    <2>2. /\ front \in Seq(Entry) /\ Len(front) = p
          /\ \A i \in 1 .. p : front[i] = stack[i]
        BY <1>2, <2>1
    <2>3. stack' = Append(front, e)
        BY <1>4 DEF front
    <2>4. /\ stack' \in Seq(Entry) /\ Len(stack') = p + 1 /\ stack'[p + 1] = e
          /\ \A i \in 1 .. p : stack'[i] = stack[i]
        BY <1>5, <2>2, <2>3
    <2> QED BY <2>1, <2>4
<1>7. PoolInv' /\ Lists' = Lists /\ slot' = slot
    BY <1>1, PoolStays
<1> HIDE DEF s
<1>8. /\ m_lastGetSlot' \in [Signal -> Node \cup {Null}]
      /\ m_lastGetSlot'[s] = node
      /\ \A t \in Signal : t # s => m_lastGetSlot'[t] = m_lastGetSlot[t]
    <2>1. m_lastGetSlot' = [m_lastGetSlot EXCEPT ![s] = node]
        BY DEF s
    <2>2. m_lastGetSlot \in [Signal -> Node \cup {Null}]
        BY <1>1 DEF StackInv
    <2> QED BY <1>2, <2>1, <2>2
<1>9. StackInv'
    BY <1>1, <1>4, <1>6, <1>8 DEF StackInv, Entry
<1>10. \A i \in 1 .. m : stack'[i].signal = stack[i].signal
    BY <1>2, <1>5, <1>6
<1>11. CursorInv'
    <2> SUFFICES ASSUME "reenter" \notin allowed
                 PROVE  /\ ~faulted'
                        /\ \A i \in 1 .. m : m_lastGetSlot'[stack'[i].signal] # Null
                        /\ \A i, j \in 1 .. m : stack'[i].signal = stack'[j].signal => i = j
        BY <1>6 DEF CursorInv
    <2>1. /\ ~faulted
          /\ \A i \in 1 .. m : m_lastGetSlot[stack[i].signal] # Null
          /\ \A i, j \in 1 .. m : stack[i].signal = stack[j].signal => i = j
        BY <1>1 DEF CursorInv
    <2> QED BY <1>2, <1>3, <1>8, <1>10, <2>1
<1>12. WalkInv'
    <2> SUFFICES ASSUME "disconnectRunning" \notin allowed, NEW i \in 1 .. m
                 PROVE  LET t == stack'[i].signal
                        IN  /\ OnItsWay(stack'[i], Lists[t], slot)
                            /\ (\A j \in i + 1 .. m : stack'[j].signal # t) =>
                                   \/ m_lastGetSlot'[t] = Null
                                   \/ /\ m_lastGetSlot'[t] \in ToSet(Lists[t])
                                      /\ slot[m_lastGetSlot'[t]] = stack'[i].cmd
        BY <1>6, <1>7 DEF WalkInv
    <2>1. CASE i = m
        <3>1. OnItsWay(e, Lists[s], slot) /\ node \in ToSet(Lists[s])
            BY DEF e, s, top
        <3> QED BY <1>5, <1>6, <1>8, <2>1, <3>1
    <2>2. CASE i # m
        <3> DEFINE t == stack[i].signal
        <3>1. stack'[i] = stack[i] /\ t \in Signal
            BY <1>2, <1>6, <2>2
        <3>2. /\ OnItsWay(stack[i], Lists[t], slot)
              /\ (\A j \in i + 1 .. m : stack[j].signal # t) =>
                     \/ m_lastGetSlot[t] = Null
                     \/ /\ m_lastGetSlot[t] \in ToSet(Lists[t])
                        /\ slot[m_lastGetSlot[t]] = stack[i].cmd
            BY <1>1 DEF WalkInv
        <3> HIDE DEF t
        <3>3. ASSUME \A j \in i + 1 .. m : stack'[j].signal # t
              PROVE  t # s /\ \A j \in i + 1 .. m : stack[j].signal # t
            <4>1. m \in i + 1 .. m /\ \A j \in i + 1 .. m : j \in 1 .. m
                BY <1>2, <2>2
            <4> QED BY <1>2, <1>10, <3>3, <4>1
        <3>4. /\ OnItsWay(stack[i], Lists[t], slot)
              /\ (\A j \in i + 1 .. m : stack'[j].signal # t) =>
                     \/ m_lastGetSlot'[t] = Null
                     \/ /\ m_lastGetSlot'[t] \in ToSet(Lists[t])
                        /\ slot[m_lastGetSlot'[t]] = stack[i].cmd
            BY <1>8, <3>1, <3>2, <3>3
        <3> QED BY <3>1, <3>4 DEF t
    <2> QED BY <2>1, <2>2
<1> QED BY <1>6, <1>7, <1>9, <1>11, <1>12 DEF IInv

(* Where the innermost activation is, if slots do not disconnect themselves. *)
LEMMA TopIsOnItsWay ==
    ASSUME IInv, stack # << >>, "disconnectRunning" \notin allowed,
           NEW s, s = Last(stack).signal
    PROVE  \E k \in 1 .. Len(Lists[s]) :
               /\ slot[Lists[s][k]] = Last(stack).cmd
               /\ \A x \in Last(stack).owed :
                      \E j \in k + 1 .. Len(Lists[s]) : slot[Lists[s][j]] = x
               /\ m_lastGetSlot[s] # Null => m_lastGetSlot[s] = Lists[s][k]
               /\ \A n \in ToSet(Lists[s]) : slot[n] = Last(stack).cmd => n = Lists[s][k]
<1> DEFINE c == Lists[s]
           m == Len(stack)
           cmd == Last(stack).cmd
<1>1. PoolInv /\ StackInv /\ WalkInv
    BY DEF IInv
<1>2. m \in Nat /\ m \in 1 .. m /\ Last(stack) = stack[m] /\ s = stack[m].signal /\ s \in Signal
    BY <1>1, StackFacts
<1>3. c \in Seq(Node) /\ NamedOnce(c, slot)
    BY <1>1, <1>2, PoolFacts DEF PoolInv
<1>4. /\ OnItsWay(Last(stack), c, slot)
      /\ \/ m_lastGetSlot[s] = Null
         \/ m_lastGetSlot[s] \in ToSet(c) /\ slot[m_lastGetSlot[s]] = cmd
    <2>1. \A j : j \notin m + 1 .. m
        BY <1>2
    <2>2. /\ OnItsWay(stack[m], Lists[stack[m].signal], slot)
          /\ (\A j \in m + 1 .. m : stack[j].signal # stack[m].signal) =>
                 \/ m_lastGetSlot[stack[m].signal] = Null
                 \/ /\ m_lastGetSlot[stack[m].signal] \in ToSet(Lists[stack[m].signal])
                    /\ slot[m_lastGetSlot[stack[m].signal]] = stack[m].cmd
        BY <1>1, <1>2 DEF WalkInv
    <2> QED BY <1>2, <2>1, <2>2
<1> HIDE DEF c
<1>5. PICK k \in 1 .. Len(c) :
          /\ slot[c[k]] = cmd
          /\ \A x \in Last(stack).owed : \E j \in k + 1 .. Len(c) : slot[c[j]] = x
    BY <1>4 DEF OnItsWay
<1>6. ASSUME NEW n \in ToSet(c), slot[n] = cmd PROVE n = c[k]
    <2>1. PICK j \in 1 .. Len(c) : n = c[j]
        BY <1>3, ElementsAreAt
    <2> QED BY <1>3, <1>5, <1>6, <2>1 DEF NamedOnce
<1>7. m_lastGetSlot[s] # Null => m_lastGetSlot[s] = c[k]
    BY <1>4, <1>6
<1> QED BY <1>5, <1>6, <1>7 DEF c

LEMMA ReturnToEmptyKeeps ==
    ASSUME IInv, ReturnToEmpty, UNCHANGED allowed
    PROVE  IInv' /\ ("disconnectRunning" \notin allowed => FALSE)
<1> DEFINE s == Last(stack).signal
<1>1. PoolInv /\ StackInv
    BY DEF IInv
<1>2. /\ stack # << >> /\ m_slotList[s] = Null /\ GoOnWith(Null)
      /\ UNCHANGED <<storage, m_slotList, m_lastGetSlot, faulted>>
    BY DEF ReturnToEmpty, IsConnected
<1>3. s \in Signal /\ m_lastGetSlot \in [Signal -> Node \cup {Null}]
    BY <1>1, <1>2, StackFacts DEF StackInv
<1>4. Lists[s] = << >>
    BY <1>1, <1>2, <1>3, PoolFacts
<1> HIDE DEF s
<1>5. ASSUME "disconnectRunning" \notin allowed PROVE FALSE
    <2>1. \E k \in 1 .. Len(Lists[s]) : TRUE
        BY <1>2, <1>5, TopIsOnItsWay DEF s
    <2> QED BY <1>4, <2>1
<1>6. IInv'
    <2>1. /\ m_lastGetSlot' \in [Signal -> Node \cup {Null}]
          /\ \A t \in Signal : t # Last(stack).signal => m_lastGetSlot'[t] = m_lastGetSlot[t]
        BY <1>2, <1>3
    <2>2. UNCHANGED <<storage, m_slotList, faulted>>
        BY <1>2
    <2> QED BY <1>2, <1>5, <2>1, <2>2, PopKeeps
<1> QED BY <1>5, <1>6

LEMMA ReturnToNextKeeps ==
    ASSUME IInv, ReturnToNext, UNCHANGED allowed
    PROVE  /\ IInv'
           /\ "disconnectRunning" \notin allowed /\ Len(stack') < Len(stack)
                  => Last(stack).owed = {}
<1> DEFINE s == Last(stack).signal
           c == Lists[s]
           node == next[m_lastGetSlot[s]]
<1>1. PoolInv /\ StackInv
    BY DEF IInv
<1>2. /\ stack # << >> /\ m_lastGetSlot[s] # Null /\ slot[m_lastGetSlot[s]] = Last(stack).cmd
      /\ m_lastGetSlot' = [m_lastGetSlot EXCEPT ![s] = node]
      /\ GoOnWith(node)
      /\ UNCHANGED <<storage, m_slotList, faulted>>
    BY DEF ReturnToNext
<1>3. /\ s \in Signal /\ m_lastGetSlot \in [Signal -> Node \cup {Null}]
      /\ m_lastGetSlot[s] \in Node /\ node \in Node \cup {Null}
    <2>1. s \in Signal /\ m_lastGetSlot \in [Signal -> Node \cup {Null}]
        BY <1>1, <1>2, StackFacts DEF StackInv
    <2>2. m_lastGetSlot[s] \in Node
        BY <1>2, <2>1
    <2> QED BY <1>1, <2>1, <2>2, PoolFacts
<1>4. c \in Seq(Node) /\ Len(c) \in Nat /\ IsPath(c, m_slotList[s], next)
    BY <1>1, <1>3, PoolFacts
<1>5. "disconnectRunning" \notin allowed =>
          \E k \in 1 .. Len(c) :
              /\ m_lastGetSlot[s] = c[k]
              /\ \A x \in Last(stack).owed : \E j \in k + 1 .. Len(c) : slot[c[j]] = x
    BY <1>2, TopIsOnItsWay
<1> HIDE DEF s, c, node
<1>6. CASE node = Null
    <2>1. /\ m_lastGetSlot' \in [Signal -> Node \cup {Null}] /\ m_lastGetSlot'[s] = Null
          /\ \A t \in Signal : t # s => m_lastGetSlot'[t] = m_lastGetSlot[t]
        BY <1>2, <1>3, <1>6
    <2>2. IInv'
        BY <1>2, <1>6, <2>1, PopKeeps DEF s
    <2>3. ASSUME "disconnectRunning" \notin allowed PROVE Last(stack).owed = {}
        <3>1. PICK k \in 1 .. Len(c) :
                  /\ m_lastGetSlot[s] = c[k]
                  /\ \A x \in Last(stack).owed : \E j \in k + 1 .. Len(c) : slot[c[j]] = x
            BY <1>5, <2>3
        <3>2. k = Len(c)
            <4> SUFFICES ASSUME k # Len(c) PROVE FALSE
                OBVIOUS
            <4>1. k \in 1 .. Len(c) - 1 /\ k + 1 \in 1 .. Len(c)
                BY <1>4
            <4>2. node = c[k + 1]
                BY <1>4, <3>1, <4>1 DEF IsPath, node
            <4>3. c[k + 1] \in Node
                BY <1>4, <4>1
            <4> QED BY <1>6, <4>2, <4>3 DEF Node, Null
        <3>3. \A j : j \notin k + 1 .. Len(c)
            BY <1>4, <3>2
        <3> QED BY <3>1, <3>3
    <2> QED BY <2>2, <2>3
<1>7. CASE node # Null
    <2>1. node \in Node
        BY <1>3, <1>7
    <2> DEFINE e == [Last(stack) EXCEPT !.cmd = slot[node], !.owed = @ \ {slot[node]}]
    <2>2. ASSUME "disconnectRunning" \notin allowed
          PROVE  node \in ToSet(c) /\ OnItsWay(e, c, slot)
        <3>1. PICK k \in 1 .. Len(c) :
                  /\ m_lastGetSlot[s] = c[k]
                  /\ \A x \in Last(stack).owed : \E j \in k + 1 .. Len(c) : slot[c[j]] = x
            BY <1>5, <2>2
        <3>2. k # Len(c)
            <4> SUFFICES ASSUME k = Len(c) PROVE FALSE
                OBVIOUS
            <4>1. c # << >>
                BY <1>4
            <4>2. node = Null
                BY <1>4, <3>1, <4>1 DEF IsPath, node
            <4> QED BY <1>7, <4>2
        <3>3. k \in 1 .. Len(c) - 1 /\ k + 1 \in 1 .. Len(c)
            BY <1>4, <3>2
        <3>4. node = c[k + 1]
            BY <1>4, <3>1, <3>3 DEF IsPath, node
        <3>5. node \in ToSet(c)
            BY <1>4, <3>3, <3>4, ElementsAreAt
        <3>6. e.cmd = slot[c[k + 1]] /\ e.owed = Last(stack).owed \ {slot[c[k + 1]]}
            <4>1. Last(stack) \in Entry
                BY <1>1, <1>2, StackFacts
            <4> QED BY <3>4, <4>1 DEF Entry
        <3> HIDE DEF e
        <3>7. ASSUME NEW x \in e.owed PROVE \E j \in (k + 1) + 1 .. Len(c) : slot[c[j]] = x
            <4>1. PICK j \in k + 1 .. Len(c) : slot[c[j]] = x
                BY <3>1, <3>6, <3>7
            <4>2. j # k + 1
                BY <3>6, <3>7, <4>1
            <4>3. j \in (k + 1) + 1 .. Len(c)
                BY <1>4, <4>1, <4>2
            <4> QED BY <4>1, <4>3
        <3>8. OnItsWay(e, c, slot)
            BY <3>3, <3>6, <3>7 DEF OnItsWay
        <3> QED BY <3>5, <3>8
    <2>3. IInv' /\ Len(stack') = Len(stack)
        <3>1. m_lastGetSlot' = [m_lastGetSlot EXCEPT ![Last(stack).signal] = node]
            BY <1>2 DEF s
        <3>2. "disconnectRunning" \notin allowed =>
                 /\ node \in ToSet(Lists[Last(stack).signal])
                 /\ OnItsWay([Last(stack) EXCEPT !.cmd = slot[node], !.owed = @ \ {slot[node]}],
                             Lists[Last(stack).signal], slot)
            BY <2>2 DEF s, c
        <3> QED BY <1>2, <2>1, <3>1, <3>2, RunKeeps
    <2>4. Len(stack) \in Nat
        BY <1>1, StackFacts
    <2> QED BY <2>3, <2>4
<1> QED BY <1>6, <1>7

LEMMA ReturnAfterSearchKeeps ==
    ASSUME IInv, ReturnAfterSearch, UNCHANGED allowed
    PROVE  /\ IInv'
           /\ "disconnectRunning" \notin allowed => Len(stack') = Len(stack)
<1> DEFINE s == Last(stack).signal
           c == Lists[s]
           cmd == Last(stack).cmd
           node == IF IsConnectedTo(s, cmd)
                   THEN CHOOSE n \in ToSet(Chain(m_slotList[s])) : slot[n] = cmd
                   ELSE Null
<1>1. PoolInv /\ StackInv
    BY DEF IInv
<1>2. /\ stack # << >>
      /\ m_lastGetSlot' = [m_lastGetSlot EXCEPT ![s] = node]
      /\ GoOnWith(node)
      /\ UNCHANGED <<storage, m_slotList, faulted>>
    BY DEF ReturnAfterSearch
<1>3. s \in Signal /\ m_lastGetSlot \in [Signal -> Node \cup {Null}] /\ Last(stack) \in Entry
    BY <1>1, <1>2, StackFacts DEF StackInv
<1>4. /\ c \in Seq(Node) /\ Len(c) \in Nat /\ Chain(m_slotList[s]) = c
      /\ \A n \in ToSet(c) : n \in Node
    BY <1>1, <1>3, PoolFacts
<1>5. /\ (\E n \in ToSet(c) : slot[n] = cmd) => node \in ToSet(c) /\ slot[node] = cmd
      /\ ~(\E n \in ToSet(c) : slot[n] = cmd) => node = Null
    <2> HIDE DEF c, s, cmd
    <2>1. IsConnectedTo(s, cmd) <=> \E n \in ToSet(c) : slot[n] = cmd
        BY <1>4 DEF IsConnectedTo
    <2>2. node = IF IsConnectedTo(s, cmd) THEN CHOOSE n \in ToSet(c) : slot[n] = cmd ELSE Null
        BY <1>4
    <2> HIDE DEF node
    <2> QED BY <2>1, <2>2
<1>6. "disconnectRunning" \notin allowed =>
          \E k \in 1 .. Len(c) :
              /\ slot[c[k]] = cmd
              /\ \A x \in Last(stack).owed : \E j \in k + 1 .. Len(c) : slot[c[j]] = x
    BY <1>2, TopIsOnItsWay
<1> HIDE DEF s, c, cmd, node
<1>7. CASE ~(\E n \in ToSet(c) : slot[n] = cmd)
    <2>1. "disconnectRunning" \in allowed
        BY <1>4, <1>6, <1>7, ElementsAreAt
    <2>2. /\ m_lastGetSlot' \in [Signal -> Node \cup {Null}] /\ node = Null
          /\ \A t \in Signal : t # s => m_lastGetSlot'[t] = m_lastGetSlot[t]
        BY <1>2, <1>3, <1>5, <1>7
    <2>3. IInv'
        BY <1>2, <2>1, <2>2, PopKeeps DEF s
    <2> QED BY <2>1, <2>3
<1>8. CASE \E n \in ToSet(c) : slot[n] = cmd
    <2>1. node \in ToSet(c) /\ slot[node] = cmd /\ node \in Node
        BY <1>4, <1>5, <1>8
    <2> DEFINE e == [Last(stack) EXCEPT !.cmd = slot[node], !.owed = @ \ {slot[node]}]
    <2>2. ASSUME "disconnectRunning" \notin allowed PROVE OnItsWay(e, c, slot)
        <3>1. e.cmd = cmd /\ e.owed \subseteq Last(stack).owed
            BY <1>3, <2>1 DEF Entry
        <3> HIDE DEF e
        <3> QED BY <1>6, <2>2, <3>1 DEF OnItsWay
    <2>3. m_lastGetSlot' = [m_lastGetSlot EXCEPT ![Last(stack).signal] = node]
        BY <1>2 DEF s
    <2>4. "disconnectRunning" \notin allowed =>
             /\ node \in ToSet(Lists[Last(stack).signal])
             /\ OnItsWay([Last(stack) EXCEPT !.cmd = slot[node], !.owed = @ \ {slot[node]}],
                         Lists[Last(stack).signal], slot)
        BY <2>1, <2>2 DEF s, c
    <2> QED BY <1>2, <2>1, <2>3, <2>4, RunKeeps
<1> QED BY <1>7, <1>8

LEMMA ReturnFaultsKeeps ==
    ASSUME IInv, ReturnFaults, UNCHANGED allowed
    PROVE  IInv'
<1>1. PoolInv /\ StackInv /\ CursorInv /\ WalkInv
    BY DEF IInv
<1>2. /\ stack # << >> /\ m_lastGetSlot[Last(stack).signal] = Null /\ faulted' = TRUE
      /\ UNCHANGED <<storage, m_slotList, m_lastGetSlot, m_data, stack, allowed>>
    BY DEF ReturnFaults
<1>3. PoolInv' /\ Lists' = Lists /\ slot' = slot
    BY <1>1, <1>2, PoolStays
<1>4. StackInv'
    BY <1>1, <1>2 DEF StackInv
<1>5. CursorInv'
    <2>1. "reenter" \in allowed
        <3>1. Len(stack) \in 1 .. Len(stack) /\ Last(stack) = stack[Len(stack)]
            BY <1>1, <1>2, StackFacts
        <3> QED BY <1>1, <1>2, <3>1 DEF CursorInv
    <2> QED BY <1>2, <2>1 DEF CursorInv
<1>6. WalkInv'
    BY <1>1, <1>2, <1>3 DEF WalkInv
<1> QED BY <1>3, <1>4, <1>5, <1>6 DEF IInv
-----------------------------------------------------------------------------
LEMMA InitIsInv ==
    ASSUME Init
    PROVE  IInv
<1>1. /\ slot = [n \in Node |-> NoSlot] /\ next = [n \in Node |-> Null]
      /\ m_lastSlotIndex = 0 /\ m_releasedSlots = Null /\ slotsInUse = 0
      /\ m_slotList = [s \in Signal |-> Null] /\ m_lastGetSlot = [s \in Signal |-> Null]
      /\ m_data = [s \in Signal |-> 0] /\ stack = << >> /\ faulted = FALSE
    BY DEF Init
<1>2. IsPath(<< >>, Null, next) /\ ToSet(<< >>) = {}
    BY PathOfNone
<1>3. ChainIn(next, Null) = << >>
    BY <1>2, ChainIsThePath
<1>4. Released = << >> /\ Lists = [s \in Signal |-> << >>]
    BY <1>1, <1>3 DEF Released, Lists, Chain
<1>5. \A s \in Signal : Lists[s] = << >> /\ m_slotList[s] = Null
    BY <1>1, <1>4
<1>6. StorageSize \in Nat /\ MaxDepth \in Nat /\ 0 \in 0 .. StorageSize
    BY StorageSizeAssumption
<1>7. Listed(Lists, Released, next, m_slotList, m_releasedSlots, m_lastSlotIndex)
    <2>1. next \in [Node -> Node \cup {Null}] /\ m_slotList \in [Signal -> Node \cup {Null}]
        BY <1>1
    <2>2. \A s \in Signal : IsPath(Lists[s], m_slotList[s], next) /\ ToSet(Lists[s]) = {}
        BY <1>2, <1>5
    <2>3. IsPath(Released, m_releasedSlots, next) /\ ToSet(Released) = {}
        BY <1>1, <1>2, <1>4
    <2> QED BY <1>1, <1>6, <2>1, <2>2, <2>3 DEF Listed
<1>8. PoolInv
    <2>1. slotsInUse \in Nat /\ slotsInUse + Len(Released) = m_lastSlotIndex
        BY <1>1, <1>4
    <2>2. slot \in [Node -> Slot \cup {NoSlot}] /\ \A n \in 1 .. m_lastSlotIndex : slot[n] \in Slot
        BY <1>1
    <2>3. \A s \in Signal : NamedOnce(Lists[s], slot)
        <3>1. \A i : i \notin 1 .. Len(<< >>)
            OBVIOUS
        <3>2. NamedOnce(<< >>, slot)
            BY <3>1 DEF NamedOnce
        <3> QED BY <1>5, <3>2
    <2>4. AllOf(Lists, Released) = 1 .. m_lastSlotIndex
        <3>1. \A m : m \notin ToSet(Released) /\ \A t \in Signal : m \notin ToSet(Lists[t])
            BY <1>2, <1>4, <1>5
        <3>2. \A m : m \notin AllOf(Lists, Released)
            BY <3>1, AllOfHas
        <3>3. \A m : m \notin 1 .. m_lastSlotIndex
            BY <1>1
        <3> QED BY <3>2, <3>3
    <2> QED BY <1>7, <2>1, <2>2, <2>3, <2>4 DEF PoolInv
<1>9. Len(stack) = 0 /\ \A i : i \notin 1 .. Len(stack)
    BY <1>1
<1>10. StackInv
    <2>1. \A S : << >> \in Seq(S)
        OBVIOUS
    <2>2. stack \in Seq([signal : Signal, cmd : Slot \cup {NoSlot}, owed : SUBSET Slot])
        BY <1>1, <2>1
    <2>3. 0 \in 0 .. MaxDepth /\ Len(stack) <= MaxDepth
        BY <1>6, <1>9
    <2>4. m_lastGetSlot \in [Signal -> Node \cup {Null}] /\ faulted \in BOOLEAN
        BY <1>1
    <2>5. m_data \in [Signal -> 0 .. MaxDepth]
        BY <1>1, <2>3
    <2> QED BY <2>2, <2>3, <2>4, <2>5 DEF StackInv
<1>11. CursorInv
    BY <1>1, <1>9 DEF CursorInv
<1>12. WalkInv
    BY <1>9 DEF WalkInv
<1> QED BY <1>8, <1>10, <1>11, <1>12 DEF IInv

LEMMA StutterKeeps ==
    ASSUME IInv, UNCHANGED vars
    PROVE  IInv'
<1>1. PoolInv /\ StackInv /\ CursorInv /\ WalkInv
    BY DEF IInv
<1>2. /\ UNCHANGED <<storage, m_slotList, allowed>>
      /\ UNCHANGED <<m_lastGetSlot, m_data, stack, faulted, allowed>>
    BY DEF vars
<1>3. PoolInv' /\ Lists' = Lists /\ Released' = Released /\ slot' = slot
    BY <1>1, <1>2, PoolStays
<1>4. StackInv' /\ CursorInv'
    BY <1>1, <1>2 DEF StackInv, CursorInv
<1>5. WalkInv'
    BY <1>1, <1>2, <1>3 DEF WalkInv
<1> QED BY <1>3, <1>4, <1>5 DEF IInv

LEMMA NextKeeps ==
    ASSUME IInv, [Next]_vars
    PROVE  IInv'
<1>1. ASSUME NEW s \in Signal, NEW x \in Slot, Connect(s, x), UNCHANGED allowed PROVE IInv'
    BY <1>1, ConnectKeeps
<1>2. ASSUME NEW s \in Signal, NEW x \in Slot, Disconnect(s, x), UNCHANGED allowed PROVE IInv'
    BY <1>2, DisconnectKeeps
<1>3. ASSUME NEW s \in Signal, DisconnectAll(s), UNCHANGED allowed PROVE IInv'
    BY <1>3, DisconnectAllKeeps
<1>4. ASSUME NEW s \in Signal, Die(s), UNCHANGED allowed PROVE IInv'
    BY <1>4, DieKeeps
<1>5. ASSUME NEW s \in Signal, Activ(s), UNCHANGED allowed PROVE IInv'
    BY <1>5, ActivKeeps
<1>6. ASSUME ReturnToEmpty, UNCHANGED allowed PROVE IInv'
    BY <1>6, ReturnToEmptyKeeps
<1>7. ASSUME ReturnToNext, UNCHANGED allowed PROVE IInv'
    BY <1>7, ReturnToNextKeeps
<1>8. ASSUME ReturnAfterSearch, UNCHANGED allowed PROVE IInv'
    BY <1>8, ReturnAfterSearchKeeps
<1>9. ASSUME ReturnFaults, UNCHANGED allowed PROVE IInv'
    BY <1>9, ReturnFaultsKeeps
<1>10. CASE UNCHANGED vars
    BY <1>10, StutterKeeps
<1> QED BY <1>1, <1>2, <1>3, <1>4, <1>5, <1>6, <1>7, <1>8, <1>9, <1>10 DEF Next, Return

LEMMA Invariance == Spec => []IInv
<1>1. Init => IInv
    BY InitIsInv
<1>2. IInv /\ [Next]_vars => IInv'
    BY NextKeeps
<1> QED BY <1>1, <1>2, PTL DEF Spec
-----------------------------------------------------------------------------
(* Every pointer leads to a node of slotStorage or is null, and never more *)
(* nodes are in use than it has, whatever slots do to the signals.         *)
THEOREM TypeCorrect == Spec => []TypeOK
<1>1. IInv => TypeOK
    <2> SUFFICES ASSUME IInv PROVE TypeOK
        OBVIOUS
    <2>1. PoolInv /\ StackInv
        BY DEF IInv
    <2>2. /\ next \in [Node -> Node \cup {Null}] /\ m_slotList \in [Signal -> Node \cup {Null}]
          /\ m_releasedSlots \in Node \cup {Null} /\ m_lastSlotIndex \in 0 .. StorageSize
        BY <2>1 DEF PoolInv, Listed
    <2>3. slotsInUse \in 0 .. StorageSize
        <3>1. Len(Released) \in Nat
            BY <2>1, PoolFacts
        <3>2. slotsInUse \in Nat /\ slotsInUse + Len(Released) = m_lastSlotIndex
            BY <2>1 DEF PoolInv
        <3> QED BY <2>2, <3>1, <3>2, StorageSizeAssumption
    <2>4. slot \in [Node -> Slot \cup {NoSlot}]
        BY <2>1 DEF PoolInv
    <2> QED BY <2>1, <2>2, <2>3, <2>4 DEF TypeOK, StackInv
<1> QED BY <1>1, Invariance, PTL

(* Whatever slots do to the signals while these run them, no connect or    *)
(* disconnect links two lists together or makes one circular, and          *)
(* slotsInUse counts the nodes that are not among the released ones.       *)
THEOREM ListsAreApart == Spec => []ListsStayApart
<1>1. IInv => ListsStayApart
    <2> SUFFICES ASSUME IInv PROVE ListsStayApart
        OBVIOUS
    <2>1. PoolInv
        BY DEF IInv
    <2>2. Listed(Lists, Released, next, m_slotList, m_releasedSlots, m_lastSlotIndex)
        BY <2>1 DEF PoolInv
    <2>3. ASSUME NEW c, NEW first, IsPath(c, first, next), Chain(first) = c
          PROVE  Ends(first)
        <3>1. c = << >> => first = Null
            BY <2>3 DEF IsPath
        <3>2. c # << >> => next[Last(c)] = Null
            BY <2>3 DEF IsPath, Last
        <3> QED BY <2>3, <3>1, <3>2 DEF Ends
    <2>4. \A s \in Signal : Lists[s] = Chain(m_slotList[s]) /\ NodesOf(s) = ToSet(Lists[s])
        BY DEF Lists, NodesOf
    <2>5. \A s \in Signal : Ends(m_slotList[s])
        <3>1. \A s \in Signal : IsPath(Lists[s], m_slotList[s], next)
            BY <2>2 DEF Listed
        <3> QED BY <2>3, <2>4, <3>1
    <2>6. IsPath(Released, m_releasedSlots, next) /\ Released = Chain(m_releasedSlots)
        BY <2>2 DEF Listed, Released
    <2>7. Ends(m_releasedSlots)
        BY <2>3, <2>6
    <2>8. /\ \A s \in Signal : NodesOf(s) \cap ToSet(Released) = {}
          /\ \A s, t \in Signal : s # t => NodesOf(s) \cap NodesOf(t) = {}
        BY <2>2, <2>4 DEF Listed
    <2>9. slotsInUse + Cardinality(ToSet(Released)) = m_lastSlotIndex
        <3>1. Cardinality(ToSet(Released)) = Len(Released)
            BY <2>6, PathIsNoLongerThanStorage
        <3>2. slotsInUse + Len(Released) = m_lastSlotIndex
            BY <2>1 DEF PoolInv
        <3> QED BY <3>1, <3>2
    <2> QED BY <2>5, <2>6, <2>7, <2>8, <2>9 DEF ListsStayApart
<1> QED BY <1>1, Invariance, PTL

(* Unless a connected signal dies, every node ever given by getSlot is in  *)
(* the list of one signal or among the released ones.                      *)
THEOREM NoNodeIsLost == Spec => []NoNodeLost
<1>1. IInv => NoNodeLost
    <2> SUFFICES ASSUME IInv, Without({"die"}) PROVE (UNION {NodesOf(s) : s \in Signal}) \cup ToSet(Chain(m_releasedSlots)) = 1 .. m_lastSlotIndex
        BY DEF NoNodeLost
    <2>1. "die" \notin allowed
        BY DEF Without
    <2>2. AllOf(Lists, Released) = 1 .. m_lastSlotIndex
        BY <2>1 DEF IInv, PoolInv
    <2>3. \A s \in Signal : NodesOf(s) = ToSet(Lists[s])
        BY DEF Lists, NodesOf
    <2>4. {NodesOf(s) : s \in Signal} = {ToSet(Lists[s]) : s \in Signal}
        BY <2>3
    <2>5. AllOf(Lists, Released) = (UNION {NodesOf(s) : s \in Signal}) \cup ToSet(Chain(m_releasedSlots))
        BY <2>4 DEF AllOf, Released
    <2> QED BY <2>2, <2>5
<1> QED BY <1>1, Invariance, PTL

(* getNextSlot never reads through a null cursor unless a slot activates   *)
(* the signal it is run by.                                                *)
THEOREM NullCursorIsNotRead == Spec => []CursorIsNeverNull
<1>1. IInv => CursorIsNeverNull
    <2> SUFFICES ASSUME IInv, Without({"reenter"}) PROVE ~faulted
        BY DEF CursorIsNeverNull
    <2>1. "reenter" \notin allowed
        BY DEF Without
    <2> QED BY <2>1 DEF IInv, CursorInv
<1> QED BY <1>1, Invariance, PTL

(* If no slot disconnects itself, an activation that ends has run every    *)
(* slot that was connected when it began and was not disconnected since,   *)
(* even if slots activate the signal they are run by.                      *)
THEOREM ActivationsRunAll == Spec => ActivationRunsAll
<1>1. ASSUME IInv, [Next]_vars PROVE [Without({"disconnectRunning"}) => EndsComplete]_vars
    <2> SUFFICES ASSUME ~UNCHANGED vars, "disconnectRunning" \notin allowed, Len(stack') < Len(stack)
                 PROVE  Last(stack).owed = {}
        BY DEF EndsComplete, Without
    <2>1. Next
        BY <1>1
    <2>2. StackInv /\ Len(stack) \in Nat
        BY <1>1, StackFacts DEF IInv
    <2>3. UNCHANGED allowed
        BY <2>1 DEF Next
    <2>4. ASSUME NEW s \in Signal, NEW x \in Slot, Connect(s, x) PROVE FALSE
        <3>1. stack' = stack
            BY <2>4 DEF Connect
        <3> QED BY <2>2, <3>1
    <2>5. ASSUME NEW s \in Signal, NEW x \in Slot, Disconnect(s, x) PROVE FALSE
        <3>1. Forgive(s, {x})
            BY <2>5 DEF Disconnect
        <3>2. Len(stack') = Len(stack)
            BY <2>2, <3>1, ForgivenFacts
        <3> QED BY <2>2, <3>2
    <2>6. ASSUME NEW s \in Signal, DisconnectAll(s) PROVE FALSE
        <3>1. Forgive(s, Slot)
            BY <2>6 DEF DisconnectAll
        <3>2. Len(stack') = Len(stack)
            BY <2>2, <3>1, ForgivenFacts
        <3> QED BY <2>2, <3>2
    <2>7. ASSUME NEW s \in Signal, Die(s) PROVE FALSE
        <3>1. stack' = stack
            BY <2>7 DEF Die
        <3> QED BY <2>2, <3>1
    <2>8. ASSUME NEW s \in Signal, Activ(s) PROVE FALSE
        <3>1. \E e : stack' = Append(stack, e)
            BY <2>8 DEF Activ
        <3>2. PICK e : stack' = Append(stack, e)
            BY <3>1
        <3>3. Len(stack') = Len(stack) + 1
            BY <2>2, <3>2 DEF StackInv
        <3> QED BY <2>2, <3>3
    <2>9. CASE ReturnToEmpty
        BY <1>1, <2>3, <2>9, ReturnToEmptyKeeps
    <2>10. CASE ReturnToNext
        BY <1>1, <2>3, <2>10, ReturnToNextKeeps
    <2>11. CASE ReturnAfterSearch
        <3>1. Len(stack') = Len(stack)
            BY <1>1, <2>3, <2>11, ReturnAfterSearchKeeps
        <3> QED BY <2>2, <3>1
    <2>12. CASE ReturnFaults
        <3>1. stack' = stack
            BY <2>12 DEF ReturnFaults
        <3> QED BY <2>2, <3>1
    <2> QED BY <2>1, <2>4, <2>5, <2>6, <2>7, <2>8, <2>9, <2>10, <2>11, <2>12 DEF Next, Return
<1>2. [][Without({"disconnectRunning"}) => EndsComplete]_vars <=> ActivationRunsAll
    BY DEF ActivationRunsAll
<1> QED BY <1>1, <1>2, Invariance, PTL DEF Spec
-----------------------------------------------------------------------------
(* Lists of slots, as the bus has them.                                    *)

Distinct(q) == \A i, j \in 1 .. Len(q) : q[i] = q[j] => i = j

(* What is behind the place k. *)
Rest(q, k) == SubSeq(q, k + 1, Len(q))

(* What is behind y. *)
Behind(y, q) == Rest(q, CHOOSE k \in 1 .. Len(q) : q[k] = y)

LEMMA RestHas ==
    ASSUME NEW S, NEW q \in Seq(S), NEW k \in 0 .. Len(q)
    PROVE  /\ Rest(q, k) \in Seq(S) /\ Len(Rest(q, k)) = Len(q) - k
           /\ \A i \in 1 .. Len(q) - k : Rest(q, k)[i] = q[k + i]
<1>1. Len(q) \in Nat /\ k \in Nat /\ k <= Len(q)
    OBVIOUS
<1>2. k + 1 \in Int /\ Len(q) \in Int /\ \A i \in k + 1 .. Len(q) : q[i] \in S
    BY <1>1
<1>3. /\ Rest(q, k) \in Seq(S)
      /\ Len(Rest(q, k)) = IF k + 1 <= Len(q) THEN Len(q) - (k + 1) + 1 ELSE 0
      /\ \A i \in 1 .. Len(q) - (k + 1) + 1 : Rest(q, k)[i] = q[(k + 1) + i - 1]
    BY <1>2, SubSeqProperties DEF Rest
<1>4. Len(q) - (k + 1) + 1 = Len(q) - k /\ \A i \in Int : (k + 1) + i - 1 = k + i
    BY <1>1
<1>5. Len(Rest(q, k)) = Len(q) - k
    BY <1>1, <1>3
<1>6. ASSUME NEW i \in 1 .. Len(q) - k PROVE Rest(q, k)[i] = q[k + i]
    <2>1. i \in Int /\ i \in 1 .. Len(q) - (k + 1) + 1
        BY <1>1, <1>4
    <2>2. Rest(q, k)[i] = q[(k + 1) + i - 1]
        BY <1>3, <2>1
    <2>3. (k + 1) + i - 1 = k + i
        BY <1>4, <2>1
    <2> QED BY <2>2, <2>3
<1> QED BY <1>3, <1>5, <1>6

LEMMA BehindIs ==
    ASSUME NEW S, NEW q \in Seq(S), Distinct(q), NEW k \in 1 .. Len(q)
    PROVE  Behind(q[k], q) = Rest(q, k)
<1>1. \A j \in 1 .. Len(q) : q[j] = q[k] <=> j = k
    BY DEF Distinct
<1>2. (CHOOSE j \in 1 .. Len(q) : q[j] = q[k]) = k
    <2>1. \E j \in 1 .. Len(q) : q[j] = q[k]
        OBVIOUS
    <2> QED BY <1>1, <2>1
<1> QED BY <1>2 DEF Behind

LEMMA LessIs ==
    ASSUME NEW S, NEW q \in Seq(S), Distinct(q)
    PROVE  /\ \A k \in 1 .. Len(q) : Bus!Less(q, q[k]) = Cut(q, k)
           /\ \A x : x \notin ToSet(q) => Bus!Less(q, x) = q
<1>1. ASSUME NEW k \in 1 .. Len(q) PROVE Bus!Less(q, q[k]) = Cut(q, k)
    <2>1. DOMAIN q = 1 .. Len(q) /\ Len(q) \in Nat
        OBVIOUS
    <2>2. (CHOOSE j \in DOMAIN q : q[j] = q[k]) = k
        <3>1. \A j \in DOMAIN q : q[j] = q[k] <=> j = k
            BY <2>1 DEF Distinct
        <3>2. \E j \in DOMAIN q : q[j] = q[k]
            BY <2>1
        <3> QED BY <3>1, <3>2
    <2>3. Bus!Contains(q, q[k])
        <3>1. \E i \in 1 .. Len(q) : q[i] = q[k]
            OBVIOUS
        <3> QED BY <3>1 DEF Bus!Contains
    <2>4. Bus!Less(q, q[k]) = Bus!RemoveAt(q, k)
        BY <2>2, <2>3 DEF Bus!Less
    <2> DEFINE a == SubSeq(q, 1, k - 1)
               b == SubSeq(q, k + 1, Len(q))
    <2>5. a \in Seq(S) /\ Len(a) = k - 1 /\ \A i \in 1 .. k - 1 : a[i] = q[i]
        <3>1. k - 1 \in Int /\ 1 \in Int /\ \A i \in 1 .. k - 1 : q[i] \in S
            BY <2>1
        <3>2. /\ a \in Seq(S) /\ Len(a) = IF 1 <= k - 1 THEN (k - 1) - 1 + 1 ELSE 0
              /\ \A i \in 1 .. (k - 1) - 1 + 1 : a[i] = q[1 + i - 1]
            BY <3>1, SubSeqProperties
        <3>3. (k - 1) - 1 + 1 = k - 1 /\ \A i \in Int : 1 + i - 1 = i
            BY <2>1
        <3>4. Len(a) = k - 1
            BY <2>1, <3>2
        <3> HIDE DEF a
        <3>5. ASSUME NEW i \in 1 .. k - 1 PROVE a[i] = q[i]
            BY <3>2, <3>3
        <3> QED BY <3>2, <3>4, <3>5
    <2>6. b \in Seq(S) /\ Len(b) = Len(q) - k /\ \A i \in 1 .. Len(q) - k : b[i] = q[k + i]
        <3>1. k \in 0 .. Len(q)
            BY <2>1
        <3> QED BY <3>1, RestHas DEF Rest
    <2>7. Bus!RemoveAt(q, k) = a \o b
        BY DEF Bus!RemoveAt
    <2> HIDE DEF a, b
    <2>8. /\ a \o b \in Seq(S) /\ Len(a \o b) = Len(q) - 1
          /\ \A i \in 1 .. Len(q) - 1 : (a \o b)[i] = IF i < k THEN q[i] ELSE q[i + 1]
        <3>1. /\ a \o b \in Seq(S) /\ Len(a \o b) = Len(a) + Len(b)
              /\ \A i \in 1 .. Len(a) + Len(b) : (a \o b)[i] = IF i <= Len(a) THEN a[i] ELSE b[i - Len(a)]
            BY <2>5, <2>6, ConcatProperties
        <3>2. Len(a) + Len(b) = Len(q) - 1
            BY <2>1, <2>5, <2>6
        <3>3. ASSUME NEW i \in 1 .. Len(q) - 1
              PROVE  (a \o b)[i] = IF i < k THEN q[i] ELSE q[i + 1]
            <4>1. CASE i < k
                <5>1. i \in 1 .. k - 1 /\ i <= Len(a)
                    BY <2>1, <2>5, <4>1
                <5> QED BY <2>5, <3>1, <3>2, <4>1, <5>1
            <4>2. CASE ~(i < k)
                <5>1. ~(i <= Len(a)) /\ i - Len(a) \in 1 .. Len(q) - k /\ k + (i - Len(a)) = i + 1
                    BY <2>1, <2>5, <4>2
                <5>2. (a \o b)[i] = b[i - Len(a)]
                    BY <3>1, <3>2, <5>1
                <5> QED BY <2>6, <4>2, <5>1, <5>2
            <4> QED BY <4>1, <4>2
        <3> QED BY <3>1, <3>2, <3>3
    <2>9. /\ Cut(q, k) \in Seq(S) /\ Len(Cut(q, k)) = Len(q) - 1
          /\ \A i \in 1 .. Len(q) - 1 : Cut(q, k)[i] = IF i < k THEN q[i] ELSE q[i + 1]
        <3>1. \A i \in 1 .. Len(q) - 1 : q[i] \in S /\ q[i + 1] \in S
            BY <2>1
        <3>2. Len(q) - 1 \in Nat
            BY <2>1
        <3>3. Cut(q, k) \in [1 .. Len(q) - 1 -> S]
            BY <3>1 DEF Cut
        <3> QED BY <3>2, <3>3 DEF Cut
    <2>10. a \o b = Cut(q, k)
        BY <2>8, <2>9, SeqEqual
    <2> QED BY <2>4, <2>7, <2>10
<1>2. ASSUME NEW x, x \notin ToSet(q) PROVE Bus!Less(q, x) = q
    <2>1. ~Bus!Contains(q, x)
        <3>1. \A k \in 1 .. Len(q) : q[k] \in ToSet(q)
            BY ElementsAreAt
        <3> QED BY <1>2, <3>1 DEF Bus!Contains
    <2> QED BY <2>1 DEF Bus!Less
<1> QED BY <1>1, <1>2

LEMMA BehindGrows ==
    ASSUME NEW S, NEW q \in Seq(S), Distinct(q), NEW x \in S, x \notin ToSet(q),
           NEW k \in 1 .. Len(q)
    PROVE  /\ Append(q, x) \in Seq(S) /\ Distinct(Append(q, x))
           /\ Behind(q[k], Append(q, x)) = Append(Behind(q[k], q), x)
<1> DEFINE d == Append(q, x)
<1>1. Len(q) \in Nat /\ k \in Nat /\ k <= Len(q) /\ k \in 0 .. Len(q)
    OBVIOUS
<1>2. /\ d \in Seq(S) /\ Len(d) = Len(q) + 1
      /\ \A i \in 1 .. Len(q) : d[i] = q[i]
      /\ d[Len(q) + 1] = x
    BY AppendProperties
<1> HIDE DEF d
<1>3. \A i \in 1 .. Len(q) : q[i] # x
    BY ElementsAreAt
<1>4. Distinct(d)
    <2> SUFFICES ASSUME NEW i \in 1 .. Len(d), NEW j \in 1 .. Len(d), d[i] = d[j]
                 PROVE  i = j
        BY DEF Distinct
    <2>1. /\ i \in 1 .. Len(q) \/ i = Len(q) + 1
          /\ j \in 1 .. Len(q) \/ j = Len(q) + 1
        BY <1>1, <1>2
    <2>2. CASE i \in 1 .. Len(q) /\ j \in 1 .. Len(q)
        BY <1>2, <2>2 DEF Distinct
    <2> QED BY <1>2, <1>3, <2>1, <2>2
<1>5. k \in 1 .. Len(d) /\ k \in 0 .. Len(d) /\ d[k] = q[k]
    BY <1>1, <1>2
<1>6. Behind(q[k], d) = Rest(d, k) /\ Behind(q[k], q) = Rest(q, k)
    BY <1>2, <1>4, <1>5, BehindIs
<1>7. /\ Rest(d, k) \in Seq(S) /\ Len(Rest(d, k)) = Len(d) - k
      /\ \A i \in 1 .. Len(d) - k : Rest(d, k)[i] = d[k + i]
    BY <1>2, <1>5, RestHas
<1>8. /\ Rest(q, k) \in Seq(S) /\ Len(Rest(q, k)) = Len(q) - k
      /\ \A i \in 1 .. Len(q) - k : Rest(q, k)[i] = q[k + i]
    BY <1>1, RestHas
<1> DEFINE r == Rest(q, k)
           e == Append(r, x)
<1>9. /\ e \in Seq(S) /\ Len(e) = Len(r) + 1
      /\ \A i \in 1 .. Len(r) : e[i] = r[i]
      /\ e[Len(r) + 1] = x
    <2>1. r \in Seq(S)
        BY <1>8
    <2> HIDE DEF r
    <2> QED BY <2>1, AppendProperties
<1> HIDE DEF e
<1>10. Len(e) = Len(Rest(d, k))
    BY <1>1, <1>2, <1>7, <1>8, <1>9
<1>11. ASSUME NEW i \in 1 .. Len(d) - k PROVE Rest(d, k)[i] = e[i]
    <2>1. CASE i <= Len(q) - k
        <3>1. i \in 1 .. Len(q) - k /\ k + i \in 1 .. Len(q)
            BY <1>1, <2>1
        <3>2. e[i] = r[i]
            BY <1>8, <1>9, <3>1
        <3> QED BY <1>2, <1>7, <1>8, <3>1, <3>2
    <2>2. CASE ~(i <= Len(q) - k)
        <3>1. i = Len(q) - k + 1 /\ k + i = Len(q) + 1
            BY <1>1, <1>2, <2>2
        <3>2. e[i] = x
            BY <1>8, <1>9, <3>1
        <3> QED BY <1>2, <1>7, <3>1, <3>2
    <2> QED BY <2>1, <2>2
<1>12. Rest(d, k) = e
    BY <1>7, <1>9, <1>10, <1>11, SeqEqual
<1> QED BY <1>2, <1>4, <1>6, <1>12 DEF d, e

LEMMA CutIsDistinct ==
    ASSUME NEW S, NEW q \in Seq(S), Distinct(q), NEW k \in 1 .. Len(q)
    PROVE  /\ Cut(q, k) \in Seq(S) /\ Len(Cut(q, k)) = Len(q) - 1
           /\ \A i \in 1 .. Len(q) - 1 : Cut(q, k)[i] = IF i < k THEN q[i] ELSE q[i + 1]
           /\ Distinct(Cut(q, k))
<1>1. Len(q) \in Nat /\ k \in Nat /\ Len(q) - 1 \in Nat
    OBVIOUS
<1>2. \A i \in 1 .. Len(q) - 1 : i \in 1 .. Len(q) /\ i + 1 \in 1 .. Len(q)
    BY <1>1
<1>3. Cut(q, k) \in [1 .. Len(q) - 1 -> S]
    BY <1>2 DEF Cut
<1>4. Cut(q, k) \in Seq(S) /\ Len(Cut(q, k)) = Len(q) - 1
    BY <1>1, <1>3
<1>5. \A i \in 1 .. Len(q) - 1 : Cut(q, k)[i] = IF i < k THEN q[i] ELSE q[i + 1]
    BY DEF Cut
<1> DEFINE Place(i) == IF i < k THEN i ELSE i + 1
<1>6. ASSUME NEW i \in 1 .. Len(q) - 1, NEW j \in 1 .. Len(q) - 1, Cut(q, k)[i] = Cut(q, k)[j]
      PROVE  i = j
    <2>1. Cut(q, k)[i] = q[Place(i)] /\ Cut(q, k)[j] = q[Place(j)]
        BY <1>5
    <2>2. Place(i) \in 1 .. Len(q) /\ Place(j) \in 1 .. Len(q)
        BY <1>2
    <2> HIDE DEF Place
    <2>3. Place(i) = Place(j)
        BY <1>6, <2>1, <2>2 DEF Distinct
    <2> QED BY <1>1, <2>3 DEF Place
<1> HIDE DEF Place
<1>7. Distinct(Cut(q, k))
    <2> DEFINE d == Cut(q, k)
    <2>1. Len(d) = Len(q) - 1 /\ \A i, j \in 1 .. Len(q) - 1 : d[i] = d[j] => i = j
        BY <1>4, <1>6
    <2> HIDE DEF d
    <2>2. Distinct(d)
        BY <2>1 DEF Distinct
    <2> QED BY <2>2 DEF d
<1> QED BY <1>4, <1>5, <1>7

LEMMA BehindIsCut ==
    ASSUME NEW S, NEW q \in Seq(S), Distinct(q),
           NEW k \in 1 .. Len(q), NEW j \in 1 .. Len(q), j # k
    PROVE  Behind(q[j], Cut(q, k)) = Bus!Less(Behind(q[j], q), q[k])
<1> DEFINE d == Cut(q, k)
           r == Rest(q, j)
           n == Len(q)
           p == IF j < k THEN j ELSE j - 1
<1>1. n \in Nat /\ k \in Nat /\ j \in Nat /\ k <= n /\ j <= n /\ j \in 0 .. n
    OBVIOUS
<1>2. /\ d \in Seq(S) /\ Len(d) = n - 1 /\ Distinct(d)
      /\ \A i \in 1 .. n - 1 : d[i] = IF i < k THEN q[i] ELSE q[i + 1]
    BY CutIsDistinct
<1>3. /\ r \in Seq(S) /\ Len(r) = n - j
      /\ \A i \in 1 .. n - j : r[i] = q[j + i]
    BY <1>1, RestHas
<1>4. Behind(q[j], q) = r
    BY BehindIs
<1> HIDE DEF d, r, n
<1>5. p \in 1 .. n - 1 /\ p \in 0 .. n - 1 /\ d[p] = q[j]
    <2>1. CASE j < k
        <3>1. p = j /\ j \in 1 .. n - 1
            BY <1>1, <2>1 DEF n
        <3> QED BY <1>1, <1>2, <2>1, <3>1
    <2>2. CASE ~(j < k)
        <3>1. p = j - 1 /\ j - 1 \in 1 .. n - 1 /\ ~(j - 1 < k) /\ (j - 1) + 1 = j
            BY <1>1, <2>2 DEF n
        <3> QED BY <1>1, <1>2, <3>1
    <2> QED BY <2>1, <2>2
<1> DEFINE e == Rest(d, p)
<1> HIDE DEF p
<1>6. Behind(q[j], d) = e
    BY <1>2, <1>5, BehindIs
<1>7. /\ e \in Seq(S) /\ Len(e) = n - 1 - p
      /\ \A i \in 1 .. n - 1 - p : e[i] = d[p + i]
    <2>1. d \in Seq(S) /\ p \in 0 .. Len(d)
        BY <1>2, <1>5
    <2>2. /\ e \in Seq(S) /\ Len(e) = Len(d) - p
          /\ \A i \in 1 .. Len(d) - p : e[i] = d[p + i]
        BY <2>1, RestHas
    <2> HIDE DEF e
    <2> QED BY <1>2, <2>2
<1> HIDE DEF e
<1>8. Distinct(r)
    <2> SUFFICES ASSUME NEW h \in 1 .. Len(r), NEW i \in 1 .. Len(r), r[h] = r[i]
                 PROVE  h = i
        BY DEF Distinct
    <2>1. /\ h \in 1 .. n - j /\ i \in 1 .. n - j
          /\ j + h \in 1 .. Len(q) /\ j + i \in 1 .. Len(q)
        BY <1>1, <1>3 DEF n
    <2>2. j + h = j + i
        BY <1>3, <2>1 DEF Distinct
    <2> QED BY <1>1, <2>1, <2>2
<1>9. CASE j < k
    <2>1. k - j \in 1 .. Len(r) /\ k - j \in 1 .. n - j /\ r[k - j] = q[k] /\ p = j
        <3>1. k - j \in 1 .. n - j /\ j + (k - j) = k
            BY <1>1, <1>9
        <3> QED BY <1>3, <1>9, <3>1 DEF p
    <2>2. Bus!Less(r, q[k]) = Cut(r, k - j)
        BY <1>3, <1>8, <2>1, LessIs
    <2>3. /\ Cut(r, k - j) \in Seq(S) /\ Len(Cut(r, k - j)) = n - j - 1
          /\ \A i \in 1 .. n - j - 1 : Cut(r, k - j)[i] = IF i < k - j THEN r[i] ELSE r[i + 1]
        <3> DEFINE h == k - j
        <3>1. r \in Seq(S) /\ Distinct(r) /\ h \in 1 .. Len(r) /\ Len(r) = n - j
            BY <1>3, <1>8, <2>1
        <3> HIDE DEF h
        <3>2. /\ Cut(r, h) \in Seq(S) /\ Len(Cut(r, h)) = n - j - 1
              /\ \A i \in 1 .. n - j - 1 : Cut(r, h)[i] = IF i < h THEN r[i] ELSE r[i + 1]
            BY <3>1, CutIsDistinct
        <3> QED BY <3>2 DEF h
    <2>4. Len(e) = Len(Cut(r, k - j))
        BY <1>1, <1>7, <2>1, <2>3
    <2>5. ASSUME NEW i \in 1 .. Len(e) PROVE e[i] = Cut(r, k - j)[i]
        <3>1. /\ i \in 1 .. n - 1 - p /\ i \in 1 .. n - j - 1 /\ p + i \in 1 .. n - 1
              /\ i \in 1 .. n - j /\ i + 1 \in 1 .. n - j
              /\ p + i = j + i /\ j + (i + 1) = (p + i) + 1 /\ (p + i < k <=> i < k - j)
            BY <1>1, <1>7, <2>1
        <3>2. e[i] = IF p + i < k THEN q[p + i] ELSE q[(p + i) + 1]
            BY <1>2, <1>7, <3>1
        <3>3. Cut(r, k - j)[i] = IF i < k - j THEN q[j + i] ELSE q[j + (i + 1)]
            BY <1>3, <2>3, <3>1
        <3> QED BY <3>1, <3>2, <3>3
    <2>6. e = Cut(r, k - j)
        BY <1>7, <2>3, <2>4, <2>5, SeqEqual
    <2> QED BY <1>4, <1>6, <2>2, <2>6 DEF d
<1>10. CASE ~(j < k)
    <2>1. p = j - 1 /\ k < j
        BY <1>1, <1>10 DEF p
    <2>2. q[k] \notin ToSet(r)
        <3> SUFFICES ASSUME NEW i \in 1 .. Len(r), r[i] = q[k] PROVE FALSE
            BY <1>3, ElementsAreAt
        <3>1. i \in 1 .. n - j /\ j + i \in 1 .. Len(q) /\ j + i # k
            BY <1>1, <1>3, <2>1 DEF n
        <3> QED BY <1>3, <3>1 DEF Distinct
    <2>3. Bus!Less(r, q[k]) = r
        BY <1>3, <1>8, <2>2, LessIs
    <2>4. Len(e) = Len(r)
        BY <1>1, <1>3, <1>7, <2>1
    <2>5. ASSUME NEW i \in 1 .. Len(e) PROVE e[i] = r[i]
        <3>1. /\ i \in 1 .. n - 1 - p /\ i \in 1 .. n - j /\ p + i \in 1 .. n - 1
              /\ ~(p + i < k) /\ (p + i) + 1 = j + i
            BY <1>1, <1>7, <2>1
        <3> QED BY <1>2, <1>3, <1>7, <3>1
    <2>6. e = r
        BY <1>3, <1>7, <2>4, <2>5, SeqEqual
    <2> QED BY <1>4, <1>6, <2>3, <2>6 DEF d
<1> QED BY <1>9, <1>10

LEMMA BehindFirst ==
    ASSUME NEW S, NEW q \in Seq(S), Distinct(q), q # << >>
    PROVE  Head(q) = q[1] /\ Behind(q[1], q) = Tail(q)
<1>1. Len(q) \in Nat /\ 1 \in 1 .. Len(q) /\ 1 \in 0 .. Len(q) /\ Head(q) = q[1]
    <2>1. Len(q) >= 1
        BY EmptySeq
    <2> QED BY <2>1
<1>2. Behind(q[1], q) = Rest(q, 1)
    BY <1>1, BehindIs
<1>3. /\ Rest(q, 1) \in Seq(S) /\ Len(Rest(q, 1)) = Len(q) - 1
      /\ \A i \in 1 .. Len(q) - 1 : Rest(q, 1)[i] = q[1 + i]
    BY <1>1, RestHas
<1>4. /\ Tail(q) \in Seq(S) /\ Len(Tail(q)) = Len(q) - 1
      /\ \A i \in 1 .. Len(Tail(q)) : Tail(q)[i] = q[i + 1]
    BY HeadTailProperties
<1>5. \A i \in 1 .. Len(q) - 1 : 1 + i = i + 1
    OBVIOUS
<1>6. \A i \in 1 .. Len(Tail(q)) : Tail(q)[i] = Rest(q, 1)[i]
    BY <1>3, <1>4, <1>5
<1>7. Tail(q) = Rest(q, 1)
    BY <1>3, <1>4, <1>6, SeqEqual
<1> QED BY <1>1, <1>2, <1>7

LEMMA BehindNext ==
    ASSUME NEW S, NEW q \in Seq(S), Distinct(q), NEW k \in 1 .. Len(q)
    PROVE  /\ k = Len(q) => Behind(q[k], q) = << >>
           /\ k < Len(q) => /\ Behind(q[k], q) # << >>
                            /\ Head(Behind(q[k], q)) = q[k + 1]
                            /\ Tail(Behind(q[k], q)) = Behind(q[k + 1], q)
<1> DEFINE r == Rest(q, k)
<1>1. Len(q) \in Nat /\ k \in Nat /\ k <= Len(q) /\ k \in 0 .. Len(q)
    OBVIOUS
<1>2. Behind(q[k], q) = r
    BY BehindIs
<1>3. /\ r \in Seq(S) /\ Len(r) = Len(q) - k
      /\ \A i \in 1 .. Len(q) - k : r[i] = q[k + i]
    BY <1>1, RestHas
<1> HIDE DEF r
<1>4. k = Len(q) => r = << >>
    <2>1. k = Len(q) => Len(r) = 0
        BY <1>1, <1>3
    <2> QED BY <1>3, <2>1, EmptySeq
<1>5. ASSUME k < Len(q)
      PROVE  r # << >> /\ Head(r) = q[k + 1] /\ Tail(r) = Behind(q[k + 1], q)
    <2>1. k + 1 \in 1 .. Len(q) /\ k + 1 \in 0 .. Len(q) /\ 1 \in 1 .. Len(q) - k /\ Len(r) # 0
        BY <1>1, <1>3, <1>5
    <2>2. r # << >>
        BY <1>3, <2>1, EmptySeq
    <2>3. Head(r) = q[k + 1]
        BY <1>3, <2>1, <2>2
    <2>4. /\ Tail(r) \in Seq(S) /\ Len(Tail(r)) = Len(r) - 1
          /\ \A i \in 1 .. Len(Tail(r)) : Tail(r)[i] = r[i + 1]
        BY <1>3, <2>2, HeadTailProperties
    <2>5. Behind(q[k + 1], q) = Rest(q, k + 1)
        BY <2>1, BehindIs
    <2>6. /\ Rest(q, k + 1) \in Seq(S) /\ Len(Rest(q, k + 1)) = Len(q) - (k + 1)
          /\ \A i \in 1 .. Len(q) - (k + 1) : Rest(q, k + 1)[i] = q[(k + 1) + i]
        BY <2>1, RestHas
    <2>7. Len(Tail(r)) = Len(Rest(q, k + 1)) /\ Len(Tail(r)) = Len(q) - (k + 1)
        BY <1>1, <1>3, <2>4, <2>6
    <2>8. ASSUME NEW i \in 1 .. Len(Tail(r)) PROVE Tail(r)[i] = Rest(q, k + 1)[i]
        <3>1. i \in 1 .. Len(q) - (k + 1) /\ i + 1 \in 1 .. Len(q) - k /\ (k + 1) + i = k + (i + 1)
            BY <1>1, <2>7
        <3> QED BY <1>3, <2>4, <2>6, <3>1
    <2>9. Tail(r) = Rest(q, k + 1)
        BY <2>4, <2>6, <2>7, <2>8, SeqEqual
    <2> QED BY <2>2, <2>3, <2>5, <2>9
<1> QED BY <1>2, <1>4, <1>5

(* The slots of a list of nodes. *)
NamesOf(list, names) == [k \in DOMAIN list |-> names[list[k]]]

LEMMA NamesHave ==
    ASSUME NEW c \in Seq(Node), NEW names, \A n \in ToSet(c) : names[n] \in Slot
    PROVE  /\ NamesOf(c, names) \in Seq(Slot) /\ Len(NamesOf(c, names)) = Len(c)
           /\ \A k \in 1 .. Len(c) : NamesOf(c, names)[k] = names[c[k]]
<1>1. DOMAIN c = 1 .. Len(c) /\ Len(c) \in Nat
    OBVIOUS
<1>2. \A k \in 1 .. Len(c) : names[c[k]] \in Slot
    BY ElementsAreAt
<1>3. NamesOf(c, names) = [k \in 1 .. Len(c) |-> names[c[k]]]
    BY <1>1 DEF NamesOf
<1>4. NamesOf(c, names) \in [1 .. Len(c) -> Slot]
    BY <1>2, <1>3
<1> QED BY <1>1, <1>3, <1>4

LEMMA NamesOfRest ==
    ASSUME NEW c \in Seq(Node), NEW names, \A n \in ToSet(c) : names[n] \in Slot,
           NEW k \in 0 .. Len(c)
    PROVE  NamesOf(Rest(c, k), names) = Rest(NamesOf(c, names), k)
<1> DEFINE q == NamesOf(c, names)
           r == Rest(c, k)
<1>1. /\ q \in Seq(Slot) /\ Len(q) = Len(c)
      /\ \A i \in 1 .. Len(c) : q[i] = names[c[i]]
    BY NamesHave
<1>2. /\ r \in Seq(Node) /\ Len(r) = Len(c) - k
      /\ \A i \in 1 .. Len(c) - k : r[i] = c[k + i]
    BY RestHas
<1> HIDE DEF q, r
<1>3. Len(c) \in Nat /\ k \in Nat /\ \A i \in 1 .. Len(c) - k : k + i \in 1 .. Len(c)
    OBVIOUS
<1>4. \A n \in ToSet(r) : names[n] \in Slot
    <2>1. \A i \in 1 .. Len(r) : r[i] \in ToSet(c)
        BY <1>2, <1>3, ElementsAreAt
    <2> QED BY <1>2, <2>1, ElementsAreAt
<1>5. /\ NamesOf(r, names) \in Seq(Slot) /\ Len(NamesOf(r, names)) = Len(r)
      /\ \A i \in 1 .. Len(r) : NamesOf(r, names)[i] = names[r[i]]
    BY <1>2, <1>4, NamesHave
<1>6. k \in 0 .. Len(q)
    BY <1>1
<1>7. /\ Rest(q, k) \in Seq(Slot) /\ Len(Rest(q, k)) = Len(q) - k
      /\ \A i \in 1 .. Len(q) - k : Rest(q, k)[i] = q[k + i]
    BY <1>1, <1>6, RestHas
<1>8. Len(NamesOf(r, names)) = Len(Rest(q, k))
    BY <1>1, <1>2, <1>5, <1>7
<1>9. ASSUME NEW i \in 1 .. Len(NamesOf(r, names)) PROVE NamesOf(r, names)[i] = Rest(q, k)[i]
    <2>1. i \in 1 .. Len(r) /\ i \in 1 .. Len(c) - k /\ i \in 1 .. Len(q) - k /\ k + i \in 1 .. Len(c)
        BY <1>1, <1>2, <1>3, <1>5
    <2>2. NamesOf(r, names)[i] = names[c[k + i]]
        BY <1>2, <1>5, <2>1
    <2>3. Rest(q, k)[i] = names[c[k + i]]
        BY <1>1, <1>7, <2>1
    <2> QED BY <2>2, <2>3
<1>10. NamesOf(r, names) = Rest(q, k)
    BY <1>5, <1>7, <1>8, <1>9, SeqEqual
<1> QED BY <1>10 DEF q, r

LEMMA PathBehind ==
    ASSUME NEW c, NEW first, NEW links, IsPath(c, first, links), NEW k \in 1 .. Len(c)
    PROVE  ChainIn(links, links[c[k]]) = Rest(c, k)
<1> DEFINE r == Rest(c, k)
<1>1. c \in Seq(Node) /\ Len(c) \in Nat /\ k \in Nat /\ k <= Len(c) /\ k \in 0 .. Len(c)
    BY DEF IsPath
<1>2. /\ \A i \in 1 .. Len(c) - 1 : links[c[i]] = c[i + 1]
      /\ \A i, j \in 1 .. Len(c) : c[i] = c[j] => i = j
      /\ links[c[Len(c)]] = Null
    <2>1. c # << >>
        BY <1>1, EmptySeq
    <2> QED BY <2>1 DEF IsPath
<1>3. /\ r \in Seq(Node) /\ Len(r) = Len(c) - k
      /\ \A i \in 1 .. Len(c) - k : r[i] = c[k + i]
    BY <1>1, RestHas
<1> HIDE DEF r
<1>4. r = << >> => links[c[k]] = Null
    <2>1. r = << >> => k = Len(c)
        BY <1>1, <1>3, EmptySeq
    <2> QED BY <1>2, <2>1
<1>5. r # << >> => r[1] = links[c[k]] /\ links[r[Len(r)]] = Null
    <2> SUFFICES ASSUME r # << >> PROVE r[1] = links[c[k]] /\ links[r[Len(r)]] = Null
        OBVIOUS
    <2>1. Len(r) # 0
        BY <1>3, EmptySeq
    <2>2. /\ k \in 1 .. Len(c) - 1 /\ 1 \in 1 .. Len(c) - k
          /\ Len(r) \in 1 .. Len(c) - k /\ k + Len(r) = Len(c)
        BY <1>1, <1>3, <2>1
    <2>3. r[1] = c[k + 1] /\ r[Len(r)] = c[Len(c)]
        BY <1>3, <2>2
    <2> QED BY <1>2, <2>2, <2>3
<1>6. ASSUME NEW i \in 1 .. Len(r) - 1 PROVE links[r[i]] = r[i + 1]
    <2>1. /\ i \in 1 .. Len(c) - k /\ i + 1 \in 1 .. Len(c) - k
          /\ k + i \in 1 .. Len(c) - 1 /\ k + (i + 1) = (k + i) + 1
        BY <1>1, <1>3
    <2>2. r[i] = c[k + i] /\ r[i + 1] = c[(k + i) + 1]
        BY <1>3, <2>1
    <2> QED BY <1>2, <2>1, <2>2
<1>7. ASSUME NEW i \in 1 .. Len(r), NEW j \in 1 .. Len(r), r[i] = r[j] PROVE i = j
    <2>1. /\ i \in 1 .. Len(c) - k /\ j \in 1 .. Len(c) - k
          /\ k + i \in 1 .. Len(c) /\ k + j \in 1 .. Len(c)
        BY <1>1, <1>3
    <2>2. k + i = k + j
        BY <1>2, <1>3, <1>7, <2>1
    <2> QED BY <1>1, <2>1, <2>2
<1>8. IsPath(r, links[c[k]], links)
    BY <1>3, <1>4, <1>5, <1>6, <1>7 DEF IsPath
<1> QED BY <1>8, ChainIsThePath DEF r
-----------------------------------------------------------------------------
(* The state that the bus sees. *)

Conn == [s \in Signal |-> NamesOf(Lists[s], slot)]

Shown(entry, place, conn) ==
    [signal |-> entry.signal, cmd |-> entry.cmd,
     todo |-> Behind(entry.cmd, conn[entry.signal]), data |-> place]

Shows(entries, conn) == [i \in 1 .. Len(entries) |-> Shown(entries[i], i, conn)]

(* The slot that each entry runs is connected. *)
RunsIn(entries, conn) ==
    \A i \in 1 .. Len(entries) :
        \E k \in 1 .. Len(conn[entries[i].signal]) : conn[entries[i].signal][k] = entries[i].cmd

(* A signal has the data of the one activation that runs it. *)
DataInv ==
    "reenter" \notin allowed => \A i \in 1 .. Len(stack) : m_data[stack[i].signal] = i

LEMMA ConnHas ==
    ASSUME PoolInv
    PROVE  /\ ConnectedSlots = Conn
           /\ Conn \in [Signal -> Seq(Slot)]
           /\ \A s \in Signal :
                  /\ Len(Conn[s]) = Len(Lists[s])
                  /\ \A k \in 1 .. Len(Lists[s]) : Conn[s][k] = slot[Lists[s][k]]
                  /\ Distinct(Conn[s])
<1>1. ASSUME NEW s \in Signal
      PROVE  /\ Lists[s] \in Seq(Node) /\ Lists[s] = Chain(m_slotList[s])
             /\ NamedOnce(Lists[s], slot)
             /\ \A n \in ToSet(Lists[s]) : slot[n] \in Slot
    BY PoolFacts DEF PoolInv
<1>2. ASSUME NEW s \in Signal
      PROVE  /\ NamesOf(Lists[s], slot) \in Seq(Slot)
             /\ Len(NamesOf(Lists[s], slot)) = Len(Lists[s])
             /\ \A k \in 1 .. Len(Lists[s]) : NamesOf(Lists[s], slot)[k] = slot[Lists[s][k]]
    BY <1>1, NamesHave
<1>3. \A s \in Signal : Conn[s] = NamesOf(Lists[s], slot)
    BY DEF Conn
<1>4. Conn \in [Signal -> Seq(Slot)]
    BY <1>2 DEF Conn
<1>5. ASSUME NEW s \in Signal
      PROVE  /\ Len(Conn[s]) = Len(Lists[s])
             /\ \A k \in 1 .. Len(Lists[s]) : Conn[s][k] = slot[Lists[s][k]]
             /\ Distinct(Conn[s])
    <2>1. /\ Len(Conn[s]) = Len(Lists[s])
          /\ \A k \in 1 .. Len(Lists[s]) : Conn[s][k] = slot[Lists[s][k]]
        BY <1>2, <1>3
    <2>2. NamedOnce(Lists[s], slot)
        BY <1>1
    <2>3. Distinct(Conn[s])
        BY <2>1, <2>2 DEF NamedOnce, Distinct
    <2> QED BY <2>1, <2>3
<1>6. ASSUME NEW s \in Signal PROVE Connected(s) = NamesOf(Lists[s], slot)
    BY <1>1 DEF Connected, SlotsOf, NamesOf
<1>7. ConnectedSlots = Conn
    BY <1>6 DEF ConnectedSlots, Conn
<1> QED BY <1>4, <1>5, <1>7

LEMMA CursorIsKnown ==
    ASSUME IInv, Orderly, NEW i \in 1 .. Len(stack)
    PROVE  /\ stack[i].signal \in Signal
           /\ \E k \in 1 .. Len(Lists[stack[i].signal]) :
                  /\ m_lastGetSlot[stack[i].signal] = Lists[stack[i].signal][k]
                  /\ slot[Lists[stack[i].signal][k]] = stack[i].cmd
<1> DEFINE s == stack[i].signal
<1>1. PoolInv /\ StackInv /\ CursorInv /\ WalkInv
    BY DEF IInv
<1>2. "disconnectRunning" \notin allowed /\ "reenter" \notin allowed
    BY DEF Orderly, Without
<1>3. s \in Signal /\ Len(stack) \in Nat
    BY <1>1, StackFacts
<1>4. Lists[s] \in Seq(Node)
    BY <1>1, <1>3, PoolFacts
<1>5. /\ m_lastGetSlot[s] # Null
      /\ \A j \in 1 .. Len(stack) : stack[j].signal = s => j = i
    BY <1>1, <1>2 DEF CursorInv
<1>6. \A j \in i + 1 .. Len(stack) : j \in 1 .. Len(stack) /\ j # i
    BY <1>3
<1>7. \A j \in i + 1 .. Len(stack) : stack[j].signal # s
    BY <1>5, <1>6
<1>8. (\A j \in i + 1 .. Len(stack) : stack[j].signal # s) =>
          \/ m_lastGetSlot[s] = Null
          \/ /\ m_lastGetSlot[s] \in ToSet(Lists[s])
             /\ slot[m_lastGetSlot[s]] = stack[i].cmd
    BY <1>1, <1>2 DEF WalkInv
<1>9. m_lastGetSlot[s] \in ToSet(Lists[s]) /\ slot[m_lastGetSlot[s]] = stack[i].cmd
    BY <1>5, <1>7, <1>8
<1> HIDE DEF s
<1>10. PICK k \in 1 .. Len(Lists[s]) : m_lastGetSlot[s] = Lists[s][k]
    BY <1>4, <1>9, ElementsAreAt
<1> QED BY <1>3, <1>9, <1>10 DEF s

LEMMA RunsInConn ==
    ASSUME IInv, Orderly
    PROVE  RunsIn(stack, Conn)
<1> SUFFICES ASSUME NEW i \in 1 .. Len(stack)
             PROVE  \E k \in 1 .. Len(Conn[stack[i].signal]) :
                        Conn[stack[i].signal][k] = stack[i].cmd
    BY DEF RunsIn
<1> DEFINE s == stack[i].signal
<1>1. s \in Signal
    BY CursorIsKnown
<1>2. PICK k \in 1 .. Len(Lists[s]) : slot[Lists[s][k]] = stack[i].cmd
    BY CursorIsKnown
<1> HIDE DEF s
<1>3. Len(Conn[s]) = Len(Lists[s]) /\ Conn[s][k] = slot[Lists[s][k]]
    BY <1>1, <1>2, ConnHas DEF IInv
<1> QED BY <1>2, <1>3 DEF s

LEMMA BusState ==
    IInv /\ DataInv /\ Orderly => ConnectedSlots = Conn /\ Dispatch = Shows(stack, Conn)
<1> SUFFICES ASSUME IInv, DataInv, Orderly
             PROVE  ConnectedSlots = Conn /\ Dispatch = Shows(stack, Conn)
    OBVIOUS
<1>1. PoolInv /\ StackInv
    BY DEF IInv
<1>2. ConnectedSlots = Conn
    BY <1>1, ConnHas
<1>3. DOMAIN stack = 1 .. Len(stack)
    BY <1>1, StackFacts
<1>4. ASSUME NEW i \in 1 .. Len(stack)
      PROVE  [signal |-> stack[i].signal, cmd |-> stack[i].cmd,
              todo |-> SlotsOf(Chain(next[m_lastGetSlot[stack[i].signal]])),
              data |-> m_data[stack[i].signal]] = Shown(stack[i], i, Conn)
    <2> DEFINE s == stack[i].signal
               c == Lists[s]
    <2>1. s \in Signal
        BY CursorIsKnown
    <2>2. PICK k \in 1 .. Len(c) : m_lastGetSlot[s] = c[k] /\ slot[c[k]] = stack[i].cmd
        BY CursorIsKnown
    <2>3. m_data[s] = i
        BY DEF DataInv, Orderly, Without
    <2> HIDE DEF s
    <2>4. /\ c \in Seq(Node) /\ IsPath(c, m_slotList[s], next)
          /\ \A n \in ToSet(c) : slot[n] \in Slot
        BY <1>1, <2>1, PoolFacts
    <2>5. Chain(next[m_lastGetSlot[s]]) = Rest(c, k)
        <3> HIDE DEF c
        <3>1. ChainIn(next, next[c[k]]) = Rest(c, k)
            BY <2>4, PathBehind
        <3> QED BY <2>2, <3>1 DEF Chain
    <2>6. SlotsOf(Rest(c, k)) = NamesOf(Rest(c, k), slot)
        BY DEF SlotsOf, NamesOf
    <2>7. NamesOf(Rest(c, k), slot) = Rest(NamesOf(c, slot), k)
        <3>1. k \in 0 .. Len(c)
            OBVIOUS
        <3> HIDE DEF c
        <3> QED BY <2>4, <3>1, NamesOfRest
    <2>8. Conn[s] = NamesOf(c, slot)
        BY <2>1 DEF Conn
    <2>9. /\ Conn[s] \in Seq(Slot) /\ Distinct(Conn[s]) /\ k \in 1 .. Len(Conn[s])
          /\ Conn[s][k] = stack[i].cmd
        BY <1>1, <2>1, <2>2, ConnHas
    <2>10. Behind(stack[i].cmd, Conn[s]) = Rest(Conn[s], k)
        BY <2>9, BehindIs
    <2>11. SlotsOf(Chain(next[m_lastGetSlot[s]])) = Behind(stack[i].cmd, Conn[s])
        BY <2>5, <2>6, <2>7, <2>8, <2>10
    <2> QED BY <2>3, <2>11 DEF s, Shown
<1>5. Dispatch = Shows(stack, Conn)
    BY <1>3, <1>4 DEF Dispatch, Shows
<1> QED BY <1>2, <1>5
-----------------------------------------------------------------------------
(* What the steps are to the bus. *)

AllShown(conn) == {Shown(e, i, conn) : e \in Entry, i \in Nat}

LEMMA ShowsHas ==
    ASSUME NEW entries \in Seq(Entry), NEW conn
    PROVE  /\ Shows(entries, conn) \in Seq(AllShown(conn))
           /\ Len(Shows(entries, conn)) = Len(entries)
           /\ DOMAIN Shows(entries, conn) = 1 .. Len(entries)
           /\ \A i \in 1 .. Len(entries) : Shows(entries, conn)[i] = Shown(entries[i], i, conn)
<1> DEFINE all == AllShown(conn)
           d == Shows(entries, conn)
<1>1. Len(entries) \in Nat /\ \A i \in 1 .. Len(entries) : i \in Nat /\ entries[i] \in Entry
    OBVIOUS
<1>2. d = [i \in 1 .. Len(entries) |-> Shown(entries[i], i, conn)]
    BY DEF Shows
<1>3. \A i \in 1 .. Len(entries) : Shown(entries[i], i, conn) \in all
    BY <1>1 DEF AllShown
<1> HIDE DEF all, d
<1>4. d \in [1 .. Len(entries) -> all]
    BY <1>2, <1>3
<1>5. d \in Seq(all) /\ Len(d) = Len(entries) /\ DOMAIN d = 1 .. Len(entries)
    BY <1>1, <1>2, <1>4
<1>6. \A i \in 1 .. Len(entries) : d[i] = Shown(entries[i], i, conn)
    BY <1>2
<1> QED BY <1>5, <1>6 DEF all, d

(* The activations d of s, once x has been connected to it, and once x has *)
(* been disconnected from it.                                              *)
WithLonger(d, s, x) ==
    [i \in DOMAIN d |-> IF d[i].signal = s
                        THEN [d[i] EXCEPT !.todo = Append(d[i].todo, x)]
                        ELSE d[i]]

WithShorter(d, s, x) ==
    [i \in DOMAIN d |-> IF d[i].signal = s
                        THEN [d[i] EXCEPT !.todo = Bus!Less(d[i].todo, x)]
                        ELSE d[i]]

LEMMA ShowsGrown ==
    ASSUME NEW entries \in Seq(Entry), NEW conn, NEW conn2, NEW s \in Signal, NEW x \in Slot,
           conn \in [Signal -> Seq(Slot)], \A t \in Signal : Distinct(conn[t]),
           x \notin ToSet(conn[s]), RunsIn(entries, conn),
           conn2[s] = Append(conn[s], x), \A t \in Signal : t # s => conn2[t] = conn[t]
    PROVE  Shows(entries, conn2) = WithLonger(Shows(entries, conn), s, x)
<1> DEFINE d == Shows(entries, conn)
<1>1. DOMAIN d = 1 .. Len(entries) /\ \A i \in 1 .. Len(entries) : d[i] = Shown(entries[i], i, conn)
    BY ShowsHas
<1>2. \A i \in 1 .. Len(entries) : entries[i].signal \in Signal
    <2>1. \A i \in 1 .. Len(entries) : entries[i] \in Entry
        OBVIOUS
    <2> QED BY <2>1 DEF Entry
<1> HIDE DEF d
<1>3. ASSUME NEW i \in 1 .. Len(entries)
      PROVE  Shown(entries[i], i, conn2) = IF d[i].signal = s
                                           THEN [d[i] EXCEPT !.todo = Append(d[i].todo, x)]
                                           ELSE d[i]
    <2> DEFINE e == entries[i]
               t == entries[i].signal
    <2>1. d[i] = [signal |-> t, cmd |-> e.cmd, todo |-> Behind(e.cmd, conn[t]), data |-> i]
        BY <1>1 DEF Shown
    <2>2. Shown(e, i, conn2) = [signal |-> t, cmd |-> e.cmd, todo |-> Behind(e.cmd, conn2[t]), data |-> i]
        BY DEF Shown
    <2>3. t \in Signal
        BY <1>2
    <2> HIDE DEF e, t
    <2>4. CASE t = s
        <3>1. PICK k \in 1 .. Len(conn[s]) : conn[s][k] = e.cmd
            BY <2>4 DEF RunsIn, e, t
        <3>2. conn[s] \in Seq(Slot) /\ Distinct(conn[s])
            OBVIOUS
        <3>3. Behind(e.cmd, conn2[t]) = Append(Behind(e.cmd, conn[t]), x)
            <4> DEFINE q == conn[s]
            <4>1. q \in Seq(Slot) /\ Distinct(q) /\ x \notin ToSet(q) /\ k \in 1 .. Len(q)
                BY <3>2
            <4> HIDE DEF q
            <4>2. Behind(q[k], Append(q, x)) = Append(Behind(q[k], q), x)
                BY <4>1, BehindGrows
            <4>3. q[k] = e.cmd
                BY <3>1 DEF q
            <4>4. conn[t] = q
                BY <2>4 DEF q
            <4>5. conn2[t] = Append(q, x)
                BY <2>4 DEF q
            <4>6. Behind(e.cmd, conn2[t]) = Behind(q[k], Append(q, x))
                BY <4>3, <4>5, Zenon
            <4>7. Append(Behind(e.cmd, conn[t]), x) = Append(Behind(q[k], q), x)
                BY <4>3, <4>4, Zenon
            <4> QED BY <4>2, <4>6, <4>7, Zenon
        <3> DEFINE b == Behind(e.cmd, conn[t])
                   b2 == Behind(e.cmd, conn2[t])
        <3>4. d[i] = [signal |-> t, cmd |-> e.cmd, todo |-> b, data |-> i]
            BY <2>1
        <3>5. Shown(e, i, conn2) = [signal |-> t, cmd |-> e.cmd, todo |-> b2, data |-> i]
            BY <2>2
        <3>6. b2 = Append(b, x)
            BY <3>3
        <3> HIDE DEF b, b2
        <3>7. d[i].signal = t /\ d[i].todo = b
            BY <3>4
        <3>8. [d[i] EXCEPT !.todo = Append(d[i].todo, x)]
                  = [signal |-> t, cmd |-> e.cmd, todo |-> Append(b, x), data |-> i]
            <4> DEFINE longer == Append(d[i].todo, x)
            <4>1. longer = Append(b, x)
                BY <3>7, Zenon
            <4> HIDE DEF longer
            <4>2. [d[i] EXCEPT !.todo = longer] = [signal |-> t, cmd |-> e.cmd, todo |-> longer, data |-> i]
                BY <3>4
            <4>3. [d[i] EXCEPT !.todo = longer]
                      = [signal |-> t, cmd |-> e.cmd, todo |-> Append(b, x), data |-> i]
                BY <4>1, <4>2, Zenon
            <4> QED BY <4>3 DEF longer
        <3>9. Shown(e, i, conn2) = [d[i] EXCEPT !.todo = Append(d[i].todo, x)]
            BY <3>5, <3>6, <3>8, Zenon
        <3>10. d[i].signal = s
            BY <2>4, <3>7
        <3>11. Shown(e, i, conn2) = Shown(entries[i], i, conn2)
            BY DEF e
        <3> HIDE DEF e
        <3> QED BY <3>9, <3>10, <3>11, Zenon
    <2>5. CASE t # s
        <3>1. conn2[t] = conn[t]
            BY <2>3, <2>5
        <3> QED BY <2>1, <2>2, <2>5, <3>1 DEF e
    <2> QED BY <2>4, <2>5
<1>4. Shows(entries, conn2) = [i \in 1 .. Len(entries) |-> Shown(entries[i], i, conn2)]
    BY DEF Shows
<1>5. Shows(entries, conn2) =
          [i \in DOMAIN d |-> IF d[i].signal = s
                              THEN [d[i] EXCEPT !.todo = Append(d[i].todo, x)]
                              ELSE d[i]]
    BY <1>1, <1>3, <1>4
<1> QED BY <1>5 DEF d, WithLonger

(* The slot h of s is cut out, and no activation of s runs it.             *)
IsCutOf(conn2, conn, s, h) ==
    /\ conn2[s] = Cut(conn[s], h)
    /\ \A t \in Signal : t # s => conn2[t] = conn[t]

DoesNotRun(entries, s, x) ==
    \A i \in 1 .. Len(entries) : entries[i].signal = s => entries[i].cmd # x

LEMMA ShowsCut ==
    ASSUME NEW entries \in Seq(Entry), NEW conn, NEW conn2, NEW s \in Signal,
           conn \in [Signal -> Seq(Slot)], \A t \in Signal : Distinct(conn[t]),
           NEW h \in 1 .. Len(conn[s]), RunsIn(entries, conn),
           DoesNotRun(entries, s, conn[s][h]), IsCutOf(conn2, conn, s, h)
    PROVE  Shows(entries, conn2) = WithShorter(Shows(entries, conn), s, conn[s][h])
<1> DEFINE d == Shows(entries, conn)
<1>0. /\ conn2[s] = Cut(conn[s], h)
      /\ \A t \in Signal : t # s => conn2[t] = conn[t]
      /\ \A i \in 1 .. Len(entries) : entries[i].signal = s => entries[i].cmd # conn[s][h]
    BY DEF IsCutOf, DoesNotRun
<1>1. DOMAIN d = 1 .. Len(entries) /\ \A i \in 1 .. Len(entries) : d[i] = Shown(entries[i], i, conn)
    BY ShowsHas
<1>2. \A i \in 1 .. Len(entries) : entries[i].signal \in Signal
    <2>1. \A i \in 1 .. Len(entries) : entries[i] \in Entry
        OBVIOUS
    <2> QED BY <2>1 DEF Entry
<1> HIDE DEF d
<1>3. ASSUME NEW i \in 1 .. Len(entries)
      PROVE  Shown(entries[i], i, conn2) = IF d[i].signal = s
                                           THEN [d[i] EXCEPT !.todo = Bus!Less(d[i].todo, conn[s][h])]
                                           ELSE d[i]
    <2> DEFINE e == entries[i]
               t == entries[i].signal
    <2>1. d[i] = [signal |-> t, cmd |-> e.cmd, todo |-> Behind(e.cmd, conn[t]), data |-> i]
        BY <1>1 DEF Shown
    <2>2. Shown(e, i, conn2) = [signal |-> t, cmd |-> e.cmd, todo |-> Behind(e.cmd, conn2[t]), data |-> i]
        BY DEF Shown
    <2>3. t \in Signal
        BY <1>2
    <2> HIDE DEF e, t
    <2>4. CASE t = s
        <3>1. PICK k \in 1 .. Len(conn[s]) : conn[s][k] = e.cmd
            BY <2>4 DEF RunsIn, e, t
        <3>2. conn[s] \in Seq(Slot) /\ Distinct(conn[s])
            OBVIOUS
        <3>3. k # h
            BY <1>0, <2>4, <3>1 DEF e, t
        <3>4. Behind(e.cmd, conn2[t]) = Bus!Less(Behind(e.cmd, conn[t]), conn[s][h])
            <4> DEFINE q == conn[s]
            <4>1. q \in Seq(Slot) /\ Distinct(q) /\ h \in 1 .. Len(q) /\ k \in 1 .. Len(q)
                BY <3>2
            <4> HIDE DEF q
            <4>2. Behind(q[k], Cut(q, h)) = Bus!Less(Behind(q[k], q), q[h])
                BY <3>3, <4>1, BehindIsCut
            <4> QED BY <1>0, <2>4, <3>1, <4>2 DEF q
        <3> QED BY <2>1, <2>2, <2>4, <3>4 DEF e
    <2>5. CASE t # s
        <3>1. conn2[t] = conn[t]
            BY <1>0, <2>3, <2>5
        <3> QED BY <2>1, <2>2, <2>5, <3>1 DEF e
    <2> QED BY <2>4, <2>5
<1>4. Shows(entries, conn2) = [i \in 1 .. Len(entries) |-> Shown(entries[i], i, conn2)]
    BY DEF Shows
<1>5. Shows(entries, conn2) =
          [i \in DOMAIN d |-> IF d[i].signal = s
                              THEN [d[i] EXCEPT !.todo = Bus!Less(d[i].todo, conn[s][h])]
                              ELSE d[i]]
    BY <1>1, <1>3, <1>4
<1> QED BY <1>5 DEF d, WithShorter

LEMMA ShowsAppended ==
    ASSUME NEW entries \in Seq(Entry), NEW e \in Entry, NEW conn
    PROVE  Shows(Append(entries, e), conn)
               = Append(Shows(entries, conn), Shown(e, Len(entries) + 1, conn))
<1> DEFINE all == AllShown(conn)
           longer == Append(entries, e)
           n == Len(entries)
           last == Shown(e, n + 1, conn)
           d == Shows(entries, conn)
           d2 == Shows(longer, conn)
<1>1. /\ longer \in Seq(Entry) /\ Len(longer) = n + 1 /\ n \in Nat
      /\ \A i \in 1 .. n : longer[i] = entries[i]
      /\ longer[n + 1] = e
    BY AppendProperties
<1>2. last \in all
    BY <1>1 DEF AllShown
<1>3. /\ d \in Seq(all) /\ Len(d) = n
      /\ \A i \in 1 .. n : d[i] = Shown(entries[i], i, conn)
    BY ShowsHas
<1> HIDE DEF longer
<1>4. /\ d2 \in Seq(all) /\ Len(d2) = Len(longer)
      /\ \A i \in 1 .. Len(longer) : d2[i] = Shown(longer[i], i, conn)
    BY <1>1, ShowsHas
<1> HIDE DEF all, d, d2, n, last
<1>5. /\ Append(d, last) \in Seq(all) /\ Len(Append(d, last)) = n + 1
      /\ \A i \in 1 .. n : Append(d, last)[i] = d[i]
      /\ Append(d, last)[n + 1] = last
    BY <1>2, <1>3, AppendProperties
<1>6. ASSUME NEW i \in 1 .. Len(d2) PROVE d2[i] = Append(d, last)[i]
    <2>1. i \in 1 .. Len(longer) /\ (i \in 1 .. n \/ i = n + 1)
        BY <1>1, <1>4
    <2>2. CASE i \in 1 .. n
        BY <1>1, <1>3, <1>4, <1>5, <2>1, <2>2
    <2>3. CASE i = n + 1
        BY <1>1, <1>4, <1>5, <2>1, <2>3 DEF last
    <2> QED BY <2>1, <2>2, <2>3
<1>7. d2 = Append(d, last)
    BY <1>1, <1>4, <1>5, <1>6, SeqEqual
<1> QED BY <1>7 DEF d, d2, last, longer, n

LEMMA ShowsWithoutLast ==
    ASSUME NEW entries \in Seq(Entry), entries # << >>, NEW conn
    PROVE  /\ Front(entries) \in Seq(Entry) /\ Len(Front(entries)) = Len(entries) - 1
           /\ \A i \in 1 .. Len(entries) - 1 : Front(entries)[i] = entries[i]
           /\ Last(entries) = entries[Len(entries)]
           /\ Bus!Front(Shows(entries, conn)) = Shows(Front(entries), conn)
           /\ Bus!Last(Shows(entries, conn)) = Shown(Last(entries), Len(entries), conn)
           /\ Shows(entries, conn) # << >>
<1> DEFINE all == AllShown(conn)
           n == Len(entries)
           short == Front(entries)
           d == Shows(entries, conn)
           d2 == Shows(short, conn)
<1>1. n \in Nat /\ n # 0 /\ n \in 1 .. n
    BY EmptySeq
<1>2. /\ d \in Seq(all) /\ Len(d) = n
      /\ \A i \in 1 .. n : d[i] = Shown(entries[i], i, conn)
    BY ShowsHas
<1> HIDE DEF all, d
<1>3. ASSUME NEW S, NEW q \in Seq(S), Len(q) = n
      PROVE  /\ SubSeq(q, 1, Len(q) - 1) \in Seq(S)
             /\ Len(SubSeq(q, 1, Len(q) - 1)) = n - 1
             /\ \A i \in 1 .. n - 1 : SubSeq(q, 1, Len(q) - 1)[i] = q[i]
    <2> DEFINE r == SubSeq(q, 1, n - 1)
    <2>1. 1 \in Int /\ n - 1 \in Int /\ \A i \in 1 .. n - 1 : q[i] \in S
        BY <1>1, <1>3
    <2> HIDE DEF n
    <2>2. /\ r \in Seq(S) /\ Len(r) = IF 1 <= n - 1 THEN (n - 1) - 1 + 1 ELSE 0
          /\ \A i \in 1 .. (n - 1) - 1 + 1 : r[i] = q[1 + i - 1]
        BY <2>1, SubSeqProperties
    <2>3. (n - 1) - 1 + 1 = n - 1 /\ \A i \in Int : 1 + i - 1 = i
        BY <1>1
    <2> HIDE DEF r
    <2>4. Len(r) = n - 1
        BY <1>1, <2>2, <2>3
    <2>5. \A i \in 1 .. n - 1 : r[i] = q[i]
        BY <2>2, <2>3
    <2>6. r = SubSeq(q, 1, Len(q) - 1)
        BY <1>3 DEF r
    <2> QED BY <2>2, <2>4, <2>5, <2>6
<1>4. /\ short \in Seq(Entry) /\ Len(short) = n - 1
      /\ \A i \in 1 .. n - 1 : short[i] = entries[i]
    BY <1>3 DEF Front
<1>5. /\ Bus!Front(d) \in Seq(all) /\ Len(Bus!Front(d)) = n - 1
      /\ \A i \in 1 .. n - 1 : Bus!Front(d)[i] = d[i]
    BY <1>2, <1>3 DEF Bus!Front
<1> HIDE DEF short
<1>6. /\ d2 \in Seq(all) /\ Len(d2) = Len(short)
      /\ \A i \in 1 .. Len(short) : d2[i] = Shown(short[i], i, conn)
    BY <1>4, ShowsHas DEF all
<1> HIDE DEF d2, n
<1>7. \A i \in 1 .. Len(d2) : d2[i] = Bus!Front(d)[i]
    <2>1. \A i \in 1 .. n - 1 : i \in 1 .. n
        BY <1>1
    <2> QED BY <1>2, <1>4, <1>5, <1>6, <2>1
<1>8. d2 = Bus!Front(d)
    BY <1>4, <1>5, <1>6, <1>7, SeqEqual
<1>9. Bus!Last(d) = Shown(Last(entries), n, conn) /\ Last(entries) = entries[n]
    BY <1>1, <1>2 DEF Bus!Last, Last, n
<1>10. d # << >>
    BY <1>1, <1>2
<1> QED BY <1>4, <1>8, <1>9, <1>10 DEF d, d2, short, n

LEMMA DataStays ==
    ASSUME DataInv, Len(stack') = Len(stack), UNCHANGED <<m_data, allowed>>,
           \A i \in 1 .. Len(stack) : stack'[i].signal = stack[i].signal
    PROVE  DataInv'
BY DEF DataInv

LEMMA ActivEntry ==
    ASSUME IInv, NEW s \in Signal, Activ(s)
    PROVE  \E e \in Entry : /\ e.signal = s /\ e.cmd = slot[m_slotList[s]]
                            /\ stack' = Append(stack, e)
<1> DEFINE c == Lists[s]
           q == SlotsOf(c)
           e == [signal |-> s, cmd |-> slot[m_slotList[s]], owed |-> ToSet(Tail(q))]
<1>1. /\ c = Chain(m_slotList[s]) /\ c \in Seq(Node) /\ c # << >>
      /\ \A n \in ToSet(c) : slot[n] \in Slot
      /\ slot[m_slotList[s]] \in Slot \cup {NoSlot}
    BY PoolFacts DEF IInv, Activ, IsConnected
<1> HIDE DEF c
<1>2. q \in Seq(Slot) /\ Len(q) = Len(c)
    <2>1. q = NamesOf(c, slot)
        BY DEF SlotsOf, NamesOf
    <2> QED BY <1>1, <2>1, NamesHave
<1>3. q # << >>
    <2>1. Len(c) # 0
        BY <1>1, EmptySeq
    <2> QED BY <1>2, <2>1
<1>4. Tail(q) \in Seq(Slot)
    BY <1>2, <1>3, HeadTailProperties
<1>5. ToSet(Tail(q)) \subseteq Slot
    BY <1>4 DEF ToSet
<1>6. stack' = Append(stack, e)
    BY <1>1 DEF Activ
<1> HIDE DEF q
<1>7. e \in Entry /\ e.signal = s /\ e.cmd = slot[m_slotList[s]]
    BY <1>1, <1>5 DEF Entry
<1> QED BY <1>6, <1>7

LEMMA ActivKeepsData ==
    ASSUME IInv, DataInv, NEW s \in Signal, Activ(s), UNCHANGED allowed
    PROVE  DataInv'
<1> DEFINE m == Len(stack)
<1>1. PICK e \in Entry : e.signal = s /\ stack' = Append(stack, e)
    BY ActivEntry
<1>2. /\ stack \in Seq(Entry) /\ m \in Nat
      /\ \A i \in 1 .. m : stack[i].signal \in Signal
      /\ Running(s) <=> \E i \in 1 .. m : stack[i].signal = s
    BY StackFacts DEF IInv
<1>3. /\ "reenter" \in allowed \/ ~Running(s)
      /\ m_data' = [m_data EXCEPT ![s] = m + 1]
      /\ m_data \in [Signal -> 0 .. MaxDepth]
    BY DEF Activ, IInv, StackInv
<1>4. /\ Len(stack') = m + 1 /\ stack'[m + 1] = e
      /\ \A i \in 1 .. m : stack'[i] = stack[i]
    BY <1>1, <1>2, AppendProperties
<1> SUFFICES ASSUME "reenter" \notin allowed, NEW i \in 1 .. m + 1
             PROVE  m_data'[stack'[i].signal] = i
    BY <1>4 DEF DataInv
<1>5. CASE i \in 1 .. m
    <2>1. m_data[stack[i].signal] = i
        BY <1>5 DEF DataInv
    <2>2. stack[i].signal # s /\ stack[i].signal \in Signal
        BY <1>2, <1>3, <1>5
    <2>3. m_data'[stack[i].signal] = m_data[stack[i].signal]
        BY <1>3, <2>2
    <2> QED BY <1>4, <1>5, <2>1, <2>3
<1>6. CASE i = m + 1
    BY <1>1, <1>3, <1>4, <1>6
<1> QED BY <1>2, <1>5, <1>6

LEMMA GoingOnKeepsData ==
    ASSUME IInv, DataInv, stack # << >>, NEW node, GoOnWith(node), UNCHANGED allowed
    PROVE  DataInv'
<1> DEFINE m == Len(stack)
           s == Last(stack).signal
           e == [Last(stack) EXCEPT !.cmd = slot[node], !.owed = @ \ {slot[node]}]
<1>1. /\ stack \in Seq(Entry) /\ m \in Nat /\ m \in 1 .. m /\ Last(stack) = stack[m]
      /\ \A i \in 1 .. m : stack[i] \in Entry /\ stack[i].signal \in Signal
    BY StackFacts DEF IInv
<1>2. /\ Len(Front(stack)) = m - 1 /\ \A i \in 1 .. m - 1 : Front(stack)[i] = stack[i]
      /\ \E S : Front(stack) \in Seq(S)
    BY <1>1, ShowsWithoutLast
<1>3. e.signal = stack[m].signal
    BY <1>1 DEF Entry
<1>4. CASE node = Null
    <2>1. stack' = Front(stack) /\ m_data' = [m_data EXCEPT ![s] = 0]
        BY <1>4 DEF GoOnWith
    <2> SUFFICES ASSUME "reenter" \notin allowed, NEW i \in 1 .. m - 1
                 PROVE  m_data'[stack[i].signal] = i
        BY <1>2, <2>1 DEF DataInv
    <2>2. i \in 1 .. m /\ i # m
        BY <1>1
    <2>3. stack[i].signal # stack[m].signal
        BY <1>1, <2>2 DEF IInv, CursorInv
    <2>4. m_data[stack[i].signal] = i
        BY <2>2 DEF DataInv
    <2>5. m_data \in [Signal -> 0 .. MaxDepth] /\ s = stack[m].signal
        BY <1>1 DEF IInv, StackInv
    <2> HIDE DEF s
    <2>6. m_data'[stack[i].signal] = m_data[stack[i].signal]
        BY <1>1, <2>1, <2>2, <2>3, <2>5
    <2> QED BY <2>4, <2>6
<1>5. CASE node # Null
    <2> HIDE DEF e
    <2>1. stack' = Append(Front(stack), e) /\ m_data' = m_data
        BY <1>5 DEF GoOnWith, e
    <2>2. /\ Len(stack') = (m - 1) + 1 /\ stack'[(m - 1) + 1] = e
          /\ \A i \in 1 .. m - 1 : stack'[i] = Front(stack)[i]
        <3>1. PICK S : Front(stack) \in Seq(S)
            BY <1>2
        <3>2. Front(stack) \in Seq(S \cup {e}) /\ e \in S \cup {e}
            BY <3>1
        <3> QED BY <1>2, <2>1, <3>2, AppendProperties
    <2>3. Len(stack') = m /\ stack'[m] = e /\ \A i \in 1 .. m : i = m \/ i \in 1 .. m - 1
        <3>1. (m - 1) + 1 = m
            BY <1>1
        <3> QED BY <1>1, <2>2, <3>1
    <2>4. \A i \in 1 .. m : stack'[i].signal = stack[i].signal
        BY <1>2, <1>3, <2>2, <2>3
    <2> QED BY <2>1, <2>3, <2>4, DataStays
<1> QED BY <1>4, <1>5

LEMMA NextKeepsData ==
    ASSUME IInv, DataInv, [Next]_vars
    PROVE  DataInv'
<1>1. ASSUME NEW s \in Signal, NEW x \in Slot, Connect(s, x), UNCHANGED allowed PROVE DataInv'
    <2>1. UNCHANGED <<stack, m_data>>
        BY <1>1 DEF Connect
    <2> QED BY <1>1, <2>1 DEF DataInv
<1>2. ASSUME NEW s \in Signal, NEW x \in Slot, Disconnect(s, x), UNCHANGED allowed PROVE DataInv'
    <2>1. Forgive(s, {x}) /\ UNCHANGED m_data
        BY <1>2 DEF Disconnect
    <2>2. Len(stack') = Len(stack) /\ \A i \in 1 .. Len(stack) : stack'[i].signal = stack[i].signal
        BY <2>1, ForgivenFacts DEF IInv
    <2> QED BY <1>2, <2>1, <2>2, DataStays
<1>3. ASSUME NEW s \in Signal, DisconnectAll(s), UNCHANGED allowed PROVE DataInv'
    <2>1. Forgive(s, Slot) /\ UNCHANGED m_data
        BY <1>3 DEF DisconnectAll
    <2>2. Len(stack') = Len(stack) /\ \A i \in 1 .. Len(stack) : stack'[i].signal = stack[i].signal
        BY <2>1, ForgivenFacts DEF IInv
    <2> QED BY <1>3, <2>1, <2>2, DataStays
<1>4. ASSUME NEW s \in Signal, Die(s), UNCHANGED allowed PROVE DataInv'
    <2>1. UNCHANGED <<stack, m_data>>
        BY <1>4 DEF Die
    <2> QED BY <1>4, <2>1 DEF DataInv
<1>5. ASSUME NEW s \in Signal, Activ(s), UNCHANGED allowed PROVE DataInv'
    BY <1>5, ActivKeepsData
<1>6. ASSUME stack # << >>, \E node : GoOnWith(node), UNCHANGED allowed PROVE DataInv'
    <2>1. PICK node : GoOnWith(node)
        BY <1>6
    <2> QED BY <1>6, <2>1, GoingOnKeepsData
<1>7. ASSUME ReturnFaults, UNCHANGED allowed PROVE DataInv'
    <2>1. UNCHANGED <<stack, m_data>>
        BY <1>7 DEF ReturnFaults
    <2> QED BY <1>7, <2>1 DEF DataInv
<1>8. CASE UNCHANGED vars
    <2>1. UNCHANGED <<stack, m_data, allowed>>
        BY <1>8 DEF vars
    <2> QED BY <2>1 DEF DataInv
<1>9. ReturnToEmpty => stack # << >> /\ \E node : GoOnWith(node)
    <2> SUFFICES ASSUME ReturnToEmpty PROVE stack # << >> /\ GoOnWith(Null)
        OBVIOUS
    <2> QED BY DEF ReturnToEmpty
<1>10. ReturnToNext => stack # << >> /\ \E node : GoOnWith(node)
    <2> SUFFICES ASSUME ReturnToNext
                 PROVE  stack # << >> /\ GoOnWith(next[m_lastGetSlot[Last(stack).signal]])
        OBVIOUS
    <2> QED BY DEF ReturnToNext
<1>11. ReturnAfterSearch => stack # << >> /\ \E node : GoOnWith(node)
    <2> SUFFICES ASSUME ReturnAfterSearch PROVE stack # << >> /\ \E node : GoOnWith(node)
        OBVIOUS
    <2> QED BY DEF ReturnAfterSearch
<1> QED BY <1>1, <1>2, <1>3, <1>4, <1>5, <1>6, <1>7, <1>8, <1>9, <1>10, <1>11 DEF Next, Return

(* The two states of an orderly step, as the bus sees them. *)
LEMMA BusStates ==
    ASSUME IInv, DataInv, Orderly, IInv', DataInv', UNCHANGED allowed
    PROVE  /\ ConnectedSlots = Conn /\ Dispatch = Shows(stack, Conn)
           /\ ConnectedSlots' = Conn' /\ Dispatch' = Shows(stack', Conn')
<1>1. Orderly'
    BY DEF Orderly, Without
<1>2. (IInv /\ DataInv /\ Orderly)' => (ConnectedSlots = Conn /\ Dispatch = Shows(stack, Conn))'
    BY BusState, PTL
<1>3. Shows(stack, Conn)' = Shows(stack', Conn')
    BY DEF Shows, Shown, Behind, Rest
<1> QED BY <1>1, <1>2, <1>3, BusState

(* Each connection has a node of its own. *)
LEMMA RoomIsLeft ==
    ASSUME PoolInv, NEW n \in Node, \A t \in Signal : n \notin ToSet(Lists[t])
    PROVE  Bus!Cardinality(Bus!Connections) < StorageSize
<1> DEFINE C == Bus!Connections
           f == [c \in C |-> Lists[c[1]][c[2]]]
<1>1. ConnectedSlots = Conn
    BY ConnHas
<1>2. ASSUME NEW s \in Signal PROVE DOMAIN ConnectedSlots[s] = 1 .. Len(Lists[s])
    <2>1. Conn[s] \in Seq(Slot) /\ Len(Conn[s]) = Len(Lists[s])
        BY ConnHas
    <2> QED BY <1>1, <2>1
<1>3. C = UNION {{s} \X (1 .. Len(Lists[s])) : s \in Signal}
    BY <1>2 DEF Bus!Connections
<1>4. ASSUME NEW c \in C
      PROVE  c[1] \in Signal /\ c[2] \in 1 .. Len(Lists[c[1]]) /\ c = <<c[1], c[2]>>
    BY <1>3
<1> HIDE DEF C
<1>5. ASSUME NEW c \in C
      PROVE  /\ Lists[c[1]] \in Seq(Node)
             /\ f[c] \in ToSet(Lists[c[1]]) /\ f[c] = Lists[c[1]][c[2]] /\ f[c] \in Node
    <2>1. Lists[c[1]] \in Seq(Node)
        BY <1>4, PoolFacts
    <2>2. f[c] = Lists[c[1]][c[2]]
        OBVIOUS
    <2> HIDE DEF f
    <2>3. f[c] \in ToSet(Lists[c[1]])
        BY <1>4, <2>1, <2>2, ElementsAreAt
    <2>4. f[c] \in Node
        BY <1>4, <2>1, <2>2
    <2> QED BY <2>1, <2>2, <2>3, <2>4
<1>6. f \in [C -> Node \ {n}]
    <2>1. \A c \in C : f[c] \in Node \ {n}
        BY <1>4, <1>5
    <2> QED BY <2>1
<1>7. ASSUME NEW b \in C, NEW c \in C, f[b] = f[c] PROVE b = c
    <2>1. \A s, t \in Signal : s # t => ToSet(Lists[s]) \cap ToSet(Lists[t]) = {}
        BY DEF PoolInv, Listed
    <2>2. b[1] = c[1]
        BY <1>4, <1>5, <1>7, <2>1
    <2>3. \A i, j \in 1 .. Len(Lists[c[1]]) : Lists[c[1]][i] = Lists[c[1]][j] => i = j
        BY <1>4, PoolFacts
    <2>4. b[2] = c[2]
        BY <1>4, <1>5, <1>7, <2>2, <2>3
    <2> QED BY <1>4, <2>2, <2>4
<1> HIDE DEF f
<1>8. f \in Injection(C, Node \ {n})
    BY <1>6, <1>7 DEF Injection, IsInjective
<1>9. /\ IsFiniteSet(Node) /\ Cardinality(Node) = StorageSize
      /\ IsFiniteSet(Node \ {n}) /\ Cardinality(Node \ {n}) = StorageSize - 1
    <2>1. StorageSize \in Nat /\ 1 \in Int /\ StorageSize \in Int /\ ~(1 > StorageSize)
        BY StorageSizeAssumption DEF Node
    <2>2. IsFiniteSet(Node) /\ Cardinality(Node) = StorageSize
        BY <2>1, FS_Interval DEF Node
    <2> QED BY <2>2, FS_RemoveElement
<1>10. Cardinality(C) <= StorageSize - 1
    BY <1>8, <1>9, FS_Injection
<1>11. Cardinality(C) \in Nat
    BY <1>8, <1>9, FS_Injection, FS_CardinalityType
<1>12. Bus!Cardinality(C) = Cardinality(C)
    <2>1. Bus!IsFiniteSet(C) = IsFiniteSet(C)
        BY DEF Bus!IsFiniteSet, IsFiniteSet
    <2> QED BY <2>1 DEF Bus!Cardinality, Cardinality
<1> QED BY <1>10, <1>11, <1>12, StorageSizeAssumption DEF C

ConnKnown ==
    /\ Conn \in [Signal -> Seq(Slot)]
    /\ \A s \in Signal : /\ Conn[s] \in Seq(Slot) /\ Len(Conn[s]) = Len(Lists[s])
                         /\ \A k \in 1 .. Len(Lists[s]) : Conn[s][k] = slot[Lists[s][k]]
                         /\ Distinct(Conn[s])

LEMMA ConnIsKnown == PoolInv => ConnKnown
<1> SUFFICES ASSUME PoolInv PROVE ConnKnown
    OBVIOUS
<1> QED BY ConnHas DEF ConnKnown

LEMMA ConnHasNext ==
    ASSUME PoolInv'
    PROVE  /\ Conn' \in [Signal -> Seq(Slot)]
           /\ \A s \in Signal :
                  /\ Conn'[s] \in Seq(Slot) /\ Len(Conn'[s]) = Len(Lists'[s])
                  /\ \A k \in 1 .. Len(Lists'[s]) : Conn'[s][k] = slot'[Lists'[s][k]]
<1>1. PoolInv' => ConnKnown'
    BY ConnIsKnown, PTL
<1> QED BY <1>1 DEF ConnKnown

LEMMA ConnectIsABusStep ==
    ASSUME IInv, DataInv, Orderly, IInv', DataInv', UNCHANGED allowed,
           NEW s \in Signal, NEW x \in Slot, Connect(s, x)
    PROVE  Bus!Connect(s, x)
<1> DEFINE conn2 == Conn'
<1>1. PICK n \in Node : /\ \A t \in Signal : n \notin ToSet(Lists[t])
                        /\ Lists' = With(Lists, s, Append(Lists[s], n))
                        /\ slot' = [slot EXCEPT ![n] = x]
    BY ConnectKeeps
<1>2. /\ Conn \in [Signal -> Seq(Slot)]
      /\ \A t \in Signal : /\ Conn[t] \in Seq(Slot) /\ Len(Conn[t]) = Len(Lists[t])
                           /\ \A k \in 1 .. Len(Lists[t]) : Conn[t][k] = slot[Lists[t][k]]
                           /\ Distinct(Conn[t])
    BY ConnHas DEF IInv
<1>3. /\ conn2 \in [Signal -> Seq(Slot)]
      /\ \A t \in Signal : /\ conn2[t] \in Seq(Slot) /\ Len(conn2[t]) = Len(Lists'[t])
                           /\ \A k \in 1 .. Len(Lists'[t]) : conn2[t][k] = slot'[Lists'[t][k]]
    BY ConnHasNext DEF IInv
<1> HIDE DEF conn2
<1>4. ASSUME NEW t \in Signal
      PROVE  Lists[t] \in Seq(Node) /\ \A k \in 1 .. Len(Lists[t]) : Lists[t][k] \in Node /\ Lists[t][k] # n
    <2>1. Lists[t] \in Seq(Node)
        BY PoolFacts DEF IInv
    <2> QED BY <1>1, <2>1, ElementsAreAt
<1>5. slot \in [Node -> Slot \cup {NoSlot}]
    BY DEF IInv, PoolInv
<1>6. ASSUME NEW t \in Signal, t # s PROVE conn2[t] = Conn[t]
    <2>1. Lists'[t] = Lists[t]
        BY <1>1, <1>6 DEF With
    <2>2. Len(conn2[t]) = Len(Conn[t])
        BY <1>2, <1>3, <2>1
    <2>3. \A k \in 1 .. Len(Conn[t]) : conn2[t][k] = Conn[t][k]
        <3> SUFFICES ASSUME NEW k \in 1 .. Len(Conn[t]) PROVE conn2[t][k] = Conn[t][k]
            OBVIOUS
        <3>1. k \in 1 .. Len(Lists[t]) /\ k \in 1 .. Len(Lists'[t])
            BY <1>2, <2>1
        <3>2. conn2[t][k] = slot'[Lists[t][k]]
            BY <1>3, <2>1, <3>1
        <3>3. slot'[Lists[t][k]] = slot[Lists[t][k]]
            BY <1>1, <1>4, <1>5, <3>1
        <3> QED BY <1>2, <3>1, <3>2, <3>3
    <2> QED BY <1>2, <1>3, <2>2, <2>3, SeqEqual
<1>7. conn2[s] = Append(Conn[s], x)
    <2> DEFINE q == Conn[s]
               r == Append(q, x)
               c == Lists[s]
               d == Lists'[s]
    <2>1. q \in Seq(Slot) /\ Len(q) = Len(c) /\ Len(c) \in Nat
        BY <1>2, <1>4
    <2>2. /\ Len(d) = Len(c) + 1 /\ d[Len(c) + 1] = n
          /\ \A k \in 1 .. Len(c) : d[k] = c[k]
        <3>1. d = Append(c, n)
            BY <1>1 DEF With
        <3> HIDE DEF c, d
        <3>2. c \in Seq(Node)
            BY <1>4 DEF c
        <3> QED BY <3>1, <3>2, AppendProperties
    <2>3. \A k \in 1 .. Len(c) : q[k] = slot[c[k]] /\ c[k] \in Node /\ c[k] # n
        BY <1>2, <1>4
    <2>4. conn2[s] \in Seq(Slot) /\ Len(conn2[s]) = Len(d) /\ \A k \in 1 .. Len(d) : conn2[s][k] = slot'[d[k]]
        BY <1>3
    <2> HIDE DEF c, d, q
    <2>5. /\ r \in Seq(Slot) /\ Len(r) = Len(q) + 1
          /\ \A k \in 1 .. Len(q) : r[k] = q[k]
          /\ r[Len(q) + 1] = x
        BY <2>1, AppendProperties
    <2> HIDE DEF r
    <2>6. ASSUME NEW k \in 1 .. Len(conn2[s]) PROVE conn2[s][k] = r[k]
        <3>1. k \in 1 .. Len(d) /\ (k \in 1 .. Len(c) \/ k = Len(c) + 1)
            BY <2>1, <2>2, <2>4
        <3>2. CASE k \in 1 .. Len(c)
            BY <1>1, <1>5, <2>1, <2>2, <2>3, <2>4, <2>5, <3>1, <3>2
        <3>3. CASE k = Len(c) + 1
            BY <1>1, <1>5, <2>1, <2>2, <2>4, <2>5, <3>1, <3>3
        <3> QED BY <3>1, <3>2, <3>3
    <2>7. conn2[s] = r
        BY <2>1, <2>2, <2>4, <2>5, <2>6, SeqEqual
    <2> QED BY <2>7 DEF r, q
<1>8. \A k \in 1 .. Len(Conn[s]) : Conn[s][k] # x
    <2>1. Chain(m_slotList[s]) = Lists[s] /\ Lists[s] \in Seq(Node)
        BY PoolFacts DEF IInv
    <2>2. \A m \in ToSet(Lists[s]) : slot[m] # x
        BY <2>1 DEF Connect, IsConnectedTo
    <2>3. \A k \in 1 .. Len(Lists[s]) : slot[Lists[s][k]] # x
        BY <2>1, <2>2, ElementsAreAt
    <2> QED BY <1>2, <2>3
<1>9. x \notin ToSet(Conn[s])
    BY <1>2, <1>8, ElementsAreAt
<1>10. conn2 = [Conn EXCEPT ![s] = Append(Conn[s], x)]
    BY <1>2, <1>3, <1>6, <1>7
<1>11. RunsIn(stack, Conn) /\ stack \in Seq(Entry)
    BY RunsInConn, StackFacts DEF IInv
<1> DEFINE d == Shows(stack, Conn)
<1>12. Shows(stack, conn2) = WithLonger(d, s, x)
    <2>1. Conn \in [Signal -> Seq(Slot)] /\ \A t \in Signal : Distinct(Conn[t])
        BY <1>2
    <2>2. \A t \in Signal : t # s => conn2[t] = Conn[t]
        BY <1>6
    <2> HIDE DEF d
    <2> QED BY <1>7, <1>9, <1>11, <2>1, <2>2, ShowsGrown DEF d
<1>13. stack' = stack
    BY DEF Connect
<1>14. ~Bus!Contains(Conn[s], x)
    BY <1>8 DEF Bus!Contains
<1>15. Bus!Cardinality(Bus!Connections) < StorageSize
    BY <1>1, RoomIsLeft DEF IInv
<1>16. /\ ConnectedSlots = Conn /\ Dispatch = d
       /\ ConnectedSlots' = conn2 /\ Dispatch' = Shows(stack, conn2)
    BY <1>13, BusStates DEF conn2
<1> HIDE DEF d
<1>17. ~Bus!Contains(ConnectedSlots[s], x)
    BY <1>14, <1>16
<1>18. ConnectedSlots' = [ConnectedSlots EXCEPT ![s] = Append(ConnectedSlots[s], x)]
    BY <1>10, <1>16, Zenon
<1>19. Dispatch' = WithLonger(Dispatch, s, x)
    BY <1>12, <1>16, Zenon
<1>20. Dispatch' = [i \in DOMAIN Dispatch |->
                       IF Dispatch[i].signal = s
                       THEN [Dispatch[i] EXCEPT !.todo = Append(Dispatch[i].todo, x)]
                       ELSE Dispatch[i]]
    BY <1>19, Zenon DEF WithLonger
<1> QED BY <1>15, <1>17, <1>18, <1>20 DEF Bus!Connect

(* A signal whose list stays, and whose nodes keep their slots.            *)
LEMMA ConnStays ==
    ASSUME PoolInv, PoolInv', slot' = slot, NEW t \in Signal, Lists'[t] = Lists[t]
    PROVE  Conn'[t] = Conn[t]
<1>1. /\ Conn[t] \in Seq(Slot) /\ Len(Conn[t]) = Len(Lists[t])
      /\ \A k \in 1 .. Len(Lists[t]) : Conn[t][k] = slot[Lists[t][k]]
    BY ConnHas
<1> DEFINE q == Conn'[t]
<1>2. /\ q \in Seq(Slot) /\ Len(q) = Len(Lists[t])
      /\ \A k \in 1 .. Len(Lists[t]) : q[k] = slot[Lists[t][k]]
    BY ConnHasNext
<1> HIDE DEF q
<1>3. \A k \in 1 .. Len(q) : q[k] = Conn[t][k]
    BY <1>1, <1>2
<1>4. q = Conn[t]
    BY <1>1, <1>2, <1>3, SeqEqual
<1> QED BY <1>4 DEF q

LEMMA DisconnectIsABusStep ==
    ASSUME IInv, DataInv, Orderly, IInv', DataInv', UNCHANGED allowed,
           NEW s \in Signal, NEW x \in Slot, Disconnect(s, x)
    PROVE  Bus!Disconnect(s, x)
<1> DEFINE conn2 == Conn'
           d == Shows(stack, Conn)
<1>1. PICK k \in 1 .. Len(Lists[s]) : /\ slot[Lists[s][k]] = x
                                      /\ Lists' = With(Lists, s, Cut(Lists[s], k))
    BY DisconnectKeeps
<1>2. /\ Conn \in [Signal -> Seq(Slot)]
      /\ \A t \in Signal : /\ Conn[t] \in Seq(Slot) /\ Len(Conn[t]) = Len(Lists[t])
                           /\ \A j \in 1 .. Len(Lists[t]) : Conn[t][j] = slot[Lists[t][j]]
                           /\ Distinct(Conn[t])
    BY ConnHas DEF IInv
<1>3. slot' = slot /\ Forgive(s, {x})
    BY DEF Disconnect
<1>4. /\ conn2 \in [Signal -> Seq(Slot)]
      /\ conn2[s] \in Seq(Slot) /\ Len(conn2[s]) = Len(Lists'[s])
      /\ \A j \in 1 .. Len(Lists'[s]) : conn2[s][j] = slot[Lists'[s][j]]
    BY <1>3, ConnHasNext DEF IInv
<1>5. ASSUME NEW t \in Signal, t # s PROVE conn2[t] = Conn[t]
    <2>1. Lists'[t] = Lists[t]
        BY <1>1, <1>5 DEF With
    <2> QED BY <1>3, <2>1, ConnStays DEF IInv
<1> HIDE DEF conn2, d
<1>6. k \in 1 .. Len(Conn[s]) /\ Conn[s][k] = x
    BY <1>1, <1>2
<1>7. conn2[s] = Cut(Conn[s], k)
    <2> DEFINE q == Conn[s]
               c == Lists[s]
               q2 == conn2[s]
               c2 == Lists'[s]
    <2>1. q \in Seq(Slot) /\ Distinct(q) /\ Len(q) = Len(c) /\ \A j \in 1 .. Len(c) : q[j] = slot[c[j]]
        BY <1>2
    <2>2. c \in Seq(Node) /\ k \in 1 .. Len(c) /\ c2 = Cut(c, k)
        BY <1>1, PoolFacts DEF With, IInv
    <2>3. Distinct(c)
        BY PoolFacts DEF IInv, Distinct
    <2>4. q2 \in Seq(Slot) /\ Len(q2) = Len(c2) /\ \A j \in 1 .. Len(c2) : q2[j] = slot[c2[j]]
        BY <1>4
    <2> HIDE DEF q, c, q2, c2
    <2>5. /\ Len(c2) = Len(c) - 1
          /\ \A i \in 1 .. Len(c) - 1 : c2[i] = IF i < k THEN c[i] ELSE c[i + 1]
        BY <2>2, <2>3, CutIsDistinct
    <2> DEFINE r == Cut(q, k)
    <2>6. /\ r \in Seq(Slot) /\ Len(r) = Len(q) - 1
          /\ \A i \in 1 .. Len(q) - 1 : r[i] = IF i < k THEN q[i] ELSE q[i + 1]
        BY <2>1, <2>2, CutIsDistinct
    <2> HIDE DEF r
    <2>7. ASSUME NEW i \in 1 .. Len(q2) PROVE q2[i] = r[i]
        <3>1. Len(c) \in Nat /\ i \in 1 .. Len(c) - 1 /\ i \in 1 .. Len(c2) /\ i \in 1 .. Len(q) - 1
            BY <2>1, <2>2, <2>4, <2>5
        <3>2. i \in 1 .. Len(c) /\ i + 1 \in 1 .. Len(c)
            BY <3>1
        <3>3. CASE i < k
            <4>1. q2[i] = slot[c[i]]
                BY <2>4, <2>5, <3>1, <3>3
            <4>2. r[i] = q[i]
                BY <2>6, <3>1, <3>3
            <4> QED BY <2>1, <3>2, <4>1, <4>2
        <3>4. CASE ~(i < k)
            <4>1. q2[i] = slot[c[i + 1]]
                BY <2>4, <2>5, <3>1, <3>4
            <4>2. r[i] = q[i + 1]
                BY <2>6, <3>1, <3>4
            <4> QED BY <2>1, <3>2, <4>1, <4>2
        <3> QED BY <3>3, <3>4
    <2>8. q2 = r
        BY <2>1, <2>4, <2>5, <2>6, <2>7, SeqEqual
    <2> QED BY <2>8 DEF q2, r, q
<1>8. Bus!Less(Conn[s], x) = Cut(Conn[s], k)
    BY <1>2, <1>6, LessIs
<1>9. conn2 = [Conn EXCEPT ![s] = Bus!Less(Conn[s], x)]
    BY <1>2, <1>4, <1>5, <1>7, <1>8
<1>10. /\ stack \in Seq(Entry) /\ Len(stack') = Len(stack) /\ DOMAIN stack = 1 .. Len(stack)
       /\ \A i \in 1 .. Len(stack) : /\ stack[i].signal \in Signal
                                     /\ stack'[i].signal = stack[i].signal
                                     /\ stack'[i].cmd = stack[i].cmd
    BY <1>3, StackFacts, ForgivenFacts DEF IInv
<1>11. \A i \in 1 .. Len(stack) : stack[i].signal = s => stack[i].cmd # x
    BY <1>10 DEF Disconnect, Orderly, Without
<1>12. Shows(stack, conn2) = WithShorter(d, s, x)
    <2>1. Conn \in [Signal -> Seq(Slot)] /\ \A t \in Signal : Distinct(Conn[t])
        BY <1>2
    <2>2. IsCutOf(conn2, Conn, s, k)
        BY <1>5, <1>7 DEF IsCutOf
    <2>3. RunsIn(stack, Conn)
        BY RunsInConn
    <2>4. DoesNotRun(stack, s, Conn[s][k])
        BY <1>6, <1>11 DEF DoesNotRun
    <2>5. Shows(stack, conn2) = WithShorter(d, s, Conn[s][k])
        <3>1. stack \in Seq(Entry) /\ k \in 1 .. Len(Conn[s])
            BY <1>6, <1>10
        <3> QED BY <2>1, <2>2, <2>3, <2>4, <3>1, ShowsCut DEF d
    <2> QED BY <1>6, <2>5
<1>13. Shows(stack', conn2) = Shows(stack, conn2)
    <2>1. /\ Len(stack') = Len(stack)
          /\ \A i \in 1 .. Len(stack) :
                 /\ stack'[i].signal = stack[i].signal /\ stack'[i].cmd = stack[i].cmd
                 /\ conn2[stack[i].signal] = conn2[stack[i].signal]
        BY <1>10
    <2>2. \A i \in 1 .. Len(stack) : Shown(stack'[i], i, conn2) = Shown(stack[i], i, conn2)
        BY <2>1 DEF Shown
    <2> QED BY <2>1, <2>2 DEF Shows
<1>14. /\ ConnectedSlots = Conn /\ Dispatch = d
       /\ ConnectedSlots' = conn2 /\ Dispatch' = Shows(stack', conn2)
    BY BusStates DEF conn2, d
<1>15. Bus!Contains(ConnectedSlots[s], x)
    BY <1>6, <1>14 DEF Bus!Contains
<1>16. ConnectedSlots' = [ConnectedSlots EXCEPT ![s] = Bus!Less(ConnectedSlots[s], x)]
    BY <1>9, <1>14, Zenon
<1>17. Dispatch' = WithShorter(Dispatch, s, x)
    BY <1>12, <1>13, <1>14, Zenon
<1>18. Dispatch' = [i \in DOMAIN Dispatch |->
                       IF Dispatch[i].signal = s
                       THEN [Dispatch[i] EXCEPT !.todo = Bus!Less(Dispatch[i].todo, x)]
                       ELSE Dispatch[i]]
    BY <1>17, Zenon DEF WithShorter
<1> QED BY <1>15, <1>16, <1>18 DEF Bus!Disconnect

LEMMA DisconnectAllIsABusStep ==
    ASSUME IInv, DataInv, Orderly, IInv', DataInv', UNCHANGED allowed,
           NEW s \in Signal, DisconnectAll(s)
    PROVE  Bus!DisconnectAll(s)
<1> DEFINE conn2 == Conn'
           d == Shows(stack, Conn)
<1>1. Lists' = With(Lists, s, << >>)
    BY DisconnectAllKeeps
<1>2. slot' = slot /\ Forgive(s, Slot) /\ ~Running(s)
    BY DEF DisconnectAll, Orderly, Without
<1>3. Conn \in [Signal -> Seq(Slot)]
    BY ConnHas DEF IInv
<1>4. conn2 \in [Signal -> Seq(Slot)] /\ conn2[s] \in Seq(Slot) /\ Len(conn2[s]) = Len(Lists'[s])
    BY ConnHasNext DEF IInv
<1>5. ASSUME NEW t \in Signal, t # s PROVE conn2[t] = Conn[t]
    <2>1. Lists'[t] = Lists[t]
        BY <1>1, <1>5 DEF With
    <2> QED BY <1>2, <2>1, ConnStays DEF IInv
<1> HIDE DEF conn2
<1>6. conn2[s] = << >>
    <2>1. Lists'[s] = << >>
        BY <1>1 DEF With
    <2>2. Len(conn2[s]) = 0
        BY <1>4, <2>1
    <2> QED BY <1>4, <2>2, EmptySeq
<1>7. conn2 = [Conn EXCEPT ![s] = << >>]
    BY <1>3, <1>4, <1>5, <1>6
<1>8. /\ stack \in Seq(Entry) /\ Len(stack') = Len(stack)
      /\ \A i \in 1 .. Len(stack) : /\ stack[i].signal \in Signal /\ stack[i].signal # s
                                    /\ stack'[i].signal = stack[i].signal
                                    /\ stack'[i].cmd = stack[i].cmd
    BY <1>2, StackFacts, ForgivenFacts DEF IInv
<1>9. Shows(stack', conn2) = d
    <2>1. \A i \in 1 .. Len(stack) : conn2[stack[i].signal] = Conn[stack[i].signal]
        BY <1>5, <1>8
    <2>2. /\ Len(stack') = Len(stack)
          /\ \A i \in 1 .. Len(stack) :
                 /\ stack'[i].signal = stack[i].signal /\ stack'[i].cmd = stack[i].cmd
                 /\ conn2[stack[i].signal] = Conn[stack[i].signal]
        BY <1>8, <2>1
    <2>3. \A i \in 1 .. Len(stack) : Shown(stack'[i], i, conn2) = Shown(stack[i], i, Conn)
        BY <2>2 DEF Shown
    <2> QED BY <2>2, <2>3 DEF Shows
<1>10. DOMAIN d = 1 .. Len(stack) /\ \A i \in 1 .. Len(stack) : d[i] = Shown(stack[i], i, Conn)
    BY <1>8, ShowsHas
<1>11. \A i \in DOMAIN d : d[i].signal # s
    BY <1>8, <1>10 DEF Shown
<1>12. /\ ConnectedSlots = Conn /\ Dispatch = d
       /\ ConnectedSlots' = conn2 /\ Dispatch' = Shows(stack', conn2)
    BY BusStates DEF conn2
<1> HIDE DEF d
<1> QED BY <1>7, <1>9, <1>11, <1>12 DEF Bus!DisconnectAll

(* The lists are left alone. *)
LEMMA ConnOfSame ==
    ASSUME UNCHANGED <<storage, m_slotList>>
    PROVE  Conn' = Conn
<1>1. UNCHANGED <<slot, next, m_slotList>>
    BY DEF storage
<1>2. Lists' = Lists
    BY <1>1 DEF Lists, Chain
<1> QED BY <1>1, <1>2 DEF Conn

LEMMA ActivIsABusStep ==
    ASSUME IInv, DataInv, Orderly, IInv', DataInv', UNCHANGED allowed,
           NEW s \in Signal, Activ(s)
    PROVE  Bus!Activ(s)
<1> DEFINE d == Shows(stack, Conn)
           q == Conn[s]
           m == Len(stack)
<1>1. PICK e \in Entry : /\ e.signal = s /\ e.cmd = slot[m_slotList[s]]
                         /\ stack' = Append(stack, e)
    BY ActivEntry
<1>2. /\ Lists[s] \in Seq(Node) /\ Lists[s] # << >> /\ m_slotList[s] = Lists[s][1]
      /\ Len(Lists[s]) \in Nat /\ Len(Lists[s]) # 0
    <2>1. /\ Lists[s] \in Seq(Node) /\ m_slotList[s] # Null
          /\ m_slotList[s] = Null <=> Lists[s] = << >>
          /\ IsPath(Lists[s], m_slotList[s], next)
        BY PoolFacts DEF IInv, Activ, IsConnected
    <2>2. Lists[s] # << >> /\ m_slotList[s] = Lists[s][1]
        BY <2>1 DEF IsPath
    <2> QED BY <2>1, <2>2, EmptySeq
<1>3. /\ q \in Seq(Slot) /\ Distinct(q) /\ Len(q) = Len(Lists[s])
      /\ \A k \in 1 .. Len(Lists[s]) : q[k] = slot[Lists[s][k]]
    BY ConnHas DEF IInv
<1> HIDE DEF q
<1>4. q # << >> /\ q[1] = e.cmd
    <2>1. 1 \in 1 .. Len(Lists[s])
        BY <1>2
    <2>2. q # << >>
        BY <1>2, <1>3, EmptySeq
    <2> QED BY <1>1, <1>2, <1>3, <2>1, <2>2
<1>5. Head(q) = q[1] /\ Behind(q[1], q) = Tail(q)
    BY <1>3, <1>4, BehindFirst
<1>6. Shown(e, m + 1, Conn) = [signal |-> s, cmd |-> Head(q), todo |-> Tail(q), data |-> m + 1]
    <2>1. Shown(e, m + 1, Conn)
              = [signal |-> s, cmd |-> e.cmd, todo |-> Behind(e.cmd, q), data |-> m + 1]
        BY <1>1 DEF Shown, q
    <2>2. e.cmd = Head(q) /\ Behind(e.cmd, q) = Tail(q)
        BY <1>4, <1>5
    <2> QED BY <2>1, <2>2
<1>7. stack \in Seq(Entry)
    BY StackFacts DEF IInv
<1>8. Shows(Append(stack, e), Conn) = Append(d, Shown(e, m + 1, Conn))
    BY <1>7, ShowsAppended
<1>9. Len(d) = m
    BY <1>7, ShowsHas
<1>10. Conn' = Conn
    <2>1. UNCHANGED <<storage, m_slotList>>
        BY DEF Activ
    <2> QED BY <2>1, ConnOfSame
<1>11. /\ ConnectedSlots = Conn /\ Dispatch = d
       /\ ConnectedSlots' = Conn /\ Dispatch' = Shows(Append(stack, e), Conn)
    BY <1>1, <1>10, BusStates
<1> HIDE DEF d
<1>12. ConnectedSlots[s] = q /\ Len(Dispatch) = m
    BY <1>9, <1>11 DEF q
<1>13. Dispatch' = Append(Dispatch, [signal |-> s, cmd |-> Head(ConnectedSlots[s]),
                                     todo |-> Tail(ConnectedSlots[s]),
                                     data |-> Len(Dispatch) + 1])
    BY <1>6, <1>8, <1>11, <1>12, Zenon
<1>14. ConnectedSlots[s] # << >> /\ UNCHANGED ConnectedSlots
    BY <1>4, <1>11, <1>12
<1> QED BY <1>13, <1>14, Zenon DEF Bus!Activ

LEMMA ReturnToNextIsABusStep ==
    ASSUME IInv, DataInv, Orderly, IInv', DataInv', UNCHANGED allowed, ReturnToNext
    PROVE  Bus!Return
<1> DEFINE d == Shows(stack, Conn)
           m == Len(stack)
           top == Last(stack)
           s == Last(stack).signal
           c == Lists[s]
           q == Conn[s]
           node == next[m_lastGetSlot[s]]
           e == [Last(stack) EXCEPT !.cmd = slot[node], !.owed = @ \ {slot[node]}]
<1>1. stack # << >> /\ GoOnWith(node) /\ UNCHANGED <<storage, m_slotList>>
    BY DEF ReturnToNext
<1>2. /\ stack \in Seq(Entry) /\ m \in Nat /\ m \in 1 .. m
      /\ top = stack[m] /\ top \in Entry /\ s = stack[m].signal /\ s \in Signal
    BY <1>1, StackFacts DEF IInv
<1>3. /\ Front(stack) \in Seq(Entry) /\ Len(Front(stack)) = m - 1
      /\ Bus!Front(d) = Shows(Front(stack), Conn)
      /\ Bus!Last(d) = Shown(top, m, Conn) /\ d # << >>
    BY <1>1, <1>2, ShowsWithoutLast
<1>4. PICK k \in 1 .. Len(c) : m_lastGetSlot[s] = c[k] /\ slot[c[k]] = top.cmd
    BY <1>2, CursorIsKnown
<1>5. c \in Seq(Node) /\ Len(c) \in Nat /\ IsPath(c, m_slotList[s], next)
    BY <1>2, PoolFacts DEF IInv
<1>6. q \in Seq(Slot) /\ Distinct(q) /\ Len(q) = Len(c) /\ \A j \in 1 .. Len(c) : q[j] = slot[c[j]]
    BY <1>2, ConnHas DEF IInv
<1> HIDE DEF d, c, q, top
<1>7. /\ k = Len(c) => node = Null
      /\ k < Len(c) => node = c[k + 1] /\ k + 1 \in 1 .. Len(c) /\ node # Null
    <2>1. c # << >>
        BY <1>4, <1>5
    <2>2. k = Len(c) => node = Null
        BY <1>4, <1>5, <2>1 DEF IsPath
    <2>3. ASSUME k < Len(c) PROVE node = c[k + 1] /\ k + 1 \in 1 .. Len(c) /\ node # Null
        <3>1. k \in 1 .. Len(c) - 1 /\ k + 1 \in 1 .. Len(c)
            BY <1>5, <2>3
        <3>2. node = c[k + 1]
            BY <1>4, <1>5, <3>1 DEF IsPath
        <3>3. c[k + 1] \in Node
            BY <1>5, <3>1
        <3> QED BY <3>1, <3>2, <3>3 DEF Node, Null
    <2> QED BY <2>2, <2>3
<1>8. /\ k = Len(q) => Behind(q[k], q) = << >>
      /\ k < Len(q) => /\ Behind(q[k], q) # << >>
                       /\ Head(Behind(q[k], q)) = q[k + 1]
                       /\ Tail(Behind(q[k], q)) = Behind(q[k + 1], q)
    BY <1>4, <1>6, BehindNext
<1> DEFINE b == Behind(q[k], q)
           rec == [signal |-> s, cmd |-> q[k], todo |-> b, data |-> m]
<1>9. Bus!Last(d) = rec
    <2>1. q[k] = top.cmd
        BY <1>4, <1>6
    <2>2. Shown(top, m, Conn) = [signal |-> s, cmd |-> top.cmd, todo |-> Behind(top.cmd, q), data |-> m]
        BY DEF Shown, top, q
    <2> QED BY <1>3, <2>1, <2>2
<1>10. Conn' = Conn
    BY <1>1, ConnOfSame
<1>11. /\ ConnectedSlots = Conn /\ Dispatch = d
       /\ ConnectedSlots' = Conn /\ Dispatch' = Shows(stack', Conn)
    BY <1>10, BusStates DEF d
<1>12. CASE k = Len(c)
    <2>1. stack' = Front(stack)
        BY <1>7, <1>12, <1>1 DEF GoOnWith
    <2>2. Dispatch' = Bus!Front(Dispatch)
        BY <1>3, <1>11, <2>1
    <2>3. Bus!Last(Dispatch).todo = << >>
        BY <1>6, <1>8, <1>9, <1>11, <1>12
    <2>4. Dispatch # << >> /\ UNCHANGED ConnectedSlots
        BY <1>3, <1>11
    <2> QED BY <2>2, <2>3, <2>4 DEF Bus!Return
<1>13. CASE k < Len(c)
    <2>1. stack' = Append(Front(stack), e)
        BY <1>7, <1>13, <1>1 DEF GoOnWith
    <2>2. node = c[k + 1] /\ k + 1 \in 1 .. Len(c) /\ slot[node] = q[k + 1]
        BY <1>6, <1>7, <1>13
    <2>3. slot[node] \in Slot
        BY <1>6, <2>2
    <2>4. e \in Entry /\ e.signal = s /\ e.cmd = q[k + 1]
        BY <1>2, <2>2, <2>3 DEF Entry, top
    <2> HIDE DEF e, node
    <2>5. (m - 1) + 1 = m
        BY <1>2
    <2>6. Shows(stack', Conn) = Append(Shows(Front(stack), Conn), Shown(e, m, Conn))
        BY <1>3, <2>1, <2>4, <2>5, ShowsAppended
    <2>7. Shown(e, m, Conn) = [signal |-> s, cmd |-> q[k + 1], todo |-> Behind(q[k + 1], q), data |-> m]
        BY <2>4 DEF Shown, q
    <2>8. b # << >> /\ Head(b) = q[k + 1] /\ Tail(b) = Behind(q[k + 1], q)
        BY <1>6, <1>8, <1>13
    <2> HIDE DEF b
    <2>9. rec.todo = b /\ [rec EXCEPT !.cmd = Head(b), !.todo = Tail(b)]
                              = [signal |-> s, cmd |-> Head(b), todo |-> Tail(b), data |-> m]
        <3> DEFINE h == Head(b)
                   r == Tail(b)
        <3> HIDE DEF h, r, s
        <3>1. rec = [signal |-> s, cmd |-> q[k], todo |-> b, data |-> m]
            OBVIOUS
        <3> HIDE DEF rec, m
        <3> DEFINE half == [rec EXCEPT !.cmd = h]
        <3>2. half = [signal |-> s, cmd |-> h, todo |-> b, data |-> m]
            BY <3>1
        <3>3. rec.todo = b
            BY <3>1
        <3> HIDE DEF half
        <3>4. [half EXCEPT !.todo = r] = [signal |-> s, cmd |-> h, todo |-> r, data |-> m]
            BY <3>2
        <3> QED BY <3>3, <3>4 DEF h, r, half, m
    <2> HIDE DEF rec
    <2>10. Shown(e, m, Conn) = [rec EXCEPT !.cmd = Head(rec.todo), !.todo = Tail(rec.todo)]
        BY <2>7, <2>8, <2>9
    <2>11. Bus!Last(Dispatch) = rec /\ Bus!Front(Dispatch) = Shows(Front(stack), Conn)
        BY <1>3, <1>9, <1>11
    <2>12. Dispatch' = Append(Bus!Front(Dispatch),
                              [Bus!Last(Dispatch) EXCEPT
                                  !.cmd = Head(Bus!Last(Dispatch).todo),
                                  !.todo = Tail(Bus!Last(Dispatch).todo)])
        BY <1>11, <2>6, <2>10, <2>11
    <2>13. Bus!Last(Dispatch).todo # << >>
        BY <2>8, <2>9, <2>11
    <2>14. Dispatch # << >> /\ UNCHANGED ConnectedSlots
        BY <1>3, <1>11
    <2> QED BY <2>12, <2>13, <2>14 DEF Bus!Return
<1> QED BY <1>5, <1>12, <1>13

(* No other return is orderly. *)
LEMMA CursorIsOnTheList ==
    ASSUME IInv, Orderly, stack # << >>
    PROVE  /\ m_slotList[Last(stack).signal] # Null
           /\ m_lastGetSlot[Last(stack).signal] # Null
           /\ slot[m_lastGetSlot[Last(stack).signal]] = Last(stack).cmd
<1> DEFINE m == Len(stack)
           s == stack[m].signal
<1>1. m \in 1 .. m /\ Last(stack) = stack[m]
    BY StackFacts DEF IInv
<1>2. s \in Signal
    BY <1>1, StackFacts DEF IInv
<1>3. PICK k \in 1 .. Len(Lists[s]) : m_lastGetSlot[s] = Lists[s][k] /\ slot[Lists[s][k]] = stack[m].cmd
    BY <1>1, CursorIsKnown
<1> HIDE DEF s
<1>4. Lists[s] \in Seq(Node) /\ (m_slotList[s] = Null <=> Lists[s] = << >>)
    BY <1>2, PoolFacts DEF IInv
<1>5. m_lastGetSlot[s] \in Node /\ Lists[s] # << >>
    BY <1>3, <1>4
<1> QED BY <1>1, <1>3, <1>4, <1>5 DEF s, Node, Null

LEMMA NextIsABusStep ==
    ASSUME IInv, DataInv, Orderly, IInv', DataInv', [Next]_vars
    PROVE  [Bus!Next]_(Bus!busVars)
<1> SUFFICES Bus!Next \/ UNCHANGED <<ConnectedSlots, Dispatch>>
    BY DEF Bus!busVars
<1>1. ASSUME NEW s \in Signal, NEW x \in Slot, Connect(s, x), UNCHANGED allowed PROVE Bus!Next
    <2>1. Bus!Connect(s, x)
        BY <1>1, ConnectIsABusStep
    <2> QED BY <2>1 DEF Bus!Next
<1>2. ASSUME NEW s \in Signal, NEW x \in Slot, Disconnect(s, x), UNCHANGED allowed PROVE Bus!Next
    <2>1. Bus!Disconnect(s, x)
        BY <1>2, DisconnectIsABusStep
    <2> QED BY <2>1 DEF Bus!Next
<1>3. ASSUME NEW s \in Signal, DisconnectAll(s), UNCHANGED allowed PROVE Bus!Next
    <2>1. Bus!DisconnectAll(s)
        BY <1>3, DisconnectAllIsABusStep
    <2> QED BY <2>1 DEF Bus!Next
<1>4. ASSUME NEW s \in Signal, Die(s) PROVE FALSE
    BY <1>4 DEF Die, Orderly, Without
<1>5. ASSUME NEW s \in Signal, Activ(s), UNCHANGED allowed PROVE Bus!Next
    <2>1. Bus!Activ(s)
        BY <1>5, ActivIsABusStep
    <2> QED BY <2>1 DEF Bus!Next
<1>6. ASSUME ReturnToNext, UNCHANGED allowed PROVE Bus!Next
    <2>1. Bus!Return
        BY <1>6, ReturnToNextIsABusStep
    <2> QED BY <2>1 DEF Bus!Next
<1>7. ASSUME ReturnToEmpty PROVE FALSE
    BY <1>7, CursorIsOnTheList DEF ReturnToEmpty, IsConnected
<1>8. ASSUME ReturnAfterSearch PROVE FALSE
    BY <1>8, CursorIsOnTheList DEF ReturnAfterSearch
<1>9. ASSUME ReturnFaults PROVE FALSE
    BY <1>9, CursorIsOnTheList DEF ReturnFaults
<1>10. CASE UNCHANGED vars
    <2>1. UNCHANGED <<slot, next, m_slotList, m_lastGetSlot, m_data, stack>>
        BY <1>10 DEF vars, storage
    <2>2. UNCHANGED ConnectedSlots
        BY <2>1 DEF ConnectedSlots, Connected, SlotsOf, Chain
    <2>3. UNCHANGED Dispatch
        BY <2>1 DEF Dispatch, SlotsOf, Chain
    <2> QED BY <2>2, <2>3
<1> QED BY <1>1, <1>2, <1>3, <1>4, <1>5, <1>6, <1>7, <1>8, <1>9, <1>10 DEF Next, Return

(* However orderly slots connect and disconnect each other while they run, *)
(* signals are what SignalBus promises: every step of theirs is a step of  *)
(* the bus, or leaves it as it is.                                         *)
THEOREM IsABus == Spec => ImplementsBus
<1>1. Init => DataInv /\ Bus!Init
    <2> SUFFICES ASSUME Init PROVE DataInv /\ Bus!Init
        OBVIOUS
    <2>1. IInv /\ stack = << >>
        BY InitIsInv DEF Init
    <2>2. DataInv
        BY <2>1 DEF DataInv
    <2>3. Dispatch = << >>
        BY <2>1 DEF Dispatch
    <2>4. ConnectedSlots = [s \in Signal |-> << >>]
        <3>1. ASSUME NEW s \in Signal PROVE ConnectedSlots[s] = << >>
            <4>1. ConnectedSlots[s] = Conn[s]
                BY <2>1, ConnHas DEF IInv
            <4>2. m_slotList[s] = Null
                BY DEF Init
            <4>3. Lists[s] = << >>
                BY <2>1, <4>2, PoolFacts DEF IInv
            <4>4. Conn[s] \in Seq(Slot) /\ Len(Conn[s]) = Len(Lists[s])
                BY <2>1, ConnHas DEF IInv
            <4> QED BY <4>1, <4>3, <4>4, EmptySeq
        <3> QED BY <3>1 DEF ConnectedSlots
    <2> QED BY <2>2, <2>3, <2>4 DEF Bus!Init
<1>2. IInv /\ DataInv /\ [Next]_vars => DataInv'
    BY NextKeepsData
<1>3. Init => (Orderly => Bus!Init)
    BY <1>1
<1>4. ASSUME IInv, DataInv, IInv', DataInv', [Next]_vars
      PROVE  [Orderly => [Bus!Next]_(Bus!busVars)]_vars
    BY <1>4, NextIsABusStep
<1>5. Spec => []DataInv
    BY <1>1, <1>2, Invariance, PTL DEF Spec
<1>6. Spec => (Orderly => Bus!Init)
    BY <1>3 DEF Spec
<1>7. Spec => [][Orderly => [Bus!Next]_(Bus!busVars)]_vars
    BY <1>4, <1>5, Invariance, PTL DEF Spec
<1> QED BY <1>6, <1>7 DEF ImplementsBus
=============================================================================
