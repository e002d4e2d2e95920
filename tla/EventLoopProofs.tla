-------------------------- MODULE EventLoopProofs --------------------------
(***************************************************************************)
(* Proofs about EventLoop for every set of signals, every set of periods   *)
(* and every set of calls that are made: whatever handlers register,       *)
(* deregister, start, stop and destroy while the loop walks over its list. *)
(***************************************************************************)
EXTENDS EventLoop, SequenceTheorems, WellFoundedInduction, TLAPS

(* The signals in the list from place k on. *)
From(k) == {m_listSignal[i] : i \in k .. Len(m_listSignal)}

(* A signal that may be in the list more than once. *)
MayBeTwice(s) == s \in TimeSignal /\ ~Without({"rebuild"})

NoDuplicates ==
    \A i, j \in DOMAIN m_listSignal :
        m_listSignal[i] = m_listSignal[j] => i = j \/ MayBeTwice(m_listSignal[i])

(* While handlers run the iterator is on a node, in the list or removed,   *)
(* which takes the calls that may remove it.                               *)
IteratorIsKnown ==
    /\ phase = "handling" /\ stale = << >> => iter <= Len(m_listSignal)
    /\ stale # << >> => phase \in {"visit", "handling", "faulted"} /\ "selfStop" \in allowed

(* What the pass still owes comes behind the iterator. *)
OwedIsAhead ==
    ~({"selfStop", "rearm"} \subseteq allowed) =>
        /\ phase = "visit" \/ (phase = "handling" /\ stale # << >>) => owed \subseteq From(iter)
        /\ phase = "handling" /\ stale = << >> => owed \subseteq From(iter + 1)

RegistryTyped ==
    /\ m_listSignal \in Seq(Signal) /\ stale \in Seq(Signal)
    /\ iter \in 1 .. Len(m_listSignal) + 1
    /\ owed \subseteq Signal

RegistryInv == RegistryTyped /\ NoDuplicates /\ IteratorIsKnown /\ OwedIsAhead

(* Every preset time is in the list of the loop as long as its object is;  *)
(* a disconnected last slot breaks it.                                     *)
AlivePresetIsRegistered ==
    Without({"disconnectLast"}) =>
        \A s \in TimeSignal \cap alive : m_period[s] # 0 => Registered(s)

(* The handlers that are running are not those of an activation to come.   *)
RunningIsHeard ==
    /\ unheard \subseteq alive
    /\ Without({"activDuringRun"}) => running \cap unheard = {}

RegisteredIsArmed ==
    /\ Without({"rebuild"}) => \A t \in SoftTimer \cap alive : Registered(t) => t \in armed
    /\ \A t \in SoftTimer : m_mode[t] = "once" /\ m_period[t] # 0 => "selfStop" \in allowed

(* The rest of the types, and of what RegisteredOnce says. *)
ObjectsTyped ==
    /\ alive \subseteq Signal /\ isConnected \subseteq alive
    /\ m_period \in [TimeSignal -> Period \cup {0}]
    /\ due \in [TimeSignal -> Nat]
    /\ m_mode \in [SoftTimer -> Mode]
    /\ m_activated \in [LoopSignal -> BOOLEAN]
    /\ phase \in {"setup", "top", "visit", "handling", "faulted"}
    /\ running \subseteq Signal
    /\ unheard \subseteq LoopSignal /\ armed \subseteq SoftTimer

RegisteredAsLongAs ==
    /\ \A l \in LoopSignal : Registered(l) <=> l \in alive
    /\ Without({"rebuild"}) => \A s \in TimeSignal : Registered(s) => m_period[s] # 0

IInv ==
    /\ RegistryInv
    /\ ObjectsTyped /\ RegisteredAsLongAs
    /\ AlivePresetIsRegistered /\ RegisteredIsArmed
    /\ ActivationNotForgotten /\ RunningIsHeard
-----------------------------------------------------------------------------
(* Induction over a set of numbers. *)
LEMMA NaturalsAreReached ==
    ASSUME NEW T, 0 \in T, \A n \in Nat : n \in T => n + 1 \in T
    PROVE  Nat \subseteq T
<1> SUFFICES ASSUME ~(Nat \subseteq T) PROVE FALSE
    OBVIOUS
<1> DEFINE Less == {ss \in Nat \X Nat : ss[1] < ss[2]}
           Missed == Nat \ T
<1>1. Missed \subseteq Nat /\ Missed # {}
    OBVIOUS
<1>2. IsWellFoundedOn(Less, Nat)
    BY NatLessThanWellFounded DEF OpToRel
<1> HIDE DEF Less, Missed
<1>3. PICK x \in Missed : \A y \in Missed : ~(<<y, x>> \in Less)
    BY <1>1, <1>2, WFMin
<1>4. x \in Nat /\ x # 0 /\ x - 1 \in Nat
    BY DEF Missed
<1>5. x - 1 \in Missed
    <2>1. x - 1 \in T => (x - 1) + 1 \in T
        BY <1>4
    <2>2. (x - 1) + 1 = x /\ x \notin T
        BY <1>4 DEF Missed
    <2> QED BY <1>4, <2>1, <2>2 DEF Missed
<1>6. <<x - 1, x>> \in Less
    BY <1>4 DEF Less
<1> QED BY <1>3, <1>5, <1>6

(* Kept is the function that its definition describes. *)
KeptStep(s, g, i) ==
    IF i = 0 THEN << >>
    ELSE IF m_listSignal[i] = s THEN g[i - 1] ELSE Append(g[i - 1], m_listSignal[i])

LEMMA KeptExists ==
    ASSUME NEW s, NEW len \in Nat
    PROVE  \E g : g = [i \in 0 .. len |-> KeptStep(s, g, i)]
<1> DEFINE T == {n \in Nat : \E g : g = [i \in 0 .. n |-> KeptStep(s, g, i)]}
<1>1. 0 \in T
    <2> DEFINE g == [i \in 0 .. 0 |-> << >>]
    <2>1. g = [i \in 0 .. 0 |-> KeptStep(s, g, i)]
        BY DEF KeptStep
    <2> QED BY <2>1
<1>2. ASSUME NEW n \in Nat, n \in T PROVE n + 1 \in T
    <2>1. PICK g : g = [i \in 0 .. n |-> KeptStep(s, g, i)]
        BY <1>2
    <2> DEFINE h == [i \in 0 .. n + 1 |-> IF i = n + 1 THEN KeptStep(s, g, i) ELSE g[i]]
    <2>2. ASSUME NEW i \in 0 .. n + 1 PROVE h[i] = KeptStep(s, h, i)
        <3>1. i # 0 => h[i - 1] = g[i - 1]
            OBVIOUS
        <3>2. KeptStep(s, h, i) = KeptStep(s, g, i)
            BY <3>1 DEF KeptStep
        <3>3. i # n + 1 => g[i] = KeptStep(s, g, i)
            BY <2>1
        <3> QED BY <3>2, <3>3
    <2>3. h = [i \in 0 .. n + 1 |-> KeptStep(s, h, i)]
        BY <2>2
    <2> HIDE DEF h
    <2> QED BY <2>3
<1> HIDE DEF T
<1>3. Nat \subseteq T
    BY <1>1, <1>2, NaturalsAreReached
<1> QED BY <1>3 DEF T

LEMMA KeptIsDefined ==
    ASSUME NEW s, m_listSignal \in Seq(Signal), NEW i \in 0 .. Len(m_listSignal)
    PROVE  Kept(s)[i] = KeptStep(s, Kept(s), i)
<1> DEFINE IsIt(g) == g = [k \in 0 .. Len(m_listSignal) |-> KeptStep(s, g, k)]
<1>1. \E g : IsIt(g)
    <2>1. Len(m_listSignal) \in Nat
        OBVIOUS
    <2> QED BY <2>1, KeptExists
<1>2. Kept(s) = CHOOSE g : IsIt(g)
    BY DEF Kept, KeptStep
<1>3. IsIt(Kept(s))
    <2> HIDE DEF IsIt
    <2> QED BY <1>1, <1>2
<1> DEFINE k == Kept(s)
<1>4. k = [j \in 0 .. Len(m_listSignal) |-> KeptStep(s, k, j)]
    BY <1>3
<1> HIDE DEF k
<1>5. k[i] = KeptStep(s, k, i)
    BY <1>4
<1> QED BY <1>5 DEF k

(* The three cases of that, one by one. *)
LEMMA KeptCases ==
    ASSUME NEW s, m_listSignal \in Seq(Signal)
    PROVE  /\ Kept(s)[0] = << >>
           /\ \A i \in 1 .. Len(m_listSignal) :
                 /\ m_listSignal[i] = s => Kept(s)[i] = Kept(s)[i - 1]
                 /\ m_listSignal[i] # s => Kept(s)[i] = Append(Kept(s)[i - 1], m_listSignal[i])
<1>0. Len(m_listSignal) \in Nat
    OBVIOUS
<1>1. Kept(s)[0] = << >>
    BY <1>0, KeptIsDefined DEF KeptStep
<1>2. ASSUME NEW i \in 1 .. Len(m_listSignal)
      PROVE  /\ m_listSignal[i] = s => Kept(s)[i] = Kept(s)[i - 1]
             /\ m_listSignal[i] # s => Kept(s)[i] = Append(Kept(s)[i - 1], m_listSignal[i])
    <2>1. i \in 0 .. Len(m_listSignal) /\ i # 0
        BY <1>0
    <2>2. Kept(s)[i] = KeptStep(s, Kept(s), i)
        BY <2>1, KeptIsDefined
    <2> QED BY <2>1, <2>2 DEF KeptStep
<1> QED BY <1>1, <1>2

(* What is left is a list of signals; as far as it is known it stays.      *)
LEMMA KeptIsList ==
    ASSUME NEW s, m_listSignal \in Seq(Signal), NEW n \in 0 .. Len(m_listSignal)
    PROVE  Kept(s)[n] \in Seq(Signal)
<1> DEFINE T == {i \in Nat : i <= Len(m_listSignal) => Kept(s)[i] \in Seq(Signal)}
<1>0. Len(m_listSignal) \in Nat
    OBVIOUS
<1>1. 0 \in T
    <2>1. Kept(s)[0] = << >> /\ << >> \in Seq(Signal)
        BY KeptCases
    <2> QED BY <2>1
<1>2. ASSUME NEW i \in Nat, i \in T PROVE i + 1 \in T
    <2> SUFFICES ASSUME i + 1 <= Len(m_listSignal) PROVE Kept(s)[i + 1] \in Seq(Signal)
        OBVIOUS
    <2>1. i + 1 \in 1 .. Len(m_listSignal) /\ (i + 1) - 1 = i /\ i <= Len(m_listSignal)
        BY <1>0
    <2>2. Kept(s)[i] \in Seq(Signal) /\ m_listSignal[i + 1] \in Signal
        BY <1>2, <2>1
    <2>3. Kept(s)[i + 1] = Kept(s)[i] \/ Kept(s)[i + 1] = Append(Kept(s)[i], m_listSignal[i + 1])
        BY <2>1, KeptCases
    <2>4. Append(Kept(s)[i], m_listSignal[i + 1]) \in Seq(Signal)
        BY <2>2
    <2> QED BY <2>2, <2>3, <2>4
<1>3. Nat \subseteq T
    <2> HIDE DEF T
    <2> QED BY <1>1, <1>2, NaturalsAreReached
<1> QED BY <1>0, <1>3

LEMMA KeptGrows ==
    ASSUME NEW s, m_listSignal \in Seq(Signal),
           NEW n \in 0 .. Len(m_listSignal), NEW i \in 0 .. n
    PROVE  /\ Len(Kept(s)[i]) <= Len(Kept(s)[n])
           /\ \A k \in 1 .. Len(Kept(s)[i]) : Kept(s)[n][k] = Kept(s)[i][k]
<1> DEFINE Goal(m) == /\ Len(Kept(s)[i]) <= Len(Kept(s)[m])
                      /\ \A k \in 1 .. Len(Kept(s)[i]) : Kept(s)[m][k] = Kept(s)[i][k]
           T == {m \in Nat : i <= m /\ m <= Len(m_listSignal) => Goal(m)}
<1>0. Len(m_listSignal) \in Nat /\ i \in 0 .. Len(m_listSignal) /\ i \in Nat /\ n \in Nat
    OBVIOUS
<1>1. Kept(s)[i] \in Seq(Signal) /\ Len(Kept(s)[i]) \in Nat
    BY <1>0, KeptIsList
<1>2. Goal(i)
    BY <1>1
<1>3. 0 \in T
    BY <1>0, <1>2
<1>4. ASSUME NEW m \in Nat, m \in T PROVE m + 1 \in T
    <2> SUFFICES ASSUME i <= m + 1, m + 1 <= Len(m_listSignal) PROVE Goal(m + 1)
        OBVIOUS
    <2>1. CASE i = m + 1
        BY <1>2, <2>1
    <2>2. CASE i # m + 1
        <3>1. /\ i <= m /\ m + 1 \in 1 .. Len(m_listSignal) /\ (m + 1) - 1 = m
              /\ m \in 0 .. Len(m_listSignal)
            BY <1>0, <2>2
        <3>2. Goal(m)
            BY <1>4, <3>1
        <3>3. Kept(s)[m] \in Seq(Signal) /\ m_listSignal[m + 1] \in Signal
            BY <3>1, KeptIsList
        <3>4. Kept(s)[m + 1] = Kept(s)[m] \/ Kept(s)[m + 1] = Append(Kept(s)[m], m_listSignal[m + 1])
            BY <3>1, KeptCases
        <3>5. /\ Len(Kept(s)[m]) <= Len(Kept(s)[m + 1])
              /\ \A k \in 1 .. Len(Kept(s)[m]) : Kept(s)[m + 1][k] = Kept(s)[m][k]
            BY <3>3, <3>4
        <3>6. Kept(s)[m + 1] \in Seq(Signal)
            BY <3>1, KeptIsList
        <3> QED BY <1>1, <3>2, <3>3, <3>5, <3>6
    <2> QED BY <2>1, <2>2
<1>5. Nat \subseteq T
    <2> HIDE DEF T
    <2> QED BY <1>3, <1>4, NaturalsAreReached
<1> QED BY <1>0, <1>5

(* The place that the node i has, or would have, when s is gone. *)
Place(s, i) == Len(Kept(s)[i - 1]) + 1

After(s) == Kept(s)[Len(m_listSignal)]

LEMMA PlaceIsKept ==
    ASSUME NEW s, m_listSignal \in Seq(Signal), NEW i \in 1 .. Len(m_listSignal)
    PROVE  /\ Place(s, i) \in 1 .. Len(After(s)) + 1
           /\ m_listSignal[i] = s => Place(s, i + 1) = Place(s, i)
           /\ m_listSignal[i] # s => /\ Place(s, i) \in 1 .. Len(After(s))
                                     /\ After(s)[Place(s, i)] = m_listSignal[i]
                                     /\ Place(s, i + 1) = Place(s, i) + 1
<1>0. /\ Len(m_listSignal) \in Nat /\ i \in 0 .. Len(m_listSignal) /\ i - 1 \in 0 .. Len(m_listSignal)
      /\ i - 1 \in 0 .. Len(m_listSignal) /\ Len(m_listSignal) \in 0 .. Len(m_listSignal)
      /\ (i + 1) - 1 = i
    OBVIOUS
<1>1. /\ Kept(s)[i - 1] \in Seq(Signal) /\ Kept(s)[i] \in Seq(Signal) /\ After(s) \in Seq(Signal)
      /\ m_listSignal[i] \in Signal
    BY <1>0, KeptIsList DEF After
<1>2. Len(Kept(s)[i - 1]) <= Len(After(s)) /\ Len(Kept(s)[i]) <= Len(After(s))
    BY <1>0, KeptGrows DEF After
<1>3. m_listSignal[i] = s => Place(s, i + 1) = Place(s, i)
    BY <1>0, KeptCases DEF Place
<1>4. ASSUME m_listSignal[i] # s
      PROVE  /\ Place(s, i) \in 1 .. Len(After(s))
             /\ After(s)[Place(s, i)] = m_listSignal[i]
             /\ Place(s, i + 1) = Place(s, i) + 1
    <2>1. Kept(s)[i] = Append(Kept(s)[i - 1], m_listSignal[i])
        BY <1>4, KeptCases
    <2>2. /\ Len(Kept(s)[i]) = Place(s, i) /\ Place(s, i) \in 1 .. Len(Kept(s)[i])
          /\ Kept(s)[i][Place(s, i)] = m_listSignal[i]
        BY <1>1, <2>1 DEF Place
    <2>3. After(s)[Place(s, i)] = Kept(s)[i][Place(s, i)]
        BY <1>0, <2>2, KeptGrows DEF After
    <2>4. Place(s, i + 1) = Len(Kept(s)[i]) + 1
        BY <1>0 DEF Place
    <2> QED BY <1>1, <1>2, <2>2, <2>3, <2>4
<1> QED BY <1>1, <1>2, <1>3, <1>4 DEF Place

LEMMA PlacesAreInOrder ==
    ASSUME NEW s, m_listSignal \in Seq(Signal),
           NEW j \in 1 .. Len(m_listSignal) + 1, NEW i \in 1 .. j
    PROVE  /\ Place(s, i) <= Place(s, j) /\ Place(s, i) \in 1 .. Len(After(s)) + 1
           /\ Place(s, j) \in 1 .. Len(After(s)) + 1
<1>0. /\ Len(m_listSignal) \in Nat /\ j - 1 \in 0 .. Len(m_listSignal) /\ i - 1 \in 0 .. j - 1
      /\ i - 1 \in 0 .. Len(m_listSignal) /\ Len(m_listSignal) \in 0 .. Len(m_listSignal)
      /\ j - 1 \in 0 .. Len(m_listSignal)
    OBVIOUS
<1>1. Kept(s)[i - 1] \in Seq(Signal) /\ Kept(s)[j - 1] \in Seq(Signal) /\ After(s) \in Seq(Signal)
    BY <1>0, KeptIsList DEF After
<1>2. /\ Len(Kept(s)[i - 1]) <= Len(Kept(s)[j - 1])
      /\ Len(Kept(s)[i - 1]) <= Len(After(s))
      /\ Len(Kept(s)[j - 1]) <= Len(After(s))
    BY <1>0, KeptGrows DEF After
<1> QED BY <1>1, <1>2 DEF Place

(* Every node that is left is one that was there. *)
LEMMA EveryPlaceIsOfANode ==
    ASSUME NEW s, m_listSignal \in Seq(Signal), NEW k \in 1 .. Len(After(s))
    PROVE  \E i \in 1 .. Len(m_listSignal) : m_listSignal[i] # s /\ Place(s, i) = k
<1> DEFINE Goal(n) == \A q \in 1 .. Len(Kept(s)[n]) :
                         \E i \in 1 .. n : m_listSignal[i] # s /\ Place(s, i) = q
           T == {n \in Nat : n <= Len(m_listSignal) => Goal(n)}
<1>0. Len(m_listSignal) \in Nat
    OBVIOUS
<1>1. 0 \in T
    BY KeptCases
<1>2. ASSUME NEW n \in Nat, n \in T PROVE n + 1 \in T
    <2> SUFFICES ASSUME n + 1 <= Len(m_listSignal), NEW q \in 1 .. Len(Kept(s)[n + 1])
                 PROVE  \E i \in 1 .. n + 1 : m_listSignal[i] # s /\ Place(s, i) = q
        OBVIOUS
    <2>1. /\ n + 1 \in 1 .. Len(m_listSignal) /\ (n + 1) - 1 = n /\ n \in 0 .. Len(m_listSignal)
          /\ n + 1 \in 1 .. n + 1
        BY <1>0
    <2>2. Goal(n)
        BY <1>2, <2>1
    <2>3. Kept(s)[n] \in Seq(Signal) /\ m_listSignal[n + 1] \in Signal
        BY <2>1, KeptIsList
    <2>4. CASE m_listSignal[n + 1] = s
        BY <2>1, <2>2, <2>4, KeptCases
    <2>5. CASE m_listSignal[n + 1] # s
        <3>1. Kept(s)[n + 1] = Append(Kept(s)[n], m_listSignal[n + 1])
            BY <2>1, <2>5, KeptCases
        <3>2. Len(Kept(s)[n + 1]) = Len(Kept(s)[n]) + 1 /\ Place(s, n + 1) = Len(Kept(s)[n]) + 1
            BY <2>1, <2>3, <3>1 DEF Place
        <3>3. q \in 1 .. Len(Kept(s)[n]) \/ q = Place(s, n + 1)
            BY <2>3, <3>2
        <3> QED BY <2>1, <2>2, <2>5, <3>3
    <2> QED BY <2>4, <2>5
<1>3. Nat \subseteq T
    <2> HIDE DEF T
    <2> QED BY <1>1, <1>2, NaturalsAreReached
<1>4. Goal(Len(m_listSignal))
    BY <1>0, <1>3
<1> QED BY <1>4 DEF After
-----------------------------------------------------------------------------
(* What registering and deregistering do to the list and to a pass.        *)

LEMMA RegisterInv ==
    ASSUME RegistryInv, NEW s \in Signal, Registered(s) => MayBeTwice(s), Calling, Register(s),
           UNCHANGED <<phase, allowed>>
    PROVE  RegistryInv' /\ \A x : Registered(x)' <=> Registered(x) \/ x = s
<1>0. /\ m_listSignal \in Seq(Signal) /\ stale \in Seq(Signal)
      /\ iter \in 1 .. Len(m_listSignal) + 1 /\ owed \subseteq Signal
      /\ Len(m_listSignal) \in Nat /\ Len(stale) \in Nat
    BY DEF RegistryInv, RegistryTyped
<1>1. /\ phase = "handling" => "rearm" \in allowed
      /\ m_listSignal' = Append(m_listSignal, s)
      /\ owed' = owed /\ phase' = phase /\ allowed' = allowed
    BY DEF Register
<1>2. /\ m_listSignal' \in Seq(Signal) /\ Len(m_listSignal') = Len(m_listSignal) + 1
      /\ \A i \in 1 .. Len(m_listSignal) : m_listSignal'[i] = m_listSignal[i]
      /\ m_listSignal'[Len(m_listSignal) + 1] = s
    BY <1>0, <1>1
<1>3. /\ stale' \in Seq(Signal) /\ iter' \in 1 .. Len(m_listSignal') + 1
      /\ stale = << >> => stale' = << >> /\ iter' = IF iter > Len(m_listSignal) THEN iter + 1 ELSE iter
    <2>1. CASE RegisterInFresh
        BY <1>0, <1>2, <2>1 DEF RegisterInFresh
    <2>2. ASSUME NEW k \in 1 .. Len(stale),
                 stale' = SubSeq(stale, 1, k - 1), iter' = Len(m_listSignal) + 1
          PROVE  stale' \in Seq(Signal) /\ iter' \in 1 .. Len(m_listSignal') + 1 /\ stale # << >>
        BY <1>0, <1>2, <2>2
    <2>3. CASE RegisterInStale
        BY <2>2, <2>3 DEF RegisterInStale
    <2> QED BY <2>1, <2>3 DEF Register
<1>4. RegistryTyped'
    BY <1>0, <1>1, <1>2, <1>3 DEF RegistryTyped
<1>5. \A x : Registered(x)' <=> Registered(x) \/ x = s
    <2> TAKE x
    <2>1. Registered(x)' <=> \E i \in 1 .. Len(m_listSignal) + 1 : m_listSignal'[i] = x
        BY <1>0, <1>2 DEF Registered, Contains
    <2>2. Registered(x) <=> \E i \in 1 .. Len(m_listSignal) : m_listSignal[i] = x
        BY <1>0 DEF Registered, Contains
    <2> QED BY <1>0, <1>2, <2>1, <2>2
<1>6. NoDuplicates'
    <2>0. \A x : MayBeTwice(x)' <=> MayBeTwice(x)
        BY <1>1 DEF MayBeTwice, Without
    <2>1. \A i \in 1 .. Len(m_listSignal) : m_listSignal[i] = s => MayBeTwice(s)
        BY DEF Registered, Contains
    <2>2. DOMAIN m_listSignal' = 1 .. Len(m_listSignal) + 1 /\ DOMAIN m_listSignal = 1 .. Len(m_listSignal)
        BY <1>0, <1>2
    <2> SUFFICES ASSUME NEW i \in 1 .. Len(m_listSignal) + 1, NEW j \in 1 .. Len(m_listSignal) + 1,
                        m_listSignal'[i] = m_listSignal'[j], ~MayBeTwice(m_listSignal'[i])
                 PROVE  i = j
        BY <2>0, <2>2 DEF NoDuplicates
    <2>3. /\ i \in 1 .. Len(m_listSignal) \/ i = Len(m_listSignal) + 1
          /\ j \in 1 .. Len(m_listSignal) \/ j = Len(m_listSignal) + 1
        BY <1>0
    <2> QED BY <1>2, <2>1, <2>2, <2>3 DEF RegistryInv, NoDuplicates
<1>7. stale' # << >> => stale # << >>
    BY <1>3
<1>8. IteratorIsKnown'
    <2>1. phase = "handling" /\ stale' = << >> => iter' <= Len(m_listSignal')
        <3>1. CASE RegisterInFresh
            BY <1>0, <1>2, <3>1 DEF RegisterInFresh, RegistryInv, IteratorIsKnown
        <3>2. CASE RegisterInStale
            BY <1>0, <1>2, <3>2 DEF RegisterInStale
        <3> QED BY <3>1, <3>2 DEF Register
    <2> QED BY <1>1, <1>7, <2>1 DEF RegistryInv, IteratorIsKnown
<1>9. OwedIsAhead'
    <2> SUFFICES ASSUME ~({"selfStop", "rearm"} \subseteq allowed), phase = "handling"
                 PROVE  stale' = << >> /\ owed \subseteq From(iter + 1)'
        BY <1>1 DEF OwedIsAhead, Calling
    <2>1. stale = << >> /\ owed \subseteq From(iter + 1)
        BY <1>1 DEF RegistryInv, IteratorIsKnown, OwedIsAhead
    <2>2. From(iter + 1) \subseteq From(iter + 1)'
        BY <1>0, <1>2, <1>3, <2>1 DEF From
    <2> QED BY <1>3, <2>1, <2>2
<1> QED BY <1>4, <1>5, <1>6, <1>8, <1>9 DEF RegistryInv

LEMMA RemovesTheSignal ==
    ASSUME RegistryTyped, NoDuplicates, NEW s \in Signal, Removes(s), UNCHANGED allowed
    PROVE  /\ m_listSignal' \in Seq(Signal) /\ iter' \in 1 .. Len(m_listSignal') + 1
           /\ NoDuplicates'
           /\ \A x : Registered(x)' <=> Registered(x) /\ x # s
           /\ From(iter) \ {s} \subseteq From(iter)'
           /\ iter <= Len(m_listSignal) /\ m_listSignal[iter] # s =>
                 /\ iter' <= Len(m_listSignal')
                 /\ From(iter + 1) \ {s} \subseteq From(iter + 1)'
<1>0. /\ m_listSignal \in Seq(Signal) /\ iter \in 1 .. Len(m_listSignal) + 1
      /\ owed \subseteq Signal /\ Len(m_listSignal) \in Nat
    BY DEF RegistryTyped
<1>1. m_listSignal' = After(s) /\ iter' = Place(s, iter) /\ owed' = owed \ {s}
    BY DEF Removes, After, Place
<1>2. After(s) \in Seq(Signal)
    BY <1>0, KeptIsList DEF After
<1>3. iter' \in 1 .. Len(After(s)) + 1
    BY <1>0, <1>1, PlacesAreInOrder
<1>4. \A i \in 1 .. Len(m_listSignal) : m_listSignal[i] # s =>
          /\ Place(s, i) \in 1 .. Len(After(s)) /\ After(s)[Place(s, i)] = m_listSignal[i]
          /\ Place(s, i + 1) = Place(s, i) + 1
    BY <1>0, PlaceIsKept
<1>5. \A k \in 1 .. Len(After(s)) :
          \E i \in 1 .. Len(m_listSignal) :
              m_listSignal[i] # s /\ Place(s, i) = k /\ After(s)[k] = m_listSignal[i]
    BY <1>0, <1>4, EveryPlaceIsOfANode, SMTT(30)
<1>6. \A x : Registered(x)' <=> Registered(x) /\ x # s
    <2> SUFFICES ASSUME NEW x PROVE Registered(x)' <=> Registered(x) /\ x # s
        OBVIOUS
    <2>1. Registered(x)' <=> \E k \in 1 .. Len(After(s)) : After(s)[k] = x
        BY <1>1 DEF Registered, Contains
    <2>2. Registered(x) <=> \E i \in 1 .. Len(m_listSignal) : m_listSignal[i] = x
        BY DEF Registered, Contains
    <2>3. ASSUME Registered(x)' PROVE Registered(x) /\ x # s
        BY <1>5, <2>1, <2>2, <2>3
    <2>4. ASSUME Registered(x), x # s PROVE Registered(x)'
        BY <1>4, <2>1, <2>2, <2>4
    <2> QED BY <2>3, <2>4
<1>7. NoDuplicates'
    <2>1. DOMAIN m_listSignal' = 1 .. Len(After(s)) /\ DOMAIN m_listSignal = 1 .. Len(m_listSignal)
        BY <1>0, <1>1, <1>2
    <2> SUFFICES ASSUME NEW k \in 1 .. Len(After(s)), NEW q \in 1 .. Len(After(s)),
                        After(s)[k] = After(s)[q], ~MayBeTwice(After(s)[k])
                 PROVE  k = q
        BY <1>1, <2>1 DEF NoDuplicates, MayBeTwice, Without
    <2>2. PICK i \in 1 .. Len(m_listSignal) : Place(s, i) = k /\ After(s)[k] = m_listSignal[i]
        BY <1>5
    <2>3. PICK j \in 1 .. Len(m_listSignal) : Place(s, j) = q /\ After(s)[q] = m_listSignal[j]
        BY <1>5
    <2>4. i = j
        BY <2>1, <2>2, <2>3 DEF NoDuplicates
    <2> QED BY <2>2, <2>3, <2>4
<1>8. ASSUME NEW n \in {iter, iter + 1}, n \in 1 .. Len(m_listSignal) + 1, NEW x \in From(n) \ {s}
      PROVE  \E k \in Place(s, n) .. Len(After(s)) : After(s)[k] = x
    <2>1. PICK i \in n .. Len(m_listSignal) : m_listSignal[i] = x
        BY DEF From
    <2>2. i \in 1 .. Len(m_listSignal) /\ n \in 1 .. i /\ i \in 1 .. Len(m_listSignal) + 1
        BY <1>0, <1>8, <2>1
    <2>3. /\ Place(s, i) \in 1 .. Len(After(s)) /\ After(s)[Place(s, i)] = x
          /\ Place(s, n) <= Place(s, i) /\ Place(s, n) \in 1 .. Len(After(s)) + 1
        BY <1>0, <1>4, <1>8, <2>1, <2>2, PlacesAreInOrder
    <2>4. Place(s, i) \in Place(s, n) .. Len(After(s))
        BY <1>2, <2>3
    <2> QED BY <2>3, <2>4
<1>9. From(iter) \ {s} \subseteq From(iter)'
    BY <1>0, <1>1, <1>8 DEF From
<1>10. ASSUME iter <= Len(m_listSignal), m_listSignal[iter] # s
       PROVE  /\ iter' <= Len(m_listSignal')
              /\ From(iter + 1) \ {s} \subseteq From(iter + 1)'
    <2>1. iter \in 1 .. Len(m_listSignal) /\ m_listSignal[iter] # s /\ iter + 1 \in 1 .. Len(m_listSignal) + 1
        BY <1>0, <1>10
    <2>2. /\ Place(s, iter) \in 1 .. Len(After(s)) /\ After(s)[Place(s, iter)] = m_listSignal[iter]
          /\ Place(s, iter + 1) = iter' + 1
        BY <1>1, <1>4, <2>1
    <2>3. iter' <= Len(m_listSignal')
        BY <1>1, <1>2, <2>2
    <2>4. \A x \in From(iter + 1) \ {s} : \E k \in iter' + 1 .. Len(m_listSignal') : m_listSignal'[k] = x
        BY <1>1, <1>8, <2>1, <2>2
    <2> QED BY <2>3, <2>4 DEF From
<1>11. m_listSignal' \in Seq(Signal) /\ iter' \in 1 .. Len(m_listSignal') + 1
    BY <1>1, <1>2, <1>3
<1> QED BY <1>6, <1>7, <1>9, <1>10, <1>11

(* The chain of removed nodes grows by those that go from its end. *)
LEMMA ChainGrows ==
    ASSUME RegistryTyped, NEW s \in Signal, Removes(s)
    PROVE  /\ stale' \in Seq(Signal)
           /\ phase = "setup" => stale' = stale
           /\ stale # << >> => stale' # << >>
           /\ phase # "setup" /\ iter <= Len(m_listSignal) /\ m_listSignal[iter] = s => stale' # << >>
           /\ stale = << >> /\ stale' # << >> => iter <= Len(m_listSignal) /\ m_listSignal[iter] = s
<1>0. /\ m_listSignal \in Seq(Signal) /\ stale \in Seq(Signal)
      /\ iter \in 1 .. Len(m_listSignal) + 1 /\ Len(m_listSignal) \in Nat
    BY DEF RegistryTyped
<1>1. PICK n \in 0 .. Len(m_listSignal) - iter + 1 :
          /\ Leading(s, n)
          /\ stale' = IF phase = "setup" THEN stale ELSE stale \o [i \in 1 .. n |-> s]
    BY DEF Removes
<1>2. PICK same : same = [i \in 1 .. n |-> s]
    OBVIOUS
<1>3. n \in Nat /\ same \in Seq(Signal) /\ Len(same) = n
    BY <1>0, <1>2
<1>4. stale \o same \in Seq(Signal) /\ Len(stale \o same) = Len(stale) + n
    BY <1>0, <1>3
<1>5. n = 0 => ~(iter <= Len(m_listSignal) /\ m_listSignal[iter] = s)
    BY <1>0, <1>1 DEF Leading
<1>6. n # 0 => iter <= Len(m_listSignal) /\ m_listSignal[iter] = s
    BY <1>0, <1>1 DEF Leading
<1>7. stale' = IF phase = "setup" THEN stale ELSE stale \o same
    BY <1>1, <1>2
<1>8. \A q \in Seq(Signal) : q = << >> <=> Len(q) = 0
    OBVIOUS
<1>9. Len(stale) \in Nat
    BY <1>0
<1> QED BY <1>0, <1>3, <1>4, <1>5, <1>6, <1>7, <1>8, <1>9

LEMMA DeregisterInv ==
    ASSUME RegistryInv, NEW s \in Signal, Calling, Deregister(s), UNCHANGED <<phase, allowed>>
    PROVE  RegistryInv' /\ \A x : Registered(x)' <=> Registered(x) /\ x # s
<1>0. /\ RegistryTyped /\ NoDuplicates /\ IteratorIsKnown /\ OwedIsAhead
      /\ Removes(s) /\ (phase = "handling" /\ Here = s => "selfStop" \in allowed)
      /\ owed' = owed \ {s} /\ phase' = phase /\ allowed' = allowed
    BY DEF RegistryInv, Deregister, Removes
<1>1. /\ m_listSignal' \in Seq(Signal) /\ iter' \in 1 .. Len(m_listSignal') + 1
      /\ NoDuplicates'
      /\ \A x : Registered(x)' <=> Registered(x) /\ x # s
      /\ From(iter) \ {s} \subseteq From(iter)'
      /\ iter <= Len(m_listSignal) /\ m_listSignal[iter] # s =>
            /\ iter' <= Len(m_listSignal')
            /\ From(iter + 1) \ {s} \subseteq From(iter + 1)'
    BY <1>0, RemovesTheSignal
<1>2. /\ stale' \in Seq(Signal)
      /\ phase = "setup" => stale' = stale
      /\ stale # << >> => stale' # << >>
      /\ phase # "setup" /\ iter <= Len(m_listSignal) /\ m_listSignal[iter] = s => stale' # << >>
      /\ stale = << >> /\ stale' # << >> => iter <= Len(m_listSignal) /\ m_listSignal[iter] = s
    BY <1>0, ChainGrows
<1>3. phase = "handling" /\ stale' = << >> => /\ stale = << >>
                                           /\ iter <= Len(m_listSignal) /\ m_listSignal[iter] # s
    BY <1>0, <1>2 DEF IteratorIsKnown
<1>4. IteratorIsKnown'
    <2>1. stale' # << >> => phase \in {"visit", "handling", "faulted"} /\ "selfStop" \in allowed
        BY <1>0, <1>2 DEF IteratorIsKnown, Here, Calling
    <2> QED BY <1>0, <1>1, <1>3, <2>1 DEF IteratorIsKnown
<1>5. From(iter + 1) \subseteq From(iter)
    BY <1>0 DEF From, RegistryTyped
<1>6. OwedIsAhead'
    <2> SUFFICES ASSUME ~({"selfStop", "rearm"} \subseteq allowed), phase = "handling"
                 PROVE  /\ stale' # << >> => owed \ {s} \subseteq From(iter)'
                        /\ stale' = << >> => owed \ {s} \subseteq From(iter + 1)'
        BY <1>0 DEF OwedIsAhead, Calling
    <2>1. /\ stale # << >> => owed \subseteq From(iter)
          /\ stale = << >> => owed \subseteq From(iter + 1)
        BY <1>0 DEF OwedIsAhead
    <2> QED BY <1>1, <1>3, <1>5, <2>1
<1>7. RegistryTyped'
    BY <1>0, <1>1, <1>2 DEF RegistryTyped
<1> QED BY <1>1, <1>4, <1>6, <1>7 DEF RegistryInv

LEMMA RegistryStays ==
    ASSUME RegistryInv, UNCHANGED <<registry, phase, allowed>>
    PROVE  RegistryInv' /\ \A x : Registered(x)' <=> Registered(x)
<1>1. UNCHANGED <<m_listSignal, stale, iter, owed, phase, allowed>>
    BY DEF registry
<1> QED BY <1>1 DEF RegistryInv, RegistryTyped, NoDuplicates, MayBeTwice, Without, IteratorIsKnown,
           OwedIsAhead, From, Registered
-----------------------------------------------------------------------------
LEMMA InitIInv == Init => IInv
<1> SUFFICES ASSUME Init PROVE IInv
    OBVIOUS
<1>0. /\ m_listSignal = << >> /\ Len(m_listSignal) = 0 /\ m_listSignal \in Seq(Signal)
      /\ DOMAIN m_listSignal = {} /\ \A x : ~Registered(x)
    BY DEF Init, Registered, Contains
<1>1. RegistryInv
    BY <1>0, EmptySeq DEF Init, RegistryInv, RegistryTyped, NoDuplicates, IteratorIsKnown, OwedIsAhead
<1>2. ObjectsTyped /\ RegisteredAsLongAs
    BY <1>0 DEF Init, ObjectsTyped, RegisteredAsLongAs, Mode
<1>3. AlivePresetIsRegistered /\ RegisteredIsArmed /\ ActivationNotForgotten /\ RunningIsHeard
    BY DEF Init, AlivePresetIsRegistered, RegisteredIsArmed, ActivationNotForgotten, RunningIsHeard
<1> QED BY <1>1, <1>2, <1>3 DEF IInv

(* The invariant says what the runs check. *)
LEMMA IInvSuffices ==
    IInv => TypeOK /\ RegisteredOnce /\ PresetIsRegistered /\ ActivationNotForgotten
<1> SUFFICES ASSUME IInv
             PROVE  TypeOK /\ RegisteredOnce /\ PresetIsRegistered /\ ActivationNotForgotten
    OBVIOUS
<1>1. TypeOK
    BY DEF IInv, RegistryInv, RegistryTyped, ObjectsTyped, TypeOK
<1>2. RegisteredOnce
    BY DEF IInv, RegistryInv, NoDuplicates, MayBeTwice, RegisteredAsLongAs, RegisteredOnce
<1>3. PresetIsRegistered
    BY DEF IInv, ObjectsTyped, AlivePresetIsRegistered, PresetIsRegistered
<1> QED BY <1>1, <1>2, <1>3 DEF IInv
-----------------------------------------------------------------------------
(* The calls: made in setup code or by the handlers that run. *)

LEMMA PeriodIsNumber ==
    ASSUME ObjectsTyped, NEW s \in TimeSignal
    PROVE  m_period[s] \in Nat
<1>1. m_period[s] \in Period \cup {0}
    BY DEF ObjectsTyped
<1>2. Period \cup {0} \subseteq Nat
    BY PeriodAssumption
<1> QED BY <1>1, <1>2

(* An activation that is still unheard after a call was so before. *)
LEMMA HeardStays ==
    ASSUME ActivationNotForgotten, RunningIsHeard, UNCHANGED <<running, allowed>>,
           unheard' \subseteq unheard \cap alive',
           \A l \in unheard' : m_activated'[l] = m_activated[l]
    PROVE  ActivationNotForgotten' /\ RunningIsHeard'
BY DEF ActivationNotForgotten, RunningIsHeard, Without

(* What a new period does to the list. *)
LEMMA SetsPeriodInv ==
    ASSUME IInv, NEW s \in TimeSignal, NEW p \in Period \cup {0}, Calling, SetsPeriod(s, p),
           UNCHANGED <<phase, allowed>>
    PROVE  /\ RegistryInv'
           /\ \A x : x # s => (Registered(x)' <=> Registered(x))
           /\ p = 0 /\ Without({"rebuild"}) => ~Registered(s)'
           /\ p # 0 /\ m_period[s] = 0 => Registered(s)'
           /\ p # 0 /\ m_period[s] # 0 => (Registered(s)' <=> Registered(s))
           /\ m_period' = [m_period EXCEPT ![s] = p]
           /\ due' = [due EXCEPT ![s] = p]
           /\ m_period'[s] = p /\ \A x \in TimeSignal : x # s => m_period'[x] = m_period[x]
           /\ m_period' \in [TimeSignal -> Period \cup {0}] /\ due' \in [TimeSignal -> Nat]
<1> DEFINE ListIsRight ==
              /\ RegistryInv'
              /\ \A x : x # s => (Registered(x)' <=> Registered(x))
              /\ p = 0 /\ Without({"rebuild"}) => ~Registered(s)'
              /\ p # 0 /\ m_period[s] = 0 => Registered(s)'
              /\ p # 0 /\ m_period[s] # 0 => (Registered(s)' <=> Registered(s))
<1>0. RegistryInv /\ ObjectsTyped /\ RegisteredAsLongAs /\ s \in Signal
    BY DEF IInv, Signal
<1>1. m_period[s] = 0 /\ Registered(s) => MayBeTwice(s)
    BY <1>0 DEF RegisteredAsLongAs, MayBeTwice
<1>2. ASSUME p # 0 /\ m_period[s] = 0 PROVE ListIsRight
    <2>1. Register(s)
        BY <1>2 DEF SetsPeriod
    <2> QED BY <1>0, <1>1, <1>2, <2>1, RegisterInv
<1>3. ASSUME p = 0 /\ m_period[s] # 0 PROVE ListIsRight
    <2>1. Deregister(s)
        BY <1>3 DEF SetsPeriod
    <2> QED BY <1>0, <1>3, <2>1, DeregisterInv
<1>4. ASSUME ~(p # 0 /\ m_period[s] = 0) /\ ~(p = 0 /\ m_period[s] # 0)
      PROVE  ListIsRight
    <2>1. UNCHANGED registry
        BY <1>4 DEF SetsPeriod
    <2> QED BY <1>0, <1>1, <1>4, <2>1, RegistryStays DEF MayBeTwice
<1>5. m_period' = [m_period EXCEPT ![s] = p] /\ due' = [due EXCEPT ![s] = p]
    BY DEF SetsPeriod
<1>6. p \in Nat
    BY PeriodAssumption
<1>7. /\ m_period'[s] = p /\ \A x \in TimeSignal : x # s => m_period'[x] = m_period[x]
      /\ m_period' \in [TimeSignal -> Period \cup {0}] /\ due' \in [TimeSignal -> Nat]
    BY <1>0, <1>5, <1>6 DEF ObjectsTyped
<1> QED BY <1>2, <1>3, <1>4, <1>5, <1>7

LEMMA SetPeriodIInv ==
    ASSUME IInv, NEW s \in TimeSignal, NEW p \in Period \cup {0}, SetPeriod(s, p), UNCHANGED allowed
    PROVE  IInv'
<1>0. /\ Calling /\ s \in alive \ SoftTimer /\ SetsPeriod(s, p)
      /\ UNCHANGED <<alive, isConnected, m_mode, m_activated, phase, running, unheard, armed, allowed>>
    BY DEF SetPeriod, objects, loopVars, history
<1>1. /\ RegistryInv'
      /\ \A x : x # s => (Registered(x)' <=> Registered(x))
      /\ p = 0 /\ Without({"rebuild"}) => ~Registered(s)'
      /\ p # 0 /\ m_period[s] = 0 => Registered(s)'
      /\ p # 0 /\ m_period[s] # 0 => (Registered(s)' <=> Registered(s))
      /\ m_period'[s] = p /\ \A x \in TimeSignal : x # s => m_period'[x] = m_period[x]
      /\ m_period' \in [TimeSignal -> Period \cup {0}] /\ due' \in [TimeSignal -> Nat]
    BY <1>0, SetsPeriodInv
<1>2. ObjectsTyped'
    BY <1>0, <1>1 DEF IInv, ObjectsTyped
<1>3. RegisteredAsLongAs'
    BY <1>0, <1>1, SignalAssumption DEF IInv, RegisteredAsLongAs, Without
<1>4. AlivePresetIsRegistered'
    BY <1>0, <1>1 DEF IInv, AlivePresetIsRegistered, Without
<1>5. RegisteredIsArmed'
    BY <1>0, <1>1, SignalAssumption DEF IInv, RegisteredIsArmed, Without
<1>6. ActivationNotForgotten' /\ RunningIsHeard'
    <2>1. unheard' \subseteq unheard \cap alive'
        BY <1>0 DEF IInv, RunningIsHeard
    <2> QED BY <1>0, <1>1, <2>1, HeardStays DEF IInv
<1> QED BY <1>1, <1>2, <1>3, <1>4, <1>5, <1>6 DEF IInv

LEMMA StartIInv ==
    ASSUME IInv, NEW t \in SoftTimer, NEW p \in Period \cup {0}, NEW mode \in Mode,
           Start(t, p, mode), UNCHANGED allowed
    PROVE  IInv'
<1>0. /\ Calling /\ t \in alive /\ SetsPeriod(t, p) /\ (mode = "once" => "selfStop" \in allowed)
      /\ m_mode' = [m_mode EXCEPT ![t] = mode]
      /\ armed' = IF p # 0 THEN armed \cup {t} ELSE armed \ {t}
      /\ UNCHANGED <<alive, isConnected, m_activated, phase, running, unheard, allowed>>
    BY DEF Start, objects, loopVars
<1>1. /\ t \in TimeSignal
      /\ RegistryInv'
      /\ \A x : x # t => (Registered(x)' <=> Registered(x))
      /\ p = 0 /\ Without({"rebuild"}) => ~Registered(t)'
      /\ p # 0 /\ m_period[t] = 0 => Registered(t)'
      /\ p # 0 /\ m_period[t] # 0 => (Registered(t)' <=> Registered(t))
      /\ m_period'[t] = p /\ \A x \in TimeSignal : x # t => m_period'[x] = m_period[x]
      /\ m_period' \in [TimeSignal -> Period \cup {0}] /\ due' \in [TimeSignal -> Nat]
    BY <1>0, SetsPeriodInv, SignalAssumption
<1>2. ObjectsTyped'
    BY <1>0, <1>1 DEF IInv, ObjectsTyped
<1>3. RegisteredAsLongAs'
    BY <1>0, <1>1, SignalAssumption DEF IInv, RegisteredAsLongAs, Without
<1>4. AlivePresetIsRegistered'
    BY <1>0, <1>1 DEF IInv, AlivePresetIsRegistered, Without
<1>5. RegisteredIsArmed'
    BY <1>0, <1>1, SignalAssumption DEF IInv, RegisteredIsArmed, ObjectsTyped, Without
<1>6. ActivationNotForgotten' /\ RunningIsHeard'
    <2>1. unheard' \subseteq unheard \cap alive'
        BY <1>0 DEF IInv, RunningIsHeard
    <2> QED BY <1>0, <1>1, <2>1, HeardStays DEF IInv
<1> QED BY <1>1, <1>2, <1>3, <1>4, <1>5, <1>6 DEF IInv

LEMMA StopIInv ==
    ASSUME IInv, NEW t \in SoftTimer, Stop(t), UNCHANGED allowed
    PROVE  IInv'
<1>0. /\ Calling /\ t \in alive /\ SetsPeriod(t, 0)
      /\ armed' = armed \ {t}
      /\ UNCHANGED <<alive, isConnected, m_mode, m_activated, phase, running, unheard, allowed>>
    BY DEF Stop, objects, loopVars
<1>1. /\ t \in TimeSignal
      /\ RegistryInv'
      /\ \A x : x # t => (Registered(x)' <=> Registered(x))
      /\ Without({"rebuild"}) => ~Registered(t)'
      /\ m_period'[t] = 0 /\ \A x \in TimeSignal : x # t => m_period'[x] = m_period[x]
      /\ m_period' \in [TimeSignal -> Period \cup {0}] /\ due' \in [TimeSignal -> Nat]
    BY <1>0, SetsPeriodInv, SignalAssumption
<1>2. ObjectsTyped'
    BY <1>0, <1>1 DEF IInv, ObjectsTyped
<1>3. RegisteredAsLongAs'
    BY <1>0, <1>1, SignalAssumption DEF IInv, RegisteredAsLongAs, Without
<1>4. AlivePresetIsRegistered'
    BY <1>0, <1>1 DEF IInv, AlivePresetIsRegistered, Without
<1>5. RegisteredIsArmed'
    BY <1>0, <1>1, SignalAssumption DEF IInv, RegisteredIsArmed, Without
<1>6. ActivationNotForgotten' /\ RunningIsHeard'
    <2>1. unheard' \subseteq unheard \cap alive'
        BY <1>0 DEF IInv, RunningIsHeard
    <2> QED BY <1>0, <1>1, <2>1, HeardStays DEF IInv
<1> QED BY <1>1, <1>2, <1>3, <1>4, <1>5, <1>6 DEF IInv

LEMMA ConstructTimeIInv ==
    ASSUME IInv, NEW s \in TimeSignal, NEW p \in Period \cup {0}, ConstructTime(s, p),
           UNCHANGED allowed
    PROVE  IInv'
<1>0. /\ Calling /\ s \notin alive /\ (s \in SoftTimer => p = 0)
      /\ Registered(s) => "rebuild" \in allowed
      /\ IF p # 0 THEN Register(s) ELSE UNCHANGED registry
      /\ alive' = alive \cup {s}
      /\ isConnected' = IF s \in SoftTimer THEN isConnected \cup {s} ELSE isConnected
      /\ m_period' = [m_period EXCEPT ![s] = p]
      /\ due' = [due EXCEPT ![s] = p]
      /\ m_mode' \in [SoftTimer -> Mode]
      /\ \A t \in SoftTimer : t # s => m_mode'[t] = m_mode[t]
      /\ UNCHANGED <<m_activated, phase, running, unheard, armed, allowed>>
    BY DEF ConstructTime, loopVars, history, IInv, ObjectsTyped
<1>1. RegistryInv /\ s \in Signal /\ p \in Nat /\ (Registered(s) => MayBeTwice(s))
    BY <1>0, PeriodAssumption DEF IInv, Signal, MayBeTwice, Without
<1>2. /\ RegistryInv'
      /\ \A x : Registered(x)' <=> Registered(x) \/ (p # 0 /\ x = s)
    <2>1. CASE p # 0
        BY <1>0, <1>1, <2>1, RegisterInv
    <2>2. CASE p = 0
        BY <1>0, <1>1, <2>2, RegistryStays
    <2> QED BY <2>1, <2>2
<1>3. /\ m_period'[s] = p /\ \A x \in TimeSignal : x # s => m_period'[x] = m_period[x]
      /\ m_period' \in [TimeSignal -> Period \cup {0}] /\ due' \in [TimeSignal -> Nat]
    BY <1>0, <1>1 DEF IInv, ObjectsTyped
<1>4. ObjectsTyped'
    BY <1>0, <1>1, <1>3 DEF IInv, ObjectsTyped
<1>5. RegisteredAsLongAs'
    BY <1>0, <1>2, <1>3, SignalAssumption DEF IInv, RegisteredAsLongAs, Without
<1>6. AlivePresetIsRegistered'
    BY <1>0, <1>2, <1>3 DEF IInv, AlivePresetIsRegistered, Without
<1>7. RegisteredIsArmed'
    BY <1>0, <1>2, <1>3, SignalAssumption DEF IInv, RegisteredIsArmed, Without
<1>8. ActivationNotForgotten' /\ RunningIsHeard'
    <2>1. unheard' \subseteq unheard \cap alive'
        BY <1>0 DEF IInv, RunningIsHeard
    <2> QED BY <1>0, <1>2, <2>1, HeardStays DEF IInv
<1> QED BY <1>2, <1>4, <1>5, <1>6, <1>7, <1>8 DEF IInv

LEMMA ConstructLoopIInv ==
    ASSUME IInv, NEW l \in LoopSignal, ConstructLoop(l), UNCHANGED allowed
    PROVE  IInv'
<1>0. /\ Calling /\ l \notin alive /\ Register(l)
      /\ alive' = alive \cup {l}
      /\ m_activated' = [m_activated EXCEPT ![l] = FALSE]
      /\ UNCHANGED <<isConnected, m_period, due, m_mode, phase, running, unheard, armed, allowed>>
    BY DEF ConstructLoop, timing, loopVars, history
<1>1. RegistryInv /\ l \in Signal /\ ~Registered(l)
    BY <1>0 DEF IInv, Signal, RegisteredAsLongAs
<1>2. /\ RegistryInv'
      /\ \A x : Registered(x)' <=> Registered(x) \/ x = l
    BY <1>0, <1>1, RegisterInv
<1>3. ObjectsTyped'
    BY <1>0, <1>1 DEF IInv, ObjectsTyped
<1>4. RegisteredAsLongAs'
    BY <1>0, <1>2, SignalAssumption DEF IInv, RegisteredAsLongAs, Without
<1>5. AlivePresetIsRegistered'
    BY <1>0, <1>2, SignalAssumption DEF IInv, AlivePresetIsRegistered, Without
<1>6. RegisteredIsArmed'
    BY <1>0, <1>2, SignalAssumption DEF IInv, RegisteredIsArmed, Without
<1>7. ActivationNotForgotten' /\ RunningIsHeard'
    <2>1. unheard' \subseteq unheard \cap alive' /\ l \notin unheard'
        BY <1>0 DEF IInv, RunningIsHeard
    <2>2. \A x \in unheard' : m_activated'[x] = m_activated[x]
        BY <1>0, <2>1 DEF IInv, ObjectsTyped
    <2> QED BY <1>0, <1>2, <2>1, <2>2, HeardStays DEF IInv
<1> QED BY <1>2, <1>3, <1>4, <1>5, <1>6, <1>7 DEF IInv

(* The calls that leave the list alone. *)
LEMMA OtherCallsIInv ==
    ASSUME IInv, UNCHANGED <<registry, loopVars, alive, m_period, m_mode, m_activated, history,
                             allowed>>,
           isConnected' \subseteq alive, due' \in [TimeSignal -> Nat]
    PROVE  IInv'
<1>0. /\ UNCHANGED <<m_listSignal, alive, m_period, m_mode, m_activated, unheard, armed, allowed>>
      /\ UNCHANGED <<phase, running>> /\ UNCHANGED <<registry, phase, allowed>>
    BY DEF history, loopVars, registry
<1>1. /\ RegistryInv'
      /\ \A x : Registered(x)' <=> Registered(x)
    BY <1>0, RegistryStays DEF IInv
<1>2. ObjectsTyped' /\ RegisteredAsLongAs'
    BY <1>0, <1>1 DEF IInv, ObjectsTyped, RegisteredAsLongAs, Without
<1>3. AlivePresetIsRegistered' /\ RegisteredIsArmed'
    BY <1>0, <1>1 DEF IInv, AlivePresetIsRegistered, RegisteredIsArmed, Without
<1>4. ActivationNotForgotten' /\ RunningIsHeard'
    <2>1. unheard' \subseteq unheard \cap alive'
        BY <1>0 DEF IInv, RunningIsHeard
    <2> QED BY <1>0, <1>1, <2>1, HeardStays DEF IInv
<1> QED BY <1>1, <1>2, <1>3, <1>4 DEF IInv

LEMMA DisconnectLastIInv ==
    ASSUME IInv, NEW s \in Signal, DisconnectLast(s), UNCHANGED allowed
    PROVE  IInv'
<1>0. /\ Calling /\ "disconnectLast" \in allowed /\ s \in alive /\ s \in TimeSignal
      /\ isConnected' = isConnected \ {s}
      /\ Deregister(s)
      /\ UNCHANGED <<alive, m_period, due, m_mode, m_activated, phase, running, unheard, armed, allowed>>
    BY DEF DisconnectLast, timing, loopVars, history
<1>1. /\ RegistryInv'
      /\ \A x : Registered(x)' <=> Registered(x) /\ x # s
    BY <1>0, DeregisterInv DEF IInv
<1>2. ObjectsTyped'
    BY <1>0 DEF IInv, ObjectsTyped
<1>3. RegisteredAsLongAs'
    BY <1>0, <1>1, SignalAssumption DEF IInv, RegisteredAsLongAs, Without
<1>4. AlivePresetIsRegistered' /\ RegisteredIsArmed'
    BY <1>0, <1>1 DEF IInv, AlivePresetIsRegistered, RegisteredIsArmed, Without
<1>5. ActivationNotForgotten' /\ RunningIsHeard'
    <2>1. unheard' \subseteq unheard \cap alive'
        BY <1>0 DEF IInv, RunningIsHeard
    <2> QED BY <1>0, <1>1, <2>1, HeardStays DEF IInv
<1> QED BY <1>1, <1>2, <1>3, <1>4, <1>5 DEF IInv

LEMMA DieIInv ==
    ASSUME IInv, NEW s \in Signal, Die(s), UNCHANGED allowed
    PROVE  IInv'
<1>0. /\ Calling /\ s \in alive
      /\ alive' = alive \ {s} /\ isConnected' = isConnected \ {s}
      /\ IF s \in LoopSignal THEN Deregister(s) ELSE UNCHANGED registry
      /\ armed' = armed \ {s} /\ unheard' = unheard \ {s}
      /\ UNCHANGED <<m_period, due, m_mode, m_activated, phase, running, allowed>>
    BY DEF Die, timing, loopVars
<1>1. /\ RegistryInv'
      /\ \A x : Registered(x)' <=> Registered(x) /\ ~(s \in LoopSignal /\ x = s)
    <2>1. CASE s \in LoopSignal
        BY <1>0, <2>1, DeregisterInv DEF IInv
    <2>2. CASE s \notin LoopSignal
        BY <1>0, <2>2, RegistryStays DEF IInv
    <2> QED BY <2>1, <2>2
<1>2. ObjectsTyped'
    BY <1>0 DEF IInv, ObjectsTyped
<1>3. RegisteredAsLongAs'
    BY <1>0, <1>1, SignalAssumption DEF IInv, RegisteredAsLongAs, Signal, Without
<1>4. AlivePresetIsRegistered' /\ RegisteredIsArmed'
    BY <1>0, <1>1, SignalAssumption DEF IInv, AlivePresetIsRegistered, RegisteredIsArmed, Without
<1>5. ActivationNotForgotten' /\ RunningIsHeard'
    <2>1. unheard' \subseteq unheard \cap alive'
        BY <1>0 DEF IInv, RunningIsHeard
    <2> QED BY <1>0, <1>1, <2>1, HeardStays DEF IInv
<1> QED BY <1>1, <1>2, <1>3, <1>4, <1>5 DEF IInv

LEMMA CallsIInv ==
    ASSUME IInv, Calls, UNCHANGED allowed
    PROVE  IInv'
<1>1. ASSUME NEW s \in TimeSignal, NEW p \in Period \cup {0}, SetPeriod(s, p) \/ ConstructTime(s, p)
      PROVE  IInv'
    BY <1>1, SetPeriodIInv, ConstructTimeIInv
<1>2. ASSUME NEW t \in SoftTimer, NEW p \in Period \cup {0}, NEW mode \in Mode,
             Start(t, p, mode)
      PROVE  IInv'
    BY <1>2, StartIInv
<1>3. ASSUME NEW s \in TimeSignal, ActivTime(s) PROVE IInv'
    <2>1. /\ due' = [due EXCEPT ![s] = m_period[s]] /\ isConnected' = isConnected
          /\ UNCHANGED <<registry, loopVars, alive, m_period, m_mode, m_activated, history>>
        BY <1>3 DEF ActivTime, objects
    <2>0. ObjectsTyped /\ m_period[s] \in Nat
        BY PeriodIsNumber DEF IInv
    <2>2. due' \in [TimeSignal -> Nat] /\ isConnected' \subseteq alive
        BY <2>0, <2>1 DEF ObjectsTyped
    <2> QED BY <2>1, <2>2, OtherCallsIInv
<1>4. ASSUME NEW t \in SoftTimer, Stop(t) PROVE IInv'
    BY <1>4, StopIInv
<1>5. ASSUME NEW l \in LoopSignal, ConstructLoop(l) PROVE IInv'
    BY <1>5, ConstructLoopIInv
<1>6. ASSUME NEW s \in Signal, Connect(s) \/ DisconnectAll(s) PROVE IInv'
    <2>1. UNCHANGED <<registry, loopVars, alive, m_period, m_mode, m_activated, history, due>>
        BY <1>6 DEF Connect, DisconnectAll, timing
    <2>2. isConnected' \subseteq alive /\ due' \in [TimeSignal -> Nat]
        BY <1>6, <2>1 DEF Connect, DisconnectAll, IInv, ObjectsTyped
    <2> QED BY <2>1, <2>2, OtherCallsIInv
<1>7. ASSUME NEW s \in Signal, DisconnectLast(s) \/ Die(s) PROVE IInv'
    BY <1>7, DisconnectLastIInv, DieIInv
<1> QED BY <1>1, <1>2, <1>3, <1>4, <1>5, <1>6, <1>7 DEF Calls
-----------------------------------------------------------------------------
(* Interrupts, the clock and the loop. *)

LEMMA ActivIInv ==
    ASSUME IInv, NEW l \in LoopSignal, Activ(l), UNCHANGED allowed
    PROVE  IInv'
<1>0. /\ l \in alive
      /\ (l \in running => "activDuringRun" \in allowed)
      /\ m_activated' = [m_activated EXCEPT ![l] = TRUE] /\ unheard' = unheard \cup {l}
      /\ UNCHANGED <<m_listSignal, alive, isConnected, m_period, due, m_mode, armed, allowed>>
      /\ UNCHANGED <<phase, running>> /\ UNCHANGED <<registry, phase, allowed>>
    BY DEF Activ, objects, timing, loopVars, registry
<1>1. /\ RegistryInv'
      /\ \A x : Registered(x)' <=> Registered(x)
    BY <1>0, RegistryStays DEF IInv
<1>2. ObjectsTyped' /\ RegisteredAsLongAs'
    BY <1>0, <1>1 DEF IInv, ObjectsTyped, RegisteredAsLongAs, Without
<1>3. AlivePresetIsRegistered' /\ RegisteredIsArmed'
    BY <1>0, <1>1 DEF IInv, AlivePresetIsRegistered, RegisteredIsArmed, Without
<1>4. ActivationNotForgotten' /\ RunningIsHeard'
    BY <1>0, <1>1 DEF IInv, ActivationNotForgotten, RunningIsHeard, Without, ObjectsTyped
<1> QED BY <1>1, <1>2, <1>3, <1>4 DEF IInv

LEMMA TickIInv ==
    ASSUME IInv, Tick, UNCHANGED allowed
    PROVE  IInv'
<1>1. /\ due' = [s \in TimeSignal |-> IF due[s] > 0 THEN due[s] - 1 ELSE 0]
      /\ UNCHANGED <<registry, loopVars, alive, isConnected, m_period, m_mode, m_activated,
                     history>>
    BY DEF Tick, objects
<1>2. due' \in [TimeSignal -> Nat] /\ isConnected' \subseteq alive
    BY <1>1 DEF IInv, ObjectsTyped
<1> QED BY <1>1, <1>2, OtherCallsIInv

(* What only depends on which signals are registered and which live. *)
LEMMA SameSignals ==
    ASSUME IInv, UNCHANGED <<m_listSignal, alive, m_period, m_mode, armed, allowed>>
    PROVE  /\ NoDuplicates' /\ RegisteredAsLongAs'
           /\ AlivePresetIsRegistered' /\ RegisteredIsArmed'
<1>1. \A x : Registered(x)' <=> Registered(x)
    BY DEF Registered
<1> QED BY <1>1 DEF IInv, RegistryInv, NoDuplicates, MayBeTwice, RegisteredAsLongAs,
           AlivePresetIsRegistered, RegisteredIsArmed, Without

LEMMA StartPassIInv ==
    ASSUME IInv, StartPass, UNCHANGED allowed
    PROVE  IInv'
<1>0. /\ phase \in {"setup", "top"} /\ phase' = "visit" /\ iter' = 1
      /\ owed' = ToSet(m_listSignal)
      /\ UNCHANGED <<m_listSignal, alive, isConnected, m_period, due, m_mode, m_activated>>
      /\ UNCHANGED <<stale, running, unheard, armed, allowed>>
    BY DEF StartPass, objects, timing, history
<1>1. /\ m_listSignal \in Seq(Signal) /\ Len(m_listSignal) \in Nat /\ stale = << >>
      /\ stale \in Seq(Signal)
    BY <1>0 DEF IInv, RegistryInv, RegistryTyped, IteratorIsKnown
<1>2. owed' \subseteq Signal /\ owed' = From(iter)'
    BY <1>0, <1>1 DEF ToSet, From
<1>3. RegistryInv'
    <2>1. RegistryTyped'
        BY <1>0, <1>1, <1>2 DEF RegistryTyped
    <2>2. IteratorIsKnown' /\ OwedIsAhead'
        BY <1>0, <1>1, <1>2 DEF IteratorIsKnown, OwedIsAhead
    <2> QED BY <1>0, <2>1, <2>2, SameSignals DEF RegistryInv
<1>4. ObjectsTyped'
    BY <1>0 DEF IInv, ObjectsTyped
<1>5. ActivationNotForgotten' /\ RunningIsHeard'
    BY <1>0 DEF IInv, ActivationNotForgotten, RunningIsHeard, Without
<1> QED BY <1>0, <1>3, <1>4, <1>5, SameSignals DEF IInv

LEMMA EndPassIInv ==
    ASSUME IInv, EndPass, UNCHANGED allowed
    PROVE  IInv'
<1>0. /\ phase = "visit" /\ phase' = "top" /\ stale = << >>
      /\ UNCHANGED <<m_listSignal, alive, isConnected, m_period, due, m_mode, m_activated>>
      /\ UNCHANGED <<stale, iter, owed, running, unheard, armed, allowed>>
    BY DEF EndPass, AtEnd, objects, timing, history, registry
<1>1. RegistryInv'
    <2>1. RegistryTyped' /\ IteratorIsKnown' /\ OwedIsAhead'
        BY <1>0 DEF IInv, RegistryInv, RegistryTyped, IteratorIsKnown, OwedIsAhead
    <2> QED BY <1>0, <2>1, SameSignals DEF RegistryInv
<1>2. ObjectsTyped'
    BY <1>0 DEF IInv, ObjectsTyped
<1>3. ActivationNotForgotten' /\ RunningIsHeard'
    BY <1>0 DEF IInv, ActivationNotForgotten, RunningIsHeard, Without
<1> QED BY <1>0, <1>1, <1>2, <1>3, SameSignals DEF IInv

(* The node under the iterator, and those behind it. *)
LEMMA BehindHere ==
    ASSUME RegistryTyped, stale = << >>, iter <= Len(m_listSignal)
    PROVE  /\ Here = m_listSignal[iter] /\ Here \in Signal /\ Registered(Here)
           /\ iter + 1 \in 1 .. Len(m_listSignal) + 1
           /\ From(iter) \ {Here} \subseteq From(iter + 1)
<1>1. /\ m_listSignal \in Seq(Signal) /\ iter \in 1 .. Len(m_listSignal)
      /\ Len(m_listSignal) \in Nat
    BY DEF RegistryTyped
<1>2. Here = m_listSignal[iter]
    BY DEF Here
<1>3. Here \in Signal /\ Registered(Here)
    BY <1>1, <1>2 DEF Registered, Contains
<1>4. From(iter) \ {Here} \subseteq From(iter + 1)
    <2> SUFFICES ASSUME NEW i \in iter .. Len(m_listSignal), m_listSignal[i] # Here
                 PROVE  i \in iter + 1 .. Len(m_listSignal)
        BY DEF From
    <2> QED BY <1>1, <1>2
<1> QED BY <1>1, <1>2, <1>3, <1>4

(* The signals from where the iterator goes when it leaves its node. *)
LeftBehind == IF stale = << >> THEN From(iter + 1) ELSE From(iter)

LEMMA OwedBehindHere ==
    ASSUME RegistryTyped, OwedIsAhead, phase = "visit", ~AtEnd, owed' = owed \ {Here},
           ~({"selfStop", "rearm"} \subseteq allowed)
    PROVE  owed' \subseteq LeftBehind
<1>1. owed \subseteq From(iter)
    BY DEF OwedIsAhead
<1>2. CASE stale = << >>
    <2>1. iter <= Len(m_listSignal)
        BY <1>2 DEF AtEnd, RegistryTyped
    <2> QED BY <1>1, <1>2, <2>1, BehindHere DEF LeftBehind
<1>3. CASE stale # << >>
    BY <1>1, <1>3 DEF LeftBehind
<1> QED BY <1>2, <1>3

LEMMA GoesOn ==
    ASSUME RegistryTyped, IteratorIsKnown, GoOn, UNCHANGED <<m_listSignal, allowed>>,
           owed' \subseteq owed, phase \in {"visit", "handling"},
           stale = << >> => iter <= Len(m_listSignal),
           ~({"selfStop", "rearm"} \subseteq allowed) => owed' \subseteq LeftBehind
    PROVE  RegistryTyped' /\ IteratorIsKnown' /\ OwedIsAhead'
<1>0. /\ m_listSignal \in Seq(Signal) /\ stale \in Seq(Signal) /\ owed \subseteq Signal
      /\ iter \in 1 .. Len(m_listSignal) + 1 /\ Len(m_listSignal) \in Nat
    BY DEF RegistryTyped
<1>1. stale = << >> => stale' = << >> /\ iter' = iter + 1 /\ LeftBehind = From(iter)'
    BY DEF GoOn, LeftBehind, From
<1>2. stale # << >> => stale' = Tail(stale) /\ iter' = iter /\ LeftBehind = From(iter)'
    BY DEF GoOn, LeftBehind, From
<1>3. stale' \in Seq(Signal) /\ iter' \in 1 .. Len(m_listSignal) + 1
    <2>1. CASE stale = << >>
        BY <1>0, <1>1, <2>1
    <2>2. CASE stale # << >>
        BY <1>0, <1>2, <2>2
    <2> QED BY <2>1, <2>2
<1>4. RegistryTyped'
    BY <1>0, <1>3 DEF RegistryTyped
<1>5. phase' = "visit" /\ LeftBehind = From(iter)'
    BY <1>1, <1>2 DEF GoOn
<1>6. IteratorIsKnown'
    BY <1>1, <1>5 DEF IteratorIsKnown
<1>7. OwedIsAhead'
    BY <1>5 DEF OwedIsAhead
<1> QED BY <1>4, <1>6, <1>7

LEMMA VisitIdleIInv ==
    ASSUME IInv, NEW s \in Signal, VisitIdle(s), UNCHANGED allowed
    PROVE  IInv'
<1>0. /\ phase = "visit" /\ ~AtEnd /\ s = Here /\ s \in alive
      /\ owed' = owed \ {s} /\ GoOn
      /\ due' = IF Triggered(s) /\ s \in TimeSignal THEN [due EXCEPT ![s] = m_period[s]] ELSE due
      /\ m_activated' = IF s \in LoopSignal THEN [m_activated EXCEPT ![s] = FALSE] ELSE m_activated
      /\ unheard' = IF Triggered(s) THEN unheard \ {s} ELSE unheard
      /\ UNCHANGED <<m_listSignal, alive, isConnected, m_period, m_mode, armed, allowed>>
    BY DEF VisitIdle, Visiting, objects
<1>1. RegistryTyped /\ OwedIsAhead /\ ObjectsTyped /\ ActivationNotForgotten /\ RunningIsHeard
    BY DEF IInv, RegistryInv
<1>2. ~({"selfStop", "rearm"} \subseteq allowed) => owed' \subseteq LeftBehind
    BY <1>0, <1>1, OwedBehindHere
<1>3. RegistryInv'
    <2>1. stale = << >> => iter <= Len(m_listSignal)
        BY <1>0, <1>1 DEF AtEnd, RegistryTyped
    <2>2. RegistryTyped' /\ IteratorIsKnown' /\ OwedIsAhead'
        BY <1>0, <1>1, <1>2, <2>1, GoesOn DEF IInv, RegistryInv
    <2> QED BY <1>0, <2>2, SameSignals DEF RegistryInv
<1>4. ObjectsTyped'
    <2>1. s \in TimeSignal => m_period[s] \in Nat
        BY <1>1, PeriodIsNumber
    <2>2. due' \in [TimeSignal -> Nat]
        BY <1>0, <1>1, <2>1 DEF ObjectsTyped
    <2>3. m_activated' \in [LoopSignal -> BOOLEAN]
        BY <1>0, <1>1 DEF ObjectsTyped
    <2> QED BY <1>0, <1>1, <2>2, <2>3 DEF ObjectsTyped, GoOn
<1>5. ActivationNotForgotten' /\ RunningIsHeard'
    <2>1. unheard' \subseteq unheard
        BY <1>0
    <2>2. RunningIsHeard'
        BY <1>0, <1>1, <2>1 DEF RunningIsHeard, GoOn
    <2>3. ASSUME Without({"activDuringRun"}), NEW l \in unheard' PROVE m_activated'[l]
        <3>1. m_activated[l] /\ l \in LoopSignal
            BY <1>1, <2>1, <2>3 DEF ActivationNotForgotten, ObjectsTyped
        <3>2. l # s
            BY <1>0, <1>1, <3>1, SignalAssumption DEF Triggered, ObjectsTyped
        <3> QED BY <1>0, <1>1, <3>1, <3>2 DEF ObjectsTyped
    <2> QED BY <1>0, <2>2, <2>3 DEF ActivationNotForgotten, Without
<1> QED BY <1>0, <1>3, <1>4, <1>5, SameSignals DEF IInv

LEMMA VisitTriggeredIInv ==
    ASSUME IInv, NEW s \in Signal, VisitTriggered(s), UNCHANGED allowed
    PROVE  IInv'
<1>0. /\ phase = "visit" /\ ~AtEnd /\ s = Here /\ s \in alive
      /\ owed' = owed \ {s} /\ phase' = "handling" /\ running' = {s}
      /\ due' = IF s \in TimeSignal THEN [due EXCEPT ![s] = m_period[s]] ELSE due
      /\ unheard' = unheard \ {s}
      /\ UNCHANGED <<m_listSignal, alive, isConnected, m_period, m_mode, m_activated>>
      /\ UNCHANGED <<stale, iter, armed, allowed>>
    BY DEF VisitTriggered, Visiting, objects
<1>1. /\ RegistryTyped /\ IteratorIsKnown /\ OwedIsAhead /\ ObjectsTyped
      /\ ActivationNotForgotten /\ RunningIsHeard
    BY DEF IInv, RegistryInv
<1>2. ~({"selfStop", "rearm"} \subseteq allowed) => owed' \subseteq LeftBehind
    BY <1>0, <1>1, OwedBehindHere
<1>3. RegistryInv'
    <2>1. RegistryTyped'
        BY <1>0, <1>1 DEF RegistryTyped
    <2>2. IteratorIsKnown'
        BY <1>0, <1>1 DEF IteratorIsKnown, AtEnd, RegistryTyped
    <2>3. OwedIsAhead'
        BY <1>0, <1>2 DEF OwedIsAhead, LeftBehind, From
    <2> QED BY <1>0, <2>1, <2>2, <2>3, SameSignals DEF RegistryInv
<1>4. ObjectsTyped'
    <2>1. s \in TimeSignal => m_period[s] \in Nat
        BY <1>1, PeriodIsNumber
    <2>2. due' \in [TimeSignal -> Nat]
        BY <1>0, <1>1, <2>1 DEF ObjectsTyped
    <2> QED BY <1>0, <1>1, <2>2 DEF ObjectsTyped
<1>5. ActivationNotForgotten' /\ RunningIsHeard'
    BY <1>0, <1>1 DEF ActivationNotForgotten, RunningIsHeard, Without
<1> QED BY <1>0, <1>3, <1>4, <1>5, SameSignals DEF IInv

LEMMA VisitOnceIInv ==
    ASSUME IInv, NEW t \in SoftTimer, VisitOnce(t), UNCHANGED allowed
    PROVE  IInv'
<1>0. /\ phase = "visit" /\ ~AtEnd /\ t = Here /\ t \in alive
      /\ m_mode[t] = "once"
      /\ IF m_period[t] # 0 THEN Removes(t)
         ELSE owed' = owed \ {t} /\ UNCHANGED <<m_listSignal, stale, iter>>
      /\ phase' = "handling" /\ running' = {t}
      /\ m_period' = [m_period EXCEPT ![t] = 0] /\ due' = [due EXCEPT ![t] = 0]
      /\ armed' = armed \ {t}
      /\ UNCHANGED <<alive, isConnected, m_mode, m_activated, unheard, allowed>>
    BY DEF VisitOnce, objects
<1>1. /\ RegistryInv /\ RegistryTyped /\ NoDuplicates /\ IteratorIsKnown /\ OwedIsAhead
      /\ ObjectsTyped /\ RegisteredAsLongAs
      /\ t \in Signal /\ t \in TimeSignal /\ t \notin LoopSignal
    BY SignalAssumption DEF IInv, RegistryInv, Signal
<1>2. RegistryInv' /\ \A x : Registered(x)' <=> Registered(x) /\ (m_period[t] # 0 => x # t)
    <2>1. CASE m_period[t] # 0
        <3>0. Removes(t) /\ "selfStop" \in allowed
            BY <1>0, <2>1 DEF IInv, RegisteredIsArmed
        <3>1. /\ m_listSignal' \in Seq(Signal) /\ iter' \in 1 .. Len(m_listSignal') + 1
              /\ NoDuplicates'
              /\ \A x : Registered(x)' <=> Registered(x) /\ x # t
              /\ From(iter) \ {t} \subseteq From(iter)'
            BY <1>0, <1>1, <3>0, RemovesTheSignal
        <3>2. /\ stale' \in Seq(Signal) /\ (stale # << >> => stale' # << >>)
              /\ phase # "setup" /\ iter <= Len(m_listSignal) /\ m_listSignal[iter] = t => stale' # << >>
            BY <1>1, <3>0, ChainGrows
        <3>3. stale' # << >>
            BY <1>0, <1>1, <3>2 DEF AtEnd, Here, RegistryTyped
        <3>4. owed' = owed \ {t}
            BY <3>0 DEF Removes
        <3>5. RegistryTyped'
            BY <1>1, <3>1, <3>2, <3>4 DEF RegistryTyped
        <3>6. IteratorIsKnown'
            BY <1>0, <3>0, <3>3 DEF IteratorIsKnown
        <3>7. OwedIsAhead'
            BY <1>0, <1>1, <3>1, <3>3, <3>4 DEF OwedIsAhead
        <3> QED BY <2>1, <3>1, <3>5, <3>6, <3>7 DEF RegistryInv
    <2>2. CASE m_period[t] = 0
        <3>0. owed' = owed \ {t} /\ UNCHANGED <<m_listSignal, stale, iter>>
            BY <1>0, <2>2
        <3>1. ~({"selfStop", "rearm"} \subseteq allowed) => owed' \subseteq LeftBehind
            BY <1>0, <1>1, <3>0, OwedBehindHere
        <3>2. RegistryTyped' /\ NoDuplicates'
            BY <1>0, <1>1, <3>0 DEF RegistryTyped, NoDuplicates, MayBeTwice, Without
        <3>3. IteratorIsKnown'
            BY <1>0, <1>1, <3>0 DEF IteratorIsKnown, AtEnd, RegistryTyped
        <3>4. OwedIsAhead'
            BY <1>0, <3>0, <3>1 DEF OwedIsAhead, LeftBehind, From
        <3>5. \A x : Registered(x)' <=> Registered(x)
            BY <3>0 DEF Registered
        <3> QED BY <2>2, <3>2, <3>3, <3>4, <3>5 DEF RegistryInv
    <2> QED BY <2>1, <2>2
<1>3. /\ m_period'[t] = 0 /\ \A x \in TimeSignal : x # t => m_period'[x] = m_period[x]
      /\ m_period' \in [TimeSignal -> Period \cup {0}] /\ due' \in [TimeSignal -> Nat]
    BY <1>0, <1>1 DEF ObjectsTyped
<1>4. ObjectsTyped'
    BY <1>0, <1>1, <1>3 DEF ObjectsTyped
<1>5. RegisteredAsLongAs'
    BY <1>0, <1>1, <1>2, <1>3 DEF RegisteredAsLongAs, Without
<1>6. AlivePresetIsRegistered'
    BY <1>0, <1>2, <1>3 DEF IInv, AlivePresetIsRegistered, Without
<1>7. RegisteredIsArmed'
    <2>1. Without({"rebuild"}) => ~Registered(t)'
        BY <1>1, <1>2 DEF RegisteredAsLongAs
    <2>2. ASSUME NEW u \in SoftTimer, m_mode'[u] = "once", m_period'[u] # 0
          PROVE  m_mode[u] = "once" /\ m_period[u] # 0
        BY <1>0, <1>3, <2>2, SignalAssumption
    <2> QED BY <1>0, <1>2, <2>1, <2>2 DEF IInv, RegisteredIsArmed, Without
<1>8. ActivationNotForgotten' /\ RunningIsHeard'
    BY <1>0, <1>1 DEF IInv, ActivationNotForgotten, RunningIsHeard, Without, ObjectsTyped
<1> QED BY <1>2, <1>4, <1>5, <1>6, <1>7, <1>8 DEF IInv

LEMMA HandlersReturnIInv ==
    ASSUME IInv, HandlersReturn, UNCHANGED allowed
    PROVE  IInv'
<1>0. /\ phase = "handling" /\ GoOn
      /\ m_activated' = [l \in LoopSignal |-> m_activated[l] /\ l \notin running]
      /\ UNCHANGED <<m_listSignal, alive, isConnected, m_period, due, m_mode, owed>>
      /\ UNCHANGED <<unheard, armed, allowed>>
    BY DEF HandlersReturn, objects, timing, history
<1>1. RegistryInv /\ OwedIsAhead /\ ObjectsTyped /\ ActivationNotForgotten /\ RunningIsHeard
    BY DEF IInv, RegistryInv
<1>2. ~({"selfStop", "rearm"} \subseteq allowed) => owed' \subseteq LeftBehind
    BY <1>0, <1>1 DEF OwedIsAhead, LeftBehind
<1>3. stale = << >> => iter <= Len(m_listSignal)
    BY <1>0, <1>1 DEF RegistryInv, IteratorIsKnown
<1>4. RegistryInv'
    <2>1. RegistryTyped' /\ IteratorIsKnown' /\ OwedIsAhead'
        BY <1>0, <1>1, <1>2, <1>3, GoesOn DEF RegistryInv
    <2> QED BY <1>0, <2>1, SameSignals DEF RegistryInv
<1>5. ObjectsTyped'
    BY <1>0, <1>1 DEF ObjectsTyped, GoOn
<1>6. ActivationNotForgotten' /\ RunningIsHeard'
    BY <1>0, <1>1 DEF ActivationNotForgotten, RunningIsHeard, Without, ObjectsTyped, GoOn
<1> QED BY <1>0, <1>4, <1>5, <1>6, SameSignals DEF IInv

LEMMA FaultIInv ==
    ASSUME IInv, Fault, UNCHANGED allowed
    PROVE  IInv'
<1>0. /\ phase' = "faulted" /\ running' = {} /\ phase \in {"visit", "handling"}
      /\ UNCHANGED <<m_listSignal, alive, isConnected, m_period, due, m_mode, m_activated>>
      /\ UNCHANGED <<stale, iter, owed, unheard, armed, allowed>>
    BY DEF Fault, UsesDead, objects, timing, history, registry
<1>1. RegistryInv'
    <2>1. RegistryTyped' /\ IteratorIsKnown' /\ OwedIsAhead'
        BY <1>0 DEF IInv, RegistryInv, RegistryTyped, IteratorIsKnown, OwedIsAhead
    <2> QED BY <1>0, <2>1, SameSignals DEF RegistryInv
<1>2. ObjectsTyped'
    BY <1>0 DEF IInv, ObjectsTyped
<1>3. ActivationNotForgotten' /\ RunningIsHeard'
    BY <1>0 DEF IInv, ActivationNotForgotten, RunningIsHeard, Without
<1> QED BY <1>0, <1>1, <1>2, <1>3, SameSignals DEF IInv

LEMMA NextIInv ==
    ASSUME IInv, [Next]_vars
    PROVE  IInv'
<1>1. ASSUME Next PROVE IInv'
    <2>0. UNCHANGED allowed
        BY <1>1 DEF Next
    <2>1. CASE Calls
        BY <2>0, <2>1, CallsIInv
    <2>2. CASE Tick
        BY <2>0, <2>2, TickIInv
    <2>3. ASSUME NEW l \in LoopSignal, Activ(l) PROVE IInv'
        BY <2>0, <2>3, ActivIInv
    <2>4. CASE Loop
        <3>1. CASE StartPass
            BY <2>0, <3>1, StartPassIInv
        <3>2. CASE EndPass
            BY <2>0, <3>2, EndPassIInv
        <3>3. ASSUME NEW s \in Signal, Visit(s) PROVE IInv'
            BY <2>0, <3>3, VisitIdleIInv, VisitTriggeredIInv DEF Visit
        <3>4. ASSUME NEW t \in SoftTimer, VisitOnce(t) PROVE IInv'
            BY <2>0, <3>4, VisitOnceIInv
        <3>5. CASE HandlersReturn
            BY <2>0, <3>5, HandlersReturnIInv
        <3>6. CASE Fault
            BY <2>0, <3>6, FaultIInv
        <3> QED BY <2>4, <3>1, <3>2, <3>3, <3>4, <3>5, <3>6 DEF Loop
    <2> QED BY <1>1, <2>1, <2>2, <2>3, <2>4 DEF Next
<1>2. ASSUME UNCHANGED vars PROVE IInv'
    <2>1. /\ UNCHANGED <<registry, loopVars, alive, m_period, m_mode, m_activated, history,
                         allowed>>
          /\ isConnected' = isConnected /\ due' = due
        BY <1>2 DEF vars, program, objects, timing
    <2>2. isConnected' \subseteq alive /\ due' \in [TimeSignal -> Nat]
        BY <2>1 DEF IInv, ObjectsTyped
    <2> QED BY <2>1, <2>2, OtherCallsIInv
<1> QED BY <1>1, <1>2

THEOREM Invariance == Spec => []IInv
<1>1. Init => IInv
    BY InitIInv
<1>2. IInv /\ [Next]_vars => IInv'
    BY NextIInv
<1> QED BY <1>1, <1>2, PTL DEF Spec

(* The iterator's place in the list, or where the chain of removed nodes   *)
(* under it ends, is a node or the end, whatever handlers remove from      *)
(* under it, in front of it and behind it; and the rest has its type.      *)
THEOREM TypeCorrect == Spec => []TypeOK
<1>1. IInv => TypeOK
    BY IInvSuffices
<1> QED BY <1>1, Invariance, PTL

(* No signal is in the list twice, and a SignalTime only while it has a    *)
(* period, unless one is made where a registered one died; a               *)
(* SignalMainLoop is in it once, as long as it lives, in any case.         *)
THEOREM NoneIsListedTwice == Spec => []RegisteredOnce
<1>1. IInv => RegisteredOnce
    BY IInvSuffices
<1> QED BY <1>1, Invariance, PTL

(* A time that is preset is known to the loop, unless a last slot was      *)
(* disconnected.                                                           *)
THEOREM PresetTimesAreKnown == Spec => []PresetIsRegistered
<1>1. IInv => PresetIsRegistered
    BY IInvSuffices
<1> QED BY <1>1, Invariance, PTL

(* As long as no activation comes while its own handlers run, the flag of  *)
(* every activation that is still to be handled is set.                    *)
THEOREM NoActivationIsForgotten == Spec => []ActivationNotForgotten
<1>1. IInv => ActivationNotForgotten
    BY IInvSuffices
<1> QED BY <1>1, Invariance, PTL

(* The handlers of a SoftTimer that the loop comes to on its list begin    *)
(* only if it was started and since then not stopped and, in mode Once,    *)
(* has not run; unless a timer is made where a registered one died.        *)
THEOREM StoppedTimersDoNotRun == Spec => OnlyArmedTimersRun
<1>1. IInv /\ [Next]_vars => (stale = << >> /\ Without({"rebuild"}) => RunsOnlyArmed)
    <2> SUFFICES ASSUME IInv, [Next]_vars, stale = << >>, Without({"rebuild"}),
                        phase = "visit", phase' = "handling", Here \in SoftTimer
                 PROVE  Here \in armed
        BY DEF RunsOnlyArmed
    <2>1. ~AtEnd /\ Here \in alive
        BY SignalAssumption
        DEF Next, Loop, StartPass, EndPass, Visit, VisitIdle, VisitTriggered, Visiting, VisitOnce, GoOn,
            HandlersReturn, Fault, Calls, Calling, SetPeriod, Start,
            ActivTime, Stop, ConstructTime, ConstructLoop, Connect, DisconnectLast, DisconnectAll,
            Die, Activ, Tick, vars, program, loopVars
    <2>2. RegistryTyped /\ iter <= Len(m_listSignal)
        BY <2>1 DEF AtEnd, IInv, RegistryInv, RegistryTyped
    <2>3. Registered(Here)
        BY <2>2, BehindHere
    <2> QED BY <2>1, <2>3 DEF IInv, RegisteredIsArmed
<1> QED BY <1>1, Invariance, PTL DEF Spec, OnlyArmedTimersRun

(* A pass ends when it has visited every signal that was registered when   *)
(* it began and still is, unless a handler deregisters its own signal and  *)
(* another one is registered.                                              *)
THEOREM PassesAreComplete == Spec => PassVisitsAll
<1>1. IInv /\ [Next]_vars =>
          (phase # "top" /\ phase' = "top" => owed = {} \/ {"selfStop", "rearm"} \subseteq allowed)
    <2> SUFFICES ASSUME IInv, [Next]_vars, phase # "top", phase' = "top",
                        ~({"selfStop", "rearm"} \subseteq allowed)
                 PROVE  owed = {}
        OBVIOUS
    <2>1. EndPass
        BY DEF Next, Loop, StartPass, Visit, VisitIdle, VisitTriggered, VisitOnce, GoOn,
            HandlersReturn, Fault, Calls, SetPeriod, Start,
            ActivTime, Stop, ConstructTime, ConstructLoop, Connect, DisconnectLast, DisconnectAll,
            Die, Activ, Tick, vars, program, loopVars
    <2>2. phase = "visit" /\ iter > Len(m_listSignal) /\ owed \subseteq From(iter)
        BY <2>1 DEF EndPass, AtEnd, IInv, RegistryInv, OwedIsAhead
    <2>3. From(iter) = {}
        BY <2>2 DEF From, IInv, RegistryInv, RegistryTyped
    <2> QED BY <2>2, <2>3
<1> QED BY <1>1, Invariance, PTL DEF Spec, PassVisitsAll
=============================================================================
