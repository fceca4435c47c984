--------------------------- MODULE ApplyPatchesProofs --------------------------
(***************************************************************************)
(* A stamped build directory has the patches of all the calls, whole, once *)
(* and in order.  First what FlattenSeq gives, one sequence more at a      *)
(* time; then the walk; then what the step has gone through, of which the  *)
(* list of applied patches is the record; then the actions.                *)
(***************************************************************************)
EXTENDS ApplyPatches, SequenceTheorems, NaturalsInduction, WellFoundedInduction, TLAPS

\* Induction over the numbers, for a set of them.
LEMMA AllNumbers ==
  ASSUME NEW S, 0 \in S, \A n \in Nat : n \in S => n + 1 \in S
  PROVE  Nat \subseteq S
<1> DEFINE R == { ab \in Nat \X Nat : ab[1] < ab[2] }
<1>1. SUFFICES ASSUME Nat \ S # {} PROVE FALSE
  OBVIOUS
<1>2. IsWellFoundedOn(R, Nat)
  BY NatLessThanWellFounded DEF OpToRel
<1>3. PICK x \in Nat \ S : \A y \in Nat \ S : <<y, x>> \notin R
  BY <1>1, <1>2, WFMin
<1>4. x # 0 /\ x - 1 \in Nat /\ <<x - 1, x>> \in R
  BY <1>3
<1>5. x - 1 \in S
  BY <1>3, <1>4
<1> QED
  BY <1>3, <1>4, <1>5

\* The elements of the first sequences of ss.
Gathered(ss) ==
  LET G[n \in Nat] == IF n = 0 THEN <<>> ELSE G[n - 1] \o ss[n] IN G

\* What has been gathered grows by one sequence at a time.
LEMMA GatheredSteps ==
  ASSUME NEW ss
  PROVE  /\ Gathered(ss)[0] = <<>>
         /\ \A n \in Nat : Gathered(ss)[n + 1] = Gathered(ss)[n] \o ss[n + 1]
<1> DEFINE G[n \in Nat] == IF n = 0 THEN <<>> ELSE G[n - 1] \o ss[n]
           Def(g, n) == g \o ss[n]
<1>1. Gathered(ss) = G
  BY DEF Gathered
<1>2. NatInductiveDefHypothesis(G, <<>>, Def)
  BY DEF NatInductiveDefHypothesis
<1>3. NatInductiveDefConclusion(G, <<>>, Def)
  BY <1>2, NatInductiveDef
<1> HIDE DEF G
<1>4. G = [n \in Nat |-> IF n = 0 THEN <<>> ELSE Def(G[n - 1], n)]
  BY <1>3 DEF NatInductiveDefConclusion
<1> HIDE DEF Def
<1>5. G[0] = <<>> /\ \A n \in Nat : G[n + 1] = Def(G[n], n + 1)
  BY <1>4
<1> QED
  BY <1>1, <1>5 DEF Def

\* It is a sequence of what the sequences hold.
LEMMA GatheredType ==
  ASSUME NEW T, NEW ss \in Seq(Seq(T)), NEW k \in 0..Len(ss)
  PROVE  Gathered(ss)[k] \in Seq(T)
<1> DEFINE S == { n \in Nat : n <= Len(ss) => Gathered(ss)[n] \in Seq(T) }
<1>1. 0 \in S
  <2>1. Gathered(ss)[0] = <<>>
    BY GatheredSteps
  <2>2. <<>> \in Seq(T)
    OBVIOUS
  <2> QED
    BY <2>1, <2>2
<1>2. ASSUME NEW n \in Nat, n \in S PROVE n + 1 \in S
  <2>1. Gathered(ss)[n + 1] = Gathered(ss)[n] \o ss[n + 1]
    BY GatheredSteps
  <2>2. SUFFICES ASSUME n + 1 <= Len(ss) PROVE Gathered(ss)[n + 1] \in Seq(T)
    OBVIOUS
  <2>3. ss[n + 1] \in Seq(T) /\ Gathered(ss)[n] \in Seq(T)
    BY <1>2, <2>2
  <2> QED
    BY <2>1, <2>3
<1> QED
  <2>1. Nat \subseteq S
    BY <1>1, <1>2, AllNumbers, Zenon
  <2> QED
    BY <2>1

\* FlattenSeq of the first k sequences is what has been gathered of them.
LEMMA FlattenIsGathered ==
  ASSUME NEW T, NEW ss \in Seq(Seq(T)), NEW k \in 0..Len(ss)
  PROVE  FlattenSeq([i \in 1..k |-> ss[i]]) = Gathered(ss)[k]
<1> DEFINE tt == [i \in 1..k |-> ss[i]]
           Steps(f) == f = [i \in 1..Len(tt) |-> IF i = 1 THEN tt[i] ELSE f[i - 1] \o tt[i]]
           F == CHOOSE f : Steps(f)
           G == [i \in 1..Len(tt) |-> Gathered(ss)[i]]
           S == { n \in Nat : n + 1 \in 1..k => F[n + 1] = Gathered(ss)[n + 1] }
<1>1. Len(tt) = k /\ tt \in Seq(Seq(T))
  OBVIOUS
<1>2. CASE k = 0
  <2>1. tt = <<>>
    BY <1>2
  <2>2. FlattenSeq(<<>>) = <<>>
    BY DEF FlattenSeq
  <2>3. Gathered(ss)[k] = <<>>
    BY <1>2, GatheredSteps
  <2> QED
    BY <2>1, <2>2, <2>3
<1>3. CASE k # 0
  <2>1. FlattenSeq(tt) = F[Len(tt)]
    BY <1>1, <1>3 DEF FlattenSeq
  <2> HIDE DEF tt, F
  <2>2. \A i \in 1..k : tt[i] = ss[i]
    BY DEF tt
  <2>3. \A i \in 1..k : Gathered(ss)[i] = IF i = 1 THEN ss[i] ELSE Gathered(ss)[i - 1] \o ss[i]
    <3>1. TAKE i \in 1..k
    <3>2. i - 1 \in Nat /\ i - 1 + 1 = i /\ ss[i] \in Seq(T)
      OBVIOUS
    <3>3. Gathered(ss)[i] = Gathered(ss)[i - 1] \o ss[i]
      BY <3>2, GatheredSteps
    <3>4. CASE i # 1
      BY <3>3, <3>4
    <3>5. CASE i = 1
      <4>1. i - 1 = 0
        BY <3>5
      <4>2. Gathered(ss)[0] = <<>>
        BY GatheredSteps, Zenon
      <4>3. \A s \in Seq(T) : <<>> \o s = s
        OBVIOUS
      <4> QED
        BY <3>2, <3>3, <3>5, <4>1, <4>2, <4>3, Zenon
    <3> QED
      BY <3>4, <3>5
  <2>4. Steps(G)
    <3>1. \A i \in 1..k : i # 1 => i - 1 \in 1..k
      OBVIOUS
    <3>2. \A i \in 1..k : G[i] = IF i = 1 THEN tt[i] ELSE G[i - 1] \o tt[i]
      BY <1>1, <2>2, <2>3, <3>1, Zenon
    <3>3. G = [i \in 1..Len(tt) |-> G[i]]
      OBVIOUS
    <3> HIDE DEF G
    <3> QED
      BY <1>1, <3>2, <3>3
  <2>5. Steps(F)
    BY <2>4 DEF F
  <2>6. \A i \in 1..k : F[i] = IF i = 1 THEN tt[i] ELSE F[i - 1] \o tt[i]
    BY <1>1, <2>5
  <2>7. 0 \in S
    BY <2>2, <2>3, <2>6
  <2>8. ASSUME NEW n \in Nat, n \in S PROVE n + 1 \in S
    <3>1. SUFFICES ASSUME NEW i \in 1..k, i = n + 1 + 1 PROVE F[i] = Gathered(ss)[i]
      OBVIOUS
    <3>2. i # 1 /\ i - 1 = n + 1 /\ n + 1 \in 1..k
      BY <3>1
    <3>3. F[i - 1] = Gathered(ss)[i - 1]
      BY <2>8, <3>2
    <3>4. tt[i] = ss[i]
      BY <2>2
    <3>5. F[i] = F[i - 1] \o ss[i]
      BY <2>6, <3>2, <3>4, Zenon
    <3>6. Gathered(ss)[i] = Gathered(ss)[i - 1] \o ss[i]
      BY <2>3, <3>2, Zenon
    <3> QED
      BY <3>3, <3>5, <3>6, Zenon
  <2>9. Nat \subseteq S
    BY <2>7, <2>8, AllNumbers, Zenon
  <2>10. k - 1 \in Nat /\ k - 1 + 1 = k /\ k \in 1..k
    BY <1>3
  <2>11. F[k] = Gathered(ss)[k]
    <3>1. k - 1 \in S
      BY <2>9, <2>10, Zenon
    <3> QED
      BY <2>10, <3>1
  <2> QED
    BY <1>1, <2>1, <2>11 DEF tt
<1> QED
  BY <1>2, <1>3

\* FlattenSeq gathers all the sequences.
LEMMA FlattenType ==
  ASSUME NEW T, NEW ss \in Seq(Seq(T))
  PROVE  FlattenSeq(ss) = Gathered(ss)[Len(ss)] /\ FlattenSeq(ss) \in Seq(T)
<1>1. ss = [i \in 1..Len(ss) |-> ss[i]] /\ Len(ss) \in 0..Len(ss)
  OBVIOUS
<1>2. FlattenSeq([i \in 1..Len(ss) |-> ss[i]]) = Gathered(ss)[Len(ss)]
  BY <1>1, FlattenIsGathered
<1>3. Gathered(ss)[Len(ss)] \in Seq(T)
  BY <1>1, GatheredType
<1> QED
  BY <1>1, <1>2, <1>3, Zenon

\* What has been gathered keeps its first element.
LEMMA FirstKept ==
  ASSUME NEW T, NEW ss \in Seq(Seq(T)), NEW m \in Nat, NEW n \in m..Len(ss), Gathered(ss)[m] # <<>>
  PROVE  Gathered(ss)[n] # <<>> /\ Gathered(ss)[n][1] = Gathered(ss)[m][1]
<1> DEFINE Same(i) == Gathered(ss)[i] # <<>> /\ Gathered(ss)[i][1] = Gathered(ss)[m][1]
           S == { i \in Nat : m + i <= Len(ss) => Same(m + i) }
<1>1. 0 \in S
  OBVIOUS
<1>2. ASSUME NEW i \in Nat, i \in S PROVE i + 1 \in S
  <2>1. SUFFICES ASSUME NEW j \in Nat, j = m + i, j + 1 <= Len(ss) PROVE Same(j + 1)
    OBVIOUS
  <2>2. Same(j)
    BY <1>2, <2>1
  <2>3. Gathered(ss)[j + 1] = Gathered(ss)[j] \o ss[j + 1]
    BY GatheredSteps
  <2>4. Gathered(ss)[j] \in Seq(T) /\ ss[j + 1] \in Seq(T)
    BY <2>1, GatheredType
  <2>5. \A a, b \in Seq(T) : a # <<>> => a \o b # <<>> /\ (a \o b)[1] = a[1]
    OBVIOUS
  <2> QED
    BY <2>2, <2>3, <2>4, <2>5, Zenon
<1>3. Nat \subseteq S
  BY <1>1, <1>2, AllNumbers, Zenon
<1>4. n - m \in Nat /\ m + (n - m) = n /\ n <= Len(ss)
  OBVIOUS
<1> QED
  BY <1>3, <1>4

--------------------------------------------------------------------------------
(* The walk *)

\* A walk of one directory finds patches that patch(1) is given, or skips.
LEMMA ScanType ==
  ASSUME NEW w \in [Dirs -> Seq(Patches)]
  PROVE  Scan(w) \in [Dirs -> Seq(Patches)]
<1> SUFFICES ASSUME NEW d \in Dirs PROVE Scan(w)[d] \in Seq(Patches)
  BY DEF Scan
<1> DEFINE name(i) == Listing[d][i]
           One(i) == IF name(i) \notin DOMAIN Nested[d] THEN Patch(d, name(i), TypeOf[name(i)])
                     ELSE w[Nested[d][name(i)]]
<1>1. CASE Series[d] # NoSeries
  <2> DEFINE ss == [i \in DOMAIN Series[d] |-> Patch(d, Series[d][i], "series")]
  <2>1. Series[d] \in Seq(ToSet(Series[d]))
    BY <1>1, PatchesAssumption DEF Sequence
  <2>2. \A i \in DOMAIN Series[d] : Series[d][i] \in SeriesNames
    BY <1>1 DEF SeriesNames, ToSet
  <2>3. "series" \in Types
    BY DEF Types
  <2>4. \A i \in DOMAIN Series[d] : Patch(d, Series[d][i], "series") \in Seq(Patches)
    BY <2>2, <2>3 DEF Patch, Patches
  <2>5. ss \in Seq(Seq(Patches))
    <3>1. DOMAIN Series[d] = 1..Len(Series[d]) /\ Len(Series[d]) \in Nat
      BY <2>1
    <3>2. ss \in [1..Len(Series[d]) -> Seq(Patches)]
      BY <2>4, <3>1, Zenon
    <3> QED
      BY <3>1, <3>2
  <2>6. Scan(w)[d] = FlattenSeq(ss)
    BY <1>1 DEF Scan
  <2> HIDE DEF ss
  <2> QED
    BY <2>5, <2>6, FlattenType
<1>2. CASE Series[d] = NoSeries
  <2> DEFINE ss == [i \in DOMAIN Listing[d] |-> One(i)]
  <2>1. Listing[d] \in Seq(Files[d]) /\ \A n \in DOMAIN Nested[d] : Nested[d][n] \in Dirs
    BY PatchesAssumption
  <2>2. \A i \in DOMAIN Listing[d] : name(i) \in Names
    BY <2>1 DEF Names
  <2>3. \A i \in DOMAIN Listing[d] : One(i) \in Seq(Patches)
    <3>1. TAKE i \in DOMAIN Listing[d]
    <3>2. TypeOf[name(i)] \in Types /\ name(i) \in Names
      BY <2>2, PatchesAssumption
    <3>3. Patch(d, name(i), TypeOf[name(i)]) \in Seq(Patches)
      BY <3>2 DEF Patch, Patches
    <3> QED
      BY <2>1, <3>3
  <2> HIDE DEF One
  <2>4. ss \in Seq(Seq(Patches))
    <3>1. DOMAIN Listing[d] = 1..Len(Listing[d]) /\ Len(Listing[d]) \in Nat
      BY <2>1
    <3>2. ss \in [1..Len(Listing[d]) -> Seq(Patches)]
      BY <2>3, <3>1, Zenon
    <3> QED
      BY <3>1, <3>2
  <2>5. Scan(w)[d] = FlattenSeq(ss)
    BY <1>2, Zenon DEF Scan, One
  <2> HIDE DEF ss
  <2> QED
    BY <2>4, <2>5, FlattenType
<1> QED
  BY <1>1, <1>2

\* So does a walk of any depth (scan_patchdir calling itself).
LEMMA WalkType ==
         \A n \in Nat : Walk[n] \in [Dirs -> Seq(Patches)]
<1> DEFINE Start0 == [d \in Dirs |-> <<>>]
           Def(w, n) == Scan(w)
           S == { n \in Nat : Walk[n] \in [Dirs -> Seq(Patches)] }
<1>1. NatInductiveDefHypothesis(Walk, Scan(Start0), Def)
  BY DEF NatInductiveDefHypothesis, Walk
<1>2. NatInductiveDefConclusion(Walk, Scan(Start0), Def)
  BY <1>1, NatInductiveDef
<1>3. Walk[0] = Scan(Start0) /\ \A n \in Nat : Walk[n + 1] = Scan(Walk[n])
  BY <1>2 DEF NatInductiveDefConclusion
<1>4. Start0 \in [Dirs -> Seq(Patches)]
  OBVIOUS
<1> HIDE DEF Start0
<1>5. 0 \in S
  BY <1>3, <1>4, ScanType
<1>6. ASSUME NEW n \in Nat, n \in S PROVE n + 1 \in S
  <2>1. Walk[n] \in [Dirs -> Seq(Patches)]
    BY <1>6
  <2>2. Walk[n + 1] \in [Dirs -> Seq(Patches)]
    BY <1>3, <2>1, ScanType
  <2> QED
    BY <2>2
<1>7. Nat \subseteq S
  BY <1>5, <1>6, AllNumbers, Zenon
<1> QED
  BY <1>7

\* So does the walk of a call.
LEMMA WalkedType ==
  ASSUME NEW c \in 1..Len(Calls)
  PROVE  Walked(c) \in Seq(Patches)
<1>1. Calls[c] \in Dirs /\ Depth \in Nat
  BY PatchesAssumption
<1> QED
  BY <1>1, WalkType DEF Walked

--------------------------------------------------------------------------------
(* What has been gone through *)

\* The patches to apply of each call, and of what one call walks.
CallsTaken == [c \in DOMAIN Calls |-> TakenOf(c)]
TakenFrom(c) == [i \in DOMAIN Walked(c) |-> Taken(Walked(c)[i])]

\* The patches of a call, and of all the calls, are gathered from their walks.
LEMMA TakenType ==
         /\ \A c \in 1..Len(Calls) : /\ TakenFrom(c) \in Seq(Seq(Patches))
                                     /\ Len(TakenFrom(c)) = Len(Walked(c))
                                     /\ TakenOf(c) = Gathered(TakenFrom(c))[Len(Walked(c))]
                                     /\ TakenOf(c) \in Seq(Patches)
         /\ CallsTaken \in Seq(Seq(Patches)) /\ Len(CallsTaken) = Len(Calls)
<1>1. ASSUME NEW c \in 1..Len(Calls)
      PROVE  /\ TakenFrom(c) \in Seq(Seq(Patches)) /\ Len(TakenFrom(c)) = Len(Walked(c))
             /\ TakenOf(c) = Gathered(TakenFrom(c))[Len(Walked(c))]
             /\ TakenOf(c) \in Seq(Patches)
  <2>1. Walked(c) \in Seq(Patches)
    BY WalkedType
  <2>2. \A i \in 1..Len(Walked(c)) : Taken(Walked(c)[i]) \in Seq(Patches)
    BY <2>1 DEF Taken
  <2>3. TakenFrom(c) \in Seq(Seq(Patches)) /\ Len(TakenFrom(c)) = Len(Walked(c))
    <3>1. DOMAIN Walked(c) = 1..Len(Walked(c)) /\ Len(Walked(c)) \in Nat
      BY <2>1
    <3>2. TakenFrom(c) \in [1..Len(Walked(c)) -> Seq(Patches)]
      BY <2>2, <3>1, Zenon DEF TakenFrom
    <3> QED
      BY <3>1, <3>2
  <2>4. TakenOf(c) = FlattenSeq(TakenFrom(c))
    BY DEF TakenOf, TakenFrom
  <2> QED
    BY <2>3, <2>4, FlattenType
<1>2. CallsTaken \in Seq(Seq(Patches)) /\ Len(CallsTaken) = Len(Calls)
  <2>1. DOMAIN Calls = 1..Len(Calls) /\ Len(Calls) \in Nat
    BY PatchesAssumption
  <2>2. CallsTaken \in [1..Len(Calls) -> Seq(Patches)]
    BY <1>1, <2>1, Zenon DEF CallsTaken
  <2> QED
    BY <2>1, <2>2
<1> QED
  BY <1>1, <1>2

\* The wanted patches before a place: those of the calls before it and of its walk.
LEMMA BeforeGathered ==
  ASSUME NEW c \in 1..Len(Calls), NEW k \in 0..Len(Walked(c))
  PROVE  /\ Before(c, k) = Gathered(CallsTaken)[c - 1] \o Gathered(TakenFrom(c))[k]
         /\ Gathered(CallsTaken)[c - 1] \in Seq(Patches)
         /\ Gathered(TakenFrom(c))[k] \in Seq(Patches)
<1>1. /\ TakenFrom(c) \in Seq(Seq(Patches)) /\ k \in 0..Len(TakenFrom(c))
      /\ CallsTaken \in Seq(Seq(Patches)) /\ c - 1 \in 0..Len(CallsTaken)
  BY TakenType, PatchesAssumption
<1>2. [i \in 1..(c - 1) |-> TakenOf(i)] = [i \in 1..(c - 1) |-> CallsTaken[i]]
  BY PatchesAssumption DEF CallsTaken
<1>3. [i \in 1..k |-> Taken(Walked(c)[i])] = [i \in 1..k |-> TakenFrom(c)[i]]
  BY WalkedType DEF TakenFrom
<1>4. /\ FlattenSeq([i \in 1..(c - 1) |-> CallsTaken[i]]) = Gathered(CallsTaken)[c - 1]
      /\ FlattenSeq([i \in 1..k |-> TakenFrom(c)[i]]) = Gathered(TakenFrom(c))[k]
  BY <1>1, FlattenIsGathered
<1>5. Before(c, k) = Gathered(CallsTaken)[c - 1] \o Gathered(TakenFrom(c))[k]
  BY <1>2, <1>3, <1>4, Zenon DEF Before
<1> QED
  BY <1>1, <1>5, GatheredType

\* At the start of a call they are those of the calls before it.
LEMMA BeforeStart ==
  ASSUME NEW c \in 1..(Len(Calls) + 1)
  PROVE  Before(c, 0) = Gathered(CallsTaken)[c - 1] /\ Before(c, 0) \in Seq(Patches)
<1>1. CallsTaken \in Seq(Seq(Patches)) /\ c - 1 \in 0..Len(CallsTaken)
  BY TakenType, PatchesAssumption
<1>2. [i \in 1..(c - 1) |-> TakenOf(i)] = [i \in 1..(c - 1) |-> CallsTaken[i]]
  BY PatchesAssumption DEF CallsTaken
<1>3. /\ FlattenSeq([i \in 1..(c - 1) |-> CallsTaken[i]]) = Gathered(CallsTaken)[c - 1]
      /\ Gathered(CallsTaken)[c - 1] \in Seq(Patches)
  BY <1>1, FlattenIsGathered, GatheredType
<1>4. FlattenSeq([i \in 1..0 |-> Taken(Walked(c)[i])]) = <<>>
  <2>1. [i \in 1..0 |-> Taken(Walked(c)[i])] = <<>>
    OBVIOUS
  <2>2. FlattenSeq(<<>>) = <<>>
    BY DEF FlattenSeq
  <2> QED
    BY <2>1, <2>2
<1>5. Before(c, 0) = Gathered(CallsTaken)[c - 1] \o <<>>
  BY <1>2, <1>3, <1>4, Zenon DEF Before
<1> QED
  BY <1>3, <1>5

\* None at first; the end of a call is the start of the next; all of them at the end.
LEMMA BeforeEnds ==
         /\ Before(1, 0) = <<>>
         /\ \A c \in 1..Len(Calls) : Before(c, Len(Walked(c))) = Before(c + 1, 0)
         /\ Before(Len(Calls) + 1, 0) = Wanted
<1>1. Len(Calls) \in Nat
  BY PatchesAssumption
<1>2. Before(1, 0) = <<>>
  <2>1. Before(1, 0) = Gathered(CallsTaken)[1 - 1] /\ 1 - 1 = 0
    BY <1>1, BeforeStart
  <2>2. Gathered(CallsTaken)[0] = <<>>
    BY GatheredSteps
  <2> QED
    BY <2>1, <2>2
<1>3. ASSUME NEW c \in 1..Len(Calls)
      PROVE  Before(c, Len(Walked(c))) = Before(c + 1, 0)
  <2>1. Len(Walked(c)) \in 0..Len(Walked(c))
    BY WalkedType
  <2>2. Before(c, Len(Walked(c))) = Gathered(CallsTaken)[c - 1] \o Gathered(TakenFrom(c))[Len(Walked(c))]
    BY <2>1, BeforeGathered
  <2>3. Gathered(TakenFrom(c))[Len(Walked(c))] = TakenOf(c) /\ TakenOf(c) = CallsTaken[c]
    BY TakenType, PatchesAssumption DEF CallsTaken
  <2>4. c - 1 \in Nat /\ c - 1 + 1 = c /\ c + 1 - 1 = c /\ c + 1 \in 1..(Len(Calls) + 1)
    BY <1>1
  <2>5. Gathered(CallsTaken)[c] = Gathered(CallsTaken)[c - 1] \o CallsTaken[c]
    BY <2>4, GatheredSteps
  <2>6. Before(c + 1, 0) = Gathered(CallsTaken)[c]
    BY <2>4, BeforeStart
  <2> QED
    BY <2>2, <2>3, <2>5, <2>6
<1>4. Before(Len(Calls) + 1, 0) = Wanted
  <2>1. Wanted = FlattenSeq(CallsTaken)
    BY DEF Wanted, CallsTaken
  <2>2. Wanted = Gathered(CallsTaken)[Len(Calls)]
    BY <2>1, TakenType, FlattenType
  <2>3. Before(Len(Calls) + 1, 0) = Gathered(CallsTaken)[Len(Calls) + 1 - 1] /\ Len(Calls) + 1 - 1 = Len(Calls)
    BY <1>1, BeforeStart
  <2> QED
    BY <2>2, <2>3
<1> QED
  BY <1>2, <1>3, <1>4

\* One patch of the walk adds itself, or nothing when it is skipped.
LEMMA BeforeSteps ==
  ASSUME NEW c \in 1..Len(Calls), NEW k \in Nat, k < Len(Walked(c))
  PROVE  Before(c, k + 1) = Before(c, k) \o Taken(Walked(c)[k + 1])
<1>1. Walked(c) \in Seq(Patches)
  BY WalkedType
<1>2. TakenFrom(c)[k + 1] = Taken(Walked(c)[k + 1]) /\ Taken(Walked(c)[k + 1]) \in Seq(Patches)
  BY <1>1 DEF TakenFrom, Taken
<1>3. Gathered(TakenFrom(c))[k + 1] = Gathered(TakenFrom(c))[k] \o TakenFrom(c)[k + 1]
  BY GatheredSteps
<1>4. k \in 0..Len(Walked(c)) /\ k + 1 \in 0..Len(Walked(c))
  BY <1>1
<1>5. /\ Before(c, k) = Gathered(CallsTaken)[c - 1] \o Gathered(TakenFrom(c))[k]
      /\ Before(c, k + 1) = Gathered(CallsTaken)[c - 1] \o Gathered(TakenFrom(c))[k + 1]
      /\ Gathered(CallsTaken)[c - 1] \in Seq(Patches)
      /\ Gathered(TakenFrom(c))[k] \in Seq(Patches)
  BY <1>4, BeforeGathered
<1> DEFINE p == Gathered(CallsTaken)[c - 1]  q == Gathered(TakenFrom(c))[k]  r == Taken(Walked(c)[k + 1])
<1>6. p \in Seq(Patches) /\ q \in Seq(Patches) /\ r \in Seq(Patches)
  BY <1>2, <1>5
<1>7. Before(c, k) = p \o q /\ Before(c, k + 1) = p \o (q \o r)
  BY <1>2, <1>3, <1>5
<1> HIDE DEF p, q, r
<1>8. (p \o q) \o r = p \o (q \o r)
  <2>1. \A a, b, e \in Seq(Patches) : (a \o b) \o e = a \o (b \o e)
    BY ConcatAssociative, SMTT(30)
  <2> QED
    BY <1>6, <2>1, Zenon
<1>9. Before(c, k + 1) = Before(c, k) \o r
  BY <1>7, <1>8, Zenon
<1> QED
  BY <1>9 DEF r

\* The first patch that is gone through is the first that is wanted.
LEMMA FirstWanted ==
  ASSUME NEW c \in 1..Len(Calls), NEW k \in 0..Len(Walked(c)), Before(c, k) # <<>>
  PROVE  Wanted # <<>> /\ Wanted[1] = Before(c, k)[1]
<1> DEFINE calls == Gathered(CallsTaken)  walk == Gathered(TakenFrom(c))
<1>1. /\ CallsTaken \in Seq(Seq(Patches)) /\ Len(CallsTaken) = Len(Calls)
      /\ TakenFrom(c) \in Seq(Seq(Patches)) /\ Len(TakenFrom(c)) = Len(Walked(c))
      /\ Len(Calls) \in Nat /\ Len(Walked(c)) \in Nat
  BY TakenType, WalkedType, PatchesAssumption
<1>2. /\ Before(c, k) = calls[c - 1] \o walk[k]
      /\ calls[c - 1] \in Seq(Patches) /\ walk[k] \in Seq(Patches)
  BY BeforeGathered
<1>3. Wanted = calls[Len(Calls)]
  BY <1>1, BeforeEnds, BeforeStart
<1>4. CASE calls[c - 1] # <<>>
  <2>1. c - 1 \in Nat /\ Len(Calls) \in (c - 1)..Len(CallsTaken)
    BY <1>1
  <2>2. Wanted # <<>> /\ Wanted[1] = calls[c - 1][1]
    BY <1>1, <1>3, <1>4, <2>1, FirstKept
  <2>3. Before(c, k)[1] = calls[c - 1][1]
    <3>1. \A a, b \in Seq(Patches) : a # <<>> => (a \o b)[1] = a[1]
      OBVIOUS
    <3> QED
      BY <1>2, <1>4, <3>1, Zenon
  <2> QED
    BY <2>2, <2>3
<1>5. CASE calls[c - 1] = <<>>
  <2>1. Before(c, k) = walk[k] /\ walk[k] # <<>>
    BY <1>2, <1>5
  <2>2. k \in Nat /\ Len(Walked(c)) \in k..Len(TakenFrom(c))
    BY <1>1
  <2>3. walk[Len(Walked(c))] # <<>> /\ walk[Len(Walked(c))][1] = walk[k][1]
    BY <1>1, <2>1, <2>2, FirstKept
  <2>4. calls[c] = walk[Len(Walked(c))]
    <3>1. Len(Walked(c)) \in 0..Len(Walked(c)) /\ c + 1 - 1 = c /\ c + 1 \in 1..(Len(Calls) + 1)
      BY <1>1
    <3>2. Before(c, Len(Walked(c))) = calls[c - 1] \o walk[Len(Walked(c))]
          /\ walk[Len(Walked(c))] \in Seq(Patches)
      BY <3>1, BeforeGathered
    <3>3. calls[c] = Before(c, Len(Walked(c)))
      BY <3>1, BeforeStart, BeforeEnds
    <3> QED
      BY <1>5, <3>2, <3>3
  <2>5. c \in Nat /\ Len(Calls) \in c..Len(CallsTaken)
    BY <1>1
  <2>6. Wanted # <<>> /\ Wanted[1] = calls[c][1]
    BY <1>1, <1>3, <2>3, <2>4, <2>5, FirstKept
  <2> QED
    BY <2>1, <2>3, <2>4, <2>6
<1> QED
  BY <1>4, <1>5

--------------------------------------------------------------------------------
(* The steps *)

\* What is left of a walk after k patches.
LEMMA RestOfWalk ==
  ASSUME NEW T, NEW w \in Seq(T), NEW k \in 0..Len(w), NEW t, t = SubSeq(w, k + 1, Len(w))
  PROVE  /\ Len(t) = Len(w) - k
         /\ t = <<>> => k = Len(w)
         /\ t # <<>> => /\ k < Len(w) /\ Head(t) = w[k + 1] /\ w[k + 1] \in T
                       /\ Tail(t) = SubSeq(w, k + 1 + 1, Len(w)) /\ k + 1 \in 0..Len(w)
<1>1. t \in Seq(T) /\ Len(t) = Len(w) - k /\ \A i \in 1..(Len(w) - k) : t[i] = w[k + i]
  OBVIOUS
<1>2. ASSUME t # <<>>
      PROVE  /\ k < Len(w) /\ Head(t) = w[k + 1] /\ w[k + 1] \in T
             /\ Tail(t) = SubSeq(w, k + 1 + 1, Len(w)) /\ k + 1 \in 0..Len(w)
  <2>1. k < Len(w) /\ Head(t) = w[k + 1] /\ w[k + 1] \in T /\ k + 1 \in 0..Len(w)
    BY <1>1, <1>2
  <2>2. Tail(t) = SubSeq(w, k + 1 + 1, Len(w))
    <3>1. /\ Tail(t) \in Seq(T) /\ Len(Tail(t)) = Len(w) - k - 1
          /\ \A i \in 1..(Len(w) - k - 1) : Tail(t)[i] = w[k + 1 + i]
      BY <1>1, <1>2
    <3>2. DEFINE u == SubSeq(w, k + 1 + 1, Len(w))
    <3>3. /\ u \in Seq(T) /\ Len(u) = Len(w) - k - 1
          /\ \A i \in 1..(Len(w) - k - 1) : u[i] = w[k + 1 + i]
      <4>1. k + 1 \in Nat /\ k + 1 <= Len(w) /\ Len(w) \in Nat
        BY <2>1
      <4>2. \A m \in Nat : m <= Len(w) =>
              /\ SubSeq(w, m + 1, Len(w)) \in Seq(T)
              /\ Len(SubSeq(w, m + 1, Len(w))) = Len(w) - m
              /\ \A i \in 1..(Len(w) - m) : SubSeq(w, m + 1, Len(w))[i] = w[m + i]
        OBVIOUS
      <4>3. Len(w) - (k + 1) = Len(w) - k - 1
        BY <4>1
      <4> QED
        BY <4>1, <4>2, <4>3, Zenon
    <3> HIDE DEF u
    <3>4. Tail(t) = u
      BY <3>1, <3>3, SeqEqual
    <3> QED
      BY <3>4 DEF u
  <2> QED
    BY <2>1, <2>2
<1>3. ASSUME t = <<>> PROVE k = Len(w)
  <2>1. Len(<<>>) = 0 /\ Len(w) \in Nat
    OBVIOUS
  <2>2. Len(t) = 0
    BY <1>3, <2>1, Zenon
  <2> QED
    BY <1>1, <2>1, <2>2
<1> QED
  BY <1>1, <1>2, <1>3, Zenon

\* Where a step is that walks a call.
LEMMA InCall ==
  ASSUME PatchInv, pc \in {"patch", "apply"}
  PROVE  /\ call \in 1..Len(Calls) /\ Position \in 0..Len(Walked(call))
         /\ Done = Before(call, Position) /\ Done \in Seq(Patches)
         /\ todo = <<>> => Done = Before(call + 1, 0)
         /\ todo # <<>> =>
              /\ Head(todo) \in Patches /\ Position + 1 \in 0..Len(Walked(call))
              /\ Tail(todo) = SubSeq(Walked(call), Position + 1 + 1, Len(Walked(call)))
              /\ Len(Walked(call)) - Len(Tail(todo)) = Position + 1
              /\ Before(call, Position + 1) = Done \o Taken(Head(todo))
<1>1. /\ call \in 1..Len(Calls) /\ Position \in 0..Len(Walked(call))
      /\ todo = SubSeq(Walked(call), Position + 1, Len(Walked(call)))
  BY PatchesAssumption DEF PatchInv, StepInv, InStep
<1> DEFINE w == Walked(call)  k == Position
<1>2. w \in Seq(Patches)
  BY <1>1, WalkedType
<1>3. Done = Before(call, k) /\ Done \in Seq(Patches)
  <2>1. Before(call, k) \in Seq(Patches)
    <3>1. /\ Before(call, k) = Gathered(CallsTaken)[call - 1] \o Gathered(TakenFrom(call))[k]
          /\ Gathered(CallsTaken)[call - 1] \in Seq(Patches)
          /\ Gathered(TakenFrom(call))[k] \in Seq(Patches)
      BY <1>1, BeforeGathered
    <3> QED
      BY <3>1
  <2> QED
    BY <2>1 DEF Done
<1> HIDE DEF w, k
<1>4. /\ todo = <<>> => k = Len(w)
      /\ todo # <<>> => /\ k < Len(w) /\ Head(todo) = w[k + 1] /\ w[k + 1] \in Patches
                        /\ Tail(todo) = SubSeq(w, k + 1 + 1, Len(w)) /\ k + 1 \in 0..Len(w)
  BY <1>1, <1>2, RestOfWalk DEF w, k
<1>5. ASSUME todo = <<>> PROVE Done = Before(call + 1, 0)
  BY <1>1, <1>3, <1>4, <1>5, BeforeEnds DEF w, k
<1>6. ASSUME todo # <<>>
      PROVE  /\ Len(w) - Len(Tail(todo)) = k + 1
             /\ Before(call, k + 1) = Done \o Taken(Head(todo))
  <2>1. Len(Tail(todo)) = Len(w) - (k + 1)
    <3> DEFINE j == k + 1  t == Tail(todo)
    <3>1. t = SubSeq(w, j + 1, Len(w)) /\ j \in 0..Len(w)
      BY <1>4, <1>6
    <3> HIDE DEF j, t
    <3>2. Len(t) = Len(w) - j
      BY <1>2, <3>1, RestOfWalk
    <3> QED
      BY <3>2 DEF j, t
  <2>2. k \in Nat /\ k < Len(Walked(call)) /\ Head(todo) = Walked(call)[k + 1] /\ Len(w) \in Nat
    BY <1>1, <1>2, <1>4, <1>6 DEF w, k
  <2>3. Before(call, k + 1) = Before(call, k) \o Taken(Walked(call)[k + 1])
    BY <1>1, <2>2, BeforeSteps
  <2>4. Len(w) - Len(Tail(todo)) = k + 1
    <3> DEFINE l == Len(Tail(todo))  n == Len(w)
    <3>1. n \in Nat /\ l = n - (k + 1)
      BY <2>1, <2>2
    <3> HIDE DEF l, n
    <3>2. n - l = k + 1
      BY <2>2, <3>1
    <3> QED
      BY <3>2 DEF l, n
  <2> QED
    BY <1>3, <2>2, <2>3, <2>4, Zenon
<1> QED
  BY <1>1, <1>3, <1>4, <1>5, <1>6 DEF w, k

\* The first patch to apply of a call is the first wanted, when none was before it.
LEMMA HeadIsWanted ==
  ASSUME PatchInv, pc \in {"patch", "apply"}, todo # <<>>,
         Head(todo).type # "other", Done = <<>>
  PROVE  Wanted # <<>> /\ Wanted[1] = Head(todo)
<1>1. /\ call \in 1..Len(Calls) /\ Position + 1 \in 0..Len(Walked(call))
      /\ Before(call, Position + 1) = <<>> \o Taken(Head(todo))
  BY InCall
<1>2. Before(call, Position + 1) = <<Head(todo)>>
  BY <1>1 DEF Taken
<1>3. <<Head(todo)>> # <<>> /\ <<Head(todo)>>[1] = Head(todo)
  OBVIOUS
<1> QED
  BY <1>1, <1>2, <1>3, FirstWanted, Zenon

\* A list with one more patch is not empty.
LEMMA NotEmpty ==
         \A s \in Seq(Patches), p \in Patches : Append(s, p) # <<>>
  BY AppendProperties

\* A patch that patch takes is delivered after those before it.
LEMMA DeliveredInTurn ==
  ASSUME NEW s \in Seq(Patches), NEW p \in Patches, NEW got \in {"whole", "part", "none"},
         NEW made \in Seq(Outcomes), NEW cut, NEW cut2,
         Delivered(made, cut, s), cut \subseteq cut2, got # "whole" => p \in cut2
  PROVE  Delivered(Append(made, Applied(p, got)), cut2, Append(s, p))
<1> DEFINE t == Append(s, p)
           o == Applied(p, got)
           more == Append(made, o)
<1>1. o \in Outcomes /\ o.patch = p /\ o.got = got
  BY DEF Applied, Outcomes
<1>2. Len(made) = Len(s) /\ Len(s) \in Nat
  BY DEF Delivered
<1>3. /\ DOMAIN s = 1..Len(s) /\ DOMAIN t = 1..(Len(s) + 1) /\ Len(t) = Len(s) + 1
      /\ t[Len(s) + 1] = p /\ \A i \in 1..Len(s) : t[i] = s[i]
  OBVIOUS
<1> HIDE DEF o
<1>4. /\ Len(more) = Len(s) + 1 /\ more[Len(s) + 1] = o
      /\ \A i \in 1..Len(s) : more[i] = made[i]
  BY <1>1, <1>2
<1> HIDE DEF t, more
<1>5. \A i \in 1..Len(s) : /\ more[i].patch = t[i]
                           /\ more[i].got # "whole" => t[i] \in cut2
  BY <1>3, <1>4, Zenon DEF Delivered
<1>6. \A i \in 1..(Len(s) + 1) : i \in 1..Len(s) \/ i = Len(s) + 1
  BY <1>2
<1>7. \A i \in DOMAIN t : /\ more[i].patch = t[i]
                          /\ more[i].got # "whole" => t[i] \in cut2
  BY <1>1, <1>3, <1>4, <1>5, <1>6, Zenon
<1>8. Delivered(more, cut2, t)
  BY <1>3, <1>4, <1>7, Zenon DEF Delivered
<1> QED
  BY <1>8 DEF more, t, o

\* Nothing is delivered of no patches.
LEMMA NothingDelivered == ASSUME NEW cut PROVE Delivered(<<>>, cut, <<>>)
  BY DEF Delivered

\* What patch makes of one more patch is an outcome.
LEMMA OutcomesGrow ==
  ASSUME NEW made \in Seq(Outcomes), NEW p \in Patches, NEW got \in {"whole", "part", "none"}
  PROVE  Append(made, Applied(p, got)) \in Seq(Outcomes)
<1>1. Applied(p, got) \in Outcomes
  BY DEF Applied, Outcomes
<1> QED
  BY <1>1

\* The step of apply-patches.sh and its restarts keep the list and the sources what PatchInv
\* says.
THEOREM PatchesKept == Spec => []PatchInv
<1>1. Init => PatchInv
  <2>1. DOMAIN <<>> = {} /\ <<>> \in Seq(Outcomes)
    OBVIOUS
  <2> QED
    BY <2>1 DEF Init, PatchInv, ListInv, InStep
<1>2. ASSUME PatchInv, [Next]_vars PROVE PatchInv'
  <2>1. CASE Start
    <3>1. pc' = "call" /\ call' = 1 /\ UNCHANGED <<list, sources, stamped, short>> /\ stamped = FALSE
      BY <1>2, <2>1 DEF Start, tree, PatchInv
    <3>2. ListInv'
      BY <1>2, <3>1 DEF PatchInv, ListInv
    <3>3. Done' = <<>>
      BY <3>1, BeforeEnds DEF Done, Position
    <3>4. (Fresh \/ Doomed)'
      <4>1. CASE list = <<>>
        <5>1. sources = <<>>
          BY <1>2, <4>1 DEF PatchInv, ListInv
        <5> QED
          BY <3>1, <3>3, <4>1, <5>1, NothingDelivered DEF Fresh
      <4>2. CASE list # <<>>
        BY <3>1, <3>3, <4>2 DEF Doomed
      <4> QED
        BY <4>1, <4>2
    <3>5. Len(Calls) \in Nat
      BY PatchesAssumption
    <3> QED
      BY <1>2, <3>1, <3>2, <3>4, <3>5 DEF PatchInv, StepInv, InStep
  <2>2. CASE BeginCall
    <3>1. /\ pc = "call" /\ pc' = "patch" /\ call' = call /\ call \in 1..Len(Calls)
          /\ todo' = Walked(call) /\ UNCHANGED <<list, sources, stamped, short>> /\ ~stamped
      BY <1>2, <2>2, PatchesAssumption DEF BeginCall, PatchInv, InStep, StepInv
    <3>2. ListInv'
      BY <1>2, <3>1 DEF PatchInv, ListInv
    <3>3. Walked(call) \in Seq(Patches)
      BY <3>1, WalkedType
    <3>4. Position' = 0 /\ todo' = SubSeq(Walked(call), 1, Len(Walked(call)))
      BY <3>1, <3>3 DEF Position
    <3>5. Done' = Done
      BY <3>1, <3>4 DEF Done, Position
    <3>6. (Fresh \/ Doomed)'
      BY <1>2, <3>1, <3>5 DEF PatchInv, InStep, StepInv, Fresh, Doomed
    <3>7. call' \in 1..(Len(Calls) + 1) /\ call' <= Len(Calls) /\ Position' \in 0..Len(Walked(call'))
      BY <3>1, <3>3, <3>4, PatchesAssumption
    <3>8. todo' = SubSeq(Walked(call'), Position' + 1, Len(Walked(call')))
      <4>1. Position' + 1 = 1
        BY <3>4
      <4> QED
        BY <3>1, <3>4, <4>1, Zenon
    <3> QED
      BY <1>2, <3>1, <3>2, <3>6, <3>7, <3>8, Zenon DEF PatchInv, StepInv, InStep
  <2>3. CASE SkipOther
    <3>1. /\ pc = "patch" /\ pc' = "patch" /\ call' = call /\ call \in 1..Len(Calls)
          /\ todo # <<>> /\ Head(todo).type = "other" /\ todo' = Tail(todo)
          /\ UNCHANGED <<list, sources, stamped, short>> /\ ~stamped
      BY <1>2, <2>3, InCall DEF SkipOther, tree, PatchInv, InStep
    <3>2. ListInv'
      BY <1>2, <3>1 DEF PatchInv, ListInv
    <3>3. /\ Position' = Position + 1 /\ Position' \in 0..Len(Walked(call))
          /\ todo' = SubSeq(Walked(call), Position' + 1, Len(Walked(call)))
      <4>1. Position' = Len(Walked(call)) - Len(Tail(todo))
        BY <3>1 DEF Position
      <4> QED
        BY <1>2, <3>1, <4>1, InCall
    <3>4. Done' = Done
      <4>1. Done' = Before(call, Position + 1)
        BY <3>1, <3>3 DEF Done
      <4>2. Before(call, Position + 1) = Done \o <<>> /\ Done \in Seq(Patches)
        BY <1>2, <3>1, InCall DEF Taken
      <4> QED
        BY <4>1, <4>2
    <3>5. (Fresh \/ Doomed)'
      BY <1>2, <3>1, <3>4 DEF PatchInv, InStep, StepInv, Fresh, Doomed
    <3>6. call' \in 1..(Len(Calls) + 1) /\ call' <= Len(Calls)
      BY <3>1, PatchesAssumption
    <3> QED
      BY <1>2, <3>1, <3>2, <3>3, <3>5, <3>6, Zenon DEF PatchInv, StepInv, InStep
  <2>4. CASE Refuse
    <3>1. pc' = "failed" /\ UNCHANGED <<list, sources, stamped, short>> /\ ~stamped
      BY <1>2, <2>4 DEF Refuse, tree, PatchInv, InStep
    <3> QED
      BY <1>2, <3>1 DEF PatchInv, ListInv, InStep
  <2>5. CASE ListPatch
    <3>1. /\ pc = "patch" /\ pc' = "apply" /\ call' = call /\ todo' = todo
          /\ todo # <<>> /\ Head(todo).type # "other" /\ ~IsListed(Head(todo))
          /\ list' = Append(list, Head(todo)) /\ UNCHANGED <<sources, stamped, short>> /\ ~stamped
      BY <1>2, <2>5 DEF ListPatch, PatchInv, InStep
    <3>2. ~Doomed
      <4>1. SUFFICES ASSUME Doomed PROVE FALSE
        OBVIOUS
      <4>2. 1 \in DOMAIN list /\ list[1] = Wanted[1]
        BY <1>2, <4>1 DEF PatchInv, ListInv, Doomed
      <4>3. Wanted[1] = Head(todo)
        BY <1>2, <3>1, <4>1, HeadIsWanted DEF Doomed
      <4> QED
        BY <3>1, <4>2, <4>3 DEF IsListed
    <3>3. Fresh /\ list = Done /\ Done \in Seq(Patches) /\ call \in 1..Len(Calls)
      BY <1>2, <3>1, <3>2, InCall DEF PatchInv, InStep, StepInv, Fresh
    <3>4. Position' = Position /\ Done' = Done
      BY <3>1 DEF Done, Position
    <3>5. Fresh'
      BY <3>1, <3>3, <3>4 DEF Fresh
    <3>6. ListInv'
      <4>1. Head(todo) \in Patches
        BY <1>2, <3>1, InCall
      <4>2. /\ list' # <<>> /\ DOMAIN list' = 1..(Len(list) + 1) /\ DOMAIN list = 1..Len(list)
            /\ Len(list) \in Nat /\ list'[Len(list) + 1] = Head(todo)
            /\ \A i \in 1..Len(list) : list'[i] = list[i]
        BY <3>1, <3>3, <4>1
      <4>3. \A i, j \in DOMAIN list' : list'[i].name = list'[j].name => i = j
        <5>1. TAKE i, j \in DOMAIN list'
        <5>2. \A m \in DOMAIN list : list[m].name # Head(todo).name
          BY <3>1 DEF IsListed
        <5>3. \A m, n \in DOMAIN list : list[m].name = list[n].name => m = n
          BY <1>2 DEF PatchInv, ListInv
        <5> QED
          BY <4>2, <5>2, <5>3
      <4>4. Wanted # <<>> /\ list'[1] = Wanted[1]
        <5>1. CASE list = <<>>
          BY <1>2, <3>1, <3>3, <4>2, <5>1, HeadIsWanted
        <5>2. CASE list # <<>>
          BY <1>2, <4>2, <5>2 DEF PatchInv, ListInv
        <5> QED
          BY <5>1, <5>2
      <4> QED
        BY <4>2, <4>3, <4>4 DEF ListInv
    <3>7. StepInv
      BY <1>2, <3>1 DEF PatchInv, InStep
    <3> QED
      BY <1>2, <3>1, <3>4, <3>5, <3>6, <3>7, Zenon DEF PatchInv, StepInv, InStep
  <2>6. CASE Apply
    <3> DEFINE p == Head(todo)
    <3>1. /\ pc = "apply" /\ call' = call /\ UNCHANGED <<list, stamped>> /\ ~stamped
          /\ todo # <<>> /\ p.type # "other" /\ Fresh
      BY <1>2, <2>6 DEF Apply, PatchInv, InStep, StepInv, Doomed
    <3>2. /\ p \in Patches /\ Done \in Seq(Patches) /\ call \in 1..Len(Calls)
          /\ list = Append(Done, p) /\ sources \in Seq(Outcomes)
      BY <1>2, <3>1, InCall DEF Fresh, PatchInv
    <3>3. PICK given \in Given(p) :
            /\ \/ TakePatch(given)
               \/ RejectPatch /\ pc' = "failed"
            /\ short' = IF given = "whole" THEN short ELSE short \cup {p}
      BY <2>6 DEF Apply
    <3>4. given \in {"whole", "part", "none"}
      BY DEF Given
    <3>5. ListInv'
      <4>1. list # <<>>
        BY <3>2, NotEmpty, Zenon
      <4> QED
        BY <1>2, <3>1, <4>1 DEF PatchInv, ListInv
    <3>6. CASE RejectPatch /\ pc' = "failed"
      <4>1. sources' \in Seq(Outcomes)
        BY <3>2, <3>6, OutcomesGrow DEF RejectPatch
      <4> QED
        BY <3>1, <3>5, <3>6, <4>1 DEF PatchInv, InStep
    <3>7. CASE TakePatch(given)
      <4>1. pc' = "patch" /\ todo' = Tail(todo) /\ sources' = Append(sources, Applied(p, given))
        BY <3>7 DEF TakePatch
      <4>2. /\ Position' = Position + 1 /\ Position' \in 0..Len(Walked(call))
            /\ todo' = SubSeq(Walked(call), Position' + 1, Len(Walked(call)))
        <5>1. Position' = Len(Walked(call)) - Len(Tail(todo))
          BY <3>1, <4>1 DEF Position
        <5> QED
          BY <1>2, <3>1, <4>1, <5>1, InCall
      <4>3. Done' = Append(Done, p)
        <5>1. Done' = Before(call, Position + 1)
          BY <3>1, <4>2 DEF Done
        <5>2. Before(call, Position + 1) = Done \o <<p>>
          BY <1>2, <3>1, InCall DEF Taken
        <5>3. Done \o <<p>> = Append(Done, p)
          BY <3>2
        <5> QED
          BY <5>1, <5>2, <5>3
      <4>4. list' = Done'
        BY <3>1, <3>2, <4>3
      <4>5. Delivered(sources', short', Done')
        <5>1. Delivered(sources, short, Done)
          BY <3>1 DEF Fresh
        <5>2. short \subseteq short' /\ (given # "whole" => p \in short')
          BY <3>3
        <5>3. Delivered(Append(sources, Applied(p, given)), short', Append(Done, p))
          BY <3>2, <3>4, <5>1, <5>2, DeliveredInTurn
        <5> QED
          BY <4>1, <4>3, <5>3, Zenon
      <4>6. Fresh'
        BY <4>1, <4>4, <4>5 DEF Fresh
      <4>7. call' \in 1..(Len(Calls) + 1) /\ call' <= Len(Calls)
        BY <3>1, <3>2, PatchesAssumption
      <4>8. sources' \in Seq(Outcomes)
        BY <3>2, <3>4, <4>1, OutcomesGrow
      <4> QED
        BY <3>1, <3>5, <4>1, <4>2, <4>6, <4>7, <4>8, Zenon DEF PatchInv, StepInv, InStep
    <3> QED
      BY <3>3, <3>6, <3>7
  <2>7. CASE EndCall
    <3>1. /\ pc = "patch" /\ todo = <<>> /\ UNCHANGED <<list, sources, stamped, short>> /\ ~stamped
          /\ (pc' = "failed" \/ (pc' = "call" /\ call' = call + 1))
      BY <1>2, <2>7 DEF EndCall, tree, PatchInv, InStep
    <3>2. ListInv'
      BY <1>2, <3>1 DEF PatchInv, ListInv
    <3>3. CASE pc' = "failed"
      BY <1>2, <3>1, <3>2, <3>3 DEF PatchInv, InStep
    <3>4. CASE pc' = "call" /\ call' = call + 1
      <4>1. call \in 1..Len(Calls) /\ Done = Before(call + 1, 0)
        BY <1>2, <3>1, InCall
      <4>2. Done' = Done
        BY <3>4, <4>1 DEF Done, Position
      <4>3. (Fresh \/ Doomed)'
        BY <1>2, <3>1, <3>4, <4>2 DEF PatchInv, InStep, StepInv, Fresh, Doomed
      <4>4. call' \in 1..(Len(Calls) + 1)
        BY <3>4, <4>1, PatchesAssumption
      <4> QED
        BY <1>2, <3>1, <3>2, <3>4, <4>3, <4>4 DEF PatchInv, StepInv, InStep
    <3> QED
      BY <3>1, <3>3, <3>4
  <2>8. CASE Stamp
    <3>1. /\ pc = "call" /\ call = Len(Calls) + 1 /\ stamped' = TRUE /\ pc' = "idle"
          /\ UNCHANGED <<list, sources, short>> /\ (Fresh \/ Doomed)
      BY <1>2, <2>8, PatchesAssumption DEF Stamp, PatchInv, InStep, StepInv
    <3>2. Done = Wanted
      BY <3>1, BeforeEnds DEF Done, Position
    <3>3. ~Doomed
      BY <1>2, <3>2 DEF Doomed, PatchInv, ListInv
    <3>4. ListInv'
      BY <1>2, <3>1 DEF PatchInv, ListInv
    <3>5. list = Wanted /\ Delivered(sources, short, Wanted)
      BY <3>1, <3>2, <3>3, Zenon DEF Fresh
    <3> QED
      BY <1>2, <3>1, <3>4, <3>5 DEF PatchInv, InStep
  <2>9. CASE Kill
    <3>1. /\ pc' = "failed" /\ UNCHANGED <<list, stamped>> /\ ~stamped
          /\ pc # "apply" => sources' = sources
          /\ sources' \in {sources, Append(sources, Applied(Head(todo), "part"))}
      BY <1>2, <2>9 DEF Kill, PatchInv, InStep
    <3>2. list = <<>> => pc # "apply"
      <4>1. SUFFICES ASSUME list = <<>>, pc = "apply" PROVE FALSE
        OBVIOUS
      <4>2. todo # <<>> /\ Fresh
        BY <1>2, <4>1 DEF PatchInv, InStep, StepInv, Doomed
      <4>3. list = Append(Done, Head(todo)) /\ Done \in Seq(Patches) /\ Head(todo) \in Patches
        BY <1>2, <4>1, <4>2, InCall DEF Fresh
      <4>4. Append(Done, Head(todo)) # <<>>
        BY <4>3, NotEmpty, Zenon
      <4> QED
        BY <4>1, <4>3, <4>4, Zenon
    <3>3. ListInv'
      BY <1>2, <3>1, <3>2 DEF PatchInv, ListInv
    <3>4. sources' \in Seq(Outcomes)
      <4>1. CASE pc # "apply"
        BY <1>2, <3>1, <4>1 DEF PatchInv
      <4>2. CASE pc = "apply"
        <5>1. todo # <<>>
          BY <1>2, <4>2 DEF PatchInv, InStep, StepInv
        <5>2. Head(todo) \in Patches
          BY <1>2, <4>2, <5>1, InCall
        <5> QED
          BY <1>2, <3>1, <5>2, OutcomesGrow DEF PatchInv
      <4> QED
        BY <4>1, <4>2
    <3> QED
      BY <3>1, <3>3, <3>4 DEF PatchInv, InStep
  <2>10. CASE Dirclean
    <3>1. list' = <<>> /\ sources' = <<>> /\ stamped' = FALSE /\ pc' = "idle"
      BY <2>10 DEF Dirclean
    <3>2. DOMAIN <<>> = {} /\ <<>> \in Seq(Outcomes)
      OBVIOUS
    <3> QED
      BY <3>1, <3>2 DEF PatchInv, ListInv, InStep
  <2>11. CASE UNCHANGED vars
    BY <1>2, <2>11 DEF vars, tree, PatchInv, ListInv, StepInv, InStep, Fresh, Doomed, Done, Position
  <2> QED
    BY <1>2, <2>1, <2>2, <2>3, <2>4, <2>5, <2>6, <2>7, <2>8, <2>9, <2>10, <2>11 DEF Next, Step
<1> QED
  BY <1>1, <1>2, PTL DEF Spec

\* When the .stamp_patched is there, patch was given every patch of every call, once and in
\* order, no two of them have one name, and the sources have the whole of each that came
\* through the pipe whole.
THEOREM PatchedSources == Spec => []Patched
<1>1. PatchInv => Patched
  BY DEF PatchInv, ListInv, Patched
<1> QED
  BY <1>1, PatchesKept, PTL
================================================================================
