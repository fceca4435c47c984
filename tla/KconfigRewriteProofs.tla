--------------------------- MODULE KconfigRewriteProofs ---------------------------
(* The rewritings of conditions, for conditions of any depth, over any symbols     *)
(* and values: they keep the value, and an entry that goes into a submenu implies  *)
(* the symbol it goes under. A function on conditions is known by its equation at  *)
(* each condition, and what holds of a condition if it holds of its operands holds *)
(* of all; what calls itself on what it has made is known by the depth of the      *)
(* calls, and is right at any, the limit included.                                 *)
EXTENDS KconfigRewrite, TLAPS, SequenceTheorems, NaturalsInduction, WellFoundedInduction

--------------------------------------------------------------------------------
(* The conditions of any depth *)

AllConditions == UNION {NestedTo[n] : n \in Nat}
Syms == DOMAIN SymType

\* What holds of 0, and of the number after each of which it holds, holds of all.
LEMMA AllNumbers ==
    ASSUME NEW S, 0 \in S, \A n \in Nat : n \in S => n + 1 \in S
    PROVE  Nat \subseteq S
  <1>. DEFINE R == { ab \in Nat \X Nat : ab[1] < ab[2] }
  <1>1. SUFFICES ASSUME Nat \ S # {} PROVE FALSE
    OBVIOUS
  <1>2. IsWellFoundedOn(R, Nat)
    BY NatLessThanWellFounded DEF OpToRel
  <1>3. PICK x \in Nat \ S : \A y \in Nat \ S : <<y, x>> \notin R
    BY <1>1, <1>2, WFMin
  <1>4. x # 0 /\ x - 1 \in Nat /\ <<x - 1, x>> \in R
    BY <1>3
  <1>5. x - 1 \in S
    BY <1>3, <1>4
  <1>. QED
    BY <1>3, <1>4, <1>5

\* What nests to a depth is made of what nests to the depth before.
LEMMA NestedToIs ==
    /\ NestedTo[0] = Plain
    /\ \A n \in Nat : NestedTo[n + 1] = Nested(NestedTo[n])
  <1>. DEFINE Def(c, n) == Nested(c)
  <1>1. NatInductiveDefHypothesis(NestedTo, Plain, Def)
    BY DEF NatInductiveDefHypothesis, NestedTo
  <1>2. NatInductiveDefConclusion(NestedTo, Plain, Def)
    BY <1>1, NatInductiveDef
  <1>3. NestedTo = [n \in Nat |-> IF n = 0 THEN Plain ELSE Def(NestedTo[n - 1], n)]
    BY <1>2 DEF NatInductiveDefConclusion
  <1>. HIDE DEF Def
  <1>4. NestedTo[0] = Plain /\ \A n \in Nat : NestedTo[n + 1] = Def(NestedTo[n], n + 1)
    BY <1>3
  <1>. QED
    BY <1>4 DEF Def

\* What is deeper has what is less deep.
LEMMA NestedToGrows ==
    ASSUME NEW m \in Nat, NEW n \in Nat
    PROVE  NestedTo[m] \subseteq NestedTo[m + n]
  <1>. DEFINE S == {k \in Nat : NestedTo[k] \subseteq NestedTo[k + 1]}
              T == {k \in Nat : NestedTo[m] \subseteq NestedTo[m + k]}
  <1>1. 0 \in S
    BY NestedToIs DEF Nested
  <1>2. ASSUME NEW k \in Nat, k \in S PROVE k + 1 \in S
    <2>1. NestedTo[k] \subseteq NestedTo[k + 1]
      BY <1>2
    <2>2. Nested(NestedTo[k]) \subseteq Nested(NestedTo[k + 1])
      BY <2>1 DEF Nested
    <2>. QED
      BY <2>2, NestedToIs
  <1>3. Nat \subseteq S
    BY <1>1, <1>2, AllNumbers, Zenon
  <1>. HIDE DEF S
  <1>4. \A k \in Nat : NestedTo[k] \subseteq NestedTo[k + 1]
    BY <1>3 DEF S
  <1>5. 0 \in T
    OBVIOUS
  <1>6. ASSUME NEW k \in Nat, k \in T PROVE k + 1 \in T
    <2>1. NestedTo[m + k] \subseteq NestedTo[m + k + 1] /\ m + k + 1 = m + (k + 1)
      BY <1>4
    <2>. QED
      BY <1>6, <2>1
  <1>7. Nat \subseteq T
    BY <1>5, <1>6, AllNumbers, Zenon
  <1>. QED
    BY <1>7

\* The parts of a condition.
Parts(e) == CASE e.t = "NOT" -> {e.l} [] e.t \in {"AND", "OR"} -> {e.l, e.r} [] OTHER -> {}
Within == {p \in AllConditions \X AllConditions : p[1] \in Parts(p[2])}

\* A symbol, a comparison and a missing condition have no operands that are conditions.
LEMMA PlainParts == ASSUME NEW e \in Plain PROVE Parts(e) = {}
  BY DEF Parts, Plain, Null, Relations

\* The operands of what is made of E are of E.
LEMMA NestedParts == ASSUME NEW E, NEW e \in Nested(E) PROVE Parts(e) \subseteq E
  BY PlainParts DEF Parts, Nested

\* The operands nest to one level less.
LEMMA PartsAreSmaller ==
    ASSUME NEW n \in Nat, NEW e \in NestedTo[n]
    PROVE  \A x \in Parts(e) : n # 0 /\ x \in NestedTo[n - 1]
  <1>1. CASE n = 0
    BY <1>1, PlainParts, NestedToIs
  <1>2. CASE n # 0
    <2>1. n - 1 \in Nat /\ NestedTo[n] = Nested(NestedTo[n - 1])
      BY <1>2, NestedToIs
    <2>. QED
      BY <2>1, <1>2, NestedParts
  <1>. QED
    BY <1>1, <1>2

\* The operands of a condition are conditions.
LEMMA PartsAreConditions ==
    ASSUME NEW e \in AllConditions
    PROVE  Parts(e) \subseteq AllConditions
  <1>1. PICK n \in Nat : e \in NestedTo[n]
    BY DEF AllConditions
  <1>2. \A x \in Parts(e) : n - 1 \in Nat /\ x \in NestedTo[n - 1]
    BY <1>1, PartsAreSmaller
  <1>. QED
    BY <1>2 DEF AllConditions

\* Going from a condition to an operand of it comes to an end.
LEMMA WithinIsWellFounded == IsWellFoundedOn(Within, AllConditions)
  <1>1. SUFFICES ASSUME NEW f \in [Nat -> AllConditions], \A n \in Nat : <<f[n + 1], f[n]>> \in Within
                 PROVE  FALSE
    BY Zenon DEF IsWellFoundedOn
  <1>. DEFINE S == {n \in Nat : \A k \in Nat : f[k] \notin NestedTo[n]}
  <1>2. \A k \in Nat : f[k + 1] \in Parts(f[k])
    BY <1>1 DEF Within
  <1>3. 0 \in S
    BY <1>2, PartsAreSmaller
  <1>4. \A n \in Nat : n \in S => n + 1 \in S
    BY <1>2, PartsAreSmaller
  <1>5. Nat \subseteq S
    BY <1>3, <1>4, AllNumbers, Zenon
  <1>6. f[0] \in AllConditions
    BY <1>1
  <1>. QED
    BY <1>5, <1>6 DEF AllConditions

\* A function on conditions may use its values of their parts.
LEMMA LessThanParts ==
    ASSUME NEW g, NEW h, NEW e \in AllConditions,
           \A x \in SetLessThan(e, Within, AllConditions) : g[x] = h[x]
    PROVE  \A x \in Parts(e) : g[x] = h[x]
  BY PartsAreConditions DEF SetLessThan, Within

\* What holds of a condition if it holds of its parts holds of all.
LEMMA OfEveryCondition ==
    ASSUME NEW S, \A e \in AllConditions : Parts(e) \subseteq S => e \in S
    PROVE  AllConditions \subseteq S
  <1>1. SUFFICES ASSUME AllConditions \ S # {} PROVE FALSE
    OBVIOUS
  <1>2. PICK e \in AllConditions \ S : \A x \in AllConditions \ S : <<x, e>> \notin Within
    BY <1>1, WithinIsWellFounded, WFMin
  <1>3. Parts(e) \subseteq S
    BY <1>2, PartsAreConditions DEF Within
  <1>. QED
    BY <1>2, <1>3

\* How a condition is built, and that what is built of conditions is one.
LEMMA Built ==
    /\ Null \in AllConditions
    /\ \A s \in Syms : Sym(s) \in AllConditions
    /\ \A t \in Relations, a \in Syms, b \in Syms : Comp(t, a, b) \in AllConditions
    /\ \A e \in AllConditions : Not(e) \in AllConditions
    /\ \A t \in {"AND", "OR"}, a \in AllConditions, b \in AllConditions : Two(t, a, b) \in AllConditions
  <1>1. Plain \subseteq AllConditions
    BY NestedToIs DEF AllConditions
  <1>2. /\ Null \in Plain
        /\ \A s \in Syms : Sym(s) \in Plain
        /\ \A t \in Relations, a \in Syms, b \in Syms : Comp(t, a, b) \in Plain
    BY DEF Plain, Sym, Comp, Syms
  <1>3. ASSUME NEW e \in AllConditions PROVE Not(e) \in AllConditions
    <2>1. PICK n \in Nat : e \in NestedTo[n]
      BY DEF AllConditions
    <2>2. Not(e) \in NestedTo[n + 1] /\ n + 1 \in Nat
      BY <2>1, NestedToIs DEF Nested, Not
    <2>. QED
      BY <2>2 DEF AllConditions
  <1>4. ASSUME NEW t \in {"AND", "OR"}, NEW a \in AllConditions, NEW b \in AllConditions
        PROVE  Two(t, a, b) \in AllConditions
    <2>1. PICK m \in Nat, n \in Nat : a \in NestedTo[m] /\ b \in NestedTo[n]
      BY DEF AllConditions
    <2>2. a \in NestedTo[m + n] /\ b \in NestedTo[m + n] /\ m + n \in Nat
      <3>1. NestedTo[m] \subseteq NestedTo[m + n] /\ NestedTo[n] \subseteq NestedTo[n + m]
        BY NestedToGrows
      <3>. QED
        BY <3>1, <2>1
    <2>3. Two(t, a, b) \in NestedTo[m + n + 1] /\ m + n + 1 \in Nat
      <3>1. Two(t, a, b) \in Nested(NestedTo[m + n])
        BY <2>2 DEF Nested, Two
      <3>. QED
        BY <3>1, <2>2, NestedToIs
    <2>. QED
      BY <2>3 DEF AllConditions
  <1>. QED
    BY <1>1, <1>2, <1>3, <1>4

\* A condition is one of these.
LEMMA Shapes ==
    ASSUME NEW e \in AllConditions
    PROVE  \/ e = Null
           \/ \E s \in Syms : e = Sym(s)
           \/ \E t \in Relations, a \in Syms, b \in Syms : e = Comp(t, a, b)
           \/ \E l \in AllConditions : e = Not(l)
           \/ \E t \in {"AND", "OR"}, l \in AllConditions, r \in AllConditions : e = Two(t, l, r)
  <1>1. PICK n \in Nat : e \in NestedTo[n]
    BY DEF AllConditions
  <1>2. CASE e \in Plain
    BY <1>2 DEF Plain, Sym, Comp, Syms
  <1>3. CASE e \notin Plain
    <2>1. n # 0 /\ n - 1 \in Nat
      BY <1>1, <1>3, NestedToIs
    <2>2. e \in Nested(NestedTo[n - 1])
      BY <1>1, <2>1, NestedToIs
    <2>3. NestedTo[n - 1] \subseteq AllConditions
      BY <2>1 DEF AllConditions
    <2>. QED
      BY <1>3, <2>2, <2>3 DEF Nested, Not, Two
  <1>. QED
    BY <1>2, <1>3

\* The fields of what is built.
LEMMA Fields ==
    /\ Null.t = "NULL"
    /\ \A s : Sym(s).t = "SYMBOL" /\ Sym(s).s = s
    /\ \A t, a, b : Comp(t, a, b).t = t /\ Comp(t, a, b).s = a /\ Comp(t, a, b).c = b
    /\ \A l : Not(l).t = "NOT" /\ Not(l).l = l
    /\ \A t, l, r : Two(t, l, r).t = t /\ Two(t, l, r).l = l /\ Two(t, l, r).r = r
  BY DEF Null, Sym, Comp, Not, Two

--------------------------------------------------------------------------------
(* What the functions on conditions give *)

\* The recursion of a function goes to the parts of a condition.
LEMMA ValuesUnderIs ==
    ASSUME Conditions = AllConditions, NEW v
    PROVE  \A e \in AllConditions : ValuesUnder(v)[e] =
             CASE e.t = "NOT" -> 2 - ValuesUnder(v)[e.l]
               [] e.t = "NULL" -> yes
               [] e.t = "SYMBOL" -> v[e.s].tri
               [] e.t = "AND" -> Lesser(ValuesUnder(v)[e.l], ValuesUnder(v)[e.r])
               [] e.t = "OR" -> Greater(ValuesUnder(v)[e.l], ValuesUnder(v)[e.r])
               [] e.t \in Relations -> IF Holds(e.t, CompareSyms(v, e.s, e.c)) THEN yes ELSE no
  <1>. DEFINE Def(f, e) ==
             CASE e.t = "NOT" -> 2 - f[e.l]
               [] e.t = "NULL" -> yes
               [] e.t = "SYMBOL" -> v[e.s].tri
               [] e.t = "AND" -> Lesser(f[e.l], f[e.r])
               [] e.t = "OR" -> Greater(f[e.l], f[e.r])
               [] e.t \in Relations -> IF Holds(e.t, CompareSyms(v, e.s, e.c)) THEN yes ELSE no
  <1>1. OpDefinesFcn(ValuesUnder(v), AllConditions, Def)
    BY DEF OpDefinesFcn, ValuesUnder
  <1>2. WFDefOn(Within, AllConditions, Def)
    <2>1. SUFFICES ASSUME NEW g, NEW h, NEW e \in AllConditions,
                          \A x \in SetLessThan(e, Within, AllConditions) : g[x] = h[x]
                   PROVE  Def(g, e) = Def(h, e)
      BY Zenon DEF WFDefOn
    <2>2. \A x \in Parts(e) : g[x] = h[x]
      BY <2>1, LessThanParts
    <2>3. CASE e.t = "NOT"
      <3>1. g[e.l] = h[e.l]
        BY <2>2, <2>3 DEF Parts
      <3>. QED
        BY <2>3, <3>1
    <2>4. CASE e.t \in {"AND", "OR"}
      <3>1. g[e.l] = h[e.l] /\ g[e.r] = h[e.r]
        BY <2>2, <2>4 DEF Parts
      <3>. QED
        BY <2>4, <3>1
    <2>5. CASE e.t \notin {"NOT", "AND", "OR"}
      <3>1. e.t \in {"NULL", "SYMBOL"} \cup Relations
        BY <2>5, Shapes, Fields
      <3>. QED
        BY <2>5, <3>1 DEF Relations
    <2>. QED
      BY <2>3, <2>4, <2>5
  <1>3. WFInductiveDefines(ValuesUnder(v), AllConditions, Def)
    BY <1>1, <1>2, WithinIsWellFounded, WFInductiveDef
  <1>4. ValuesUnder(v) = [e \in AllConditions |-> Def(ValuesUnder(v), e)]
    BY <1>3 DEF WFInductiveDefines
  <1>. HIDE DEF Def
  <1>5. \A e \in AllConditions : ValuesUnder(v)[e] = Def(ValuesUnder(v), e)
    BY <1>4
  <1>. QED
    BY <1>5 DEF Def

\* The operands of a chain, of an operand at a time.
LEMMA LeavesByIs ==
    ASSUME Conditions = AllConditions, NEW type \in {"AND", "OR"}
    PROVE  \A e \in AllConditions : LeavesBy(type)[e] =
             IF e.t = type THEN LeavesBy(type)[e.l] \o LeavesBy(type)[e.r] ELSE <<e>>
  <1>. DEFINE Def(f, e) == IF e.t = type THEN f[e.l] \o f[e.r] ELSE <<e>>
  <1>1. OpDefinesFcn(LeavesBy(type), AllConditions, Def)
    BY DEF OpDefinesFcn, LeavesBy
  <1>2. WFDefOn(Within, AllConditions, Def)
    <2>1. SUFFICES ASSUME NEW g, NEW h, NEW e \in AllConditions,
                          \A x \in SetLessThan(e, Within, AllConditions) : g[x] = h[x]
                   PROVE  Def(g, e) = Def(h, e)
      BY Zenon DEF WFDefOn
    <2>2. \A x \in Parts(e) : g[x] = h[x]
      BY <2>1, LessThanParts
    <2>. QED
      BY <2>2 DEF Parts
  <1>3. WFInductiveDefines(LeavesBy(type), AllConditions, Def)
    BY <1>1, <1>2, WithinIsWellFounded, WFInductiveDef
  <1>4. LeavesBy(type) = [e \in AllConditions |-> Def(LeavesBy(type), e)]
    BY <1>3 DEF WFInductiveDefines
  <1>. HIDE DEF Def
  <1>5. \A e \in AllConditions : LeavesBy(type)[e] = Def(LeavesBy(type), e)
    BY <1>4
  <1>. QED
    BY <1>5 DEF Def

\* A chain with its operands replaced, of an operand at a time.
LEMMA ReplacedByIs ==
    ASSUME Conditions = AllConditions, NEW type \in {"AND", "OR"}
    PROVE  \A e \in AllConditions : \A ls \in Seq(AllConditions) : ReplacedBy(type)[e][ls] =
             IF e.t # type THEN ls[1]
             ELSE LET n == Len(Leaves(type, e.l))
                  IN  Two(type, ReplacedBy(type)[e.l][SubSeq(ls, 1, n)],
                                ReplacedBy(type)[e.r][SubSeq(ls, n + 1, Len(ls))])
  <1>. DEFINE Def(f, e) ==
         [ls \in Seq(AllConditions) |->
            IF e.t # type THEN ls[1]
            ELSE LET n == Len(Leaves(type, e.l))
                 IN  Two(type, f[e.l][SubSeq(ls, 1, n)], f[e.r][SubSeq(ls, n + 1, Len(ls))])]
  <1>1. OpDefinesFcn(ReplacedBy(type), AllConditions, Def)
    BY DEF OpDefinesFcn, ReplacedBy
  <1>2. WFDefOn(Within, AllConditions, Def)
    <2>1. SUFFICES ASSUME NEW g, NEW h, NEW e \in AllConditions,
                          \A x \in SetLessThan(e, Within, AllConditions) : g[x] = h[x]
                   PROVE  Def(g, e) = Def(h, e)
      BY Zenon DEF WFDefOn
    <2>2. \A x \in Parts(e) : g[x] = h[x]
      BY <2>1, LessThanParts
    <2>. QED
      BY <2>2 DEF Parts
  <1>3. WFInductiveDefines(ReplacedBy(type), AllConditions, Def)
    BY <1>1, <1>2, WithinIsWellFounded, WFInductiveDef
  <1>4. ReplacedBy(type) = [e \in AllConditions |-> Def(ReplacedBy(type), e)]
    BY <1>3 DEF WFInductiveDefines
  <1>. HIDE DEF Def
  <1>5. \A e \in AllConditions : ReplacedBy(type)[e] = Def(ReplacedBy(type), e)
    BY <1>4
  <1>. QED
    BY <1>5 DEF Def

\* expr_eliminate_yn, of an operand at a time.
LEMMA WithoutYnIs ==
    ASSUME Conditions = AllConditions
    PROVE  \A e \in AllConditions : WithoutYn[e] =
             IF e.t \notin {"AND", "OR"} THEN e
             ELSE LET l == WithoutYn[e.l]
                      r == WithoutYn[e.r]
                      zero == Sym(IF e.t = "AND" THEN "n" ELSE "y")
                  IN  CASE l = zero \/ (r = zero /\ l # Neutral(e.t)) -> zero
                        [] l = Neutral(e.t) -> r
                        [] r = Neutral(e.t) /\ l # zero -> l
                        [] OTHER -> Two(e.t, l, r)
  <1>. DEFINE Def(f, e) ==
             IF e.t \notin {"AND", "OR"} THEN e
             ELSE LET l == f[e.l]
                      r == f[e.r]
                      zero == Sym(IF e.t = "AND" THEN "n" ELSE "y")
                  IN  CASE l = zero \/ (r = zero /\ l # Neutral(e.t)) -> zero
                        [] l = Neutral(e.t) -> r
                        [] r = Neutral(e.t) /\ l # zero -> l
                        [] OTHER -> Two(e.t, l, r)
  <1>1. OpDefinesFcn(WithoutYn, AllConditions, Def)
    BY DEF OpDefinesFcn, WithoutYn
  <1>2. WFDefOn(Within, AllConditions, Def)
    <2>1. SUFFICES ASSUME NEW g, NEW h, NEW e \in AllConditions,
                          \A x \in SetLessThan(e, Within, AllConditions) : g[x] = h[x]
                   PROVE  Def(g, e) = Def(h, e)
      BY Zenon DEF WFDefOn
    <2>2. \A x \in Parts(e) : g[x] = h[x]
      BY <2>1, LessThanParts
    <2>. QED
      BY <2>2 DEF Parts
  <1>3. WFInductiveDefines(WithoutYn, AllConditions, Def)
    BY <1>1, <1>2, WithinIsWellFounded, WFInductiveDef
  <1>4. WithoutYn = [e \in AllConditions |-> Def(WithoutYn, e)]
    BY <1>3 DEF WFInductiveDefines
  <1>. HIDE DEF Def
  <1>5. \A e \in AllConditions : WithoutYn[e] = Def(WithoutYn, e)
    BY <1>4
  <1>. QED
    BY <1>5 DEF Def

\* expr_depends_symbol, of an operand at a time.
LEMMA DependingOnIs ==
    ASSUME Conditions = AllConditions, NEW s
    PROVE  \A e \in AllConditions : DependingOn(s)[e] =
             CASE e.t = "AND" -> DependingOn(s)[e.l] \/ DependingOn(s)[e.r]
               [] e.t = "SYMBOL" -> e.s = s
               [] e.t = "EQUAL" -> e.s = s /\ e.c \in {"y", "m"}
               [] e.t = "UNEQUAL" -> e.s = s /\ e.c = "n"
               [] OTHER -> FALSE
  <1>. DEFINE Def(f, e) ==
             CASE e.t = "AND" -> f[e.l] \/ f[e.r]
               [] e.t = "SYMBOL" -> e.s = s
               [] e.t = "EQUAL" -> e.s = s /\ e.c \in {"y", "m"}
               [] e.t = "UNEQUAL" -> e.s = s /\ e.c = "n"
               [] OTHER -> FALSE
  <1>1. OpDefinesFcn(DependingOn(s), AllConditions, Def)
    BY DEF OpDefinesFcn, DependingOn
  <1>2. WFDefOn(Within, AllConditions, Def)
    <2>1. SUFFICES ASSUME NEW g, NEW h, NEW e \in AllConditions,
                          \A x \in SetLessThan(e, Within, AllConditions) : g[x] = h[x]
                   PROVE  Def(g, e) = Def(h, e)
      BY Zenon DEF WFDefOn
    <2>2. \A x \in Parts(e) : g[x] = h[x]
      BY <2>1, LessThanParts
    <2>. QED
      BY <2>2 DEF Parts
  <1>3. WFInductiveDefines(DependingOn(s), AllConditions, Def)
    BY <1>1, <1>2, WithinIsWellFounded, WFInductiveDef
  <1>4. DependingOn(s) = [e \in AllConditions |-> Def(DependingOn(s), e)]
    BY <1>3 DEF WFInductiveDefines
  <1>. HIDE DEF Def
  <1>5. \A e \in AllConditions : DependingOn(s)[e] = Def(DependingOn(s), e)
    BY <1>4
  <1>. QED
    BY <1>5 DEF Def

\* The symbols that are not compared, of an operand at a time.
LEMMA AloneIs ==
    ASSUME Conditions = AllConditions
    PROVE  \A e \in AllConditions : Alone[e] =
             CASE e.t = "NOT" -> Alone[e.l]
               [] e.t = "SYMBOL" -> {e.s}
               [] e.t \in {"AND", "OR"} -> Alone[e.l] \cup Alone[e.r]
               [] OTHER -> {}
  <1>. DEFINE Def(f, e) ==
             CASE e.t = "NOT" -> f[e.l]
               [] e.t = "SYMBOL" -> {e.s}
               [] e.t \in {"AND", "OR"} -> f[e.l] \cup f[e.r]
               [] OTHER -> {}
  <1>1. OpDefinesFcn(Alone, AllConditions, Def)
    BY DEF OpDefinesFcn, Alone
  <1>2. WFDefOn(Within, AllConditions, Def)
    <2>1. SUFFICES ASSUME NEW g, NEW h, NEW e \in AllConditions,
                          \A x \in SetLessThan(e, Within, AllConditions) : g[x] = h[x]
                   PROVE  Def(g, e) = Def(h, e)
      BY Zenon DEF WFDefOn
    <2>2. \A x \in Parts(e) : g[x] = h[x]
      BY <2>1, LessThanParts
    <2>. QED
      BY <2>2 DEF Parts
  <1>3. WFInductiveDefines(Alone, AllConditions, Def)
    BY <1>1, <1>2, WithinIsWellFounded, WFInductiveDef
  <1>4. Alone = [e \in AllConditions |-> Def(Alone, e)]
    BY <1>3 DEF WFInductiveDefines
  <1>. HIDE DEF Def
  <1>5. \A e \in AllConditions : Alone[e] = Def(Alone, e)
    BY <1>4
  <1>. QED
    BY <1>5 DEF Def

\* The comparison with n, of an operand at a time.
LEMMA ComparedWithIs ==
    ASSUME Conditions = AllConditions
    PROVE  \A e \in AllConditions : \A type \in {"EQUAL", "UNEQUAL"} : ComparedWith("n")[e][type] =
             LET compare == ComparedWith("n")
                 negate(x) == IF type = "UNEQUAL" THEN Not(x) ELSE x
                 parts(t) == Two(t, compare[e.l]["EQUAL"], compare[e.r]["EQUAL"])
             IN  CASE e.t = "NULL" -> negate(Sym("n"))
                   [] e.t = "AND" -> negate(parts("OR"))
                   [] e.t = "OR" -> negate(parts("AND"))
                   [] e.t = "NOT" -> compare[e.l][IF type = "EQUAL" THEN "UNEQUAL" ELSE "EQUAL"]
                   [] e.t \in Relations -> IF type = "EQUAL" THEN Not(e) ELSE e
                   [] e.t = "SYMBOL" -> Comp(type, e.s, "n")
  <1>. DEFINE Def(f, e) ==
          [type \in {"EQUAL", "UNEQUAL"} |->
             LET negate(x) == IF type = "UNEQUAL" THEN Not(x) ELSE x
                 parts(t) == Two(t, f[e.l]["EQUAL"], f[e.r]["EQUAL"])
             IN  CASE e.t = "NULL" -> negate(Sym("n"))
                   [] e.t = "AND" -> negate(CASE "n" = "y" -> parts("AND") [] "n" = "n" -> parts("OR") [] OTHER -> e)
                   [] e.t = "OR" -> negate(CASE "n" = "y" -> parts("OR") [] "n" = "n" -> parts("AND") [] OTHER -> e)
                   [] e.t = "NOT" -> f[e.l][IF type = "EQUAL" THEN "UNEQUAL" ELSE "EQUAL"]
                   [] e.t \in Relations ->
                        IF "n" = "y" THEN negate(e)
                        ELSE IF "n" = "m" THEN Sym(IF type = "EQUAL" THEN "n" ELSE "y")
                        ELSE IF type = "EQUAL" THEN Not(e) ELSE e
                   [] e.t = "SYMBOL" -> Comp(type, e.s, "n")]
  <1>1. OpDefinesFcn(ComparedWith("n"), AllConditions, Def)
    BY DEF OpDefinesFcn, ComparedWith
  <1>2. WFDefOn(Within, AllConditions, Def)
    <2>1. SUFFICES ASSUME NEW g, NEW h, NEW e \in AllConditions,
                          \A x \in SetLessThan(e, Within, AllConditions) : g[x] = h[x]
                   PROVE  Def(g, e) = Def(h, e)
      BY Zenon DEF WFDefOn
    <2>2. \A x \in Parts(e) : g[x] = h[x]
      BY <2>1, LessThanParts
    <2>. QED
      BY <2>2 DEF Parts
  <1>3. WFInductiveDefines(ComparedWith("n"), AllConditions, Def)
    BY <1>1, <1>2, WithinIsWellFounded, WFInductiveDef
  <1>4. ComparedWith("n") = [e \in AllConditions |-> Def(ComparedWith("n"), e)]
    BY <1>3 DEF WFInductiveDefines
  <1>. HIDE DEF Def
  <1>5. \A e \in AllConditions : ComparedWith("n")[e] = Def(ComparedWith("n"), e)
    BY <1>4
  <1>6. SUFFICES ASSUME NEW e \in AllConditions, NEW type \in {"EQUAL", "UNEQUAL"}
                 PROVE  ComparedWith("n")[e][type] = Def(ComparedWith("n"), e)[type]
    BY ZenonT(40) DEF Def
  <1>. QED
    BY <1>5

--------------------------------------------------------------------------------
(* The values of conditions, and the symbols that are not compared in them *)

\* The conditions in which only the symbols X are not compared; they are kept when
\* these are the ones that the rewritings make out of comparisons.
Over(X) == {e \in AllConditions : Alone[e] \subseteq X}
Keeping(X) == X \subseteq Syms /\ {"y", "n"} \subseteq X /\ {s \in Syms : SymType[s] = "boolean"} \subseteq X

\* The symbols that are not compared, of what is built.
LEMMA AloneOf ==
    ASSUME Conditions = AllConditions
    PROVE  /\ Alone[Null] = {}
           /\ \A s \in Syms : Alone[Sym(s)] = {s}
           /\ \A t \in Relations, a \in Syms, b \in Syms : Alone[Comp(t, a, b)] = {}
           /\ \A e \in AllConditions : Alone[Not(e)] = Alone[e]
           /\ \A t \in {"AND", "OR"}, a \in AllConditions, b \in AllConditions :
                 Alone[Two(t, a, b)] = Alone[a] \cup Alone[b]
  <1>1. Alone[Null] = {}
    <2>1. Null \in AllConditions /\ Null.t = "NULL"
      BY Built, Fields
    <2>. QED
      BY <2>1, AloneIs
  <1>2. ASSUME NEW s \in Syms PROVE Alone[Sym(s)] = {s}
    <2>1. Sym(s) \in AllConditions /\ Sym(s).t = "SYMBOL" /\ Sym(s).s = s
      BY Built, Fields
    <2>. QED
      BY <2>1, AloneIs
  <1>3. ASSUME NEW t \in Relations, NEW a \in Syms, NEW b \in Syms PROVE Alone[Comp(t, a, b)] = {}
    <2>1. Comp(t, a, b) \in AllConditions /\ Comp(t, a, b).t = t
      BY Built, Fields
    <2>. QED
      BY <2>1, AloneIs DEF Relations
  <1>4. ASSUME NEW e \in AllConditions PROVE Alone[Not(e)] = Alone[e]
    <2>1. Not(e) \in AllConditions /\ Not(e).t = "NOT" /\ Not(e).l = e
      BY Built, Fields
    <2>. QED
      BY <2>1, AloneIs
  <1>5. ASSUME NEW t \in {"AND", "OR"}, NEW a \in AllConditions, NEW b \in AllConditions
        PROVE  Alone[Two(t, a, b)] = Alone[a] \cup Alone[b]
    <2>1. Two(t, a, b) \in AllConditions /\ Two(t, a, b).t = t /\ Two(t, a, b).l = a /\ Two(t, a, b).r = b
      BY Built, Fields
    <2>. QED
      BY <2>1, AloneIs
  <1>. QED
    BY <1>1, <1>2, <1>3, <1>4, <1>5

\* A condition is over X if its operands are.
LEMMA OverIs ==
    ASSUME Conditions = AllConditions, NEW X
    PROVE  /\ Null \in Over(X)
           /\ \A s \in Syms : Sym(s) \in Over(X) <=> s \in X
           /\ \A t \in Relations, a \in Syms, b \in Syms : Comp(t, a, b) \in Over(X)
           /\ \A e \in AllConditions : Not(e) \in Over(X) <=> e \in Over(X)
           /\ \A t \in {"AND", "OR"}, a \in AllConditions, b \in AllConditions :
                 Two(t, a, b) \in Over(X) <=> a \in Over(X) /\ b \in Over(X)
  <1>1. Null \in Over(X)
    BY AloneOf, Built DEF Over
  <1>2. ASSUME NEW s \in Syms PROVE Sym(s) \in Over(X) <=> s \in X
    BY AloneOf, Built DEF Over
  <1>3. ASSUME NEW t \in Relations, NEW a \in Syms, NEW b \in Syms PROVE Comp(t, a, b) \in Over(X)
    <2>1. Comp(t, a, b) \in AllConditions /\ Alone[Comp(t, a, b)] = {}
      BY AloneOf, Built
    <2>. QED
      BY <2>1 DEF Over
  <1>4. ASSUME NEW e \in AllConditions PROVE Not(e) \in Over(X) <=> e \in Over(X)
    <2>1. Not(e) \in AllConditions /\ Alone[Not(e)] = Alone[e]
      BY AloneOf, Built
    <2>. QED
      BY <2>1 DEF Over
  <1>5. ASSUME NEW t \in {"AND", "OR"}, NEW a \in AllConditions, NEW b \in AllConditions
        PROVE  Two(t, a, b) \in Over(X) <=> a \in Over(X) /\ b \in Over(X)
    <2>1. Two(t, a, b) \in AllConditions
      BY Built
    <2>2. Alone[Two(t, a, b)] = Alone[a] \cup Alone[b]
      BY AloneOf
    <2>. QED
      BY <2>1, <2>2 DEF Over
  <1>. QED
    BY <1>1, <1>2, <1>3, <1>4, <1>5

\* Every condition is over all the symbols.
LEMMA AllOver ==
    ASSUME Conditions = AllConditions
    PROVE  Over(Syms) = AllConditions
  <1>1. ASSUME NEW e \in AllConditions, Parts(e) \subseteq Over(Syms) PROVE e \in Over(Syms)
    <2>1. ASSUME NEW l \in AllConditions, e = Not(l) PROVE e \in Over(Syms)
      <3>1. l \in Over(Syms)
        BY <1>1, <2>1, Fields DEF Parts
      <3>. QED
        BY <2>1, <3>1, OverIs
    <2>2. ASSUME NEW t \in {"AND", "OR"}, NEW l \in AllConditions, NEW r \in AllConditions, e = Two(t, l, r)
          PROVE  e \in Over(Syms)
      <3>1. l \in Over(Syms) /\ r \in Over(Syms)
        BY <1>1, <2>2, Fields DEF Parts
      <3>. QED
        BY <2>2, <3>1, OverIs
    <2>. QED
      BY <2>1, <2>2, Shapes, OverIs
  <1>2. AllConditions \subseteq Over(Syms)
    BY <1>1, OfEveryCondition
  <1>. QED
    BY <1>2 DEF Over

\* The value of what is built.
LEMMA ValueIs ==
    ASSUME Conditions = AllConditions, NEW v
    PROVE  /\ Value(Null, v) = yes
           /\ \A s \in Syms : Value(Sym(s), v) = v[s].tri
           /\ \A t \in Relations, a \in Syms, b \in Syms :
                 Value(Comp(t, a, b), v) = IF Holds(t, CompareSyms(v, a, b)) THEN yes ELSE no
           /\ \A e \in AllConditions : Value(Not(e), v) = 2 - Value(e, v)
           /\ \A a \in AllConditions, b \in AllConditions :
                 /\ Value(Two("AND", a, b), v) = Lesser(Value(a, v), Value(b, v))
                 /\ Value(Two("OR", a, b), v) = Greater(Value(a, v), Value(b, v))
  <1>0. \A e \in AllConditions : Value(e, v) = ValuesUnder(v)[e]
    BY DEF Value, expr_calc_value
  <1>1. Value(Null, v) = yes
    <2>1. Null \in AllConditions /\ Null.t = "NULL"
      BY Built, Fields
    <2>. QED
      BY <1>0, <2>1, ValuesUnderIs DEF Relations
  <1>2. ASSUME NEW s \in Syms PROVE Value(Sym(s), v) = v[s].tri
    <2>1. Sym(s) \in AllConditions /\ Sym(s).t = "SYMBOL" /\ Sym(s).s = s
      BY Built, Fields
    <2>. QED
      BY <1>0, <2>1, ValuesUnderIs DEF Relations
  <1>3. ASSUME NEW t \in Relations, NEW a \in Syms, NEW b \in Syms
        PROVE  Value(Comp(t, a, b), v) = IF Holds(t, CompareSyms(v, a, b)) THEN yes ELSE no
    <2>1. /\ Comp(t, a, b) \in AllConditions
          /\ Comp(t, a, b).t = t /\ Comp(t, a, b).s = a /\ Comp(t, a, b).c = b
      BY Built, Fields
    <2>. QED
      BY <1>0, <2>1, ValuesUnderIs DEF Relations
  <1>4. ASSUME NEW e \in AllConditions PROVE Value(Not(e), v) = 2 - Value(e, v)
    <2>1. Not(e) \in AllConditions /\ Not(e).t = "NOT" /\ Not(e).l = e
      BY Built, Fields
    <2>. QED
      BY <1>0, <2>1, ValuesUnderIs DEF Relations
  <1>5. ASSUME NEW a \in AllConditions, NEW b \in AllConditions
        PROVE  /\ Value(Two("AND", a, b), v) = Lesser(Value(a, v), Value(b, v))
               /\ Value(Two("OR", a, b), v) = Greater(Value(a, v), Value(b, v))
    <2>1. \A t \in {"AND", "OR"} : /\ Two(t, a, b) \in AllConditions
                                  /\ Two(t, a, b).t = t /\ Two(t, a, b).l = a /\ Two(t, a, b).r = b
      BY Built, Fields
    <2>2. Value(Two("AND", a, b), v) = Lesser(Value(a, v), Value(b, v))
      BY <1>0, <2>1, ValuesUnderIs DEF Relations
    <2>3. Value(Two("OR", a, b), v) = Greater(Value(a, v), Value(b, v))
      BY <1>0, <2>1, ValuesUnderIs DEF Relations
    <2>. QED
      BY <2>2, <2>3
  <1>. QED
    BY <1>1, <1>2, <1>3, <1>4, <1>5

\* A value is n, m or y.
LEMMA ValueType ==
    ASSUME Conditions = AllConditions, NEW v \in Valuations
    PROVE  \A e \in AllConditions : Value(e, v) \in tristate
  <1>. DEFINE S == {e \in AllConditions : Value(e, v) \in tristate}
  <1>1. ASSUME NEW e \in AllConditions, Parts(e) \subseteq S PROVE e \in S
    <2>1. CASE e = Null
      BY <2>1, ValueIs DEF tristate, yes
    <2>2. ASSUME NEW s \in Syms, e = Sym(s) PROVE e \in S
      BY <2>2, ValueIs, ValuesAssumption DEF ValuationIs, Syms
    <2>3. ASSUME NEW t \in Relations, NEW a \in Syms, NEW b \in Syms, e = Comp(t, a, b) PROVE e \in S
      <3>1. Value(e, v) \in {yes, no}
        BY <2>3, ValueIs
      <3>. QED
        BY <3>1 DEF tristate, yes, no
    <2>4. ASSUME NEW l \in AllConditions, e = Not(l) PROVE e \in S
      <3>1. l \in S
        BY <1>1, <2>4, Fields DEF Parts
      <3>. QED
        BY <2>4, <3>1, ValueIs DEF tristate
    <2>5. ASSUME NEW t \in {"AND", "OR"}, NEW l \in AllConditions, NEW r \in AllConditions, e = Two(t, l, r)
          PROVE  e \in S
      <3>1. l \in S /\ r \in S
        BY <1>1, <2>5, Fields DEF Parts
      <3>. QED
        BY <2>5, <3>1, ValueIs DEF tristate, Lesser, Greater
    <2>. QED
      BY <2>1, <2>2, <2>3, <2>4, <2>5, Shapes
  <1>2. AllConditions \subseteq S
    <2>. HIDE DEF S
    <2>. QED
      BY <1>1, OfEveryCondition
  <1>. QED
    BY <1>2

--------------------------------------------------------------------------------
(* The value of a chain *)

\* A chain of || is the greatest of its operands, a chain of && the least. The
\* value of the chain that has c and the operands ls is x.
Below(type, a, b) == IF type = "OR" THEN a <= b ELSE b <= a
Start(type) == IF type = "OR" THEN no ELSE yes
Joint(type, a, b) == IF type = "OR" THEN Greater(a, b) ELSE Lesser(a, b)
Amounts(type, c, ls, x, v) ==
    /\ Below(type, c, x)
    /\ \A i \in 1..Len(ls) : Below(type, Value(ls[i], v), x)
    /\ c = x \/ \E i \in 1..Len(ls) : Value(ls[i], v) = x

\* The value of a chain of two.
LEMMA ValueOfTwo ==
    ASSUME Conditions = AllConditions, NEW v, NEW type \in {"AND", "OR"},
           NEW a \in AllConditions, NEW b \in AllConditions
    PROVE  Value(Two(type, a, b), v) = Joint(type, Value(a, v), Value(b, v))
  <1>1. CASE type = "AND"
    BY <1>1, ValueIs DEF Joint
  <1>2. CASE type = "OR"
    BY <1>2, ValueIs DEF Joint
  <1>. QED
    BY <1>1, <1>2

\* A chain has one value.
LEMMA OneAmount ==
    ASSUME Conditions = AllConditions, NEW v \in Valuations, NEW type \in {"AND", "OR"}, NEW c \in tristate,
           NEW ls \in Seq(AllConditions), NEW x \in tristate, NEW y \in tristate,
           Amounts(type, c, ls, x, v), Amounts(type, c, ls, y, v)
    PROVE  x = y
  <1>1. Below(type, x, y) /\ Below(type, y, x)
    BY DEF Amounts
  <1>. QED
    BY <1>1 DEF Below, tristate

\* The value of one operand is that of the chain it is.
LEMMA AmountOfOne ==
    ASSUME Conditions = AllConditions, NEW v \in Valuations, NEW type \in {"AND", "OR"},
           NEW ls \in Seq(AllConditions), Len(ls) = 1
    PROVE  Amounts(type, Start(type), ls, Value(ls[1], v), v)
  <1>1. Value(ls[1], v) \in tristate /\ 1..Len(ls) = {1}
    BY ValueType
  <1>. QED
    BY <1>1 DEF Amounts, Below, Start, tristate, no, yes

\* Two chains joined by their operator.
LEMMA AmountOfBoth ==
    ASSUME Conditions = AllConditions, NEW v \in Valuations, NEW type \in {"AND", "OR"},
           NEW ls \in Seq(AllConditions), NEW n \in 0..Len(ls), NEW a \in tristate, NEW b \in tristate,
           Amounts(type, Start(type), SubSeq(ls, 1, n), a, v),
           Amounts(type, Start(type), SubSeq(ls, n + 1, Len(ls)), b, v)
    PROVE  Amounts(type, Start(type), ls, Joint(type, a, b), v)
  <1>. DEFINE l == SubSeq(ls, 1, n)
              r == SubSeq(ls, n + 1, Len(ls))
              x == Joint(type, a, b)
  <1>1. Len(l) = n /\ \A i \in 1..n : l[i] = ls[i]
    OBVIOUS
  <1>2. Len(r) = Len(ls) - n /\ \A i \in 1..(Len(ls) - n) : r[i] = ls[n + i]
    OBVIOUS
  <1>3. \A i \in 1..Len(ls) : Value(ls[i], v) \in tristate
    BY ValueType
  <1>4. \A i \in 1..Len(ls) : i \in 1..n \/ (i - n \in 1..(Len(ls) - n) /\ ls[i] = r[i - n])
    BY <1>2
  <1>. HIDE DEF l, r
  <1>5. Below(type, a, x) /\ Below(type, b, x) /\ x \in {a, b} /\ Below(type, Start(type), x)
    BY DEF Below, Joint, Greater, Lesser, tristate, Start, no, yes
  <1>6. ASSUME NEW i \in 1..Len(ls) PROVE Below(type, Value(ls[i], v), x)
    <2>1. CASE i \in 1..n
      <3>1. Below(type, Value(ls[i], v), a)
        BY <1>1, <2>1 DEF Amounts, l
      <3>. QED
        BY <3>1, <1>3, <1>5 DEF Below, tristate
    <2>2. CASE i - n \in 1..(Len(ls) - n) /\ ls[i] = r[i - n]
      <3>1. Below(type, Value(ls[i], v), b)
        BY <1>2, <2>2 DEF Amounts, r
      <3>. QED
        BY <3>1, <1>3, <1>5 DEF Below, tristate
    <2>. QED
      BY <1>4, <2>1, <2>2
  <1>7. Start(type) = x \/ \E i \in 1..Len(ls) : Value(ls[i], v) = x
    <2>1. CASE x = a
      <3>1. Start(type) = a \/ \E i \in 1..n : Value(l[i], v) = a
        BY <1>1 DEF Amounts, l
      <3>. QED
        BY <2>1, <3>1, <1>1
    <2>2. CASE x = b
      <3>1. Start(type) = b \/ \E i \in 1..(Len(ls) - n) : Value(r[i], v) = b
        BY <1>2 DEF Amounts, r
      <3>2. \A i \in 1..(Len(ls) - n) : n + i \in 1..Len(ls)
        OBVIOUS
      <3>. QED
        BY <2>2, <3>1, <3>2, <1>2
    <2>. QED
      BY <1>5, <2>1, <2>2
  <1>. QED
    BY <1>5, <1>6, <1>7 DEF Amounts

\* An operand is replaced by one of the same value.
LEMMA AmountOfSame ==
    ASSUME Conditions = AllConditions, NEW v \in Valuations, NEW type \in {"AND", "OR"}, NEW c \in tristate,
           NEW ls \in Seq(AllConditions), NEW x \in tristate, Amounts(type, c, ls, x, v),
           NEW i \in 1..Len(ls), NEW e \in AllConditions, Value(e, v) = Value(ls[i], v)
    PROVE  Amounts(type, c, [ls EXCEPT ![i] = e], x, v)
  <1>. DEFINE ms == [ls EXCEPT ![i] = e]
  <1>1. Len(ms) = Len(ls) /\ \A k \in 1..Len(ls) : ms[k] = IF k = i THEN e ELSE ls[k]
    OBVIOUS
  <1>. HIDE DEF ms
  <1>2. \A k \in 1..Len(ls) : Value(ms[k], v) = Value(ls[k], v)
    BY <1>1
  <1>3. Amounts(type, c, ms, x, v)
    BY <1>1, <1>2 DEF Amounts
  <1>. QED
    BY <1>3 DEF ms

\* An operand goes to c, and leaves a neutral one.
LEMMA AmountWithout ==
    ASSUME Conditions = AllConditions, NEW v \in Valuations, NEW type \in {"AND", "OR"}, NEW c \in tristate,
           NEW ls \in Seq(AllConditions), NEW x \in tristate, Amounts(type, c, ls, x, v),
           NEW i \in 1..Len(ls), NEW e \in AllConditions, Value(e, v) = Start(type)
    PROVE  Amounts(type, Joint(type, c, Value(ls[i], v)), [ls EXCEPT ![i] = e], x, v)
  <1>. DEFINE ms == [ls EXCEPT ![i] = e]
              w == Value(ls[i], v)
  <1>1. Len(ms) = Len(ls) /\ \A k \in 1..Len(ls) : ms[k] = IF k = i THEN e ELSE ls[k]
    OBVIOUS
  <1>2. w \in tristate
    BY ValueType
  <1>. HIDE DEF ms
  <1>3. Below(type, w, x) /\ Below(type, c, x)
    BY DEF Amounts
  <1>4. Below(type, Joint(type, c, w), x) /\ Joint(type, c, w) \in {c, w}
    BY <1>2, <1>3 DEF Below, Joint, Greater, Lesser
  <1>5. ASSUME NEW k \in 1..Len(ls) PROVE Below(type, Value(ms[k], v), x)
    <2>1. CASE k = i
      BY <1>1, <2>1 DEF Below, Start, no, yes, tristate
    <2>2. CASE k # i
      BY <1>1, <2>2 DEF Amounts
    <2>. QED
      BY <2>1, <2>2
  <1>6. Joint(type, c, w) = x \/ \E k \in 1..Len(ls) : Value(ms[k], v) = x
    <2>1. CASE c = x \/ w = x
      BY <2>1, <1>2, <1>3 DEF Below, Joint, Greater, Lesser, tristate
    <2>2. CASE c # x /\ w # x
      <3>1. PICK k \in 1..Len(ls) : Value(ls[k], v) = x
        BY <2>2 DEF Amounts
      <3>2. Value(ms[k], v) = x
        BY <1>1, <2>2, <3>1
      <3>. QED
        BY <3>2
    <2>. QED
      BY <2>1, <2>2
  <1>7. Amounts(type, Joint(type, c, w), ms, x, v)
    BY <1>1, <1>4, <1>5, <1>6 DEF Amounts
  <1>. QED
    BY <1>7 DEF ms

\* An operand goes into another one, and leaves a neutral one.
LEMMA AmountOfJoined ==
    ASSUME Conditions = AllConditions, NEW v \in Valuations, NEW type \in {"AND", "OR"}, NEW c \in tristate,
           NEW ls \in Seq(AllConditions), NEW x \in tristate, Amounts(type, c, ls, x, v),
           NEW i \in 1..Len(ls), NEW j \in 1..Len(ls), i # j,
           NEW e \in AllConditions, Value(e, v) = Start(type),
           NEW f \in AllConditions, Value(f, v) = Joint(type, Value(ls[i], v), Value(ls[j], v))
    PROVE  Amounts(type, c, [ls EXCEPT ![i] = e, ![j] = f], x, v)
  <1>. DEFINE ms == [ls EXCEPT ![i] = e, ![j] = f]
              a == Value(ls[i], v)
              b == Value(ls[j], v)
  <1>1. /\ Len(ms) = Len(ls)
        /\ \A k \in 1..Len(ls) : ms[k] = IF k = j THEN f ELSE IF k = i THEN e ELSE ls[k]
    OBVIOUS
  <1>2. a \in tristate /\ b \in tristate
    BY ValueType
  <1>. HIDE DEF ms
  <1>3. Below(type, a, x) /\ Below(type, b, x)
    BY DEF Amounts
  <1>4. Below(type, Joint(type, a, b), x)
    BY <1>2, <1>3 DEF Below, Joint, Greater, Lesser
  <1>5. ASSUME NEW k \in 1..Len(ls) PROVE Below(type, Value(ms[k], v), x)
    <2>1. CASE k = j
      BY <1>1, <2>1, <1>4
    <2>2. CASE k = i
      BY <1>1, <2>2 DEF Below, Start, no, yes, tristate
    <2>3. CASE k \notin {i, j}
      BY <1>1, <2>3 DEF Amounts
    <2>. QED
      BY <2>1, <2>2, <2>3
  <1>6. c = x \/ \E k \in 1..Len(ls) : Value(ms[k], v) = x
    <2>1. CASE a = x \/ b = x
      <3>1. Value(ms[j], v) = x
        BY <2>1, <1>1, <1>2, <1>3 DEF Below, Joint, Greater, Lesser, tristate
      <3>. QED
        BY <3>1
    <2>2. CASE c # x /\ a # x /\ b # x
      <3>1. PICK k \in 1..Len(ls) : Value(ls[k], v) = x
        BY <2>2 DEF Amounts
      <3>2. Value(ms[k], v) = x
        BY <1>1, <2>2, <3>1
      <3>. QED
        BY <3>2
    <2>. QED
      BY <2>1, <2>2
  <1>7. Amounts(type, c, ms, x, v)
    BY <1>1, <1>5, <1>6 DEF Amounts
  <1>. QED
    BY <1>7 DEF ms

\* c with the operands is c with what they are without it.
LEMMA AmountAndRest ==
    ASSUME Conditions = AllConditions, NEW v \in Valuations, NEW type \in {"AND", "OR"}, NEW c \in tristate,
           NEW ls \in Seq(AllConditions), NEW x \in tristate, NEW y \in tristate,
           Amounts(type, c, ls, x, v), Amounts(type, Start(type), ls, y, v)
    PROVE  x = Joint(type, c, y)
  <1>1. \A i \in 1..Len(ls) : Value(ls[i], v) \in tristate
    BY ValueType
  <1>2. Below(type, c, x)
    BY DEF Amounts
  <1>3. Below(type, y, x)
    <2>1. CASE y = Start(type)
      BY <2>1 DEF Below, Start, no, yes, tristate
    <2>2. CASE \E i \in 1..Len(ls) : Value(ls[i], v) = y
      BY <2>2 DEF Amounts
    <2>. QED
      BY <2>1, <2>2 DEF Amounts
  <1>4. x = c \/ Below(type, x, y)
    BY DEF Amounts
  <1>. QED
    BY <1>2, <1>3, <1>4 DEF Below, Joint, Greater, Lesser, tristate

\* The operands of a chain.
LEMMA LeavesOf ==
    ASSUME Conditions = AllConditions, NEW type \in {"AND", "OR"}
    PROVE  /\ \A e \in AllConditions : e.t # type => Leaves(type, e) = <<e>>
           /\ \A a \in AllConditions, b \in AllConditions :
                 Leaves(type, Two(type, a, b)) = Leaves(type, a) \o Leaves(type, b)
  <1>1. ASSUME NEW e \in AllConditions, e.t # type PROVE Leaves(type, e) = <<e>>
    BY <1>1, LeavesByIs DEF Leaves
  <1>2. ASSUME NEW a \in AllConditions, NEW b \in AllConditions
        PROVE  Leaves(type, Two(type, a, b)) = Leaves(type, a) \o Leaves(type, b)
    <2>1. /\ Two(type, a, b) \in AllConditions
          /\ Two(type, a, b).t = type /\ Two(type, a, b).l = a /\ Two(type, a, b).r = b
      BY Built, Fields
    <2>. QED
      BY <2>1, LeavesByIs DEF Leaves
  <1>. QED
    BY <1>1, <1>2

\* A condition is a chain, or no chain.
LEMMA ChainOrNot ==
    ASSUME NEW type \in {"AND", "OR"}, NEW e \in AllConditions
    PROVE  e.t # type \/ \E a \in AllConditions, b \in AllConditions :
                            e = Two(type, a, b) /\ Parts(e) = {a, b}
  <1>1. CASE \E t \in {"AND", "OR"}, l \in AllConditions, r \in AllConditions : e = Two(t, l, r)
    <2>1. PICK t \in {"AND", "OR"}, l \in AllConditions, r \in AllConditions : e = Two(t, l, r)
      BY <1>1
    <2>2. e.t = t /\ e.l = l /\ e.r = r
      BY <2>1, Fields
    <2>3. Parts(e) = {l, r}
      BY <2>2 DEF Parts
    <2>. QED
      BY <2>1, <2>2, <2>3
  <1>2. CASE ~\E t \in {"AND", "OR"}, l \in AllConditions, r \in AllConditions : e = Two(t, l, r)
    <2>1. e.t \in {"NULL", "SYMBOL", "NOT"} \cup Relations
      BY <1>2, Shapes, Fields
    <2>. QED
      BY <2>1 DEF Relations
  <1>. QED
    BY <1>1, <1>2

\* A negation has one operand.
LEMMA NotOnly ==
    ASSUME NEW e \in AllConditions, e.t = "NOT"
    PROVE  \E l \in AllConditions : e = Not(l) /\ e.l = l /\ Parts(e) = {l}
  <1>1. PICK l \in AllConditions : e = Not(l)
    BY Shapes, Fields DEF Relations
  <1>. QED
    BY <1>1, Fields DEF Parts

\* A chain has at least one operand, over the symbols that it is over.
LEMMA LeavesType ==
    ASSUME Conditions = AllConditions, NEW type \in {"AND", "OR"}, NEW X
    PROVE  \A e \in AllConditions :
              /\ Leaves(type, e) \in Seq(AllConditions) /\ Len(Leaves(type, e)) \in Nat \ {0}
              /\ e \in Over(X) => Leaves(type, e) \in Seq(Over(X))
  <1>. DEFINE Is(e) == /\ Leaves(type, e) \in Seq(AllConditions) /\ Len(Leaves(type, e)) \in Nat \ {0}
                       /\ e \in Over(X) => Leaves(type, e) \in Seq(Over(X))
              S == {e \in AllConditions : Is(e)}
  <1>1. ASSUME NEW e \in AllConditions, Parts(e) \subseteq S PROVE e \in S
    <2>1. CASE e.t # type
      <3>1. Leaves(type, e) = <<e>>
        BY <2>1, LeavesOf
      <3>2. /\ <<e>> \in Seq(AllConditions) /\ Len(<<e>>) = 1
            /\ e \in Over(X) => <<e>> \in Seq(Over(X))
        OBVIOUS
      <3>3. Is(e)
        BY <3>1, <3>2
      <3>. QED
        BY <3>3
    <2>2. ASSUME NEW a \in AllConditions, NEW b \in AllConditions, e = Two(type, a, b), Parts(e) = {a, b}
          PROVE  e \in S
      <3>1. Is(a) /\ Is(b)
        BY <1>1, <2>2
      <3>2. Leaves(type, e) = Leaves(type, a) \o Leaves(type, b)
        BY <2>2, LeavesOf
      <3>3. e \in Over(X) => a \in Over(X) /\ b \in Over(X)
        BY <2>2, OverIs
      <3>. HIDE DEF S
      <3>4. Is(e)
        BY <3>1, <3>2, <3>3
      <3>. QED
        BY <3>4 DEF S
    <2>. QED
      BY <2>1, <2>2, ChainOrNot
  <1>2. AllConditions \subseteq S
    <2>. HIDE DEF S
    <2>. QED
      BY <1>1, OfEveryCondition
  <1>. QED
    BY <1>2

\* The operands of a chain are those of its two halves.
LEMMA LeavesCount ==
    ASSUME Conditions = AllConditions, NEW type \in {"AND", "OR"}
    PROVE  /\ \A e \in AllConditions : e.t # type => Len(Leaves(type, e)) = 1
           /\ \A a \in AllConditions, b \in AllConditions :
                 Len(Leaves(type, Two(type, a, b))) = Len(Leaves(type, a)) + Len(Leaves(type, b))
  <1>1. ASSUME NEW e \in AllConditions, e.t # type PROVE Len(Leaves(type, e)) = 1
    <2>1. Leaves(type, e) = <<e>>
      BY <1>1, LeavesOf
    <2>. QED
      BY <2>1
  <1>2. ASSUME NEW a \in AllConditions, NEW b \in AllConditions
        PROVE  Len(Leaves(type, Two(type, a, b))) = Len(Leaves(type, a)) + Len(Leaves(type, b))
    <2>1. Leaves(type, Two(type, a, b)) = Leaves(type, a) \o Leaves(type, b)
      BY LeavesOf
    <2>2. Leaves(type, a) \in Seq(AllConditions) /\ Leaves(type, b) \in Seq(AllConditions)
      BY LeavesType
    <2>. QED
      BY <2>1, <2>2
  <1>. QED
    BY <1>1, <1>2

\* The operands of a chain amount to it.
LEMMA LeavesAmount ==
    ASSUME Conditions = AllConditions, NEW v \in Valuations, NEW type \in {"AND", "OR"}
    PROVE  \A e \in AllConditions : Amounts(type, Start(type), Leaves(type, e), Value(e, v), v)
  <1>. DEFINE S == {e \in AllConditions : Amounts(type, Start(type), Leaves(type, e), Value(e, v), v)}
  <1>1. ASSUME NEW e \in AllConditions, Parts(e) \subseteq S PROVE e \in S
    <2>1. CASE e.t # type
      <3>1. Leaves(type, e) = <<e>>
        BY <2>1, LeavesOf
      <3>2. Amounts(type, Start(type), <<e>>, Value(e, v), v)
        <4>. DEFINE ls == <<e>>
        <4>1. ls \in Seq(AllConditions) /\ Len(ls) = 1 /\ ls[1] = e
          OBVIOUS
        <4>. HIDE DEF ls
        <4>2. Amounts(type, Start(type), ls, Value(e, v), v)
          BY <4>1, AmountOfOne
        <4>. QED
          BY <4>2 DEF ls
      <3>. QED
        BY <3>1, <3>2
    <2>2. ASSUME NEW a \in AllConditions, NEW b \in AllConditions, e = Two(type, a, b), Parts(e) = {a, b}
          PROVE  e \in S
      <3>. DEFINE la == Leaves(type, a)
                  lb == Leaves(type, b)
                  ls == la \o lb
      <3>1. Amounts(type, Start(type), la, Value(a, v), v) /\ Amounts(type, Start(type), lb, Value(b, v), v)
        BY <1>1, <2>2
      <3>2. Leaves(type, e) = ls
        BY <2>2, LeavesOf
      <3>3. la \in Seq(AllConditions) /\ lb \in Seq(AllConditions)
        BY LeavesType
      <3>. HIDE DEF la, lb
      <3>4. /\ ls \in Seq(AllConditions) /\ Len(la) \in 0..Len(ls)
            /\ SubSeq(ls, 1, Len(la)) = la /\ SubSeq(ls, Len(la) + 1, Len(ls)) = lb
        BY <3>3
      <3>5. Value(a, v) \in tristate /\ Value(b, v) \in tristate
        BY ValueType
      <3>6. Value(e, v) = Joint(type, Value(a, v), Value(b, v))
        BY <2>2, ValueOfTwo
      <3>. HIDE DEF ls, S
      <3>7. Amounts(type, Start(type), ls, Joint(type, Value(a, v), Value(b, v)), v)
        BY <3>1, <3>4, <3>5, AmountOfBoth
      <3>. QED
        BY <3>2, <3>6, <3>7 DEF S
    <2>. QED
      BY <2>1, <2>2, ChainOrNot
  <1>2. AllConditions \subseteq S
    <2>. HIDE DEF S
    <2>. QED
      BY <1>1, OfEveryCondition
  <1>. QED
    BY <1>2

\* A chain with other operands, as many of them.
LEMMA WithLeavesOf ==
    ASSUME Conditions = AllConditions, NEW type \in {"AND", "OR"}
    PROVE  /\ \A e \in AllConditions, ls \in Seq(AllConditions) : e.t # type => WithLeaves(type, e, ls) = ls[1]
           /\ \A a \in AllConditions, b \in AllConditions, ls \in Seq(AllConditions) :
                 LET n == Len(Leaves(type, a))
                 IN  WithLeaves(type, Two(type, a, b), ls) =
                        Two(type, WithLeaves(type, a, SubSeq(ls, 1, n)),
                                  WithLeaves(type, b, SubSeq(ls, n + 1, Len(ls))))
  <1>1. ASSUME NEW e \in AllConditions, NEW ls \in Seq(AllConditions), e.t # type
        PROVE  WithLeaves(type, e, ls) = ls[1]
    BY <1>1, ReplacedByIs DEF WithLeaves
  <1>2. ASSUME NEW a \in AllConditions, NEW b \in AllConditions, NEW ls \in Seq(AllConditions)
        PROVE  WithLeaves(type, Two(type, a, b), ls) =
                  Two(type, WithLeaves(type, a, SubSeq(ls, 1, Len(Leaves(type, a)))),
                            WithLeaves(type, b, SubSeq(ls, Len(Leaves(type, a)) + 1, Len(ls))))
    <2>1. /\ Two(type, a, b) \in AllConditions
          /\ Two(type, a, b).t = type /\ Two(type, a, b).l = a /\ Two(type, a, b).r = b
      BY Built, Fields
    <2>. DEFINE e == Two(type, a, b)
    <2>2. ReplacedBy(type)[e][ls] =
             Two(type, ReplacedBy(type)[e.l][SubSeq(ls, 1, Len(Leaves(type, e.l)))],
                       ReplacedBy(type)[e.r][SubSeq(ls, Len(Leaves(type, e.l)) + 1, Len(ls))])
      BY <2>1, ReplacedByIs
    <2>. QED
      BY <2>1, <2>2 DEF WithLeaves
  <1>. QED
    BY <1>1, <1>2

\* A chain with its operands replaced is a chain over the symbols that those are over.
LEMMA WithLeavesType ==
    ASSUME Conditions = AllConditions, NEW type \in {"AND", "OR"}, NEW X
    PROVE  \A e \in AllConditions : \A ls \in Seq(Over(X)) : Len(ls) = Len(Leaves(type, e)) =>
              WithLeaves(type, e, ls) \in Over(X) /\ (e.t = type => WithLeaves(type, e, ls).t = type)
  <1>. DEFINE Is(e, ls) == Len(ls) = Len(Leaves(type, e)) =>
                 WithLeaves(type, e, ls) \in Over(X) /\ (e.t = type => WithLeaves(type, e, ls).t = type)
              S == {e \in AllConditions : \A ls \in Seq(Over(X)) : Is(e, ls)}
  <1>0. Over(X) \subseteq AllConditions /\ Seq(Over(X)) \subseteq Seq(AllConditions)
    <2>1. Over(X) \subseteq AllConditions
      BY DEF Over
    <2>. QED
      BY <2>1
  <1>1. ASSUME NEW e \in AllConditions, Parts(e) \subseteq S PROVE e \in S
    <2>1. CASE e.t # type
      <3>1. ASSUME NEW ls \in Seq(Over(X)), Len(ls) = Len(Leaves(type, e)) PROVE Is(e, ls)
        <4>1. Len(ls) = 1
          BY <2>1, <3>1, LeavesCount
        <4>2. WithLeaves(type, e, ls) = ls[1]
          BY <1>0, <2>1, WithLeavesOf
        <4>. QED
          BY <2>1, <4>1, <4>2
      <3>. QED
        BY <3>1
    <2>2. ASSUME NEW a \in AllConditions, NEW b \in AllConditions, e = Two(type, a, b), Parts(e) = {a, b}
          PROVE  e \in S
      <3>1. ASSUME NEW ls \in Seq(Over(X)), Len(ls) = Len(Leaves(type, e)) PROVE Is(e, ls)
        <4>. DEFINE n == Len(Leaves(type, a))
                    l == SubSeq(ls, 1, n)
                    r == SubSeq(ls, n + 1, Len(ls))
        <4>1. /\ Len(ls) = n + Len(Leaves(type, b)) /\ n \in Nat /\ Len(Leaves(type, b)) \in Nat
          <5>1. Len(Leaves(type, e)) = n + Len(Leaves(type, b))
            BY <2>2, LeavesCount
          <5>2. n \in Nat /\ Len(Leaves(type, b)) \in Nat
            BY LeavesType
          <5>. QED
            BY <3>1, <5>1, <5>2
        <4>2. WithLeaves(type, e, ls) = Two(type, WithLeaves(type, a, l), WithLeaves(type, b, r))
          <5>1. a \in AllConditions /\ b \in AllConditions /\ ls \in Seq(AllConditions)
            BY <1>0
          <5>2. WithLeaves(type, Two(type, a, b), ls) =
                   Two(type, WithLeaves(type, a, l), WithLeaves(type, b, r))
            BY <5>1, WithLeavesOf
          <5>. QED
            BY <2>2, <5>2
        <4>. HIDE DEF n
        <4>3. l \in Seq(Over(X)) /\ r \in Seq(Over(X)) /\ Len(l) = n /\ Len(r) = Len(Leaves(type, b))
          BY <4>1
        <4>. HIDE DEF l, r
        <4>4. WithLeaves(type, a, l) \in Over(X) /\ WithLeaves(type, b, r) \in Over(X)
          BY <1>1, <2>2, <4>3 DEF n
        <4>5. Two(type, WithLeaves(type, a, l), WithLeaves(type, b, r)) \in Over(X)
          BY <1>0, <4>4, OverIs
        <4>. QED
          BY <4>2, <4>5, Fields
      <3>. QED
        BY <3>1
    <2>. QED
      BY <2>1, <2>2, ChainOrNot
  <1>2. AllConditions \subseteq S
    <2>. HIDE DEF S
    <2>. QED
      BY <1>1, OfEveryCondition
  <1>. QED
    BY <1>2

\* A chain with its operands replaced is a condition.
LEMMA WithLeavesCondition ==
    ASSUME Conditions = AllConditions, NEW type \in {"AND", "OR"}, NEW e \in AllConditions,
           NEW ls \in Seq(AllConditions), Len(ls) = Len(Leaves(type, e))
    PROVE  WithLeaves(type, e, ls) \in AllConditions
  <1>1. Over(Syms) = AllConditions
    BY AllOver
  <1>. QED
    BY <1>1, WithLeavesType

\* The operands that replace those of a chain amount to what it becomes.
LEMMA WithLeavesAmount ==
    ASSUME Conditions = AllConditions, NEW v \in Valuations, NEW type \in {"AND", "OR"}
    PROVE  \A e \in AllConditions : \A ls \in Seq(AllConditions) : Len(ls) = Len(Leaves(type, e)) =>
              Amounts(type, Start(type), ls, Value(WithLeaves(type, e, ls), v), v)
  <1>. DEFINE Is(e, ls) == Len(ls) = Len(Leaves(type, e)) =>
                 Amounts(type, Start(type), ls, Value(WithLeaves(type, e, ls), v), v)
              S == {e \in AllConditions : \A ls \in Seq(AllConditions) : Is(e, ls)}
  <1>1. ASSUME NEW e \in AllConditions, Parts(e) \subseteq S PROVE e \in S
    <2>1. CASE e.t # type
      <3>1. ASSUME NEW ls \in Seq(AllConditions), Len(ls) = Len(Leaves(type, e)) PROVE Is(e, ls)
        <4>1. Len(ls) = 1
          BY <2>1, <3>1, LeavesCount
        <4>2. WithLeaves(type, e, ls) = ls[1]
          BY <2>1, WithLeavesOf
        <4>. QED
          BY <4>1, <4>2, AmountOfOne
      <3>. QED
        BY <3>1
    <2>2. ASSUME NEW a \in AllConditions, NEW b \in AllConditions, e = Two(type, a, b), Parts(e) = {a, b}
          PROVE  e \in S
      <3>1. ASSUME NEW ls \in Seq(AllConditions), Len(ls) = Len(Leaves(type, e)) PROVE Is(e, ls)
        <4>. DEFINE n == Len(Leaves(type, a))
                    l == SubSeq(ls, 1, n)
                    r == SubSeq(ls, n + 1, Len(ls))
                    wa == WithLeaves(type, a, l)
                    wb == WithLeaves(type, b, r)
        <4>1. /\ Len(ls) = n + Len(Leaves(type, b)) /\ n \in Nat /\ Len(Leaves(type, b)) \in Nat
          <5>1. Len(Leaves(type, e)) = n + Len(Leaves(type, b))
            BY <2>2, LeavesCount
          <5>2. n \in Nat /\ Len(Leaves(type, b)) \in Nat
            BY LeavesType
          <5>. QED
            BY <3>1, <5>1, <5>2
        <4>2. WithLeaves(type, e, ls) = Two(type, wa, wb)
          <5>1. WithLeaves(type, Two(type, a, b), ls) = Two(type, wa, wb)
            BY WithLeavesOf
          <5>. QED
            BY <2>2, <5>1
        <4>. HIDE DEF n
        <4>3. /\ l \in Seq(AllConditions) /\ r \in Seq(AllConditions)
              /\ Len(l) = n /\ Len(r) = Len(Leaves(type, b)) /\ n \in 0..Len(ls)
          BY <4>1
        <4>4. Amounts(type, Start(type), l, Value(wa, v), v) /\ Amounts(type, Start(type), r, Value(wb, v), v)
          <5>. HIDE DEF l, r
          <5>. QED
            BY <1>1, <2>2, <4>3 DEF n
        <4>5. wa \in AllConditions /\ wb \in AllConditions
          <5>. HIDE DEF l, r
          <5>. QED
            BY <4>3, WithLeavesCondition DEF n
        <4>6. Value(wa, v) \in tristate /\ Value(wb, v) \in tristate
          BY <4>5, ValueType
        <4>. HIDE DEF wa, wb
        <4>7. Amounts(type, Start(type), ls, Joint(type, Value(wa, v), Value(wb, v)), v)
          BY <4>3, <4>4, <4>6, AmountOfBoth
        <4>8. Value(WithLeaves(type, e, ls), v) = Joint(type, Value(wa, v), Value(wb, v))
          <5>1. Value(Two(type, wa, wb), v) = Joint(type, Value(wa, v), Value(wb, v))
            BY <4>5, ValueOfTwo
          <5>. QED
            BY <4>2, <5>1 DEF wa, wb
        <4>. QED
          BY <4>7, <4>8
      <3>. QED
        BY <3>1
    <2>. QED
      BY <2>1, <2>2, ChainOrNot
  <1>2. AllConditions \subseteq S
    <2>. HIDE DEF S
    <2>. QED
      BY <1>1, OfEveryCondition
  <1>. QED
    BY <1>2

\* What is put in the place of an operand that goes away counts for nothing.
LEMMA NeutralIs ==
    ASSUME Conditions = AllConditions, NEW type \in {"AND", "OR"}
    PROVE  /\ Neutral(type) \in AllConditions
           /\ \A X : Keeping(X) => Neutral(type) \in Over(X)
           /\ \A v \in Valuations : Value(Neutral(type), v) = Start(type)
  <1>1. "y" \in Syms /\ "n" \in Syms
    BY ValuesAssumption DEF Syms
  <1>2. Neutral(type) \in AllConditions
    BY <1>1, Built DEF Neutral
  <1>3. ASSUME NEW X, Keeping(X) PROVE Neutral(type) \in Over(X)
    BY <1>1, <1>3, OverIs DEF Neutral, Keeping
  <1>4. ASSUME NEW v \in Valuations PROVE Value(Neutral(type), v) = Start(type)
    <2>1. v["y"].tri = yes /\ v["n"].tri = no
      BY ValuesAssumption DEF ValuationIs
    <2>2. Value(Sym("y"), v) = yes /\ Value(Sym("n"), v) = no
      BY <1>1, <2>1, ValueIs
    <2>. QED
      BY <2>2 DEF Neutral, Start
  <1>. QED
    BY <1>2, <1>3, <1>4

--------------------------------------------------------------------------------
(* expr_eliminate_yn *)

\* expr_eliminate_yn of what is built.
LEMMA WithoutYnOf ==
    ASSUME Conditions = AllConditions
    PROVE  /\ \A e \in AllConditions : e.t \notin {"AND", "OR"} => WithoutYn[e] = e
           /\ \A t \in {"AND", "OR"} : \A a \in AllConditions : \A b \in AllConditions :
                 LET l == WithoutYn[a]
                     r == WithoutYn[b]
                     zero == Sym(IF t = "AND" THEN "n" ELSE "y")
                     e == WithoutYn[Two(t, a, b)]
                 IN  \/ e = zero /\ (l = zero \/ r = zero)
                     \/ e = r /\ l = Neutral(t)
                     \/ e = l /\ r = Neutral(t)
                     \/ e = Two(t, l, r)
  <1>1. ASSUME NEW e \in AllConditions, e.t \notin {"AND", "OR"} PROVE WithoutYn[e] = e
    BY <1>1, WithoutYnIs
  <1>2. ASSUME NEW t \in {"AND", "OR"}, NEW a \in AllConditions, NEW b \in AllConditions
        PROVE  LET l == WithoutYn[a]
                   r == WithoutYn[b]
                   zero == Sym(IF t = "AND" THEN "n" ELSE "y")
                   e == WithoutYn[Two(t, a, b)]
               IN  \/ e = zero /\ (l = zero \/ r = zero)
                   \/ e = r /\ l = Neutral(t)
                   \/ e = l /\ r = Neutral(t)
                   \/ e = Two(t, l, r)
    <2>1. /\ Two(t, a, b) \in AllConditions
          /\ Two(t, a, b).t = t /\ Two(t, a, b).l = a /\ Two(t, a, b).r = b
      BY Built, Fields
    <2>. DEFINE l == WithoutYn[a]
                r == WithoutYn[b]
                zero == Sym(IF t = "AND" THEN "n" ELSE "y")
    <2>2. WithoutYn[Two(t, a, b)] =
             CASE l = zero \/ (r = zero /\ l # Neutral(t)) -> zero
               [] l = Neutral(t) -> r
               [] r = Neutral(t) /\ l # zero -> l
               [] OTHER -> Two(t, l, r)
      BY <2>1, WithoutYnIs
    <2>. HIDE DEF l, r, zero
    <2>3. LET e == WithoutYn[Two(t, a, b)]
          IN  \/ e = zero /\ (l = zero \/ r = zero)
              \/ e = r /\ l = Neutral(t)
              \/ e = l /\ r = Neutral(t)
              \/ e = Two(t, l, r)
      BY <2>2
    <2>. QED
      BY <2>3 DEF l, r, zero
  <1>. QED
    BY <1>1, <1>2

\* expr_eliminate_yn adds no symbol but y and n.
LEMMA WithoutYnType ==
    ASSUME Conditions = AllConditions, NEW X, Keeping(X)
    PROVE  \A e \in Over(X) : WithoutYn[e] \in Over(X)
  <1>. DEFINE S == {e \in AllConditions : e \in Over(X) => WithoutYn[e] \in Over(X)}
  <1>0. /\ Sym("y") \in Over(X) /\ Sym("n") \in Over(X)
        /\ Over(X) \subseteq AllConditions
    <2>1. \A type \in {"AND", "OR"} : Neutral(type) \in Over(X)
      BY NeutralIs
    <2>. QED
      BY <2>1 DEF Neutral, Over
  <1>1. ASSUME NEW e \in AllConditions, Parts(e) \subseteq S PROVE e \in S
    <2>1. CASE e.t \notin {"AND", "OR"}
      BY <2>1, WithoutYnOf
    <2>2. ASSUME NEW t \in {"AND", "OR"}, NEW a \in AllConditions, NEW b \in AllConditions,
                 e = Two(t, a, b), Parts(e) = {a, b}, e \in Over(X)
          PROVE  WithoutYn[e] \in Over(X)
      <3>1. a \in Over(X) /\ b \in Over(X)
        BY <2>2, OverIs
      <3>2. WithoutYn[a] \in Over(X) /\ WithoutYn[b] \in Over(X)
        BY <3>1, <1>1, <2>2
      <3>3. Two(t, WithoutYn[a], WithoutYn[b]) \in Over(X)
        BY <1>0, <3>2, OverIs
      <3>4. WithoutYn[e] \in {Sym("y"), Sym("n"), WithoutYn[a], WithoutYn[b], Two(t, WithoutYn[a], WithoutYn[b])}
        <4>1. WithoutYn[e] \in {Sym(IF t = "AND" THEN "n" ELSE "y"), WithoutYn[a], WithoutYn[b],
                                Two(t, WithoutYn[a], WithoutYn[b])}
          BY <2>2, WithoutYnOf
        <4>. QED
          BY <4>1
      <3>. QED
        BY <1>0, <3>2, <3>3, <3>4
    <2>. QED
      BY <2>1, <2>2, ChainOrNot
  <1>2. AllConditions \subseteq S
    <2>. HIDE DEF S
    <2>. QED
      BY <1>1, OfEveryCondition
  <1>. QED
    BY <1>0, <1>2

\* All the symbols are enough for the rewritings.
LEMMA KeepingAll == Keeping(Syms)
  BY ValuesAssumption DEF Keeping, Syms

\* expr_eliminate_yn gives a condition.
LEMMA WithoutYnCondition ==
    ASSUME Conditions = AllConditions
    PROVE  \A e \in AllConditions : WithoutYn[e] \in AllConditions
  BY AllOver, KeepingAll, WithoutYnType

\* expr_eliminate_yn keeps the value (expr.c:308-389).
LEMMA WithoutYnValue ==
    ASSUME Conditions = AllConditions, NEW v \in Valuations
    PROVE  \A e \in AllConditions : Value(WithoutYn[e], v) = Value(e, v)
  <1>. DEFINE S == {e \in AllConditions : Value(WithoutYn[e], v) = Value(e, v)}
  <1>1. ASSUME NEW e \in AllConditions, Parts(e) \subseteq S PROVE e \in S
    <2>1. CASE e.t \notin {"AND", "OR"}
      BY <2>1, WithoutYnOf
    <2>2. ASSUME NEW t \in {"AND", "OR"}, NEW a \in AllConditions, NEW b \in AllConditions,
                 e = Two(t, a, b), Parts(e) = {a, b}
          PROVE  Value(WithoutYn[e], v) = Value(e, v)
      <3>. DEFINE l == WithoutYn[a]
                  r == WithoutYn[b]
                  zero == Sym(IF t = "AND" THEN "n" ELSE "y")
      <3>1. Value(l, v) = Value(a, v) /\ Value(r, v) = Value(b, v)
        BY <1>1, <2>2
      <3>2. l \in AllConditions /\ r \in AllConditions
        BY WithoutYnCondition
      <3>3. Value(a, v) \in tristate /\ Value(b, v) \in tristate
        BY ValueType
      <3>4. Value(e, v) = Joint(t, Value(a, v), Value(b, v))
        BY <2>2, ValueOfTwo
      <3>5. Value(Two(t, l, r), v) = Joint(t, Value(a, v), Value(b, v))
        BY <3>1, <3>2, ValueOfTwo
      <3>6. Value(Neutral(t), v) = Start(t)
        BY NeutralIs
      <3>7. Value(zero, v) = IF t = "AND" THEN no ELSE yes
        <4>1. Value(Neutral("AND"), v) = yes /\ Value(Neutral("OR"), v) = no
          BY NeutralIs DEF Start
        <4>. QED
          BY <4>1 DEF Neutral
      <3>. HIDE DEF zero
      <3>8. \/ WithoutYn[e] = zero /\ (l = zero \/ r = zero)
            \/ WithoutYn[e] = r /\ l = Neutral(t)
            \/ WithoutYn[e] = l /\ r = Neutral(t)
            \/ WithoutYn[e] = Two(t, l, r)
        BY <2>2, WithoutYnOf DEF zero
      <3>. HIDE DEF l, r
      <3>. QED
        BY <3>1, <3>3, <3>4, <3>5, <3>6, <3>7, <3>8 DEF Joint, Greater, Lesser, Start, tristate, yes, no
    <2>. QED
      BY <2>1, <2>2, ChainOrNot
  <1>2. AllConditions \subseteq S
    <2>. HIDE DEF S
    <2>. QED
      BY <1>1, OfEveryCondition
  <1>. QED
    BY <1>2

--------------------------------------------------------------------------------
(* The pairs of operands *)

\* The pairs of operands are of the operands there are.
LEMMA PairsAreIndices ==
    ASSUME NEW n \in Nat, NEW m \in Nat
    PROVE  /\ Len(Pairs(n, m)) = n * m /\ n * m \in Nat
           /\ \A k \in 1..(n * m) : Pairs(n, m)[k][1] \in 1..n /\ Pairs(n, m)[k][2] \in 1..m
  <1>1. n * m \in Nat
    OBVIOUS
  <1>2. Len(Pairs(n, m)) = n * m
    BY <1>1 DEF Pairs
  <1>3. ASSUME NEW k \in 1..(n * m) PROVE Pairs(n, m)[k][1] \in 1..n /\ Pairs(n, m)[k][2] \in 1..m
    <2>. DEFINE q == (k - 1) \div m
                r == (k - 1) % m
    <2>1. m > 0 /\ k - 1 \in Nat /\ k - 1 < n * m
      BY <1>1
    <2>2. q \in Int /\ r \in 0..(m - 1) /\ k - 1 = m * q + r
      BY <2>1
    <2>. HIDE DEF q, r
    <2>3. q >= 0
      BY <2>1, <2>2
    <2>4. q < n
      BY <2>1, <2>2
    <2>. QED
      BY <2>2, <2>3, <2>4 DEF Pairs, q, r
  <1>. QED
    BY <1>1, <1>2, <1>3

--------------------------------------------------------------------------------
(* expr_eq and the operands common to two conditions *)

\* What eq takes for equal has the same value.
Faithful(eq) ==
    \A a \in AllConditions, b \in AllConditions :
        eq[<<a, b>>] => \A v \in Valuations : Value(a, v) = Value(b, v)

\* Two lists of operands, and what is taken from both makes one c for each valuation.
Operands(p, n, m) ==
    /\ p = <<p[1], p[2]>>
    /\ p[1] \in Seq(AllConditions) /\ Len(p[1]) = n
    /\ p[2] \in Seq(AllConditions) /\ Len(p[2]) = m
Share(type, p, x, y, v) ==
    \E c \in tristate : Amounts(type, c, p[1], x, v) /\ Amounts(type, c, p[2], y, v)

\* What two chains have in common grows by a pair of equal operands: what goes away
\* from one is what goes away from the other.
LEMMA EliminatePairIs ==
    ASSUME Conditions = AllConditions, NEW eq, Faithful(eq), NEW type \in {"AND", "OR"},
           NEW p, NEW n \in Nat, NEW m \in Nat, Operands(p, n, m), NEW i \in 1..n, NEW j \in 1..m,
           NEW v \in Valuations, NEW x \in tristate, NEW y \in tristate, Share(type, p, x, y, v)
    PROVE  /\ Operands(EliminatePair(eq, type, p, i, j), n, m)
           /\ Share(type, EliminatePair(eq, type, p, i, j), x, y, v)
  <1>. DEFINE q == <<[p[1] EXCEPT ![i] = Neutral(type)], [p[2] EXCEPT ![j] = Neutral(type)]>>
  <1>1. CASE EliminatePair(eq, type, p, i, j) = p
    BY <1>1
  <1>2. CASE EliminatePair(eq, type, p, i, j) = q /\ eq[<<p[1][i], p[2][j]>>]
    <2>1. /\ p[1] \in Seq(AllConditions) /\ Len(p[1]) = n /\ p[1][i] \in AllConditions
          /\ p[2] \in Seq(AllConditions) /\ Len(p[2]) = m /\ p[2][j] \in AllConditions
      BY DEF Operands
    <2>2. Neutral(type) \in AllConditions /\ Value(Neutral(type), v) = Start(type)
      BY NeutralIs
    <2>3. Operands(q, n, m)
      BY <2>1, <2>2 DEF Operands
    <2>4. PICK c \in tristate : Amounts(type, c, p[1], x, v) /\ Amounts(type, c, p[2], y, v)
      BY DEF Share
    <2>5. Value(p[1][i], v) = Value(p[2][j], v)
      BY <1>2, <2>1 DEF Faithful
    <2>. DEFINE d == Joint(type, c, Value(p[1][i], v))
    <2>6. d \in tristate
      <3>1. Value(p[1][i], v) \in tristate
        BY <2>1, ValueType
      <3>. QED
        BY <3>1 DEF Joint, Greater, Lesser
    <2>7. Amounts(type, d, q[1], x, v)
      <3>1. Amounts(type, d, [p[1] EXCEPT ![i] = Neutral(type)], x, v)
        BY <2>1, <2>2, <2>4, AmountWithout
      <3>. QED
        BY <3>1
    <2>8. Amounts(type, d, q[2], y, v)
      <3>1. Amounts(type, Joint(type, c, Value(p[2][j], v)), [p[2] EXCEPT ![j] = Neutral(type)], y, v)
        BY <2>1, <2>2, <2>4, AmountWithout
      <3>. QED
        BY <2>5, <3>1
    <2>. HIDE DEF d, q
    <2>9. Share(type, q, x, y, v)
      BY <2>6, <2>7, <2>8 DEF Share
    <2>. QED
      BY <1>2, <2>3, <2>9
  <1>3. \/ EliminatePair(eq, type, p, i, j) = p
        \/ EliminatePair(eq, type, p, i, j) = q /\ eq[<<p[1][i], p[2][j]>>]
    BY DEF EliminatePair
  <1>. QED
    BY <1>1, <1>2, <1>3

\* The pairs one after the other.
LEMMA EliminatedInIs ==
    ASSUME NEW eq, NEW type, NEW p, NEW ijs
    PROVE  LET f == EliminatedIn(eq, type, p, ijs)
           IN  /\ f[0] = p
               /\ \A k \in Nat : f[k + 1] = EliminatePair(eq, type, f[k], ijs[k + 1][1], ijs[k + 1][2])
  <1>. DEFINE Def(q, k) == EliminatePair(eq, type, q, ijs[k][1], ijs[k][2])
              f == EliminatedIn(eq, type, p, ijs)
  <1>1. NatInductiveDefHypothesis(f, p, Def)
    BY DEF NatInductiveDefHypothesis, EliminatedIn
  <1>2. NatInductiveDefConclusion(f, p, Def)
    BY <1>1, NatInductiveDef
  <1>3. f = [k \in Nat |-> IF k = 0 THEN p ELSE Def(f[k - 1], k)]
    BY <1>2 DEF NatInductiveDefConclusion
  <1>. HIDE DEF Def, f
  <1>4. f[0] = p /\ \A k \in Nat : f[k + 1] = Def(f[k], k + 1)
    BY <1>3
  <1>. QED
    BY <1>4 DEF Def, f

\* What goes away from one of two chains by all the pairs is what goes away from the other.
LEMMA EliminatePairsIs ==
    ASSUME Conditions = AllConditions, NEW eq, Faithful(eq), NEW type \in {"AND", "OR"},
           NEW p, NEW n \in Nat, NEW m \in Nat, Operands(p, n, m),
           NEW v \in Valuations, NEW x \in tristate, NEW y \in tristate, Share(type, p, x, y, v)
    PROVE  /\ Operands(EliminatePairs(eq, type, p, Pairs(n, m)), n, m)
           /\ Share(type, EliminatePairs(eq, type, p, Pairs(n, m)), x, y, v)
  <1>. DEFINE ijs == Pairs(n, m)
              f == EliminatedIn(eq, type, p, ijs)
              S == {k \in Nat : k <= Len(ijs) => Operands(f[k], n, m) /\ Share(type, f[k], x, y, v)}
  <1>0. Len(ijs) \in Nat /\ \A k \in 1..Len(ijs) : ijs[k][1] \in 1..n /\ ijs[k][2] \in 1..m
    BY PairsAreIndices
  <1>. HIDE DEF ijs
  <1>1. f[0] = p /\ \A k \in Nat : f[k + 1] = EliminatePair(eq, type, f[k], ijs[k + 1][1], ijs[k + 1][2])
    BY EliminatedInIs
  <1>. HIDE DEF f
  <1>2. 0 \in S
    BY <1>1
  <1>3. ASSUME NEW k \in Nat, k \in S PROVE k + 1 \in S
    <2>1. SUFFICES ASSUME k + 1 <= Len(ijs)
                   PROVE  Operands(f[k + 1], n, m) /\ Share(type, f[k + 1], x, y, v)
      OBVIOUS
    <2>2. k + 1 \in 1..Len(ijs) /\ k <= Len(ijs)
      BY <1>0, <2>1
    <2>3. Operands(f[k], n, m) /\ Share(type, f[k], x, y, v)
      BY <1>3, <2>2
    <2>4. ijs[k + 1][1] \in 1..n /\ ijs[k + 1][2] \in 1..m
      BY <1>0, <2>2
    <2>5. f[k + 1] = EliminatePair(eq, type, f[k], ijs[k + 1][1], ijs[k + 1][2])
      BY <1>1
    <2>. DEFINE g == f[k]
                i == ijs[k + 1][1]
                j == ijs[k + 1][2]
    <2>. HIDE DEF S, g, i, j
    <2>6. Operands(g, n, m) /\ Share(type, g, x, y, v) /\ i \in 1..n /\ j \in 1..m
      BY <2>3, <2>4 DEF g, i, j
    <2>7. /\ Operands(EliminatePair(eq, type, g, i, j), n, m)
          /\ Share(type, EliminatePair(eq, type, g, i, j), x, y, v)
      BY <2>6, EliminatePairIs
    <2>. QED
      BY <2>5, <2>7 DEF g, i, j
  <1>4. Nat \subseteq S
    BY <1>2, <1>3, AllNumbers, Zenon
  <1>5. Operands(f[Len(ijs)], n, m) /\ Share(type, f[Len(ijs)], x, y, v)
    BY <1>0, <1>4
  <1>. QED
    BY <1>5 DEF EliminatePairs, f, ijs

\* Two chains without their common operands: each is the rest and the same c.
LEMMA EliminateChainsIs ==
    ASSUME Conditions = AllConditions, NEW eq, Faithful(eq), NEW type \in {"AND", "OR"},
           NEW e1 \in AllConditions, NEW e2 \in AllConditions, NEW v \in Valuations,
           NEW es, es = EliminateChains(eq, type, <<e1, e2>>)
    PROVE  /\ es = <<es[1], es[2]>> /\ es[1] \in AllConditions /\ es[2] \in AllConditions
           /\ e1.t = type => es[1].t = type
           /\ e2.t = type => es[2].t = type
           /\ \E c \in tristate : /\ Value(e1, v) = Joint(type, c, Value(es[1], v))
                                  /\ Value(e2, v) = Joint(type, c, Value(es[2], v))
  <1>. DEFINE l1 == Leaves(type, e1)
              l2 == Leaves(type, e2)
              n == Len(l1)
              m == Len(l2)
              p == <<l1, l2>>
              q == EliminatePairs(eq, type, p, Pairs(n, m))
              r1 == WithLeaves(type, e1, q[1])
              r2 == WithLeaves(type, e2, q[2])
  <1>1. l1 \in Seq(AllConditions) /\ l2 \in Seq(AllConditions) /\ n \in Nat /\ m \in Nat
    BY LeavesType
  <1>2. Amounts(type, Start(type), l1, Value(e1, v), v) /\ Amounts(type, Start(type), l2, Value(e2, v), v)
    BY LeavesAmount
  <1>3. Start(type) \in tristate /\ Value(e1, v) \in tristate /\ Value(e2, v) \in tristate
    BY ValueType DEF Start, tristate, yes, no
  <1>4. es = <<r1, r2>>
    BY DEF EliminateChains, EliminateLeaves, WithBothLeaves
  <1>5. Operands(p, n, m)
    BY <1>1 DEF Operands
  <1>6. Share(type, p, Value(e1, v), Value(e2, v), v)
    BY <1>2, <1>3 DEF Share
  <1>. HIDE DEF p
  <1>7. Operands(q, n, m) /\ Share(type, q, Value(e1, v), Value(e2, v), v)
    <2>. HIDE DEF n, m
    <2>. QED
      BY <1>1, <1>3, <1>5, <1>6, EliminatePairsIs
  <1>. HIDE DEF q
  <1>8. /\ q[1] \in Seq(AllConditions) /\ Len(q[1]) = Len(Leaves(type, e1))
        /\ q[2] \in Seq(AllConditions) /\ Len(q[2]) = Len(Leaves(type, e2))
    BY <1>7 DEF Operands
  <1>9. /\ r1 \in AllConditions /\ r2 \in AllConditions
        /\ e1.t = type => r1.t = type
        /\ e2.t = type => r2.t = type
    BY <1>8, AllOver, WithLeavesType
  <1>10. r1 \in AllConditions /\ r2 \in AllConditions
    BY <1>8, WithLeavesCondition
  <1>11. Amounts(type, Start(type), q[1], Value(r1, v), v) /\ Amounts(type, Start(type), q[2], Value(r2, v), v)
    BY <1>8, WithLeavesAmount
  <1>12. Value(r1, v) \in tristate /\ Value(r2, v) \in tristate
    BY <1>10, ValueType
  <1>. HIDE DEF r1, r2
  <1>13. PICK c \in tristate : Amounts(type, c, q[1], Value(e1, v), v) /\ Amounts(type, c, q[2], Value(e2, v), v)
    BY <1>7 DEF Share
  <1>14. /\ Value(e1, v) = Joint(type, c, Value(r1, v))
         /\ Value(e2, v) = Joint(type, c, Value(r2, v))
    BY <1>3, <1>8, <1>11, <1>12, <1>13, AmountAndRest
  <1>. QED
    BY <1>4, <1>9, <1>10, <1>14

\* If the operands found equal have one value, so have the conditions (expr.c:251-295).
LEMMA EqualByIsFaithful ==
    ASSUME Conditions = AllConditions, NEW eq, Faithful(eq),
           NEW e1 \in AllConditions, NEW e2 \in AllConditions, EqualBy(eq, e1, e2), NEW v \in Valuations
    PROVE  Value(e1, v) = Value(e2, v)
  <1>0. e1.t = e2.t
    BY DEF EqualBy
  <1>1. CASE e1.t \in Relations \cup {"SYMBOL"}
    BY <1>1 DEF EqualBy, Relations
  <1>2. CASE e1.t = "NULL"
    BY <1>2 DEF EqualBy, Relations
  <1>3. CASE e1.t = "NOT"
    <2>1. PICK a \in AllConditions, b \in AllConditions : e1 = Not(a) /\ e2 = Not(b)
      BY <1>0, <1>3, NotOnly
    <2>2. eq[<<a, b>>]
      BY <1>3, <2>1, Fields DEF EqualBy, Relations
    <2>3. Value(a, v) = Value(b, v)
      BY <2>2 DEF Faithful
    <2>. QED
      BY <2>1, <2>3, ValueIs
  <1>4. ASSUME NEW type \in {"AND", "OR"}, e1.t = type PROVE Value(e1, v) = Value(e2, v)
    <2>. PICK es : es = EliminateChains(eq, type, <<e1, e2>>)
      OBVIOUS
    <2>0. /\ es = <<es[1], es[2]>> /\ es[1] \in AllConditions /\ es[2] \in AllConditions
          /\ e1.t = type => es[1].t = type
          /\ e2.t = type => es[2].t = type
          /\ \E c \in tristate : /\ Value(e1, v) = Joint(type, c, Value(es[1], v))
                                 /\ Value(e2, v) = Joint(type, c, Value(es[2], v))
      BY EliminateChainsIs
    <2>1. /\ es[1] \in AllConditions /\ es[2] \in AllConditions
          /\ es[1].t = type /\ es[2].t = type
          /\ \E c \in tristate : /\ Value(e1, v) = Joint(type, c, Value(es[1], v))
                                 /\ Value(e2, v) = Joint(type, c, Value(es[2], v))
      BY <1>0, <1>4, <2>0
    <2>2. EliminateCommon(eq, e1, e2) = BothWithoutYn(EliminateSecond(eq, es))
      BY <1>0, <1>4, Fields DEF EliminateCommon
    <2>3. EliminateSecond(eq, es) = es
      BY <2>1 DEF EliminateSecond
    <2>4. SameSymbolLeft(EliminateCommon(eq, e1, e2))
      BY <1>4 DEF EqualBy, Relations
    <2>5. WithoutYn[es[1]] = WithoutYn[es[2]]
      BY <2>2, <2>3, <2>4 DEF SameSymbolLeft, BothWithoutYn, expr_eliminate_yn
    <2>6. Value(es[1], v) = Value(es[2], v)
      <3>1. Value(WithoutYn[es[1]], v) = Value(es[1], v) /\ Value(WithoutYn[es[2]], v) = Value(es[2], v)
        BY <2>1, WithoutYnValue
      <3>. QED
        BY <2>5, <3>1
    <2>. QED
      BY <2>1, <2>6
  <1>5. e1.t \in {"NULL", "SYMBOL", "NOT", "AND", "OR"} \cup Relations
    BY Shapes, Fields
  <1>. QED
    BY <1>1, <1>2, <1>3, <1>4, <1>5

\* expr_eq by the depth of its calls.
LEMMA EqualIs ==
    ASSUME Conditions = AllConditions
    PROVE  /\ \A a \in AllConditions, b \in AllConditions : ~Equal[0][<<a, b>>]
           /\ \A n \in Nat : \A a \in AllConditions, b \in AllConditions :
                 Equal[n + 1][<<a, b>>] <=> EqualBy(Equal[n], a, b)
  <1>. DEFINE None == [es \in Conditions \X Conditions |-> FALSE]
              Def(eq, n) == [es \in Conditions \X Conditions |-> EqualBy(eq, es[1], es[2])]
  <1>1. NatInductiveDefHypothesis(Equal, None, Def)
    BY DEF NatInductiveDefHypothesis, Equal
  <1>2. NatInductiveDefConclusion(Equal, None, Def)
    BY <1>1, NatInductiveDef
  <1>3. Equal = [n \in Nat |-> IF n = 0 THEN None ELSE Def(Equal[n - 1], n)]
    BY <1>2 DEF NatInductiveDefConclusion
  <1>. HIDE DEF Def, None
  <1>4. Equal[0] = None /\ \A n \in Nat : Equal[n + 1] = Def(Equal[n], n + 1)
    BY <1>3
  <1>5. \A a \in AllConditions, b \in AllConditions : ~Equal[0][<<a, b>>]
    BY <1>4 DEF None
  <1>6. ASSUME NEW n \in Nat, NEW a \in AllConditions, NEW b \in AllConditions
        PROVE  Equal[n + 1][<<a, b>>] <=> EqualBy(Equal[n], a, b)
    <2>1. Equal[n + 1] = [es \in Conditions \X Conditions |-> EqualBy(Equal[n], es[1], es[2])]
      BY <1>4 DEF Def
    <2>2. <<a, b>> \in Conditions \X Conditions
      OBVIOUS
    <2>. QED
      BY <2>1, <2>2
  <1>. QED
    BY <1>5, <1>6

\* Conditions found equal have one value, at any depth of the calls.
LEMMA EqualIsFaithful ==
    ASSUME Conditions = AllConditions
    PROVE  \A n \in Nat : Faithful(Equal[n])
  <1>. DEFINE S == {n \in Nat : Faithful(Equal[n])}
  <1>1. 0 \in S
    BY EqualIs DEF Faithful
  <1>2. ASSUME NEW n \in Nat, n \in S PROVE n + 1 \in S
    <2>1. Faithful(Equal[n])
      BY <1>2
    <2>2. ASSUME NEW a \in AllConditions, NEW b \in AllConditions, Equal[n + 1][<<a, b>>], NEW v \in Valuations
          PROVE  Value(a, v) = Value(b, v)
      <3>1. EqualBy(Equal[n], a, b)
        BY <2>2, EqualIs
      <3>. QED
        BY <2>1, <3>1, EqualByIsFaithful
    <2>. QED
      BY <2>2 DEF Faithful
  <1>3. Nat \subseteq S
    BY <1>1, <1>2, AllNumbers, Zenon
  <1>. QED
    BY <1>3

\* Two conditions expr_eq takes for equal have the same value.
LEMMA SameIfEqual ==
    ASSUME Conditions = AllConditions, NEW a \in AllConditions, NEW b \in AllConditions, expr_eq(a, b)
    PROVE  \A v \in Valuations : Value(a, v) = Value(b, v)
  BY EqualIsFaithful, CallsAssumption DEF expr_eq, Faithful

--------------------------------------------------------------------------------
(* Comparisons of a bool or a tristate with a constant *)

\* A condition of a type is built like that.
LEMMA Kinds ==
    ASSUME NEW e \in AllConditions
    PROVE  /\ e.t = "SYMBOL" => e.s \in Syms /\ e = Sym(e.s)
           /\ e.t \in Relations => e.s \in Syms /\ e.c \in Syms /\ e = Comp(e.t, e.s, e.c)
           /\ e.t = "NOT" => e.l \in AllConditions /\ e = Not(e.l)
  <1>1. CASE e = Null
    BY <1>1, Fields DEF Relations
  <1>2. ASSUME NEW s \in Syms, e = Sym(s) PROVE e.t = "SYMBOL" /\ e.s = s
    BY <1>2, Fields
  <1>3. ASSUME NEW t \in Relations, NEW a \in Syms, NEW b \in Syms, e = Comp(t, a, b)
        PROVE  e.t = t /\ e.s = a /\ e.c = b
    BY <1>3, Fields
  <1>4. ASSUME NEW l \in AllConditions, e = Not(l) PROVE e.t = "NOT" /\ e.l = l
    BY <1>4, Fields
  <1>5. ASSUME NEW t \in {"AND", "OR"}, NEW l \in AllConditions, NEW r \in AllConditions, e = Two(t, l, r)
        PROVE  e.t = t
    BY <1>5, Fields
  <1>6. CASE \E s \in Syms : e = Sym(s)
    BY <1>2, <1>6 DEF Relations
  <1>7. CASE \E t \in Relations, a \in Syms, b \in Syms : e = Comp(t, a, b)
    BY <1>3, <1>7 DEF Relations
  <1>8. CASE \E l \in AllConditions : e = Not(l)
    BY <1>4, <1>8 DEF Relations
  <1>9. CASE \E t \in {"AND", "OR"}, l \in AllConditions, r \in AllConditions : e = Two(t, l, r)
    BY <1>5, <1>9 DEF Relations
  <1>. QED
    BY <1>1, <1>6, <1>7, <1>8, <1>9, Shapes

\* A bool, a tristate, y, m and n are compared with y, m and n by their texts.
LEMMA ComparedByText ==
    ASSUME NEW v \in Valuations, NEW s \in Switches, NEW c \in {"y", "m", "n"}
    PROVE  CompareSyms(v, s, c) = SignOf(Rank(v[s].str), Rank(v[c].str))
  <1>1. c \in ConstSyms /\ c \in Syms /\ SymType[c] = "unknown" /\ Number(c, 0) = NoNumber /\ v[c].str = c
    <2>1. /\ c \in ConstSyms /\ c \in Syms /\ SymType[c] = "unknown" /\ Number(c, 0) = NoNumber
          /\ ValuationIs(v)
      BY ValuesAssumption DEF Syms
    <2>2. v[c].str = TextOf[v[c].tri + 1]
      BY <2>1 DEF ValuationIs, Syms
    <2>3. v["y"].tri = 2 /\ v["m"].tri = 1 /\ v["n"].tri = 0
      BY <2>1 DEF ValuationIs, yes, mod, no
    <2>. QED
      BY <2>1, <2>2, <2>3 DEF TextOf
  <1>2. expr_parse_string(v[c].str, SymType[c]).kind = "string"
    BY <1>1 DEF expr_parse_string, NumeralOf
  <1>3. SymType[c] # "string"
    BY <1>1
  <1>. QED
    BY <1>2, <1>3 DEF CompareSyms, CompareParsed

\* A switch is equal to y, m or n exactly if it is that.
LEMMA SwitchIs ==
    ASSUME NEW v \in Valuations, NEW s \in Switches
    PROVE  /\ s \in Syms /\ v[s].tri \in tristate
           /\ CompareSyms(v, s, "y") = 0 <=> v[s].tri = yes
           /\ CompareSyms(v, s, "m") = 0 <=> v[s].tri = mod
           /\ CompareSyms(v, s, "n") = 0 <=> v[s].tri = no
  <1>1. s \in Syms /\ {"y", "m", "n"} \subseteq Syms /\ ValuationIs(v)
    BY ValuesAssumption DEF Syms, Switches
  <1>2. v[s].tri \in tristate /\ v[s].str = TextOf[v[s].tri + 1]
    BY <1>1 DEF ValuationIs, Syms, Switches
  <1>3. v["y"].str = "y" /\ v["m"].str = "m" /\ v["n"].str = "n"
    <2>1. /\ v["y"].str = TextOf[v["y"].tri + 1]
          /\ v["m"].str = TextOf[v["m"].tri + 1]
          /\ v["n"].str = TextOf[v["n"].tri + 1]
      BY <1>1 DEF ValuationIs, Syms
    <2>2. v["y"].tri = 2 /\ v["m"].tri = 1 /\ v["n"].tri = 0
      BY <1>1 DEF ValuationIs, yes, mod, no
    <2>. QED
      BY <2>1, <2>2 DEF TextOf
  <1>4. ASSUME NEW c \in {"y", "m", "n"} PROVE CompareSyms(v, s, c) = 0 <=> v[s].str = v[c].str
    <2>1. /\ Rank(v[s].str) \in Int /\ Rank(v[c].str) \in Int
          /\ Rank(v[s].str) = Rank(v[c].str) => v[s].str = v[c].str
      BY <1>1 DEF ValuationIs, Syms
    <2>2. CompareSyms(v, s, c) = SignOf(Rank(v[s].str), Rank(v[c].str))
      BY ComparedByText
    <2>. QED
      BY <2>1, <2>2 DEF SignOf
  <1>5. /\ v[s].str = "y" <=> v[s].tri = 2
        /\ v[s].str = "m" <=> v[s].tri = 1
        /\ v[s].str = "n" <=> v[s].tri = 0
    BY <1>2 DEF TextOf, tristate
  <1>. QED
    BY <1>1, <1>2, <1>3, <1>4, <1>5 DEF yes, mod, no

\* A tristate is equal to one constant only.
LEMMA OneConstant ==
    ASSUME NEW v \in Valuations, NEW s \in Syms, SymType[s] = "tristate",
           NEW c \in ConstSyms, NEW d \in ConstSyms, CompareSyms(v, s, c) = 0, CompareSyms(v, s, d) = 0
    PROVE  c = d
  <1>1. ValuationIs(v) /\ ConstSyms \subseteq Syms
    BY ValuesAssumption DEF Syms
  <1>2. v[s].tri \in tristate /\ v[s].str = TextOf[v[s].tri + 1]
    BY <1>1 DEF ValuationIs, Syms, Bool
  <1>3. expr_parse_string(v[s].str, SymType[s]) = [kind |-> "signed", n |-> v[s].tri]
    BY <1>2 DEF expr_parse_string, TextOf, tristate
  <1>4. ASSUME NEW k \in ConstSyms, CompareSyms(v, s, k) = 0 PROVE v[s].str = v[k].str
    <2>1. SymType[k] = "unknown" /\ Number(v[k].str, 0) \in {NoNumber} \cup (Int \ tristate)
      BY <1>1, ValuesAssumption DEF ValuationIs
    <2>2. CompareSyms(v, s, k) =
             CompareParsed([kind |-> "signed", n |-> v[s].tri], NumeralOf(Number(v[k].str, 0), "signed"),
                           v[s].str, v[k].str)
      BY <1>3, <2>1 DEF CompareSyms, expr_parse_string
    <2>3. CASE Number(v[k].str, 0) = NoNumber
      <3>1. CompareSyms(v, s, k) = SignOf(Rank(v[s].str), Rank(v[k].str))
        BY <2>2, <2>3 DEF CompareParsed, NumeralOf
      <3>2. /\ Rank(v[s].str) \in Int /\ Rank(v[k].str) \in Int
            /\ Rank(v[s].str) = Rank(v[k].str) => v[s].str = v[k].str
        BY <1>1 DEF ValuationIs, Syms
      <3>. QED
        BY <1>4, <3>1, <3>2 DEF SignOf
    <2>4. CASE Number(v[k].str, 0) # NoNumber
      <3>1. CompareSyms(v, s, k) = SignOf(v[s].tri, Number(v[k].str, 0))
        BY <2>2, <2>4 DEF CompareParsed, CompareNumbers, NumeralOf
      <3>. QED
        BY <1>2, <1>4, <2>1, <2>4, <3>1 DEF SignOf, tristate
    <2>. QED
      BY <2>3, <2>4
  <1>5. v[c].str = v[d].str
    BY <1>4
  <1>. QED
    BY <1>1, <1>5 DEF ValuationIs

\* What a comparison with y, m or n is.
LEMMA ComparisonIs ==
    ASSUME Conditions = AllConditions, NEW v \in Valuations, NEW s \in Switches
    PROVE  /\ v[s].tri \in tristate
           /\ Value(Sym(s), v) = v[s].tri
           /\ Value(Comp("EQUAL", s, "y"), v) = IF v[s].tri = 2 THEN 2 ELSE 0
           /\ Value(Comp("EQUAL", s, "m"), v) = IF v[s].tri = 1 THEN 2 ELSE 0
           /\ Value(Comp("EQUAL", s, "n"), v) = IF v[s].tri = 0 THEN 2 ELSE 0
           /\ Value(Comp("UNEQUAL", s, "y"), v) = IF v[s].tri = 2 THEN 0 ELSE 2
           /\ Value(Comp("UNEQUAL", s, "m"), v) = IF v[s].tri = 1 THEN 0 ELSE 2
           /\ Value(Comp("UNEQUAL", s, "n"), v) = IF v[s].tri = 0 THEN 0 ELSE 2
  <1>1. s \in Syms /\ "y" \in Syms /\ "m" \in Syms /\ "n" \in Syms /\ v[s].tri \in tristate
    BY SwitchIs, ValuesAssumption DEF Syms
  <1>2. Value(Sym(s), v) = v[s].tri
    BY <1>1, ValueIs
  <1>3. ASSUME NEW c \in {"y", "m", "n"}
        PROVE  /\ Value(Comp("EQUAL", s, c), v) = IF CompareSyms(v, s, c) = 0 THEN 2 ELSE 0
               /\ Value(Comp("UNEQUAL", s, c), v) = IF CompareSyms(v, s, c) = 0 THEN 0 ELSE 2
    <2>1. c \in Syms /\ "EQUAL" \in Relations /\ "UNEQUAL" \in Relations
      BY <1>1 DEF Relations
    <2>2. /\ Value(Comp("EQUAL", s, c), v) = IF Holds("EQUAL", CompareSyms(v, s, c)) THEN yes ELSE no
          /\ Value(Comp("UNEQUAL", s, c), v) = IF Holds("UNEQUAL", CompareSyms(v, s, c)) THEN yes ELSE no
      BY <1>1, <2>1, ValueIs
    <2>. QED
      BY <2>2 DEF Holds, yes, no
  <1>4. /\ CompareSyms(v, s, "y") = 0 <=> v[s].tri = 2
        /\ CompareSyms(v, s, "m") = 0 <=> v[s].tri = 1
        /\ CompareSyms(v, s, "n") = 0 <=> v[s].tri = 0
    BY SwitchIs DEF yes, mod, no
  <1>. QED
    BY <1>1, <1>2, <1>3, <1>4

--------------------------------------------------------------------------------
(* expr_join_or and expr_join_and *)

\* A bool or a tristate is a switch.
LEMMA Switched ==
    ASSUME NEW s \in Syms, SymType[s] \in {"boolean", "tristate"}
    PROVE  s \in Switches
  BY DEF Switches, Syms, Bool

\* Comparisons of two different constants of y, m and n: what is left is the third.
LEMMA ThirdIs ==
    /\ Third("y", "m") = "n" /\ Third("m", "y") = "n"
    /\ Third("y", "n") = "m" /\ Third("n", "y") = "m"
    /\ Third("m", "n") = "y" /\ Third("n", "m") = "y"
  <1>1. ASSUME NEW a \in {"y", "m", "n"}, NEW b \in {"y", "m", "n"}, NEW c \in {"y", "m", "n"},
               a # b, c \notin {a, b}
        PROVE  Third(a, b) = c
    <2>1. \A x \in {"y", "m", "n"} : x \notin {a, b} <=> x = c
      BY <1>1
    <2>. QED
      BY <2>1 DEF Third
  <1>. QED
    BY <1>1

\* Two comparisons with two of y, m and n.
LEMMA BothCompareIs ==
    ASSUME NEW e1 \in AllConditions, NEW e2 \in AllConditions, NEW t \in {"EQUAL", "UNEQUAL"},
           \E p \in TwoOf : BothCompare(e1, e2, t, p[1], p[2])
    PROVE  /\ e1 = Comp(t, e1.s, e1.c) /\ e2 = Comp(t, e2.s, e2.c) /\ e1.t = t /\ e2.t = t
           /\ <<e1.c, e2.c>> \in {<<"y", "m">>, <<"m", "y">>, <<"y", "n">>, <<"n", "y">>, <<"m", "n">>, <<"n", "m">>}
  <1>1. PICK p \in TwoOf : BothCompare(e1, e2, t, p[1], p[2])
    OBVIOUS
  <1>2. e1.t = t /\ e2.t = t
    BY <1>1 DEF BothCompare
  <1>3. e1 = Comp(t, e1.s, e1.c) /\ e2 = Comp(t, e2.s, e2.c)
    BY <1>2, Kinds DEF Relations
  <1>4. <<e1.c, e2.c>> \in {<<"y", "m">>, <<"m", "y">>, <<"y", "n">>, <<"n", "y">>, <<"m", "n">>, <<"n", "m">>}
    <2>1. \/ p[1] = "y" /\ p[2] = "m"
          \/ p[1] = "y" /\ p[2] = "n"
          \/ p[1] = "m" /\ p[2] = "n"
      BY DEF TwoOf
    <2>2. {e1.c, e2.c} = {p[1], p[2]} /\ e1.c # e2.c
      BY <1>1 DEF BothCompare
    <2>3. (e1.c = p[1] /\ e2.c = p[2]) \/ (e1.c = p[2] /\ e2.c = p[1])
      BY <2>2
    <2>. QED
      BY <2>1, <2>3
  <1>. QED
    BY <1>2, <1>3, <1>4

\* What is joined is what both are together, and mentions no other symbol.
Joins2(j, e1, e2, type, X) ==
    j \in Over(X) /\ \A v \in Valuations : Value(j, v) = Joint(type, Value(e1, v), Value(e2, v))

\* One of two equal operands is enough.
LEMMA JoinEqual ==
    ASSUME Conditions = AllConditions, NEW X, NEW type \in {"AND", "OR"},
           NEW e1 \in Over(X), NEW e2 \in Over(X), expr_eq(e1, e2)
    PROVE  Joins2(e1, e1, e2, type, X)
  <1>1. e1 \in AllConditions /\ e2 \in AllConditions
    BY DEF Over
  <1>2. ASSUME NEW v \in Valuations PROVE Value(e1, v) = Joint(type, Value(e1, v), Value(e2, v))
    BY <1>1, SameIfEqual DEF Joint, Greater, Lesser
  <1>. QED
    BY <1>2 DEF Joins2

\* What expr_join_or makes of two operands has the value of both (expr.c:423-485).
LEMMA JoinOr ==
    ASSUME Conditions = AllConditions, NEW X, Keeping(X), NEW e1 \in Over(X), NEW e2 \in Over(X),
           expr_join_or(e1, e2) # Null
    PROVE  Joins2(expr_join_or(e1, e2), e1, e2, "OR", X)
  <1>. DEFINE a == SubjectOf(e1)
              negated == \/ e1.t = "NOT" /\ e1.l.t = "SYMBOL" /\ e2.t = "SYMBOL"
                         \/ e2.t = "NOT" /\ e2.l.t = "SYMBOL" /\ e1.t = "SYMBOL"
              thirds == SymType[a] = "tristate" /\ \E p \in TwoOf : BothCompare(e1, e2, "EQUAL", p[1], p[2])
              j == expr_join_or(e1, e2)
  <1>0. e1 \in AllConditions /\ e2 \in AllConditions
    BY DEF Over
  <1>1. CASE expr_eq(e1, e2)
    BY <1>1, JoinEqual DEF expr_join_or
  <1>2. CASE ~expr_eq(e1, e2)
    <2>1. SameSymbol(e1, e2)
      BY <1>2 DEF expr_join_or
    <2>2. (thirds /\ j = Comp("UNEQUAL", a, Third(e1.c, e2.c))) \/ (SymType[a] = "boolean" /\ negated /\ j = Sym("y"))
      <3>1. j = CASE thirds -> Comp("UNEQUAL", a, Third(e1.c, e2.c))
                  [] SymType[a] = "boolean" /\ negated -> Sym("y")
                  [] OTHER -> Null
        BY <1>2, <2>1 DEF expr_join_or
      <3>. HIDE DEF thirds, negated, j, a
      <3>2. j # Null
        BY DEF j
      <3>. QED
        BY <3>1, <3>2
    <2>3. CASE thirds /\ j = Comp("UNEQUAL", a, Third(e1.c, e2.c))
      <3>1. /\ e1 = Comp("EQUAL", e1.s, e1.c) /\ e2 = Comp("EQUAL", e2.s, e2.c) /\ e1.t = "EQUAL" /\ e2.t = "EQUAL"
            /\ <<e1.c, e2.c>> \in {<<"y", "m">>, <<"m", "y">>, <<"y", "n">>, <<"n", "y">>, <<"m", "n">>, <<"n", "m">>}
        BY <1>0, <2>3, BothCompareIs
      <3>2. a = e1.s /\ e1.s = e2.s
        BY <2>1, <3>1 DEF SameSymbol, SubjectOf
      <3>3. a \in Syms /\ a \in Switches
        BY <1>0, <2>3, <3>1, <3>2, Kinds, Switched DEF Relations
      <3>4. j \in Over(X)
        <4>1. Third(e1.c, e2.c) \in {"y", "m", "n"}
          BY <3>1, ThirdIs
        <4>2. Third(e1.c, e2.c) \in Syms
          BY <4>1, ValuesAssumption DEF Syms
        <4>. QED
          BY <2>3, <3>3, <4>2, OverIs DEF Relations
      <3>5. ASSUME NEW v \in Valuations PROVE Value(j, v) = Greater(Value(e1, v), Value(e2, v))
        BY <2>3, <3>1, <3>2, <3>3, ComparisonIs, ThirdIs DEF Greater, tristate
      <3>. QED
        BY <3>4, <3>5 DEF Joins2, Joint
    <2>4. CASE SymType[a] = "boolean" /\ negated /\ j = Sym("y")
      <3>1. /\ a \in Syms
            /\ (e1 = Not(Sym(a)) /\ e2 = Sym(a)) \/ (e2 = Not(Sym(a)) /\ e1 = Sym(a))
        <4>1. CASE e1.t = "NOT" /\ e1.l.t = "SYMBOL" /\ e2.t = "SYMBOL"
          <5>1. e1 = Not(e1.l) /\ e1.l \in AllConditions /\ e2 = Sym(e2.s)
            BY <1>0, <4>1, Kinds
          <5>2. e1.l = Sym(e1.l.s) /\ e1.l.s \in Syms
            BY <4>1, <5>1, Kinds
          <5>3. a = e1.l.s /\ e2.s = e1.l.s
            BY <2>1, <4>1 DEF SameSymbol, SubjectOf
          <5>. QED
            BY <5>1, <5>2, <5>3
        <4>2. CASE e2.t = "NOT" /\ e2.l.t = "SYMBOL" /\ e1.t = "SYMBOL"
          <5>1. e2 = Not(e2.l) /\ e2.l \in AllConditions /\ e1 = Sym(e1.s)
            BY <1>0, <4>2, Kinds
          <5>2. e2.l = Sym(e2.l.s) /\ e2.l.s \in Syms
            BY <4>2, <5>1, Kinds
          <5>3. a = e1.s /\ e2.l.s = e1.s
            BY <2>1, <4>2 DEF SameSymbol, SubjectOf
          <5>. QED
            BY <5>1, <5>2, <5>3
        <4>. QED
          BY <2>4, <4>1, <4>2
      <3>2. "y" \in Syms /\ "y" \in X
        BY ValuesAssumption DEF Syms, Keeping
      <3>3. j \in Over(X)
        BY <2>4, <3>2, OverIs
      <3>4. ASSUME NEW v \in Valuations PROVE Value(j, v) = Greater(Value(e1, v), Value(e2, v))
        <4>1. v[a].tri \in tristate /\ v[a].tri # 1 /\ v["y"].tri = 2
          BY <2>4, <3>1, ValuesAssumption DEF ValuationIs, Syms, mod, yes
        <4>2. Value(Sym(a), v) = v[a].tri /\ Value(Sym("y"), v) = 2 /\ Sym(a) \in AllConditions
          BY <3>1, <3>2, <4>1, ValueIs, Built
        <4>3. Value(Not(Sym(a)), v) = 2 - v[a].tri
          BY <4>2, ValueIs
        <4>. QED
          BY <2>4, <3>1, <4>1, <4>2, <4>3 DEF Greater, tristate
      <3>. QED
        BY <3>3, <3>4 DEF Joins2, Joint
    <2>. QED
      BY <2>2, <2>3, <2>4
  <1>. QED
    BY <1>1, <1>2

\* A symbol and a comparison of it with a constant.
LEMMA SymbolAndIs ==
    ASSUME NEW e1 \in AllConditions, NEW e2 \in AllConditions, SameSymbol(e1, e2),
           NEW t \in {"EQUAL", "UNEQUAL"}, NEW c, SymbolAnd(e1, e2, t, c)
    PROVE  /\ SubjectOf(e1) \in Syms /\ SymType[SubjectOf(e1)] \in {"boolean", "tristate"}
           /\ {e1, e2} = {Sym(SubjectOf(e1)), Comp(t, SubjectOf(e1), c)}
  <1>. DEFINE a == SubjectOf(e1)
  <1>1. CASE e1.t = "SYMBOL" /\ e2.t = t /\ e2.c = c
    <2>1. a = e1.s /\ e2.s = e1.s /\ SymType[e1.s] \in {"boolean", "tristate"}
      BY <1>1 DEF SameSymbol, SubjectOf
    <2>2. e1 = Sym(e1.s) /\ e1.s \in Syms /\ e2 = Comp(t, e2.s, c)
      BY <1>1, Kinds DEF Relations
    <2>. QED
      BY <2>1, <2>2
  <1>2. CASE e2.t = "SYMBOL" /\ e1.t = t /\ e1.c = c
    <2>1. a = e1.s /\ e2.s = e1.s /\ SymType[e1.s] \in {"boolean", "tristate"}
      BY <1>2 DEF SameSymbol, SubjectOf
    <2>2. e2 = Sym(e2.s) /\ e2.s \in Syms /\ e1 = Comp(t, e1.s, c)
      BY <1>2, Kinds DEF Relations
    <2>. QED
      BY <2>1, <2>2
  <1>. QED
    BY <1>1, <1>2 DEF SymbolAnd

\* A tristate that is one constant and not another is that constant.
LEMMA EqualAndUnequalIs ==
    ASSUME Conditions = AllConditions, NEW X, Keeping(X), NEW e1 \in Over(X), NEW e2 \in Over(X),
           SameSymbol(e1, e2), SymType[SubjectOf(e1)] = "tristate",
           NEW x \in {e1, e2}, NEW z \in {e1, e2}, EqualAndUnequal(x, z)
    PROVE  Joins2(JoinEqualAndUnequal(x, z), e1, e2, "AND", X)
  <1>0. e1 \in AllConditions /\ e2 \in AllConditions
    BY DEF Over
  <1>1. x.t = "EQUAL" /\ z.t = "UNEQUAL" /\ x.c \in ConstSyms /\ z.c \in ConstSyms
    BY DEF EqualAndUnequal
  <1>2. (x = e1 /\ z = e2) \/ (x = e2 /\ z = e1)
    BY <1>1
  <1>3. x.s = z.s /\ SymType[x.s] = "tristate"
    BY <1>1, <1>2 DEF SameSymbol, SubjectOf
  <1>4. x = Comp("EQUAL", x.s, x.c) /\ x.s \in Syms /\ x.c \in Syms /\ z.c \in Syms
        /\ z = Comp("UNEQUAL", x.s, z.c)
    BY <1>0, <1>1, <1>2, <1>3, Kinds DEF Relations
  <1>5. "EQUAL" \in Relations /\ "UNEQUAL" \in Relations
    BY DEF Relations
  <1>6. ASSUME NEW v \in Valuations
        PROVE  /\ Value(x, v) = IF CompareSyms(v, x.s, x.c) = 0 THEN 2 ELSE 0
               /\ Value(z, v) = IF CompareSyms(v, x.s, z.c) = 0 THEN 0 ELSE 2
    <2>1. Value(Comp("EQUAL", x.s, x.c), v) = IF Holds("EQUAL", CompareSyms(v, x.s, x.c)) THEN yes ELSE no
      BY <1>4, <1>5, ValueIs
    <2>2. Value(Comp("UNEQUAL", x.s, z.c), v) = IF Holds("UNEQUAL", CompareSyms(v, x.s, z.c)) THEN yes ELSE no
      BY <1>4, <1>5, ValueIs
    <2>3. Value(x, v) = IF Holds("EQUAL", CompareSyms(v, x.s, x.c)) THEN yes ELSE no
      BY <2>1, <1>4
    <2>4. Value(z, v) = IF Holds("UNEQUAL", CompareSyms(v, x.s, z.c)) THEN yes ELSE no
      BY <2>2, <1>4
    <2>5. Holds("EQUAL", CompareSyms(v, x.s, x.c)) <=> CompareSyms(v, x.s, x.c) = 0
      BY DEF Holds
    <2>6. Holds("UNEQUAL", CompareSyms(v, x.s, z.c)) <=> CompareSyms(v, x.s, z.c) # 0
      BY DEF Holds
    <2>. QED
      BY <2>3, <2>4, <2>5, <2>6 DEF yes, no
  <1>7. CASE x.c # z.c
    <2>1. JoinEqualAndUnequal(x, z) = x
      BY <1>4, <1>7 DEF JoinEqualAndUnequal
    <2>2. ASSUME NEW v \in Valuations PROVE Value(x, v) = Lesser(Value(x, v), Value(z, v))
      <3>1. ~(CompareSyms(v, x.s, x.c) = 0 /\ CompareSyms(v, x.s, z.c) = 0)
        BY <1>1, <1>3, <1>4, <1>7, OneConstant
      <3>. QED
        BY <1>6, <3>1 DEF Lesser
    <2>3. ASSUME NEW v \in Valuations PROVE Value(x, v) = Lesser(Value(e1, v), Value(e2, v))
      BY <1>2, <1>6, <2>2 DEF Lesser
    <2>. QED
      BY <2>1, <2>3 DEF Joins2, Joint
  <1>8. CASE x.c = z.c
    <2>1. JoinEqualAndUnequal(x, z) = Sym("n")
      BY <1>8 DEF JoinEqualAndUnequal
    <2>2. Sym("n") \in Over(X) /\ "n" \in Syms
      BY ValuesAssumption, OverIs DEF Keeping, Syms
    <2>3. ASSUME NEW v \in Valuations PROVE Value(Sym("n"), v) = Lesser(Value(e1, v), Value(e2, v))
      <3>1. Value(Sym("n"), v) = 0
        BY <2>2, ValueIs, ValuesAssumption DEF ValuationIs, no
      <3>. QED
        BY <1>2, <1>6, <1>8, <3>1 DEF Lesser
    <2>. QED
      BY <2>1, <2>2, <2>3 DEF Joins2, Joint
  <1>. QED
    BY <1>7, <1>8

\* What expr_join_and makes of two operands has the value of both (expr.c:487-579).
LEMMA JoinAnd ==
    ASSUME Conditions = AllConditions, NEW X, Keeping(X), NEW e1 \in Over(X), NEW e2 \in Over(X),
           expr_join_and(e1, e2) # Null
    PROVE  Joins2(expr_join_and(e1, e2), e1, e2, "AND", X)
  <1>. DEFINE a == SubjectOf(e1)
              tri == SymType[a] = "tristate"
              thirds == tri /\ \E p \in TwoOf : BothCompare(e1, e2, "UNEQUAL", p[1], p[2])
              j == expr_join_and(e1, e2)
  <1>0. e1 \in AllConditions /\ e2 \in AllConditions
    BY DEF Over
  <1>1. CASE expr_eq(e1, e2)
    BY <1>1, JoinEqual DEF expr_join_and
  <1>2. CASE ~expr_eq(e1, e2)
    <2>1. SameSymbol(e1, e2)
      BY <1>2 DEF expr_join_and
    <2>2. \/ SymbolAnd(e1, e2, "EQUAL", "y") /\ j = Comp("EQUAL", a, "y")
          \/ SymbolAnd(e1, e2, "UNEQUAL", "n") /\ j = Sym(a)
          \/ SymbolAnd(e1, e2, "UNEQUAL", "m") /\ j = Comp("EQUAL", a, "y")
          \/ tri /\ EqualAndUnequal(e1, e2) /\ j = JoinEqualAndUnequal(e1, e2)
          \/ tri /\ EqualAndUnequal(e2, e1) /\ j = JoinEqualAndUnequal(e2, e1)
          \/ thirds /\ j = Comp("EQUAL", a, Third(e1.c, e2.c))
      <3>1. j = CASE SymbolAnd(e1, e2, "EQUAL", "y") -> Comp("EQUAL", a, "y")
                  [] SymbolAnd(e1, e2, "UNEQUAL", "n") -> Sym(a)
                  [] SymbolAnd(e1, e2, "UNEQUAL", "m") -> Comp("EQUAL", a, "y")
                  [] tri /\ EqualAndUnequal(e1, e2) -> JoinEqualAndUnequal(e1, e2)
                  [] tri /\ EqualAndUnequal(e2, e1) -> JoinEqualAndUnequal(e2, e1)
                  [] thirds -> Comp("EQUAL", a, Third(e1.c, e2.c))
                  [] OTHER -> Null
        BY <1>2, <2>1 DEF expr_join_and
      <3>. HIDE DEF thirds, tri, j, a
      <3>2. j # Null
        BY DEF j
      <3>. QED
        BY <3>1, <3>2
    <2>3. ASSUME NEW t \in {"EQUAL", "UNEQUAL"}, NEW c \in {"y", "m", "n"}, SymbolAnd(e1, e2, t, c)
          PROVE  /\ a \in Switches /\ a \in Syms /\ Sym(a) \in Over(X)
                 /\ {e1, e2} = {Sym(a), Comp(t, a, c)}
      <3>1. /\ a \in Syms /\ SymType[a] \in {"boolean", "tristate"}
            /\ {e1, e2} = {Sym(a), Comp(t, a, c)}
        BY <1>0, <2>1, <2>3, SymbolAndIs
      <3>. HIDE DEF a
      <3>2. a \in Switches
        BY <3>1, Switched
      <3>. QED
        BY <3>1, <3>2
    <2>4. "y" \in Syms /\ "EQUAL" \in Relations
      BY ValuesAssumption DEF Syms, Relations
    <2>5. CASE SymbolAnd(e1, e2, "EQUAL", "y") /\ j = Comp("EQUAL", a, "y")
      <3>1. /\ a \in Switches /\ a \in Syms /\ {e1, e2} = {Sym(a), Comp("EQUAL", a, "y")}
        BY <2>3, <2>5
      <3>2. j \in Over(X)
        BY <2>4, <2>5, <3>1, OverIs
      <3>3. (e1 = Sym(a) /\ e2 = Comp("EQUAL", a, "y")) \/ (e2 = Sym(a) /\ e1 = Comp("EQUAL", a, "y"))
        <4>. HIDE DEF a
        <4>1. Sym(a) # Comp("EQUAL", a, "y")
          BY Fields
        <4>. QED
          BY <3>1, <4>1
      <3>4. ASSUME NEW v \in Valuations PROVE Value(j, v) = Lesser(Value(e1, v), Value(e2, v))
        <4>. HIDE DEF a
        <4>1. /\ v[a].tri \in tristate /\ Value(Sym(a), v) = v[a].tri
              /\ Value(Comp("EQUAL", a, "y"), v) = IF v[a].tri = 2 THEN 2 ELSE 0
          BY <3>1, ComparisonIs
        <4>. QED
          BY <2>5, <3>3, <4>1 DEF Lesser, tristate, a
      <3>. QED
        BY <3>2, <3>4 DEF Joins2, Joint
    <2>6. CASE SymbolAnd(e1, e2, "UNEQUAL", "n") /\ j = Sym(a)
      <3>1. /\ a \in Switches /\ a \in Syms /\ Sym(a) \in Over(X) /\ {e1, e2} = {Sym(a), Comp("UNEQUAL", a, "n")}
        BY <2>3, <2>6
      <3>3. (e1 = Sym(a) /\ e2 = Comp("UNEQUAL", a, "n")) \/ (e2 = Sym(a) /\ e1 = Comp("UNEQUAL", a, "n"))
        <4>. HIDE DEF a
        <4>1. Sym(a) # Comp("UNEQUAL", a, "n")
          BY Fields
        <4>. QED
          BY <3>1, <4>1
      <3>4. ASSUME NEW v \in Valuations PROVE Value(j, v) = Lesser(Value(e1, v), Value(e2, v))
        <4>. HIDE DEF a
        <4>1. /\ v[a].tri \in tristate /\ Value(Sym(a), v) = v[a].tri
              /\ Value(Comp("UNEQUAL", a, "n"), v) = IF v[a].tri = 0 THEN 0 ELSE 2
          BY <3>1, ComparisonIs
        <4>. QED
          BY <2>6, <3>3, <4>1 DEF Lesser, tristate, a
      <3>. QED
        BY <2>6, <3>1, <3>4 DEF Joins2, Joint
    <2>7. CASE SymbolAnd(e1, e2, "UNEQUAL", "m") /\ j = Comp("EQUAL", a, "y")
      <3>1. /\ a \in Switches /\ a \in Syms /\ {e1, e2} = {Sym(a), Comp("UNEQUAL", a, "m")}
        BY <2>3, <2>7
      <3>2. j \in Over(X)
        BY <2>4, <2>7, <3>1, OverIs
      <3>3. (e1 = Sym(a) /\ e2 = Comp("UNEQUAL", a, "m")) \/ (e2 = Sym(a) /\ e1 = Comp("UNEQUAL", a, "m"))
        <4>. HIDE DEF a
        <4>1. Sym(a) # Comp("UNEQUAL", a, "m")
          BY Fields
        <4>. QED
          BY <3>1, <4>1
      <3>4. ASSUME NEW v \in Valuations PROVE Value(j, v) = Lesser(Value(e1, v), Value(e2, v))
        <4>. HIDE DEF a
        <4>1. /\ v[a].tri \in tristate /\ Value(Sym(a), v) = v[a].tri
              /\ Value(Comp("UNEQUAL", a, "m"), v) = IF v[a].tri = 1 THEN 0 ELSE 2
              /\ Value(Comp("EQUAL", a, "y"), v) = IF v[a].tri = 2 THEN 2 ELSE 0
          BY <3>1, ComparisonIs
        <4>. QED
          BY <2>7, <3>3, <4>1 DEF Lesser, tristate, a
      <3>. QED
        BY <3>2, <3>4 DEF Joins2, Joint
    <2>8. CASE tri /\ EqualAndUnequal(e1, e2) /\ j = JoinEqualAndUnequal(e1, e2)
      BY <2>1, <2>8, EqualAndUnequalIs
    <2>9. CASE tri /\ EqualAndUnequal(e2, e1) /\ j = JoinEqualAndUnequal(e2, e1)
      BY <2>1, <2>9, EqualAndUnequalIs
    <2>10. CASE thirds /\ j = Comp("EQUAL", a, Third(e1.c, e2.c))
      <3>1. /\ e1 = Comp("UNEQUAL", e1.s, e1.c) /\ e2 = Comp("UNEQUAL", e2.s, e2.c)
            /\ e1.t = "UNEQUAL" /\ e2.t = "UNEQUAL"
            /\ <<e1.c, e2.c>> \in {<<"y", "m">>, <<"m", "y">>, <<"y", "n">>, <<"n", "y">>, <<"m", "n">>, <<"n", "m">>}
        BY <1>0, <2>10, BothCompareIs
      <3>2. a = e1.s /\ e1.s = e2.s
        BY <2>1, <3>1 DEF SameSymbol, SubjectOf
      <3>3. a \in Syms /\ a \in Switches
        BY <1>0, <2>10, <3>1, <3>2, Kinds, Switched DEF Relations
      <3>4. j \in Over(X)
        <4>1. Third(e1.c, e2.c) \in {"y", "m", "n"}
          BY <3>1, ThirdIs
        <4>2. Third(e1.c, e2.c) \in Syms
          BY <4>1, ValuesAssumption DEF Syms
        <4>. QED
          BY <2>10, <3>3, <4>2, OverIs DEF Relations
      <3>5. ASSUME NEW v \in Valuations PROVE Value(j, v) = Lesser(Value(e1, v), Value(e2, v))
        BY <2>10, <3>1, <3>2, <3>3, ComparisonIs, ThirdIs DEF Lesser, tristate
      <3>. QED
        BY <3>4, <3>5 DEF Joins2, Joint
    <2>. QED
      BY <2>2, <2>5, <2>6, <2>7, <2>8, <2>9, <2>10
  <1>. QED
    BY <1>1, <1>2

\* A joined operand has the value of both.
LEMMA JoinIs ==
    ASSUME Conditions = AllConditions, NEW X, Keeping(X), NEW type \in {"AND", "OR"},
           NEW e1 \in Over(X), NEW e2 \in Over(X), expr_join(type, e1, e2) # Null
    PROVE  Joins2(expr_join(type, e1, e2), e1, e2, type, X)
  <1>1. CASE type = "OR"
    <2>1. expr_join(type, e1, e2) = expr_join_or(e1, e2)
      BY <1>1 DEF expr_join
    <2>. QED
      BY <1>1, <2>1, JoinOr
  <1>2. CASE type = "AND"
    <2>1. expr_join(type, e1, e2) = expr_join_and(e1, e2)
      BY <1>2 DEF expr_join
    <2>. QED
      BY <1>2, <2>1, JoinAnd
  <1>. QED
    BY <1>1, <1>2

--------------------------------------------------------------------------------
(* expr_eliminate_dups *)

\* What f makes of a condition has its value, and mentions no other symbol.
Kept(a, e, X) == a \in Over(X) /\ \A v \in Valuations : Value(a, v) = Value(e, v)
KeepsEach(f, X) == \A e \in Over(X) : Kept(f[e].e, e, X)

\* n operands that are together x for each valuation.
Chain(ls, n, X) == ls \in Seq(Over(X)) /\ Len(ls) = n
Together(type, ls, e) ==
    \A v \in Valuations : Amounts(type, Start(type), ls, Value(e, v), v)

\* What is over X is a condition.
LEMMA OverConditions == ASSUME NEW X PROVE Over(X) \subseteq AllConditions
  BY DEF Over

\* A pair of operands that is joined, or not, leaves the value of the chain.
LEMMA JoinPairIs ==
    ASSUME Conditions = AllConditions, NEW X, Keeping(X), NEW type \in {"AND", "OR"},
           NEW inner, KeepsEach(inner, X), NEW p, NEW n \in Nat, Chain(p.ls, n, X),
           NEW i \in 1..n, NEW j \in 1..n, NEW e \in AllConditions, Together(type, p.ls, e)
    PROVE  /\ Chain(JoinPair(inner, type, p, i, j).ls, n, X)
           /\ Together(type, JoinPair(inner, type, p, i, j).ls, e)
  <1>. DEFINE x == inner[p.ls[i]].e
              join == expr_join(type, x, p.ls[j])
              q == JoinPair(inner, type, p, i, j)
  <1>1. CASE i = j
    BY <1>1 DEF JoinPair
  <1>2. CASE i # j
    <2>1. /\ p.ls \in Seq(Over(X)) /\ p.ls \in Seq(AllConditions) /\ Len(p.ls) = n
          /\ p.ls[i] \in Over(X) /\ p.ls[j] \in Over(X)
          /\ p.ls[i] \in AllConditions /\ p.ls[j] \in AllConditions
      BY OverConditions DEF Chain
    <2>2. x \in Over(X) /\ x \in AllConditions /\ \A v \in Valuations : Value(x, v) = Value(p.ls[i], v)
      BY <2>1, OverConditions DEF KeepsEach, Kept
    <2>3. q.ls = IF join = Null THEN [p.ls EXCEPT ![i] = x]
                 ELSE [p.ls EXCEPT ![i] = Neutral(type), ![j] = join]
      BY <1>2 DEF JoinPair, JoinSimplified, Joined
    <2>4. /\ \A v \in Valuations : Amounts(type, Start(type), p.ls, Value(e, v), v) /\ Value(e, v) \in tristate
          /\ Start(type) \in tristate
      BY ValueType DEF Together, Start, tristate, yes, no
    <2>. HIDE DEF q, x, join
    <2>5. ASSUME join = Null PROVE Chain(q.ls, n, X) /\ Together(type, q.ls, e)
      <3>. DEFINE ms == [p.ls EXCEPT ![i] = x]
      <3>1. Chain(ms, n, X)
        BY <2>1, <2>2 DEF Chain
      <3>2. ASSUME NEW v \in Valuations PROVE Amounts(type, Start(type), ms, Value(e, v), v)
        BY <2>1, <2>2, <2>4, AmountOfSame
      <3>. QED
        BY <2>3, <2>5, <3>1, <3>2 DEF Together
    <2>6. ASSUME join # Null PROVE Chain(q.ls, n, X) /\ Together(type, q.ls, e)
      <3>. DEFINE ms == [p.ls EXCEPT ![i] = Neutral(type), ![j] = join]
      <3>1. Joins2(join, x, p.ls[j], type, X)
        BY <2>1, <2>2, <2>6, JoinIs DEF join
      <3>2. join \in Over(X) /\ join \in AllConditions
        BY <3>1, OverConditions DEF Joins2
      <3>3. Neutral(type) \in Over(X) /\ Neutral(type) \in AllConditions
        BY NeutralIs
      <3>4. Chain(ms, n, X)
        BY <2>1, <3>2, <3>3 DEF Chain
      <3>5. ASSUME NEW v \in Valuations PROVE Amounts(type, Start(type), ms, Value(e, v), v)
        <4>1. Value(join, v) = Joint(type, Value(p.ls[i], v), Value(p.ls[j], v))
          BY <2>2, <3>1 DEF Joins2
        <4>2. Value(Neutral(type), v) = Start(type)
          BY NeutralIs
        <4>3. i \in 1..Len(p.ls) /\ j \in 1..Len(p.ls)
          BY <2>1
        <4>4. Amounts(type, Start(type), p.ls, Value(e, v), v) /\ Value(e, v) \in tristate
          BY <2>4
        <4>. QED
          BY <1>2, <2>1, <2>4, <3>2, <3>3, <4>1, <4>2, <4>3, <4>4, AmountOfJoined
      <3>. QED
        BY <2>3, <2>6, <3>4, <3>5 DEF Together
    <2>. QED
      BY <2>5, <2>6 DEF q
  <1>. QED
    BY <1>1, <1>2

\* The pairs one after the other.
LEMMA JoinedInIs ==
    ASSUME NEW inner, NEW type, NEW p, NEW ijs
    PROVE  LET f == JoinedIn(inner, type, p, ijs)
           IN  /\ f[0] = p
               /\ \A k \in Nat : f[k + 1] = JoinPair(inner, type, f[k], ijs[k + 1][1], ijs[k + 1][2])
  <1>. DEFINE Def(q, k) == JoinPair(inner, type, q, ijs[k][1], ijs[k][2])
              f == JoinedIn(inner, type, p, ijs)
  <1>1. NatInductiveDefHypothesis(f, p, Def)
    BY DEF NatInductiveDefHypothesis, JoinedIn
  <1>2. NatInductiveDefConclusion(f, p, Def)
    BY <1>1, NatInductiveDef
  <1>3. f = [k \in Nat |-> IF k = 0 THEN p ELSE Def(f[k - 1], k)]
    BY <1>2 DEF NatInductiveDefConclusion
  <1>. HIDE DEF Def, f
  <1>4. f[0] = p /\ \A k \in Nat : f[k + 1] = Def(f[k], k + 1)
    BY <1>3
  <1>. QED
    BY <1>4 DEF Def, f

\* All the pairs leave the value of the chain.
LEMMA JoinPairsIs ==
    ASSUME Conditions = AllConditions, NEW X, Keeping(X), NEW type \in {"AND", "OR"},
           NEW inner, KeepsEach(inner, X), NEW p, NEW n \in Nat, Chain(p.ls, n, X),
           NEW e \in AllConditions, Together(type, p.ls, e)
    PROVE  /\ Chain(JoinPairs(inner, type, p, Pairs(n, n)).ls, n, X)
           /\ Together(type, JoinPairs(inner, type, p, Pairs(n, n)).ls, e)
  <1>. DEFINE ijs == Pairs(n, n)
              f == JoinedIn(inner, type, p, ijs)
              S == {k \in Nat : k <= Len(ijs) => Chain(f[k].ls, n, X) /\ Together(type, f[k].ls, e)}
  <1>0. Len(ijs) \in Nat /\ \A k \in 1..Len(ijs) : ijs[k][1] \in 1..n /\ ijs[k][2] \in 1..n
    BY PairsAreIndices
  <1>. HIDE DEF ijs
  <1>1. f[0] = p /\ \A k \in Nat : f[k + 1] = JoinPair(inner, type, f[k], ijs[k + 1][1], ijs[k + 1][2])
    BY JoinedInIs
  <1>. HIDE DEF f
  <1>2. 0 \in S
    BY <1>1
  <1>3. ASSUME NEW k \in Nat, k \in S PROVE k + 1 \in S
    <2>1. SUFFICES ASSUME k + 1 <= Len(ijs)
                   PROVE  Chain(f[k + 1].ls, n, X) /\ Together(type, f[k + 1].ls, e)
      OBVIOUS
    <2>2. k + 1 \in 1..Len(ijs) /\ k <= Len(ijs)
      BY <1>0, <2>1
    <2>3. Chain(f[k].ls, n, X) /\ Together(type, f[k].ls, e)
      BY <1>3, <2>2
    <2>4. ijs[k + 1][1] \in 1..n /\ ijs[k + 1][2] \in 1..n
      BY <1>0, <2>2
    <2>5. f[k + 1] = JoinPair(inner, type, f[k], ijs[k + 1][1], ijs[k + 1][2])
      BY <1>1
    <2>. DEFINE g == f[k]
                i == ijs[k + 1][1]
                j == ijs[k + 1][2]
    <2>. HIDE DEF S, g, i, j
    <2>6. Chain(g.ls, n, X) /\ Together(type, g.ls, e) /\ i \in 1..n /\ j \in 1..n
      BY <2>3, <2>4 DEF g, i, j
    <2>7. /\ Chain(JoinPair(inner, type, g, i, j).ls, n, X)
          /\ Together(type, JoinPair(inner, type, g, i, j).ls, e)
      BY <2>6, JoinPairIs
    <2>. QED
      BY <2>5, <2>7 DEF g, i, j
  <1>4. Nat \subseteq S
    BY <1>2, <1>3, AllNumbers, Zenon
  <1>5. Chain(f[Len(ijs)].ls, n, X) /\ Together(type, f[Len(ijs)].ls, e)
    BY <1>0, <1>4
  <1>. QED
    BY <1>5 DEF JoinPairs, f, ijs

\* A chain after a pass has its value.
LEMMA JoinLeavesIs ==
    ASSUME Conditions = AllConditions, NEW X, Keeping(X), NEW type \in {"AND", "OR"},
           NEW inner, KeepsEach(inner, X), NEW e \in Over(X)
    PROVE  Kept(JoinLeaves(inner, type, e, Leaves(type, e)).e, e, X)
  <1>. DEFINE ls == Leaves(type, e)
              n == Len(ls)
              p == [ls |-> ls, count |-> 0]
              done == JoinPairs(inner, type, p, Pairs(n, n))
              a == WithLeaves(type, e, done.ls)
  <1>1. e \in AllConditions
    BY OverConditions
  <1>2. ls \in Seq(Over(X)) /\ n \in Nat
    BY <1>1, LeavesType
  <1>3. Together(type, ls, e)
    BY <1>1, LeavesAmount DEF Together
  <1>4. JoinLeaves(inner, type, e, ls).e = a
    BY DEF JoinLeaves, Rejoined
  <1>5. p.ls = ls
    OBVIOUS
  <1>. HIDE DEF p, a
  <1>6. Chain(p.ls, n, X) /\ Together(type, p.ls, e)
    BY <1>2, <1>3, <1>5 DEF Chain
  <1>. HIDE DEF ls, n
  <1>7. Chain(done.ls, n, X) /\ Together(type, done.ls, e)
    BY <1>1, <1>2, <1>6, JoinPairsIs
  <1>. HIDE DEF done
  <1>8. done.ls \in Seq(Over(X)) /\ done.ls \in Seq(AllConditions) /\ Len(done.ls) = Len(Leaves(type, e))
    BY <1>7, OverConditions DEF Chain, n, ls
  <1>9. a \in Over(X) /\ a \in AllConditions
    BY <1>1, <1>8, WithLeavesType, OverConditions DEF a
  <1>10. ASSUME NEW v \in Valuations PROVE Value(a, v) = Value(e, v)
    <2>1. Amounts(type, Start(type), done.ls, Value(a, v), v)
      BY <1>1, <1>8, WithLeavesAmount DEF a
    <2>2. Amounts(type, Start(type), done.ls, Value(e, v), v)
      BY <1>7 DEF Together
    <2>3. Value(a, v) \in tristate /\ Value(e, v) \in tristate /\ Start(type) \in tristate
      BY <1>1, <1>9, ValueType DEF Start, tristate, yes, no
    <2>. QED
      BY <1>8, <2>1, <2>2, <2>3, OneAmount
  <1>. QED
    BY <1>4, <1>9, <1>10 DEF Kept, ls

\* expr_eliminate_dups1 by the depth of its calls.
LEMMA JoinsIs ==
    ASSUME Conditions = AllConditions
    PROVE  /\ Joins[0] = [e \in AllConditions |-> AsItIs(e)]
           /\ \A n \in Nat : Joins[n + 1] =
                 [e \in AllConditions |->
                    IF e.t \in {"AND", "OR"} THEN JoinLeaves(Joins[n], e.t, e, Leaves(e.t, e)) ELSE AsItIs(e)]
  <1>. DEFINE First == [e \in AllConditions |-> AsItIs(e)]
              Def(joins, n) ==
                 [e \in AllConditions |->
                    IF e.t \in {"AND", "OR"} THEN JoinLeaves(joins, e.t, e, Leaves(e.t, e)) ELSE AsItIs(e)]
  <1>1. NatInductiveDefHypothesis(Joins, First, Def)
    BY DEF NatInductiveDefHypothesis, Joins
  <1>2. NatInductiveDefConclusion(Joins, First, Def)
    BY <1>1, NatInductiveDef
  <1>3. Joins = [n \in Nat |-> IF n = 0 THEN First ELSE Def(Joins[n - 1], n)]
    BY <1>2 DEF NatInductiveDefConclusion
  <1>. HIDE DEF Def, First
  <1>4. Joins[0] = First /\ \A n \in Nat : Joins[n + 1] = Def(Joins[n], n + 1)
    BY <1>3
  <1>. QED
    BY <1>4 DEF Def, First

\* expr_eliminate_dups1 keeps the value, at any depth of the calls.
LEMMA JoinsKeeps ==
    ASSUME Conditions = AllConditions, NEW X, Keeping(X), NEW n \in Nat
    PROVE  KeepsEach(Joins[n], X)
  <1>. DEFINE S == {k \in Nat : KeepsEach(Joins[k], X)}
  <1>0. ASSUME NEW e \in AllConditions PROVE AsItIs(e).e = e
    BY DEF AsItIs
  <1>1. 0 \in S
    <2>1. ASSUME NEW e \in Over(X) PROVE Kept(Joins[0][e].e, e, X)
      BY <1>0, JoinsIs, OverConditions DEF Kept
    <2>. QED
      BY <2>1 DEF KeepsEach
  <1>2. ASSUME NEW k \in Nat, k \in S PROVE k + 1 \in S
    <2>1. KeepsEach(Joins[k], X)
      BY <1>2
    <2>2. ASSUME NEW e \in Over(X) PROVE Kept(Joins[k + 1][e].e, e, X)
      <3>1. e \in AllConditions
        BY OverConditions
      <3>2. Joins[k + 1][e] = IF e.t \in {"AND", "OR"} THEN JoinLeaves(Joins[k], e.t, e, Leaves(e.t, e)) ELSE AsItIs(e)
        <4>1. Joins[k + 1] =
                 [x \in AllConditions |->
                    IF x.t \in {"AND", "OR"} THEN JoinLeaves(Joins[k], x.t, x, Leaves(x.t, x)) ELSE AsItIs(x)]
          BY JoinsIs
        <4>. QED
          BY <3>1, <4>1, Zenon
      <3>3. CASE e.t \in {"AND", "OR"}
        <4>1. Kept(JoinLeaves(Joins[k], e.t, e, Leaves(e.t, e)).e, e, X)
          BY <2>1, <3>3, JoinLeavesIs
        <4>. QED
          BY <3>2, <3>3, <4>1
      <3>4. CASE e.t \notin {"AND", "OR"}
        BY <1>0, <3>1, <3>2, <3>4 DEF Kept
      <3>. QED
        BY <3>3, <3>4
    <2>3. KeepsEach(Joins[k + 1], X)
      BY <2>2 DEF KeepsEach
    <2>. QED
      BY <2>3
  <1>3. Nat \subseteq S
    BY <1>1, <1>2, AllNumbers, Zenon
  <1>. QED
    BY <1>3

\* expr_eliminate_dups by the number of passes.
LEMMA PassesIs ==
    ASSUME Conditions = AllConditions
    PROVE  /\ Passes[0] = [e \in AllConditions |-> e]
           /\ \A n \in Nat : Passes[n + 1] =
                 [e \in AllConditions |->
                    IF e.t \in {"AND", "OR"} THEN NextPass(Passes[n], expr_eliminate_dups1(e)) ELSE e]
  <1>. DEFINE First == [e \in AllConditions |-> e]
              Def(passes, n) ==
                 [e \in AllConditions |->
                    IF e.t \in {"AND", "OR"} THEN NextPass(passes, expr_eliminate_dups1(e)) ELSE e]
  <1>1. NatInductiveDefHypothesis(Passes, First, Def)
    BY DEF NatInductiveDefHypothesis, Passes
  <1>2. NatInductiveDefConclusion(Passes, First, Def)
    BY <1>1, NatInductiveDef
  <1>3. Passes = [n \in Nat |-> IF n = 0 THEN First ELSE Def(Passes[n - 1], n)]
    BY <1>2 DEF NatInductiveDefConclusion
  <1>. HIDE DEF Def, First
  <1>4. Passes[0] = First /\ \A n \in Nat : Passes[n + 1] = Def(Passes[n], n + 1)
    BY <1>3
  <1>. QED
    BY <1>4 DEF Def, First

\* Nothing is lost with the duplicates.
LEMMA EliminateDupsKeeps ==
    ASSUME Conditions = AllConditions, NEW X, Keeping(X), NEW d \in Over(X)
    PROVE  Kept(expr_eliminate_dups(d), d, X)
  <1>. DEFINE S == {k \in Nat : \A e \in Over(X) : Kept(Passes[k][e], e, X)}
  <1>1. 0 \in S
    BY PassesIs, OverConditions DEF Kept
  <1>2. ASSUME NEW k \in Nat, k \in S PROVE k + 1 \in S
    <2>1. \A e \in Over(X) : Kept(Passes[k][e], e, X)
      BY <1>2
    <2>2. ASSUME NEW e \in Over(X) PROVE Kept(Passes[k + 1][e], e, X)
      <3>1. e \in AllConditions
        BY OverConditions
      <3>2. Passes[k + 1][e] = IF e.t \in {"AND", "OR"} THEN NextPass(Passes[k], expr_eliminate_dups1(e)) ELSE e
        <4>1. Passes[k + 1] =
                 [x \in AllConditions |->
                    IF x.t \in {"AND", "OR"} THEN NextPass(Passes[k], expr_eliminate_dups1(x)) ELSE x]
          BY PassesIs
        <4>. QED
          BY <3>1, <4>1, Zenon
      <3>3. CASE e.t \in {"AND", "OR"}
        <4>. DEFINE pass == expr_eliminate_dups1(e)
                    a == WithoutYn[pass.e]
        <4>1. Kept(pass.e, e, X)
          BY CallsAssumption, JoinsKeeps DEF KeepsEach, expr_eliminate_dups1
        <4>2. Passes[k + 1][e] = IF pass.count = 0 THEN pass.e ELSE Passes[k][a]
          BY <3>2, <3>3 DEF NextPass, expr_eliminate_yn
        <4>. HIDE DEF pass
        <4>3. a \in Over(X) /\ \A v \in Valuations : Value(a, v) = Value(e, v)
          BY <4>1, OverConditions, WithoutYnType, WithoutYnValue DEF Kept
        <4>. HIDE DEF a
        <4>4. Kept(Passes[k][a], e, X)
          BY <2>1, <4>3 DEF Kept
        <4>. QED
          BY <4>1, <4>2, <4>4
      <3>4. CASE e.t \notin {"AND", "OR"}
        BY <3>2, <3>4 DEF Kept
      <3>. QED
        BY <3>3, <3>4
    <2>. QED
      BY <2>2
  <1>3. Nat \subseteq S
    BY <1>1, <1>2, AllNumbers, Zenon
  <1>4. MaxCalls \in S
    BY <1>3, CallsAssumption
  <1>. QED
    BY <1>4 DEF expr_eliminate_dups


--------------------------------------------------------------------------------
(* expr_transform *)

\* Two symbols compare in one of three ways.
LEMMA SignsOf ==
    ASSUME NEW v, NEW a, NEW b
    PROVE  CompareSyms(v, a, b) \in {-1, 0, 1}
  <1>1. \A x, y : SignOf(x, y) \in {-1, 0, 1}
    BY DEF SignOf
  <1>2. \A x, y : UnsignedSignOf(x, y) \in {-1, 0, 1}
    BY <1>1 DEF UnsignedSignOf
  <1>3. \A p, q : CompareNumbers(p, q) \in {-1, 0, 1}
    BY <1>1, <1>2 DEF CompareNumbers
  <1>4. \A p, q, x, y : CompareParsed(p, q, x, y) \in {-1, 0, 1}
    BY <1>1, <1>3 DEF CompareParsed
  <1>. QED
    BY <1>1, <1>4 DEF CompareSyms

\* The opposite comparison is the negation.
LEMMA OppositeIs ==
    ASSUME Conditions = AllConditions, NEW v, NEW t \in Relations, NEW a \in Syms, NEW b \in Syms
    PROVE  /\ Opposite[t] \in Relations
           /\ Value(Comp(Opposite[t], a, b), v) = 2 - Value(Comp(t, a, b), v)
  <1>1. Opposite[t] \in Relations
    BY DEF Opposite, Relations
  <1>2. ASSUME NEW sign \in {-1, 0, 1} PROVE Holds(Opposite[t], sign) <=> ~Holds(t, sign)
    <2>1. \/ t = "EQUAL" /\ Opposite[t] = "UNEQUAL"
          \/ t = "UNEQUAL" /\ Opposite[t] = "EQUAL"
          \/ t = "LEQ" /\ Opposite[t] = "GTH"
          \/ t = "GEQ" /\ Opposite[t] = "LTH"
          \/ t = "LTH" /\ Opposite[t] = "GEQ"
          \/ t = "GTH" /\ Opposite[t] = "LEQ"
      BY DEF Opposite, Relations
    <2>2. /\ Holds("EQUAL", sign) <=> sign = 0
          /\ Holds("UNEQUAL", sign) <=> sign # 0
          /\ Holds("LTH", sign) <=> sign < 0
          /\ Holds("LEQ", sign) <=> sign <= 0
          /\ Holds("GTH", sign) <=> sign > 0
          /\ Holds("GEQ", sign) <=> sign >= 0
      BY DEF Holds
    <2>3. (sign < 0 <=> ~(sign >= 0)) /\ (sign <= 0 <=> ~(sign > 0))
      OBVIOUS
    <2>. QED
      BY <2>1, <2>2, <2>3
  <1>3. Holds(Opposite[t], CompareSyms(v, a, b)) <=> ~Holds(t, CompareSyms(v, a, b))
    BY <1>2, SignsOf
  <1>4. Value(Comp(t, a, b), v) = IF Holds(t, CompareSyms(v, a, b)) THEN yes ELSE no
    BY ValueIs
  <1>5. Value(Comp(Opposite[t], a, b), v) = IF Holds(Opposite[t], CompareSyms(v, a, b)) THEN yes ELSE no
    BY <1>1, ValueIs
  <1>. QED
    BY <1>1, <1>3, <1>4, <1>5 DEF yes, no

\* A bool compared with a constant.
LEMMA BoolIs ==
    ASSUME Conditions = AllConditions, NEW X, Keeping(X), NEW s \in Syms, SymType[s] = "boolean",
           NEW c \in {"y", "m", "n"}
    PROVE  /\ Kept(BoolEqual(s, c), Comp("EQUAL", s, c), X)
           /\ Kept(BoolUnequal(s, c), Comp("UNEQUAL", s, c), X)
  <1>1. s \in Switches /\ s \in X /\ "y" \in X /\ "n" \in X /\ "y" \in Syms /\ "n" \in Syms
    BY Switched, ValuesAssumption DEF Keeping, Syms
  <1>2. Sym(s) \in Over(X) /\ Sym("y") \in Over(X) /\ Sym("n") \in Over(X) /\ Sym(s) \in AllConditions
    BY <1>1, OverIs, Built
  <1>3. Not(Sym(s)) \in Over(X)
    BY <1>2, OverIs
  <1>4. BoolEqual(s, c) \in Over(X) /\ BoolUnequal(s, c) \in Over(X)
    BY <1>2, <1>3 DEF BoolEqual, BoolUnequal
  <1>5. ASSUME NEW v \in Valuations
        PROVE  /\ Value(BoolEqual(s, c), v) = Value(Comp("EQUAL", s, c), v)
               /\ Value(BoolUnequal(s, c), v) = Value(Comp("UNEQUAL", s, c), v)
    <2>1. v[s].tri \in {0, 2}
      BY ValuesAssumption DEF ValuationIs, tristate, mod, Syms
    <2>2. Value(Sym("y"), v) = 2 /\ Value(Sym("n"), v) = 0
      BY <1>1, ValueIs, ValuesAssumption DEF ValuationIs, yes, no
    <2>3. Value(Sym(s), v) = v[s].tri
      BY ValueIs
    <2>4. Value(Not(Sym(s)), v) = 2 - v[s].tri
      BY <1>2, <2>3, ValueIs
    <2>5. CASE c = "y"
      <3>1. BoolEqual(s, c) = Sym(s) /\ BoolUnequal(s, c) = Not(Sym(s))
        BY <2>5 DEF BoolEqual, BoolUnequal
      <3>. QED
        BY <1>1, <2>1, <2>3, <2>4, <2>5, <3>1, ComparisonIs
    <2>6. CASE c = "m"
      <3>1. BoolEqual(s, c) = Sym("n") /\ BoolUnequal(s, c) = Sym("y")
        BY <2>6 DEF BoolEqual, BoolUnequal
      <3>. QED
        BY <1>1, <2>1, <2>2, <2>6, <3>1, ComparisonIs
    <2>7. CASE c = "n"
      <3>1. BoolEqual(s, c) = Not(Sym(s)) /\ BoolUnequal(s, c) = Sym(s)
        BY <2>7 DEF BoolEqual, BoolUnequal
      <3>. QED
        BY <1>1, <2>1, <2>3, <2>4, <2>7, <3>1, ComparisonIs
    <2>. QED
      BY <2>5, <2>6, <2>7
  <1>. QED
    BY <1>4, <1>5 DEF Kept

\* The negation of a symbol.
LEMMA NotSymIs ==
    ASSUME Conditions = AllConditions, NEW X, Keeping(X), NEW s \in Syms, s \in X
    PROVE  Kept(NotSym(s), Not(Sym(s)), X)
  <1>1. "y" \in X /\ "n" \in X /\ "y" \in Syms /\ "n" \in Syms
    BY ValuesAssumption DEF Keeping, Syms
  <1>2. Sym(s) \in Over(X) /\ Sym("y") \in Over(X) /\ Sym("n") \in Over(X) /\ Sym(s) \in AllConditions
    BY <1>1, OverIs, Built
  <1>3. Not(Sym(s)) \in Over(X)
    BY <1>2, OverIs
  <1>4. \/ s = "y" /\ NotSym(s) = Sym("n")
        \/ s = "n" /\ NotSym(s) = Sym("y")
        \/ s = "m" /\ NotSym(s) = Sym(s)
        \/ NotSym(s) = Not(Sym(s))
    BY DEF NotSym
  <1>5. ASSUME NEW v \in Valuations PROVE Value(NotSym(s), v) = Value(Not(Sym(s)), v)
    <2>1. Value(Sym("y"), v) = 2 /\ Value(Sym("n"), v) = 0
      BY <1>1, ValueIs, ValuesAssumption DEF ValuationIs, yes, no
    <2>2. Value(Sym(s), v) = v[s].tri
      BY ValueIs
    <2>3. Value(Not(Sym(s)), v) = 2 - v[s].tri
      BY <1>2, <2>2, ValueIs
    <2>4. v["y"].tri = 2 /\ v["m"].tri = 1 /\ v["n"].tri = 0
      BY ValuesAssumption DEF ValuationIs, yes, mod, no
    <2>. QED
      BY <1>4, <2>1, <2>2, <2>3, <2>4
  <1>. QED
    BY <1>2, <1>3, <1>4, <1>5 DEF Kept

\* expr_transform by cases.
LEMMA TransformByOf ==
    ASSUME NEW tr, NEW e
    PROVE  /\ e.t = "EQUAL" => TransformBy(tr, e) =
                 IF SymType[e.s] = "boolean" /\ e.c \in {"y", "m", "n"} THEN BoolEqual(e.s, e.c) ELSE e
           /\ e.t = "UNEQUAL" => TransformBy(tr, e) =
                 IF SymType[e.s] = "boolean" /\ e.c \in {"y", "m", "n"} THEN BoolUnequal(e.s, e.c) ELSE e
           /\ e.t \in {"AND", "OR"} => TransformBy(tr, e) = Two(e.t, tr[e.l], tr[e.r])
           /\ e.t = "NOT" =>
                 LET l == tr[e.l]
                 IN  TransformBy(tr, e) = CASE l.t = "NOT" -> tr[l.l]
                                            [] l.t \in Relations -> Comp(Opposite[l.t], l.s, l.c)
                                            [] l.t = "OR" -> tr[Two("AND", Not(l.l), Not(l.r))]
                                            [] l.t = "AND" -> tr[Two("OR", Not(l.l), Not(l.r))]
                                            [] l.t = "SYMBOL" -> NotSym(l.s)
                                            [] OTHER -> e
           /\ e.t \notin {"EQUAL", "UNEQUAL", "AND", "OR", "NOT"} => TransformBy(tr, e) = e
  <1>1. CASE e.t = "EQUAL"
    BY <1>1 DEF TransformBy
  <1>2. CASE e.t = "UNEQUAL"
    BY <1>2 DEF TransformBy
  <1>3. CASE e.t \in {"AND", "OR"}
    BY <1>3 DEF TransformBy
  <1>4. CASE e.t = "NOT"
    BY <1>4 DEF TransformBy, Relations
  <1>5. CASE e.t \notin {"EQUAL", "UNEQUAL", "AND", "OR", "NOT"}
    BY <1>5 DEF TransformBy
  <1>. QED
    BY <1>1, <1>2, <1>3, <1>4, <1>5

\* The transformation of a condition, when that of another one keeps the value.
LEMMA TransformByKeeps ==
    ASSUME Conditions = AllConditions, NEW X, Keeping(X), NEW tr, \A x \in Over(X) : Kept(tr[x], x, X),
           NEW e \in Over(X)
    PROVE  Kept(TransformBy(tr, e), e, X)
  <1>0. e \in AllConditions /\ Kept(e, e, X)
    BY OverConditions DEF Kept
  <1>1. CASE e.t \in {"EQUAL", "UNEQUAL"}
    <2>1. e.s \in Syms /\ e = Comp(e.t, e.s, e.c)
      BY <1>0, <1>1, Kinds DEF Relations
    <2>2. CASE SymType[e.s] = "boolean" /\ e.c \in {"y", "m", "n"}
      <3>. DEFINE s == e.s
                  c == e.c
      <3>1. /\ Kept(BoolEqual(s, c), Comp("EQUAL", s, c), X)
            /\ Kept(BoolUnequal(s, c), Comp("UNEQUAL", s, c), X)
        BY <2>1, <2>2, BoolIs
      <3>. QED
        BY <1>1, <2>1, <2>2, <3>1, TransformByOf
    <2>3. CASE ~(SymType[e.s] = "boolean" /\ e.c \in {"y", "m", "n"})
      BY <1>0, <1>1, <2>3, TransformByOf
    <2>. QED
      BY <2>2, <2>3
  <1>2. ASSUME NEW t \in {"AND", "OR"}, NEW a \in AllConditions, NEW b \in AllConditions, e = Two(t, a, b)
        PROVE  Kept(TransformBy(tr, e), e, X)
    <2>1. a \in Over(X) /\ b \in Over(X)
      BY <1>2, OverIs
    <2>2. Kept(tr[a], a, X) /\ Kept(tr[b], b, X)
      BY <2>1
    <2>3. tr[a] \in AllConditions /\ tr[b] \in AllConditions
      BY <2>2, OverConditions DEF Kept
    <2>4. Two(t, tr[a], tr[b]) \in Over(X)
      BY <2>2, <2>3, OverIs DEF Kept
    <2>5. ASSUME NEW v \in Valuations PROVE Value(Two(t, tr[a], tr[b]), v) = Value(e, v)
      <3>1. Value(tr[a], v) = Value(a, v) /\ Value(tr[b], v) = Value(b, v)
        BY <2>2 DEF Kept
      <3>2. Value(Two(t, tr[a], tr[b]), v) = Joint(t, Value(tr[a], v), Value(tr[b], v))
        BY <2>3, ValueOfTwo
      <3>3. Value(e, v) = Joint(t, Value(a, v), Value(b, v))
        BY <1>2, ValueOfTwo
      <3>. QED
        BY <3>1, <3>2, <3>3
    <2>6. TransformBy(tr, e) = Two(t, tr[a], tr[b])
      <3>1. e.t = t /\ e.l = a /\ e.r = b
        BY <1>2, Fields
      <3>. QED
        BY <3>1, TransformByOf
    <2>. QED
      BY <2>4, <2>5, <2>6 DEF Kept
  <1>3. ASSUME NEW x \in AllConditions, e = Not(x)
        PROVE  Kept(TransformBy(tr, e), e, X)
    <2>. DEFINE l == tr[x]
    <2>1. x \in Over(X)
      BY <1>3, OverIs
    <2>2. Kept(l, x, X)
      BY <2>1
    <2>3. l \in Over(X) /\ l \in AllConditions
      BY <2>2, OverConditions DEF Kept
    <2>4. \A v \in Valuations : Value(e, v) = 2 - Value(l, v) /\ Value(l, v) \in tristate
      <3>1. \A v \in Valuations : Value(e, v) = 2 - Value(x, v)
        BY <1>3, ValueIs
      <3>2. \A v \in Valuations : Value(l, v) = Value(x, v)
        BY <2>2 DEF Kept
      <3>. QED
        BY <2>3, <3>1, <3>2, ValueType
    <2>5. e.t = "NOT" /\ e.l = x
      BY <1>3, Fields
    <2>6. TransformBy(tr, e) = CASE l.t = "NOT" -> tr[l.l]
                                 [] l.t \in Relations -> Comp(Opposite[l.t], l.s, l.c)
                                 [] l.t = "OR" -> tr[Two("AND", Not(l.l), Not(l.r))]
                                 [] l.t = "AND" -> tr[Two("OR", Not(l.l), Not(l.r))]
                                 [] l.t = "SYMBOL" -> NotSym(l.s)
                                 [] OTHER -> e
      BY <2>5, TransformByOf
    <2>. HIDE DEF l
    <2>7. CASE l = Null
      <3>1. TransformBy(tr, e) = e
        BY <2>6, <2>7, Fields DEF Relations
      <3>. QED
        BY <1>0, <3>1
    <2>8. ASSUME NEW s \in Syms, l = Sym(s) PROVE Kept(TransformBy(tr, e), e, X)
      <3>1. l.t = "SYMBOL" /\ l.s = s /\ s \in X
        BY <2>3, <2>8, Fields, OverIs
      <3>2. TransformBy(tr, e) = NotSym(s)
        BY <2>6, <3>1 DEF Relations
      <3>3. Kept(NotSym(s), Not(Sym(s)), X)
        BY <3>1, NotSymIs
      <3>4. \A v \in Valuations : Value(Not(Sym(s)), v) = Value(e, v)
        BY <2>3, <2>4, <2>8, ValueIs
      <3>. QED
        BY <3>2, <3>3, <3>4 DEF Kept
    <2>9. ASSUME NEW t \in Relations, NEW a \in Syms, NEW b \in Syms, l = Comp(t, a, b)
          PROVE  Kept(TransformBy(tr, e), e, X)
      <3>1. l.t = t /\ l.s = a /\ l.c = b
        BY <2>9, Fields
      <3>2. TransformBy(tr, e) = Comp(Opposite[t], a, b)
        BY <2>6, <3>1 DEF Relations
      <3>3. Comp(Opposite[t], a, b) \in Over(X)
        BY OppositeIs, OverIs
      <3>4. \A v \in Valuations : Value(Comp(Opposite[t], a, b), v) = Value(e, v)
        BY <2>4, <2>9, OppositeIs
      <3>. QED
        BY <3>2, <3>3, <3>4 DEF Kept
    <2>10. ASSUME NEW a \in AllConditions, l = Not(a) PROVE Kept(TransformBy(tr, e), e, X)
      <3>1. l.t = "NOT" /\ l.l = a
        BY <2>10, Fields
      <3>2. TransformBy(tr, e) = tr[a]
        BY <2>6, <3>1 DEF Relations
      <3>3. a \in Over(X)
        BY <2>3, <2>10, OverIs
      <3>4. ASSUME NEW v \in Valuations PROVE Value(a, v) = Value(e, v)
        <4>1. Value(l, v) = 2 - Value(a, v)
          BY <2>10, ValueIs
        <4>2. Value(a, v) \in tristate
          BY ValueType
        <4>. QED
          BY <2>4, <4>1, <4>2 DEF tristate
      <3>. QED
        BY <3>2, <3>3, <3>4 DEF Kept
    <2>11. ASSUME NEW t \in {"AND", "OR"}, NEW a \in AllConditions, NEW b \in AllConditions, l = Two(t, a, b)
           PROVE  Kept(TransformBy(tr, e), e, X)
      <3>. DEFINE u == IF t = "OR" THEN "AND" ELSE "OR"
                  d == Two(u, Not(a), Not(b))
      <3>1. l.t = t /\ l.l = a /\ l.r = b
        BY <2>11, Fields
      <3>2. TransformBy(tr, e) = tr[d]
        BY <2>6, <3>1 DEF Relations
      <3>3. Not(a) \in AllConditions /\ Not(b) \in AllConditions /\ u \in {"AND", "OR"}
        BY Built
      <3>4. d \in Over(X)
        <4>1. a \in Over(X) /\ b \in Over(X)
          BY <2>3, <2>11, OverIs
        <4>2. Not(a) \in Over(X) /\ Not(b) \in Over(X)
          BY <4>1, OverIs
        <4>. QED
          BY <3>3, <4>2, OverIs
      <3>5. ASSUME NEW v \in Valuations PROVE Value(d, v) = Value(e, v)
        <4>1. Value(l, v) = Joint(t, Value(a, v), Value(b, v))
          BY <2>11, ValueOfTwo
        <4>2. Value(d, v) = Joint(u, Value(Not(a), v), Value(Not(b), v))
          BY <3>3, ValueOfTwo
        <4>3. Value(Not(a), v) = 2 - Value(a, v) /\ Value(Not(b), v) = 2 - Value(b, v)
          BY ValueIs
        <4>4. Value(a, v) \in tristate /\ Value(b, v) \in tristate
          BY ValueType
        <4>5. Value(e, v) = 2 - Value(l, v)
          BY <2>4
        <4>. HIDE DEF d
        <4>. QED
          BY <4>1, <4>2, <4>3, <4>4, <4>5 DEF Joint, Greater, Lesser, tristate
      <3>. HIDE DEF d
      <3>. QED
        BY <3>2, <3>4, <3>5 DEF Kept
    <2>. QED
      BY <2>3, <2>7, <2>8, <2>9, <2>10, <2>11, Shapes
  <1>4. CASE e.t \notin {"EQUAL", "UNEQUAL", "AND", "OR", "NOT"}
    BY <1>0, <1>4, TransformByOf
  <1>5. e.t \in {"EQUAL", "UNEQUAL"} \/ e.t \notin {"EQUAL", "UNEQUAL", "AND", "OR", "NOT"}
        \/ (\E x \in AllConditions : e = Not(x))
        \/ \E t \in {"AND", "OR"}, a \in AllConditions, b \in AllConditions : e = Two(t, a, b)
    BY <1>0, Shapes, Fields DEF Relations
  <1>. QED
    BY <1>1, <1>2, <1>3, <1>4, <1>5

\* expr_transform by the depth of its calls.
LEMMA TransformedIs ==
    ASSUME Conditions = AllConditions
    PROVE  /\ Transformed[0] = [e \in AllConditions |-> e]
           /\ \A n \in Nat : Transformed[n + 1] = [e \in AllConditions |-> TransformBy(Transformed[n], e)]
  <1>. DEFINE First == [e \in AllConditions |-> e]
              Def(tr, n) == [e \in AllConditions |-> TransformBy(tr, e)]
  <1>1. NatInductiveDefHypothesis(Transformed, First, Def)
    BY DEF NatInductiveDefHypothesis, Transformed
  <1>2. NatInductiveDefConclusion(Transformed, First, Def)
    BY <1>1, NatInductiveDef
  <1>3. Transformed = [n \in Nat |-> IF n = 0 THEN First ELSE Def(Transformed[n - 1], n)]
    BY <1>2 DEF NatInductiveDefConclusion
  <1>. HIDE DEF Def, First
  <1>4. Transformed[0] = First /\ \A n \in Nat : Transformed[n + 1] = Def(Transformed[n], n + 1)
    BY <1>3
  <1>. QED
    BY <1>4 DEF Def, First

\* expr_transform keeps the value (expr.c:686-841).
LEMMA TransformKeeps ==
    ASSUME Conditions = AllConditions, NEW X, Keeping(X), NEW d \in Over(X)
    PROVE  Kept(expr_transform(d), d, X)
  <1>. DEFINE S == {k \in Nat : \A e \in Over(X) : Kept(Transformed[k][e], e, X)}
  <1>1. 0 \in S
    BY TransformedIs, OverConditions DEF Kept
  <1>2. ASSUME NEW k \in Nat, k \in S PROVE k + 1 \in S
    <2>. DEFINE tr == Transformed[k]
    <2>1. \A e \in Over(X) : Kept(tr[e], e, X)
      BY <1>2
    <2>2. Transformed[k + 1] = [e \in AllConditions |-> TransformBy(tr, e)]
      BY TransformedIs
    <2>. HIDE DEF tr
    <2>3. ASSUME NEW e \in Over(X) PROVE Kept(Transformed[k + 1][e], e, X)
      <3>1. e \in AllConditions
        BY OverConditions
      <3>2. Transformed[k + 1][e] = TransformBy(tr, e)
        BY <2>2, <3>1, Zenon
      <3>3. Kept(TransformBy(tr, e), e, X)
        BY <2>1, TransformByKeeps
      <3>. QED
        BY <3>2, <3>3
    <2>. QED
      BY <2>3
  <1>3. Nat \subseteq S
    BY <1>1, <1>2, AllNumbers, Zenon
  <1>4. MaxCalls \in S
    BY <1>3, CallsAssumption
  <1>. QED
    BY <1>4 DEF expr_transform


--------------------------------------------------------------------------------
(* expr_trans_compare with n *)

\* What a condition that is compared with n becomes, by its kind.
LEMMA ComparedWithOf ==
    ASSUME Conditions = AllConditions, NEW type \in {"EQUAL", "UNEQUAL"}
    PROVE  LET compare == ComparedWith("n")
               negate(x) == IF type = "UNEQUAL" THEN Not(x) ELSE x
           IN  /\ compare[Null][type] = negate(Sym("n"))
               /\ \A s \in Syms : compare[Sym(s)][type] = Comp(type, s, "n")
               /\ \A t \in Relations, a \in Syms, b \in Syms :
                     compare[Comp(t, a, b)][type] = IF type = "EQUAL" THEN Not(Comp(t, a, b)) ELSE Comp(t, a, b)
               /\ \A x \in AllConditions :
                     compare[Not(x)][type] = compare[x][IF type = "EQUAL" THEN "UNEQUAL" ELSE "EQUAL"]
               /\ \A t \in {"AND", "OR"}, a \in AllConditions, b \in AllConditions :
                     compare[Two(t, a, b)][type] =
                        negate(Two(IF t = "AND" THEN "OR" ELSE "AND", compare[a]["EQUAL"], compare[b]["EQUAL"]))
  <1>. DEFINE compare == ComparedWith("n")
              negate(x) == IF type = "UNEQUAL" THEN Not(x) ELSE x
  <1>1. compare[Null][type] = negate(Sym("n"))
    <2>. DEFINE e == Null
    <2>1. e \in AllConditions /\ e.t = "NULL"
      BY Built, Fields
    <2>. HIDE DEF e
    <2>2. compare[e][type] = negate(Sym("n"))
      BY <2>1, ComparedWithIs DEF Relations
    <2>. QED
      BY <2>2 DEF e
  <1>2. ASSUME NEW s \in Syms PROVE compare[Sym(s)][type] = Comp(type, s, "n")
    <2>1. Sym(s) \in AllConditions /\ Sym(s).t = "SYMBOL" /\ Sym(s).s = s
      BY Built, Fields
    <2>. DEFINE e == Sym(s)
    <2>. HIDE DEF e
    <2>2. e \in AllConditions /\ e.t = "SYMBOL" /\ e.s = s
      BY <2>1 DEF e
    <2>3. compare[e][type] = Comp(type, e.s, "n")
      BY <2>2, ComparedWithIs DEF Relations
    <2>. QED
      BY <2>2, <2>3 DEF e
  <1>3. ASSUME NEW t \in Relations, NEW a \in Syms, NEW b \in Syms
        PROVE  compare[Comp(t, a, b)][type] = IF type = "EQUAL" THEN Not(Comp(t, a, b)) ELSE Comp(t, a, b)
    <2>. DEFINE e == Comp(t, a, b)
    <2>1. e \in AllConditions /\ e.t = t
      BY Built, Fields
    <2>. HIDE DEF e
    <2>2. compare[e][type] = IF type = "EQUAL" THEN Not(e) ELSE e
      BY <2>1, ComparedWithIs DEF Relations
    <2>. QED
      BY <2>2 DEF e
  <1>4. ASSUME NEW x \in AllConditions
        PROVE  compare[Not(x)][type] = compare[x][IF type = "EQUAL" THEN "UNEQUAL" ELSE "EQUAL"]
    <2>. DEFINE e == Not(x)
    <2>1. e \in AllConditions /\ e.t = "NOT" /\ e.l = x
      BY Built, Fields
    <2>. HIDE DEF e
    <2>2. compare[e][type] = compare[e.l][IF type = "EQUAL" THEN "UNEQUAL" ELSE "EQUAL"]
      BY <2>1, ComparedWithIs DEF Relations
    <2>. QED
      BY <2>1, <2>2 DEF e
  <1>5. ASSUME NEW t \in {"AND", "OR"}, NEW a \in AllConditions, NEW b \in AllConditions
        PROVE  compare[Two(t, a, b)][type] =
                  negate(Two(IF t = "AND" THEN "OR" ELSE "AND", compare[a]["EQUAL"], compare[b]["EQUAL"]))
    <2>. DEFINE e == Two(t, a, b)
    <2>1. e \in AllConditions /\ e.t = t /\ e.l = a /\ e.r = b
      BY Built, Fields
    <2>. HIDE DEF e
    <2>2. compare[e][type] =
             negate(Two(IF t = "AND" THEN "OR" ELSE "AND", compare[e.l]["EQUAL"], compare[e.r]["EQUAL"]))
      <3>1. CASE t = "AND"
        BY <2>1, <3>1, ComparedWithIs DEF Relations
      <3>2. CASE t = "OR"
        BY <2>1, <3>2, ComparedWithIs DEF Relations
      <3>. QED
        BY <3>1, <3>2
    <2>. QED
      BY <2>1, <2>2 DEF e
  <1>. QED
    BY <1>1, <1>2, <1>3, <1>4, <1>5

\* The comparison of a condition is a condition.
LEMMA ComparedType ==
    ASSUME Conditions = AllConditions
    PROVE  \A e \in AllConditions : \A type \in {"EQUAL", "UNEQUAL"} : ComparedWith("n")[e][type] \in AllConditions
  <1>. DEFINE compare == ComparedWith("n")
              S == {e \in AllConditions : \A type \in {"EQUAL", "UNEQUAL"} : compare[e][type] \in AllConditions}
  <1>0. "n" \in Syms
    BY ValuesAssumption DEF Syms
  <1>1. ASSUME NEW e \in AllConditions, Parts(e) \subseteq S PROVE e \in S
    <2>0. SUFFICES ASSUME NEW type \in {"EQUAL", "UNEQUAL"} PROVE compare[e][type] \in AllConditions
      OBVIOUS
    <2>1. CASE e = Null
      <3>1. Sym("n") \in AllConditions
        BY <1>0, Built
      <3>2. Not(Sym("n")) \in AllConditions
        BY <3>1, Built
      <3>. QED
        BY <2>1, <3>1, <3>2, ComparedWithOf
    <2>2. ASSUME NEW s \in Syms, e = Sym(s) PROVE compare[e][type] \in AllConditions
      <3>1. compare[e][type] = Comp(type, s, "n") /\ type \in Relations
        BY <2>2, ComparedWithOf DEF Relations
      <3>. QED
        BY <1>0, <3>1, Built
    <2>3. ASSUME NEW t \in Relations, NEW a \in Syms, NEW b \in Syms, e = Comp(t, a, b)
          PROVE  compare[e][type] \in AllConditions
      <3>1. compare[e][type] \in {e, Not(e)}
        BY <2>3, ComparedWithOf
      <3>. QED
        BY <3>1, Built
    <2>4. ASSUME NEW x \in AllConditions, e = Not(x) PROVE compare[e][type] \in AllConditions
      <3>1. x \in S
        BY <1>1, <2>4, Fields DEF Parts
      <3>2. compare[e][type] = compare[x][IF type = "EQUAL" THEN "UNEQUAL" ELSE "EQUAL"]
        BY <2>4, ComparedWithOf
      <3>. QED
        BY <3>1, <3>2
    <2>5. ASSUME NEW t \in {"AND", "OR"}, NEW a \in AllConditions, NEW b \in AllConditions, e = Two(t, a, b)
          PROVE  compare[e][type] \in AllConditions
      <3>. DEFINE d == Two(IF t = "AND" THEN "OR" ELSE "AND", compare[a]["EQUAL"], compare[b]["EQUAL"])
      <3>1. a \in S /\ b \in S
        BY <1>1, <2>5, Fields DEF Parts
      <3>2. compare[a]["EQUAL"] \in AllConditions /\ compare[b]["EQUAL"] \in AllConditions
        BY <3>1
      <3>3. d \in AllConditions
        BY <3>2, Built
      <3>4. compare[e][type] \in {d, Not(d)}
        BY <2>5, ComparedWithOf
      <3>. QED
        BY <3>3, <3>4, Built
    <2>. QED
      BY <2>1, <2>2, <2>3, <2>4, <2>5, Shapes
  <1>2. AllConditions \subseteq S
    <2>. HIDE DEF S
    <2>. QED
      BY <1>1, OfEveryCondition
  <1>. QED
    BY <1>2

\* u says that x is not n, and q that it is; where x is m either may.
Tells(x, u, q) == u \in {0, 2} /\ q \in {0, 2} /\ (x = 0 => u = 0 /\ q = 2) /\ (x = 2 => u = 2 /\ q = 0)

\* Of a condition over switches, both comparisons tell whether it is y, and whether it is n.
LEMMA ComparedTells ==
    ASSUME Conditions = AllConditions, NEW v \in Valuations
    PROVE  \A e \in Over(Switches) :
              Tells(Value(e, v), Value(ComparedWith("n")[e]["UNEQUAL"], v), Value(ComparedWith("n")[e]["EQUAL"], v))
  <1>. DEFINE compare == ComparedWith("n")
              Is(e) == Tells(Value(e, v), Value(compare[e]["UNEQUAL"], v), Value(compare[e]["EQUAL"], v))
              S == {e \in AllConditions : e \in Over(Switches) => Is(e)}
  <1>0. "n" \in Syms /\ Value(Sym("n"), v) = 0 /\ Sym("n") \in AllConditions
    <2>1. "n" \in Syms
      BY ValuesAssumption DEF Syms
    <2>2. Value(Sym("n"), v) = 0
      BY <2>1, ValueIs, ValuesAssumption DEF ValuationIs, no
    <2>. QED
      BY <2>1, <2>2, Built
  <1>1. ASSUME NEW e \in AllConditions, Parts(e) \subseteq S PROVE e \in S
    <2>0. SUFFICES ASSUME e \in Over(Switches) PROVE Is(e)
      OBVIOUS
    <2>1. CASE e = Null
      <3>1. compare[e]["EQUAL"] = Sym("n") /\ compare[e]["UNEQUAL"] = Not(Sym("n"))
        BY <2>1, ComparedWithOf
      <3>2. Value(Not(Sym("n")), v) = 2 - Value(Sym("n"), v)
        BY <1>0, ValueIs
      <3>3. Value(Null, v) = 2
        BY ValueIs DEF yes
      <3>. QED
        BY <1>0, <2>1, <3>1, <3>2, <3>3 DEF Tells
    <2>2. ASSUME NEW s \in Syms, e = Sym(s) PROVE Is(e)
      <3>1. s \in Switches
        BY <2>0, <2>2, OverIs
      <3>2. compare[e]["EQUAL"] = Comp("EQUAL", s, "n") /\ compare[e]["UNEQUAL"] = Comp("UNEQUAL", s, "n")
        BY <2>2, ComparedWithOf
      <3>3. /\ v[s].tri \in {0, 1, 2} /\ Value(Sym(s), v) = v[s].tri
            /\ Value(Comp("EQUAL", s, "n"), v) = IF v[s].tri = 0 THEN 2 ELSE 0
            /\ Value(Comp("UNEQUAL", s, "n"), v) = IF v[s].tri = 0 THEN 0 ELSE 2
        BY <3>1, ComparisonIs DEF tristate
      <3>. QED
        BY <2>2, <3>2, <3>3 DEF Tells
    <2>3. ASSUME NEW t \in Relations, NEW a \in Syms, NEW b \in Syms, e = Comp(t, a, b) PROVE Is(e)
      <3>1. compare[e]["EQUAL"] = Not(e) /\ compare[e]["UNEQUAL"] = e
        BY <2>3, ComparedWithOf
      <3>2. Value(Not(e), v) = 2 - Value(e, v)
        BY ValueIs
      <3>3. Value(e, v) \in {0, 2}
        BY <2>3, ValueIs DEF yes, no
      <3>. QED
        BY <3>1, <3>2, <3>3 DEF Tells
    <2>4. ASSUME NEW x \in AllConditions, e = Not(x) PROVE Is(e)
      <3>1. x \in S /\ x \in Over(Switches)
        BY <1>1, <2>0, <2>4, Fields, OverIs DEF Parts
      <3>2. compare[e]["EQUAL"] = compare[x]["UNEQUAL"] /\ compare[e]["UNEQUAL"] = compare[x]["EQUAL"]
        BY <2>4, ComparedWithOf
      <3>3. Value(e, v) = 2 - Value(x, v) /\ Value(x, v) \in {0, 1, 2}
        <4>1. Value(e, v) = 2 - Value(x, v)
          BY <2>4, ValueIs
        <4>. QED
          BY <4>1, ValueType DEF tristate
      <3>4. Is(x)
        BY <3>1
      <3>. QED
        BY <3>2, <3>3, <3>4 DEF Tells
    <2>5. ASSUME NEW t \in {"AND", "OR"}, NEW a \in AllConditions, NEW b \in AllConditions, e = Two(t, a, b)
          PROVE  Is(e)
      <3>. DEFINE u == IF t = "AND" THEN "OR" ELSE "AND"
                  d == Two(u, compare[a]["EQUAL"], compare[b]["EQUAL"])
      <3>1. a \in S /\ b \in S /\ a \in Over(Switches) /\ b \in Over(Switches)
        BY <1>1, <2>0, <2>5, Fields, OverIs DEF Parts
      <3>2. Is(a) /\ Is(b)
        BY <3>1
      <3>3. compare[a]["EQUAL"] \in AllConditions /\ compare[b]["EQUAL"] \in AllConditions
        BY ComparedType
      <3>4. Value(d, v) = Joint(u, Value(compare[a]["EQUAL"], v), Value(compare[b]["EQUAL"], v))
        BY <3>3, ValueOfTwo
      <3>5. compare[e]["EQUAL"] = d /\ compare[e]["UNEQUAL"] = Not(d)
        BY <2>5, ComparedWithOf
      <3>6. d \in AllConditions
        BY <3>3, Built
      <3>. HIDE DEF d
      <3>7. Value(Not(d), v) = 2 - Value(d, v)
        BY <3>6, ValueIs
      <3>8. Value(e, v) = Joint(t, Value(a, v), Value(b, v))
        BY <2>5, ValueOfTwo
      <3>9. Value(a, v) \in {0, 1, 2} /\ Value(b, v) \in {0, 1, 2}
        BY ValueType DEF tristate
      <3>. QED
        BY <3>2, <3>4, <3>5, <3>7, <3>8, <3>9 DEF Tells, Joint, Greater, Lesser
    <2>. QED
      BY <2>1, <2>2, <2>3, <2>4, <2>5, Shapes
  <1>2. AllConditions \subseteq S
    <2>. HIDE DEF S
    <2>. QED
      BY <1>1, OfEveryCondition
  <1>. QED
    BY <1>2 DEF Over

\* A condition without m alone is not m where no symbol is.
LEMMA NotM ==
    ASSUME Conditions = AllConditions, NEW v \in WithoutModules
    PROVE  \A e \in AllConditions : ~SaysM(e) => Value(e, v) \in {0, 2}
  <1>. DEFINE S == {e \in AllConditions : "m" \notin Alone[e] => Value(e, v) \in {0, 2}}
  <1>0. v \in Valuations /\ \A s \in Syms \ {"m"} : v[s].tri \in {0, 2}
    BY ValuesAssumption DEF WithoutModules, ValuationIs, Syms, tristate, mod
  <1>1. ASSUME NEW e \in AllConditions, Parts(e) \subseteq S PROVE e \in S
    <2>0. SUFFICES ASSUME "m" \notin Alone[e] PROVE Value(e, v) \in {0, 2}
      OBVIOUS
    <2>1. CASE e = Null
      BY <2>1, ValueIs DEF yes
    <2>2. ASSUME NEW s \in Syms, e = Sym(s) PROVE Value(e, v) \in {0, 2}
      <3>1. s # "m"
        BY <2>0, <2>2, AloneOf
      <3>2. Value(e, v) = v[s].tri
        BY <2>2, ValueIs
      <3>. QED
        BY <1>0, <3>1, <3>2
    <2>3. ASSUME NEW t \in Relations, NEW a \in Syms, NEW b \in Syms, e = Comp(t, a, b)
          PROVE  Value(e, v) \in {0, 2}
      BY <2>3, ValueIs DEF yes, no
    <2>4. ASSUME NEW x \in AllConditions, e = Not(x) PROVE Value(e, v) \in {0, 2}
      <3>1. x \in S /\ "m" \notin Alone[x]
        BY <1>1, <2>0, <2>4, Fields, AloneOf DEF Parts
      <3>2. Value(e, v) = 2 - Value(x, v)
        BY <2>4, ValueIs
      <3>. QED
        BY <3>1, <3>2
    <2>5. ASSUME NEW t \in {"AND", "OR"}, NEW a \in AllConditions, NEW b \in AllConditions, e = Two(t, a, b)
          PROVE  Value(e, v) \in {0, 2}
      <3>1. a \in S /\ b \in S
        BY <1>1, <2>5, Fields DEF Parts
      <3>2. Alone[e] = Alone[a] \cup Alone[b]
        BY <2>5, AloneOf
      <3>3. Value(a, v) \in {0, 2} /\ Value(b, v) \in {0, 2}
        BY <2>0, <3>1, <3>2
      <3>4. Value(e, v) = Joint(t, Value(a, v), Value(b, v))
        BY <2>5, ValueOfTwo
      <3>. QED
        BY <3>3, <3>4 DEF Joint, Greater, Lesser
    <2>. QED
      BY <2>1, <2>2, <2>3, <2>4, <2>5, Shapes
  <1>2. AllConditions \subseteq S
    <2>. HIDE DEF S
    <2>. QED
      BY <1>1, OfEveryCondition
  <1>. QED
    BY <1>2 DEF SaysM

\* The comparison with n: never y where the condition is n, and exact without modules.
LEMMA TransCompareIs ==
    ASSUME Conditions = AllConditions, NEW e \in AllConditions
    PROVE  LET u == expr_trans_compare(e, "UNEQUAL", "n")
           IN  /\ u \in AllConditions
               /\ e \in Over(Switches) =>
                     \A v \in Valuations : /\ Value(u, v) <= Test(e, v)
                                           /\ Value(e, v) # 1 => Value(u, v) = Test(e, v)
  <1>. DEFINE u == expr_trans_compare(e, "UNEQUAL", "n")
  <1>1. u = ComparedWith("n")[e]["UNEQUAL"]
    BY DEF expr_trans_compare
  <1>2. u \in AllConditions
    BY <1>1, ComparedType
  <1>3. ASSUME e \in Over(Switches), NEW v \in Valuations
        PROVE  Value(u, v) <= Test(e, v) /\ (Value(e, v) # 1 => Value(u, v) = Test(e, v))
    <2>1. PICK q : Tells(Value(e, v), Value(u, v), q)
      BY <1>1, <1>3, ComparedTells
    <2>2. Value(e, v) \in {0, 1, 2}
      BY ValueType DEF tristate
    <2>. QED
      BY <2>1, <2>2 DEF Tells, Test, yes, no
  <1>. QED
    BY <1>2, <1>3

--------------------------------------------------------------------------------
(* expr_depends_symbol *)

\* A condition that is found to depend on a bool or a tristate is n when that is n
\* (expr.c:871-898).
LEMMA DependsIs ==
    ASSUME Conditions = AllConditions, NEW s \in Syms, Bool(SymType[s]), NEW v \in Valuations, v[s].tri = no
    PROVE  \A e \in AllConditions : expr_depends_symbol(e, s) => Value(e, v) = no
  <1>. DEFINE on == DependingOn(s)
              S == {e \in AllConditions : on[e] => Value(e, v) = no}
  <1>0. s \in Switches
    BY DEF Switches, Syms
  <1>1. ASSUME NEW e \in AllConditions, Parts(e) \subseteq S PROVE e \in S
    <2>0. SUFFICES ASSUME on[e] PROVE Value(e, v) = no
      OBVIOUS
    <2>1. on[e] = CASE e.t = "AND" -> on[e.l] \/ on[e.r]
                    [] e.t = "SYMBOL" -> e.s = s
                    [] e.t = "EQUAL" -> e.s = s /\ e.c \in {"y", "m"}
                    [] e.t = "UNEQUAL" -> e.s = s /\ e.c = "n"
                    [] OTHER -> FALSE
      BY DependingOnIs
    <2>. HIDE DEF on
    <2>2. CASE e.t = "SYMBOL"
      <3>1. e.s = s /\ e = Sym(s)
        BY <2>0, <2>1, <2>2, Kinds
      <3>. QED
        BY <3>1, ValueIs
    <2>3. CASE e.t = "EQUAL"
      <3>1. e.s = s /\ e.c \in {"y", "m"} /\ e = Comp("EQUAL", s, e.c)
        BY <2>0, <2>1, <2>3, Kinds DEF Relations
      <3>. QED
        BY <1>0, <3>1, ComparisonIs DEF no
    <2>4. CASE e.t = "UNEQUAL"
      <3>1. e = Comp("UNEQUAL", s, "n")
        BY <2>0, <2>1, <2>4, Kinds DEF Relations
      <3>. QED
        BY <1>0, <3>1, ComparisonIs DEF no
    <2>5. ASSUME NEW a \in AllConditions, NEW b \in AllConditions, e = Two("AND", a, b)
          PROVE  Value(e, v) = no
      <3>1. e.t = "AND" /\ e.l = a /\ e.r = b /\ a \in S /\ b \in S
        BY <1>1, <2>5, Fields DEF Parts
      <3>2. Value(a, v) = no \/ Value(b, v) = no
        BY <2>0, <2>1, <3>1
      <3>3. Value(e, v) = Lesser(Value(a, v), Value(b, v))
        BY <2>5, ValueIs
      <3>4. Value(a, v) \in tristate /\ Value(b, v) \in tristate
        BY ValueType
      <3>. QED
        BY <3>2, <3>3, <3>4 DEF Lesser, tristate, no
    <2>6. CASE e.t = "AND"
      BY <2>5, <2>6, Shapes, Fields DEF Relations
    <2>. QED
      BY <2>0, <2>1, <2>2, <2>3, <2>4, <2>6
  <1>2. AllConditions \subseteq S
    <2>. HIDE DEF S
    <2>. QED
      BY <1>1, OfEveryCondition
  <1>. QED
    BY <1>2 DEF expr_depends_symbol

--------------------------------------------------------------------------------
(* expr_eliminate_eq *)

\* Both of es are both of fs joined with one c.
SharedBy(es, fs, v) ==
    \E type \in {"AND", "OR"}, c \in tristate :
        /\ Value(es[1], v) = Joint(type, c, Value(fs[1], v))
        /\ Value(es[2], v) = Joint(type, c, Value(fs[2], v))

\* A pair of conditions shares what it consists of.
LEMMA NothingShared ==
    ASSUME Conditions = AllConditions, NEW es, es[1] \in AllConditions, es[2] \in AllConditions,
           NEW v \in Valuations
    PROVE  SharedBy(es, es, v)
  <1>1. Value(es[1], v) \in tristate /\ Value(es[2], v) \in tristate
    BY ValueType
  <1>2. \A x \in tristate : x = Joint("AND", 2, x)
    BY DEF Joint, Lesser, tristate
  <1>. QED
    BY <1>1, <1>2 DEF SharedBy, tristate

\* Of two chains the same goes away.
LEMMA ChainsShare ==
    ASSUME Conditions = AllConditions, NEW eq, Faithful(eq), NEW type \in {"AND", "OR"},
           NEW es, es = <<es[1], es[2]>>, es[1] \in AllConditions, es[2] \in AllConditions, NEW v \in Valuations,
           NEW fs, fs = EliminateChains(eq, type, es)
    PROVE  /\ fs = <<fs[1], fs[2]>> /\ fs[1] \in AllConditions /\ fs[2] \in AllConditions
           /\ SharedBy(es, fs, v)
  <1>1. PICK e1 \in AllConditions, e2 \in AllConditions : e1 = es[1] /\ e2 = es[2]
    OBVIOUS
  <1>2. fs = EliminateChains(eq, type, <<e1, e2>>)
    BY <1>1
  <1>3. /\ fs = <<fs[1], fs[2]>> /\ fs[1] \in AllConditions /\ fs[2] \in AllConditions
        /\ \E c \in tristate : /\ Value(e1, v) = Joint(type, c, Value(fs[1], v))
                               /\ Value(e2, v) = Joint(type, c, Value(fs[2], v))
    BY <1>2, EliminateChainsIs
  <1>. QED
    BY <1>1, <1>3 DEF SharedBy

\* When nothing is left of the second, the first implies it.
LEMMA NothingLeft ==
    ASSUME Conditions = AllConditions, NEW eq, Faithful(eq), NEW e1 \in AllConditions, NEW e2 \in AllConditions,
           NEW v \in Valuations, Value(EliminateCommon(eq, e1, e2)[2], v) = yes
    PROVE  Value(e1, v) <= Value(e2, v)
  <1>0. Value(e1, v) \in tristate /\ Value(e2, v) \in tristate
    BY ValueType
  <1>1. CASE Null \in {e1, e2}
    <2>1. EliminateCommon(eq, e1, e2) = <<e1, e2>>
      BY <1>1 DEF EliminateCommon
    <2>2. Value(e2, v) = yes
      BY <2>1
    <2>. QED
      BY <1>0, <2>2 DEF tristate, yes
  <1>2. CASE Null \notin {e1, e2}
    <2>1. PICK ds : ds = <<e1, e2>>
      OBVIOUS
    <2>2. ds = <<ds[1], ds[2]>> /\ ds[1] = e1 /\ ds[2] = e2
      BY <2>1
    <2>3. PICK es : es = IF e1.t \in {"OR", "AND"} THEN EliminateChains(eq, e1.t, ds) ELSE ds
      OBVIOUS
    <2>4. /\ es = <<es[1], es[2]>> /\ es[1] \in AllConditions /\ es[2] \in AllConditions
          /\ SharedBy(ds, es, v)
      <3>1. CASE e1.t \in {"OR", "AND"}
        <4>1. es = EliminateChains(eq, e1.t, ds) /\ e1.t \in {"AND", "OR"}
          BY <2>3, <3>1
        <4>. QED
          BY <2>2, <4>1, ChainsShare
      <3>2. CASE e1.t \notin {"OR", "AND"}
        <4>1. es = ds
          BY <2>3, <3>2
        <4>. QED
          BY <2>2, <4>1, NothingShared
      <3>. QED
        BY <3>1, <3>2
    <2>5. PICK fs : fs = EliminateSecond(eq, es)
      OBVIOUS
    <2>6. /\ fs[1] \in AllConditions /\ fs[2] \in AllConditions
          /\ SharedBy(es, fs, v)
      <3>1. CASE es[1].t # es[2].t /\ es[2].t \in {"OR", "AND"}
        <4>1. fs = EliminateChains(eq, es[2].t, es) /\ es[2].t \in {"AND", "OR"}
          BY <2>5, <3>1 DEF EliminateSecond
        <4>. QED
          BY <2>4, <4>1, ChainsShare
      <3>2. CASE ~(es[1].t # es[2].t /\ es[2].t \in {"OR", "AND"})
        <4>1. fs = es
          BY <2>5, <3>2 DEF EliminateSecond
        <4>. QED
          BY <2>4, <4>1, NothingShared
      <3>. QED
        BY <3>1, <3>2
    <2>7. EliminateCommon(eq, e1, e2) = BothWithoutYn(fs)
      BY <1>2, <2>1, <2>3, <2>5 DEF EliminateCommon
    <2>8. Value(fs[2], v) = 2
      <3>1. EliminateCommon(eq, e1, e2)[2] = WithoutYn[fs[2]]
        BY <2>7 DEF BothWithoutYn, expr_eliminate_yn
      <3>2. Value(WithoutYn[fs[2]], v) = Value(fs[2], v)
        BY <2>6, WithoutYnValue
      <3>. QED
        BY <3>1, <3>2 DEF yes
    <2>9. Value(fs[1], v) \in tristate /\ Value(es[1], v) \in tristate /\ Value(es[2], v) \in tristate
      BY <2>4, <2>6, ValueType
    <2>10. Value(es[1], v) <= Value(es[2], v)
      <3>1. PICK type \in {"AND", "OR"}, c \in tristate :
               /\ Value(es[1], v) = Joint(type, c, Value(fs[1], v))
               /\ Value(es[2], v) = Joint(type, c, Value(fs[2], v))
        BY <2>6 DEF SharedBy
      <3>. QED
        BY <2>8, <2>9, <3>1 DEF Joint, Greater, Lesser, tristate
    <2>11. PICK type \in {"AND", "OR"}, c \in tristate :
              /\ Value(e1, v) = Joint(type, c, Value(es[1], v))
              /\ Value(e2, v) = Joint(type, c, Value(es[2], v))
      BY <2>2, <2>4 DEF SharedBy
    <2>. QED
      BY <2>9, <2>10, <2>11 DEF Joint, Greater, Lesser, tristate
  <1>. QED
    BY <1>1, <1>2

--------------------------------------------------------------------------------
(* The rewritings in any order *)

\* What is known of a condition compared with n.
Tested(now_f, written_f) ==
    /\ now_f \in AllConditions
    /\ written_f \in Over(Switches) =>
          /\ \A v \in Valuations : Value(now_f, v) <= Test(written_f, v)
          /\ ~SaysM(written_f) => \A v \in WithoutModules : Value(now_f, v) = Test(written_f, v)

RewriteInv ==
    /\ \A f \in {"dep", "base"} :
          /\ written[f] \in AllConditions
          /\ stage = "value" => \A X \in {Syms, Switches} : written[f] \in Over(X) => Kept(now[f], written[f], X)
          /\ stage = "test" => Tested(now[f], written[f])
    /\ stage \in {"value", "test", "shared"}
    /\ SubmenuIsImplied

\* The switches are enough for the rewritings.
LEMMA KeepingSwitches == Keeping(Switches)
  BY ValuesAssumption DEF Keeping, Switches, Syms, Bool

\* What keeps each value keeps what is known of a condition.
LEMMA TestedStill ==
    ASSUME Conditions = AllConditions, NEW a, NEW b, NEW w, Tested(a, w), Kept(b, a, Syms)
    PROVE  Tested(b, w)
  <1>1. b \in AllConditions /\ \A v \in Valuations : Value(b, v) = Value(a, v)
    BY OverConditions DEF Kept
  <1>2. WithoutModules \subseteq Valuations
    BY DEF WithoutModules
  <1>. QED
    BY <1>1, <1>2 DEF Tested

\* A simplification of both conditions.
LEMMA SimplifiedStep ==
    ASSUME Conditions = AllConditions, RewriteInv, stage # "shared", UNCHANGED <<written, stage>>,
           NEW a, NEW b, now' = [dep |-> a, base |-> b],
           \A X : Keeping(X) => /\ now.dep \in Over(X) => Kept(a, now.dep, X)
                                /\ now.base \in Over(X) => Kept(b, now.base, X)
    PROVE  RewriteInv'
  <1>. DEFINE then(f) == IF f = "dep" THEN a ELSE b
  <1>1. \A f \in {"dep", "base"} : now'[f] = then(f)
    OBVIOUS
  <1>2. ASSUME NEW f \in {"dep", "base"}, NEW X, Keeping(X), now[f] \in Over(X)
        PROVE  Kept(then(f), now[f], X)
    BY <1>2
  <1>. HIDE DEF then
  <1>3. ASSUME NEW f \in {"dep", "base"}, stage = "value", NEW X \in {Syms, Switches}, written[f] \in Over(X)
        PROVE  Kept(now'[f], written[f], X)
    <2>1. Kept(now[f], written[f], X)
      BY <1>3 DEF RewriteInv
    <2>2. Kept(then(f), now[f], X)
      BY <1>2, <1>3, <2>1, KeepingAll, KeepingSwitches DEF Kept
    <2>. QED
      BY <1>1, <2>1, <2>2 DEF Kept
  <1>4. ASSUME NEW f \in {"dep", "base"}, stage = "test" PROVE Tested(now'[f], written[f])
    <2>1. Tested(now[f], written[f]) /\ now[f] \in Over(Syms)
      BY <1>4, AllOver DEF RewriteInv, Tested
    <2>2. Kept(then(f), now[f], Syms)
      BY <1>2, <2>1, KeepingAll
    <2>. QED
      BY <1>1, <2>1, <2>2, TestedStill
  <1>5. /\ \A f \in {"dep", "base"} : written[f] \in AllConditions
        /\ stage \in {"value", "test", "shared"}
    BY DEF RewriteInv
  <1>6. SubmenuIsImplied'
    BY DEF SubmenuIsImplied
  <1>. QED
    BY <1>3, <1>4, <1>5, <1>6 DEF RewriteInv

\* The comparison with n tests what was simplified.
LEMMA TransCompareStep ==
    ASSUME Conditions = AllConditions, RewriteInv, TransCompare
    PROVE  RewriteInv'
  <1>0. stage = "value" /\ stage' = "test" /\ UNCHANGED written
    BY DEF TransCompare
  <1>1. \A f \in {"dep", "base"} : now'[f] = expr_trans_compare(now[f], "UNEQUAL", "n")
    BY DEF TransCompare, Both
  <1>2. ASSUME NEW f \in {"dep", "base"} PROVE Tested(now'[f], written[f])
    <2>. DEFINE e == now[f]
                u == expr_trans_compare(e, "UNEQUAL", "n")
                w == written[f]
    <2>1. w \in AllConditions /\ w \in Over(Syms)
      BY AllOver DEF RewriteInv
    <2>2. Kept(e, w, Syms) /\ (w \in Over(Switches) => Kept(e, w, Switches))
      BY <1>0, <2>1 DEF RewriteInv
    <2>3. e \in AllConditions /\ \A v \in Valuations : Value(e, v) = Value(w, v)
      BY <2>2, OverConditions DEF Kept
    <2>. HIDE DEF e, w
    <2>4. /\ u \in AllConditions
          /\ e \in Over(Switches) =>
                \A v \in Valuations : /\ Value(u, v) <= Test(e, v)
                                      /\ Value(e, v) # 1 => Value(u, v) = Test(e, v)
      BY <2>3, TransCompareIs
    <2>. HIDE DEF u
    <2>5. \A v \in Valuations : Test(e, v) = Test(w, v)
      BY <2>3 DEF Test
    <2>6. ASSUME w \in Over(Switches), NEW v \in Valuations PROVE Value(u, v) <= Test(w, v)
      BY <2>2, <2>4, <2>5, <2>6 DEF Kept
    <2>7. ASSUME w \in Over(Switches), ~SaysM(w), NEW v \in WithoutModules PROVE Value(u, v) = Test(w, v)
      <3>1. v \in Valuations
        BY DEF WithoutModules
      <3>2. Value(w, v) \in {0, 2}
        BY <2>1, <2>7, NotM
      <3>. QED
        BY <2>2, <2>3, <2>4, <2>5, <2>7, <3>1, <3>2 DEF Kept
    <2>8. Tested(u, w)
      BY <2>4, <2>6, <2>7 DEF Tested
    <2>. QED
      BY <1>1, <2>8 DEF u, e, w
  <1>3. \A f \in {"dep", "base"} : written[f] \in AllConditions
    BY DEF RewriteInv
  <1>4. SubmenuIsImplied'
    BY <1>0 DEF SubmenuIsImplied
  <1>. QED
    BY <1>0, <1>2, <1>3, <1>4 DEF RewriteInv

\* What is left of the pair still says whether the condition before implies the other.
LEMMA EliminateEqStep ==
    ASSUME Conditions = AllConditions, RewriteInv, EliminateEq
    PROVE  RewriteInv'
  <1>0. stage = "test" /\ stage' = "shared" /\ UNCHANGED written
    BY DEF EliminateEq
  <1>1. now'.base = EliminateCommon(Equal[MaxCalls], now.dep, now.base)[2]
    BY DEF EliminateEq, expr_eliminate_eq
  <1>2. Tested(now.dep, written.dep) /\ Tested(now.base, written.base)
    BY <1>0 DEF RewriteInv
  <1>3. written.dep \in AllConditions /\ written.base \in AllConditions
    BY DEF RewriteInv
  <1>4. ASSUME expr_is_yes(now'.base), Alone[written.dep] \cup Alone[written.base] \subseteq Switches,
               ~SaysM(written.dep), NEW v \in WithoutModules
        PROVE  Test(written.dep, v) <= Test(written.base, v)
    <2>1. v \in Valuations
      BY DEF WithoutModules
    <2>2. Value(now'.base, v) = yes
      <3>1. Value(Null, v) = yes /\ Value(Sym("y"), v) = yes
        <4>1. "y" \in Syms /\ v["y"].tri = yes
          BY <2>1, ValuesAssumption DEF ValuationIs, Syms
        <4>. QED
          BY <4>1, ValueIs
      <3>. QED
        BY <1>4, <3>1 DEF expr_is_yes
    <2>3. Faithful(Equal[MaxCalls])
      BY EqualIsFaithful, CallsAssumption
    <2>4. Value(now.dep, v) <= Value(now.base, v)
      <3>. DEFINE eq == Equal[MaxCalls]
      <3>1. Faithful(eq) /\ Value(EliminateCommon(eq, now.dep, now.base)[2], v) = yes
        BY <1>1, <2>2, <2>3
      <3>. HIDE DEF eq
      <3>. QED
        BY <1>2, <2>1, <3>1, NothingLeft DEF Tested
    <2>5. written.dep \in Over(Switches) /\ written.base \in Over(Switches)
      BY <1>3, <1>4 DEF Over
    <2>6. Value(now.dep, v) = Test(written.dep, v)
      BY <1>2, <1>4, <2>5 DEF Tested
    <2>7. Value(now.base, v) <= Test(written.base, v)
      BY <1>2, <2>1, <2>5 DEF Tested
    <2>8. /\ Test(written.dep, v) \in tristate /\ Test(written.base, v) \in tristate
          /\ Value(now.base, v) \in tristate
      BY <1>2, <2>1, ValueType DEF Test, tristate, yes, no, Tested
    <2>. QED
      BY <2>4, <2>6, <2>7, <2>8 DEF tristate
  <1>5. SubmenuIsImplied'
    <2>1. SaysM(written.dep)' <=> SaysM(written.dep)
      BY <1>0 DEF SaysM
    <2>2. expr_is_yes(now.base)' <=> expr_is_yes(now'.base)
      BY DEF expr_is_yes
    <2>3. /\ written' = written
          /\ \A v : Test(written.dep, v)' = Test(written.dep, v) /\ Test(written.base, v)' = Test(written.base, v)
      BY <1>0 DEF Test, Value, expr_calc_value
    <2>. QED
      BY <1>4, <2>1, <2>2, <2>3 DEF SubmenuIsImplied
  <1>. QED
    BY <1>0, <1>3, <1>5 DEF RewriteInv

\* The conditions as they are written.
LEMMA RewriteInvInit ==
    ASSUME Conditions = AllConditions, RewriteInit
    PROVE  RewriteInv
  <1>1. \A f \in {"dep", "base"} : written[f] \in AllConditions /\ now[f] = written[f]
    BY ConditionsAssumption DEF RewriteInit
  <1>2. stage = "value"
    BY DEF RewriteInit
  <1>. QED
    BY <1>1, <1>2 DEF RewriteInv, Kept, SubmenuIsImplied

\* Every rewriting keeps the invariant.
LEMMA RewriteInvNext ==
    ASSUME Conditions = AllConditions, RewriteInv, [RewriteNext]_rewrite_vars
    PROVE  RewriteInv'
  <1>1. CASE Transform
    <2>1. /\ stage # "shared" /\ UNCHANGED <<written, stage>>
          /\ now' = [dep |-> expr_transform(now.dep), base |-> expr_transform(now.base)]
      BY <1>1 DEF Transform, Both
    <2>2. \A X : Keeping(X) => /\ now.dep \in Over(X) => Kept(expr_transform(now.dep), now.dep, X)
                               /\ now.base \in Over(X) => Kept(expr_transform(now.base), now.base, X)
      BY TransformKeeps
    <2>. QED
      BY <2>1, <2>2, SimplifiedStep
  <1>2. CASE EliminateDups
    <2>1. /\ stage # "shared" /\ UNCHANGED <<written, stage>>
          /\ now' = [dep |-> expr_eliminate_dups(now.dep), base |-> expr_eliminate_dups(now.base)]
      BY <1>2 DEF EliminateDups, Both
    <2>2. \A X : Keeping(X) => /\ now.dep \in Over(X) => Kept(expr_eliminate_dups(now.dep), now.dep, X)
                               /\ now.base \in Over(X) => Kept(expr_eliminate_dups(now.base), now.base, X)
      BY EliminateDupsKeeps
    <2>. QED
      BY <2>1, <2>2, SimplifiedStep
  <1>3. CASE TransCompare
    BY <1>3, TransCompareStep
  <1>4. CASE EliminateEq
    BY <1>4, EliminateEqStep
  <1>5. CASE UNCHANGED rewrite_vars
    <2>1. written' = written /\ now' = now /\ stage' = stage
      BY <1>5 DEF rewrite_vars
    <2>2. SubmenuIsImplied'
      BY <2>1 DEF RewriteInv, SubmenuIsImplied, expr_is_yes, SaysM, Test, Value, expr_calc_value
    <2>. QED
      BY <2>1, <2>2 DEF RewriteInv
  <1>. QED
    BY <1>1, <1>2, <1>3, <1>4, <1>5 DEF RewriteNext

\* The invariant says that the rewritings are sound.
LEMMA InvIsSound ==
    ASSUME Conditions = AllConditions, RewriteInv
    PROVE  RewritingsAreSound
  <1>1. ASSUME NEW f \in {"dep", "base"}, stage = "value"
        PROVE  now[f] \in AllConditions /\ \A v \in Valuations : Value(now[f], v) = Value(written[f], v)
    <2>1. written[f] \in Over(Syms)
      BY AllOver DEF RewriteInv
    <2>2. Kept(now[f], written[f], Syms)
      BY <1>1, <2>1 DEF RewriteInv
    <2>. QED
      BY <2>2, OverConditions DEF Kept
  <1>2. ASSUME NEW f \in {"dep", "base"}, stage = "test", Alone[written[f]] \subseteq Switches
        PROVE  /\ \A v \in Valuations : Value(now[f], v) <= Test(written[f], v)
               /\ ~SaysM(written[f]) => \A v \in WithoutModules : Value(now[f], v) = Test(written[f], v)
    <2>1. Tested(now[f], written[f]) /\ written[f] \in Over(Switches)
      BY <1>2 DEF RewriteInv, Over
    <2>. QED
      BY <2>1 DEF Tested
  <1>3. SameValue
    BY <1>1, <1>2 DEF SameValue
  <1>4. ASSUME stage = "value", expr_eq(now.dep, now.base)
        PROVE  \A v \in Valuations : Value(now.dep, v) = Value(now.base, v)
    BY <1>1, <1>4, SameIfEqual
  <1>5. ASSUME stage = "value", NEW s \in DOMAIN SymType, Bool(SymType[s]), expr_depends_symbol(now.dep, s),
               NEW v \in Valuations, v[s].tri = no
        PROVE  Value(now.dep, v) = no
    <2>1. s \in Syms /\ now.dep \in AllConditions
      BY <1>1, <1>5 DEF Syms
    <2>. QED
      BY <1>5, <2>1, DependsIs
  <1>6. EqualIsSame
    BY <1>4, <1>5 DEF EqualIsSame
  <1>. QED
    BY <1>3, <1>6 DEF RewritingsAreSound

\* The rewritings of the conditions of any depth keep what they mean, in whatever
\* order they are applied; what they find equal is equal.
THEOREM RewritingsSound == ASSUME Conditions = AllConditions PROVE RewriteSpec => []RewritingsAreSound
  <1>1. RewriteInit => RewriteInv
    BY RewriteInvInit
  <1>2. RewriteInv /\ [RewriteNext]_rewrite_vars => RewriteInv'
    BY RewriteInvNext
  <1>3. RewriteInv => RewritingsAreSound
    BY InvIsSound
  <1>. QED
    BY <1>1, <1>2, <1>3, PTL DEF RewriteSpec

\* An entry that menu_finalize puts under a symbol implies the symbol's condition.
THEOREM SubmenuImplied == ASSUME Conditions = AllConditions PROVE RewriteSpec => []SubmenuIsImplied
  <1>1. RewriteInit => RewriteInv
    BY RewriteInvInit
  <1>2. RewriteInv /\ [RewriteNext]_rewrite_vars => RewriteInv'
    BY RewriteInvNext
  <1>3. RewriteInv => SubmenuIsImplied
    BY DEF RewriteInv
  <1>. QED
    BY <1>1, <1>2, <1>3, PTL DEF RewriteSpec

--------------------------------------------------------------------------------
(* expr_print and the grammar *)

(* A condition is read at three levels: an operand, a chain of &&, a chain of ||.  *)
(* p is read as e if e, or a condition of the same value, is what is found, and     *)
(* nothing after p is touched, whatever may come next in a text.                    *)
Same(a, b) == \A v \in Valuations : Value(a, v) = Value(b, v)
Levels == {"not", "and", "or"}
After(level) ==
    CASE level = "not" -> {")", "&&", "||"}
      [] level = "and" -> {")", "||"}
      [] level = "or" -> {")"}
Stops(level, q) == q = <<>> \/ Head(q) \in After(level)
Text(p) == p \in Seq(Words) /\ p # <<>>
ReadBy(level, p, e) ==
    \A n \in Nat, q \in Seq(Words) : n >= Len(p) /\ Stops(level, q) =>
        \E x \in AllConditions : Readers[n][level][p \o q] = [e |-> x, rest |-> q] /\ Same(x, e)

\* The level of a chain, the one of its operands, and its sign.
LevelIs(type) == IF type = "AND" THEN "and" ELSE "or"
Inner(type) == IF type = "AND" THEN "not" ELSE "and"
SignIs(type) == IF type = "AND" THEN "&&" ELSE "||"
\* p is a chain or a part of one: with more after it, it is read as the chain of both.
Joint2(type, p, s) == (p \o <<SignIs(type)>>) \o s
ReadInChain(type, p, e) ==
    /\ ReadBy(LevelIs(type), p, e)
    /\ \A s, f : Text(s) /\ f \in AllConditions /\ ReadBy(LevelIs(type), s, f) =>
            ReadBy(LevelIs(type), Joint2(type, p, s), Two(type, e, f))

\* The readers by the depth of their calls.
LEMMA ReadersIs ==
    \A n \in Nat : \A ts \in Seq(Words) :
        /\ Readers[n + 1]["not"][ts] = OperandFrom(Readers[n], ts)
        /\ Readers[n + 1]["and"][ts] = AndFrom(Readers[n], ts)
        /\ Readers[n + 1]["or"][ts] = OrFrom(Readers[n], ts)
  <1>. DEFINE First == [not |-> Unread, and |-> Unread, or |-> Unread]
              Def(r, n) == [not |-> [ts \in Seq(Words) |-> OperandFrom(r, ts)],
                            and |-> [ts \in Seq(Words) |-> AndFrom(r, ts)],
                            or |-> [ts \in Seq(Words) |-> OrFrom(r, ts)]]
  <1>1. NatInductiveDefHypothesis(Readers, First, Def)
    BY DEF NatInductiveDefHypothesis, Readers
  <1>2. NatInductiveDefConclusion(Readers, First, Def)
    BY <1>1, NatInductiveDef
  <1>3. Readers = [n \in Nat |-> IF n = 0 THEN First ELSE Def(Readers[n - 1], n)]
    BY <1>2 DEF NatInductiveDefConclusion
  <1>. HIDE DEF Def, First
  <1>4. \A n \in Nat : Readers[n + 1] = Def(Readers[n], n + 1)
    BY <1>3
  <1>5. ASSUME NEW r, NEW n, NEW ts \in Seq(Words)
        PROVE  /\ Def(r, n)["not"][ts] = OperandFrom(r, ts)
               /\ Def(r, n)["and"][ts] = AndFrom(r, ts)
               /\ Def(r, n)["or"][ts] = OrFrom(r, ts)
    BY DEF Def
  <1>. SUFFICES ASSUME NEW n \in Nat, NEW ts \in Seq(Words)
                PROVE  /\ Readers[n + 1]["not"][ts] = OperandFrom(Readers[n], ts)
                       /\ Readers[n + 1]["and"][ts] = AndFrom(Readers[n], ts)
                       /\ Readers[n + 1]["or"][ts] = OrFrom(Readers[n], ts)
    OBVIOUS
  <1>6. Readers[n + 1] = Def(Readers[n], n + 1)
    BY <1>4
  <1>7. /\ Def(Readers[n], n + 1)["not"][ts] = OperandFrom(Readers[n], ts)
        /\ Def(Readers[n], n + 1)["and"][ts] = AndFrom(Readers[n], ts)
        /\ Def(Readers[n], n + 1)["or"][ts] = OrFrom(Readers[n], ts)
    BY <1>5
  <1>. QED
    BY <1>6, <1>7

\* The signs and the names of the symbols.
LEMMA WordsAre ==
    /\ Syms \subseteq Words /\ {"!", "(", ")", "&&", "||"} \subseteq Words
    /\ \A s \in Syms : s \notin {"!", "(", ")", "&&", "||"}
    /\ \A t \in Relations : Token[t] \in Words /\ Token[t] \notin {"!", "(", ")", "&&", "||"}
    /\ \A t \in Relations : (CHOOSE u \in Relations : Token[u] = Token[t]) = t
  <1>1. /\ Token["EQUAL"] = "=" /\ Token["UNEQUAL"] = "!=" /\ Token["LTH"] = "<" /\ Token["LEQ"] = "<="
        /\ Token["GTH"] = ">" /\ Token["GEQ"] = ">="
    BY DEF Token
  <1>2. \A t \in Relations : Token[t] \notin {"!", "(", ")", "&&", "||"}
    BY <1>1 DEF Relations
  <1>3. \A t, u \in Relations : Token[u] = Token[t] => u = t
    BY <1>1 DEF Relations
  <1>4. \A t \in Relations : (CHOOSE u \in Relations : Token[u] = Token[t]) = t
    BY <1>3
  <1>. QED
    BY <1>2, <1>4, NamesAssumption DEF Syms, Words, Signs

\* A text that begins with a word.
LEMMA FirstWord ==
    ASSUME NEW a \in Words, NEW p \in Seq(Words), NEW ts, ts = <<a>> \o p
    PROVE  /\ ts \in Seq(Words) /\ ts # <<>> /\ ts[1] = a /\ Head(ts) = a /\ Tail(ts) = p
           /\ Len(ts) = Len(p) + 1 /\ Len(p) \in Nat
           /\ \A i \in 1..Len(p) : ts[i + 1] = p[i]
  <1>1. <<a>> \in Seq(Words) /\ Len(<<a>>) = 1
    OBVIOUS
  <1>2. ts \in Seq(Words) /\ Len(ts) = Len(p) + 1 /\ Len(p) \in Nat
    BY <1>1, ConcatProperties
  <1>3. ts[1] = a /\ \A i \in 1..Len(p) : ts[i + 1] = p[i]
    BY <1>1, <1>2, ConcatProperties
  <1>4. ts # <<>>
    BY <1>2
  <1>5. Tail(ts) = p
    <2>1. Tail(ts) \in Seq(Words) /\ Len(Tail(ts)) = Len(p) /\ \A i \in 1..Len(p) : Tail(ts)[i] = ts[i + 1]
      BY <1>2, <1>4, HeadTailProperties
    <2>. QED
      BY <1>3, <2>1, SeqEqual
  <1>. QED
    BY <1>2, <1>3, <1>4, <1>5

\* A word is a text.
LEMMA TextOfWord ==
    ASSUME NEW a \in Words
    PROVE  Text(<<a>>) /\ Len(<<a>>) = 1
  <1>1. <<a>> \in Seq(Words) /\ Len(<<a>>) = 1 /\ Len(<<>>) = 0
    OBVIOUS
  <1>. QED
    BY <1>1 DEF Text
\* Where three texts are joined does not matter.
LEMMA Associative == \A x, y, z \in Seq(Words) : (x \o y) \o z = x \o (y \o z)
  BY ConcatAssociative

\* A text with another one after it is a text.
LEMMA TextOfTwo ==
    ASSUME NEW p, Text(p), NEW s, Text(s)
    PROVE  /\ Text(p \o s) /\ Len(p \o s) = Len(p) + Len(s) /\ Len(p) \in Nat \ {0} /\ Len(s) \in Nat \ {0}
           /\ \A q \in Seq(Words) : s \o q \in Seq(Words) /\ p \o (s \o q) \in Seq(Words)
  <1>1. p \in Seq(Words) /\ s \in Seq(Words) /\ Len(p) \in Nat \ {0} /\ Len(s) \in Nat \ {0}
    BY EmptySeq DEF Text
  <1>2. p \o s \in Seq(Words)
    BY <1>1, ConcatProperties
  <1>3. Len(p \o s) = Len(p) + Len(s)
    BY <1>1, ConcatProperties
  <1>4. Len(p \o s) # 0 /\ Len(<<>>) = 0
    BY <1>1, <1>3
  <1>5. p \o s # <<>>
    BY <1>4
  <1>6. ASSUME NEW q \in Seq(Words)
        PROVE  s \o q \in Seq(Words) /\ p \o (s \o q) \in Seq(Words)
    <2>2. s \o q \in Seq(Words)
      BY <1>1, ConcatProperties
    <2>3. p \o (s \o q) \in Seq(Words)
      BY <1>1, <2>2, ConcatProperties
    <2>. QED
      BY <2>2, <2>3
  <1>. QED
    BY <1>1, <1>2, <1>3, <1>5, <1>6 DEF Text

\* What the value of a condition is made of.
LEMMA SameOf ==
    ASSUME Conditions = AllConditions
    PROVE  /\ \A a \in AllConditions, b \in AllConditions : Same(a, b) => Same(Not(a), Not(b))
           /\ \A a \in AllConditions, b \in AllConditions, c \in AllConditions, d \in AllConditions :
                 \A type \in {"AND", "OR"} : Same(a, b) /\ Same(c, d) => Same(Two(type, a, c), Two(type, b, d))
           /\ \A a \in AllConditions, b \in AllConditions, c \in AllConditions :
                 \A type \in {"AND", "OR"} : Same(Two(type, a, Two(type, b, c)), Two(type, Two(type, a, b), c))
  <1>1. ASSUME NEW a \in AllConditions, NEW b \in AllConditions, Same(a, b), NEW v \in Valuations
        PROVE  Value(Not(a), v) = Value(Not(b), v)
    BY <1>1, ValueIs DEF Same
  <1>2. ASSUME NEW a \in AllConditions, NEW b \in AllConditions, NEW c \in AllConditions, NEW d \in AllConditions,
               NEW type \in {"AND", "OR"}, Same(a, b), Same(c, d), NEW v \in Valuations
        PROVE  Value(Two(type, a, c), v) = Value(Two(type, b, d), v)
    <2>1. Value(Two(type, a, c), v) = Joint(type, Value(a, v), Value(c, v))
      BY ValueOfTwo
    <2>2. Value(Two(type, b, d), v) = Joint(type, Value(b, v), Value(d, v))
      BY ValueOfTwo
    <2>. QED
      BY <1>2, <2>1, <2>2 DEF Same
  <1>3. ASSUME NEW a \in AllConditions, NEW b \in AllConditions, NEW c \in AllConditions,
               NEW type \in {"AND", "OR"}, NEW v \in Valuations
        PROVE  Value(Two(type, a, Two(type, b, c)), v) = Value(Two(type, Two(type, a, b), c), v)
    <2>1. Two(type, a, b) \in AllConditions /\ Two(type, b, c) \in AllConditions
      BY Built
    <2>2. /\ Value(Two(type, a, Two(type, b, c)), v) = Joint(type, Value(a, v), Value(Two(type, b, c), v))
          /\ Value(Two(type, b, c), v) = Joint(type, Value(b, v), Value(c, v))
      BY <2>1, ValueOfTwo
    <2>3. /\ Value(Two(type, Two(type, a, b), c), v) = Joint(type, Value(Two(type, a, b), v), Value(c, v))
          /\ Value(Two(type, a, b), v) = Joint(type, Value(a, v), Value(b, v))
      BY <2>1, ValueOfTwo
    <2>4. Value(a, v) \in tristate /\ Value(b, v) \in tristate /\ Value(c, v) \in tristate
      BY ValueType
    <2>5. \A x \in tristate, y \in tristate, z \in tristate :
             Joint(type, x, Joint(type, y, z)) = Joint(type, Joint(type, x, y), z)
      BY DEF Joint, Greater, Lesser, tristate
    <2>. QED
      BY <2>2, <2>3, <2>4, <2>5
  <1>. QED
    BY <1>1, <1>2, <1>3 DEF Same

\* What an operand begins with.
LEMMA OperandIs ==
    ASSUME NEW r, NEW ts
    PROVE  /\ ts[1] = "!" => OperandFrom(r, ts) = Negated(r["not"][Tail(ts)])
           /\ ts[1] = "(" => OperandFrom(r, ts) = Enclosed(r["or"][Tail(ts)])
           /\ Compares(ts) => OperandFrom(r, ts) = ComparisonFrom(ts)
           /\ ts[1] \notin {"!", "("} /\ ~Compares(ts) => OperandFrom(r, ts) = [e |-> Sym(ts[1]), rest |-> Tail(ts)]
  <1>1. ASSUME ts[1] = "!"
        PROVE  OperandFrom(r, ts) = Negated(r["not"][Tail(ts)])
    <2>1. ~Compares(ts) /\ ts[1] # "("
      BY <1>1 DEF Compares, Signs
    <2>. QED
      BY <1>1, <2>1 DEF OperandFrom
  <1>2. ASSUME ts[1] = "("
        PROVE  OperandFrom(r, ts) = Enclosed(r["or"][Tail(ts)])
    <2>1. ~Compares(ts) /\ ts[1] # "!"
      BY <1>2 DEF Compares, Signs
    <2>. QED
      BY <1>2, <2>1 DEF OperandFrom
  <1>3. ASSUME Compares(ts)
        PROVE  OperandFrom(r, ts) = ComparisonFrom(ts)
    <2>1. ts[1] \notin {"!", "("}
      BY <1>3 DEF Compares, Signs
    <2>. QED
      BY <1>3, <2>1 DEF OperandFrom
  <1>4. ASSUME ts[1] \notin {"!", "("}, ~Compares(ts)
        PROVE  OperandFrom(r, ts) = [e |-> Sym(ts[1]), rest |-> Tail(ts)]
    BY <1>4 DEF OperandFrom
  <1>. QED
    BY <1>1, <1>2, <1>3, <1>4

\* A symbol.
LEMMA SymbolRead ==
    ASSUME NEW s \in Syms
    PROVE  Text(<<s>>) /\ ReadBy("not", <<s>>, Sym(s))
  <1>1. Text(<<s>>) /\ s \in Words /\ s \notin {"!", "("}
    BY WordsAre DEF Text
  <1>2. ASSUME NEW n \in Nat, NEW q \in Seq(Words), n >= Len(<<s>>), Stops("not", q)
        PROVE  \E x \in AllConditions : /\ Readers[n]["not"][<<s>> \o q] = [e |-> x, rest |-> q]
                                        /\ Same(x, Sym(s))
    <2>1. PICK ts : ts = <<s>> \o q
      OBVIOUS
    <2>2. /\ ts \in Seq(Words) /\ ts[1] = s /\ Tail(ts) = q /\ Len(ts) = Len(q) + 1 /\ Len(q) \in Nat
          /\ \A i \in 1..Len(q) : ts[i + 1] = q[i]
      BY <1>1, <2>1, FirstWord
    <2>3. n - 1 \in Nat /\ n = (n - 1) + 1
      BY <1>2
    <2>4. Readers[n]["not"][ts] = OperandFrom(Readers[n - 1], ts)
      BY <2>2, <2>3, ReadersIs
    <2>5. ~Compares(ts)
      <3>1. SUFFICES ASSUME Len(ts) > 1 PROVE ts[2] \notin {Token[t] : t \in Relations}
        BY DEF Compares
      <3>2. q # <<>> /\ ts[2] = q[1]
        BY <2>2, <3>1
      <3>3. q[1] \in {")", "&&", "||"}
        BY <1>2, <3>2, HeadTailProperties DEF Stops, After
      <3>. QED
        BY <3>2, <3>3, WordsAre
    <2>6. OperandFrom(Readers[n - 1], ts) = [e |-> Sym(s), rest |-> q]
      BY <1>1, <2>2, <2>5, OperandIs
    <2>7. Sym(s) \in AllConditions
      BY Built
    <2>. QED
      BY <2>1, <2>4, <2>6, <2>7 DEF Same
  <1>. QED
    BY <1>1, <1>2 DEF ReadBy

\* A comparison.
LEMMA ComparisonRead ==
    ASSUME NEW t \in Relations, NEW a \in Syms, NEW b \in Syms
    PROVE  Text(<<a, Token[t], b>>) /\ ReadBy("not", <<a, Token[t], b>>, Comp(t, a, b))
  <1>. DEFINE p == <<a, Token[t], b>>
  <1>1. /\ p \in Seq(Words) /\ Len(p) = 3 /\ p # <<>> /\ p[1] = a /\ p[2] = Token[t] /\ p[3] = b
        /\ a \notin {"!", "("}
    BY WordsAre
  <1>. HIDE DEF p
  <1>2. a \notin Signs
    BY NamesAssumption DEF Syms
  <1>3. ASSUME NEW n \in Nat, NEW q \in Seq(Words), n >= Len(p), Stops("not", q)
        PROVE  \E x \in AllConditions : /\ Readers[n]["not"][p \o q] = [e |-> x, rest |-> q]
                                        /\ Same(x, Comp(t, a, b))
    <2>1. PICK ts : ts = p \o q
      OBVIOUS
    <2>2. /\ ts \in Seq(Words) /\ Len(ts) = 3 + Len(q) /\ Len(q) \in Nat
          /\ \A i \in 1..3 : ts[i] = p[i]
          /\ \A i \in 1..Len(q) : ts[i + 3] = q[i]
      <3>1. ts \in Seq(Words) /\ Len(ts) = Len(p) + Len(q)
        BY <1>1, <2>1, ConcatProperties
      <3>2. \A i \in 1..Len(p) + Len(q) : ts[i] = IF i <= Len(p) THEN p[i] ELSE q[i - Len(p)]
        BY <1>1, <2>1, ConcatProperties
      <3>3. Len(q) \in Nat
        BY EmptySeq
      <3>4. \A i \in 1..3 : ts[i] = p[i]
        BY <1>1, <3>2, <3>3
      <3>5. \A i \in 1..Len(q) : ts[i + 3] = q[i]
        BY <1>1, <3>2, <3>3
      <3>. QED
        BY <1>1, <3>1, <3>3, <3>4, <3>5
    <2>3. n - 1 \in Nat /\ n = (n - 1) + 1
      BY <1>1, <1>3
    <2>4. Readers[n]["not"][ts] = OperandFrom(Readers[n - 1], ts)
      BY <2>2, <2>3, ReadersIs
    <2>5. ts[1] = a /\ ts[2] = Token[t] /\ ts[3] = b /\ Len(ts) > 1
      BY <1>1, <2>2
    <2>6. (CHOOSE u \in Relations : Token[u] = ts[2]) = t
      BY <2>5, WordsAre
    <2>7. SubSeq(ts, 4, Len(ts)) = q
      <3>1. \A i \in 4..Len(ts) : ts[i] \in Words
        BY <2>2, ElementOfSeq
      <3>2. /\ SubSeq(ts, 4, Len(ts)) \in Seq(Words) /\ Len(SubSeq(ts, 4, Len(ts))) = Len(q)
            /\ \A i \in 1..Len(q) : SubSeq(ts, 4, Len(ts))[i] = ts[i + 3]
        BY <2>2, <3>1, SubSeqProperties
      <3>. QED
        BY <2>2, <3>2, SeqEqual
    <2>8. OperandFrom(Readers[n - 1], ts) = [e |-> Comp(t, a, b), rest |-> q]
      <3>1. Compares(ts) /\ ts[1] \notin {"!", "("}
        BY <1>1, <1>2, <2>5 DEF Compares
      <3>2. OperandFrom(Readers[n - 1], ts) = ComparisonFrom(ts)
        BY <3>1, OperandIs
      <3>3. ComparisonFrom(ts) = [e |-> Comp(t, a, b), rest |-> q]
        BY <2>5, <2>6, <2>7 DEF ComparisonFrom
      <3>. QED
        BY <3>2, <3>3
    <2>9. Comp(t, a, b) \in AllConditions
      BY Built
    <2>. QED
      BY <2>1, <2>4, <2>8, <2>9 DEF Same
  <1>. QED
    BY <1>1, <1>3 DEF ReadBy, Text, p

\* A negation.
LEMMA NegationRead ==
    ASSUME Conditions = AllConditions, NEW p, Text(p), NEW e \in AllConditions, ReadBy("not", p, e)
    PROVE  Text(<<"!">> \o p) /\ ReadBy("not", <<"!">> \o p, Not(e))
  <1>1. "!" \in Words
    BY WordsAre
  <1>2. /\ Text(<<"!">> \o p) /\ Len(<<"!">> \o p) = Len(p) + 1 /\ Len(p) \in Nat
        /\ \A q \in Seq(Words) : (<<"!">> \o p) \o q = <<"!">> \o (p \o q) /\ p \o q \in Seq(Words)
    <2>1. PICK b : b = <<"!">>
      OBVIOUS
    <2>2. Text(b) /\ Len(b) = 1
      BY <1>1, <2>1, TextOfWord
    <2>3. Text(b \o p) /\ Len(b \o p) = Len(b) + Len(p) /\ Len(p) \in Nat \ {0}
      BY <2>2, TextOfTwo
    <2>4. \A q \in Seq(Words) : (b \o p) \o q = b \o (p \o q)
      BY <2>2, Associative DEF Text
    <2>5. \A q \in Seq(Words) : p \o q \in Seq(Words)
      BY <2>2, TextOfTwo
    <2>. QED
      BY <2>1, <2>2, <2>3, <2>4, <2>5
  <1>3. ASSUME NEW n \in Nat, NEW q \in Seq(Words), n >= Len(<<"!">> \o p), Stops("not", q)
        PROVE  \E x \in AllConditions : /\ Readers[n]["not"][(<<"!">> \o p) \o q] = [e |-> x, rest |-> q]
                                        /\ Same(x, Not(e))
    <2>1. PICK ts : ts = <<"!">> \o (p \o q)
      OBVIOUS
    <2>2. ts = (<<"!">> \o p) \o q /\ p \o q \in Seq(Words)
      BY <1>2, <2>1
    <2>3. ts \in Seq(Words) /\ ts[1] = "!" /\ Tail(ts) = p \o q
      BY <1>1, <2>1, <2>2, FirstWord
    <2>4. n - 1 \in Nat /\ n = (n - 1) + 1 /\ n - 1 >= Len(p)
      BY <1>2, <1>3
    <2>5. Readers[n]["not"][ts] = OperandFrom(Readers[n - 1], ts)
      BY <2>3, <2>4, ReadersIs
    <2>6. PICK x \in AllConditions : Readers[n - 1]["not"][p \o q] = [e |-> x, rest |-> q] /\ Same(x, e)
      BY <1>3, <2>4 DEF ReadBy
    <2>7. OperandFrom(Readers[n - 1], ts) = [e |-> Not(x), rest |-> q]
      <3>1. Readers[n - 1]["not"][Tail(ts)] = [e |-> x, rest |-> q]
        BY <2>3, <2>6, Zenon
      <3>2. OperandFrom(Readers[n - 1], ts) = Negated(Readers[n - 1]["not"][Tail(ts)])
        BY <2>3, OperandIs
      <3>. QED
        BY <3>1, <3>2 DEF Negated
    <2>8. Not(x) \in AllConditions /\ Same(Not(x), Not(e))
      BY <2>6, Built, SameOf
    <2>. QED
      BY <2>2, <2>5, <2>7, <2>8
  <1>. QED
    BY <1>2, <1>3 DEF ReadBy

\* A condition in parentheses.
LEMMA ParensRead ==
    ASSUME NEW p, Text(p), NEW e, ReadBy("or", p, e), NEW w, w = (<<"(">> \o p) \o <<")">>
    PROVE  Text(w) /\ ReadBy("not", w, e)
  <1>1. "(" \in Words /\ ")" \in Words
    BY WordsAre
  <1>2. /\ Text(<<"(">> \o p) /\ Len(<<"(">> \o p) = Len(p) + 1 /\ Len(p) \in Nat
        /\ \A q \in Seq(Words) : (<<"(">> \o p) \o q = <<"(">> \o (p \o q) /\ p \o q \in Seq(Words)
    <2>1. PICK b : b = <<"(">>
      OBVIOUS
    <2>2. Text(b) /\ Len(b) = 1
      BY <1>1, <2>1, TextOfWord
    <2>3. Text(b \o p) /\ Len(b \o p) = Len(b) + Len(p) /\ Len(p) \in Nat \ {0}
      BY <2>2, TextOfTwo
    <2>4. \A q \in Seq(Words) : (b \o p) \o q = b \o (p \o q)
      BY <2>2, Associative DEF Text
    <2>5. \A q \in Seq(Words) : p \o q \in Seq(Words)
      BY <2>2, TextOfTwo
    <2>. QED
      BY <2>1, <2>2, <2>3, <2>4, <2>5
  <1>3. /\ Text(w) /\ Len(w) = Len(p) + 2
        /\ \A q \in Seq(Words) : w \o q = (<<"(">> \o p) \o (<<")">> \o q) /\ <<")">> \o q \in Seq(Words)
    <2>1. Text(<<")">>) /\ Len(<<")">>) = 1
      BY <1>1, TextOfWord
    <2>2. PICK r : r = <<"(">> \o p
      OBVIOUS
    <2>3. PICK b : b = <<")">>
      OBVIOUS
    <2>4. Text(r) /\ Text(b) /\ Len(r) = Len(p) + 1 /\ Len(b) = 1
      BY <1>2, <2>1, <2>2, <2>3
    <2>5. Text(r \o b) /\ Len(r \o b) = Len(r) + Len(b)
      BY <2>4, TextOfTwo
    <2>6. \A q \in Seq(Words) : (r \o b) \o q = r \o (b \o q)
      BY <2>4, Associative DEF Text
    <2>7. \A q \in Seq(Words) : b \o q \in Seq(Words)
      BY <2>4, TextOfTwo
    <2>. QED
      BY <1>2, <2>2, <2>3, <2>4, <2>5, <2>6, <2>7
  <1>4. ASSUME NEW n \in Nat, NEW q \in Seq(Words), n >= Len(w), Stops("not", q)
        PROVE  \E x \in AllConditions : Readers[n]["not"][w \o q] = [e |-> x, rest |-> q] /\ Same(x, e)
    <2>1. PICK z : z = <<")">> \o q
      OBVIOUS
    <2>2. z \in Seq(Words) /\ z # <<>> /\ Head(z) = ")" /\ Tail(z) = q
      BY <1>1, <2>1, FirstWord
    <2>3. PICK ts : ts = <<"(">> \o (p \o z)
      OBVIOUS
    <2>4. ts = w \o q /\ p \o z \in Seq(Words)
      BY <1>2, <1>3, <2>1, <2>2, <2>3
    <2>5. ts \in Seq(Words) /\ ts[1] = "(" /\ Tail(ts) = p \o z
      BY <1>1, <2>3, <2>4, FirstWord
    <2>6. n - 1 \in Nat /\ n = (n - 1) + 1 /\ n - 1 >= Len(p)
      BY <1>2, <1>3, <1>4
    <2>7. Readers[n]["not"][ts] = OperandFrom(Readers[n - 1], ts)
      BY <2>5, <2>6, ReadersIs
    <2>8. Stops("or", z)
      BY <2>2 DEF Stops, After
    <2>9. PICK x \in AllConditions : Readers[n - 1]["or"][p \o z] = [e |-> x, rest |-> z] /\ Same(x, e)
      BY <2>2, <2>6, <2>8 DEF ReadBy
    <2>10. OperandFrom(Readers[n - 1], ts) = [e |-> x, rest |-> q]
      <3>1. Readers[n - 1]["or"][Tail(ts)] = [e |-> x, rest |-> z]
        BY <2>5, <2>9, Zenon
      <3>2. OperandFrom(Readers[n - 1], ts) = Enclosed(Readers[n - 1]["or"][Tail(ts)])
        BY <2>5, OperandIs
      <3>3. Enclosed([e |-> x, rest |-> z]) = [e |-> x, rest |-> Tail(z)]
        BY DEF Enclosed
      <3>. QED
        BY <2>2, <3>1, <3>2, <3>3, Zenon
    <2>. QED
      BY <2>4, <2>7, <2>9, <2>10
  <1>. QED
    BY <1>3, <1>4 DEF ReadBy

\* A text that is read as a condition is read as any of the same value.
LEMMA ReadSame ==
    ASSUME NEW level, NEW p, NEW e, NEW f, ReadBy(level, p, e), Same(e, f)
    PROVE  ReadBy(level, p, f)
  <1>1. \A x : Same(x, e) => Same(x, f)
    BY DEF Same
  <1>. QED
    BY <1>1 DEF ReadBy

\* A chain is what the level below reads and, if its sign is next, the chain that follows.
LEMMA ChainIs ==
    ASSUME NEW type \in {"AND", "OR"}, NEW n \in Nat, NEW ts \in Seq(Words)
    PROVE  Readers[n + 1][LevelIs(type)][ts] =
              ChainFrom(Readers[n][LevelIs(type)], type, Readers[n + 1][Inner(type)][ts])
  <1>1. /\ Readers[n + 1]["not"][ts] = OperandFrom(Readers[n], ts)
        /\ Readers[n + 1]["and"][ts] = AndFrom(Readers[n], ts)
        /\ Readers[n + 1]["or"][ts] = OrFrom(Readers[n], ts)
    BY ReadersIs
  <1>2. CASE type = "AND"
    <2>1. LevelIs(type) = "and" /\ Inner(type) = "not"
      BY <1>2 DEF LevelIs, Inner
    <2>2. AndFrom(Readers[n], ts) = ChainFrom(Readers[n]["and"], "AND", OperandFrom(Readers[n], ts))
      BY DEF AndFrom
    <2>. QED
      BY <1>1, <1>2, <2>1, <2>2
  <1>3. CASE type = "OR"
    <2>1. LevelIs(type) = "or" /\ Inner(type) = "and"
      BY <1>3 DEF LevelIs, Inner
    <2>2. OrFrom(Readers[n], ts) = ChainFrom(Readers[n]["or"], "OR", AndFrom(Readers[n], ts))
      BY DEF OrFrom
    <2>. QED
      BY <1>1, <1>3, <2>1, <2>2
  <1>. QED
    BY <1>2, <1>3

\* At another word, or at the end, a chain ends.
LEMMA ChainEnds ==
    ASSUME NEW reader, NEW type \in {"AND", "OR"}, NEW x, NEW q, q = <<>> \/ Head(q) # SignIs(type)
    PROVE  ChainFrom(reader, type, [e |-> x, rest |-> q]) = [e |-> x, rest |-> q]
  BY DEF ChainFrom, SignIs

\* At its sign, a chain goes on.
LEMMA ChainGoesOn ==
    ASSUME NEW reader, NEW type \in {"AND", "OR"}, NEW x, NEW q, q # <<>>, Head(q) = SignIs(type)
    PROVE  ChainFrom(reader, type, [e |-> x, rest |-> q]) =
              [e |-> Two(type, x, reader[Tail(q)].e), rest |-> reader[Tail(q)].rest]
  <1>1. PICK r : r = [e |-> x, rest |-> q]
    OBVIOUS
  <1>2. r.e = x /\ r.rest = q
    BY <1>1
  <1>3. ChainFrom(reader, type, r) = [e |-> Two(type, x, reader[Tail(q)].e), rest |-> reader[Tail(q)].rest]
    BY <1>2 DEF ChainFrom, SignIs
  <1>. QED
    BY <1>1, <1>3

\* What the level below reads is a chain of one.
LEMMA ChainOfOne ==
    ASSUME Conditions = AllConditions, NEW type \in {"AND", "OR"}, NEW p, Text(p), NEW e \in AllConditions,
           ReadBy(Inner(type), p, e)
    PROVE  ReadInChain(type, p, e)
  <1>1. /\ \A q : Stops(LevelIs(type), q) => Stops(Inner(type), q) /\ (q = <<>> \/ Head(q) # SignIs(type))
        /\ SignIs(type) \in After(Inner(type)) /\ SignIs(type) \in Words
    <2>1. CASE type = "AND"
      <3>1. LevelIs(type) = "and" /\ Inner(type) = "not" /\ SignIs(type) = "&&"
        BY <2>1 DEF LevelIs, Inner, SignIs
      <3>. QED
        BY <3>1, WordsAre DEF Stops, After
    <2>2. CASE type = "OR"
      <3>1. LevelIs(type) = "or" /\ Inner(type) = "and" /\ SignIs(type) = "||"
        BY <2>2 DEF LevelIs, Inner, SignIs
      <3>. QED
        BY <3>1, WordsAre DEF Stops, After
    <2>. QED
      BY <2>1, <2>2
  <1>2. p \in Seq(Words) /\ Len(p) \in Nat \ {0}
    BY EmptySeq DEF Text
  <1>3. ASSUME NEW n \in Nat, NEW q \in Seq(Words), n >= Len(p), Stops(LevelIs(type), q)
        PROVE  \E x \in AllConditions : Readers[n][LevelIs(type)][p \o q] = [e |-> x, rest |-> q] /\ Same(x, e)
    <2>1. n - 1 \in Nat /\ n = (n - 1) + 1
      BY <1>2, <1>3
    <2>2. p \o q \in Seq(Words)
      BY <1>2, ConcatProperties
    <2>3. Readers[n][LevelIs(type)][p \o q] =
             ChainFrom(Readers[n - 1][LevelIs(type)], type, Readers[n][Inner(type)][p \o q])
      BY <2>1, <2>2, ChainIs
    <2>4. PICK x \in AllConditions : Readers[n][Inner(type)][p \o q] = [e |-> x, rest |-> q] /\ Same(x, e)
      BY <1>1, <1>3 DEF ReadBy
    <2>5. ChainFrom(Readers[n - 1][LevelIs(type)], type, [e |-> x, rest |-> q]) = [e |-> x, rest |-> q]
      <3>1. q = <<>> \/ Head(q) # SignIs(type)
        BY <1>1, <1>3
      <3>. QED
        BY <3>1, ChainEnds
    <2>. QED
      BY <2>3, <2>4, <2>5
  <1>4. ASSUME NEW s, NEW f, Text(s), f \in AllConditions, ReadBy(LevelIs(type), s, f)
        PROVE  ReadBy(LevelIs(type), Joint2(type, p, s), Two(type, e, f))
    <2>. DEFINE w == Joint2(type, p, s)
                sign == SignIs(type)
    <2>1. PICK b : b = <<sign>>
      OBVIOUS
    <2>2. Text(b) /\ Len(b) = 1
      BY <1>1, <2>1, TextOfWord
    <2>3. Text(p \o b) /\ Len(p \o b) = Len(p) + Len(b)
      BY <2>2, TextOfTwo
    <2>4. Len((p \o b) \o s) = Len(p \o b) + Len(s) /\ Len(s) \in Nat \ {0}
      BY <1>4, <2>3, TextOfTwo
    <2>5. w = (p \o b) \o s /\ Len(w) = Len(p) + 1 + Len(s)
      BY <2>1, <2>2, <2>3, <2>4 DEF Joint2
    <2>6. ASSUME NEW n \in Nat, NEW q \in Seq(Words), n >= Len(w), Stops(LevelIs(type), q)
          PROVE  \E x \in AllConditions : /\ Readers[n][LevelIs(type)][w \o q] = [e |-> x, rest |-> q]
                                          /\ Same(x, Two(type, e, f))
      <3>1. PICK z : z = b \o (s \o q)
        OBVIOUS
      <3>2. s \in Seq(Words) /\ b \in Seq(Words) /\ s \o q \in Seq(Words)
        BY <1>4, <2>2, ConcatProperties DEF Text
      <3>3. z \in Seq(Words) /\ z # <<>> /\ Head(z) = sign /\ Tail(z) = s \o q
        BY <1>1, <2>1, <3>1, <3>2, FirstWord
      <3>4. w \o q = p \o z
        <4>1. ((p \o b) \o s) \o q = (p \o b) \o (s \o q)
          BY <2>3, <3>2, Associative DEF Text
        <4>2. (p \o b) \o (s \o q) = p \o (b \o (s \o q))
          BY <1>2, <3>2, Associative
        <4>. QED
          BY <2>5, <3>1, <4>1, <4>2
      <3>5. n - 1 \in Nat /\ n = (n - 1) + 1 /\ n - 1 >= Len(s) /\ n >= Len(p)
        BY <1>2, <2>4, <2>5, <2>6
      <3>6. p \o z \in Seq(Words)
        BY <1>2, <3>3, ConcatProperties
      <3>7. Readers[n][LevelIs(type)][p \o z] =
               ChainFrom(Readers[n - 1][LevelIs(type)], type, Readers[n][Inner(type)][p \o z])
        BY <3>5, <3>6, ChainIs
      <3>8. Stops(Inner(type), z)
        BY <1>1, <3>3 DEF Stops
      <3>9. PICK x \in AllConditions : Readers[n][Inner(type)][p \o z] = [e |-> x, rest |-> z] /\ Same(x, e)
        BY <3>3, <3>5, <3>8 DEF ReadBy
      <3>10. PICK y \in AllConditions : /\ Readers[n - 1][LevelIs(type)][s \o q] = [e |-> y, rest |-> q]
                                        /\ Same(y, f)
        BY <1>4, <2>6, <3>5 DEF ReadBy
      <3>11. ChainFrom(Readers[n - 1][LevelIs(type)], type, [e |-> x, rest |-> z]) =
                [e |-> Two(type, x, y), rest |-> q]
        <4>1. PICK reader : reader = Readers[n - 1][LevelIs(type)]
          OBVIOUS
        <4>2. reader[Tail(z)] = [e |-> y, rest |-> q]
          BY <3>3, <3>10, <4>1, Zenon
        <4>3. z # <<>> /\ Head(z) = SignIs(type)
          BY <3>3
        <4>4. ChainFrom(reader, type, [e |-> x, rest |-> z]) =
                 [e |-> Two(type, x, reader[Tail(z)].e), rest |-> reader[Tail(z)].rest]
          BY <4>3, ChainGoesOn
        <4>5. reader[Tail(z)].e = y /\ reader[Tail(z)].rest = q
          BY <4>2
        <4>. QED
          BY <4>1, <4>4, <4>5
      <3>12. Two(type, x, y) \in AllConditions /\ Same(Two(type, x, y), Two(type, e, f))
        BY <1>4, <3>9, <3>10, Built, SameOf
      <3>. QED
        BY <3>4, <3>7, <3>9, <3>11, <3>12
    <2>. QED
      BY <2>6 DEF ReadBy
  <1>5. ReadBy(LevelIs(type), p, e)
    BY <1>3 DEF ReadBy
  <1>. QED
    BY <1>4, <1>5 DEF ReadInChain

\* Two chains with the sign between them are a chain.
LEMMA ChainOfTwo ==
    ASSUME Conditions = AllConditions, NEW type \in {"AND", "OR"},
           NEW p, Text(p), NEW e \in AllConditions, ReadInChain(type, p, e),
           NEW s, Text(s), NEW f \in AllConditions, ReadInChain(type, s, f)
    PROVE  Text(Joint2(type, p, s)) /\ ReadInChain(type, Joint2(type, p, s), Two(type, e, f))
  <1>. DEFINE sign == SignIs(type)
  <1>1. PICK b : b = <<sign>>
    OBVIOUS
  <1>2. Text(b)
    BY <1>1, TextOfWord, WordsAre DEF SignIs
  <1>3. \A x, y : Text(x) /\ Text(y) => Joint2(type, x, y) = (x \o b) \o y /\ Text(Joint2(type, x, y))
    <2>1. \A x, y : Joint2(type, x, y) = (x \o b) \o y
      BY <1>1 DEF Joint2
    <2>2. \A x : Text(x) => Text(x \o b)
      BY <1>2, TextOfTwo
    <2>3. \A x, y : Text(x) /\ Text(y) => Text((x \o b) \o y)
      BY <2>2, TextOfTwo
    <2>. QED
      BY <2>1, <2>3
  <1>4. Text(Joint2(type, p, s))
    BY <1>3
  <1>5. ReadBy(LevelIs(type), Joint2(type, p, s), Two(type, e, f))
    BY DEF ReadInChain
  <1>6. ASSUME NEW t, NEW g, Text(t), g \in AllConditions, ReadBy(LevelIs(type), t, g)
        PROVE  ReadBy(LevelIs(type), Joint2(type, Joint2(type, p, s), t), Two(type, Two(type, e, f), g))
    <2>1. ReadBy(LevelIs(type), Joint2(type, s, t), Two(type, f, g))
      BY <1>6 DEF ReadInChain
    <2>2. Text(Joint2(type, s, t)) /\ Two(type, f, g) \in AllConditions
      BY <1>3, <1>6, Built
    <2>3. ReadBy(LevelIs(type), Joint2(type, p, Joint2(type, s, t)), Two(type, e, Two(type, f, g)))
      BY <2>1, <2>2 DEF ReadInChain
    <2>4. Same(Two(type, e, Two(type, f, g)), Two(type, Two(type, e, f), g))
      BY <1>6, SameOf
    <2>5. Joint2(type, Joint2(type, p, s), t) = Joint2(type, p, Joint2(type, s, t))
      <3>1. p \in Seq(Words) /\ s \in Seq(Words) /\ t \in Seq(Words) /\ b \in Seq(Words)
        BY <1>2, <1>6 DEF Text
      <3>2. PICK pb : pb = p \o b
        OBVIOUS
      <3>3. pb \in Seq(Words) /\ s \o b \in Seq(Words)
        BY <3>1, <3>2, ConcatProperties
      <3>4. (pb \o s) \o b = pb \o (s \o b)
        BY <3>1, <3>3, Associative
      <3>5. (pb \o (s \o b)) \o t = pb \o ((s \o b) \o t)
        <4>1. PICK sb : sb = s \o b
          OBVIOUS
        <4>2. pb \in Seq(Words) /\ sb \in Seq(Words) /\ t \in Seq(Words)
          BY <3>1, <3>3, <4>1
        <4>3. (pb \o sb) \o t = pb \o (sb \o t)
          BY <4>2, Associative
        <4>. QED
          BY <4>1, <4>3
      <3>6. Joint2(type, Joint2(type, p, s), t) = ((pb \o s) \o b) \o t
        BY <1>1, <3>2 DEF Joint2
      <3>7. Joint2(type, p, Joint2(type, s, t)) = pb \o ((s \o b) \o t)
        BY <1>1, <3>2 DEF Joint2
      <3>. QED
        BY <3>4, <3>5, <3>6, <3>7
    <2>. QED
      BY <2>3, <2>4, <2>5, ReadSame
  <1>. QED
    BY <1>4, <1>5, <1>6 DEF ReadInChain

\* An operand is a chain of one of either sign.
LEMMA OperandInChain ==
    ASSUME Conditions = AllConditions, NEW p, Text(p), NEW e \in AllConditions, ReadBy("not", p, e)
    PROVE  ReadInChain("AND", p, e) /\ ReadInChain("OR", p, e)
  <1>1. /\ Inner("AND") = "not" /\ LevelIs("AND") = "and" /\ Inner("OR") = "and"
    BY DEF Inner, LevelIs
  <1>2. ReadInChain("AND", p, e)
    BY <1>1, ChainOfOne
  <1>3. ReadBy("and", p, e)
    BY <1>1, <1>2 DEF ReadInChain
  <1>. QED
    BY <1>1, <1>2, <1>3, ChainOfOne

\* The text of a condition, of its operands' texts.
LEMMA PrintedIs ==
    ASSUME Conditions = AllConditions
    PROVE  \A e \in AllConditions : \A prevtoken \in {"NONE", "NOT", "AND", "OR"} :
              Printed[e][prevtoken] = Enclosing(prevtoken, e.t, WordsOf(Printed, e))
  <1>. DEFINE Def(f, e) ==
          [prevtoken \in {"NONE", "NOT", "AND", "OR"} |-> Enclosing(prevtoken, e.t, WordsOf(f, e))]
  <1>1. OpDefinesFcn(Printed, AllConditions, Def)
    BY DEF OpDefinesFcn, Printed
  <1>2. WFDefOn(Within, AllConditions, Def)
    <2>1. SUFFICES ASSUME NEW g, NEW h, NEW e \in AllConditions,
                          \A x \in SetLessThan(e, Within, AllConditions) : g[x] = h[x]
                   PROVE  Def(g, e) = Def(h, e)
      BY Zenon DEF WFDefOn
    <2>2. \A x \in Parts(e) : g[x] = h[x]
      BY <2>1, LessThanParts
    <2>3. CASE e.t = "NOT"
      <3>1. g[e.l] = h[e.l]
        BY <2>2, <2>3 DEF Parts
      <3>2. WordsOf(g, e) = WordsOf(h, e)
        BY <2>3, <3>1 DEF WordsOf, Relations
      <3>. QED
        BY <3>2
    <2>4. CASE e.t \in {"AND", "OR"}
      <3>1. g[e.l] = h[e.l] /\ g[e.r] = h[e.r]
        BY <2>2, <2>4 DEF Parts
      <3>2. WordsOf(g, e) = WordsOf(h, e)
        BY <2>4, <3>1 DEF WordsOf, Relations
      <3>. QED
        BY <3>2
    <2>5. CASE e.t \notin {"NOT", "AND", "OR"}
      <3>1. e.t \in {"NULL", "SYMBOL"} \cup Relations
        BY <2>5, Shapes, Fields
      <3>2. WordsOf(g, e) = WordsOf(h, e)
        BY <2>5, <3>1 DEF WordsOf, Relations
      <3>. QED
        BY <3>2
    <2>. QED
      BY <2>3, <2>4, <2>5
  <1>3. WFInductiveDefines(Printed, AllConditions, Def)
    BY <1>1, <1>2, WithinIsWellFounded, WFInductiveDef
  <1>4. Printed = [e \in AllConditions |-> Def(Printed, e)]
    BY <1>3 DEF WFInductiveDefines
  <1>. HIDE DEF Def
  <1>5. \A e \in AllConditions : Printed[e] = Def(Printed, e)
    BY <1>4
  <1>6. SUFFICES ASSUME NEW e \in AllConditions, NEW prevtoken \in {"NONE", "NOT", "AND", "OR"}
                 PROVE  Def(Printed, e)[prevtoken] = Enclosing(prevtoken, e.t, WordsOf(Printed, e))
    BY <1>5
  <1>. QED
    BY DEF Def

\* What needs parentheses: after ! a chain, in a chain of && one of ||.
LEMMA EnclosingIs ==
    ASSUME NEW w
    PROVE  /\ \A prevtoken \in {"NONE", "NOT", "AND", "OR"} : \A t \in {"NULL", "SYMBOL", "NOT"} \cup Relations :
                 Enclosing(prevtoken, t, w) = w
           /\ \A prevtoken \in {"NONE", "AND", "OR"} : Enclosing(prevtoken, "AND", w) = w
           /\ \A prevtoken \in {"NONE", "OR"} : Enclosing(prevtoken, "OR", w) = w
           /\ Enclosing("NOT", "AND", w) = <<"(">> \o w \o <<")">>
           /\ \A prevtoken \in {"NOT", "AND"} : Enclosing(prevtoken, "OR", w) = <<"(">> \o w \o <<")">>
  <1>1. /\ LevelOf("NONE") = 0 /\ LevelOf("NOT") = 3 /\ LevelOf("AND") = 2 /\ LevelOf("OR") = 1
        /\ LevelOf("NULL") = 0 /\ LevelOf("SYMBOL") = 0
        /\ \A t \in Relations : LevelOf(t) \in {4, 5}
    BY DEF LevelOf, Relations
  <1>2. /\ \A prevtoken \in {"NONE", "NOT", "AND", "OR"} : \A t \in {"NULL", "SYMBOL", "NOT"} \cup Relations :
                 ~expr_compare_type(prevtoken, t)
        /\ \A prevtoken \in {"NONE", "AND", "OR"} : ~expr_compare_type(prevtoken, "AND")
        /\ \A prevtoken \in {"NONE", "OR"} : ~expr_compare_type(prevtoken, "OR")
        /\ expr_compare_type("NOT", "AND")
        /\ \A prevtoken \in {"NOT", "AND"} : expr_compare_type(prevtoken, "OR")
    BY <1>1 DEF expr_compare_type
  <1>. QED
    BY <1>2 DEF Enclosing

\* A text, with the parentheses it gets where it stands.
LEMMA PrintedAs ==
    ASSUME Conditions = AllConditions, NEW e \in AllConditions, NEW w, w = WordsOf(Printed, e)
    PROVE  /\ e.t \in {"NULL", "SYMBOL", "NOT"} \cup Relations =>
                 \A prevtoken \in {"NONE", "NOT", "AND", "OR"} : Printed[e][prevtoken] = w
           /\ e.t = "AND" => /\ Printed[e]["NONE"] = w /\ Printed[e]["AND"] = w /\ Printed[e]["OR"] = w
                             /\ Printed[e]["NOT"] = <<"(">> \o w \o <<")">>
           /\ e.t = "OR" => /\ Printed[e]["NONE"] = w /\ Printed[e]["OR"] = w
                            /\ Printed[e]["NOT"] = <<"(">> \o w \o <<")">>
                            /\ Printed[e]["AND"] = <<"(">> \o w \o <<")">>
  <1>1. /\ Printed[e]["NONE"] = Enclosing("NONE", e.t, w) /\ Printed[e]["NOT"] = Enclosing("NOT", e.t, w)
        /\ Printed[e]["AND"] = Enclosing("AND", e.t, w) /\ Printed[e]["OR"] = Enclosing("OR", e.t, w)
    BY PrintedIs
  <1>2. ASSUME e.t \in {"NULL", "SYMBOL", "NOT"} \cup Relations
        PROVE  \A prevtoken \in {"NONE", "NOT", "AND", "OR"} : Printed[e][prevtoken] = w
    <2>1. /\ Enclosing("NONE", e.t, w) = w /\ Enclosing("NOT", e.t, w) = w
          /\ Enclosing("AND", e.t, w) = w /\ Enclosing("OR", e.t, w) = w
      BY <1>2, EnclosingIs
    <2>. QED
      BY <1>1, <2>1
  <1>3. ASSUME e.t = "AND"
        PROVE  /\ Printed[e]["NONE"] = w /\ Printed[e]["AND"] = w /\ Printed[e]["OR"] = w
               /\ Printed[e]["NOT"] = <<"(">> \o w \o <<")">>
    <2>1. /\ Enclosing("NONE", "AND", w) = w /\ Enclosing("AND", "AND", w) = w /\ Enclosing("OR", "AND", w) = w
          /\ Enclosing("NOT", "AND", w) = <<"(">> \o w \o <<")">>
      BY EnclosingIs
    <2>. QED
      BY <1>1, <1>3, <2>1
  <1>4. ASSUME e.t = "OR"
        PROVE  /\ Printed[e]["NONE"] = w /\ Printed[e]["OR"] = w
               /\ Printed[e]["NOT"] = <<"(">> \o w \o <<")">>
               /\ Printed[e]["AND"] = <<"(">> \o w \o <<")">>
    <2>1. /\ Enclosing("NONE", "OR", w) = w /\ Enclosing("OR", "OR", w) = w
          /\ Enclosing("NOT", "OR", w) = <<"(">> \o w \o <<")">>
          /\ Enclosing("AND", "OR", w) = <<"(">> \o w \o <<")">>
      BY EnclosingIs
    <2>. QED
      BY <1>1, <1>4, <2>1
  <1>. QED
    BY <1>2, <1>3, <1>4

\* The text of a condition is read as the condition, at whatever level it stands.
Reads(e) ==
    /\ Text(Printed[e]["NOT"]) /\ ReadBy("not", Printed[e]["NOT"], e)
    /\ Text(Printed[e]["AND"]) /\ ReadInChain("AND", Printed[e]["AND"], e)
    /\ Text(Printed[e]["OR"]) /\ ReadInChain("OR", Printed[e]["OR"], e)
    /\ Printed[e]["NONE"] = Printed[e]["OR"]

\* What needs no parentheses anywhere.
LEMMA OperandReads ==
    ASSUME Conditions = AllConditions, NEW e \in AllConditions, NEW p, Text(p), ReadBy("not", p, e),
           \A prevtoken \in {"NONE", "NOT", "AND", "OR"} : Printed[e][prevtoken] = p
    PROVE  Reads(e)
  <1>1. ReadInChain("AND", p, e) /\ ReadInChain("OR", p, e)
    BY OperandInChain
  <1>2. Printed[e]["NONE"] = p /\ Printed[e]["NOT"] = p /\ Printed[e]["AND"] = p /\ Printed[e]["OR"] = p
    OBVIOUS
  <1>. QED
    BY <1>1, <1>2 DEF Reads

\* A symbol, a comparison, and a condition that is missing.
LEMMA PlainReads ==
    ASSUME Conditions = AllConditions
    PROVE  /\ Reads(Null)
           /\ \A s \in Syms : Reads(Sym(s))
           /\ \A t \in Relations, a \in Syms, b \in Syms : Reads(Comp(t, a, b))
  <1>1. Reads(Null)
    <2>1. PICK e : e = Null
      OBVIOUS
    <2>2. e \in AllConditions /\ e.t = "NULL"
      BY <2>1, Built, Fields
    <2>3. WordsOf(Printed, e) = <<"y">>
      BY <2>2 DEF WordsOf, Relations
    <2>4. \A prevtoken \in {"NONE", "NOT", "AND", "OR"} : Printed[e][prevtoken] = <<"y">>
      BY <2>2, <2>3, PrintedAs
    <2>5. "y" \in Syms
      BY ValuesAssumption DEF Syms
    <2>6. Text(<<"y">>) /\ ReadBy("not", <<"y">>, Sym("y"))
      BY <2>5, SymbolRead
    <2>7. Same(Sym("y"), e)
      <3>1. ASSUME NEW v \in Valuations PROVE Value(Sym("y"), v) = Value(Null, v)
        BY <2>5, ValueIs, ValuesAssumption DEF ValuationIs
      <3>. QED
        BY <2>1, <3>1 DEF Same
    <2>8. ReadBy("not", <<"y">>, e)
      BY <2>6, <2>7, ReadSame
    <2>. QED
      BY <2>1, <2>2, <2>4, <2>6, <2>8, OperandReads
  <1>2. ASSUME NEW s \in Syms PROVE Reads(Sym(s))
    <2>1. PICK e : e = Sym(s)
      OBVIOUS
    <2>2. e \in AllConditions /\ e.t = "SYMBOL" /\ e.s = s
      BY <2>1, Built, Fields
    <2>3. WordsOf(Printed, e) = <<s>>
      BY <2>2 DEF WordsOf, Relations
    <2>4. \A prevtoken \in {"NONE", "NOT", "AND", "OR"} : Printed[e][prevtoken] = <<s>>
      BY <2>2, <2>3, PrintedAs
    <2>5. Text(<<s>>) /\ ReadBy("not", <<s>>, e)
      BY <2>1, SymbolRead
    <2>. QED
      BY <2>1, <2>2, <2>4, <2>5, OperandReads
  <1>3. ASSUME NEW t \in Relations, NEW a \in Syms, NEW b \in Syms PROVE Reads(Comp(t, a, b))
    <2>1. PICK e : e = Comp(t, a, b)
      OBVIOUS
    <2>2. e \in AllConditions /\ e.t = t /\ e.s = a /\ e.c = b
      BY <2>1, Built, Fields
    <2>3. WordsOf(Printed, e) = <<a, Token[t], b>>
      BY <2>2 DEF WordsOf, Relations
    <2>4. \A prevtoken \in {"NONE", "NOT", "AND", "OR"} : Printed[e][prevtoken] = <<a, Token[t], b>>
      BY <2>2, <2>3, PrintedAs
    <2>5. Text(<<a, Token[t], b>>) /\ ReadBy("not", <<a, Token[t], b>>, e)
      BY <2>1, ComparisonRead
    <2>. QED
      BY <2>1, <2>2, <2>4, <2>5, OperandReads
  <1>. QED
    BY <1>1, <1>2, <1>3

\* A negation of what is read back.
LEMMA NegationReads ==
    ASSUME Conditions = AllConditions, NEW l \in AllConditions, Reads(l)
    PROVE  Reads(Not(l))
  <1>1. PICK e : e = Not(l)
    OBVIOUS
  <1>2. e \in AllConditions /\ e.t = "NOT" /\ e.l = l
    BY <1>1, Built, Fields
  <1>3. PICK p : p = <<"!">> \o Printed[l]["NOT"]
    OBVIOUS
  <1>4. WordsOf(Printed, e) = p
    BY <1>2, <1>3 DEF WordsOf, Relations
  <1>5. \A prevtoken \in {"NONE", "NOT", "AND", "OR"} : Printed[e][prevtoken] = p
    BY <1>2, <1>4, PrintedAs
  <1>6. Text(Printed[l]["NOT"]) /\ ReadBy("not", Printed[l]["NOT"], l)
    BY DEF Reads
  <1>7. Text(p) /\ ReadBy("not", p, e)
    BY <1>1, <1>3, <1>6, NegationRead
  <1>. QED
    BY <1>1, <1>2, <1>5, <1>7, OperandReads

\* A chain of what is read back.
LEMMA ChainReads ==
    ASSUME Conditions = AllConditions, NEW type \in {"AND", "OR"},
           NEW l \in AllConditions, Reads(l), NEW r \in AllConditions, Reads(r)
    PROVE  Reads(Two(type, l, r))
  <1>1. PICK e : e = Two(type, l, r)
    OBVIOUS
  <1>2. e \in AllConditions /\ e.t = type /\ e.l = l /\ e.r = r
    BY <1>1, Built, Fields
  <1>3. PICK w : w = Joint2(type, Printed[l][type], Printed[r][type])
    OBVIOUS
  <1>4. WordsOf(Printed, e) = w
    BY <1>2, <1>3 DEF WordsOf, Relations, Joint2, SignIs
  <1>5. Text(w) /\ ReadInChain(type, w, e)
    <2>1. /\ Text(Printed[l][type]) /\ ReadInChain(type, Printed[l][type], l)
          /\ Text(Printed[r][type]) /\ ReadInChain(type, Printed[r][type], r)
      BY DEF Reads
    <2>. QED
      BY <1>1, <1>3, <2>1, ChainOfTwo
  <1>6. PICK p : p = <<"(">> \o w \o <<")">>
    OBVIOUS
  <1>7. LevelIs("AND") = "and" /\ LevelIs("OR") = "or" /\ Inner("OR") = "and"
    BY DEF LevelIs, Inner
  <1>8. CASE type = "AND"
    <2>1. /\ Printed[e]["NONE"] = w /\ Printed[e]["AND"] = w /\ Printed[e]["OR"] = w
          /\ Printed[e]["NOT"] = p
      BY <1>2, <1>4, <1>6, <1>8, PrintedAs
    <2>2. ReadInChain("OR", w, e)
      <3>1. ReadBy("and", w, e)
        BY <1>5, <1>7, <1>8 DEF ReadInChain
      <3>. QED
        BY <1>2, <1>5, <1>7, <3>1, ChainOfOne
    <2>3. Text(p) /\ ReadBy("not", p, e)
      <3>1. ReadBy("or", w, e)
        BY <1>7, <2>2 DEF ReadInChain
      <3>. QED
        BY <1>5, <1>6, <3>1, ParensRead
    <2>. QED
      BY <1>1, <1>5, <1>8, <2>1, <2>2, <2>3 DEF Reads
  <1>9. CASE type = "OR"
    <2>1. /\ Printed[e]["NONE"] = w /\ Printed[e]["OR"] = w
          /\ Printed[e]["NOT"] = p /\ Printed[e]["AND"] = p
      BY <1>2, <1>4, <1>6, <1>9, PrintedAs
    <2>2. Text(p) /\ ReadBy("not", p, e)
      <3>1. ReadBy("or", w, e)
        BY <1>5, <1>7, <1>9 DEF ReadInChain
      <3>. QED
        BY <1>5, <1>6, <3>1, ParensRead
    <2>3. ReadInChain("AND", p, e)
      BY <1>2, <2>2, OperandInChain
    <2>. QED
      BY <1>1, <1>5, <1>9, <2>1, <2>2, <2>3 DEF Reads
  <1>. QED
    BY <1>8, <1>9

\* Every condition is read back.
LEMMA AllRead ==
    ASSUME Conditions = AllConditions
    PROVE  \A e \in AllConditions : Reads(e)
  <1>. DEFINE S == {e \in AllConditions : Reads(e)}
  <1>1. ASSUME NEW e \in AllConditions, Parts(e) \subseteq S PROVE e \in S
    <2>1. CASE e = Null \/ (\E s \in Syms : e = Sym(s)) \/ \E t \in Relations, a \in Syms, b \in Syms : e = Comp(t, a, b)
      BY <2>1, PlainReads
    <2>2. ASSUME NEW l \in AllConditions, e = Not(l) PROVE e \in S
      <3>1. l \in S
        BY <1>1, <2>2, Fields DEF Parts
      <3>. QED
        BY <2>2, <3>1, NegationReads
    <2>3. ASSUME NEW t \in {"AND", "OR"}, NEW l \in AllConditions, NEW r \in AllConditions, e = Two(t, l, r)
          PROVE  e \in S
      <3>1. l \in S /\ r \in S
        <4>1. e.t = t /\ e.l = l /\ e.r = r
          BY <2>3, Fields
        <4>. QED
          BY <1>1, <4>1 DEF Parts
      <3>. QED
        BY <2>3, <3>1, ChainReads
    <2>. QED
      BY <2>1, <2>2, <2>3, Shapes
  <1>2. AllConditions \subseteq S
    BY <1>1, OfEveryCondition
  <1>. QED
    BY <1>2

\* The text of a condition, as the help and the saved file show it, is read by the
\* grammar to its end and as a condition of the same value.
THEOREM PrintedReads == ASSUME Conditions = AllConditions PROVE RewriteSpec => []PrintedReadsBack
  <1>1. RewriteInit => RewriteInv
    BY RewriteInvInit
  <1>2. RewriteInv /\ [RewriteNext]_rewrite_vars => RewriteInv'
    BY RewriteInvNext
  <1>3. ASSUME RewriteInv PROVE PrintedReadsBack
    <2>1. SUFFICES ASSUME stage = "value"
                   PROVE  /\ ReadCondition(expr_print(now.dep, "NONE")).rest = <<>>
                          /\ \A v \in Valuations :
                                Value(ReadCondition(expr_print(now.dep, "NONE")).e, v) = Value(now.dep, v)
      BY DEF PrintedReadsBack
    <2>2. now.dep \in AllConditions
      <3>1. written["dep"] \in Over(Syms)
        BY <1>3, AllOver DEF RewriteInv
      <3>. QED
        BY <1>3, <2>1, <3>1, OverConditions DEF RewriteInv, Kept
    <2>3. PICK p : p = Printed[now.dep]["OR"]
      OBVIOUS
    <2>4. expr_print(now.dep, "NONE") = p /\ Text(p) /\ ReadBy("or", p, now.dep)
      <3>1. Reads(now.dep)
        BY <2>2, AllRead
      <3>2. ReadInChain("OR", p, now.dep) /\ Text(p) /\ Printed[now.dep]["NONE"] = p
        BY <2>3, <3>1 DEF Reads
      <3>3. ReadBy("or", p, now.dep)
        BY <3>2 DEF ReadInChain, LevelIs
      <3>. QED
        BY <3>2, <3>3 DEF expr_print
    <2>5. p \in Seq(Words) /\ Len(p) \in Nat /\ p \o <<>> = p /\ <<>> \in Seq(Words)
      BY <2>4, EmptySeq, ConcatEmptySeq DEF Text
    <2>6. PICK x \in AllConditions : /\ Readers[Len(p)]["or"][p \o <<>>] = [e |-> x, rest |-> <<>>]
                                     /\ Same(x, now.dep)
      <3>1. Stops("or", <<>>) /\ Len(p) >= Len(p)
        BY <2>5 DEF Stops
      <3>. QED
        BY <2>4, <2>5, <3>1 DEF ReadBy
    <2>7. ReadCondition(p) = [e |-> x, rest |-> <<>>]
      BY <2>5, <2>6 DEF ReadCondition
    <2>. QED
      BY <2>4, <2>6, <2>7 DEF Same
  <1>. QED
    BY <1>1, <1>2, <1>3, PTL DEF RewriteSpec

=================================================================================
