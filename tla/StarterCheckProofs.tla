-------------------------- MODULE StarterCheckProofs --------------------------
(***************************************************************************)
(* The walks of read_json and validate_schema accept exactly the documents *)
(* and schemas that the rules without the walks accept, for every tree;    *)
(* and what check() of check_local.py reports is ordered and deserved.     *)
(***************************************************************************)
EXTENDS StarterCheck, FiniteSetTheorems, SequenceTheorems, WellFoundedInduction, TLAPS

-----------------------------------------------------------------------------
(* Induction, in the form of sets *)

\* The numbers are well founded.
LEMMA LessIsWellFounded == IsWellFoundedOn({p \in Nat \X Nat : p[1] < p[2]}, Nat)
<1>1. OpToRel(<, Nat) = {p \in Nat \X Nat : p[1] < p[2]}
  BY DEF OpToRel
<1> QED BY <1>1, NatLessThanWellFounded

\* A set of numbers that is not empty has a least one.
LEMMA Least ==
    ASSUME NEW T \in SUBSET Nat, T # {}
    PROVE  \E n \in T : \A m \in T : n <= m
<1> DEFINE R == {p \in Nat \X Nat : p[1] < p[2]}
<1>1. \E x \in T : \A y \in T : ~ (<<y, x>> \in R)
  <2>1. IsWellFoundedOn(R, Nat)
    BY LessIsWellFounded
  <2> HIDE DEF R
  <2> QED BY <2>1, WFMin
<1>2. PICK n \in T : \A y \in T : ~(<<y, n>> \in R)
  BY <1>1
<1>3. \A y \in T : ~(y < n)
  BY <1>2
<1> HIDE DEF R
<1> QED BY <1>3

\* A set that holds 0 and, with a number, the next, holds them all.
LEMMA Induction ==
    ASSUME NEW T \in SUBSET Nat, 0 \in T, \A m \in Nat : m \in T => m + 1 \in T
    PROVE  \A m \in Nat : m \in T
<1> SUFFICES ASSUME Nat \ T # {} PROVE FALSE
  OBVIOUS
<1>1. PICK n \in Nat \ T : \A m \in Nat \ T : n <= m
  BY Least
<1>2. n # 0
  BY <1>1
<1>3. n - 1 \in Nat /\ n - 1 \in T
  BY <1>1, <1>2
<1>4. (n - 1) + 1 \in T
  BY <1>3
<1> QED BY <1>1, <1>4

-----------------------------------------------------------------------------
(* Trees, and the functions that are defined along them *)

LEMMA FunctionIsSeq ==
    ASSUME NEW X, NEW m \in Nat, NEW f \in [1..m -> X]
    PROVE  f \in Seq(X)
BY SeqDef

LEMMA Tree ==
    ASSUME NEW n \in Nat \ {0}, NEW p \in Parents(n)
    PROVE  /\ p \in Seq(0..n) /\ DOMAIN p = 1..n /\ Len(p) = n
           /\ \A i \in 1..n : p[i] \in 0..n /\ p[i] < i /\ (p[i] = 0 <=> i = 1)
           /\ \A i \in 1..n : i # 1 => p[i] \in 1..n
<1>1. p \in [1..n -> 0..n] /\ \A i \in 1..n : p[i] < i /\ (p[i] = 0 <=> i = 1)
  BY DEF Parents
<1>2. p \in Seq(0..n)
  BY <1>1, FunctionIsSeq
<1>3. Len(p) \in Nat /\ 1..Len(p) = 1..n
  BY <1>1, <1>2, LenProperties
<1>4. Len(p) = n
  BY <1>3
<1> QED BY <1>1, <1>2, <1>4

LEMMA DepthDef ==
    ASSUME NEW n \in Nat \ {0}, NEW p \in Parents(n)
    PROVE  Depth(p) = [i \in 1..n |-> IF i = 1 THEN 0 ELSE Depth(p)[p[i]] + 1]
<1> DEFINE Is(f, m) == f = [i \in 1..m |-> IF i = 1 THEN 0 ELSE f[p[i]] + 1]
           T == {m \in Nat : m <= n => \E f : Is(f, m)}
<1>1. 0 \in T
  <2>1. Is([i \in 1..0 |-> 0], 0)
    OBVIOUS
  <2> QED BY <2>1
<1>2. ASSUME NEW m \in Nat, m \in T PROVE m + 1 \in T
  <2> SUFFICES ASSUME m + 1 <= n PROVE \E g : Is(g, m + 1)
    OBVIOUS
  <2>1. PICK f : Is(f, m)
    BY <1>2
  <2> DEFINE g == [i \in 1..m + 1 |-> IF i = 1 THEN 0 ELSE f[p[i]] + 1]
  <2>2. \A i \in 1..m : g[i] = f[i]
    BY <2>1
  <2>3. \A i \in 1..m + 1 : i # 1 => p[i] \in 1..m
    BY Tree
  <2>4. Is(g, m + 1)
    BY <2>2, <2>3
  <2> QED BY <2>4
<1>3. n \in T
  <2> HIDE DEF T
  <2>1. T \in SUBSET Nat
    BY DEF T
  <2> QED BY <1>1, <1>2, <2>1, Induction
<1>4. DOMAIN p = 1..n
  BY Tree
<1>5. \E f : f = [i \in DOMAIN p |-> IF i = 1 THEN 0 ELSE f[p[i]] + 1]
  <2>1. PICK f : Is(f, n)
    BY <1>3
  <2>2. f = [i \in DOMAIN p |-> IF i = 1 THEN 0 ELSE f[p[i]] + 1]
    BY <1>4, <2>1
  <2> QED BY <2>2, Zenon
<1>6. Depth(p) = [i \in DOMAIN p |-> IF i = 1 THEN 0 ELSE Depth(p)[p[i]] + 1]
  BY <1>5, Zenon DEF Depth
<1> QED BY <1>4, <1>6, Zenon

LEMMA DepthType ==
    ASSUME NEW n \in Nat \ {0}, NEW p \in Parents(n)
    PROVE  /\ \A i \in 1..n : Depth(p)[i] \in Nat
           /\ Depth(p)[1] = 0
           /\ \A i \in 1..n : i # 1 => Depth(p)[i] = Depth(p)[p[i]] + 1
<1> DEFINE D == Depth(p)
           T == {i \in 1..n : D[i] \notin Nat}
<1>1. \A i \in 1..n : D[i] = IF i = 1 THEN 0 ELSE D[p[i]] + 1
  <2> HIDE DEF D
  <2>1. D = [i \in 1..n |-> IF i = 1 THEN 0 ELSE D[p[i]] + 1]
    BY DepthDef DEF D
  <2> QED BY <2>1
<1> HIDE DEF D
<1>2. T = {}
  <2> SUFFICES ASSUME T # {} PROVE FALSE
    OBVIOUS
  <2>1. PICK i \in T : \A j \in T : i <= j
    <3>1. T \in SUBSET Nat
      OBVIOUS
    <3> QED BY <3>1, Least
  <2>2. i # 1 /\ p[i] \in 1..n /\ p[i] < i
    BY <1>1, <2>1, Tree
  <2>3. D[p[i]] \in Nat
    BY <2>1, <2>2
  <2> QED BY <1>1, <2>1, <2>2, <2>3
<1> QED BY <1>1, <1>2 DEF D

\* The root is a position, and the subschemas of a position are.
LEMMA PositionsDef ==
    ASSUME NEW n \in Nat \ {0}, NEW s, s.parent \in Parents(n)
    PROVE  /\ Positions(s) \subseteq 1..n /\ 1 \in Positions(s)
           /\ \A i \in 1..n : i # 1 =>
                 (i \in Positions(s) <=> s.sub[i] /\ s.parent[i] \in Positions(s))
<1> DEFINE p == s.parent
           Is(f, m) == f = [i \in 1..m |-> i = 1 \/ (s.sub[i] /\ f[p[i]])]
           T == {m \in Nat : m <= n => \E f : Is(f, m)}
<1>1. 0 \in T
  <2>1. Is([i \in 1..0 |-> 0], 0)
    OBVIOUS
  <2> QED BY <2>1
<1>2. ASSUME NEW m \in Nat, m \in T PROVE m + 1 \in T
  <2> SUFFICES ASSUME m + 1 <= n PROVE \E g : Is(g, m + 1)
    OBVIOUS
  <2>1. PICK f : Is(f, m)
    BY <1>2
  <2> DEFINE g == [i \in 1..m + 1 |-> i = 1 \/ (s.sub[i] /\ f[p[i]])]
  <2>2. \A i \in 1..m : g[i] = f[i]
    BY <2>1
  <2>3. \A i \in 1..m + 1 : i # 1 => p[i] \in 1..m
    BY Tree
  <2>4. Is(g, m + 1)
    BY <2>2, <2>3
  <2> QED BY <2>4
<1>3. n \in T
  <2> HIDE DEF T
  <2>1. T \in SUBSET Nat
    BY DEF T
  <2> QED BY <1>1, <1>2, <2>1, Induction
<1> DEFINE at == CHOOSE f : f = [i \in DOMAIN p |-> i = 1 \/ (s.sub[i] /\ f[p[i]])]
<1>4. at = [i \in 1..n |-> i = 1 \/ (s.sub[i] /\ at[p[i]])]
  <2>1. DOMAIN p = 1..n
    BY Tree
  <2>2. \E f : f = [i \in DOMAIN p |-> i = 1 \/ (s.sub[i] /\ f[p[i]])]
    <3>1. PICK f : Is(f, n)
      BY <1>3
    <3>2. f = [i \in DOMAIN p |-> i = 1 \/ (s.sub[i] /\ f[p[i]])]
      BY <2>1, <3>1
    <3> QED BY <3>2, Zenon
  <2>3. at = [i \in DOMAIN p |-> i = 1 \/ (s.sub[i] /\ at[p[i]])]
    BY <2>2, Zenon
  <2> QED BY <2>1, <2>3, Zenon
<1>5. Positions(s) = {i \in 1..n : at[i]}
  BY Tree, Zenon DEF Positions
<1> HIDE DEF at
<1>6. \A i \in 1..n : at[i] <=> (i = 1 \/ (s.sub[i] /\ at[p[i]]))
  BY <1>4, Zenon
<1>7. \A i \in 1..n : i # 1 => p[i] \in 1..n
  BY Tree
<1> QED BY <1>5, <1>6, <1>7

LEMMA ReadWalkDef ==
    ASSUME NEW n \in Nat \ {0}, NEW p \in Parents(n)
    PROVE  /\ ReadWalk(p)[0] = Start
           /\ \A k \in 1..n : ReadWalk(p)[k] = ReadTurn(p, ReadWalk(p)[k - 1])
<1> DEFINE Is(f, m) == f = [k \in 0..m |-> IF k = 0 THEN Start ELSE ReadTurn(p, f[k - 1])]
           T == {m \in Nat : \E f : Is(f, m)}
<1>1. 0 \in T
  <2>1. Is([k \in 0..0 |-> Start], 0)
    OBVIOUS
  <2> QED BY <2>1
<1>2. ASSUME NEW m \in Nat, m \in T PROVE m + 1 \in T
  <2> SUFFICES \E g : Is(g, m + 1)
    OBVIOUS
  <2>1. PICK f : Is(f, m)
    BY <1>2
  <2> DEFINE g == [k \in 0..m + 1 |-> IF k = 0 THEN Start ELSE ReadTurn(p, f[k - 1])]
  <2>2. \A k \in 0..m : g[k] = f[k]
    BY <2>1
  <2>3. \A k \in 0..m + 1 : k # 0 => k - 1 \in 0..m
    OBVIOUS
  <2>4. Is(g, m + 1)
    BY <2>2, <2>3
  <2> QED BY <2>4
<1>3. n \in T
  <2> HIDE DEF T
  <2>1. T \in SUBSET Nat
    BY DEF T
  <2> QED BY <1>1, <1>2, <2>1, Induction
<1>4. \E f : Is(f, n)
  BY <1>3
<1>5. Is(ReadWalk(p), n)
  BY <1>4, Tree, Zenon DEF ReadWalk
<1> DEFINE w == ReadWalk(p)
<1> HIDE DEF w
<1>6. w = [k \in 0..n |-> IF k = 0 THEN Start ELSE ReadTurn(p, w[k - 1])]
  BY <1>5 DEF w
<1> QED BY <1>6 DEF w

LEMMA SchemaWalkDef ==
    ASSUME NEW n \in Nat \ {0}, NEW s, s.parent \in Parents(n)
    PROVE  /\ SchemaWalk(s)[0] = SchemaStart
           /\ \A k \in 1..n : SchemaWalk(s)[k] = SchemaTurn(s, SchemaWalk(s)[k - 1])
<1> DEFINE Is(f, m) == f = [k \in 0..m |-> IF k = 0 THEN SchemaStart ELSE SchemaTurn(s, f[k - 1])]
           T == {m \in Nat : \E f : Is(f, m)}
<1>1. 0 \in T
  <2>1. Is([k \in 0..0 |-> SchemaStart], 0)
    OBVIOUS
  <2> QED BY <2>1
<1>2. ASSUME NEW m \in Nat, m \in T PROVE m + 1 \in T
  <2> SUFFICES \E g : Is(g, m + 1)
    OBVIOUS
  <2>1. PICK f : Is(f, m)
    BY <1>2
  <2> DEFINE g == [k \in 0..m + 1 |-> IF k = 0 THEN SchemaStart ELSE SchemaTurn(s, f[k - 1])]
  <2>2. \A k \in 0..m : g[k] = f[k]
    BY <2>1
  <2>3. \A k \in 0..m + 1 : k # 0 => k - 1 \in 0..m
    OBVIOUS
  <2>4. Is(g, m + 1)
    BY <2>2, <2>3
  <2> QED BY <2>4
<1>3. n \in T
  <2> HIDE DEF T
  <2>1. T \in SUBSET Nat
    BY DEF T
  <2> QED BY <1>1, <1>2, <2>1, Induction
<1>4. \E f : Is(f, n)
  BY <1>3
<1>5. Is(SchemaWalk(s), n)
  BY <1>4, Tree, Zenon DEF SchemaWalk
<1> DEFINE w == SchemaWalk(s)
<1> HIDE DEF w
<1>6. w = [k \in 0..n |-> IF k = 0 THEN SchemaStart ELSE SchemaTurn(s, w[k - 1])]
  BY <1>5 DEF w
<1> QED BY <1>6 DEF w

-----------------------------------------------------------------------------
(* Stacks *)

\* SetToSeq lists a set of nodes, each of them once.
LEMMA Listing ==
    ASSUME NEW n \in Nat, NEW A \in SUBSET (1..n)
    PROVE  /\ SetToSeq(A) \in Seq(A)
           /\ IsInjective(SetToSeq(A))
           /\ Range(SetToSeq(A)) = A
<1> DEFINE c == Cardinality(A)
           h == SetToSeq(A)
<1>1. IsFiniteSet(A)
  <2>1. IsFiniteSet(1..n)
    BY FS_Interval
  <2> QED BY <2>1, FS_Subset
<1>2. c \in Nat /\ ExistsBijection(1..c, A)
  BY <1>1, FS_CardinalityType
<1>3. h \in [1..c -> A] /\ IsInjective(h)
  <2>1. \E g \in [1..c -> A] : IsInjective(g)
    BY <1>2 DEF ExistsBijection, Bijection, Injection
  <2> QED BY <2>1, Zenon DEF SetToSeq
<1> HIDE DEF h, c
<1>4. h \in Seq(A)
  BY <1>2, <1>3, FunctionIsSeq
<1>5. Cardinality(1..c) = c
  BY <1>2, FS_Interval
<1>6. h \in Injection(1..c, A)
  BY <1>3 DEF Injection
<1>7. h \in Surjection(1..c, A)
  BY <1>1, <1>5, <1>6, FS_Injection DEF c
<1>8. Range(h) = A
  BY <1>3, <1>7 DEF Surjection, Range
<1> QED BY <1>3, <1>4, <1>8 DEF h

LEMMA Top ==
    ASSUME NEW X, NEW s \in Seq(X), s # <<>>
    PROVE  Last(s) \in Range(s)
<1>1. Len(s) \in DOMAIN s
  BY EmptySeq, LenProperties
<1> QED BY <1>1 DEF Last, Range

\* The top of a stack is replaced by what is pushed.
LEMMA Push ==
    ASSUME NEW X, NEW s \in Seq(X), NEW c \in Seq(X), s # <<>>,
           IsInjective(s), IsInjective(c), Range(s) \cap Range(c) = {}
    PROVE  /\ Last(s) \in Range(s)
           /\ Front(s) \o c \in Seq(X)
           /\ IsInjective(Front(s) \o c)
           /\ Range(Front(s) \o c) = (Range(s) \ {Last(s)}) \cup Range(c)
<1> DEFINE m == Len(s) - 1
           q == Len(c)
           f == Front(s)
           t == f \o c
<1>1. m \in Nat /\ Len(s) = m + 1 /\ DOMAIN s = 1..m + 1 /\ \A i \in 1..m + 1 : s[i] \in X
  BY EmptySeq, LenProperties, ElementOfSeq
<1>2. q \in Nat /\ DOMAIN c = 1..q
  BY LenProperties
<1>3. f \in Seq(X) /\ Len(f) = m /\ \A i \in 1..m : f[i] = s[i]
  <2>1. f = SubSeq(s, 1, m)
    BY DEF Front
  <2>2. \A i \in 1..m : s[i] \in X
    BY <1>1
  <2>3. /\ SubSeq(s, 1, m) \in Seq(X)
        /\ Len(SubSeq(s, 1, m)) = IF 1 <= m THEN m - 1 + 1 ELSE 0
        /\ \A i \in 1..m - 1 + 1 : SubSeq(s, 1, m)[i] = s[1 + i - 1]
    BY <1>1, <2>2, SubSeqProperties
  <2> HIDE DEF f, m
  <2> QED BY <1>1, <2>1, <2>3
<1> HIDE DEF f, m, q
<1>4. /\ t \in Seq(X) /\ Len(t) = m + q
      /\ \A i \in 1..m + q : t[i] = IF i <= m THEN f[i] ELSE c[i - m]
  BY <1>2, <1>3, ConcatProperties DEF q
<1> HIDE DEF t
<1>5. DOMAIN t = 1..m + q
  BY <1>4, LenProperties
<1>6. /\ \A i \in 1..m : i \in 1..m + q /\ t[i] = s[i]
      /\ \A i \in 1..q : i + m \in 1..m + q /\ t[i + m] = c[i]
      /\ \A i \in 1..m + q : i \in 1..m \/ (i - m \in 1..q /\ t[i] = c[i - m])
  <2>1. ASSUME NEW i \in 1..q PROVE i + m \in 1..m + q /\ t[i + m] = c[i]
    <3>1. i + m \in 1..m + q /\ ~(i + m <= m) /\ (i + m) - m = i
      BY <1>1, <1>2
    <3> QED BY <1>4, <3>1
  <2> QED BY <1>1, <1>2, <1>3, <1>4, <2>1
<1>7. Last(s) = s[m + 1]
  BY <1>1 DEF Last
<1>8. \A i, j \in 1..m + 1 : s[i] = s[j] => i = j
  BY <1>1 DEF IsInjective
<1>9. \A i, j \in 1..q : c[i] = c[j] => i = j
  BY <1>2 DEF IsInjective
<1>10. \A i \in 1..m + 1, j \in 1..q : s[i] # c[j]
  BY <1>1, <1>2 DEF Range
<1>11. IsInjective(t)
  <2> SUFFICES ASSUME NEW i \in 1..m + q, NEW j \in 1..m + q, t[i] = t[j]
               PROVE  i = j
    BY <1>5 DEF IsInjective
  <2>1. CASE i \in 1..m /\ j \in 1..m
    BY <1>1, <1>6, <1>8, <2>1
  <2>2. CASE i \in 1..m /\ j \notin 1..m
    BY <1>1, <1>6, <1>10, <2>2
  <2>3. CASE i \notin 1..m /\ j \in 1..m
    BY <1>1, <1>6, <1>10, <2>3
  <2>4. CASE i \notin 1..m /\ j \notin 1..m
    <3>1. i - m \in 1..q /\ j - m \in 1..q /\ c[i - m] = c[j - m]
      BY <1>6, <2>4
    <3>2. i - m = j - m
      BY <1>9, <3>1
    <3> QED BY <1>1, <1>2, <3>2
  <2> QED BY <2>1, <2>2, <2>3, <2>4
<1>12. Range(t) = (Range(s) \ {s[m + 1]}) \cup Range(c)
  <2>1. ASSUME NEW i \in 1..m + q PROVE t[i] \in (Range(s) \ {s[m + 1]}) \cup Range(c)
    <3>1. CASE i \in 1..m
      <4>1. t[i] = s[i] /\ s[i] \in Range(s)
        BY <1>1, <1>6, <3>1 DEF Range
      <4>2. s[i] # s[m + 1]
        BY <1>1, <1>8, <3>1
      <4> QED BY <4>1, <4>2
    <3>2. CASE i \notin 1..m
      BY <1>2, <1>6, <3>2 DEF Range
    <3> QED BY <3>1, <3>2
  <2>2. ASSUME NEW x \in (Range(s) \ {s[m + 1]}) PROVE x \in Range(t)
    <3>1. PICK i \in 1..m + 1 : x = s[i]
      BY <1>1 DEF Range
    <3>2. i \in 1..m
      BY <1>1, <2>2, <3>1
    <3> QED BY <1>5, <1>6, <3>1, <3>2 DEF Range
  <2>3. ASSUME NEW x \in Range(c) PROVE x \in Range(t)
    <3>1. PICK i \in 1..q : x = c[i]
      BY <1>2 DEF Range
    <3> QED BY <1>5, <1>6, <3>1 DEF Range
  <2>4. Range(t) = {t[i] : i \in 1..m + q}
    BY <1>5 DEF Range
  <2> QED BY <2>1, <2>2, <2>3, <2>4
<1>13. Last(s) \in Range(s)
  BY Top
<1> QED BY <1>4, <1>7, <1>11, <1>12, <1>13 DEF t, f

-----------------------------------------------------------------------------
(* What a walk has reached: S on the stack, V visited, E the nodes that are *)
(* pushed when their parent is visited                                     *)

Reached(n, p, E, S, V) ==
    /\ S \cap V = {} /\ S \cup V \subseteq 1..n /\ 1 \in S \cup V
    /\ \A j \in 1..n : j # 1 => (j \in S \cup V <=> j \in E /\ p[j] \in V)

\* The children of x that are pushed.
IsBelow(n, p, E, x, C) == C \subseteq 1..n /\ \A j \in 1..n : j \in C <=> p[j] = x /\ j \in E

\* The nodes that E leads to from the root.
IsClosure(n, p, E, P) ==
    /\ P \subseteq 1..n /\ 1 \in P
    /\ \A i \in 1..n : i # 1 => (i \in P <=> i \in E /\ p[i] \in P)

LEMMA ReachedStart ==
    ASSUME NEW n \in Nat \ {0}, NEW p, NEW E
    PROVE  Reached(n, p, E, {1}, {})
BY DEF Reached

\* A visit: x leaves the stack, its children in E come on it.
LEMMA ReachedStep ==
    ASSUME NEW n \in Nat \ {0}, NEW p \in Parents(n), NEW E, NEW S, NEW V,
           Reached(n, p, E, S, V), NEW x \in S, NEW C, IsBelow(n, p, E, x, C)
    PROVE  C \cap S = {} /\ Reached(n, p, E, (S \ {x}) \cup C, V \cup {x})
<1>1. x \in 1..n /\ x \notin V
  BY DEF Reached
<1>2. 1 \notin C
  BY <1>1, Tree DEF IsBelow
<1>3. C \cap (S \cup V) = {}
  BY <1>1, <1>2 DEF Reached, IsBelow
<1>4. Reached(n, p, E, (S \ {x}) \cup C, V \cup {x})
  BY <1>1, <1>2, <1>3 DEF Reached, IsBelow
<1> QED BY <1>3, <1>4

LEMMA ReachedCount ==
    ASSUME NEW n \in Nat \ {0}, NEW p, NEW E, NEW S, NEW V,
           Reached(n, p, E, S, V), NEW x \in S
    PROVE  /\ Cardinality(V) \in Nat /\ Cardinality(V \cup {x}) = Cardinality(V) + 1
           /\ Cardinality(V \cup {x}) <= n
<1>1. x \in 1..n /\ x \notin V /\ V \in SUBSET (1..n)
  BY DEF Reached
<1>2. IsFiniteSet(1..n) /\ Cardinality(1..n) = n
  BY FS_Interval
<1>3. IsFiniteSet(V) /\ IsFiniteSet(V \cup {x}) /\ Cardinality(V \cup {x}) <= n
  <2>1. V \in SUBSET (1..n) /\ V \cup {x} \in SUBSET (1..n)
    BY <1>1
  <2> QED BY <1>2, <2>1, FS_Subset
<1>4. Cardinality(V) \in Nat /\ Cardinality(V \cup {x}) = Cardinality(V) + 1
  BY <1>1, <1>3, FS_CardinalityType, FS_AddElement
<1> QED BY <1>3, <1>4

\* When as many nodes are visited as there are, none is on the stack.
LEMMA ReachedAll ==
    ASSUME NEW n \in Nat \ {0}, NEW p, NEW E, NEW S, NEW V,
           Reached(n, p, E, S, V), Cardinality(V) = n
    PROVE  S = {}
<1>1. V \in SUBSET (1..n) /\ S \subseteq 1..n /\ S \cap V = {}
  BY DEF Reached
<1>2. IsFiniteSet(1..n) /\ Cardinality(1..n) = n
  BY FS_Interval
<1>3. V = 1..n
  BY <1>1, <1>2, FS_Subset
<1> QED BY <1>1, <1>3

\* What is reached lies in the closure P of the root under E, and is the
\* closure when the stack is empty.
LEMMA ReachedIsClosure ==
    ASSUME NEW n \in Nat \ {0}, NEW p \in Parents(n), NEW E, NEW S, NEW V,
           Reached(n, p, E, S, V), NEW P, IsClosure(n, p, E, P)
    PROVE  S \cup V \subseteq P /\ (S = {} => V = P)
<1>1. \A i \in 1..n : i # 1 => p[i] \in 1..n /\ p[i] < i
  BY Tree
<1>2. S \cup V \subseteq P
  <2> DEFINE T == (S \cup V) \ P
  <2> SUFFICES ASSUME T # {} PROVE FALSE
    OBVIOUS
  <2>1. PICK i \in T : \A j \in T : i <= j
    <3>1. T \in SUBSET Nat
      BY DEF Reached
    <3> HIDE DEF T
    <3> QED BY <3>1, Least
  <2>2. i \in 1..n /\ i # 1 /\ i \in E /\ p[i] \in V
    BY <2>1 DEF Reached, IsClosure
  <2>3. p[i] \in P
    BY <1>1, <2>1, <2>2
  <2> QED BY <2>1, <2>2, <2>3 DEF IsClosure
<1>3. ASSUME S = {} PROVE V = P
  <2> DEFINE T == P \ V
  <2> SUFFICES ASSUME T # {} PROVE FALSE
    BY <1>2
  <2>1. PICK i \in T : \A j \in T : i <= j
    <3>1. 1..n \subseteq Nat /\ P \subseteq 1..n
      BY DEF IsClosure
    <3>2. T \in SUBSET Nat
      BY <3>1
    <3> HIDE DEF T
    <3> QED BY <3>2, Least
  <2>2. i \in 1..n /\ i # 1 /\ i \in E /\ p[i] \in P
    BY <1>3, <2>1 DEF Reached, IsClosure
  <2>3. p[i] \in V
    BY <1>1, <2>1, <2>2
  <2> QED BY <1>3, <2>1, <2>2, <2>3 DEF Reached
<1> QED BY <1>2, <1>3

-----------------------------------------------------------------------------
(* read_json *)

Item(p, i) == [node |-> i, depth |-> Depth(p)[i]]

\* The stack holds each node of S once, with its depth.
ReadStack(n, p, stack, S) ==
    /\ stack \in Seq([node : 1..n, depth : Nat]) /\ IsInjective(stack)
    /\ Range(stack) = {Item(p, i) : i \in S}

Shallow(p, V) == \A i \in V : Depth(p)[i] <= MaxDepth

\* The turns of the loop so far: V is visited.
Reading(n, p, w, S, V) ==
    /\ Reached(n, p, 1..n, S, V) /\ ReadStack(n, p, w.stack, S)
    /\ w.nodes = Cardinality(V) /\ w.nodes <= MaxNodes /\ Shallow(p, V)

TooLarge(n, p) == ~(n <= MaxNodes /\ Shallow(p, 1..n))

\* A visit to a node, or the end of the walk at one.
LEMMA ReadVisit ==
    ASSUME NEW n \in Nat \ {0}, NEW p \in Parents(n), NEW w, NEW S, NEW V,
           w.refused = FALSE, w.stack # <<>>, Reading(n, p, w, S, V)
    PROVE  LET t == ReadTurn(p, w)
           IN  /\ t.nodes = w.nodes + 1
               /\ t.refused \in BOOLEAN
               /\ t.refused => TooLarge(n, p)
               /\ ~t.refused => \E A, B : Reading(n, p, t, A, B)
<1> DEFINE stack == w.stack
           X == [node : 1..n, depth : Nat]
           item == Last(stack)
           D == Depth(p)
<1>1. stack \in Seq(X) /\ IsInjective(stack) /\ Range(stack) = {Item(p, i) : i \in S}
  BY DEF Reading, ReadStack
<1>2. Reached(n, p, 1..n, S, V) /\ S \subseteq 1..n /\ V \subseteq 1..n
  BY DEF Reading, Reached
<1>3. PICK x \in S : item = Item(p, x)
  <2>1. item \in Range(stack)
    BY <1>1, Top
  <2> QED BY <1>1, <2>1
<1>4. item.node = x /\ item.depth = D[x] /\ x \in 1..n /\ D[x] \in Nat
  BY <1>2, <1>3, DepthType DEF Item
<1> DEFINE C == {j \in 1..n : p[j] = x /\ j \in 1..n}
           below == Children(p, x)
           c == [k \in DOMAIN below |-> [node |-> below[k], depth |-> D[x] + 1]]
<1>5. below \in Seq(C) /\ IsInjective(below) /\ Range(below) = C
  <2>1. {k \in DOMAIN p : p[k] = x} = C
    BY Tree
  <2>2. C \in SUBSET (1..n)
    OBVIOUS
  <2> HIDE DEF C
  <2> QED BY <2>1, <2>2, Listing DEF Children
<1>6. \A j \in C : Item(p, j) = [node |-> j, depth |-> D[x] + 1]
  <2>1. \A j \in C : j # 1
    BY <1>4, Tree
  <2> QED BY <2>1, DepthType DEF Item
<1> HIDE DEF C, below
<1>7. c \in Seq(X) /\ IsInjective(c) /\ Range(c) = {Item(p, j) : j \in C}
  <2>1. Len(below) \in Nat /\ DOMAIN below = 1..Len(below) /\ \A k \in 1..Len(below) : below[k] \in C
    BY <1>5, LenProperties
  <2>2. \A k \in 1..Len(below) : c[k] \in X
    BY <1>4, <2>1 DEF C
  <2>3. c \in Seq(X)
    <3>1. c \in [1..Len(below) -> X]
      BY <2>1, <2>2
    <3> HIDE DEF c
    <3> QED BY <2>1, <3>1, FunctionIsSeq
  <2>4. IsInjective(c)
    BY <1>5 DEF IsInjective
  <2>5. Range(c) = {[node |-> j, depth |-> D[x] + 1] : j \in C}
    BY <1>5 DEF Range
  <2> QED BY <1>6, <2>3, <2>4, <2>5
<1> HIDE DEF c, D
<1>8. /\ C \cap S = {}
      /\ Reached(n, p, 1..n, (S \ {x}) \cup C, V \cup {x})
      /\ Cardinality(V) \in Nat /\ Cardinality(V \cup {x}) = Cardinality(V) + 1
      /\ Cardinality(V \cup {x}) <= n
  <2> DEFINE E == 1..n
  <2>1. IsBelow(n, p, E, x, C) /\ Reached(n, p, E, S, V)
    BY <1>2 DEF C, IsBelow
  <2> HIDE DEF E
  <2>2. C \cap S = {} /\ Reached(n, p, E, (S \ {x}) \cup C, V \cup {x})
    BY <2>1, ReachedStep
  <2>3. /\ Cardinality(V) \in Nat /\ Cardinality(V \cup {x}) = Cardinality(V) + 1
        /\ Cardinality(V \cup {x}) <= n
    BY <2>1, ReachedCount
  <2> QED BY <2>2, <2>3 DEF E
<1>9. \A i, j : Item(p, i) = Item(p, j) => i = j
  BY DEF Item
<1>10. ReadStack(n, p, Front(stack) \o c, (S \ {x}) \cup C)
  <2>1. Range(stack) \cap Range(c) = {}
    BY <1>1, <1>7, <1>8, <1>9
  <2>2. /\ Front(stack) \o c \in Seq(X) /\ IsInjective(Front(stack) \o c)
        /\ Range(Front(stack) \o c) = (Range(stack) \ {item}) \cup Range(c)
    BY <1>1, <1>7, <2>1, Push
  <2>3. (Range(stack) \ {item}) \cup Range(c) = {Item(p, i) : i \in (S \ {x}) \cup C}
    BY <1>1, <1>3, <1>7, <1>9
  <2> QED BY <2>2, <2>3 DEF ReadStack
<1> DEFINE t == ReadTurn(p, w)
<1>11. /\ t.stack = Front(stack) \o c
       /\ t.nodes = w.nodes + 1
       /\ t.refused = Exceeds(D[x], w.nodes + 1)
  BY <1>4 DEF ReadTurn, c, below, D
<1> HIDE DEF t
<1>12. w.nodes = Cardinality(V) /\ w.nodes <= MaxNodes /\ Shallow(p, V)
  BY DEF Reading
<1>13. t.refused <=> D[x] > MaxDepth \/ w.nodes + 1 > MaxNodes
  BY <1>11 DEF Exceeds
<1>14. ASSUME t.refused PROVE TooLarge(n, p)
  BY <1>4, <1>8, <1>12, <1>13, <1>14, DocumentBounds DEF TooLarge, Shallow, D
<1>15. ASSUME ~t.refused PROVE Reading(n, p, t, (S \ {x}) \cup C, V \cup {x})
  <2>1. t.nodes <= MaxNodes /\ Shallow(p, V \cup {x})
    BY <1>4, <1>8, <1>11, <1>12, <1>13, <1>15, DocumentBounds DEF Shallow, D
  <2> QED BY <1>8, <1>10, <1>11, <1>12, <2>1 DEF Reading
<1>16. t.refused \in BOOLEAN
  BY <1>11 DEF Exceeds
<1> QED BY <1>11, <1>14, <1>15, <1>16 DEF t

LEMMA NoStack ==
    ASSUME NEW X, NEW s \in Seq(X)
    PROVE  s = <<>> <=> Range(s) = {}
<1>1. Len(s) \in Nat /\ DOMAIN s = 1..Len(s)
  BY LenProperties
<1>2. ASSUME s # <<>> PROVE s[1] \in Range(s)
  BY <1>1, <1>2, EmptySeq DEF Range
<1> QED BY <1>2 DEF Range

\* read_json lets a tree through exactly when it has no more nodes than allowed,
\* and none of them too deep: the walk, node by node and in whatever order the
\* children were pushed, misses none and counts none twice.  And the loop ends:
\* it makes no more turns than there are nodes.
THEOREM ReadJsonIsWithin ==
    ASSUME NEW n \in Nat \ {0}, NEW d, d.parent \in Parents(n)
    PROVE  /\ ReadJson(d) <=> Within(d)
           /\ LET end == ReadWalk(d.parent)[n] IN end.refused \/ end.stack = <<>>
<1> DEFINE p == d.parent
           w == ReadWalk(p)
<1>1. w[0] = Start /\ \A k \in 1..n : w[k] = ReadTurn(p, w[k - 1])
  BY ReadWalkDef
<1>2. Len(p) = n /\ DOMAIN p = 1..n /\ p \in Parents(n)
  BY Tree
<1> HIDE DEF w, p
<1> DEFINE Claim(k) ==
             /\ w[k].refused \in BOOLEAN
             /\ w[k].refused => TooLarge(n, p)
             /\ ~w[k].refused => \E S, V : /\ Reading(n, p, w[k], S, V)
                                           /\ w[k].stack # <<>> => w[k].nodes = k
           T == {k \in Nat : k <= n => Claim(k)}
<1>3. 0 \in T
  <2>1. w[0].stack = <<[node |-> 1, depth |-> 0]>> /\ w[0].nodes = 0 /\ w[0].refused = FALSE
    BY <1>1 DEF Start
  <2>2. ReadStack(n, p, w[0].stack, {1})
    <3>1. Item(p, 1) = [node |-> 1, depth |-> 0]
      BY <1>2, DepthType DEF Item
    <3>2. w[0].stack \in Seq([node : 1..n, depth : Nat])
      BY <2>1
    <3>3. IsInjective(w[0].stack) /\ Range(w[0].stack) = {[node |-> 1, depth |-> 0]}
      BY <2>1 DEF IsInjective, Range
    <3> QED BY <3>1, <3>2, <3>3 DEF ReadStack
  <2>3. Reading(n, p, w[0], {1}, {})
    BY <2>1, <2>2, ReachedStart, FS_EmptySet, DocumentBounds DEF Reading, Shallow
  <2>4. Claim(0)
    BY <2>1, <2>3
  <2> QED BY <2>4
<1>4. ASSUME NEW k \in Nat, k \in T PROVE k + 1 \in T
  <2> SUFFICES ASSUME k + 1 <= n PROVE Claim(k + 1)
    OBVIOUS
  <2>1. Claim(k) /\ k + 1 \in 1..n /\ w[k + 1] = ReadTurn(p, w[k])
    <3>1. k + 1 \in 1..n /\ (k + 1) - 1 = k /\ k <= n
      OBVIOUS
    <3> QED BY <1>1, <1>4, <3>1
  <2>2. CASE w[k].refused
    <3>1. w[k + 1] = w[k]
      BY <2>1, <2>2 DEF ReadTurn
    <3> QED BY <2>1, <2>2, <3>1
  <2>3. CASE ~w[k].refused /\ w[k].stack = <<>>
    <3>1. w[k + 1] = w[k]
      BY <2>1, <2>3 DEF ReadTurn
    <3> QED BY <2>1, <2>3, <3>1
  <2>4. CASE ~w[k].refused /\ w[k].stack # <<>>
    <3>1. PICK S, V : Reading(n, p, w[k], S, V)
      BY <2>1, <2>4
    <3>2. w[k].refused = FALSE /\ w[k].nodes = k
      BY <2>1, <2>4
    <3>3. LET t == ReadTurn(p, w[k])
          IN  /\ t.nodes = w[k].nodes + 1
              /\ t.refused \in BOOLEAN
              /\ t.refused => TooLarge(n, p)
              /\ ~t.refused => \E A, B : Reading(n, p, t, A, B)
      BY <1>2, <2>4, <3>1, <3>2, ReadVisit
    <3>4. /\ w[k + 1].nodes = k + 1
          /\ w[k + 1].refused \in BOOLEAN
          /\ w[k + 1].refused => TooLarge(n, p)
          /\ ~w[k + 1].refused => \E A, B : Reading(n, p, w[k + 1], A, B)
      BY <2>1, <3>2, <3>3
    <3> QED BY <3>4
  <2> QED BY <2>2, <2>3, <2>4
<1>5. Claim(n)
  <2>1. n \in T
    <3>1. T \in SUBSET Nat
      OBVIOUS
    <3> HIDE DEF T
    <3> QED BY <1>3, <1>4, <3>1, Induction
  <2> QED BY <2>1
<1>6. ASSUME ~w[n].refused PROVE w[n].stack = <<>> /\ ~TooLarge(n, p)
  <2>1. PICK S, V : Reading(n, p, w[n], S, V) /\ (w[n].stack # <<>> => w[n].nodes = n)
    BY <1>5, <1>6
  <2>2. Reached(n, p, 1..n, S, V) /\ ReadStack(n, p, w[n].stack, S)
    BY <2>1 DEF Reading
  <2>3. S = {}
    <3>1. CASE w[n].stack # <<>>
      BY <2>1, <2>2, <3>1, ReachedAll DEF Reading
    <3>2. CASE w[n].stack = <<>>
      BY <2>2, <3>2, NoStack DEF ReadStack
    <3> QED BY <3>1, <3>2
  <2>4. V = 1..n
    <3> DEFINE E == 1..n
    <3>1. Reached(n, p, E, S, V)
      BY <2>2
    <3>2. IsClosure(n, p, E, E)
      BY <1>2, Tree DEF IsClosure
    <3> HIDE DEF E
    <3>3. V = E
      BY <1>2, <2>3, <3>1, <3>2, ReachedIsClosure
    <3> QED BY <3>3 DEF E
  <2>5. Cardinality(V) = n
    BY <2>4, FS_Interval
  <2>6. w[n].stack = <<>>
    BY <2>2, <2>3, NoStack DEF ReadStack
  <2> QED BY <2>1, <2>4, <2>5, <2>6 DEF Reading, TooLarge
<1>7. ReadJson(d) <=> d.text = "fine" /\ ~w[n].refused
  BY <1>2 DEF ReadJson, w, p
<1>8. Within(d) <=> d.text = "fine" /\ ~TooLarge(n, p)
  BY <1>2 DEF Within, TooLarge, Shallow, p
<1>9. w[n] = ReadWalk(d.parent)[n]
  BY DEF w, p
<1> QED BY <1>5, <1>6, <1>7, <1>8, <1>9

-----------------------------------------------------------------------------
(* validate_schema *)

SchemaStack(n, stack, S) == stack \in Seq(1..n) /\ IsInjective(stack) /\ Range(stack) = S

Subs(n, s) == {i \in 1..n : s.sub[i]}

\* The turns of the loop so far: V is visited.
Validating(n, s, w, S, V) ==
    /\ Reached(n, s.parent, Subs(n, s), S, V) /\ SchemaStack(n, w.stack, S)
    /\ \A i \in V : ~s.odd[i]

\* A visit to a subschema.
LEMMA SchemaVisit ==
    ASSUME NEW n \in Nat \ {0}, NEW p \in Parents(n), NEW s, s.parent = p,
           NEW w, NEW S, NEW V, ~w.refused, w.stack # <<>>, Validating(n, s, w, S, V)
    PROVE  LET t == SchemaTurn(s, w)
           IN  \E x \in S : /\ t.refused = s.odd[x]
                            /\ Cardinality(V) \in Nat
                            /\ Cardinality(V \cup {x}) = Cardinality(V) + 1
                            /\ ~s.odd[x] => \E A : Validating(n, s, t, A, V \cup {x})
<1> DEFINE stack == w.stack
           E == Subs(n, s)
<1>1. /\ stack \in Seq(1..n) /\ IsInjective(stack) /\ Range(stack) = S
      /\ Reached(n, p, E, S, V) /\ S \subseteq 1..n /\ V \subseteq 1..n
  BY DEF Validating, SchemaStack, Reached
<1>2. PICK x \in S : x = Last(stack)
  BY <1>1, Top
<1> DEFINE C == {j \in 1..n : p[j] = x /\ s.sub[j]}
           below == Subschemas(s, x)
<1>3. below \in Seq(C) /\ IsInjective(below) /\ Range(below) = C
  <2>1. {k \in DOMAIN p : p[k] = x /\ s.sub[k]} = C
    BY Tree
  <2>2. C \in SUBSET (1..n)
    OBVIOUS
  <2> HIDE DEF C
  <2> QED BY <2>1, <2>2, Listing DEF Subschemas
<1>4. C \subseteq 1..n /\ IsBelow(n, p, E, x, C)
  BY DEF Subs, IsBelow
<1> HIDE DEF C, below, E
<1>5. below \in Seq(1..n)
  BY <1>3, <1>4, SeqMonotonic
<1>6. Reached(n, p, E, S, V)
  BY <1>1
<1>7. C \cap S = {} /\ Reached(n, p, E, (S \ {x}) \cup C, V \cup {x})
  BY <1>4, <1>6, ReachedStep
<1>8. SchemaStack(n, Front(stack) \o below, (S \ {x}) \cup C)
  <2>1. Range(stack) \cap Range(below) = {}
    BY <1>1, <1>3, <1>7
  <2>2. /\ Front(stack) \o below \in Seq(1..n) /\ IsInjective(Front(stack) \o below)
        /\ Range(Front(stack) \o below) = (Range(stack) \ {x}) \cup Range(below)
    BY <1>1, <1>3, <1>5, <1>2, <2>1, Push
  <2> QED BY <1>1, <1>3, <2>2 DEF SchemaStack
<1> DEFINE t == SchemaTurn(s, w)
<1>9. t.stack = Front(stack) \o below /\ t.refused = s.odd[x]
  BY <1>2 DEF SchemaTurn, below
<1> HIDE DEF t
<1>10. ASSUME ~s.odd[x] PROVE Validating(n, s, t, (S \ {x}) \cup C, V \cup {x})
  BY <1>7, <1>8, <1>9, <1>10 DEF Validating, E
<1>11. Cardinality(V) \in Nat /\ Cardinality(V \cup {x}) = Cardinality(V) + 1
  BY <1>6, ReachedCount
<1> QED BY <1>2, <1>9, <1>10, <1>11 DEF t

Unsupported(s) == \E i \in Positions(s) : s.odd[i]

\* validate_schema refuses a schema exactly when one of its positions has a
\* keyword outside the profile: it looks at every subschema, and at nothing in
\* an enum or a const.  The loop ends as that of read_json does.
THEOREM ValidateSchemaIsSupported ==
    ASSUME NEW n \in Nat \ {0}, NEW s, s.parent \in Parents(n)
    PROVE  /\ ValidateSchema(s) <=> Supported(s)
           /\ LET end == SchemaWalk(s)[n] IN end.refused \/ end.stack = <<>>
<1> PICK p \in Parents(n) : p = s.parent
  OBVIOUS
<1> DEFINE w == SchemaWalk(s)
           E == Subs(n, s)
           P == Positions(s)
<1>1. w[0] = SchemaStart /\ \A k \in 1..n : w[k] = SchemaTurn(s, w[k - 1])
  BY SchemaWalkDef
<1>2. Len(p) = n
  BY Tree
<1>3. IsClosure(n, p, E, P)
  BY PositionsDef DEF Subs, IsClosure
<1> HIDE DEF w, E, P
<1>4. ASSUME NEW v, NEW S, NEW V, Validating(n, s, v, S, V)
      PROVE  S \cup V \subseteq P /\ (S = {} => V = P)
  <2>1. Reached(n, p, E, S, V)
    BY <1>4 DEF Validating, E
  <2> QED BY <1>3, <2>1, ReachedIsClosure
<1> DEFINE Claim(k) ==
             /\ w[k].refused => Unsupported(s)
             /\ ~w[k].refused => \E S, V : /\ Validating(n, s, w[k], S, V)
                                           /\ w[k].stack # <<>> => Cardinality(V) = k
           T == {k \in Nat : k <= n => Claim(k)}
<1>5. 0 \in T
  <2>1. w[0].stack = <<1>> /\ w[0].refused = FALSE
    BY <1>1 DEF SchemaStart
  <2>2. SchemaStack(n, w[0].stack, {1})
    BY <2>1 DEF SchemaStack, IsInjective, Range
  <2>3. Validating(n, s, w[0], {1}, {})
    BY <2>1, <2>2, ReachedStart DEF Validating
  <2>4. Claim(0)
    BY <2>1, <2>3, FS_EmptySet
  <2> QED BY <2>4
<1>6. ASSUME NEW k \in Nat, k \in T PROVE k + 1 \in T
  <2> SUFFICES ASSUME k + 1 <= n PROVE Claim(k + 1)
    OBVIOUS
  <2>1. Claim(k) /\ w[k + 1] = SchemaTurn(s, w[k])
    <3>1. k + 1 \in 1..n /\ (k + 1) - 1 = k /\ k <= n
      OBVIOUS
    <3> QED BY <1>1, <1>6, <3>1
  <2>2. CASE w[k].refused
    <3>1. w[k + 1] = w[k]
      BY <2>1, <2>2 DEF SchemaTurn
    <3> QED BY <2>1, <2>2, <3>1
  <2>3. CASE ~w[k].refused /\ w[k].stack = <<>>
    <3>1. w[k + 1] = w[k]
      BY <2>1, <2>3 DEF SchemaTurn
    <3> QED BY <2>1, <2>3, <3>1
  <2>4. CASE ~w[k].refused /\ w[k].stack # <<>>
    <3>1. PICK S, V : Validating(n, s, w[k], S, V) /\ Cardinality(V) = k
      BY <2>1, <2>4
    <3>2. LET t == SchemaTurn(s, w[k])
          IN  \E x \in S : /\ t.refused = s.odd[x]
                           /\ Cardinality(V) \in Nat
                           /\ Cardinality(V \cup {x}) = Cardinality(V) + 1
                           /\ ~s.odd[x] => \E A : Validating(n, s, t, A, V \cup {x})
      BY <2>4, <3>1, SchemaVisit
    <3>3. PICK x \in S : /\ w[k + 1].refused = s.odd[x]
                         /\ Cardinality(V \cup {x}) = Cardinality(V) + 1
                         /\ ~s.odd[x] => \E A : Validating(n, s, w[k + 1], A, V \cup {x})
      BY <2>1, <3>2
    <3>4. x \in P
      BY <1>4, <3>1
    <3>5. CASE s.odd[x]
      BY <3>3, <3>4, <3>5 DEF Unsupported, P
    <3>6. CASE ~s.odd[x]
      BY <3>1, <3>3, <3>6
    <3> QED BY <3>5, <3>6
  <2> QED BY <2>2, <2>3, <2>4
<1>7. Claim(n)
  <2>1. n \in T
    <3>1. T \in SUBSET Nat
      OBVIOUS
    <3> HIDE DEF T
    <3> QED BY <1>5, <1>6, <3>1, Induction
  <2> QED BY <2>1
<1>8. ASSUME ~w[n].refused PROVE w[n].stack = <<>> /\ ~Unsupported(s)
  <2>1. PICK S, V : Validating(n, s, w[n], S, V) /\ (w[n].stack # <<>> => Cardinality(V) = n)
    BY <1>7, <1>8
  <2>2. Reached(n, p, E, S, V) /\ SchemaStack(n, w[n].stack, S)
    BY <2>1 DEF Validating, E
  <2>3. S = {}
    <3>1. CASE w[n].stack # <<>>
      BY <2>1, <2>2, <3>1, ReachedAll
    <3>2. CASE w[n].stack = <<>>
      BY <2>2, <3>2, NoStack DEF SchemaStack
    <3> QED BY <3>1, <3>2
  <2>4. V = P
    BY <1>4, <2>1, <2>3
  <2>5. w[n].stack = <<>>
    BY <2>2, <2>3, NoStack DEF SchemaStack
  <2> QED BY <2>1, <2>4, <2>5 DEF Validating, Unsupported, P
<1>9. ValidateSchema(s) <=> s.root /\ ~w[n].refused
  BY <1>2 DEF ValidateSchema, w
<1>10. Supported(s) <=> s.root /\ ~Unsupported(s)
  BY DEF Supported, Unsupported
<1>11. w[n] = SchemaWalk(s)[n]
  BY DEF w
<1> QED BY <1>7, <1>8, <1>9, <1>10, <1>11

-----------------------------------------------------------------------------
(* The report of check() *)

Passed(i) == [id |-> Steps[i], status |-> "passed"]
Failed(i) == [id |-> Steps[i], status |-> "failed"]

ProcessesOK ==
    /\ agent \in {"none", "starting", "serving", "ended"}
    /\ port \in {"nobody", "agent", "other"} /\ otherKey \in {"agent", "other"}
    /\ port = "agent" <=> agent = "serving"
    /\ pc = "started" => agent = "none"

CountersOK ==
    /\ polls \in 0..MaxPolls - 1 /\ size \in 0..MaxResponse
    /\ timer \in 0..PollTimeout + DnsTimeout + ReadTimeout + StopTimeout /\ budget \in 0..CheckTimeout

TalkOK ==
    /\ manifest \in [local : BOOLEAN, key : Keys]
    /\ server \in [who : {"nobody", "agent", "other"}, address : Addresses \cup {"none"}]

\* While it runs: nothing failed yet.
RunInv ==
    /\ exit = "none" /\ sound = TRUE
    /\ \/ /\ pc \in {"started", "ready", "polling", "reading", "validating", "schemas"}
          /\ checks = <<>> /\ invokes = 0
       \/ pc = "pinning" /\ checks = <<Passed(1)>> /\ invokes = 0
       \/ pc \in {"headers", "body"} /\ checks = <<Passed(1)>> /\ invokes = 1

\* When it has ended: what it reports, and what that says.
EndInv ==
    /\ pc \in {"stopping", "exited"} /\ invokes \in {0, 1} /\ sound \in BOOLEAN
    /\ \/ exit \in {"1", "raised"} /\ checks = <<>>
       \/ exit = "1" /\ checks = <<Failed(1)>> /\ ~sound
       \/ exit = "1" /\ checks = <<Passed(1), Failed(2)>>
       \/ exit = "1" /\ checks = <<Passed(1), Passed(2), Failed(3)>> /\ ~sound
       \/ exit = "1" /\ checks = <<Passed(1), Passed(2), Passed(3), Failed(4)>> /\ ~sound
       \/ exit = "0" /\ checks = <<Passed(1), Passed(2), Passed(3), Passed(4)>> /\ sound /\ invokes = 1

\* An invoke goes to an allowed address.
AddressInv == invokes > 0 => server.address \in {"public", "loopback"}

ReportInv == (RunInv \/ EndInv) /\ AddressInv

CheckInv == ProcessesOK /\ CountersOK /\ TalkOK /\ ReportInv

LEMMA DocumentsRead == \A d \in Documents : (ReadJson(d) <=> Within(d)) /\ Within(d) \in BOOLEAN
<1> SUFFICES ASSUME NEW d \in Documents PROVE (ReadJson(d) <=> Within(d)) /\ Within(d) \in BOOLEAN
  OBVIOUS
<1>1. PICK n \in 1..TreeBound : d.parent \in Parents(n)
  BY DEF Documents
<1>2. n \in Nat \ {0}
  BY DocumentBounds
<1>3. ReadJson(d) <=> Within(d)
  BY <1>1, <1>2, ReadJsonIsWithin
<1>4. Within(d) \in BOOLEAN
  BY DEF Within
<1> QED BY <1>3, <1>4

LEMMA SchemasValidated == \A s \in Schemas : (ValidateSchema(s) <=> Supported(s)) /\ Supported(s) \in BOOLEAN
<1> SUFFICES ASSUME NEW s \in Schemas
             PROVE  (ValidateSchema(s) <=> Supported(s)) /\ Supported(s) \in BOOLEAN
  OBVIOUS
<1>1. PICK n \in 1..TreeBound : s.parent \in Parents(n)
  BY DEF Schemas
<1>2. n \in Nat \ {0}
  BY DocumentBounds
<1>3. ValidateSchema(s) <=> Supported(s)
  BY <1>1, <1>2, ValidateSchemaIsSupported
<1>4. Supported(s) \in BOOLEAN
  BY DEF Supported
<1> QED BY <1>3, <1>4

\* Where the steps after the manifest stop.
LEMMA JudgedIs ==
    ASSUME NEW o
    PROVE  /\ ~o[1] => Judged(o) = <<Failed(2)>>
           /\ o[1] /\ ~o[2] => Judged(o) = <<Passed(2), Failed(3)>>
           /\ o[1] /\ o[2] /\ ~o[3] => Judged(o) = <<Passed(2), Passed(3), Failed(4)>>
           /\ o[1] /\ o[2] /\ o[3] => Judged(o) = <<Passed(2), Passed(3), Passed(4)>>
<1> DEFINE Stops(k) == (k = 3 \/ ~o[k + 1]) /\ \A i \in 1..k : o[i]
           n == CHOOSE k \in 0..3 : Stops(k)
           report == [i \in 1..(IF n = 3 THEN 3 ELSE n + 1) |->
                        [id |-> Steps[i + 1], status |-> IF i <= n THEN "passed" ELSE "failed"]]
<1>1. Judged(o) = report
  BY DEF Judged
<1>2. ASSUME NEW k \in 0..3, Stops(k) PROVE n = k
  <2>1. n \in 0..3 /\ Stops(n)
    <3> HIDE DEF Stops
    <3> QED BY <1>2
  <2> HIDE DEF n
  <2>2. ~(k < n)
    <3> SUFFICES ASSUME k < n PROVE FALSE
      OBVIOUS
    <3>1. k # 3 /\ k + 1 \in 1..n
      BY <2>1
    <3>2. o[k + 1]
      BY <2>1, <3>1
    <3> QED BY <1>2, <3>1, <3>2
  <2>3. ~(n < k)
    <3> SUFFICES ASSUME n < k PROVE FALSE
      OBVIOUS
    <3>1. n # 3 /\ n + 1 \in 1..k
      BY <2>1
    <3>2. o[n + 1]
      BY <1>2, <3>1
    <3> QED BY <2>1, <3>1, <3>2
  <2> QED BY <2>1, <2>2, <2>3
<1> HIDE DEF n
<1>3. ASSUME ~o[1] PROVE report = <<Failed(2)>>
  <2>1. Stops(0)
    BY <1>3
  <2>2. n = 0
    BY <1>2, <2>1
  <2> QED BY <2>2 DEF Failed
<1>4. ASSUME o[1], ~o[2] PROVE report = <<Passed(2), Failed(3)>>
  <2>1. Stops(1)
    BY <1>4
  <2>2. n = 1
    BY <1>2, <2>1
  <2> QED BY <2>2 DEF Passed, Failed
<1>5. ASSUME o[1], o[2], ~o[3] PROVE report = <<Passed(2), Passed(3), Failed(4)>>
  <2>1. Stops(2)
    BY <1>5
  <2>2. n = 2
    BY <1>2, <2>1
  <2> QED BY <2>2 DEF Passed, Failed
<1>6. ASSUME o[1], o[2], o[3] PROVE report = <<Passed(2), Passed(3), Passed(4)>>
  <2>1. Stops(3)
    BY <1>6
  <2>2. n = 3
    BY <1>2, <2>1
  <2> QED BY <2>2 DEF Passed
<1> HIDE DEF report
<1> QED BY <1>1, <1>3, <1>4, <1>5, <1>6

LEMMA ProcessesStep == ProcessesOK /\ [Next]_vars => ProcessesOK'
<1> SUFFICES ASSUME ProcessesOK, [Next]_vars PROVE ProcessesOK'
  OBVIOUS
<1> USE DEF ProcessesOK
<1>1. CASE AgentServes
  BY <1>1 DEF AgentServes
<1>2. CASE AgentEnds \/ Kill
  BY <1>2 DEF AgentEnds, Kill, AgentGone
<1>3. CASE OtherComesOrGoes
  BY <1>3 DEF OtherComesOrGoes
<1>4. CASE Popen
  BY <1>4 DEF Popen
<1>5. CASE UNCHANGED <<agent, port, otherKey>> /\ (pc' = "started" => pc = "started")
  BY <1>5
<1>6. ASSUME ~(AgentServes \/ AgentEnds \/ Kill \/ OtherComesOrGoes \/ Popen)
      PROVE  UNCHANGED <<agent, port, otherKey>> /\ (pc' = "started" => pc = "started")
  <2>1. CASE Trickle \/ Headers \/ Chunk \/ Judge \/ RequestFails \/ Tick
    BY <2>1 DEF Trickle, Headers, Chunk, Judge, RequestFails, Tick, FailsAt, Ends, Goes
  <2>2. CASE AgentStopped \/ HealthAsked \/ HealthAnswers \/ HealthFails \/ ReadFiles
    BY <2>2 DEF AgentStopped, HealthAsked, HealthAnswers, HealthFails, ReadFiles, Ends, Goes
  <2>3. CASE ValidateFields \/ ValidateSchemas \/ Invoke \/ TimesOut \/ Stop
    BY <2>3 DEF ValidateFields, ValidateSchemas, Invoke, TimesOut, Stop, FailsAt, Ends, Goes
  <2>4. CASE UNCHANGED vars
    BY <2>4 DEF vars
  <2> QED BY <1>6, <2>1, <2>2, <2>3, <2>4 DEF Next, Environment, Program
<1> QED BY <1>1, <1>2, <1>3, <1>4, <1>5, <1>6

LEMMA CountersStep == CountersOK /\ [Next]_vars => CountersOK'
<1> SUFFICES ASSUME CountersOK, [Next]_vars PROVE CountersOK'
  OBVIOUS
<1>1. /\ MaxPolls \in Nat \ {0} /\ MaxResponse \in Nat
      /\ PollTimeout \in Nat /\ DnsTimeout \in Nat /\ ReadTimeout \in Nat /\ StopTimeout \in Nat /\ CheckTimeout \in Nat
  BY CheckBounds
<1>2. /\ \A t \in {0, PollTimeout, DnsTimeout, ReadTimeout, StopTimeout} :
            t \in 0..PollTimeout + DnsTimeout + ReadTimeout + StopTimeout
      /\ CheckTimeout \in 0..CheckTimeout /\ 0 \in 0..CheckTimeout
  BY <1>1
<1>3. CASE HealthFails
  <2>1. CASE polls + 1 < MaxPolls /\ polls' = polls + 1 /\ timer' = 0 /\ UNCHANGED <<size, budget>>
    BY <1>1, <1>2, <2>1 DEF CountersOK
  <2>2. CASE Ends("raised") /\ UNCHANGED polls
    BY <1>2, <2>2 DEF CountersOK, Ends
  <2> QED BY <1>3, <2>1, <2>2 DEF HealthFails, Ends, http
<1>4. CASE Tick
  BY <1>1, <1>4 DEF Tick, CountersOK
<1>5. CASE Chunk
  <2>1. CASE size < MaxResponse /\ size' = size + 1 /\ timer' = ReadTimeout /\ UNCHANGED <<polls, budget>>
    BY <1>1, <1>2, <2>1 DEF CountersOK
  <2>2. CASE FailsAt(2)
    BY <1>2, <2>2 DEF CountersOK, FailsAt, Ends
  <2> QED BY <1>5, <2>1, <2>2 DEF Chunk
<1>6. CASE Trickle \/ Headers \/ Judge \/ RequestFails
  BY <1>2, <1>6 DEF Trickle, Headers, Judge, RequestFails, FailsAt, Ends, Goes, CountersOK
<1>7. CASE AgentStopped \/ HealthAsked \/ HealthAnswers \/ ReadFiles
  BY <1>2, <1>7 DEF AgentStopped, HealthAsked, HealthAnswers, ReadFiles, Ends, Goes, CountersOK, http
<1>8. CASE ValidateFields \/ ValidateSchemas \/ Invoke \/ TimesOut
  BY <1>2, <1>8 DEF ValidateFields, ValidateSchemas, Invoke, TimesOut, FailsAt, Ends, Goes,
     CountersOK, http
<1>9. CASE AgentServes \/ AgentEnds \/ Kill \/ OtherComesOrGoes \/ Popen \/ Stop
  BY <1>9 DEF AgentServes, AgentEnds, Kill, OtherComesOrGoes, Popen, Stop, CountersOK, http
<1>10. CASE UNCHANGED vars
  BY <1>10 DEF vars, http, CountersOK
<1> QED
  BY <1>3, <1>4, <1>5, <1>6, <1>7, <1>8, <1>9, <1>10 DEF Next, Environment, Program

LEMMA TalkStep == ProcessesOK /\ TalkOK /\ [Next]_vars => TalkOK'
<1> SUFFICES ASSUME ProcessesOK, TalkOK, [Next]_vars PROVE TalkOK'
  OBVIOUS
<1>1. CASE ValidateFields
  <2>1. CASE UNCHANGED <<manifest, server>>
    BY <2>1 DEF TalkOK
  <2>2. ASSUME NEW url \in Urls, NEW key \in Keys \cup {"malformed"}, key # "malformed",
               manifest' = [local |-> url.local, key |-> key], UNCHANGED server
        PROVE  TalkOK'
    BY <2>2 DEF TalkOK, Urls
  <2> QED BY <1>1, <2>1, <2>2 DEF ValidateFields, FailsAt, Ends, http
<1>2. CASE Invoke
  <2>1. CASE UNCHANGED <<manifest, server>>
    BY <2>1 DEF TalkOK
  <2>2. ASSUME NEW resolved \in SUBSET Addresses, NEW first \in resolved, UNCHANGED manifest,
               server' = [who |-> IF manifest.local THEN port ELSE "other", address |-> first]
        PROVE  TalkOK'
    BY <2>2 DEF TalkOK, ProcessesOK
  <2> QED BY <1>2, <2>1, <2>2 DEF Invoke, FailsAt, Ends
<1>3. ASSUME ~(ValidateFields \/ Invoke \/ HealthAsked \/ HealthAnswers \/ HealthFails)
      PROVE  UNCHANGED <<manifest, server>>
  <2>1. CASE AgentServes \/ AgentEnds \/ Kill \/ OtherComesOrGoes \/ Popen \/ Stop
    BY <2>1 DEF AgentServes, AgentEnds, Kill, OtherComesOrGoes, Popen, Stop, http
  <2>2. CASE Trickle \/ Headers \/ Chunk \/ Judge \/ RequestFails \/ Tick
    BY <2>2 DEF Trickle, Headers, Chunk, Judge, RequestFails, Tick, FailsAt, Ends, Goes
  <2>3. CASE AgentStopped \/ ReadFiles
    BY <2>3 DEF AgentStopped, ReadFiles, Ends, Goes, http
  <2>4. CASE ValidateSchemas \/ TimesOut
    BY <2>4 DEF ValidateSchemas, TimesOut, FailsAt, Ends, Goes
  <2>5. CASE UNCHANGED vars
    BY <2>5 DEF vars, http
  <2> QED BY <1>3, <2>1, <2>2, <2>3, <2>4, <2>5 DEF Next, Environment, Program
<1>4. CASE UNCHANGED <<manifest, server>>
  BY <1>4 DEF TalkOK
<1>5. CASE HealthAsked \/ HealthAnswers \/ HealthFails
  BY <1>5 DEF HealthAsked, HealthAnswers, HealthFails, Ends, Nobody, TalkOK, ProcessesOK, Addresses
<1> QED BY <1>1, <1>2, <1>3, <1>4, <1>5

LEMMA AddressStep == ReportInv /\ [Next]_vars => AddressInv'
<1> SUFFICES ASSUME ReportInv, AddressInv, [Next]_vars PROVE AddressInv'
  BY DEF ReportInv
<1>1. CASE Invoke
  <2>1. CASE UNCHANGED <<invokes, server>>
    BY <2>1 DEF AddressInv
  <2>2. ASSUME NEW resolved \in SUBSET Addresses, PinTarget(resolved, TRUE), NEW first \in resolved,
               server' = [who |-> IF manifest.local THEN port ELSE "other", address |-> first]
        PROVE  AddressInv'
    BY <2>2 DEF AddressInv, PinTarget, MayConnect
  <2> QED BY <1>1, <2>1, <2>2 DEF Invoke, FailsAt, Ends
<1>2. ASSUME ~(Invoke \/ HealthAsked \/ HealthAnswers \/ HealthFails) PROVE UNCHANGED <<invokes, server>>
  <2>1. CASE AgentServes \/ AgentEnds \/ Kill \/ OtherComesOrGoes \/ Popen \/ Stop
    BY <2>1 DEF AgentServes, AgentEnds, Kill, OtherComesOrGoes, Popen, Stop, http
  <2>2. CASE Trickle \/ Headers \/ Chunk \/ Judge \/ RequestFails \/ Tick
    BY <2>2 DEF Trickle, Headers, Chunk, Judge, RequestFails, Tick, FailsAt, Ends, Goes
  <2>3. CASE AgentStopped \/ ReadFiles
    BY <2>3 DEF AgentStopped, ReadFiles, Ends, Goes, http
  <2>4. CASE ValidateFields \/ ValidateSchemas \/ TimesOut
    BY <2>4 DEF ValidateFields, ValidateSchemas, TimesOut, FailsAt, Ends, Goes, http
  <2>5. CASE UNCHANGED vars
    BY <2>5 DEF vars, http
  <2> QED BY <1>2, <2>1, <2>2, <2>3, <2>4, <2>5 DEF Next, Environment, Program
<1>3. CASE UNCHANGED <<invokes, server>>
  BY <1>3 DEF AddressInv
<1>4. CASE HealthAsked \/ HealthAnswers \/ HealthFails
  <2>1. pc \in {"ready", "polling"} /\ invokes' = invokes
    BY <1>4 DEF HealthAsked, HealthAnswers, HealthFails, Ends
  <2>2. invokes = 0
    BY <2>1 DEF ReportInv, RunInv, EndInv
  <2> QED BY <2>1, <2>2 DEF AddressInv
<1> QED BY <1>1, <1>2, <1>3, <1>4

LEMMA Prepended ==
    ASSUME NEW X, NEW a \in X, NEW s \in Seq(X), NEW t \in Seq(X), Len(t) = Len(s) + 1, t[1] = a,
           \A i \in 1..Len(s) : t[i + 1] = s[i]
    PROVE  <<a>> \o s = t
<1> DEFINE u == <<a>> \o s
<1>1. <<a>> \in Seq(X) /\ Len(<<a>>) = 1 /\ <<a>>[1] = a
  OBVIOUS
<1>2. Len(s) \in Nat
  BY LenProperties
<1>3. /\ u \in Seq(X) /\ Len(u) = Len(s) + 1
      /\ \A i \in 1..1 + Len(s) : u[i] = IF i <= 1 THEN <<a>>[i] ELSE s[i - 1]
  BY <1>1, <1>2, ConcatProperties
<1> HIDE DEF u
<1>4. \A i \in 1..Len(u) : u[i] = t[i]
  <2> SUFFICES ASSUME NEW i \in 1..Len(s) + 1 PROVE u[i] = t[i]
    BY <1>3
  <2>1. CASE i = 1
    BY <1>1, <1>2, <1>3, <2>1
  <2>2. CASE i # 1
    <3>1. i - 1 \in 1..Len(s) /\ i \in 1..1 + Len(s) /\ ~(i <= 1) /\ (i - 1) + 1 = i
      BY <1>2, <2>2
    <3>2. u[i] = s[i - 1]
      BY <1>3, <3>1
    <3>3. t[(i - 1) + 1] = s[i - 1]
      BY <3>1
    <3> QED BY <3>1, <3>2, <3>3
  <2> QED BY <2>1, <2>2
<1>5. u = t
  BY <1>3, <1>4, SeqEqual
<1> QED BY <1>5 DEF u

LEMMA Joined ==
    ASSUME NEW a, NEW b, NEW c
    PROVE  /\ Append(<<>>, a) = <<a>> /\ Append(<<a>>, b) = <<a, b>>
           /\ <<a>> \o <<b>> = <<a, b>> /\ <<a>> \o <<b, c>> = <<a, b, c>>
<1> PICK X : X = {a, b, c}
  OBVIOUS
<1>1. /\ a \in X /\ b \in X /\ <<a>> \in Seq(X) /\ <<b>> \in Seq(X) /\ <<b, c>> \in Seq(X)
      /\ <<a, b>> \in Seq(X) /\ <<a, b, c>> \in Seq(X)
  OBVIOUS
<1>2. <<a>> \o <<b>> = <<a, b>>
  <2>1. /\ Len(<<a, b>>) = Len(<<b>>) + 1 /\ <<a, b>>[1] = a
        /\ \A i \in 1..Len(<<b>>) : <<a, b>>[i + 1] = <<b>>[i]
    OBVIOUS
  <2> QED BY <1>1, <2>1, Prepended
<1>3. <<a>> \o <<b, c>> = <<a, b, c>>
  <2>1. /\ Len(<<a, b, c>>) = Len(<<b, c>>) + 1 /\ <<a, b, c>>[1] = a
        /\ \A i \in 1..Len(<<b, c>>) : <<a, b, c>>[i + 1] = <<b, c>>[i]
    OBVIOUS
  <2> QED BY <1>1, <2>1, Prepended
<1>4. Append(<<a>>, b) = <<a, b>>
  BY <1>1, <1>2, AppendIsConcat
<1>5. Append(<<>>, a) = <<a>>
  <2>1. <<>> \in Seq(X) /\ Append(<<>>, a) = <<>> \o <<a>>
    BY <1>1, EmptySeq, AppendIsConcat
  <2> QED BY <1>1, <2>1, ConcatEmptySeq
<1> QED BY <1>2, <1>3, <1>4, <1>5

LEMMA JoinedFour ==
    ASSUME NEW a, NEW b, NEW c, NEW d
    PROVE  <<a>> \o <<b, c, d>> = <<a, b, c, d>>
<1> PICK X : X = {a, b, c, d}
  OBVIOUS
<1>1. a \in X /\ <<b, c, d>> \in Seq(X) /\ <<a, b, c, d>> \in Seq(X)
  OBVIOUS
<1>2. /\ Len(<<a, b, c, d>>) = Len(<<b, c, d>>) + 1 /\ <<a, b, c, d>>[1] = a
      /\ \A i \in 1..Len(<<b, c, d>>) : <<a, b, c, d>>[i + 1] = <<b, c, d>>[i]
  OBVIOUS
<1> QED BY <1>1, <1>2, Prepended

\* A failed step ends the report.
LEMMA FailedStep ==
    ASSUME RunInv
    PROVE  /\ pc \in {"validating", "schemas"} /\ FailsAt(1) /\ sound' = FALSE => EndInv'
           /\ pc \in {"pinning", "headers", "body"} /\ FailsAt(2) /\ UNCHANGED sound => EndInv'
<1>1. ASSUME pc \in {"validating", "schemas"}, FailsAt(1), sound' = FALSE PROVE EndInv'
  <2>1. checks' = <<Failed(1)>>
    <3>1. checks = <<>> /\ checks' = Append(checks, Failed(1))
      BY <1>1 DEF FailsAt, RunInv, Failed
    <3> QED BY <3>1, Joined
  <2> QED BY <1>1, <2>1 DEF FailsAt, Ends, RunInv, EndInv
<1>2. ASSUME pc \in {"pinning", "headers", "body"}, FailsAt(2), UNCHANGED sound PROVE EndInv'
  <2>1. checks' = <<Passed(1), Failed(2)>>
    <3>1. checks = <<Passed(1)>> /\ checks' = Append(checks, Failed(2))
      BY <1>2 DEF FailsAt, RunInv, Failed
    <3> QED BY <3>1, Joined
  <2> QED BY <1>2, <2>1 DEF FailsAt, Ends, RunInv, EndInv
<1> QED BY <1>1, <1>2

\* The verdict on the answer.
LEMMA JudgeStep == RunInv /\ ProcessesOK /\ TalkOK /\ Judge => EndInv'
<1> SUFFICES ASSUME RunInv, ProcessesOK, TalkOK, Judge PROVE EndInv'
  OBVIOUS
<1>1. PICK d \in Documents, success \in BOOLEAN, fits \in BOOLEAN, signed \in BOOLEAN,
           bound \in BOOLEAN :
          LET outcomes == <<ReadJson(d) /\ success, fits, Signs(signed, bound)>>
          IN  /\ checks' = checks \o Judged(outcomes)
              /\ sound' = /\ sound /\ Within(d) /\ success /\ fits /\ signed /\ bound
                          /\ manifest.key # "weak" /\ manifest.key = KeyOf(server.who)
              /\ Ends(IF \A i \in 1..3 : outcomes[i] THEN "0" ELSE "1")
  BY DEF Judge
<1> DEFINE o == <<ReadJson(d) /\ success, fits, Signs(signed, bound)>>
<1>2. /\ o[1] <=> ReadJson(d) /\ success
      /\ o[2] <=> fits
      /\ o[3] <=> Signs(signed, bound)
  OBVIOUS
<1>3. /\ checks' = checks \o Judged(o)
      /\ exit' = IF \A i \in 1..3 : o[i] THEN "0" ELSE "1"
      /\ pc' = "stopping" /\ invokes' = 1 /\ checks = <<Passed(1)>>
  BY <1>1 DEF Ends, Judge, RunInv
<1> HIDE DEF o
<1>4. (\A i \in 1..3 : o[i]) <=> o[1] /\ o[2] /\ o[3]
  OBVIOUS
<1>5. sound' \in BOOLEAN
  BY <1>1
<1>6. ASSUME sound' PROVE ReadJson(d) /\ success /\ fits /\ Signs(signed, bound)
  BY <1>1, <1>6, DocumentsRead DEF Signs
<1>7. ASSUME ReadJson(d), success, fits, Signs(signed, bound) PROVE sound'
  <2>1. manifest.key = KeyOf(server.who) /\ manifest.key # "weak" /\ signed /\ bound
    BY <1>7 DEF Signs, KeyOf, ProcessesOK
  <2> QED BY <1>1, <1>7, <2>1, DocumentsRead DEF RunInv
<1>8. sound' <=> o[1] /\ o[2] /\ o[3]
  BY <1>2, <1>6, <1>7
<1>9. CASE ~o[1]
  <2>1. checks' = <<Passed(1), Failed(2)>>
    <3>1. Judged(o) = <<Failed(2)>>
      BY <1>9, JudgedIs
    <3> QED BY <1>3, <3>1, Joined
  <2> QED BY <1>3, <1>4, <1>5, <1>9, <2>1 DEF EndInv
<1>10. CASE o[1] /\ ~o[2]
  <2>1. checks' = <<Passed(1), Passed(2), Failed(3)>>
    <3>1. Judged(o) = <<Passed(2), Failed(3)>>
      BY <1>10, JudgedIs
    <3> QED BY <1>3, <3>1, Joined
  <2> QED BY <1>3, <1>4, <1>5, <1>8, <1>10, <2>1 DEF EndInv
<1>11. CASE o[1] /\ o[2] /\ ~o[3]
  <2>1. checks' = <<Passed(1), Passed(2), Passed(3), Failed(4)>>
    <3>1. Judged(o) = <<Passed(2), Passed(3), Failed(4)>>
      BY <1>11, JudgedIs
    <3>2. <<Passed(1)>> \o <<Passed(2), Passed(3), Failed(4)>> = <<Passed(1), Passed(2), Passed(3), Failed(4)>>
      BY JoinedFour
    <3> QED BY <1>3, <3>1, <3>2
  <2> QED BY <1>3, <1>4, <1>5, <1>8, <1>11, <2>1 DEF EndInv
<1>12. CASE o[1] /\ o[2] /\ o[3]
  <2>1. checks' = <<Passed(1), Passed(2), Passed(3), Passed(4)>>
    <3>1. Judged(o) = <<Passed(2), Passed(3), Passed(4)>>
      BY <1>12, JudgedIs
    <3>2. <<Passed(1)>> \o <<Passed(2), Passed(3), Passed(4)>> = <<Passed(1), Passed(2), Passed(3), Passed(4)>>
      BY JoinedFour
    <3> QED BY <1>3, <3>1, <3>2
  <2> QED BY <1>3, <1>4, <1>5, <1>8, <1>12, <2>1 DEF EndInv
<1> QED BY <1>9, <1>10, <1>11, <1>12

\* While the check runs, each of its steps keeps the report in form.
LEMMA RunStep == RunInv /\ ProcessesOK /\ TalkOK /\ [Next]_vars => (RunInv \/ EndInv)'
<1> SUFFICES ASSUME RunInv, ProcessesOK, TalkOK, [Next]_vars PROVE RunInv' \/ EndInv'
  OBVIOUS
<1>1. CASE Judge
  BY <1>1, JudgeStep
<1>2. CASE Headers \/ Chunk \/ RequestFails
  <2>1. pc \in {"pinning", "headers", "body"}
    BY <1>2 DEF Headers, Chunk, RequestFails
  <2>2. CASE FailsAt(2) /\ UNCHANGED sound
    BY <2>1, <2>2, FailedStep
  <2>3. CASE pc \in {"headers", "body"} /\ pc' \in {"headers", "body"}
             /\ UNCHANGED <<exit, checks, invokes, sound>>
    BY <2>3 DEF RunInv
  <2> QED BY <1>2, <2>2, <2>3 DEF Headers, Chunk, RequestFails, Goes
<1>3. CASE ReadFiles
  <2>1. PICK d \in Documents :
           /\ sound' = Within(d)
           /\ \/ ReadJson(d) /\ Goes("validating") /\ UNCHANGED <<checks, invokes>>
              \/ ~ReadJson(d) /\ Ends("1") /\ UNCHANGED checks
    BY <1>3 DEF ReadFiles
  <2>2. (ReadJson(d) <=> Within(d)) /\ Within(d) \in BOOLEAN
    BY DocumentsRead
  <2>3. CASE ReadJson(d)
    BY <1>3, <2>1, <2>2, <2>3 DEF ReadFiles, RunInv, Goes
  <2>4. CASE ~ReadJson(d)
    BY <1>3, <2>1, <2>2, <2>4 DEF ReadFiles, RunInv, EndInv, Ends
  <2> QED BY <2>3, <2>4
<1>4. CASE ValidateFields
  <2>1. PICK fields \in BOOLEAN, url \in Urls, key \in Keys \cup {"malformed"} :
           LET passes == fields /\ ParseTarget(url, TRUE) /\ key # "malformed"
           IN  /\ sound' = (sound /\ passes)
               /\ \/ passes /\ Goes("schemas") /\ UNCHANGED <<checks, invokes>>
                  \/ ~passes /\ FailsAt(1)
    BY <1>4 DEF ValidateFields
  <2>2. CASE fields /\ ParseTarget(url, TRUE) /\ key # "malformed"
    BY <1>4, <2>1, <2>2 DEF ValidateFields, RunInv, Goes
  <2>3. CASE ~(fields /\ ParseTarget(url, TRUE) /\ key # "malformed")
    BY <1>4, <2>1, <2>3, FailedStep DEF ValidateFields
  <2> QED BY <2>2, <2>3
<1>5. CASE ValidateSchemas
  <2>1. PICK s \in Schemas, fits \in BOOLEAN :
           /\ sound' = (sound /\ Supported(s) /\ fits)
           /\ \/ /\ ValidateSchema(s) /\ fits /\ Goes("pinning")
                 /\ checks' = <<Passed(1)>> /\ UNCHANGED invokes
              \/ ~(ValidateSchema(s) /\ fits) /\ FailsAt(1)
    BY <1>5 DEF ValidateSchemas, Passed, Steps
  <2>2. (ValidateSchema(s) <=> Supported(s)) /\ Supported(s) \in BOOLEAN
    BY SchemasValidated
  <2>3. CASE ValidateSchema(s) /\ fits
    BY <1>5, <2>1, <2>2, <2>3 DEF ValidateSchemas, RunInv, Goes
  <2>4. CASE ~(ValidateSchema(s) /\ fits)
    BY <1>5, <2>1, <2>2, <2>4, FailedStep DEF ValidateSchemas
  <2> QED BY <2>3, <2>4
<1>6. CASE Invoke
  <2>1. CASE Goes("headers") /\ invokes' = invokes + 1 /\ UNCHANGED <<checks, sound>>
    BY <1>6, <2>1 DEF Invoke, RunInv, Goes
  <2>2. CASE FailsAt(2) /\ UNCHANGED sound
    BY <1>6, <2>2, FailedStep DEF Invoke
  <2>3. CASE checks' = <<>> /\ Ends("raised") /\ UNCHANGED sound
    BY <1>6, <2>3 DEF Invoke, RunInv, EndInv, Ends
  <2> QED BY <1>6, <2>1, <2>2, <2>3 DEF Invoke
<1>7. CASE TimesOut
  BY <1>7 DEF TimesOut, Overdue, RunInv, EndInv, Ends
<1>8. CASE AgentStopped \/ HealthFails
  BY <1>8 DEF AgentStopped, HealthFails, RunInv, EndInv, Ends
<1>9. CASE HealthAsked \/ HealthAnswers \/ Popen
  BY <1>9 DEF HealthAsked, HealthAnswers, Popen, RunInv
<1>10. CASE UNCHANGED <<pc, checks, exit, invokes, sound>>
  BY <1>10 DEF RunInv
<1>11. ASSUME ~(Judge \/ Headers \/ Chunk \/ RequestFails \/ ReadFiles \/ ValidateFields
               \/ ValidateSchemas \/ Invoke \/ TimesOut \/ AgentStopped \/ HealthFails
               \/ HealthAsked \/ HealthAnswers \/ Popen)
       PROVE  UNCHANGED <<pc, checks, exit, invokes, sound>>
  <2>1. CASE Stop
    BY <2>1 DEF Stop, RunInv
  <2>2. CASE AgentServes \/ AgentEnds \/ OtherComesOrGoes \/ Trickle \/ Kill \/ Tick
    BY <2>2 DEF AgentServes, AgentEnds, OtherComesOrGoes, Trickle, Kill, Tick
  <2>3. CASE UNCHANGED vars
    BY <2>3 DEF vars
  <2> QED BY <1>11, <2>1, <2>2, <2>3 DEF Next, Environment, Program
<1> QED
  BY <1>1, <1>2, <1>3, <1>4, <1>5, <1>6, <1>7, <1>8, <1>9, <1>10, <1>11

\* Once it has ended, the report stays.
LEMMA EndStep == EndInv /\ [Next]_vars => EndInv'
<1> SUFFICES ASSUME EndInv, [Next]_vars PROVE EndInv'
  OBVIOUS
<1>1. pc \in {"stopping", "exited"}
  BY DEF EndInv
<1>2. pc' \in {"stopping", "exited"} /\ UNCHANGED <<checks, exit, invokes, sound>>
  <2>1. CASE Stop
    BY <2>1 DEF Stop
  <2>2. CASE AgentServes \/ AgentEnds \/ OtherComesOrGoes \/ Kill \/ Tick
    BY <1>1, <2>2 DEF AgentServes, AgentEnds, OtherComesOrGoes, Kill, Tick
  <2>3. CASE UNCHANGED vars
    BY <1>1, <2>3 DEF vars
  <2>4. ~(Judge \/ Headers \/ Chunk \/ RequestFails \/ Trickle \/ TimesOut \/ Invoke)
    BY <1>1 DEF Judge, Headers, Chunk, RequestFails, Trickle, TimesOut, Overdue, Invoke
  <2>5. ~(ReadFiles \/ ValidateFields \/ ValidateSchemas \/ AgentStopped \/ HealthFails
          \/ HealthAsked \/ HealthAnswers \/ Popen)
    BY <1>1 DEF ReadFiles, ValidateFields, ValidateSchemas, AgentStopped, HealthFails,
       HealthAsked, HealthAnswers, Popen
  <2> QED BY <2>1, <2>2, <2>3, <2>4, <2>5 DEF Next, Environment, Program
<1> QED BY <1>2 DEF EndInv

LEMMA CheckInvInit == Init => CheckInv
BY CheckBounds DEF Init, CheckInv, ProcessesOK, CountersOK, TalkOK, ReportInv, RunInv, AddressInv,
   Nobody, Keys, Addresses

LEMMA CheckInvStep == CheckInv /\ [Next]_vars => CheckInv'
<1> SUFFICES ASSUME CheckInv, [Next]_vars PROVE CheckInv'
  OBVIOUS
<1>1. ProcessesOK' /\ CountersOK' /\ TalkOK' /\ AddressInv'
  BY ProcessesStep, CountersStep, TalkStep, AddressStep DEF CheckInv, ReportInv
<1>2. (RunInv \/ EndInv)'
  BY RunStep, EndStep DEF CheckInv, ReportInv
<1> QED BY <1>1, <1>2 DEF CheckInv, ReportInv

LEMMA CheckInvariance == Spec => []CheckInv
<1> QED BY CheckInvInit, CheckInvStep, PTL DEF Spec

\* The form of a report.
LEMMA ReportForm ==
    ASSUME CheckInv
    PROVE  /\ checks \in Seq([id : {Steps[i] : i \in 1..4}, status : {"passed", "failed"}])
           /\ Len(checks) <= 4
           /\ \A i \in DOMAIN checks : checks[i].id = Steps[i]
           /\ \A i \in DOMAIN checks : i < Len(checks) => checks[i].status = "passed"
           /\ exit = "0" => Len(checks) = 4 /\ Last(checks).status = "passed"
<1> DEFINE R == [id : {Steps[i] : i \in 1..4}, status : {"passed", "failed"}]
<1>1. \A i \in 1..4 : Passed(i) \in R /\ Failed(i) \in R
  BY DEF Passed, Failed
<1>2. \A i \in 1..4 : /\ Passed(i).id = Steps[i] /\ Passed(i).status = "passed"
                      /\ Failed(i).id = Steps[i]
  BY DEF Passed, Failed
<1> HIDE DEF R
<1> DEFINE Form == /\ checks \in Seq(R) /\ Len(checks) <= 4
                   /\ \A i \in DOMAIN checks : checks[i].id = Steps[i]
                   /\ \A i \in DOMAIN checks : i < Len(checks) => checks[i].status = "passed"
                   /\ exit = "0" => Len(checks) = 4 /\ Last(checks).status = "passed"
<1>3. ASSUME checks = <<>>, exit # "0" PROVE Form
  BY <1>3
<1>4. ASSUME checks = <<Failed(1)>>, exit # "0" PROVE Form
  BY <1>1, <1>2, <1>4
<1>5. ASSUME checks = <<Passed(1)>>, exit # "0" PROVE Form
  BY <1>1, <1>2, <1>5
<1>6. ASSUME checks = <<Passed(1), Failed(2)>>, exit # "0" PROVE Form
  BY <1>1, <1>2, <1>6
<1>7. ASSUME checks = <<Passed(1), Passed(2), Failed(3)>>, exit # "0" PROVE Form
  BY <1>1, <1>2, <1>7
<1>8. ASSUME checks = <<Passed(1), Passed(2), Passed(3), Failed(4)>>, exit # "0" PROVE Form
  BY <1>1, <1>2, <1>8
<1>9. ASSUME checks = <<Passed(1), Passed(2), Passed(3), Passed(4)>> PROVE Form
  BY <1>1, <1>2, <1>9 DEF Last
<1> HIDE DEF Form
<1>10. Form
  BY <1>3, <1>4, <1>5, <1>6, <1>7, <1>8, <1>9 DEF CheckInv, ReportInv, RunInv, EndInv
<1> QED BY <1>10 DEF Form, R

\* Every report tells the steps in their order, all passed but perhaps the last,
\* and the check passes only with all four.
THEOREM ReportsAreOrdered == Spec => []ReportIsOrdered
<1>1. ASSUME CheckInv PROVE TypeOK
  <2>1. pc \in {"started", "ready", "polling", "reading", "validating", "schemas", "pinning",
                "headers", "body", "stopping", "exited"}
        /\ exit \in {"none", "0", "1", "raised"} /\ invokes \in {0, 1} /\ sound \in BOOLEAN
    <3>1. CASE RunInv
      BY <3>1 DEF RunInv
    <3>2. CASE EndInv
      BY <3>2 DEF EndInv
    <3> QED BY <1>1, <3>1, <3>2 DEF CheckInv, ReportInv
  <2> QED BY <1>1, <2>1, ReportForm DEF CheckInv, ProcessesOK, CountersOK, TalkOK, TypeOK
<1>2. CheckInv => ReportIsOrdered
  BY <1>1, ReportForm DEF ReportIsOrdered
<1> QED BY <1>2, CheckInvariance, PTL

\* A check passes only when one invoke was made, to an allowed address, and all
\* it judged follows the profile; and a step fails, but for the invoke, only
\* where something does not.
THEOREM ReportsAreDeserved == Spec => []ReportIsDeserved
<1>1. ASSUME CheckInv PROVE ReportIsDeserved
  <2>1. invokes \in {0, 1} /\ (exit = "0" => invokes = 1 /\ sound)
    BY <1>1 DEF CheckInv, ReportInv, RunInv, EndInv
  <2>2. \A i \in 1..4 : Passed(i).status = "passed" /\ Failed(i).id = Steps[i]
    BY DEF Passed, Failed
  <2>3. checks # <<>> /\ Last(checks).status = "failed" /\ Last(checks).id # "invoke" => ~sound
    <3>1. CASE checks \in {<<Passed(1)>>, <<Passed(1), Passed(2), Passed(3), Passed(4)>>}
      BY <2>2, <3>1 DEF Last
    <3>2. CASE checks = <<Passed(1), Failed(2)>>
      <4>1. Last(checks).id = "invoke"
        BY <2>2, <3>2 DEF Last, Steps
      <4> QED BY <4>1
    <3> QED BY <1>1, <3>1, <3>2 DEF CheckInv, ReportInv, RunInv, EndInv
  <2> QED BY <1>1, <2>1, <2>3 DEF CheckInv, ReportInv, AddressInv, ReportIsDeserved
<1> QED BY <1>1, CheckInvariance, PTL

=============================================================================
