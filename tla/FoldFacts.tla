----------------------------- MODULE FoldFacts -----------------------------
(***************************************************************************)
(* What the folds of the community modules compute.  MapThenFoldSet picks  *)
(* an element of the set, folds the rest and applies an operator to both;  *)
(* FoldLeft picks the greatest index of a sequence.  The recursive function*)
(* behind both exists for every finite set, and along a sequence it is a   *)
(* scan.  The module is instantiated with the operator and with the choice.*)
(***************************************************************************)
EXTENDS Integers, WellFoundedInduction, FiniteSetTheorems, TLAPS

CONSTANTS
  Op(_, _, _),   \* what is made of the rest, the element picked and a context
  Pick(_)        \* the element picked of a nonempty set

\* g is the recursive function of a fold over the subsets of S.
Unfolds(g, base, ctx, S) ==
  \A t \in SUBSET S :
    g[t] = IF t = {} THEN base ELSE Op(g[t \ {Pick(t)}], Pick(t), ctx)

Foldable(base, ctx, S) == \E V : \E g \in [SUBSET S -> V] : Unfolds(g, base, ctx, S)

\* acc[k] is what a pass over 1, ..., k makes of base.
Scans(acc, base, ctx, n) ==
  acc[0] = base /\ \A k \in 1 .. n : acc[k] = Op(acc[k - 1], k, ctx)

ScansTo(last, base, ctx, n) == \E acc : Scans(acc, base, ctx, n) /\ acc[n] = last

Picks(S) == \A t \in SUBSET S : t # {} => Pick(t) \in t

\* A set of subsets of a finite set has a minimal one.
LEMMA MinimalSubset ==
  ASSUME NEW S, IsFiniteSet(S), NEW Bad \in SUBSET (SUBSET S), Bad # {}
  PROVE  \E t \in Bad : \A u \in SUBSET t : u # t => u \notin Bad
<1> DEFINE Smaller == StrictSubsetOrdering(S)
<1>1. IsWellFoundedOn(Smaller, SUBSET S)
  <2>1. FiniteSubsetsOf(S) = SUBSET S
    BY FS_FiniteSubsetsOfFinite
  <2>2. QED BY <2>1, FS_StrictSubsetOrderingWellFounded
<1>2. \E t \in Bad : \A u \in Bad : ~ (<<u, t>> \in Smaller)
  <2> HIDE DEF Smaller
  <2> QED BY <1>1, WFMin
<1>3. PICK t \in Bad : \A u \in Bad : ~ (<<u, t>> \in Smaller)
  BY <1>2
<1>4. ASSUME NEW u \in SUBSET t, u # t, u \in Bad PROVE FALSE
  <2>1. <<u, t>> \in Smaller
    BY <1>3, <1>4 DEF StrictSubsetOrdering
  <2>2. QED BY <1>3, <1>4, <2>1
<1>5. QED BY <1>3, <1>4

\* Two recursive functions of one fold agree where both are defined.
LEMMA FoldsAgree ==
  ASSUME NEW S, IsFiniteSet(S), Picks(S), NEW base, NEW ctx,
         NEW g, Unfolds(g, base, ctx, S), NEW T, S \subseteq T,
         NEW h, Unfolds(h, base, ctx, T)
  PROVE  \A t \in SUBSET S : g[t] = h[t]
<1> DEFINE Bad == {t \in SUBSET S : g[t] # h[t]}
<1> SUFFICES ASSUME Bad # {} PROVE FALSE
  OBVIOUS
<1>1. PICK t \in Bad : \A u \in SUBSET t : u # t => u \notin Bad
  <2>1. Bad \in SUBSET (SUBSET S)
    OBVIOUS
  <2> HIDE DEF Bad
  <2>2. QED BY <2>1, MinimalSubset
<1>2. t \in SUBSET S /\ t \in SUBSET T /\ g[t] # h[t]
  BY <1>1
<1>3. t # {}
  BY <1>2 DEF Unfolds
<1>4. Pick(t) \in t
  BY <1>2, <1>3 DEF Picks
<1>5. g[t \ {Pick(t)}] = h[t \ {Pick(t)}]
  <2>1. t \ {Pick(t)} \in SUBSET t /\ t \ {Pick(t)} # t
    BY <1>4
  <2>2. t \ {Pick(t)} \notin Bad
    BY <1>1, <2>1
  <2>3. QED BY <1>2, <2>2
<1>6. g[t] = Op(g[t \ {Pick(t)}], Pick(t), ctx) /\ h[t] = Op(h[t \ {Pick(t)}], Pick(t), ctx)
  BY <1>2, <1>3 DEF Unfolds
<1>7. QED BY <1>2, <1>5, <1>6

\* The fold of a finite set is defined: each subset is folded over what is left
\* of it when its pick is taken out, and those folds agree.
LEMMA FoldExists ==
  ASSUME NEW S, IsFiniteSet(S), Picks(S), NEW base, NEW ctx
  PROVE  Foldable(base, ctx, S)
<1> DEFINE Bad == {t \in SUBSET S : ~Foldable(base, ctx, t)}
<1> SUFFICES ASSUME Bad # {} PROVE FALSE
  OBVIOUS
<1>1. PICK t \in Bad : \A u \in SUBSET t : u # t => u \notin Bad
  <2>1. Bad \in SUBSET (SUBSET S)
    OBVIOUS
  <2> HIDE DEF Bad
  <2>2. QED BY <2>1, MinimalSubset
<1>2. t \in SUBSET S /\ ~Foldable(base, ctx, t)
  BY <1>1
<1>3. ASSUME NEW u \in SUBSET t
      PROVE  /\ IsFiniteSet(u) /\ Picks(u)
             /\ u # {} => /\ Pick(u) \in u
                          /\ u \ {Pick(u)} \in SUBSET t /\ u \ {Pick(u)} # t
  <2>1. u \in SUBSET S
    BY <1>2
  <2>2. IsFiniteSet(u)
    BY <2>1, FS_Subset
  <2>3. Picks(u)
    BY <2>1 DEF Picks
  <2>4. QED BY <2>1, <2>2, <2>3 DEF Picks
<1> DEFINE G(u) == CHOOSE g : Unfolds(g, base, ctx, u)
           h == [u \in SUBSET t |->
                   IF u = {} THEN base
                   ELSE Op(G(u \ {Pick(u)})[u \ {Pick(u)}], Pick(u), ctx)]
           V == {h[u] : u \in SUBSET t}
<1>4. ASSUME NEW u \in SUBSET t, u # t PROVE Unfolds(G(u), base, ctx, u)
  <2>1. Foldable(base, ctx, u)
    <3>1. u \in SUBSET S /\ u \notin Bad
      BY <1>1, <1>2, <1>4
    <3>2. QED BY <3>1
  <2>2. \E g : Unfolds(g, base, ctx, u)
    BY <2>1 DEF Foldable
  <2>3. QED BY <2>2
\* Below t, h is what the fold of the smaller set says.
<1>5. ASSUME NEW w \in SUBSET t, w # t PROVE h[w] = G(w)[w]
  <2>1. Unfolds(G(w), base, ctx, w)
    BY <1>4, <1>5
  <2>2. CASE w = {}
    BY <2>1, <2>2 DEF Unfolds
  <2>3. CASE w # {}
    <3> DEFINE v == w \ {Pick(w)}
    <3>1. v \in SUBSET w /\ v \in SUBSET t /\ v # t /\ IsFiniteSet(v) /\ Picks(v)
      <4>1. v \in SUBSET t /\ v # t
        BY <1>3, <2>3
      <4>2. QED BY <1>3, <4>1
    <3>2. Unfolds(G(v), base, ctx, v)
      BY <1>4, <3>1
    <3>3. G(v)[v] = G(w)[v]
      <4> HIDE DEF v, G
      <4>1. \A x \in SUBSET v : G(v)[x] = G(w)[x]
        BY <2>1, <3>1, <3>2, FoldsAgree
      <4>2. QED BY <4>1
    <3>4. G(w)[w] = Op(G(w)[v], Pick(w), ctx)
      <4> HIDE DEF G
      <4> QED BY <2>1, <2>3 DEF Unfolds
    <3>5. h[w] = Op(G(v)[v], Pick(w), ctx)
      <4> HIDE DEF G
      <4> QED BY <2>3
    <3>6. QED
      <4> HIDE DEF G, h, v
      <4> QED BY <3>3, <3>4, <3>5
  <2>4. QED BY <2>2, <2>3
<1>6. Unfolds(h, base, ctx, t)
  <2> SUFFICES ASSUME NEW u \in SUBSET t
               PROVE  h[u] = IF u = {} THEN base ELSE Op(h[u \ {Pick(u)}], Pick(u), ctx)
    BY DEF Unfolds
  <2>1. CASE u = {}
    BY <2>1
  <2>2. CASE u # {}
    <3>1. u \ {Pick(u)} \in SUBSET t /\ u \ {Pick(u)} # t
      BY <1>3, <2>2
    <3>2. h[u \ {Pick(u)}] = G(u \ {Pick(u)})[u \ {Pick(u)}]
      <4> HIDE DEF G, h
      <4> QED BY <1>5, <3>1
    <3>3. h[u] = Op(G(u \ {Pick(u)})[u \ {Pick(u)}], Pick(u), ctx)
      <4> HIDE DEF G
      <4> QED BY <2>2
    <3>4. QED
      <4> HIDE DEF G, h
      <4> QED BY <2>2, <3>2, <3>3
  <2>3. QED BY <2>1, <2>2
<1>7. h \in [SUBSET t -> V]
  <2> HIDE DEF G
  <2> QED OBVIOUS
<1>8. Foldable(base, ctx, t)
  <2> HIDE DEF h, V
  <2> QED BY <1>6, <1>7 DEF Foldable
<1>9. QED BY <1>2, <1>8

\* In particular the fold over the positions of a sequence.
LEMMA IntervalFolds ==
  ASSUME NEW n \in Nat, Picks(1 .. n), NEW base, NEW ctx
  PROVE  Foldable(base, ctx, 1 .. n)
<1>1. IsFiniteSet(1 .. n)
  BY FS_Interval
<1>2. QED BY <1>1, FoldExists

\* Induction over 0 .. n for a set of numbers.
LEMMA SetInduction ==
  ASSUME NEW n \in Nat, NEW P, 0 \in P, \A k \in 1 .. n : k - 1 \in P => k \in P
  PROVE  0 .. n \subseteq P
<1> DEFINE Bad == (0 .. n) \ P
           L == {p \in Nat \X Nat : p[1] < p[2]}
<1> SUFFICES ASSUME Bad # {} PROVE FALSE
  OBVIOUS
<1>1. IsWellFoundedOn(L, Nat)
  <2>1. L = OpToRel(<, Nat)
    BY DEF OpToRel
  <2>2. QED BY <2>1, NatLessThanWellFounded, Zenon
<1>2. Bad \subseteq Nat
  OBVIOUS
<1>3. \E m \in Bad : \A k \in Bad : ~ (<<k, m>> \in L)
  <2> HIDE DEF Bad, L
  <2> QED BY <1>1, <1>2, WFMin
<1>4. PICK m \in Bad : \A k \in Bad : ~ (<<k, m>> \in L)
  BY <1>3
<1>5. m \in 1 .. n
  BY <1>4
<1>6. m - 1 \in P
  <2>1. m - 1 \in 0 .. n /\ <<m - 1, m>> \in L
    BY <1>5
  <2>2. QED BY <1>4, <2>1
<1>7. QED BY <1>4, <1>5, <1>6

\* When the pick is the greatest, the fold of 1 .. n is a scan from 1 to n.
LEMMA FoldScans ==
  ASSUME NEW n \in Nat, NEW base, NEW ctx, NEW g, Unfolds(g, base, ctx, 1 .. n),
         \A k \in 1 .. n : Pick(1 .. k) = k
  PROVE  ScansTo(g[1 .. n], base, ctx, n)
<1> DEFINE acc == [k \in 0 .. n |-> g[1 .. k]]
<1>1. acc[0] = base
  <2>1. 1 .. 0 = {} /\ 0 \in 0 .. n
    OBVIOUS
  <2>2. QED BY <2>1 DEF Unfolds
<1>2. ASSUME NEW k \in 1 .. n PROVE acc[k] = Op(acc[k - 1], k, ctx)
  <2>1. /\ (1 .. k) \in SUBSET (1 .. n) /\ (1 .. k) # {} /\ (1 .. k) \ {k} = 1 .. (k - 1)
        /\ k \in 0 .. n /\ k - 1 \in 0 .. n
    <3>1. (1 .. k) \ {k} = 1 .. (k - 1)
      OBVIOUS
    <3>2. (1 .. k) \in SUBSET (1 .. n) /\ k \in 1 .. k
      OBVIOUS
    <3>3. QED BY <3>1, <3>2
  <2>2. g[1 .. k] = Op(g[(1 .. k) \ {Pick(1 .. k)}], Pick(1 .. k), ctx)
    BY <2>1 DEF Unfolds
  <2>3. g[1 .. k] = Op(g[1 .. (k - 1)], k, ctx)
    BY <2>1, <2>2
  <2>4. QED BY <2>1, <2>3
<1>3. Scans(acc, base, ctx, n) /\ acc[n] = g[1 .. n]
  BY <1>1, <1>2 DEF Scans
<1>4. QED
  <2> HIDE DEF acc
  <2> QED BY <1>3 DEF ScansTo

\* The recursive function of a fold over S, as the community modules write it.
Folds(g, base, ctx, S) ==
  g = [t \in SUBSET S |-> IF t = {} THEN base ELSE Op(g[t \ {Pick(t)}], Pick(t), ctx)]

\* What such a fold makes of 1 .. n is what a scan makes of it.
LEMMA ChosenScans ==
  ASSUME NEW n \in Nat, Picks(1 .. n), NEW base, NEW ctx, \A k \in 1 .. n : Pick(1 .. k) = k
  PROVE  ScansTo((CHOOSE g : Folds(g, base, ctx, 1 .. n))[1 .. n], base, ctx, n)
<1>1. \E g : Folds(g, base, ctx, 1 .. n)
  <2>1. Foldable(base, ctx, 1 .. n)
    BY IntervalFolds
  <2>2. PICK V : \E g \in [SUBSET (1 .. n) -> V] : Unfolds(g, base, ctx, 1 .. n)
    BY <2>1 DEF Foldable
  <2>3. PICK g \in [SUBSET (1 .. n) -> V] : Unfolds(g, base, ctx, 1 .. n)
    BY <2>2
  <2>4. Folds(g, base, ctx, 1 .. n)
    BY <2>3 DEF Unfolds, Folds
  <2>5. QED BY <2>4
<1>2. ASSUME NEW g, Folds(g, base, ctx, 1 .. n) PROVE ScansTo(g[1 .. n], base, ctx, n)
  <2>1. Unfolds(g, base, ctx, 1 .. n)
    BY <1>2 DEF Unfolds, Folds
  <2>2. QED BY <2>1, FoldScans
<1>3. QED BY <1>1, <1>2

\* A nonempty set of numbers below a bound has a greatest one.
LEMMA GreatestExists ==
  ASSUME NEW n \in Nat, NEW t \in SUBSET (1 .. n), t # {}
  PROVE  \E x \in t : \A y \in t : x >= y
<1> DEFINE Max0(u) == \E x \in u : \A y \in u : x >= y
           P == {k \in 0 .. n : \A u \in SUBSET (1 .. k) : u # {} => Max0(u)}
<1>1. 0 \in P
  <2>1. 1 .. 0 = {} /\ 0 \in 0 .. n
    OBVIOUS
  <2>2. QED BY <2>1
<1>2. ASSUME NEW k \in 1 .. n, k - 1 \in P PROVE k \in P
  <2> SUFFICES ASSUME NEW u \in SUBSET (1 .. k), u # {} PROVE Max0(u)
    OBVIOUS
  <2>1. CASE k \in u
    BY <2>1
  <2>2. CASE k \notin u
    <3>1. u \in SUBSET (1 .. (k - 1))
      BY <2>2
    <3> HIDE DEF Max0
    <3>2. QED BY <1>2, <3>1
  <2>3. QED BY <2>1, <2>2
<1>3. n \in P
  <2>1. 0 .. n \subseteq P
    <3> HIDE DEF P
    <3> QED BY <1>1, <1>2, SetInduction
  <2>2. n \in 0 .. n
    OBVIOUS
  <2>3. QED BY <2>1, <2>2
<1>4. QED BY <1>3
=============================================================================
