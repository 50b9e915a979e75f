---------------------------- MODULE ReportProofs ----------------------------
(***************************************************************************)
(* The reports, for any table of days.  Four reports add up the same rows: *)
(* over the table, over a dictionary, over the runs of an ordered scan and *)
(* by status.  The sums are folds of the community modules, unfolded with  *)
(* FoldFacts; the scan is one, and its invariant says that the TOTAL rows  *)
(* so far and the run under way add up to the rows so far, and that in the *)
(* order of the names no employee comes back.                              *)
(***************************************************************************)
EXTENDS DayReports, FiniteSetTheorems, SequenceTheorems, TLAPS
-----------------------------------------------------------------------------
(* Sums                                                                    *)

\* SumFunctionOnSet(w, S) adds w at the elements of S, picked in some order.
AddAt(rest, x, w) == w[x] + rest
AnyOf(t) == CHOOSE x \in t : TRUE
Sums == INSTANCE FoldFacts WITH Op <- AddAt, Pick <- AnyOf

\* The IsFiniteSet of the instance is the one of FiniteSets.
LEMMA FiniteAlike == ASSUME NEW S PROVE IsFiniteSet(S) <=> Sums!IsFiniteSet(S)
BY DEF IsFiniteSet, Sums!IsFiniteSet

\* CHOOSE picks an element.
LEMMA AnyIsPicked == ASSUME NEW S PROVE Sums!Picks(S)
<1>1. ASSUME NEW t \in SUBSET S, t # {} PROVE AnyOf(t) \in t
  BY <1>1 DEF AnyOf
<1>2. QED BY <1>1 DEF Sums!Picks

\* Of the subsets of a finite set that break a rule one is minimal.
LEMMA MinimalOfFinite ==
  ASSUME NEW S, IsFiniteSet(S), NEW Bad \in SUBSET (SUBSET S), Bad # {}
  PROVE  \E t \in Bad : \A u \in SUBSET t : u # t => u \notin Bad
BY FiniteAlike, Sums!MinimalSubset

\* The sums of the subsets of a finite set are one recursive function.
LEMMA SumUnfolds ==
  ASSUME NEW S, IsFiniteSet(S), NEW w
  PROVE  \E g : Sums!Unfolds(g, 0, w, S) /\ \A t \in SUBSET S : SumFunctionOnSet(w, t) = g[t]
<1>1. PICK g : Sums!Unfolds(g, 0, w, S)
  <2>1. Sums!Foldable(0, w, S)
    BY AnyIsPicked, FiniteAlike, Sums!FoldExists
  <2>2. QED BY <2>1 DEF Sums!Foldable
<1>2. ASSUME NEW t \in SUBSET S PROVE SumFunctionOnSet(w, t) = g[t]
  <2> DEFINE Eq(h) == h = [u \in SUBSET t |->
                            IF u = {} THEN 0 ELSE w[AnyOf(u)] + h[u \ {AnyOf(u)}]]
  <2>1. SumFunctionOnSet(w, t) = (CHOOSE h : Eq(h))[t]
    BY DEF SumFunctionOnSet, FoldFunctionOnSet, MapThenFoldSet, AnyOf
  <2>2. Eq([u \in SUBSET t |-> g[u]])
    <3> DEFINE h == [u \in SUBSET t |-> g[u]]
    <3>1. ASSUME NEW u \in SUBSET t
          PROVE  h[u] = IF u = {} THEN 0 ELSE w[AnyOf(u)] + h[u \ {AnyOf(u)}]
      <4>1. g[u] = IF u = {} THEN 0 ELSE w[AnyOf(u)] + g[u \ {AnyOf(u)}]
        BY <1>1 DEF Sums!Unfolds, AddAt
      <4>2. QED BY <4>1
    <3>2. h = [u \in SUBSET t |-> h[u]]
      OBVIOUS
    <3> HIDE DEF h
    <3>3. Eq(h)
      BY <3>1, <3>2
    <3>4. QED BY <3>3 DEF h
  <2>3. ASSUME NEW h, Eq(h) PROVE h[t] = g[t]
    <3>1. Sums!Unfolds(h, 0, w, t)
      BY <2>3 DEF Sums!Unfolds, AddAt
    <3>2. Sums!Picks(t) /\ Sums!IsFiniteSet(t)
      BY AnyIsPicked, FiniteAlike, FS_Subset
    <3>3. \A u \in SUBSET t : h[u] = g[u]
      BY <1>1, <3>1, <3>2, Sums!FoldsAgree
    <3>4. QED BY <3>3
  <2>4. QED
    <3> HIDE DEF Eq
    <3> QED BY <2>1, <2>2, <2>3
<1>3. QED BY <1>1, <1>2

\* A sum of natural numbers is one, and any element may be added last.
LEMMA SumIsNat ==
  ASSUME NEW S, IsFiniteSet(S), NEW w, \A x \in S : w[x] \in Nat
  PROVE  /\ SumFunctionOnSet(w, {}) = 0
         /\ \A t \in SUBSET S : SumFunctionOnSet(w, t) \in Nat
         /\ \A t \in SUBSET S : \A x \in t :
              SumFunctionOnSet(w, t) = w[x] + SumFunctionOnSet(w, t \ {x})
<1>1. PICK g : Sums!Unfolds(g, 0, w, S) /\ \A t \in SUBSET S : SumFunctionOnSet(w, t) = g[t]
  BY SumUnfolds
<1>2. \A t \in SUBSET S : g[t] = IF t = {} THEN 0 ELSE w[AnyOf(t)] + g[t \ {AnyOf(t)}]
  BY <1>1 DEF Sums!Unfolds, AddAt
<1>3. \A t \in SUBSET S : t # {} => AnyOf(t) \in t
  BY DEF AnyOf
<1>4. ASSUME {t \in SUBSET S : g[t] \notin Nat} # {} PROVE FALSE
  <2> DEFINE Bad == {t \in SUBSET S : g[t] \notin Nat}
  <2>1. PICK t \in Bad : \A u \in SUBSET t : u # t => u \notin Bad
    <3>1. Bad \in SUBSET (SUBSET S) /\ Bad # {}
      BY <1>4
    <3> HIDE DEF Bad
    <3>2. QED BY <3>1, MinimalOfFinite
  <2>2. t \in SUBSET S /\ g[t] \notin Nat /\ t # {}
    <3>1. g[{}] = 0
      BY <1>2
    <3>2. t \in SUBSET S /\ g[t] \notin Nat
      BY <2>1
    <3>3. QED BY <3>1, <3>2
  <2> DEFINE x == AnyOf(t)
  <2>3. x \in t /\ g[t] = w[x] + g[t \ {x}]
    BY <1>2, <1>3, <2>2
  <2> HIDE DEF x
  <2>4. g[t \ {x}] \in Nat
    BY <2>1, <2>2, <2>3
  <2>5. w[x] \in Nat
    BY <2>2, <2>3
  <2>6. QED BY <2>2, <2>3, <2>4, <2>5
<1>5. \A t \in SUBSET S : g[t] \in Nat
  BY <1>4
<1>6. ASSUME {t \in SUBSET S : \E x \in t : g[t] # w[x] + g[t \ {x}]} # {} PROVE FALSE
  <2> DEFINE Bad == {t \in SUBSET S : \E x \in t : g[t] # w[x] + g[t \ {x}]}
  <2>1. PICK t \in Bad : \A u \in SUBSET t : u # t => u \notin Bad
    <3>1. Bad \in SUBSET (SUBSET S) /\ Bad # {}
      BY <1>6
    <3> HIDE DEF Bad
    <3>2. QED BY <3>1, MinimalOfFinite
  <2>2. PICK x \in t : g[t] # w[x] + g[t \ {x}]
    BY <2>1
  <2> DEFINE p == AnyOf(t)
  <2>3. t \in SUBSET S /\ p \in t /\ g[t] = w[p] + g[t \ {p}]
    BY <1>2, <1>3, <2>1, <2>2
  <2> HIDE DEF p
  <2>4. x # p
    BY <2>2, <2>3
  <2>5. g[t \ {p}] = w[x] + g[(t \ {p}) \ {x}]
    <3>1. t \ {p} \notin Bad /\ t \ {p} \in SUBSET S /\ x \in t \ {p}
      BY <2>1, <2>2, <2>3, <2>4
    <3>2. QED BY <3>1
  <2>6. g[t \ {x}] = w[p] + g[(t \ {x}) \ {p}]
    <3>1. t \ {x} \notin Bad /\ t \ {x} \in SUBSET S /\ p \in t \ {x}
      BY <2>1, <2>2, <2>3, <2>4
    <3>2. QED BY <3>1
  <2>7. (t \ {p}) \ {x} = (t \ {x}) \ {p}
    OBVIOUS
  <2>8. w[x] \in Nat /\ w[p] \in Nat /\ g[(t \ {x}) \ {p}] \in Nat
    BY <1>5, <2>2, <2>3
  <2> DEFINE r == g[(t \ {x}) \ {p}]
  <2>9. g[t] = w[p] + (w[x] + r) /\ g[t \ {x}] = w[p] + r
    BY <2>3, <2>5, <2>6, <2>7
  <2>10. r \in Nat
    BY <2>8
  <2> HIDE DEF r
  <2>11. w[p] + (w[x] + r) = w[x] + (w[p] + r)
    BY <2>8, <2>10
  <2>12. QED BY <2>2, <2>9, <2>11
<1>7. \A t \in SUBSET S : \A x \in t : g[t] = w[x] + g[t \ {x}]
  BY <1>6
<1>8. \A t \in SUBSET S : \A x \in t : t \ {x} \in SUBSET S
  OBVIOUS
<1>9. g[{}] = 0
  BY <1>2
<1>10. QED BY <1>1, <1>5, <1>7, <1>8, <1>9

\* Equal terms, equal sums.
LEMMA SumSame ==
  ASSUME NEW S, IsFiniteSet(S), NEW w, NEW v, \A x \in S : w[x] \in Nat /\ v[x] = w[x]
  PROVE  SumFunctionOnSet(w, S) = SumFunctionOnSet(v, S)
<1> DEFINE W(t) == SumFunctionOnSet(w, t)
           V(t) == SumFunctionOnSet(v, t)
           Bad == {t \in SUBSET S : W(t) # V(t)}
<1>1. /\ W({}) = 0 /\ V({}) = 0
      /\ \A t \in SUBSET S : \A x \in t : W(t) = w[x] + W(t \ {x}) /\ V(t) = v[x] + V(t \ {x})
  BY SumIsNat
<1> HIDE DEF W, V
<1>2. ASSUME Bad # {} PROVE FALSE
  <2>1. PICK t \in Bad : \A u \in SUBSET t : u # t => u \notin Bad
    <3>1. Bad \in SUBSET (SUBSET S)
      OBVIOUS
    <3> HIDE DEF Bad
    <3>2. QED BY <1>2, <3>1, MinimalOfFinite
  <2>2. t # {} /\ t \in SUBSET S /\ W(t) # V(t)
    BY <1>1, <2>1
  <2>3. PICK x \in t : TRUE
    BY <2>2
  <2>4. W(t \ {x}) = V(t \ {x})
    BY <2>1, <2>2, <2>3
  <2>5. QED BY <1>1, <2>2, <2>3, <2>4
<1>3. W(S) = V(S)
  BY <1>2
<1>4. QED BY <1>3 DEF W, V

\* The sum over two disjoint sets.
LEMMA SumUnion ==
  ASSUME NEW A, IsFiniteSet(A), NEW B, IsFiniteSet(B), A \cap B = {},
         NEW w, \A x \in A \cup B : w[x] \in Nat
  PROVE  SumFunctionOnSet(w, A \cup B) = SumFunctionOnSet(w, A) + SumFunctionOnSet(w, B)
<1> DEFINE W(t) == SumFunctionOnSet(w, t)
           Bad == {t \in SUBSET B : W(A \cup t) # W(A) + W(t)}
<1>0. IsFiniteSet(A \cup B)
  BY FS_Union
<1>1. /\ W({}) = 0 /\ \A t \in SUBSET (A \cup B) : W(t) \in Nat
      /\ \A t \in SUBSET (A \cup B) : \A x \in t : W(t) = w[x] + W(t \ {x})
  BY <1>0, SumIsNat
<1> HIDE DEF W
<1>2. ASSUME Bad # {} PROVE FALSE
  <2>1. PICK t \in Bad : \A u \in SUBSET t : u # t => u \notin Bad
    <3>1. Bad \in SUBSET (SUBSET B)
      OBVIOUS
    <3> HIDE DEF Bad
    <3>2. QED BY <1>2, <3>1, MinimalOfFinite
  <2>2. t \in SUBSET B /\ W(A \cup t) # W(A) + W(t)
    BY <2>1
  <2>3. t # {}
    <3>1. A \cup {} = A /\ W(A) \in Nat
      BY <1>1
    <3>2. W(A \cup {}) = W(A) + W({})
      BY <1>1, <3>1
    <3>3. QED BY <2>2, <3>2
  <2>4. PICK x \in t : TRUE
    BY <2>3
  <2>5. W(A \cup (t \ {x})) = W(A) + W(t \ {x})
    BY <2>1, <2>2, <2>4
  <2>6. (A \cup t) \ {x} = A \cup (t \ {x}) /\ A \cup t \in SUBSET (A \cup B) /\ x \in A \cup t
    BY <2>2, <2>4
  <2>7. W(A \cup t) = w[x] + W(A \cup (t \ {x}))
    BY <1>1, <2>6
  <2>8. W(t) = w[x] + W(t \ {x}) /\ W(A) \in Nat /\ W(t \ {x}) \in Nat /\ w[x] \in Nat
    BY <1>1, <2>2, <2>4
  <2>9. QED BY <2>2, <2>5, <2>7, <2>8
<1>3. W(A \cup B) = W(A) + W(B)
  BY <1>2
<1>4. QED BY <1>3 DEF W

\* A sum of ones counts.
LEMMA SumOnes ==
  ASSUME NEW S, IsFiniteSet(S), NEW w, \A x \in S : w[x] = 1
  PROVE  SumFunctionOnSet(w, S) = Cardinality(S)
<1> DEFINE W(t) == SumFunctionOnSet(w, t)
           Bad == {t \in SUBSET S : W(t) # Cardinality(t)}
<1>1. /\ W({}) = 0 /\ Cardinality({}) = 0
      /\ \A t \in SUBSET S : \A x \in t : W(t) = w[x] + W(t \ {x})
  BY SumIsNat, FS_EmptySet
<1> HIDE DEF W
<1>2. ASSUME Bad # {} PROVE FALSE
  <2>1. PICK t \in Bad : \A u \in SUBSET t : u # t => u \notin Bad
    <3>1. Bad \in SUBSET (SUBSET S)
      OBVIOUS
    <3> HIDE DEF Bad
    <3>2. QED BY <1>2, <3>1, MinimalOfFinite
  <2>2. t \in SUBSET S /\ W(t) # Cardinality(t) /\ t # {}
    BY <1>1, <2>1
  <2>3. PICK x \in t : TRUE
    BY <2>2
  <2>4. W(t \ {x}) = Cardinality(t \ {x})
    BY <2>1, <2>2, <2>3
  <2>5. IsFiniteSet(t)
    BY <2>2, FS_Subset
  <2>6. Cardinality(t \ {x}) = Cardinality(t) - 1 /\ Cardinality(t) \in Nat
    BY <2>3, <2>5, FS_RemoveElement, FS_CardinalityType
  <2>7. W(t) = 1 + W(t \ {x})
    BY <1>1, <2>2, <2>3
  <2>8. QED BY <2>2, <2>4, <2>6, <2>7
<1>3. W(S) = Cardinality(S)
  BY <1>2
<1>4. QED BY <1>3 DEF W

\* The days of finitely many rows, and their people, are finitely many.
LEMMA ColumnsAreFinite ==
  ASSUME NEW S, IsFiniteSet(S)
  PROVE  IsFiniteSet({k[1] : k \in S}) /\ IsFiniteSet({k[2] : k \in S})
<1>1. [k \in S |-> k[1]] \in Surjection(S, {k[1] : k \in S})
  BY DEF Surjection
<1>2. [k \in S |-> k[2]] \in Surjection(S, {k[2] : k \in S})
  BY DEF Surjection
<1>3. QED BY <1>1, <1>2, FS_Surjection

\* Rows added up per employee add up to the rows.
LEMMA SumOfParts ==
  ASSUME NEW S, IsFiniteSet(S), NEW w, \A k \in S : w[k] \in Nat,
         NEW v, \A u \in UserIds(S) : v[u] = SumFunctionOnSet(w, Of(S, u))
  PROVE  SumFunctionOnSet(v, UserIds(S)) = SumFunctionOnSet(w, S)
<1> DEFINE U == UserIds(S)
           In(V) == {k \in S : k[1] \in V}
           W(t) == SumFunctionOnSet(w, t)
           Z(V) == SumFunctionOnSet(v, V)
           Bad == {V \in SUBSET U : Z(V) # W(In(V))}
<1>1. /\ W({}) = 0 /\ \A t \in SUBSET S : W(t) \in Nat
  BY SumIsNat
<1>2. \A u \in U : Of(S, u) \in SUBSET S /\ v[u] = W(Of(S, u)) /\ v[u] \in Nat
  BY <1>1 DEF Of
<1>3. IsFiniteSet(U)
  BY ColumnsAreFinite DEF UserIds
<1>4. /\ Z({}) = 0
      /\ \A V \in SUBSET U : \A x \in V : Z(V) = v[x] + Z(V \ {x})
  <2> HIDE DEF U
  <2> QED BY <1>2, <1>3, SumIsNat
<1>5. ASSUME NEW V \in SUBSET U, NEW x \in V
      PROVE  W(In(V)) = W(Of(S, x)) + W(In(V \ {x}))
  <2> DEFINE A == Of(S, x)
             B == In(V \ {x})
  <2>1. In(V) = A \cup B /\ A \cap B = {} /\ A \in SUBSET S /\ B \in SUBSET S
    BY DEF Of
  <2> HIDE DEF A, B, In
  <2>2. IsFiniteSet(A) /\ IsFiniteSet(B)
    BY <2>1, FS_Subset
  <2>3. \A k \in A \cup B : w[k] \in Nat
    BY <2>1
  <2>4. W(A \cup B) = W(A) + W(B)
    BY <2>1, <2>2, <2>3, SumUnion
  <2>5. QED BY <2>1, <2>4 DEF A, B
<1>6. In({}) = {} /\ In(U) = S
  BY DEF UserIds
<1> HIDE DEF W, Z, In, U
<1>7. ASSUME Bad # {} PROVE FALSE
  <2>1. PICK V \in Bad : \A u \in SUBSET V : u # V => u \notin Bad
    <3>1. Bad \in SUBSET (SUBSET U)
      OBVIOUS
    <3> HIDE DEF Bad
    <3>2. QED BY <1>3, <1>7, <3>1, MinimalOfFinite
  <2>2. V \in SUBSET U /\ Z(V) # W(In(V)) /\ V # {}
    BY <1>1, <1>4, <1>6, <2>1
  <2>3. PICK x \in V : TRUE
    BY <2>2
  <2>4. Z(V \ {x}) = W(In(V \ {x}))
    BY <2>1, <2>2, <2>3
  <2>5. QED BY <1>2, <1>4, <1>5, <2>2, <2>3, <2>4
<1>8. Z(U) = W(S)
  BY <1>6, <1>7
<1>9. QED BY <1>8 DEF W, Z, U

\* A sum over one more position.
LEMMA SumOneMore ==
  ASSUME NEW n \in Nat, NEW w, NEW v, \A i \in 1 .. n : w[i] \in Nat /\ v[i] = w[i],
         v[n + 1] \in Nat
  PROVE  /\ SumFunctionOnSet(v, 1 .. (n + 1)) = SumFunctionOnSet(w, 1 .. n) + v[n + 1]
         /\ SumFunctionOnSet(w, 1 .. n) \in Nat
<1>1. IsFiniteSet(1 .. (n + 1)) /\ IsFiniteSet(1 .. n)
  BY FS_Interval
<1>2. \A i \in 1 .. (n + 1) : v[i] \in Nat
  <2>1. \A i \in 1 .. (n + 1) : i \in 1 .. n \/ i = n + 1
    OBVIOUS
  <2>2. QED BY <2>1
<1> DEFINE I == 1 .. n
           J == 1 .. (n + 1)
           x == n + 1
<1>3. J \ {x} = I /\ x \in J
  OBVIOUS
<1>4. IsFiniteSet(I) /\ IsFiniteSet(J) /\ (\A i \in J : v[i] \in Nat)
      /\ (\A i \in I : w[i] \in Nat /\ v[i] = w[i])
  BY <1>1, <1>2
<1> HIDE DEF I, J, x
<1>5. SumFunctionOnSet(v, J) = v[x] + SumFunctionOnSet(v, J \ {x}) /\ SumFunctionOnSet(w, I) \in Nat
  BY <1>3, <1>4, SumIsNat
<1>6. SumFunctionOnSet(w, I) = SumFunctionOnSet(v, I)
  BY <1>4, SumSame
<1>7. v[x] \in Nat
  BY <1>3, <1>4
<1>8. SumFunctionOnSet(v, J) = SumFunctionOnSet(w, I) + v[x]
  <2> DEFINE a == SumFunctionOnSet(w, I)
  <2>1. SumFunctionOnSet(v, J) = v[x] + a
    BY <1>3, <1>5, <1>6
  <2>2. a \in Nat
    BY <1>5
  <2> HIDE DEF a
  <2>3. v[x] + a = a + v[x]
    BY <1>7, <2>2
  <2>4. QED BY <2>1, <2>3 DEF a
<1>9. QED BY <1>5, <1>8 DEF I, J, x

\* TOTAL rows, and the sums of their columns.
TotalRow == [user : People, days : Nat, minutes : Nat]
DaysOf(t) == SumFunction([i \in DOMAIN t |-> t[i].days])
MinutesOf(t) == SumFunction([i \in DOMAIN t |-> t[i].minutes])

\* A TOTAL row more.
LEMMA TotalsGrow ==
  ASSUME NEW t \in Seq(TotalRow), NEW e \in TotalRow
  PROVE  /\ Append(t, e) \in Seq(TotalRow)
         /\ Append(t, e)[Len(t) + 1] = e /\ Len(Append(t, e)) = Len(t) + 1
         /\ DOMAIN Append(t, e) = 1 .. (Len(t) + 1) /\ DOMAIN t = 1 .. Len(t) /\ Len(t) \in Nat
         /\ (\A i \in DOMAIN t : Append(t, e)[i] = t[i] /\ t[i] \in TotalRow)
<1>1. /\ Append(t, e) \in Seq(TotalRow)
      /\ Append(t, e)[Len(t) + 1] = e /\ Len(Append(t, e)) = Len(t) + 1
      /\ (\A i \in 1 .. Len(t) : Append(t, e)[i] = t[i])
  BY AppendProperties
<1>2. DOMAIN t = 1 .. Len(t) /\ Len(t) \in Nat
  OBVIOUS
<1>3. \A i \in DOMAIN t : t[i] \in TotalRow
  BY <1>2, ElementOfSeq
<1>4. DOMAIN Append(t, e) = 1 .. (Len(t) + 1)
  BY <1>1
<1>5. QED BY <1>1, <1>2, <1>3, <1>4

\* It adds its days and its minutes.
LEMMA TotalsAddUp ==
  ASSUME NEW t \in Seq(TotalRow), NEW e \in TotalRow
  PROVE  /\ DaysOf(t) \in Nat /\ DaysOf(Append(t, e)) = DaysOf(t) + e.days
         /\ MinutesOf(t) \in Nat /\ MinutesOf(Append(t, e)) = MinutesOf(t) + e.minutes
<1> DEFINE r == Append(t, e)
           n == Len(t)
<1>1. /\ r[n + 1] = e /\ DOMAIN r = 1 .. (n + 1) /\ DOMAIN t = 1 .. n /\ n \in Nat
      /\ (\A i \in 1 .. n : r[i] = t[i] /\ t[i] \in TotalRow)
  <2>1. /\ Append(t, e)[Len(t) + 1] = e
        /\ DOMAIN Append(t, e) = 1 .. (Len(t) + 1) /\ DOMAIN t = 1 .. Len(t) /\ Len(t) \in Nat
        /\ (\A i \in DOMAIN t : Append(t, e)[i] = t[i] /\ t[i] \in TotalRow)
    BY TotalsGrow
  <2>2. QED BY <2>1
<1> HIDE DEF r, n
<1>2. e.days \in Nat /\ e.minutes \in Nat /\ (\A i \in 1 .. n : t[i].days \in Nat /\ t[i].minutes \in Nat)
  BY <1>1 DEF TotalRow
<1> DEFINE wd == [i \in 1 .. n |-> t[i].days]
           vd == [i \in 1 .. (n + 1) |-> r[i].days]
           wm == [i \in 1 .. n |-> t[i].minutes]
           vm == [i \in 1 .. (n + 1) |-> r[i].minutes]
<1>3. \A i \in 1 .. n : i \in 1 .. (n + 1)
  BY <1>1
<1>4. n + 1 \in 1 .. (n + 1)
  BY <1>1
<1>5. /\ \A i \in 1 .. n : wd[i] \in Nat /\ vd[i] = wd[i]
      /\ vd[n + 1] = e.days
      /\ \A i \in 1 .. n : wm[i] \in Nat /\ vm[i] = wm[i]
      /\ vm[n + 1] = e.minutes
  BY <1>1, <1>2, <1>3, <1>4
<1>6. /\ DaysOf(t) = SumFunctionOnSet(wd, 1 .. n) /\ DaysOf(r) = SumFunctionOnSet(vd, 1 .. (n + 1))
      /\ MinutesOf(t) = SumFunctionOnSet(wm, 1 .. n)
      /\ MinutesOf(r) = SumFunctionOnSet(vm, 1 .. (n + 1))
  BY <1>1 DEF DaysOf, MinutesOf, SumFunction
<1> HIDE DEF wd, vd, wm, vm
<1>7. /\ SumFunctionOnSet(vd, 1 .. (n + 1)) = SumFunctionOnSet(wd, 1 .. n) + vd[n + 1]
      /\ SumFunctionOnSet(wd, 1 .. n) \in Nat
  BY <1>1, <1>2, <1>5, SumOneMore
<1>8. /\ SumFunctionOnSet(vm, 1 .. (n + 1)) = SumFunctionOnSet(wm, 1 .. n) + vm[n + 1]
      /\ SumFunctionOnSet(wm, 1 .. n) \in Nat
  BY <1>1, <1>2, <1>5, SumOneMore
<1>9. QED BY <1>5, <1>6, <1>7, <1>8 DEF r

\* The first k rows.
Seen(s, k) == {s[i] : i \in 1 .. k}

\* An order of the rows of S has each of them once.
LEMMA OrderIsTotal ==
  ASSUME NEW S, IsFiniteSet(S), NEW s \in InRange(S)
  PROVE  /\ Cardinality(S) \in Nat /\ DOMAIN s = 1 .. Cardinality(S)
         /\ (\A k \in DOMAIN s : s[k] \in S)
         /\ Seen(s, 0) = {} /\ Seen(s, Cardinality(S)) = S
         /\ \A k \in DOMAIN s : /\ Seen(s, k) = Seen(s, k - 1) \cup {s[k]}
                                /\ s[k] \notin Seen(s, k - 1)
                                /\ Seen(s, k) \in SUBSET S /\ Seen(s, k - 1) \in SUBSET S
<1> DEFINE n == Cardinality(S)
<1>1. n \in Nat
  BY FS_CardinalityType
<1>2. s \in [1 .. n -> S] /\ (\A i, j \in 1 .. n : i # j => s[i] # s[j])
  BY DEF InRange, SetToSeqs
<1> HIDE DEF n
<1>3. \A x \in S : \E i \in 1 .. n : s[i] = x
  <2>1. s \in Injection(1 .. n, S)
    BY <1>2 DEF Injection, IsInjective
  <2>2. IsFiniteSet(1 .. n) /\ Cardinality(1 .. n) = n
    BY <1>1, FS_Interval
  <2>3. s \in Surjection(1 .. n, S)
    BY <2>1, <2>2, FS_Injection DEF n
  <2>4. QED BY <2>3 DEF Surjection
<1>4. Seen(s, 0) = {} /\ Seen(s, n) = S
  BY <1>1, <1>2, <1>3 DEF Seen
<1>5. ASSUME NEW k \in 1 .. n
      PROVE  /\ Seen(s, k) = Seen(s, k - 1) \cup {s[k]} /\ s[k] \notin Seen(s, k - 1)
             /\ Seen(s, k) \in SUBSET S /\ Seen(s, k - 1) \in SUBSET S
  <2>1. /\ \A i \in 1 .. k : i \in 1 .. n /\ (i = k \/ i \in 1 .. (k - 1))
        /\ \A i \in 1 .. (k - 1) : i \in 1 .. n /\ i # k /\ i \in 1 .. k
        /\ k \in 1 .. k
    BY <1>1
  <2>2. QED BY <1>2, <2>1 DEF Seen
<1>6. QED BY <1>1, <1>2, <1>4, <1>5 DEF n

-----------------------------------------------------------------------------
(* The table                                                               *)

\* A finite table of days; it is inductive by itself.
TableTyped ==
  /\ IsFiniteSet(DOMAIN attendance) /\ DOMAIN attendance \subseteq People \X Days
  /\ \A k \in DOMAIN attendance : /\ attendance[k].status \in Statuses
                                  /\ attendance[k].minutes \in 0 .. MaxMinutes

\* A row more adds its minutes.
LEMMA MinutesGrow ==
  ASSUME TableTyped, NEW T \in SUBSET (DOMAIN attendance)
  PROVE  /\ Minutes(T) \in Nat /\ Minutes({}) = 0
         /\ \A k \in (DOMAIN attendance) \ T :
              /\ attendance[k].minutes \in Nat
              /\ Minutes(T \cup {k}) = Minutes(T) + attendance[k].minutes
<1> DEFINE m == [k \in DOMAIN attendance |-> attendance[k].minutes]
           D == DOMAIN attendance
<1>1. (\A k \in D : m[k] \in Nat /\ m[k] = attendance[k].minutes) /\ IsFiniteSet(D)
  BY DayReportsAssumption DEF TableTyped
<1>2. \A t : Minutes(t) = SumFunctionOnSet(m, t)
  BY DEF Minutes
<1> HIDE DEF m, D
<1>3. /\ SumFunctionOnSet(m, {}) = 0
      /\ \A t \in SUBSET D : SumFunctionOnSet(m, t) \in Nat
      /\ \A t \in SUBSET D : \A x \in t :
           SumFunctionOnSet(m, t) = m[x] + SumFunctionOnSet(m, t \ {x})
  BY <1>1, SumIsNat
<1>4. Minutes(T) \in Nat /\ Minutes({}) = 0
  BY <1>2, <1>3 DEF D
<1>5. ASSUME NEW k \in D \ T
      PROVE  attendance[k].minutes \in Nat /\ Minutes(T \cup {k}) = Minutes(T) + attendance[k].minutes
  <2>1. T \cup {k} \in SUBSET D /\ k \in T \cup {k} /\ (T \cup {k}) \ {k} = T
    BY <1>5 DEF D
  <2>2. SumFunctionOnSet(m, T \cup {k}) = m[k] + SumFunctionOnSet(m, (T \cup {k}) \ {k})
    BY <1>3, <2>1
  <2>3. Minutes(T \cup {k}) = attendance[k].minutes + Minutes(T)
    BY <1>1, <1>2, <1>5, <2>1, <2>2
  <2>4. attendance[k].minutes \in Nat
    BY <1>1, <1>5
  <2>5. QED BY <1>4, <2>3, <2>4
<1>6. QED BY <1>4, <1>5 DEF D

-----------------------------------------------------------------------------
(* The scan of the zone report                                             *)

\* The scan of the zone report, as a fold over the positions of the rows.
RowAt(acc, k, s) == ZoneRow(acc, s[k])
Scan == INSTANCE FoldFacts WITH Op <- RowAt, Pick <- Max

\* FoldLeft picks the last position.
LEMMA LastIsPicked ==
  ASSUME NEW n \in Nat
  PROVE  Scan!Picks(1 .. n) /\ \A k \in 1 .. n : Max(1 .. k) = k
<1>1. ASSUME NEW t \in SUBSET (1 .. n), t # {} PROVE Max(t) \in t
  <2>1. \E x \in t : \A y \in t : x >= y
    BY <1>1, Scan!GreatestExists
  <2>2. QED BY <2>1 DEF Max
<1>2. ASSUME NEW k \in 1 .. n PROVE Max(1 .. k) = k
  <2>1. k \in 1 .. k /\ \A y \in 1 .. k : k >= y
    OBVIOUS
  <2>2. \A x \in 1 .. k : (\A y \in 1 .. k : x >= y) => x = k
    BY <2>1
  <2>3. QED BY <2>1, <2>2 DEF Max
<1>3. QED BY <1>1, <1>2 DEF Scan!Picks

\* Hence FoldLeft of ZoneRow is a scan of the rows in their order.
LEMMA RowsAreScanned ==
  ASSUME NEW b, NEW n \in Nat, DOMAIN b = 1 .. n, NEW base
  PROVE  Scan!ScansTo(FoldLeft(ZoneRow, base, b), base, b, n)
<1>1. FoldLeft(ZoneRow, base, b) = (CHOOSE g : Scan!Folds(g, base, b, 1 .. n))[1 .. n]
  BY DEF FoldLeft, MapThenFoldSet, Scan!Folds, RowAt
<1>2. QED BY <1>1, LastIsPicked, Scan!ChosenScans

\* The run of rows under way.
Running == [user : People \cup {NoOne}, days : Nat, minutes : Nat]

\* After k rows of s: whose run it is, and that the TOTAL rows and the run add
\* up to the rows so far.
RunsAddUp(acc, s, k) ==
  /\ acc \in [totals : Seq(TotalRow), current : Running]
  /\ k = 0 => acc = [totals |-> <<>>, current |-> NoTotal]
  /\ k > 0 => acc.current.user = s[k][1] /\ acc.current.days > 0
  /\ DaysOf(acc.totals) + acc.current.days = k
  /\ MinutesOf(acc.totals) + acc.current.minutes = Minutes(Seen(s, k))

\* A run with a row more.
Grown(c, x) == [c EXCEPT !.days = @ + 1, !.minutes = @ + x]

\* A run grows by a day and by the minutes of the row.
LEMMA RunGrows ==
  ASSUME NEW c, NEW a, NEW d \in Nat, NEW m \in Nat, NEW x \in Nat,
         c = [user |-> a, days |-> d, minutes |-> m]
  PROVE  Grown(c, x) = [user |-> a, days |-> d + 1, minutes |-> m + x]
<1>1. [c EXCEPT !.days = @ + 1] = [user |-> a, days |-> d + 1, minutes |-> m]
  OBVIOUS
<1>2. [c EXCEPT !.days = @ + 1, !.minutes = @ + x] = [[c EXCEPT !.days = @ + 1] EXCEPT !.minutes = @ + x]
  OBVIOUS
<1> DEFINE e == d + 1
<1>3. [[user |-> a, days |-> e, minutes |-> m] EXCEPT !.minutes = @ + x] =
        [user |-> a, days |-> e, minutes |-> m + x]
  <2> HIDE DEF e
  <2> QED OBVIOUS
<1>4. QED BY <1>1, <1>2, <1>3 DEF Grown

\* The first row of a run.
LEMMA RunStarts ==
  ASSUME NEW a, NEW x \in Nat
  PROVE  Grown([NoTotal EXCEPT !.user = a], x) = [user |-> a, days |-> 1, minutes |-> x]
<1> DEFINE c == [user |-> a, days |-> 0, minutes |-> 0]
<1>1. [NoTotal EXCEPT !.user = a] = c
  BY DEF NoTotal
<1>2. [c EXCEPT !.days = @ + 1] = [user |-> a, days |-> 1, minutes |-> 0]
  OBVIOUS
<1>3. [[user |-> a, days |-> 1, minutes |-> 0] EXCEPT !.minutes = @ + x] =
        [user |-> a, days |-> 1, minutes |-> x]
  OBVIOUS
<1>4. Grown(c, x) = [user |-> a, days |-> 1, minutes |-> x]
  BY <1>2, <1>3 DEF Grown
<1>5. QED BY <1>1, <1>4

\* A row of the same employee, and one of another.
LEMMA ZoneRowIs ==
  ASSUME NEW acc \in [totals : Seq(TotalRow), current : Running], NEW k,
         attendance[k].minutes \in Nat
  PROVE  /\ k[1] = acc.current.user =>
              ZoneRow(acc, k) = [totals |-> acc.totals,
                                 current |-> [user |-> k[1], days |-> acc.current.days + 1,
                                              minutes |-> acc.current.minutes + attendance[k].minutes]]
         /\ k[1] # acc.current.user =>
              ZoneRow(acc, k) = [totals |-> FlushTotal(acc),
                                 current |-> [user |-> k[1], days |-> 1,
                                              minutes |-> attendance[k].minutes]]
<1> DEFINE c == acc.current
           d == acc.current.days
           m == acc.current.minutes
           x == attendance[k].minutes
           o == [NoTotal EXCEPT !.user = k[1]]
<1>1. c = [user |-> c.user, days |-> d, minutes |-> m] /\ d \in Nat /\ m \in Nat /\ x \in Nat
  BY DEF Running
<1>3. /\ k[1] = c.user => ZoneRow(acc, k) = [totals |-> acc.totals,
                             current |-> Grown(c, x)]
      /\ k[1] # c.user => ZoneRow(acc, k) = [totals |-> FlushTotal(acc),
                             current |-> Grown(o, x)]
  BY DEF ZoneRow, Grown
<1> HIDE DEF c, d, m, x, o
<1>4. Grown(c, x) = [user |-> c.user, days |-> d + 1, minutes |-> m + x]
  BY <1>1, RunGrows
<1>5. Grown(o, x) = [user |-> k[1], days |-> 1, minutes |-> x]
  BY <1>1, RunStarts DEF o
<1>7. /\ k[1] = c.user => ZoneRow(acc, k) = [totals |-> acc.totals,
                             current |-> [user |-> k[1], days |-> d + 1, minutes |-> m + x]]
      /\ k[1] # c.user => ZoneRow(acc, k) = [totals |-> FlushTotal(acc),
                             current |-> [user |-> k[1], days |-> 1, minutes |-> x]]
  BY <1>3, <1>4, <1>5
<1>8. QED BY <1>7 DEF c, d, m, x

\* No TOTAL rows add up to nothing.
LEMMA NoTotalsAdd == DaysOf(<<>>) = 0 /\ MinutesOf(<<>>) = 0
<1>1. DOMAIN <<>> = {}
  OBVIOUS
<1>2. \A w : SumFunctionOnSet(w, {}) = 0
  BY FS_EmptySet, SumIsNat
<1>3. QED BY <1>1, <1>2 DEF DaysOf, MinutesOf, SumFunction

\* TOTAL rows add up to natural numbers.
LEMMA TotalsAreNat == ASSUME NEW t \in Seq(TotalRow) PROVE DaysOf(t) \in Nat /\ MinutesOf(t) \in Nat
<1>1. DOMAIN t = 1 .. Len(t) /\ Len(t) \in Nat
  OBVIOUS
<1>2. \A i \in DOMAIN t : t[i].days \in Nat /\ t[i].minutes \in Nat
  <2>1. \A i \in DOMAIN t : t[i] \in TotalRow
    BY <1>1, ElementOfSeq
  <2>2. QED BY <2>1 DEF TotalRow
<1> DEFINE D == DOMAIN t
           wd == [i \in D |-> t[i].days]
           wm == [i \in D |-> t[i].minutes]
<1>3. IsFiniteSet(D)
  BY <1>1, FS_Interval
<1>4. (\A i \in D : wd[i] \in Nat /\ wm[i] \in Nat) /\ DOMAIN wd = D /\ DOMAIN wm = D
  BY <1>2
<1>5. DaysOf(t) = SumFunctionOnSet(wd, D) /\ MinutesOf(t) = SumFunctionOnSet(wm, D)
  BY <1>4 DEF DaysOf, MinutesOf, SumFunction
<1> HIDE DEF D, wd, wm
<1>6. SumFunctionOnSet(wd, D) \in Nat
  BY <1>3, <1>4, SumIsNat
<1>7. SumFunctionOnSet(wm, D) \in Nat
  BY <1>3, <1>4, SumIsNat
<1>8. QED BY <1>5, <1>6, <1>7

\* What a flush adds.
LEMMA FlushAdds ==
  ASSUME NEW acc \in [totals : Seq(TotalRow), current : Running],
         acc.current.days > 0 => acc.current.user \in People,
         acc.current.days = 0 => acc.current.minutes = 0
  PROVE  /\ FlushTotal(acc) \in Seq(TotalRow)
         /\ DaysOf(FlushTotal(acc)) = DaysOf(acc.totals) + acc.current.days
         /\ MinutesOf(FlushTotal(acc)) = MinutesOf(acc.totals) + acc.current.minutes
         /\ DaysOf(acc.totals) \in Nat /\ MinutesOf(acc.totals) \in Nat
<1> DEFINE t == acc.totals
           c == acc.current
<1>1. t \in Seq(TotalRow) /\ c \in Running /\ c.days \in Nat /\ c.minutes \in Nat
  BY DEF Running
<1>2. FlushTotal(acc) = IF c.days = 0 THEN t ELSE Append(t, c)
  BY DEF FlushTotal
<1>3. c.days = 0 => c.minutes = 0
  OBVIOUS
<1>4. c.days # 0 => c \in TotalRow
  BY <1>1 DEF Running, TotalRow
<1> HIDE DEF t, c
<1>5. DaysOf(t) \in Nat /\ MinutesOf(t) \in Nat BY <1>1, TotalsAreNat
<1>6. c.days # 0 => /\ Append(t, c) \in Seq(TotalRow)
                    /\ DaysOf(Append(t, c)) = DaysOf(t) + c.days
                    /\ MinutesOf(Append(t, c)) = MinutesOf(t) + c.minutes
  BY <1>1, <1>4, TotalsAddUp, TotalsGrow
<1> DEFINE x == DaysOf(t)
           y == MinutesOf(t)
<1>7. x \in Nat /\ y \in Nat
  BY <1>5
<1>8. x + 0 = x /\ y + 0 = y
  <2> HIDE DEF x, y
  <2> QED BY <1>7
<1>9. QED
  <2>1. CASE c.days = 0
    BY <1>1, <1>2, <1>3, <1>5, <1>8, <2>1 DEF t, c
  <2>2. CASE c.days # 0
    BY <1>1, <1>2, <1>5, <1>6, <2>2 DEF t, c
  <2>3. QED BY <2>1, <2>2

\* One row more, by hand: the rows and minutes of its employee grow by it, those
\* of the others stay.
LEMMA OfGrows ==
  ASSUME TableTyped, NEW T \in SUBSET (DOMAIN attendance), NEW k \in (DOMAIN attendance) \ T
  PROVE  /\ k[1] \in People
         /\ UserIds(T \cup {k}) = UserIds(T) \cup {k[1]}
         /\ \A u : u # k[1] => Of(T \cup {k}, u) = Of(T, u)
         /\ \A u : u \notin UserIds(T) => Of(T, u) = {}
         /\ Cardinality(Of(T, k[1])) \in Nat /\ Minutes(Of(T, k[1])) \in Nat
         /\ Cardinality(Of(T \cup {k}, k[1])) = Cardinality(Of(T, k[1])) + 1
         /\ Minutes(Of(T \cup {k}, k[1])) = Minutes(Of(T, k[1])) + attendance[k].minutes
<1> DEFINE D == DOMAIN attendance
           A == Of(T, k[1])
<1>1. k[1] \in People
  BY DEF TableTyped
<1>2. /\ UserIds(T \cup {k}) = UserIds(T) \cup {k[1]}
      /\ \A u : u # k[1] => Of(T \cup {k}, u) = Of(T, u)
      /\ \A u : u \notin UserIds(T) => Of(T, u) = {}
  BY DEF UserIds, Of
<1>3. Of(T \cup {k}, k[1]) = A \cup {k} /\ k \notin A /\ A \in SUBSET D /\ k \in D \ A
  BY DEF Of
<1>4. IsFiniteSet(A)
  BY <1>3, FS_Subset DEF TableTyped
<1> HIDE DEF A, D
<1>5. Cardinality(A) \in Nat /\ Cardinality(A \cup {k}) = Cardinality(A) + 1
  BY <1>3, <1>4, FS_AddElement, FS_CardinalityType
<1>6. Minutes(A) \in Nat /\ Minutes(A \cup {k}) = Minutes(A) + attendance[k].minutes
  BY <1>3, MinutesGrow DEF D
<1>7. QED BY <1>1, <1>2, <1>3, <1>5, <1>6 DEF A

\* Where the scan starts.
Start == [totals |-> <<>>, current |-> NoTotal]

\* One row of the scan keeps the sums.
LEMMA ScanAddsUp ==
  ASSUME TableTyped, NEW S \in SUBSET (DOMAIN attendance), NEW s \in InRange(S),
         NEW k \in DOMAIN s, NEW acc, RunsAddUp(acc, s, k - 1)
  PROVE  RunsAddUp(ZoneRow(acc, s[k]), s, k)
<1> DEFINE T == Seen(s, k - 1)
           row == s[k]
           d == acc.current.days
           m == acc.current.minutes
           x == attendance[row].minutes
           u == acc.current.user
<1>1. IsFiniteSet(S)
  BY FS_Subset DEF TableTyped
<1>2. /\ k \in Nat /\ k > 0 /\ row \in S /\ row \notin T /\ T \in SUBSET S
      /\ Seen(s, k) = T \cup {row}
      /\ k - 1 > 0 => k - 1 \in DOMAIN s
      /\ \A i \in DOMAIN s : s[i] \in S
  BY <1>1, OrderIsTotal
<1>3. row[1] \in People /\ x \in Nat /\ Minutes(T) \in Nat
      /\ Minutes(Seen(s, k)) = Minutes(T) + x
  <2>1. row \in (DOMAIN attendance) \ T /\ T \in SUBSET (DOMAIN attendance)
    BY <1>2
  <2> HIDE DEF T, row
  <2>2. row[1] \in People
    BY <2>1 DEF TableTyped
  <2>3. x \in Nat /\ Minutes(T) \in Nat /\ Minutes(T \cup {row}) = Minutes(T) + x
    BY <2>1, MinutesGrow
  <2>4. QED BY <1>2, <2>2, <2>3
<1>4. /\ acc \in [totals : Seq(TotalRow), current : Running]
      /\ k - 1 = 0 => d = 0 /\ m = 0
      /\ k - 1 > 0 => u = s[k - 1][1] /\ d > 0
      /\ DaysOf(acc.totals) + d = k - 1
      /\ MinutesOf(acc.totals) + m = Minutes(T)
      /\ d \in Nat /\ m \in Nat /\ acc.totals \in Seq(TotalRow)
      /\ k - 1 = 0 => u = NoOne
  BY DEF RunsAddUp, Running, NoTotal
<1>5. d > 0 => u \in People
  <2>1. d > 0 => k - 1 > 0
    BY <1>2, <1>4
  <2>2. k - 1 > 0 => s[k - 1][1] \in People
    BY <1>2 DEF TableTyped
  <2>3. QED BY <1>4, <2>1, <2>2
<1>6. d = 0 => m = 0
  BY <1>2, <1>4
<1>7. DaysOf(acc.totals) \in Nat /\ MinutesOf(acc.totals) \in Nat
  BY <1>4, TotalsAreNat
<1>8. /\ row[1] = u => ZoneRow(acc, row) =
           [totals |-> acc.totals, current |-> [user |-> row[1], days |-> d + 1, minutes |-> m + x]]
      /\ row[1] # u => ZoneRow(acc, row) =
           [totals |-> FlushTotal(acc), current |-> [user |-> row[1], days |-> 1, minutes |-> x]]
  <2> HIDE DEF row
  <2> QED BY <1>3, <1>4, ZoneRowIs
<1>9. /\ FlushTotal(acc) \in Seq(TotalRow)
      /\ DaysOf(FlushTotal(acc)) = DaysOf(acc.totals) + d
      /\ MinutesOf(FlushTotal(acc)) = MinutesOf(acc.totals) + m
  BY <1>4, <1>5, <1>6, FlushAdds
<1>10. CASE row[1] = u
  <2> DEFINE z == ZoneRow(acc, row)
             a == DaysOf(acc.totals)
             b == MinutesOf(acc.totals)
  <2>1. z.totals = acc.totals /\ z.current = [user |-> row[1], days |-> d + 1, minutes |-> m + x]
    BY <1>8, <1>10
  <2>2. z \in [totals : Seq(TotalRow), current : Running]
    BY <1>3, <1>4, <1>8, <1>10 DEF Running
  <2>3. z.current.user = row[1] /\ z.current.days = d + 1 /\ z.current.minutes = m + x
    BY <2>1
  <2> HIDE DEF z, d, m, x, T
  <2>4. a + (d + 1) = k
    BY <1>2, <1>4, <1>7
  <2>5. b + (m + x) = Minutes(T) + x
    BY <1>3, <1>4, <1>7
  <2>6. k # 0 /\ d + 1 > 0
    BY <1>2, <1>4
  <2>7. RunsAddUp(z, s, k)
    BY <1>3, <2>1, <2>2, <2>3, <2>4, <2>5, <2>6 DEF RunsAddUp
  <2>8. QED BY <2>7 DEF z
<1>11. CASE row[1] # u
  <2> DEFINE z == ZoneRow(acc, row)
             a == DaysOf(acc.totals)
             b == MinutesOf(acc.totals)
  <2>1. z.totals = FlushTotal(acc) /\ z.current = [user |-> row[1], days |-> 1, minutes |-> x]
    BY <1>8, <1>11
  <2>2. z \in [totals : Seq(TotalRow), current : Running]
    BY <1>3, <1>8, <1>9, <1>11 DEF Running
  <2>3. z.current.user = row[1] /\ z.current.days = 1 /\ z.current.minutes = x
    BY <2>1
  <2> HIDE DEF z, d, m, x, T
  <2>4. (a + d) + 1 = k
    BY <1>2, <1>4, <1>7
  <2>5. (b + m) + x = Minutes(T) + x
    BY <1>4
  <2>6. k # 0 /\ 1 > 0
    BY <1>2
  <2>7. RunsAddUp(z, s, k)
    BY <1>3, <1>9, <2>1, <2>2, <2>3, <2>4, <2>5, <2>6 DEF RunsAddUp
  <2>8. QED BY <2>7 DEF z
<1>12. QED BY <1>10, <1>11

\* e says of its employee what the rows T say.
Entry(e, T) ==
  e.user \in UserIds(T) /\ e.days = Cardinality(Of(T, e.user)) /\ e.minutes = Minutes(Of(T, e.user))

\* No two employees of S have one name.
NoNamesakes(S) == \A u, v \in UserIds(S) : NameOf[u] = NameOf[v] => u = v

\* With a name each, the TOTAL rows and the run after k rows are one of each
\* employee met, and the names of the TOTAL rows come before the run's.
RunsApart(acc, s, k) ==
  /\ Entry(acc.current, Seen(s, k))
  /\ \A i \in DOMAIN acc.totals : /\ Entry(acc.totals[i], Seen(s, k))
                                  /\ acc.totals[i].user # acc.current.user
  /\ Len(acc.totals) + 1 = Cardinality(UserIds(Seen(s, k)))

\* What an entry says stays true while rows of others come.
LEMMA EntryStays ==
  ASSUME TableTyped, NEW T \in SUBSET (DOMAIN attendance), NEW k \in (DOMAIN attendance) \ T,
         NEW e, Entry(e, T), e.user # k[1]
  PROVE  Entry(e, T \cup {k})
<1>1. UserIds(T \cup {k}) = UserIds(T) \cup {k[1]} /\ Of(T \cup {k}, e.user) = Of(T, e.user)
  BY DEF UserIds, Of
<1>2. QED BY <1>1 DEF Entry

\* Employees are finitely many.
LEMMA UsersAreFinite ==
  ASSUME TableTyped, NEW T \in SUBSET (DOMAIN attendance)
  PROVE  IsFiniteSet(UserIds(T)) /\ UserIds(T) \subseteq People
<1>1. UserIds(T) \subseteq People
  BY DEF TableTyped, UserIds
<1>2. QED BY <1>1, FS_Subset, DayReportsAssumption

\* In the order of the database an employee whose run is over has no row left.
LEMMA RunsDoNotReturn ==
  ASSUME TableTyped, NEW S \in SUBSET (DOMAIN attendance), NEW s \in InRange(S), NoNamesakes(S),
         NEW k \in DOMAIN s, k > 1, s[k - 1][1] # s[k][1]
  PROVE  s[k][1] \notin UserIds(Seen(s, k - 1))
<1>1. IsFiniteSet(S)
  BY FS_Subset DEF TableTyped
<1> DEFINE n == Cardinality(S)
<1>2. /\ n \in Nat /\ DOMAIN s = 1 .. n
      /\ \A i \in DOMAIN s : s[i] \in S
  BY <1>1, OrderIsTotal
<1>3. Sorted(s)
  BY DEF InRange
<1> HIDE DEF n
<1>4. k \in 1 .. n /\ k - 1 \in 1 .. n /\ k - 1 < k
  BY <1>2
<1>5. \A i \in 1 .. n : s[i][1] \in People /\ NameOf[s[i][1]] \in Int /\ s[i][1] \in UserIds(S)
  BY <1>2, DayReportsAssumption DEF TableTyped, UserIds
<1> DEFINE Name(i) == NameOf[s[i][1]]
<1>6. \A i, j \in 1 .. n : i < j => Name(i) < Name(j) \/ Name(i) = Name(j)
  BY <1>2, <1>3 DEF Sorted
<1>7. Name(k - 1) # Name(k)
  BY <1>4, <1>5 DEF NoNamesakes
<1>8. Name(k - 1) < Name(k)
  BY <1>4, <1>6, <1>7
<1>9. ASSUME NEW i \in 1 .. (k - 1) PROVE s[i][1] # s[k][1]
  <2>1. i \in 1 .. n /\ (i < k - 1 \/ i = k - 1)
    BY <1>2, <1>4
  <2>2. Name(i) < Name(k - 1) \/ Name(i) = Name(k - 1)
    BY <1>4, <1>6, <2>1
  <2>3. Name(i) \in Int /\ Name(k - 1) \in Int /\ Name(k) \in Int
    BY <1>4, <1>5, <2>1
  <2>4. Name(i) < Name(k)
    <3> HIDE DEF Name
    <3> QED BY <1>8, <2>2, <2>3
  <2>5. Name(i) # Name(k)
    <3> HIDE DEF Name
    <3> QED BY <2>3, <2>4
  <2>6. QED BY <2>5
<1>10. QED BY <1>9 DEF UserIds, Seen

\* One row of the scan keeps the runs apart.
LEMMA ScanStaysApart ==
  ASSUME TableTyped, NEW S \in SUBSET (DOMAIN attendance), NEW s \in InRange(S), NoNamesakes(S),
         NEW k \in DOMAIN s, NEW acc, RunsAddUp(acc, s, k - 1),
         k > 1 => RunsApart(acc, s, k - 1)
  PROVE  RunsApart(ZoneRow(acc, s[k]), s, k)
<1> DEFINE T == Seen(s, k - 1)
           row == s[k]
           a == s[k][1]
           x == attendance[row].minutes
           z == ZoneRow(acc, row)
<1>1. IsFiniteSet(S)
  BY FS_Subset DEF TableTyped
<1>2. /\ k \in Nat /\ k > 0 /\ row \in S /\ row \notin T /\ T \in SUBSET S
      /\ Seen(s, k) = T \cup {row} /\ (k = 1 => T = {})
      /\ k > 1 => k - 1 \in DOMAIN s
  BY <1>1, OrderIsTotal
<1>3. row \in (DOMAIN attendance) \ T /\ T \in SUBSET (DOMAIN attendance)
  BY <1>2
<1>4. /\ a \in People /\ x \in Nat
      /\ UserIds(T \cup {row}) = UserIds(T) \cup {a}
      /\ \A u : u \notin UserIds(T) => Of(T, u) = {}
      /\ Cardinality(Of(T, a)) \in Nat /\ Minutes(Of(T, a)) \in Nat
      /\ Cardinality(Of(T \cup {row}, a)) = Cardinality(Of(T, a)) + 1
      /\ Minutes(Of(T \cup {row}, a)) = Minutes(Of(T, a)) + x
  <2> HIDE DEF T, row
  <2> QED BY <1>3, OfGrows, MinutesGrow DEF row
<1>5. /\ acc \in [totals : Seq(TotalRow), current : Running]
      /\ acc.totals \in Seq(TotalRow) /\ acc.current \in Running
      /\ k = 1 => acc = [totals |-> <<>>, current |-> NoTotal]
      /\ k > 1 => acc.current.user = s[k - 1][1] /\ acc.current.days > 0
  BY <1>2 DEF RunsAddUp
<1>6. /\ a = acc.current.user => z =
           [totals |-> acc.totals, current |-> [user |-> a, days |-> acc.current.days + 1,
                                                minutes |-> acc.current.minutes + x]]
      /\ a # acc.current.user => z =
           [totals |-> FlushTotal(acc), current |-> [user |-> a, days |-> 1, minutes |-> x]]
  <2> HIDE DEF row
  <2> QED BY <1>4, <1>5, ZoneRowIs DEF row
<1>7. IsFiniteSet(UserIds(T))
  <2> HIDE DEF T
  <2> QED BY <1>3, UsersAreFinite
<1>8. ASSUME NEW e, Entry(e, T), e.user # a PROVE Entry(e, Seen(s, k))
  <2> HIDE DEF T, row
  <2> QED BY <1>2, <1>3, <1>8, EntryStays DEF row
<1>9. a \notin UserIds(T) => Entry([user |-> a, days |-> 1, minutes |-> x], Seen(s, k))
  <2> HAVE a \notin UserIds(T)
  <2>1. Of(T, a) = {}
    BY <1>4
  <2>2. Cardinality(Of(T, a)) = 0 /\ Minutes(Of(T, a)) = 0
    <3> HIDE DEF T
    <3> QED BY <1>3, <2>1, MinutesGrow, FS_EmptySet
  <2> DEFINE e == [user |-> a, days |-> 1, minutes |-> x]
  <2>3. e.user = a /\ e.days = 1 /\ e.minutes = x
    OBVIOUS
  <2> HIDE DEF e, T, a, x, row
  <2>4. Entry(e, T \cup {row})
    BY <1>4, <2>2, <2>3 DEF Entry
  <2>5. QED BY <1>2, <2>4 DEF e
<1> HIDE DEF T, row, a, x, z
<1>10. CASE k = 1
  <2>1. acc.totals = <<>> /\ acc.current = NoTotal /\ NoTotal.user = NoOne /\ NoTotal.days = 0
    BY <1>5, <1>10 DEF NoTotal
  <2>2. a # acc.current.user /\ FlushTotal(acc) = <<>>
    BY <1>4, <2>1, DayReportsAssumption DEF FlushTotal
  <2>3. z.totals = <<>> /\ z.current = [user |-> a, days |-> 1, minutes |-> x]
    BY <1>6, <2>2
  <2>4. UserIds(T) = {} /\ UserIds(Seen(s, k)) = {a}
    BY <1>2, <1>4, <1>10 DEF UserIds
  <2>5. Entry(z.current, Seen(s, k))
    BY <1>9, <2>3, <2>4
  <2>6. Len(<<>>) = 0 /\ DOMAIN <<>> = {} /\ Cardinality({a}) = 1
    <3>1. Len(<<>>) = 0 /\ DOMAIN <<>> = {}
      OBVIOUS
    <3>2. Cardinality({a}) = 1
      BY FS_Singleton
    <3>3. QED BY <3>1, <3>2
  <2>7. RunsApart(z, s, k)
    BY <2>3, <2>4, <2>5, <2>6 DEF RunsApart
  <2>8. QED BY <2>7 DEF z, row
<1>11. CASE k > 1 /\ a = acc.current.user
  <2>1. RunsApart(acc, s, k - 1)
    BY <1>11
  <2>2. /\ Entry(acc.current, T)
        /\ \A i \in DOMAIN acc.totals : Entry(acc.totals[i], T) /\ acc.totals[i].user # a
        /\ Len(acc.totals) + 1 = Cardinality(UserIds(T))
    BY <1>11, <2>1 DEF RunsApart, T
  <2> DEFINE d == acc.current.days
             m == acc.current.minutes
  <2>3. /\ z.totals = acc.totals
        /\ z.current.user = a /\ z.current.days = d + 1 /\ z.current.minutes = m + x
    BY <1>6, <1>11
  <2>4. a \in UserIds(T) /\ d = Cardinality(Of(T, a)) /\ m = Minutes(Of(T, a))
    BY <1>11, <2>2 DEF Entry
  <2> HIDE DEF d, m
  <2>5. UserIds(Seen(s, k)) = UserIds(T)
    BY <1>2, <1>4, <2>4
  <2>6. Entry(z.current, Seen(s, k))
    BY <1>2, <1>4, <2>3, <2>4, <2>5 DEF Entry
  <2>7. RunsApart(z, s, k)
    BY <1>8, <2>2, <2>3, <2>5, <2>6 DEF RunsApart
  <2>8. QED BY <2>7 DEF z, row
<1>12. CASE k > 1 /\ a # acc.current.user
  <2>1. RunsApart(acc, s, k - 1)
    BY <1>12
  <2>2. /\ Entry(acc.current, T)
        /\ \A i \in DOMAIN acc.totals : Entry(acc.totals[i], T)
        /\ Len(acc.totals) + 1 = Cardinality(UserIds(T))
    BY <2>1 DEF RunsApart, T
  <2>3. a \notin UserIds(T)
    BY <1>5, <1>12, RunsDoNotReturn DEF T, a
  <2>4. /\ z.totals = Append(acc.totals, acc.current)
        /\ z.current = [user |-> a, days |-> 1, minutes |-> x]
    <3>1. FlushTotal(acc) = Append(acc.totals, acc.current)
      <4>1. acc.current.days # 0
        BY <1>5, <1>12 DEF Running
      <4>2. QED BY <4>1 DEF FlushTotal
    <3>2. QED BY <1>6, <1>12, <3>1
  <2>5. acc.current \in TotalRow
    <3>1. acc.current.user \in People
      BY <1>3, <2>2 DEF Entry, UserIds, TableTyped
    <3>2. QED BY <1>5, <3>1 DEF Running, TotalRow
  <2> DEFINE t == acc.totals
             r == Append(t, acc.current)
  <2>6. /\ r[Len(t) + 1] = acc.current /\ Len(r) = Len(t) + 1 /\ Len(t) \in Nat
        /\ DOMAIN r = 1 .. (Len(t) + 1) /\ DOMAIN t = 1 .. Len(t)
        /\ \A i \in DOMAIN t : r[i] = t[i]
    BY <1>5, <2>5, TotalsGrow
  <2> HIDE DEF r
  <2>7. \A i \in DOMAIN r : Entry(r[i], T) /\ r[i].user # a
    <3>1. \A i \in DOMAIN r : i \in DOMAIN t \/ i = Len(t) + 1
      BY <2>6
    <3>2. \A i \in DOMAIN r : Entry(r[i], T)
      BY <2>2, <2>6, <3>1
    <3>3. QED BY <2>3, <3>2 DEF Entry
  <2>8. Entry(z.current, Seen(s, k)) /\ z.current.user = a /\ z.totals = r
    BY <1>9, <2>3, <2>4 DEF r
  <2>9. Len(r) + 1 = Cardinality(UserIds(Seen(s, k)))
    <3>1. Cardinality(UserIds(T) \cup {a}) = Cardinality(UserIds(T)) + 1
      BY <1>7, <2>3, FS_AddElement
    <3>2. UserIds(Seen(s, k)) = UserIds(T) \cup {a}
      BY <1>2, <1>4
    <3>3. QED BY <2>2, <2>6, <3>1, <3>2
  <2>10. RunsApart(z, s, k)
    BY <1>8, <2>7, <2>8, <2>9 DEF RunsApart
  <2>11. QED BY <2>10 DEF z, row
<1>13. QED
  <2>1. k = 1 \/ k > 1
    BY <1>2
  <2>2. QED BY <1>10, <1>11, <1>12, <2>1

\* What the TOTAL rows of the zone report say: together the rows of the table,
\* and one of them for each employee when no two have one name.
LEMMA ZoneTotals ==
  ASSUME TableTyped, NEW S \in SUBSET (DOMAIN attendance), NEW s \in InRange(S)
  PROVE  /\ DaysOf(DistanceZonesData(s)) = Cardinality(S)
         /\ MinutesOf(DistanceZonesData(s)) = Minutes(S)
         /\ NoNamesakes(S) => /\ Len(DistanceZonesData(s)) = Cardinality(UserIds(S))
                              /\ \A i \in DOMAIN DistanceZonesData(s) :
                                   Entry(DistanceZonesData(s)[i], S)
<1> DEFINE n == Cardinality(S)
           last == FoldLeft(ZoneRow, Start, s)
<1>1. IsFiniteSet(S)
  BY FS_Subset DEF TableTyped
<1>2. /\ n \in Nat /\ DOMAIN s = 1 .. n /\ Seen(s, 0) = {} /\ Seen(s, n) = S
      /\ \A k \in DOMAIN s : s[k] \in S
  BY <1>1, OrderIsTotal
<1> HIDE DEF n
<1>3. Scan!ScansTo(last, Start, s, n)
  BY <1>2, RowsAreScanned
<1>4. PICK acc : Scan!Scans(acc, Start, s, n) /\ acc[n] = last
  BY <1>3 DEF Scan!ScansTo
<1> HIDE DEF last
<1>5. acc[0] = Start /\ \A k \in 1 .. n : acc[k] = ZoneRow(acc[k - 1], s[k])
  BY <1>4 DEF Scan!Scans, RowAt
<1> DEFINE Good(k) == /\ RunsAddUp(acc[k], s, k)
                      /\ NoNamesakes(S) /\ k > 0 => RunsApart(acc[k], s, k)
           P == {k \in 0 .. n : Good(k)}
<1>6. 0 \in P
  <2>1. Start \in [totals : Seq(TotalRow), current : Running]
    BY DEF Start, NoTotal, Running
  <2>2. Start.current.days = 0 /\ Start.current.minutes = 0 /\ Start.totals = <<>>
        /\ Start = [totals |-> <<>>, current |-> NoTotal]
    BY DEF Start, NoTotal
  <2>3. Minutes({}) = 0
    BY MinutesGrow
  <2>4. RunsAddUp(Start, s, 0)
    <3>1. DaysOf(Start.totals) + Start.current.days = 0
      BY <2>2, NoTotalsAdd
    <3>2. MinutesOf(Start.totals) + Start.current.minutes = Minutes(Seen(s, 0))
      <4>1. Minutes(Seen(s, 0)) = 0
        BY <1>2, <2>3
      <4>2. MinutesOf(Start.totals) + Start.current.minutes = 0
        BY <2>2, NoTotalsAdd
      <4>3. QED BY <4>1, <4>2
    <3>3. ~(0 > 0)
      OBVIOUS
    <3>4. QED BY <2>1, <2>2, <3>1, <3>2, <3>3 DEF RunsAddUp
  <2>5. 0 \in 0 .. n
    BY <1>2
  <2>6. QED BY <1>5, <2>4, <2>5
<1>7. ASSUME NEW k \in 1 .. n, k - 1 \in P PROVE k \in P
  <2>1. RunsAddUp(acc[k - 1], s, k - 1) /\ k \in DOMAIN s /\ acc[k] = ZoneRow(acc[k - 1], s[k])
    BY <1>2, <1>5, <1>7
  <2>2. RunsAddUp(acc[k], s, k)
    BY <2>1, ScanAddsUp
  <2>3. NoNamesakes(S) => RunsApart(acc[k], s, k)
    <3> HAVE NoNamesakes(S)
    <3>1. k > 1 => RunsApart(acc[k - 1], s, k - 1)
      BY <1>7
    <3>2. QED BY <2>1, <3>1, ScanStaysApart
  <2>4. k \in 0 .. n
    OBVIOUS
  <2>5. QED BY <2>2, <2>3, <2>4
<1>8. n \in P
  <2>1. 0 .. n \subseteq P
    <3> HIDE DEF P
    <3> QED BY <1>2, <1>6, <1>7, Scan!SetInduction
  <2>2. n \in 0 .. n
    BY <1>2
  <2>3. QED BY <2>1, <2>2
<1>9. RunsAddUp(last, s, n) /\ (NoNamesakes(S) /\ n > 0 => RunsApart(last, s, n))
  BY <1>4, <1>8
<1> DEFINE t == last.totals
           c == last.current
           d == c.days
           m == c.minutes
<1>10. /\ last \in [totals : Seq(TotalRow), current : Running]
       /\ t \in Seq(TotalRow) /\ c \in Running
       /\ n = 0 => last = [totals |-> <<>>, current |-> NoTotal]
       /\ n > 0 => c.user = s[n][1] /\ d > 0
       /\ DaysOf(t) + d = n
       /\ MinutesOf(t) + m = Minutes(S)
       /\ d \in Nat
  BY <1>2, <1>9 DEF RunsAddUp, Running
<1>11. d > 0 => c.user \in People
  <2>1. d > 0 => n > 0
    BY <1>2, <1>10 DEF NoTotal
  <2>2. n > 0 => n \in DOMAIN s
    BY <1>2
  <2>3. n > 0 => s[n][1] \in People
    BY <1>2, <2>2 DEF TableTyped
  <2>4. QED BY <1>10, <2>1, <2>3
<1>12. d = 0 => m = 0
  BY <1>2, <1>10 DEF NoTotal
<1>13. /\ DaysOf(FlushTotal(last)) = DaysOf(t) + d
       /\ MinutesOf(FlushTotal(last)) = MinutesOf(t) + m
  BY <1>10, <1>11, <1>12, FlushAdds
<1>14. DistanceZonesData(s) = FlushTotal(last)
  BY DEF DistanceZonesData, last, Start
<1>15. ASSUME NoNamesakes(S)
       PROVE  /\ Len(FlushTotal(last)) = Cardinality(UserIds(S))
              /\ \A i \in DOMAIN FlushTotal(last) : Entry(FlushTotal(last)[i], S)
  <2>1. CASE n = 0
    <3>1. FlushTotal(last) = <<>>
      BY <1>10, <2>1 DEF FlushTotal, NoTotal
    <3>2. UserIds(S) = {}
      BY <1>2, <2>1 DEF UserIds
    <3>3. Len(<<>>) = 0 /\ DOMAIN <<>> = {}
      OBVIOUS
    <3>4. Cardinality({}) = 0
      BY FS_EmptySet
    <3>5. QED BY <3>1, <3>2, <3>3, <3>4
  <2>2. CASE n > 0
    <3>1. RunsApart(last, s, n)
      BY <1>9, <1>15, <2>2
    <3>2. FlushTotal(last) = Append(t, c) /\ c \in TotalRow
      <4>1. d # 0 /\ c.user \in People
        BY <1>10, <1>11, <2>2
      <4>2. QED BY <1>10, <4>1 DEF FlushTotal, Running, TotalRow
    <3> DEFINE r == Append(t, c)
    <3>3. /\ r[Len(t) + 1] = c /\ Len(r) = Len(t) + 1
          /\ DOMAIN r = 1 .. (Len(t) + 1) /\ DOMAIN t = 1 .. Len(t) /\ Len(t) \in Nat
          /\ \A i \in DOMAIN t : r[i] = t[i]
      BY <1>10, <3>2, TotalsGrow
    <3>4. /\ Entry(c, S) /\ Len(t) + 1 = Cardinality(UserIds(S))
          /\ \A i \in DOMAIN t : Entry(t[i], S)
      BY <1>2, <3>1 DEF RunsApart
    <3> HIDE DEF r, t, c
    <3>5. \A i \in DOMAIN r : i \in DOMAIN t \/ i = Len(t) + 1
      BY <3>3
    <3>6. \A i \in DOMAIN r : Entry(r[i], S)
      BY <3>3, <3>4, <3>5
    <3>7. QED BY <3>2, <3>3, <3>4, <3>6 DEF r, t, c
  <2>3. QED BY <1>2, <2>1, <2>2
<1>16. QED BY <1>10, <1>13, <1>14, <1>15 DEF n

-----------------------------------------------------------------------------
(* The reports agree                                                       *)

\* The rows of the distance report add up to the rows.
LEMMA RowsAddUp ==
  ASSUME TableTyped, NEW S \in SUBSET (DOMAIN attendance)
  PROVE  /\ Cardinality(S) = SumFunction([u \in UserIds(S) |-> DistanceData(S)[u].days])
         /\ Minutes(S) = SumFunction([u \in UserIds(S) |-> DistanceData(S)[u].total])
<1> DEFINE U == UserIds(S)
           ones == [k \in S |-> 1]
           m == [k \in DOMAIN attendance |-> attendance[k].minutes]
           vd == [u \in U |-> DistanceData(S)[u].days]
           vm == [u \in U |-> DistanceData(S)[u].total]
<1>1. IsFiniteSet(S)
  BY FS_Subset DEF TableTyped
<1>2. \A u \in U : Of(S, u) \in SUBSET S /\ IsFiniteSet(Of(S, u))
  <2>1. \A u \in U : Of(S, u) \in SUBSET S
    BY DEF Of
  <2>2. QED BY <1>1, <2>1, FS_Subset
<1>3. \A u \in U : vd[u] = Cardinality(Of(S, u)) /\ vm[u] = Minutes(Of(S, u))
  BY DEF DistanceData
<1>4. (\A k \in S : ones[k] = 1) /\ (\A k \in S : m[k] \in Nat)
  BY DayReportsAssumption DEF TableTyped
<1>5. \A t : Minutes(t) = SumFunctionOnSet(m, t)
  BY DEF Minutes
<1>6. /\ SumFunction(vd) = SumFunctionOnSet(vd, U)
      /\ SumFunction(vm) = SumFunctionOnSet(vm, U)
  BY DEF SumFunction
<1> HIDE DEF ones, m, vd, vm
<1>7. \A u \in U : vd[u] = SumFunctionOnSet(ones, Of(S, u))
  BY <1>2, <1>3, <1>4, SumOnes
<1>8. \A u \in U : vm[u] = SumFunctionOnSet(m, Of(S, u))
  BY <1>3, <1>5
<1>9. \A k \in S : ones[k] \in Nat
  BY <1>4
<1>10. SumFunctionOnSet(vd, U) = SumFunctionOnSet(ones, S)
  BY <1>1, <1>7, <1>9, SumOfParts
<1>11. SumFunctionOnSet(vm, U) = SumFunctionOnSet(m, S)
  BY <1>1, <1>4, <1>8, SumOfParts
<1>12. SumFunctionOnSet(ones, S) = Cardinality(S)
  BY <1>1, <1>4, SumOnes
<1>13. Cardinality(S) = SumFunction(vd) /\ Minutes(S) = SumFunction(vm)
  BY <1>5, <1>6, <1>10, <1>11, <1>12
<1>14. QED BY <1>13 DEF vd, vm

\* The monthly summary of an employee is of the rows the distance report counts.
LEMMA SummaryIsOwn ==
  ASSUME TableTyped, NEW team \in TeamIds \cup {NoOne}, NEW u \in UserIds(Rows(team, NoOne, NoOne))
  PROVE  LET S == Rows(team, NoOne, NoOne)
             own == AttendanceSummary(u)
         IN  /\ own.minutes = DistanceData(S)[u].total
             /\ own.present + own.half + own.absent = DistanceData(S)[u].days
<1> DEFINE S == Rows(team, NoOne, NoOne)
           R == Of(S, u)
           Having(x) == {k \in R : attendance[k].status = x}
<1>1. S \in SUBSET (DOMAIN attendance) /\ u \in People /\ u # NoOne
  BY DayReportsAssumption DEF Rows, UserIds, TableTyped
<1>2. team # NoOne => TeamFor[u] = team
  BY DEF UserIds, Rows
<1>3. Rows(NoOne, u, NoOne) = R
  BY <1>1, <1>2 DEF Rows, Of
<1>4. \A x \in Statuses : Rows(NoOne, u, x) = Having(x)
  <2>1. \A x \in Statuses : x # NoOne
    BY DayReportsAssumption
  <2>2. QED BY <1>1, <1>2, <2>1 DEF Rows, Of
<1>5. R \in SUBSET (DOMAIN attendance) /\ IsFiniteSet(R)
  <2>1. R \in SUBSET (DOMAIN attendance)
    BY <1>1 DEF Of
  <2>2. QED BY <2>1, FS_Subset DEF TableTyped
<1> DEFINE A == Having("PRESENT")
           B == Having("HALF_DAY")
           C == Having("ABSENT")
<1>6. /\ R = (A \cup B) \cup C /\ A \cap B = {} /\ (A \cup B) \cap C = {}
      /\ A \in SUBSET R /\ B \in SUBSET R /\ C \in SUBSET R
  BY <1>5 DEF TableTyped, Statuses
<1>7. /\ Recorded(u, "PRESENT") = Cardinality(A) /\ Recorded(u, "HALF_DAY") = Cardinality(B)
      /\ Recorded(u, "ABSENT") = Cardinality(C)
  BY <1>4 DEF Recorded, Statuses
<1>8. DistanceData(S)[u] = [days |-> Cardinality(R), total |-> Minutes(R)]
  BY DEF DistanceData
<1> HIDE DEF A, B, C, R, S
<1>9. Cardinality(R) = Cardinality(A) + Cardinality(B) + Cardinality(C)
  <2>1. IsFiniteSet(A) /\ IsFiniteSet(B) /\ IsFiniteSet(C)
    BY <1>5, <1>6, FS_Subset
  <2>2. IsFiniteSet(A \cup B) /\ Cardinality(A \cup B) = Cardinality(A) + Cardinality(B)
    <3>1. IsFiniteSet(A \cup B) /\ Cardinality(A \cup B) =
             Cardinality(A) + Cardinality(B) - Cardinality(A \cap B)
      BY <2>1, FS_Union
    <3>2. Cardinality(A \cap B) = 0
      BY <1>6, FS_EmptySet
    <3>3. Cardinality(A) \in Nat /\ Cardinality(B) \in Nat
      BY <2>1, FS_CardinalityType
    <3>4. QED BY <3>1, <3>2, <3>3
  <2>3. Cardinality((A \cup B) \cup C) =
           Cardinality(A \cup B) + Cardinality(C) - Cardinality((A \cup B) \cap C)
    BY <2>1, <2>2, FS_Union
  <2>4. Cardinality((A \cup B) \cap C) = 0
    BY <1>6, FS_EmptySet
  <2>5. Cardinality(A) \in Nat /\ Cardinality(B) \in Nat /\ Cardinality(C) \in Nat
    BY <2>1, FS_CardinalityType
  <2>6. QED BY <1>6, <2>2, <2>3, <2>4, <2>5
<1>10. QED BY <1>3, <1>7, <1>8, <1>9 DEF AttendanceSummary, S

\* The reports agree on every table of days.
LEMMA TableAgrees == TableTyped => ReportsAgree
<1> SUFFICES ASSUME TableTyped, NEW team \in TeamIds \cup {NoOne}
             PROVE  LET S == Rows(team, NoOne, NoOne)
                        per == DistanceData(S)
                        Own(u) == AttendanceSummary(u) IN
    /\ AttendanceData(S).records = SumFunction([u \in UserIds(S) |-> per[u].days])
    /\ AttendanceData(S).minutes = SumFunction([u \in UserIds(S) |-> per[u].total])
    /\ \A u \in UserIds(S) : /\ Own(u).minutes = per[u].total
                              /\ Own(u).present + Own(u).half + Own(u).absent = per[u].days
    /\ \A s \in InRange(S) :
         LET totals == DistanceZonesData(s) IN
           /\ AttendanceData(S).records = SumFunction([i \in DOMAIN totals |-> totals[i].days])
           /\ AttendanceData(S).minutes = SumFunction([i \in DOMAIN totals |-> totals[i].minutes])
           /\ (\A u, v \in UserIds(S) : NameOf[u] = NameOf[v] => u = v) =>
                /\ Len(totals) = Cardinality(UserIds(S))
                /\ \A i \in DOMAIN totals :
                     per[totals[i].user] = [days |-> totals[i].days, total |-> totals[i].minutes]
  BY DEF ReportsAgree
<1> DEFINE S == Rows(team, NoOne, NoOne)
           per == DistanceData(S)
<1>1. S \in SUBSET (DOMAIN attendance)
  BY DEF Rows
<1>2. AttendanceData(S).records = Cardinality(S) /\ AttendanceData(S).minutes = Minutes(S)
  BY DEF AttendanceData
<1>3. \A u \in UserIds(S) :
        /\ AttendanceSummary(u).minutes = per[u].total
        /\ AttendanceSummary(u).present + AttendanceSummary(u).half + AttendanceSummary(u).absent
             = per[u].days
  BY SummaryIsOwn
<1> HIDE DEF S
<1>4. /\ Cardinality(S) = SumFunction([u \in UserIds(S) |-> per[u].days])
      /\ Minutes(S) = SumFunction([u \in UserIds(S) |-> per[u].total])
  BY <1>1, RowsAddUp
<1>5. ASSUME NEW s \in InRange(S)
      PROVE  /\ DaysOf(DistanceZonesData(s)) = Cardinality(S)
             /\ MinutesOf(DistanceZonesData(s)) = Minutes(S)
             /\ NoNamesakes(S) =>
                  /\ Len(DistanceZonesData(s)) = Cardinality(UserIds(S))
                  /\ \A i \in DOMAIN DistanceZonesData(s) :
                       per[DistanceZonesData(s)[i].user] =
                         [days |-> DistanceZonesData(s)[i].days,
                          total |-> DistanceZonesData(s)[i].minutes]
  <2> DEFINE t == DistanceZonesData(s)
  <2>1. /\ DaysOf(t) = Cardinality(S) /\ MinutesOf(t) = Minutes(S)
        /\ NoNamesakes(S) => /\ Len(t) = Cardinality(UserIds(S))
                             /\ \A i \in DOMAIN t : Entry(t[i], S)
    BY <1>1, ZoneTotals
  <2> HIDE DEF t
  <2>2. \A e : Entry(e, S) => per[e.user] = [days |-> e.days, total |-> e.minutes]
    BY DEF Entry, DistanceData
  <2>3. NoNamesakes(S) => \A i \in DOMAIN t :
                            per[t[i].user] = [days |-> t[i].days, total |-> t[i].minutes]
    <3> HIDE DEF per
    <3> QED BY <2>1, <2>2
  <2>4. QED BY <2>1, <2>3 DEF t
<1> HIDE DEF per
<1>6. QED BY <1>2, <1>3, <1>4, <1>5, Zenon DEF S, per, DaysOf, MinutesOf, NoNamesakes

\* A day opened and a status overridden leave a table of days.
LEMMA TableStaysTyped == TableTyped /\ [DayReportsNext]_tableVars => TableTyped'
<1> SUFFICES ASSUME TableTyped, [DayReportsNext]_tableVars PROVE TableTyped'
  OBVIOUS
<1>1. ASSUME NEW u \in People, NEW d \in Days, NEW n \in 0 .. MaxMinutes, OpenDay(u, d, n)
      PROVE  TableTyped'
  <2> DEFINE D == DOMAIN attendance
  <2>1. /\ DOMAIN attendance' = D \cup {<<u, d>>}
        /\ \A k \in D \cup {<<u, d>>} : attendance'[k] =
             IF k = <<u, d>> THEN [status |-> "PRESENT", minutes |-> n] ELSE attendance[k]
    BY <1>1 DEF OpenDay
  <2>2. IsFiniteSet(D \cup {<<u, d>>})
    BY FS_AddElement DEF TableTyped
  <2>3. \A k \in D \cup {<<u, d>>} : /\ attendance'[k].status \in Statuses
                                       /\ attendance'[k].minutes \in 0 .. MaxMinutes
    BY <2>1 DEF TableTyped, Statuses
  <2>4. QED BY <2>1, <2>2, <2>3 DEF TableTyped
<1>2. ASSUME NEW k \in DOMAIN attendance, NEW s \in Statuses, OverrideStatus(k, s)
      PROVE  TableTyped'
  <2>1. attendance' = [attendance EXCEPT ![k].status = s]
    BY <1>2 DEF OverrideStatus
  <2>2. DOMAIN attendance' = DOMAIN attendance
    BY <2>1
  <2>3. ASSUME NEW j \in DOMAIN attendance
        PROVE  attendance'[j].status \in Statuses /\ attendance'[j].minutes \in 0 .. MaxMinutes
    BY <2>1, <2>3 DEF TableTyped
  <2>4. QED BY <2>2, <2>3 DEF TableTyped
<1>3. ASSUME UNCHANGED attendance PROVE TableTyped'
  BY <1>3 DEF TableTyped
<1>4. QED BY <1>1, <1>2, <1>3 DEF DayReportsNext, GenerateReport, tableVars

\* ReportsAgree: the attendance, distance and zone reports and the monthly
\* summary count each row of the table once, in every order it may come.
THEOREM ReportsCountOnce == DayReportsSpec => []ReportsAgree
<1>1. DayReportsInit => TableTyped
  BY FS_EmptySet DEF DayReportsInit, TableTyped
<1>2. QED BY <1>1, TableStaysTyped, TableAgrees, PTL DEF DayReportsSpec

-----------------------------------------------------------------------------
(* Whom a report is about, and rates                                       *)

\* Who may read: the last report asked for is about people its reader may see.
WithinReach ==
  /\ asked.role = "EMPLOYEE" => asked.about \subseteq {asked.actor}
  /\ asked.role = "SUPERVISOR" =>
       asked.about \subseteq UNION {TeamScope(t) : t \in Supervised[asked.actor]}

\* A quotient is bounded by what the divisor goes into.
LEMMA QuotientIsBounded ==
  ASSUME NEW a \in Nat, NEW d \in Nat, d # 0, NEW q \in Nat, a <= q * d
  PROVE  a \div d <= q
<1> DEFINE x == a \div d
           y == a % d
<1>1. x \in Int /\ y \in 0 .. (d - 1) /\ a = d * x + y
  OBVIOUS
<1> HIDE DEF x, y
<1>2. ASSUME x >= q + 1 PROVE FALSE
  <2>1. d * x >= d * (q + 1)
    BY <1>1, <1>2
  <2>2. d * (q + 1) = d * q + d /\ d * q = q * d
    OBVIOUS
  <2>3. QED BY <1>1, <2>1, <2>2
<1>3. x <= q
  BY <1>1, <1>2
<1>4. QED BY <1>3 DEF x

\* What rows credit is at most two for each of them.
LEMMA CreditIsBounded ==
  ASSUME NEW S, IsFiniteSet(S)
  PROVE  Credit(S) \in Nat /\ Credit(S) <= 2 * Cardinality(S)
<1> DEFINE P == {k \in S : attendance[k].status = "PRESENT"}
           H == {k \in S : attendance[k].status = "HALF_DAY"}
<1>1. P \in SUBSET S /\ H \in SUBSET S /\ P \cap H = {} /\ (P \cup H) \in SUBSET S
  OBVIOUS
<1>2. Credit(S) = 2 * Cardinality(P) + Cardinality(H)
  BY DEF Credit
<1> HIDE DEF P, H
<1>3. IsFiniteSet(P) /\ IsFiniteSet(H) /\ Cardinality(P \cup H) <= Cardinality(S)
  BY <1>1, FS_Subset
<1>4. Cardinality(P \cup H) = Cardinality(P) + Cardinality(H) - Cardinality(P \cap H)
  BY <1>3, FS_Union
<1>5. Cardinality(P \cap H) = 0
  BY <1>1, FS_EmptySet
<1>6. Cardinality(P) \in Nat /\ Cardinality(H) \in Nat /\ Cardinality(S) \in Nat
  BY <1>3, FS_CardinalityType
<1>7. QED BY <1>2, <1>3, <1>4, <1>5, <1>6

\* The rows of people on days are at most their product.
LEMMA RowsAreBounded ==
  ASSUME NEW S, NEW U, NEW D, IsFiniteSet(U), IsFiniteSet(D), S \subseteq U \X D
  PROVE  IsFiniteSet(S) /\ Cardinality(S) <= Cardinality(U) * Cardinality(D)
<1>1. IsFiniteSet(U \X D) /\ Cardinality(U \X D) = Cardinality(U) * Cardinality(D)
  BY FS_Product
<1>2. S \in SUBSET (U \X D)
  OBVIOUS
<1>3. QED BY <1>1, <1>2, FS_Subset

\* The rates and absences of a team.
LEMMA RatesAreBounded ==
  ASSUME TableTyped, NEW t
  PROVE  /\ TeamRate(t) <= 2000
         /\ \A u \in Counted(t) : MemberRate(t, u) <= 2000 /\ DerivedAbsent(t, u) <= WorkingDays(t)
<1> DEFINE R == Rows(t, NoOne, NoOne)
           D == {k[2] : k \in R}
           U == UserIds(R)
           C == Counted(t)
           w == Cardinality(D)
           c == Cardinality(C)
<1>1. R \in SUBSET (DOMAIN attendance) /\ IsFiniteSet(R)
  <2>1. R \in SUBSET (DOMAIN attendance)
    BY DEF Rows
  <2>2. QED BY <2>1, FS_Subset DEF TableTyped
<1>2. R \subseteq U \X D
  BY <1>1 DEF TableTyped, UserIds
<1>3. IsFiniteSet(U) /\ IsFiniteSet(D)
  <2> HIDE DEF R
  <2> QED BY <1>1, ColumnsAreFinite DEF UserIds
<1>4. IsFiniteSet(C) /\ U \subseteq C
  <2>1. TeamMembers(t) \in SUBSET People /\ IsFiniteSet(People)
    BY DayReportsAssumption DEF TeamMembers
  <2>2. IsFiniteSet(TeamMembers(t))
    BY <2>1, FS_Subset
  <2>3. C = TeamMembers(t) \cup U
    BY DEF Counted
  <2> HIDE DEF C, U
  <2>4. QED BY <1>3, <2>2, <2>3, FS_Union
<1>5. w \in Nat /\ c \in Nat /\ w = WorkingDays(t)
  <2>1. w = WorkingDays(t)
    BY DEF WorkingDays
  <2>2. QED BY <1>3, <1>4, <2>1, FS_CardinalityType
<1>6. Credit(R) \in Nat /\ Credit(R) <= 2 * (c * w)
  <2> HIDE DEF R, U, D, C
  <2>1. R \subseteq C \X D
    BY <1>2, <1>4
  <2>2. Cardinality(R) <= c * w
    BY <1>3, <1>4, <2>1, RowsAreBounded
  <2>3. Credit(R) \in Nat /\ Credit(R) <= 2 * Cardinality(R) /\ Cardinality(R) \in Nat
    BY <1>1, CreditIsBounded, FS_CardinalityType
  <2>4. c * w \in Nat
    BY <1>5
  <2> HIDE DEF c, w
  <2>5. QED BY <2>2, <2>3, <2>4
<1>7. TeamRate(t) <= 2000
  <2> DEFINE m == Max({c, 1})
             d == m * w
  <2>1. TeamRate(t) = IF d = 0 THEN 0 ELSE (1000 * Credit(R)) \div d
    BY <1>5 DEF TeamRate
  <2> HIDE DEF R, C, c, w
  <2>2. m \in Nat /\ m >= c
    <3>1. CASE c >= 1
      <4>1. \A x \in {c, 1} : (\A y \in {c, 1} : x >= y) => x = c
        BY <1>5, <3>1
      <4>2. \A y \in {c, 1} : c >= y
        BY <1>5, <3>1
      <4>3. QED BY <1>5, <4>1, <4>2 DEF Max
    <3>2. CASE c = 0
      <4>1. \A x \in {c, 1} : (\A y \in {c, 1} : x >= y) => x = 1
        BY <3>2
      <4>2. \A y \in {c, 1} : 1 >= y
        BY <3>2
      <4>3. m = 1
        BY <4>1, <4>2 DEF Max
      <4>4. QED BY <3>2, <4>3
    <3>3. QED BY <1>5, <3>1, <3>2
  <2> HIDE DEF m
  <2>3. d \in Nat /\ c * w <= d /\ c * w \in Nat
    BY <1>5, <2>2
  <2> HIDE DEF d
  <2>4. CASE d # 0
    <3>1. 1000 * Credit(R) \in Nat /\ 1000 * Credit(R) <= 2000 * d
      BY <1>6, <2>3
    <3>2. (1000 * Credit(R)) \div d <= 2000
      BY <2>3, <2>4, <3>1, QuotientIsBounded
    <3>3. QED BY <2>1, <2>4, <3>2
  <2>5. QED BY <2>1, <2>4
<1>8. ASSUME NEW u \in C PROVE MemberRate(t, u) <= 2000 /\ DerivedAbsent(t, u) <= WorkingDays(t)
  <2> DEFINE O == Of(R, u)
  <2>1. IsFiniteSet(O) /\ Credit(O) \in Nat /\ Credit(O) <= 2 * w
    <3>1. O \subseteq {u} \X D
      BY <1>2 DEF Of
    <3> HIDE DEF O, D
    <3>2. IsFiniteSet({u}) /\ Cardinality({u}) = 1
      BY FS_Singleton
    <3>3. IsFiniteSet(O) /\ Cardinality(O) <= Cardinality({u}) * Cardinality(D)
      BY <1>3, <3>1, <3>2, RowsAreBounded
    <3>4. Cardinality(O) <= w /\ Cardinality(O) \in Nat
      BY <1>5, <3>2, <3>3, FS_CardinalityType
    <3> HIDE DEF w
    <3>5. QED BY <1>5, <3>3, <3>4, CreditIsBounded
  <2>2. /\ MemberRate(t, u) = IF w = 0 THEN 0 ELSE (1000 * Credit(O)) \div w
        /\ DerivedAbsent(t, u) = IF w = 0 THEN 0 ELSE Max({0, w - Credit(O) \div 2})
    <3>1. O = Of(Rows(t, NoOne, NoOne), u)
      OBVIOUS
    <3> HIDE DEF O, w
    <3>2. MemberRate(t, u) = IF w = 0 THEN 0 ELSE (1000 * Credit(O)) \div w
      BY <1>5, <3>1 DEF MemberRate
    <3>3. DerivedAbsent(t, u) = IF w = 0 THEN 0 ELSE Max({0, w - Credit(O) \div 2})
      BY <1>5, <3>1 DEF DerivedAbsent
    <3>4. QED BY <3>2, <3>3
  <2> HIDE DEF O, R, D, w
  <2>3. MemberRate(t, u) <= 2000
    <3>1. CASE w # 0
      <4>1. 1000 * Credit(O) \in Nat /\ 1000 * Credit(O) <= 2000 * w
        BY <1>5, <2>1
      <4>2. (1000 * Credit(O)) \div w <= 2000
        BY <1>5, <3>1, <4>1, QuotientIsBounded
      <4>3. QED BY <2>2, <3>1, <4>2
    <3>2. QED BY <2>2, <3>1
  <2>4. DerivedAbsent(t, u) <= w
    <3> DEFINE h == w - Credit(O) \div 2
    <3>1. h \in Int /\ h <= w
      BY <1>5, <2>1
    <3>2. DerivedAbsent(t, u) = IF w = 0 THEN 0 ELSE Max({0, h})
      BY <2>2
    <3> HIDE DEF h
    <3>3. Max({0, h}) \in {0, h}
      <4>1. \E x \in {0, h} : \A y \in {0, h} : x >= y
        BY <3>1
      <4>2. QED BY <4>1 DEF Max
    <3>4. QED BY <1>5, <3>1, <3>2, <3>3
  <2>5. QED BY <1>5, <2>3, <2>4
<1>9. QED BY <1>7, <1>8

\* Whom a report may be about.
LEMMA AuthorizeClamps ==
  ASSUME NEW actor \in People, NEW role \in Roles, NEW type, NEW team,
         NEW user \in People \cup {NoOne}
  PROVE  /\ role = "EMPLOYEE" => Authorize(actor, role, type, team, user) \subseteq {actor}
         /\ role = "SUPERVISOR" =>
              Authorize(actor, role, type, team, user) \subseteq
                UNION {TeamScope(t) : t \in Supervised[actor]}
<1>1. CASE type \in {"TEAM", "GEOFENCE_COMPLIANCE"}
  <2>1. Authorize(actor, role, type, team, user) = AuthorizeTeam(actor, role, team)
    BY <1>1 DEF Authorize
  <2>2. QED BY <2>1 DEF AuthorizeTeam
<1>2. CASE type \notin {"TEAM", "GEOFENCE_COMPLIANCE"}
  <2>1. role = "EMPLOYEE" => Authorize(actor, role, type, team, user) = {actor}
    BY <1>2 DEF Authorize
  <2>2. role = "SUPERVISOR" => Authorize(actor, role, type, team, user) = SupervisorRange(actor, team, user)
    BY <1>2 DEF Authorize
  <2>3. SupervisorRange(actor, team, user) \subseteq UNION {TeamScope(t) : t \in Supervised[actor]}
    BY DEF SupervisorRange, TeamScope
  <2>4. QED BY <2>1, <2>2, <2>3
<1>3. QED BY <1>1, <1>2

\* WithinReach depends on the report alone.
LEMMA ReachStays == WithinReach /\ [DayReportsNext]_tableVars => WithinReach'
<1> SUFFICES ASSUME WithinReach, [DayReportsNext]_tableVars PROVE WithinReach'
  OBVIOUS
<1>1. ASSUME NEW actor \in People, NEW role \in Roles, NEW type \in ReportTypes,
             NEW team \in TeamIds \cup {NoOne}, NEW user \in People \cup {NoOne},
             GenerateReport(actor, role, type, team, user)
      PROVE  WithinReach'
  <2>1. /\ asked'.actor = actor /\ asked'.role = role
        /\ asked'.about = Authorize(actor, role, type, team, user)
    BY <1>1 DEF GenerateReport
  <2>2. QED BY <2>1, AuthorizeClamps DEF WithinReach, TeamScope
<1>2. ASSUME UNCHANGED asked PROVE WithinReach'
  BY <1>2 DEF WithinReach, TeamScope
<1>3. QED BY <1>1, <1>2 DEF DayReportsNext, OpenDay, OverrideStatus, tableVars

\* TeamReportsHold: a report is about people its reader may ask about, and the
\* rates and absences of a team stay in their ranges, whatever the table.
THEOREM ReportsStayWithinReach == DayReportsSpec => []TeamReportsHold
<1>1. DayReportsInit => TableTyped /\ WithinReach
  BY FS_EmptySet DEF DayReportsInit, TableTyped, WithinReach, NoReport
<1>2. TableTyped /\ WithinReach => TeamReportsHold
  BY RatesAreBounded DEF WithinReach, TeamReportsHold
<1>3. QED BY <1>1, <1>2, TableStaysTyped, ReachStays, PTL DEF DayReportsSpec
=============================================================================
