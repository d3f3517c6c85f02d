-------------------------- MODULE BillingWalletProofs --------------------------
(***************************************************************************)
(* Proofs about BillingWallet, for any number of servers, charges, quotes   *)
(* and lots, on either database: the books balance, the ledger alarm has    *)
(* one cause, expiry is final and a quote pays once.                        *)
(*                                                                          *)
(* The wallet is an account of sums, so the first part is about sums over   *)
(* finite sets, by induction on the set (a smallest counterexample), and    *)
(* the second about drawing an amount from rows in an order.  Two           *)
(* inductive invariants follow: IInv, of the rows and quotes, and BookInv,  *)
(* of the books.  The last part is about the outbox that posts to a wallet. *)
(***************************************************************************)
EXTENDS BillingWallet, SettlementOutbox, FiniteSetTheorems, WellFoundedInduction, TLAPS

-----------------------------------------------------------------------------
(* Sums                                                                      *)

\* Among the subsets of a finite set that have some property there is a smallest one.
LEMMA Smallest ==
  ASSUME NEW S, IsFiniteSet(S), NEW B \in SUBSET SUBSET S, B # {}
  PROVE  \E T \in B : \A U \in SUBSET T : U # T => U \notin B
<1>1. IsWellFoundedOn(StrictSubsetOrdering(S), SUBSET S)
  BY FS_StrictSubsetOrderingWellFounded, FS_FiniteSubsetsOfFinite
<1>2. PICK T \in B : \A U \in B : ~(<<U, T>> \in StrictSubsetOrdering(S))
  BY <1>1, WFMin
<1> QED
  BY <1>2 DEF StrictSubsetOrdering

\* The element that a sum takes first, and what it makes of the subsets of a set
First(S) == CHOOSE x \in S : TRUE

Adds(g, f, S) == g = [s \in SUBSET S |-> IF s = {} THEN 0 ELSE f[First(s)] + g[s \ {First(s)}]]

LEMMA FirstIn == ASSUME NEW S, S # {} PROVE First(S) \in S
BY DEF First

LEMMA Unfolded == ASSUME NEW f, NEW S PROVE Total(f, S) = (CHOOSE g : Adds(g, f, S))[S]
BY DEF Total, SumFunctionOnSet, FoldFunctionOnSet, MapThenFoldSet, Adds, First

LEMMA AddsFacts ==
  ASSUME NEW f, NEW S, NEW g, Adds(g, f, S), NEW s \in SUBSET S
  PROVE  g[s] = IF s = {} THEN 0 ELSE f[First(s)] + g[s \ {First(s)}]
BY DEF Adds

\* Two functions that add the values of f agree where both are defined.
LEMMA AddsOnce ==
  ASSUME NEW f, NEW S, IsFiniteSet(S), NEW R, S \subseteq R,
         NEW g, Adds(g, f, S), NEW h, Adds(h, f, R)
  PROVE  \A T \in SUBSET S : g[T] = h[T]
<1> DEFINE B == {T \in SUBSET S : g[T] # h[T]}
<1> SUFFICES ASSUME B # {} PROVE FALSE
    OBVIOUS
<1>1. PICK T \in B : \A U \in SUBSET T : U # T => U \notin B
  <2>1. B \in SUBSET SUBSET S
    OBVIOUS
  <2> HIDE DEF B
  <2> QED
    BY <2>1, Smallest
<1> DEFINE x == First(T)
<1>2. CASE T = {}
  BY <1>2, AddsFacts
<1>3. CASE T # {}
  <2>1. x \in T /\ T \ {x} \in SUBSET T /\ T \ {x} # T
    BY <1>3, FirstIn
  <2>2. g[T \ {x}] = h[T \ {x}]
    BY <1>1, <2>1
  <2>3. T \in SUBSET S /\ T \in SUBSET R
    OBVIOUS
  <2>4. g[T] = f[x] + g[T \ {x}]
    BY <1>3, <2>3, AddsFacts
  <2>5. h[T] = f[x] + h[T \ {x}]
    BY <1>3, <2>3, AddsFacts
  <2> QED
    BY <2>2, <2>4, <2>5
<1> QED
  BY <1>2, <1>3

LEMMA AddsExists ==
  ASSUME NEW f, NEW S, IsFiniteSet(S) PROVE \E g : Adds(g, f, S)
<1> DEFINE B == {T \in SUBSET S : ~\E g : Adds(g, f, T)}
<1> SUFFICES ASSUME B # {} PROVE FALSE
    OBVIOUS
<1>1. PICK T \in B : \A U \in SUBSET T : U # T => U \notin B
  <2>1. B \in SUBSET SUBSET S
    OBVIOUS
  <2> HIDE DEF B
  <2> QED
    BY <2>1, Smallest
<1> DEFINE H(u) == CHOOSE h : Adds(h, f, u)
           V(u) == H(u)[u]
           g == [s \in SUBSET T |-> IF s = {} THEN 0 ELSE f[First(s)] + V(s \ {First(s)})]
<1>2. \A u \in SUBSET T : u # T => Adds(H(u), f, u)
  BY <1>1
<1>3. \A u \in SUBSET T : IsFiniteSet(u)
  BY FS_Subset
<1>4. ASSUME NEW u \in SUBSET T, u # T PROVE g[u] = V(u)
  <2>1. CASE u = {}
    <3>1. H(u)[u] = 0
      BY <1>2, <1>4, <2>1, AddsFacts
    <3> QED
      BY <2>1, <3>1
  <2>2. CASE u # {}
    <3> DEFINE w == u \ {First(u)}
    <3>1. w \in SUBSET u /\ w \in SUBSET T /\ w # T
      BY <1>4
    <3>2. Adds(H(u), f, u) /\ Adds(H(w), f, w) /\ IsFiniteSet(w)
      BY <1>2, <1>3, <1>4, <3>1
    <3> HIDE DEF H
    <3>3. V(u) = f[First(u)] + H(u)[w]
      BY <2>2, <3>2, AddsFacts
    <3>4. H(w)[w] = H(u)[w]
      BY <3>1, <3>2, AddsOnce
    <3>5. g[u] = f[First(u)] + V(w)
      BY <2>2
    <3> QED
      BY <3>3, <3>4, <3>5
  <2> QED
    BY <2>1, <2>2
<1>5. ASSUME NEW s \in SUBSET T, s # {} PROVE g[s] = f[First(s)] + g[s \ {First(s)}]
  <2>1. s \ {First(s)} \in SUBSET T /\ s \ {First(s)} # T
    BY <1>5, FirstIn
  <2>2. g[s \ {First(s)}] = V(s \ {First(s)})
    BY <1>4, <2>1
  <2>3. g[s] = f[First(s)] + V(s \ {First(s)})
    BY <1>5
  <2> QED
    BY <2>2, <2>3
<1>6. g = [s \in SUBSET T |-> IF s = {} THEN 0 ELSE f[First(s)] + g[s \ {First(s)}]]
  <2>1. g = [s \in SUBSET T |-> g[s]] /\ g[{}] = 0
    OBVIOUS
  <2> HIDE DEF g
  <2> QED
    BY <1>5, <2>1
<1>7. Adds(g, f, T)
  <2> HIDE DEF g
  <2> QED
    BY <1>6 DEF Adds
<1> QED
  BY <1>7

\* The defining equation of a sum
LEMMA TotalDef ==
  ASSUME NEW f, NEW S, IsFiniteSet(S)
  PROVE  /\ S = {} => Total(f, S) = 0
         /\ S # {} => Total(f, S) = f[First(S)] + Total(f, S \ {First(S)})
<1> DEFINE g == CHOOSE g : Adds(g, f, S)
           R == S \ {First(S)}
           h == CHOOSE h : Adds(h, f, R)
<1>1. Total(f, S) = g[S] /\ Total(f, R) = h[R]
  BY Unfolded
<1>2. IsFiniteSet(R) /\ R \subseteq S
  BY FS_Subset
<1>3. Adds(g, f, S)
  BY AddsExists
<1>4. Adds(h, f, R)
  BY <1>2, AddsExists
<1> HIDE DEF g, h
<1>5. g[R] = h[R]
  <2>1. \A T \in SUBSET R : h[T] = g[T]
    BY <1>2, <1>3, <1>4, AddsOnce
  <2> QED
    BY <2>1
<1>6. g[S] = IF S = {} THEN 0 ELSE f[First(S)] + g[R]
  BY <1>3, AddsFacts
<1> QED
  BY <1>1, <1>5, <1>6

\* Induction over a finite set: what holds of {}, and of a subset whenever it holds of
\* the subset without one of its elements, holds of the set.
LEMMA FiniteInduction ==
  ASSUME NEW S, IsFiniteSet(S), NEW G \in SUBSET SUBSET S, {} \in G,
         \A T \in SUBSET S : \A x \in T : T \ {x} \in G => T \in G
  PROVE  S \in G
<1> DEFINE B == (SUBSET S) \ G
<1> SUFFICES ASSUME S \notin G PROVE FALSE
    OBVIOUS
<1>1. PICK T \in B : \A U \in SUBSET T : U # T => U \notin B
  <2>1. B \in SUBSET SUBSET S /\ B # {}
    OBVIOUS
  <2> HIDE DEF B
  <2> QED
    BY <2>1, Smallest
<1>2. T # {}
  BY <1>1
<1>3. First(T) \in T
  BY <1>2, FirstIn
<1>4. T \ {First(T)} \in G
  BY <1>1, <1>3
<1> QED
  BY <1>1, <1>3, <1>4

LEMMA TotalEmpty == ASSUME NEW f PROVE Total(f, {}) = 0
BY TotalDef, FS_EmptySet

LEMMA TotalInt ==
  ASSUME NEW S, IsFiniteSet(S), NEW f, \A x \in S : f[x] \in Int
  PROVE  Total(f, S) \in Int
<1> DEFINE B == {T \in SUBSET S : Total(f, T) \notin Int}
<1> SUFFICES ASSUME B # {} PROVE FALSE
    OBVIOUS
<1>1. PICK T \in B : \A U \in SUBSET T : U # T => U \notin B
  <2>1. B \in SUBSET SUBSET S
    OBVIOUS
  <2> HIDE DEF B
  <2> QED
    BY <2>1, Smallest
<1>2. IsFiniteSet(T)
  BY FS_Subset
<1>3. T # {}
  <2>1. Total(f, {}) \in Int
    BY TotalEmpty
  <2> QED
    BY <1>1, <2>1
<1>4. First(T) \in T
  BY <1>3, FirstIn
<1>5. Total(f, T \ {First(T)}) \in Int
  BY <1>1, <1>4
<1>6. Total(f, T) = f[First(T)] + Total(f, T \ {First(T)})
  BY <1>2, <1>3, TotalDef
<1>7. f[First(T)] \in Int
  BY <1>4
<1> QED
  BY <1>1, <1>5, <1>6, <1>7

\* Any element may be taken first.
LEMMA TotalPick ==
  ASSUME NEW S, IsFiniteSet(S), NEW f, \A x \in S : f[x] \in Int, NEW x \in S
  PROVE  Total(f, S) = f[x] + Total(f, S \ {x})
<1> DEFINE B == {T \in SUBSET S : \E y \in T : Total(f, T) # f[y] + Total(f, T \ {y})}
<1> SUFFICES ASSUME B # {} PROVE FALSE
    OBVIOUS
<1>1. PICK T \in B : \A U \in SUBSET T : U # T => U \notin B
  <2>1. B \in SUBSET SUBSET S
    OBVIOUS
  <2> HIDE DEF B
  <2> QED
    BY <2>1, Smallest
<1>2. PICK y \in T : Total(f, T) # f[y] + Total(f, T \ {y})
  BY <1>1
<1>3. \A U \in SUBSET T : U # T => \A z \in U : Total(f, U) = f[z] + Total(f, U \ {z})
  BY <1>1
<1> DEFINE c == First(T)
<1>4. c \in T
  BY FirstIn
<1>5. ASSUME NEW U \in SUBSET T PROVE IsFiniteSet(U) /\ Total(f, U) \in Int
  <2>1. T \in SUBSET S
    OBVIOUS
  <2>2. IsFiniteSet(U) /\ \A z \in U : f[z] \in Int
    BY <2>1, FS_Subset
  <2> QED
    BY <2>2, TotalInt
<1>9. \A z \in T : f[z] \in Int
  OBVIOUS
<1> HIDE DEF B, c
<1>6. Total(f, T) = f[c] + Total(f, T \ {c})
  <2>1. IsFiniteSet(T) /\ T # {}
    BY <1>4, <1>5
  <2> QED
    BY <2>1, TotalDef DEF c
<1>7. CASE c = y
  BY <1>2, <1>6, <1>7
<1>8. CASE c # y
  <2>1. Total(f, T \ {c}) = f[y] + Total(f, (T \ {c}) \ {y})
    BY <1>3, <1>4, <1>8
  <2>2. Total(f, T \ {y}) = f[c] + Total(f, (T \ {y}) \ {c})
    BY <1>3, <1>4, <1>8
  <2>3. (T \ {c}) \ {y} = (T \ {y}) \ {c}
    OBVIOUS
  <2>4. Total(f, (T \ {y}) \ {c}) \in Int /\ f[c] \in Int /\ f[y] \in Int
    BY <1>4, <1>5, <1>9
  <2>5. Total(f, T \ {c}) = f[y] + Total(f, (T \ {y}) \ {c})
    BY <2>1, <2>3, Zenon
  <2> QED
    BY <1>2, <1>6, <2>2, <2>4, <2>5
<1> QED
  BY <1>7, <1>8

\* A sum depends on the values in the set only.
LEMMA TotalAgree ==
  ASSUME NEW S, IsFiniteSet(S), NEW f, NEW g, \A x \in S : f[x] = g[x] /\ f[x] \in Int
  PROVE  Total(f, S) = Total(g, S)
<1> DEFINE G == {T \in SUBSET S : Total(f, T) = Total(g, T)}
<1>1. {} \in G
  BY TotalEmpty
<1>2. ASSUME NEW T \in SUBSET S, NEW x \in T, T \ {x} \in G PROVE T \in G
  <2>1. IsFiniteSet(T) /\ \A y \in T : f[y] \in Int /\ g[y] \in Int
    BY FS_Subset
  <2>2. Total(f, T) = f[x] + Total(f, T \ {x})
    BY <2>1, TotalPick
  <2>3. Total(g, T) = g[x] + Total(g, T \ {x})
    BY <2>1, TotalPick
  <2> QED
    BY <1>2, <2>2, <2>3
<1>3. G \in SUBSET SUBSET S
  OBVIOUS
<1> HIDE DEF G
<1>4. S \in G
  BY <1>1, <1>2, <1>3, FiniteInduction
<1> QED
  BY <1>4 DEF G

\* The sum of pointwise sums
LEMMA TotalPlus ==
  ASSUME NEW S, IsFiniteSet(S), NEW f, NEW g, NEW h,
         \A x \in S : f[x] \in Int /\ g[x] \in Int /\ h[x] = f[x] + g[x]
  PROVE  Total(h, S) = Total(f, S) + Total(g, S)
<1> DEFINE G == {T \in SUBSET S : Total(h, T) = Total(f, T) + Total(g, T)}
<1>1. {} \in G
  BY TotalEmpty
<1>2. ASSUME NEW T \in SUBSET S, NEW x \in T, T \ {x} \in G PROVE T \in G
  <2>1. IsFiniteSet(T) /\ IsFiniteSet(T \ {x})
    BY FS_Subset
  <2>2. \A y \in T : f[y] \in Int /\ g[y] \in Int /\ h[y] \in Int
    OBVIOUS
  <2>3. Total(f, T) = f[x] + Total(f, T \ {x}) /\ Total(f, T \ {x}) \in Int
    BY <2>1, <2>2, TotalPick, TotalInt
  <2>4. Total(g, T) = g[x] + Total(g, T \ {x}) /\ Total(g, T \ {x}) \in Int
    BY <2>1, <2>2, TotalPick, TotalInt
  <2>5. Total(h, T) = h[x] + Total(h, T \ {x})
    BY <2>1, <2>2, TotalPick
  <2>6. Total(h, T \ {x}) = Total(f, T \ {x}) + Total(g, T \ {x})
    BY <1>2
  <2>7. h[x] = f[x] + g[x] /\ f[x] \in Int /\ g[x] \in Int
    OBVIOUS
  <2>8. Total(h, T) = Total(f, T) + Total(g, T)
    BY <2>3, <2>4, <2>5, <2>6, <2>7
  <2> QED
    BY <2>8
<1>3. G \in SUBSET SUBSET S
  OBVIOUS
<1> HIDE DEF G
<1>4. S \in G
  BY <1>1, <1>2, <1>3, FiniteInduction
<1> QED
  BY <1>4 DEF G

\* The sum of pointwise differences
LEMMA TotalMinus ==
  ASSUME NEW S, IsFiniteSet(S), NEW f, NEW g, NEW h,
         \A x \in S : f[x] \in Int /\ g[x] \in Int /\ h[x] = f[x] - g[x]
  PROVE  Total(h, S) = Total(f, S) - Total(g, S)
<1>1. \A x \in S : h[x] \in Int /\ g[x] \in Int /\ f[x] = h[x] + g[x]
  OBVIOUS
<1>2. Total(f, S) = Total(h, S) + Total(g, S)
  BY <1>1, TotalPlus
<1>3. Total(h, S) \in Int /\ Total(g, S) \in Int
  BY <1>1, TotalInt
<1> QED
  BY <1>2, <1>3

LEMMA TotalZero ==
  ASSUME NEW S, IsFiniteSet(S), NEW f, \A x \in S : f[x] = 0
  PROVE  Total(f, S) = 0
<1>1. \A x \in S : f[x] \in Int /\ f[x] = f[x] + f[x]
  OBVIOUS
<1>2. Total(f, S) = Total(f, S) + Total(f, S)
  <2>1. \A x \in S : f[x] \in Int /\ f[x] \in Int /\ f[x] = f[x] + f[x]
    OBVIOUS
  <2> QED
    BY <2>1, TotalPlus
<1>3. Total(f, S) \in Int
  BY <1>1, TotalInt
<1>4. \A n \in Int : n = n + n => n = 0
  OBVIOUS
<1> QED
  BY <1>2, <1>3, <1>4, Zenon

\* A sum of naturals is one, and none of them exceeds it.
LEMMA TotalNat ==
  ASSUME NEW S, IsFiniteSet(S), NEW f, \A x \in S : f[x] \in Nat
  PROVE  Total(f, S) \in Nat /\ \A x \in S : f[x] <= Total(f, S)
<1> DEFINE G == {T \in SUBSET S : Total(f, T) \in Nat}
<1>1. {} \in G
  BY TotalEmpty
<1>2. ASSUME NEW T \in SUBSET S, NEW x \in T, T \ {x} \in G PROVE T \in G
  <2>1. IsFiniteSet(T) /\ \A y \in T : f[y] \in Int
    BY FS_Subset
  <2>2. Total(f, T) = f[x] + Total(f, T \ {x})
    BY <2>1, TotalPick
  <2>3. f[x] \in Nat /\ Total(f, T \ {x}) \in Nat
    BY <1>2
  <2> QED
    BY <2>2, <2>3
<1>3. G \in SUBSET SUBSET S
  OBVIOUS
<1>4. \A T \in SUBSET S : Total(f, T) \in Nat
  <2> SUFFICES ASSUME NEW T \in SUBSET S PROVE Total(f, T) \in Nat
      OBVIOUS
  <2> DEFINE H == G \cap SUBSET T
  <2>1. IsFiniteSet(T)
    BY FS_Subset
  <2>2. {} \in H /\ H \in SUBSET SUBSET T
    BY <1>1
  <2>3. \A U \in SUBSET T : \A x \in U : U \ {x} \in H => U \in H
    BY <1>2
  <2> HIDE DEF H
  <2>4. T \in H
    BY <2>1, <2>2, <2>3, FiniteInduction
  <2> QED
    BY <2>4 DEF H
<1>5. ASSUME NEW x \in S PROVE f[x] <= Total(f, S)
  <2>1. \A y \in S : f[y] \in Int
    OBVIOUS
  <2>2. Total(f, S) = f[x] + Total(f, S \ {x})
    BY <2>1, TotalPick
  <2>3. Total(f, S \ {x}) \in Nat /\ f[x] \in Nat
    BY <1>4
  <2> QED
    BY <2>2, <2>3
<1> QED
  BY <1>4, <1>5

\* Values that differ in one place only
LEMMA TotalChange ==
  ASSUME NEW S, IsFiniteSet(S), NEW f, NEW g, NEW x \in S, NEW d \in Int,
         \A y \in S : f[y] \in Int /\ g[y] = IF y = x THEN f[x] + d ELSE f[y]
  PROVE  Total(g, S) = Total(f, S) + d
<1>1. \A y \in S : f[y] \in Int /\ g[y] \in Int
  OBVIOUS
<1>2. Total(f, S) = f[x] + Total(f, S \ {x})
  BY <1>1, TotalPick
<1>3. Total(g, S) = g[x] + Total(g, S \ {x})
  BY <1>1, TotalPick
<1>4. Total(f, S \ {x}) = Total(g, S \ {x}) /\ Total(f, S \ {x}) \in Int
  <2>1. IsFiniteSet(S \ {x})
    BY FS_Subset
  <2>2. \A y \in S \ {x} : f[y] = g[y] /\ f[y] \in Int
    OBVIOUS
  <2> QED
    BY <2>1, <2>2, TotalAgree, TotalInt
<1>5. g[x] = f[x] + d /\ f[x] \in Int
  OBVIOUS
<1> QED
  BY <1>2, <1>3, <1>4, <1>5

\* Two disjoint sets
LEMMA TotalUnion ==
  ASSUME NEW S, IsFiniteSet(S), NEW R, IsFiniteSet(R), S \cap R = {},
         NEW f, \A x \in S \cup R : f[x] \in Int
  PROVE  Total(f, S \cup R) = Total(f, S) + Total(f, R)
<1> DEFINE G == {T \in SUBSET S : Total(f, T \cup R) = Total(f, T) + Total(f, R)}
<1>1. {} \in G
  <2>1. {} \cup R = R /\ Total(f, R) \in Int
    BY TotalInt
  <2> QED
    BY <2>1, TotalEmpty
<1>2. ASSUME NEW T \in SUBSET S, NEW x \in T, T \ {x} \in G PROVE T \in G
  <2>1. IsFiniteSet(T) /\ IsFiniteSet(T \ {x}) /\ IsFiniteSet(T \cup R)
    <3>1. IsFiniteSet(T) /\ IsFiniteSet(T \ {x})
      BY FS_Subset
    <3> QED
      BY <3>1, FS_Union
  <2>2. \A y \in T \cup R : f[y] \in Int
    OBVIOUS
  <2>3. Total(f, T) = f[x] + Total(f, T \ {x}) /\ Total(f, T \ {x}) \in Int
    BY <2>1, <2>2, TotalPick, TotalInt
  <2>4. Total(f, T \cup R) = f[x] + Total(f, (T \cup R) \ {x})
    BY <2>1, <2>2, TotalPick
  <2>5. (T \cup R) \ {x} = (T \ {x}) \cup R
    OBVIOUS
  <2>6. Total(f, (T \ {x}) \cup R) = Total(f, T \ {x}) + Total(f, R)
    BY <1>2
  <2>7. Total(f, R) \in Int /\ f[x] \in Int
    <3>1. \A y \in R : f[y] \in Int
      OBVIOUS
    <3> QED
      BY <3>1, TotalInt
  <2>8. Total(f, T \cup R) = f[x] + Total(f, (T \ {x}) \cup R)
    BY <2>4, <2>5, Zenon
  <2>9. Total(f, T \cup R) = Total(f, T) + Total(f, R)
    BY <2>3, <2>6, <2>7, <2>8
  <2> QED
    BY <2>9
<1>3. G \in SUBSET SUBSET S
  OBVIOUS
<1> HIDE DEF G
<1>4. S \in G
  BY <1>1, <1>2, <1>3, FiniteInduction
<1> QED
  BY <1>4 DEF G

\* Values that are zero outside of a subset
LEMMA TotalWithin ==
  ASSUME NEW S, IsFiniteSet(S), NEW T \in SUBSET S,
         NEW f, \A x \in S : f[x] \in Int, \A x \in S \ T : f[x] = 0
  PROVE  Total(f, S) = Total(f, T)
<1>1. IsFiniteSet(T) /\ IsFiniteSet(S \ T)
  BY FS_Subset
<1>2. S = T \cup (S \ T) /\ T \cap (S \ T) = {}
  OBVIOUS
<1>3. Total(f, T \cup (S \ T)) = Total(f, T) + Total(f, S \ T)
  BY <1>1, <1>2, TotalUnion
<1>4. Total(f, S \ T) = 0
  BY <1>1, TotalZero
<1>5. Total(f, T) \in Int
  <2>1. \A x \in T : f[x] \in Int
    OBVIOUS
  <2> QED
    BY <1>1, <2>1, TotalInt
<1>6. Total(f, S) = Total(f, T) + Total(f, S \ T)
  BY <1>2, <1>3, Zenon
<1> QED
  BY <1>4, <1>5, <1>6

\* Values that are nowhere larger and have the same sum are the same.
LEMMA TotalSame ==
  ASSUME NEW S, IsFiniteSet(S), NEW f, NEW g,
         \A x \in S : f[x] \in Nat /\ g[x] \in Nat /\ f[x] <= g[x],
         Total(f, S) = Total(g, S)
  PROVE  \A x \in S : f[x] = g[x]
<1> DEFINE h == [x \in S |-> g[x] - f[x]]
<1>1. \A x \in S : /\ h[x] = g[x] - f[x] /\ h[x] \in Nat
                   /\ g[x] \in Int /\ f[x] \in Int
  OBVIOUS
<1> HIDE DEF h
<1>2. Total(h, S) = Total(g, S) - Total(f, S)
  BY <1>1, TotalMinus
<1>3. Total(f, S) \in Int
  BY <1>1, TotalInt
<1>4. Total(h, S) = 0
  BY <1>2, <1>3
<1>5. \A x \in S : h[x] <= 0
  BY <1>1, <1>4, TotalNat
<1> QED
  BY <1>1, <1>5

-----------------------------------------------------------------------------
(* Rows in an order, and what Draw takes of them                             *)

\* The rows of S come one after another.
Ordered(S, earlier) ==
  /\ \A x \in S : x \notin earlier[x]
  /\ \A x, y \in S : x # y => x \in earlier[y] \/ y \in earlier[x]
  /\ \A x, y, z \in S : x \in earlier[y] /\ y \in earlier[z] => x \in earlier[z]

LEMMA LastOne ==
  ASSUME NEW S, IsFiniteSet(S), S # {}, NEW earlier, Ordered(S, earlier)
  PROVE  \E m \in S : \A x \in S \ {m} : x \in earlier[m]
<1> DEFINE G == {T \in SUBSET S : T # {} => \E m \in T : \A x \in T \ {m} : x \in earlier[m]}
<1>1. {} \in G
  OBVIOUS
<1>2. ASSUME NEW T \in SUBSET S, NEW x \in T, T \ {x} \in G PROVE T \in G
  <2>1. CASE T \ {x} = {}
    BY <2>1
  <2>2. CASE T \ {x} # {}
    <3>1. PICK m \in T \ {x} : \A y \in (T \ {x}) \ {m} : y \in earlier[m]
      BY <1>2, <2>2
    <3>2. CASE x \in earlier[m]
      BY <3>1, <3>2
    <3>3. CASE m \in earlier[x]
      BY <3>1, <3>3 DEF Ordered
    <3> QED
      BY <3>2, <3>3 DEF Ordered
  <2> QED
    BY <2>1, <2>2
<1>3. G \in SUBSET SUBSET S
  OBVIOUS
<1> HIDE DEF G
<1>4. S \in G
  BY <1>1, <1>2, <1>3, FiniteInduction
<1> QED
  BY <1>4 DEF G

LEMMA MaxOf ==
  ASSUME NEW S \in SUBSET Nat, IsFiniteSet(S), S # {}
  PROVE  Max(S) \in S /\ \A y \in S : y <= Max(S)
<1> DEFINE earlier == [y \in S |-> {x \in S : x < y}]
<1>1. Ordered(S, earlier)
  BY DEF Ordered
<1> HIDE DEF earlier
<1>2. PICK m \in S : \A x \in S \ {m} : x \in earlier[m]
  BY <1>1, LastOne
<1>3. \A x \in S : m >= x
  BY <1>2 DEF earlier
<1>4. Max(S) \in S /\ \A y \in S : Max(S) >= y
  BY <1>3 DEF Max
<1> QED
  BY <1>4

LEMMA ImageIsFinite ==
  ASSUME NEW S, IsFiniteSet(S), NEW f
  PROVE  IsFiniteSet({f[x] : x \in S})
<1> DEFINE G == {T \in SUBSET S : IsFiniteSet({f[x] : x \in T})}
<1>1. {} \in G
  <2>1. {f[x] : x \in {}} = {}
    OBVIOUS
  <2> QED
    BY <2>1, FS_EmptySet
<1>2. ASSUME NEW T \in SUBSET S, NEW y \in T, T \ {y} \in G PROVE T \in G
  <2>1. {f[x] : x \in T} = {f[x] : x \in T \ {y}} \cup {f[y]}
    OBVIOUS
  <2>2. IsFiniteSet({f[x] : x \in T \ {y}}) /\ IsFiniteSet({f[y]})
    BY <1>2, FS_Singleton
  <2>3. IsFiniteSet({f[x] : x \in T \ {y}} \cup {f[y]})
    BY <2>2, FS_Union
  <2> QED
    BY <2>1, <2>3
<1>3. G \in SUBSET SUBSET S
  OBVIOUS
<1> HIDE DEF G
<1>4. S \in G
  BY <1>1, <1>2, <1>3, FiniteInduction
<1> QED
  BY <1>4 DEF G

\* The next rank of a table is above those of its rows (created_at).
LEMMA NextRankIsNew ==
  ASSUME NEW table, IsFiniteSet(DOMAIN table), \A x \in DOMAIN table : table[x].created \in Nat
  PROVE  /\ NextRank(table) \in Nat \ {0}
         /\ \A x \in DOMAIN table : table[x].created < NextRank(table)
<1> DEFINE ranks == [x \in DOMAIN table |-> table[x].created]
           C == {table[x].created : x \in DOMAIN table}
           M == {0} \cup C
<1>1. IsFiniteSet(C)
  <2>1. C = {ranks[x] : x \in DOMAIN table}
    OBVIOUS
  <2> HIDE DEF ranks
  <2>2. IsFiniteSet({ranks[x] : x \in DOMAIN table})
    BY ImageIsFinite
  <2> QED
    BY <2>1, <2>2, Zenon
<1>2. M \in SUBSET Nat /\ M # {}
  OBVIOUS
<1>3. IsFiniteSet({0})
  BY FS_Singleton
<1>4. IsFiniteSet(M)
  <2> HIDE DEF C
  <2> QED
    BY <1>1, <1>3, FS_Union
<1>5. NextRank(table) = 1 + Max(M)
  BY DEF NextRank
<1>6. \A x \in DOMAIN table : table[x].created \in M
  OBVIOUS
<1> HIDE DEF M
<1>7. Max(M) \in M /\ \A y \in M : y <= Max(M)
  BY <1>2, <1>4, MaxOf
<1>8. Max(M) \in Nat
  BY <1>2, <1>7
<1>9. ASSUME NEW x \in DOMAIN table PROVE table[x].created < NextRank(table)
  BY <1>5, <1>6, <1>7, <1>8
<1> QED
  BY <1>5, <1>8, <1>9

\* No row gives more than it has.
LEMMA DrawBounds ==
  ASSUME NEW S, IsFiniteSet(S), NEW earlier, NEW amount \in Nat,
         NEW have, \A x \in DOMAIN have : have[x] \in Nat, S \subseteq DOMAIN have
  PROVE  /\ DOMAIN Draw(S, have, earlier, amount) = DOMAIN have
         /\ \A x \in DOMAIN have :
              /\ Draw(S, have, earlier, amount)[x] \in Nat
              /\ Draw(S, have, earlier, amount)[x] <= have[x]
              /\ x \notin S => Draw(S, have, earlier, amount)[x] = 0
<1> DEFINE before(x) == Total(have, S \cap earlier[x])
<1>1. Draw(S, have, earlier, amount) =
        [x \in DOMAIN have |-> IF x \in S /\ before(x) < amount
                               THEN Min2(have[x], amount - before(x)) ELSE 0]
  BY DEF Draw, Total
<1>2. ASSUME NEW x \in DOMAIN have PROVE before(x) \in Nat
  <2>1. IsFiniteSet(S \cap earlier[x])
    BY FS_Subset
  <2>2. \A y \in S \cap earlier[x] : have[y] \in Nat
    OBVIOUS
  <2> QED
    BY <2>1, <2>2, TotalNat
<1> HIDE DEF before
<1> QED
  BY <1>1, <1>2 DEF Min2

\* Together they give the amount, or all they have.
LEMMA DrawTotal ==
  ASSUME NEW S, IsFiniteSet(S), NEW earlier, Ordered(S, earlier), NEW amount \in Nat,
         NEW have, \A x \in DOMAIN have : have[x] \in Nat, S \subseteq DOMAIN have
  PROVE  Total(Draw(S, have, earlier, amount), S) = Min2(amount, Total(have, S))
<1> DEFINE g == Draw(S, have, earlier, amount)
           Closed(T) == \A y \in T : S \cap earlier[y] \subseteq T
           B == {T \in SUBSET S : Closed(T) /\ Total(g, T) # Min2(amount, Total(have, T))}
<1> SUFFICES ASSUME B # {} PROVE FALSE
    OBVIOUS
<1>1. PICK D \in B : \A U \in SUBSET D : U # D => U \notin B
  <2>1. B \in SUBSET SUBSET S
    OBVIOUS
  <2> HIDE DEF B
  <2> QED
    BY <2>1, Smallest
<1>2. D \in SUBSET S /\ Closed(D) /\ Total(g, D) # Min2(amount, Total(have, D))
  OBVIOUS
<1>3. \A U \in SUBSET D : U # D /\ Closed(U) => Total(g, U) = Min2(amount, Total(have, U))
  BY <1>1
<1>4. \A x \in S : g[x] \in Nat /\ g[x] \in Int /\ have[x] \in Nat /\ have[x] \in Int
  BY DrawBounds
<1>5. \A x \in S : g[x] = LET before == Total(have, S \cap earlier[x])
                          IN IF before < amount THEN Min2(have[x], amount - before) ELSE 0
  BY DEF Draw, Total
<1> HIDE DEF B, g
<1>6. IsFiniteSet(D)
  BY <1>2, FS_Subset
<1>7. D # {}
  <2>1. Total(g, {}) = 0 /\ Total(have, {}) = 0
    BY TotalEmpty
  <2>2. Min2(amount, 0) = 0
    BY DEF Min2
  <2> QED
    BY <1>2, <2>1, <2>2
<1>8. PICK m \in D : \A x \in D \ {m} : x \in earlier[m]
  <2>1. Ordered(D, earlier)
    BY <1>2 DEF Ordered
  <2> QED
    BY <1>6, <1>7, <2>1, LastOne
<1> DEFINE R == D \ {m}
<1>9. R = S \cap earlier[m]
  BY <1>2, <1>8 DEF Ordered
<1>10. Closed(R)
  BY <1>2, <1>8 DEF Ordered
<1>11. Total(g, R) = Min2(amount, Total(have, R))
  BY <1>3, <1>8, <1>10
<1>12. Total(g, D) = g[m] + Total(g, R)
  BY <1>2, <1>4, <1>6, TotalPick
<1>13. Total(have, D) = have[m] + Total(have, R)
  BY <1>2, <1>4, <1>6, TotalPick
<1>14. Total(have, R) \in Nat
  <2>1. IsFiniteSet(R) /\ \A x \in R : have[x] \in Nat
    BY <1>2, <1>4, <1>6, FS_Subset
  <2> QED
    BY <2>1, TotalNat
<1> DEFINE before == Total(have, R)
<1>15. g[m] = IF before < amount THEN Min2(have[m], amount - before) ELSE 0
  BY <1>2, <1>5, <1>9
<1>16. m \in S
  BY <1>2
<1> HIDE DEF R, before, Closed
<1>17. before \in Nat /\ have[m] \in Nat
  BY <1>4, <1>14, <1>16 DEF before
<1>18. g[m] + Min2(amount, before) = Min2(amount, have[m] + before)
  BY <1>15, <1>17 DEF Min2
<1> QED
  BY <1>2, <1>11, <1>12, <1>13, <1>18 DEF before

-----------------------------------------------------------------------------
(* Rows, quotes and expiry                                                  *)

LotFields    == {"created", "original", "available", "spent", "expired", "expires"}
ChargeFields == {"created", "from", "debt", "repaid", "reversal"}

\* The tables keep their columns.
Shape ==
  /\ DOMAIN lots = LotIds /\ \A l \in LotIds : DOMAIN lots[l] = LotFields
  /\ DOMAIN charges = Charges /\ \A c \in Charges : DOMAIN charges[c] = ChargeFields
  /\ DOMAIN tx = Servers

\* What an open transaction remembers is a charge or a lot of the wallet, and the
\* time an expiry was started at has passed.
TxInv ==
  /\ clock \in Nat
  /\ \A s \in Servers :
       /\ tx[s].op \in {"charge", "reverse"} => tx[s].charge \in Charges
       /\ tx[s].op = "expire" =>
            tx[s].lot \in Rewards /\ tx[s].now \in Nat /\ tx[s].now <= clock

\* A lot whose source was not used is empty and paid for nothing; a swept lot is past its expiry,
\* which is what makes a later reversal expire its credits again.
ExpiryInv ==
  /\ \A l \in LotIds : lots[l].expires \in Nat
  /\ \A l \in LotIds \ used : /\ lots[l].available = 0
                             /\ \A c \in Charges : charges[c].from[l] = 0
  /\ swept \subseteq Rewards \cap used
  /\ \A l \in swept : lots[l].available = 0 /\ lots[l].expires <= clock

\* A charge that was quoted consumed its quote.
QuoteInv ==
  /\ \A c \in Quoted : Exists(c) => QuoteOf[c] \in consumed
  /\ QuoteIsSpentOnce

IInv == Shape /\ TxInv /\ ExpiryInv /\ QuoteInv

-----------------------------------------------------------------------------
(* What the building blocks do to the rows the invariant speaks about        *)

\* A lot without spendable credits gives nothing (consumeForCharge).
LEMMA OnlySpendableGives ==
  ASSUME NEW c \in Charges, NEW now \in Nat, NEW l \in LotIds, l \notin Spendable(c, now)
  PROVE  Draw(Spendable(c, now), Available, EarlierLots, Price[c])[l] = 0
BY DEF Draw, Available

LEMMA InitInv == Init => IInv
<1> SUFFICES ASSUME Init PROVE IInv
    OBVIOUS
<1>1. Shape
  BY DEF Init, Shape, LotFields, ChargeFields, NoLot, NoCharge
<1>2. TxInv
  BY DEF Init, TxInv, Idle
<1>3. ExpiryInv
  BY DEF Init, ExpiryInv, NoLot, NoCharge
<1>4. QuoteInv
  BY DEF Init, QuoteInv, QuoteIsSpentOnce, Exists, NoCharge, Quoted, Charges
<1> QED
  BY <1>1, <1>2, <1>3, <1>4 DEF IInv

-----------------------------------------------------------------------------
(* Every action preserves the invariant                                      *)

\* A transaction that ends without writing.
LEMMA RefuseInv ==
  ASSUME IInv, NEW s \in Servers, End(s), UNCHANGED <<rows, clock>>
  PROVE  IInv'
<1>1. Shape' /\ TxInv'
  BY DEF IInv, Shape, TxInv, End, Idle, rows
<1>2. ExpiryInv' /\ QuoteInv'
  BY DEF IInv, ExpiryInv, QuoteInv, QuoteIsSpentOnce, Exists, rows
<1> QED
  BY <1>1, <1>2 DEF IInv

\* A transaction that starts, and remembers what TxInv asks of it.
LEMMA BeginInv ==
  ASSUME IInv, NEW s \in Servers, NEW t, tx' = [tx EXCEPT ![s] = t],
         t.op \in {"charge", "reverse"} => t.charge \in Charges,
         t.op = "expire" => t.lot \in Rewards /\ t.now = clock,
         UNCHANGED <<rows, clock>>
  PROVE  IInv'
<1>1. Shape' /\ TxInv'
  BY DEF IInv, Shape, TxInv, rows
<1>2. ExpiryInv' /\ QuoteInv'
  BY DEF IInv, ExpiryInv, QuoteInv, QuoteIsSpentOnce, Exists, rows
<1> QED
  BY <1>1, <1>2 DEF IInv

\* Consume keeps the lots' invariant: a swept lot is not spendable.
LEMMA ConsumeLots ==
  ASSUME IInv, NEW s \in Servers, NEW c \in Charges, ~Exists(c), Consume(c, clock),
         End(s), UNCHANGED <<used, swept, clock>>
  PROVE  Shape' /\ TxInv' /\ ExpiryInv'
<1> DEFINE give == Draw(Spendable(c, clock), Available, EarlierLots, Price[c])
<1>1. \A l \in LotIds : lots[l].available = 0 => give[l] = 0
  <2> TAKE l \in LotIds
  <2> HAVE lots[l].available = 0
  <2>1. l \notin Spendable(c, clock)
    BY DEF Spendable
  <2>2. clock \in Nat
    BY DEF IInv, TxInv
  <2> QED
    BY <2>1, <2>2, OnlySpendableGives
<1>2. lots' = [l \in LotIds |->
                [lots[l] EXCEPT !.available = @ - give[l], !.spent = @ + give[l]]]
  BY DEF Consume
<1> HIDE DEF give
<1>3. Shape' /\ TxInv'
  BY <1>2 DEF IInv, Shape, TxInv, End, Idle, Consume, LotFields, ChargeFields
<1>4. \A l \in LotIds : /\ lots'[l].expires = lots[l].expires
                        /\ lots[l].available = 0 => lots'[l].available = 0
  <2> TAKE l \in LotIds
  <2>1. lots'[l] = [lots[l] EXCEPT !.available = @ - give[l], !.spent = @ + give[l]]
    BY <1>2
  <2>2. DOMAIN lots[l] = LotFields
    BY DEF IInv, Shape
  <2>3. lots'[l].expires = lots[l].expires
    BY <2>1, <2>2 DEF LotFields
  <2>4. lots'[l].available = lots[l].available - give[l]
    BY <2>1, <2>2 DEF LotFields
  <2> QED
    BY <1>1, <2>3, <2>4
<1>5. swept \subseteq LotIds
  BY DEF IInv, ExpiryInv, LotIds, Sources
<1>6. /\ charges'[c].from = give
      /\ \A d \in Charges : d # c => charges'[d].from = charges[d].from
  BY DEF Consume, IInv, Shape, give
<1>7. ExpiryInv'
  BY <1>1, <1>4, <1>5, <1>6 DEF IInv, ExpiryInv
<1> QED
  BY <1>3, <1>7

LEMMA QuotedChargeInv ==
  ASSUME IInv, NEW s \in Servers, CommitQuotedCharge(s)
  PROVE  IInv'
<1> DEFINE c == tx[s].charge
<1>1. CASE Refuse(s)
  BY <1>1, RefuseInv DEF Refuse
<1>2. CASE ~Refuse(s)
  <2>1. /\ c \in Quoted /\ ~Exists(c) /\ QuoteOf[c] \notin consumed
        /\ Consume(c, clock) /\ consumed' = consumed \cup {QuoteOf[c]}
        /\ End(s) /\ UNCHANGED <<used, swept, clock>>
    BY <1>2 DEF CommitQuotedCharge, QuoteIsAvailable
  <2>2. c \in Charges
    BY <2>1 DEF Charges
  <2> HIDE DEF c
  <2>3. Shape' /\ TxInv' /\ ExpiryInv'
    BY <2>1, <2>2, ConsumeLots
  <2>4. \A d \in Charges : d # c => Exists(d)' = Exists(d)
    BY <2>1, <2>2 DEF Consume, Exists, IInv, Shape
  <2>5. QuoteInv'
    BY <2>1, <2>4 DEF IInv, QuoteInv, QuoteIsSpentOnce, Charges
  <2> QED
    BY <2>3, <2>5 DEF IInv
<1> QED
  BY <1>1, <1>2

LEMMA AcceptedOperationInv ==
  ASSUME IInv, NEW s \in Servers, CommitAcceptedOperation(s)
  PROVE  IInv'
<1> DEFINE c == tx[s].charge
<1>1. CASE Refuse(s)
  BY <1>1, RefuseInv DEF Refuse
<1>2. CASE ~Refuse(s)
  <2>1. /\ c \in Accepted \cup Images /\ ~Exists(c) /\ Consume(c, clock)
        /\ End(s) /\ UNCHANGED <<used, swept, consumed, clock>>
    BY <1>2 DEF CommitAcceptedOperation
  <2>2. c \in Charges /\ c \notin Quoted
    BY <2>1, ChargeAssumption DEF Charges, Quoted
  <2> HIDE DEF c
  <2>3. Shape' /\ TxInv' /\ ExpiryInv'
    BY <2>1, <2>2, ConsumeLots
  <2>4. \A d \in Quoted : Exists(d)' = Exists(d)
    BY <2>1, <2>2 DEF Consume, Exists, IInv, Shape, Charges
  <2>5. QuoteInv'
    BY <2>1, <2>4 DEF IInv, QuoteInv, QuoteIsSpentOnce
  <2> QED
    BY <2>3, <2>5 DEF IInv
<1> QED
  BY <1>1, <1>2

\* A top-up and the reward it grants make new lots, never a swept one.
LEMMA TopUpInv ==
  ASSUME IInv, NEW s \in Servers, CommitTopUp(s)
  PROVE  IInv'
<1> DEFINE u == tx[s].source
           due == IF u \in Qualifying THEN Welcome \ used ELSE {}
           added == Credits[u] - Min2(Credits[u], account.debt)
           positions == IF SnapshotReads THEN tx[s].owed ELSE Outstanding
           repaid == Repayments(positions, Min2(Credits[u], account.debt))
<1>1. CASE UNCHANGED <<rows, clock>>
  BY <1>1, RefuseInv DEF CommitTopUp, RefuseUnless
<1>2. CASE ~UNCHANGED <<rows, clock>>
  <2>1. PICK granted \in SUBSET due :
          /\ u \notin used /\ used' = used \cup {u} \cup due
          /\ lots' = [l \in LotIds |->
                       IF l = u /\ added > 0 THEN NewLot(added, 0)
                       ELSE IF l \in granted THEN NewReward(l) ELSE lots[l]]
          /\ charges' = [c \in Charges |-> [charges[c] EXCEPT !.repaid = @ + repaid[c]]]
          /\ End(s) /\ UNCHANGED <<swept, consumed, clock>>
    BY <1>2 DEF CommitTopUp, RefuseUnless
  <2>2. granted \subseteq Rewards \ used
    BY SourceAssumption
  <2> HIDE DEF u, due, added, repaid
  <2>3. \A l \in LotIds :
          \/ lots'[l] = NewLot(added, 0) /\ l \notin used /\ l \in used'
          \/ lots'[l] = NewReward(l) /\ l \in Rewards \ used /\ l \in used'
          \/ lots'[l] = lots[l]
    BY <2>1, <2>2
  <2>4. /\ NewLot(added, 0).expires = 0 /\ DOMAIN NewLot(added, 0) = LotFields
        /\ \A l \in Rewards : /\ NewReward(l).expires \in Nat
                              /\ DOMAIN NewReward(l) = LotFields
    BY SourceAssumption DEF NewLot, NewReward, LotFields, IInv, TxInv
  <2>5. Shape' /\ TxInv'
    BY <2>1, <2>3, <2>4 DEF IInv, Shape, TxInv, End, Idle, ChargeFields
  <2>6. \A c \in Charges : charges'[c].from = charges[c].from /\ Exists(c)' = Exists(c)
    BY <2>1 DEF IInv, Shape, ChargeFields, Exists
  <2>7. ExpiryInv'
    <3>1. \A l \in LotIds : lots'[l].expires \in Nat
      BY <2>3, <2>4 DEF IInv, ExpiryInv
    <3>2. \A l \in LotIds : l \in used \/ l \notin used' => lots'[l] = lots[l]
      BY <2>3
    <3>3. used \subseteq used'
      BY <2>1
    <3>4. swept \subseteq LotIds \cap used
      BY DEF IInv, ExpiryInv, LotIds, Sources
    <3> QED
      BY <2>1, <2>6, <3>1, <3>2, <3>3, <3>4 DEF IInv, ExpiryInv
  <2>8. QuoteInv'
    BY <2>1, <2>6 DEF IInv, QuoteInv, QuoteIsSpentOnce, Charges
  <2> QED
    BY <2>5, <2>7, <2>8 DEF IInv
<1> QED
  BY <1>1, <1>2

LEMMA RewardInv ==
  ASSUME IInv, NEW r \in Rewards, IssueReward(r)
  PROVE  IInv'
<1>1. DOMAIN NewReward(r) = LotFields /\ NewReward(r).expires \in Nat
  BY SourceAssumption DEF NewLot, NewReward, LotFields, IInv, TxInv
<1>2. \A l \in LotIds : l # r => lots'[l] = lots[l]
  BY DEF IssueReward, IInv, Shape
<1>3. r \in LotIds => lots'[r] = NewReward(r)
  BY DEF IssueReward, IInv, Shape
<1>4. Shape' /\ TxInv'
  BY <1>1, <1>2, <1>3 DEF IssueReward, IInv, Shape, TxInv
<1>5. ExpiryInv'
  BY <1>1, <1>2, <1>3 DEF IssueReward, IInv, ExpiryInv, LotIds, Sources
<1>6. QuoteInv'
  BY DEF IssueReward, IInv, QuoteInv, QuoteIsSpentOnce, Exists
<1> QED
  BY <1>4, <1>5, <1>6 DEF IInv

\* A reversal returns nothing to a swept lot, because that lot has expired.
LEMMA ReverseInv ==
  ASSUME IInv, NEW s \in Servers, CommitReverse(s)
  PROVE  IInv'
<1> DEFINE c == tx[s].charge
           back == Returned(c, clock)
           from == charges[c].from
<1>1. CASE UNCHANGED <<rows, clock>>
  BY <1>1, RefuseInv DEF CommitReverse, RefuseUnless
<1>2. CASE ~UNCHANGED <<rows, clock>>
  <2>1. /\ charges' = [charges EXCEPT ![c].reversal = tx[s].key]
        /\ lots' = [l \in LotIds |->
                     [lots[l] EXCEPT !.spent = @ - from[l], !.available = @ + back[l],
                                     !.expired = @ + (from[l] - back[l])]]
        /\ End(s) /\ UNCHANGED <<used, swept, consumed, clock>>
    BY <1>2 DEF CommitReverse, RefuseUnless
  <2>2. \A l \in swept : back[l] = 0 /\ l \in LotIds
    BY DEF IInv, ExpiryInv, Returned, LotIds, Sources
  <2>3. \A l \in LotIds : from[l] = 0 => back[l] = 0
    BY DEF Returned
  <2> HIDE DEF back
  <2>4. \A l \in LotIds : /\ DOMAIN lots'[l] = LotFields
                          /\ lots'[l].expires = lots[l].expires
                          /\ lots'[l].available = lots[l].available + back[l]
    BY <2>1 DEF IInv, Shape, LotFields
  <2>5. /\ DOMAIN charges' = Charges
        /\ \A d \in Charges : /\ DOMAIN charges'[d] = ChargeFields
                              /\ charges'[d].from = charges[d].from
                              /\ charges'[d].created = charges[d].created
    BY <2>1 DEF IInv, Shape, ChargeFields
  <2>6. Shape' /\ TxInv'
    BY <2>1, <2>4, <2>5 DEF IInv, Shape, TxInv, End, Idle
  <2>7. \A l \in LotIds \ used : lots'[l].available = 0
    <3>1. c \in Charges
      BY DEF CommitReverse, IInv, TxInv
    <3> QED
      BY <2>3, <2>4, <3>1 DEF IInv, ExpiryInv
  <2>8. ExpiryInv'
    <3>1. \A l \in swept : lots'[l].available = 0 /\ lots'[l].expires <= clock
      BY <2>2, <2>4 DEF IInv, ExpiryInv
    <3>2. \A l \in LotIds : lots'[l].expires \in Nat
      BY <2>4 DEF IInv, ExpiryInv
    <3>3. UNCHANGED <<used, swept, clock>>
      BY <2>1
    <3>4. \A m \in LotIds \ used : \A d \in Charges : charges'[d].from[m] = 0
      BY <2>5 DEF IInv, ExpiryInv
    <3> QED
      BY <2>7, <3>1, <3>2, <3>3, <3>4 DEF IInv, ExpiryInv
  <2>9. QuoteInv'
    BY <2>1, <2>5 DEF IInv, QuoteInv, QuoteIsSpentOnce, Exists, Charges
  <2> QED
    BY <2>6, <2>8, <2>9 DEF IInv
<1> QED
  BY <1>1, <1>2

LEMMA ExpireInv ==
  ASSUME IInv, NEW s \in Servers, CommitExpire(s)
  PROVE  IInv'
<1> DEFINE l == tx[s].lot
<1>1. CASE UNCHANGED <<rows, clock>>
  BY <1>1, RefuseInv DEF CommitExpire, RefuseUnless
<1>2. CASE ~UNCHANGED <<rows, clock>>
  <2>1. /\ lots[l].available > 0 /\ lots[l].expires <= tx[s].now
        /\ lots' = [lots EXCEPT ![l].available = 0, ![l].expired = @ + lots[l].available]
        /\ swept' = swept \cup {l}
        /\ End(s) /\ UNCHANGED <<charges, used, consumed, clock>>
    BY <1>2 DEF CommitExpire, RefuseUnless
  <2>2. l \in Rewards /\ l \in LotIds /\ tx[s].now \in Nat /\ tx[s].now <= clock
    BY DEF CommitExpire, IInv, TxInv, LotIds, Sources
  <2>3. l \in used /\ lots[l].expires \in Nat /\ clock \in Nat
    BY <2>1, <2>2 DEF IInv, ExpiryInv, TxInv
  <2> HIDE DEF l
  <2>4. /\ DOMAIN lots' = LotIds
        /\ \A m \in LotIds : /\ DOMAIN lots'[m] = LotFields
                              /\ lots'[m].expires = lots[m].expires
                              /\ m # l => lots'[m] = lots[m]
        /\ lots'[l].available = 0
    BY <2>1, <2>2 DEF IInv, Shape, LotFields
  <2>5. Shape' /\ TxInv'
    BY <2>1, <2>4 DEF IInv, Shape, TxInv, End, Idle
  <2>6. ExpiryInv'
    <3>1. lots'[l].expires <= clock
      BY <2>1, <2>2, <2>3, <2>4
    <3>2. swept \subseteq LotIds
      BY DEF IInv, ExpiryInv, LotIds, Sources
    <3> QED
      BY <2>1, <2>2, <2>3, <2>4, <3>1, <3>2 DEF IInv, ExpiryInv
  <2>7. QuoteInv'
    BY <2>1 DEF IInv, QuoteInv, QuoteIsSpentOnce, Exists
  <2> QED
    BY <2>5, <2>6, <2>7 DEF IInv
<1> QED
  BY <1>1, <1>2

LEMMA NextInv == IInv /\ [Next]_vars => IInv'
<1> SUFFICES ASSUME IInv, [Next]_vars PROVE IInv'
    OBVIOUS
<1>1. ASSUME NEW s \in Servers, NEW c \in Charges, BeginCharge(s, c) PROVE IInv'
  BY <1>1, BeginInv DEF BeginCharge
<1>2. ASSUME NEW s \in Servers, NEW c \in Charges, NEW k \in Keys, BeginReverse(s, c, k)
      PROVE IInv'
  BY <1>2, BeginInv DEF BeginReverse
<1>3. ASSUME NEW s \in Servers, NEW u \in TopUps, BeginTopUp(s, u) PROVE IInv'
  BY <1>3, BeginInv DEF BeginTopUp
<1>4. ASSUME NEW s \in Servers, NEW l \in Rewards, BeginExpire(s, l) PROVE IInv'
  BY <1>4, BeginInv DEF BeginExpire
<1>5. ASSUME NEW s \in Servers, Abort(s) PROVE IInv'
  BY <1>5, RefuseInv DEF Abort, Refuse
<1>6. CASE RebuildProjection
  <2>1. Shape' /\ TxInv'
    BY <1>6 DEF RebuildProjection, IInv, Shape, TxInv
  <2>2. ExpiryInv' /\ QuoteInv'
    BY <1>6 DEF RebuildProjection, IInv, ExpiryInv, QuoteInv, QuoteIsSpentOnce, Exists
  <2> QED
    BY <2>1, <2>2 DEF IInv
<1>7. CASE Tick
  <2>1. Shape' /\ TxInv'
    BY <1>7 DEF Tick, rows, IInv, Shape, TxInv
  <2>2. swept \subseteq LotIds
    BY DEF IInv, ExpiryInv, LotIds, Sources
  <2>3. ExpiryInv'
    BY <1>7, <2>2 DEF Tick, rows, IInv, ExpiryInv, TxInv
  <2>4. QuoteInv'
    BY <1>7 DEF Tick, rows, IInv, QuoteInv, QuoteIsSpentOnce, Exists
  <2> QED
    BY <2>1, <2>3, <2>4 DEF IInv
<1>8. CASE UNCHANGED vars
  <2>1. Shape' /\ TxInv'
    BY <1>8 DEF vars, rows, IInv, Shape, TxInv
  <2>2. ExpiryInv' /\ QuoteInv'
    BY <1>8 DEF vars, rows, IInv, ExpiryInv, QuoteInv, QuoteIsSpentOnce, Exists
  <2> QED
    BY <2>1, <2>2 DEF IInv
<1> QED
  BY <1>1, <1>2, <1>3, <1>4, <1>5, <1>6, <1>7, <1>8, QuotedChargeInv,
     AcceptedOperationInv, TopUpInv, RewardInv, ReverseInv, ExpireInv DEF Next

LEMMA Invariance == Spec => []IInv
<1> QED
  BY InitInv, NextInv, PTL DEF Spec

-----------------------------------------------------------------------------
(* The books                                                                 *)

\* A row that does not exist carries nothing, and no two rows of a table have the same
\* rank; a top-up and the reward it grants do, but are ordered by their class.
RanksInv ==
  /\ \A l \in LotIds : lots[l].created = 0 =>
       lots[l].available = 0 /\ \A c \in Charges : charges[c].from[l] = 0
  /\ \A l, m \in LotIds : l # m /\ (l \in Rewards <=> m \in Rewards) /\ lots[l].created # 0
       => lots[l].created # lots[m].created
  /\ \A c \in Charges : ~Exists(c) => charges[c] = NoCharge
  /\ \A c, d \in Charges : c # d /\ Exists(c) => charges[c].created # charges[d].created

\* The entries of a charge sum up to what it still owes, and no debt is repaid twice.
DebtInv == \A c \in Charges : charges[c].repaid <= charges[c].debt /\ owed[c] = Outstanding[c]

\* At most one top-up is open, so that nobody repaid what its snapshot shows as owed;
\* only a charge that was posted is being reversed.
OpenInv ==
  /\ \A s, r \in Servers : tx[s].op = "topup" /\ tx[r].op = "topup" => s = r
  /\ \A s \in Servers : tx[s].op = "topup" => \A c \in Charges : tx[s].owed[c] <= Outstanding[c]
  /\ \A s \in Servers : tx[s].op = "reverse" => Exists(tx[s].charge)

BookInv == BooksBalance /\ RanksInv /\ DebtInv /\ OpenInv

-----------------------------------------------------------------------------
(* The parts of an inductive step                                            *)

LEMMA Finiteness ==
  /\ IsFiniteSet(LotIds) /\ IsFiniteSet(TopUps) /\ IsFiniteSet(Rewards) /\ IsFiniteSet(Charges)
  /\ TopUps \cup Rewards = LotIds
  /\ \A S : S \subseteq LotIds => IsFiniteSet(S)
  /\ \A S : S \subseteq Charges => IsFiniteSet(S)
BY ChargeAssumption, FS_Subset DEF LotIds, Sources

\* What a transaction remembers
LEMMA TxKinds ==
  ASSUME TypeOK, NEW s \in Servers
  PROVE  /\ tx[s].op = "charge" => tx[s].charge \in Charges
         /\ tx[s].op = "reverse" => tx[s].charge \in Charges /\ tx[s].key \in Keys
         /\ tx[s].op = "topup" => tx[s].source \in TopUps /\ tx[s].owed \in [Charges -> Nat]
         /\ tx[s].op = "expire" => tx[s].lot \in Rewards /\ tx[s].now \in 0..MaxClock
<1>1. tx[s] \in Transaction
  BY DEF TypeOK
<1> QED
  BY <1>1 DEF Transaction, Idle

LEMMA OutstandingNat ==
  ASSUME TypeOK, DebtInv
  PROVE  Outstanding \in [Charges -> Nat]
BY DEF TypeOK, DebtInv, Charge, Outstanding

\* When the entries move with the rows, the account stays what they add up to.
LEMMA BooksFollow ==
  ASSUME BookInv, NEW paid \in Int, NEW promo \in Int, NEW debt \in Int,
         ChangeAccount(paid, promo, debt),
         Total(booked', TopUps) = Total(booked, TopUps) + paid,
         Total(booked', Rewards) = Total(booked, Rewards) + promo,
         Total(owed', Charges) = Total(owed, Charges) + debt,
         lots' \in [LotIds -> Lot], charges' \in [Charges -> Charge],
         \A l \in LotIds : booked'[l] = lots'[l].available, DebtInv'
  PROVE  /\ ProjectionIsExact' /\ DebtIsAttributed'
         /\ account' \in [paid : Nat, promo : Nat, debt : Nat]
<1>1. account' = [paid |-> Total(booked', TopUps), promo |-> Total(booked', Rewards),
                  debt |-> Total(owed', Charges)]
  BY DEF BookInv, BooksBalance, ProjectionIsExact, ChangeAccount
<1>2. Total(booked', TopUps) \in Nat
  <2>1. \A l \in TopUps : booked'[l] \in Nat
    BY DEF LotIds, Sources, Lot
  <2> QED
    BY <2>1, Finiteness, TotalNat
<1>3. Total(booked', Rewards) \in Nat
  <2>1. \A l \in Rewards : booked'[l] \in Nat
    BY DEF LotIds, Sources, Lot
  <2> QED
    BY <2>1, Finiteness, TotalNat
<1>4. \A c \in Charges : owed'[c] \in Nat /\ owed'[c] = Outstanding'[c]
  BY DEF DebtInv, Charge, Outstanding
<1>5. Total(owed', Charges) \in Nat
  BY <1>4, Finiteness, TotalNat
<1>6. Total(owed', Charges) = Total(Outstanding', Charges)
  <2>1. \A c \in Charges : owed'[c] = Outstanding'[c] /\ owed'[c] \in Int
    BY <1>4
  <2> QED
    BY <2>1, Finiteness, TotalAgree
<1>7. account' \in [paid : Nat, promo : Nat, debt : Nat]
  BY <1>1, <1>2, <1>3, <1>5
<1>8. DebtIsAttributed'
  BY <1>1, <1>6 DEF DebtIsAttributed
<1>9. ProjectionIsExact'
  BY <1>1 DEF ProjectionIsExact
<1> QED
  BY <1>7, <1>8, <1>9

\* A transaction that starts or ends without writing
LEMMA BooksUnwritten ==
  ASSUME BookInv, NEW s \in Servers, NEW t \in Transaction, tx' = [tx EXCEPT ![s] = t],
         t.op = "topup" => t.owed = Outstanding /\ \A r \in Servers : tx[r].op # "topup",
         t.op = "reverse" => Exists(t.charge),
         UNCHANGED rows, clock' \in 0..MaxClock, alarm' \in BOOLEAN
  PROVE  BookInv'
<1>1. TypeOK'
  <2>1. tx' \in [Servers -> Transaction]
    BY DEF BookInv, BooksBalance, TypeOK
  <2> QED
    BY <2>1 DEF BookInv, BooksBalance, TypeOK, rows
<1>2. LotsAreConserved' /\ ProjectionIsExact' /\ DebtIsAttributed'
  BY DEF BookInv, BooksBalance, LotsAreConserved, ProjectionIsExact, DebtIsAttributed,
         Outstanding, rows
<1>3. RanksInv' /\ DebtInv' /\ Outstanding' = Outstanding
      /\ \A c : charges'[c].created = charges[c].created
  BY DEF BookInv, RanksInv, DebtInv, Exists, Outstanding, rows
<1>4. \A r \in Servers : tx'[r] = IF r = s THEN t ELSE tx[r]
  BY DEF BookInv, BooksBalance, TypeOK
<1>5. \A c \in Charges : Outstanding[c] <= Outstanding[c]
  BY OutstandingNat DEF BookInv, BooksBalance
<1>6. OpenInv'
  BY <1>3, <1>4, <1>5 DEF BookInv, OpenInv, Exists
<1> QED
  BY <1>1, <1>2, <1>3, <1>6 DEF BookInv, BooksBalance

\* The spendable lots come in one order, and so do the debts.
LEMMA LotsOrdered ==
  ASSUME BookInv, NEW S \in SUBSET LotIds, \A l \in S : lots[l].available > 0
  PROVE  Ordered(S, EarlierLots)
<1>1. \A l \in S : lots[l].created # 0
  BY DEF BookInv, RanksInv
<1>2. \A l \in LotIds : lots[l].created \in Nat /\ lots[l].expires \in Nat
  BY DEF BookInv, BooksBalance, TypeOK, Lot
<1>3. \A l, m \in S : l # m /\ (l \in Rewards <=> m \in Rewards) => lots[l].created # lots[m].created
  BY <1>1 DEF BookInv, RanksInv
<1>4. \A l, m \in LotIds : l \in EarlierLots[m] <=> SpentBefore(l, m)
  BY DEF EarlierLots
<1>5. \A l \in S : ~SpentBefore(l, l)
  BY <1>2 DEF SpentBefore
<1>6. \A l, m \in S : l # m => SpentBefore(l, m) \/ SpentBefore(m, l)
  BY <1>2, <1>3 DEF SpentBefore
<1>7. \A l, m, k \in S : SpentBefore(l, m) /\ SpentBefore(m, k) => SpentBefore(l, k)
  BY <1>2 DEF SpentBefore
<1> QED
  BY <1>4, <1>5, <1>6, <1>7 DEF Ordered

LEMMA DebtsOrdered ==
  ASSUME BookInv, NEW S \in SUBSET Charges, \A c \in S : Outstanding[c] > 0
  PROVE  Ordered(S, EarlierDebts)
<1>1. \A c \in S : charges[c].created # 0
  <2> SUFFICES ASSUME NEW c \in S, charges[c].created = 0 PROVE FALSE
      OBVIOUS
  <2>1. charges[c] = NoCharge
    BY DEF BookInv, RanksInv, Exists
  <2>2. Outstanding[c] = 0
    BY <2>1 DEF Outstanding, NoCharge
  <2> QED
    BY <2>2
<1>2. \A c \in Charges : charges[c].created \in Nat
  BY DEF BookInv, BooksBalance, TypeOK, Charge
<1>3. \A c, d \in S : c # d => charges[c].created # charges[d].created
  BY <1>1 DEF BookInv, RanksInv, Exists
<1>4. \A c, d \in Charges : c \in EarlierDebts[d] <=> charges[c].created < charges[d].created
  BY DEF EarlierDebts, OlderDebt
<1> QED
  BY <1>2, <1>3, <1>4 DEF Ordered

\* The charges that were not reversed, and what each charge took of a lot
Posted    == {c \in Charges : charges[c].reversal = None}
Takes(l)  == [c \in Charges |-> charges[c].from[l]]

LEMMA SpentIs ==
  ASSUME BookInv, NEW l \in LotIds
  PROVE  lots[l].spent = Total(Takes(l), Posted)
BY DEF BookInv, BooksBalance, LotsAreConserved, Posted, Takes

\* What consumeForCharge takes is what the spendable lots have, and never more than the price.
LEMMA ConsumeGives ==
  ASSUME BookInv, NEW c \in Charges, NEW now \in Nat, NEW give,
         give = Draw(Spendable(c, now), Available, EarlierLots, Price[c])
  PROVE  /\ give \in [LotIds -> Nat] /\ \A l \in LotIds : give[l] <= lots[l].available
         /\ Total(give, LotIds) \in Nat /\ Total(give, LotIds) <= Price[c]
<1> DEFINE S == Spendable(c, now)
<1>1. S \in SUBSET LotIds /\ \A l \in S : lots[l].available > 0
  BY DEF Spendable
<1> HIDE DEF S
<1>2. Ordered(S, EarlierLots)
  BY <1>1, LotsOrdered
<1>3. IsFiniteSet(S)
  BY <1>1, Finiteness
<1>4. Price[c] \in Nat
  BY ChargeAssumption
<1>5. /\ DOMAIN Available = LotIds
      /\ \A l \in LotIds : Available[l] = lots[l].available /\ Available[l] \in Nat
  BY DEF Available, BookInv, BooksBalance, TypeOK, Lot
<1>6. give = Draw(S, Available, EarlierLots, Price[c])
  BY DEF S
<1>7. DOMAIN give = LotIds
  BY <1>1, <1>3, <1>4, <1>5, <1>6, DrawBounds
<1>8. \A l \in LotIds : /\ give[l] \in Nat /\ give[l] <= Available[l]
                        /\ l \notin S => give[l] = 0
  BY <1>1, <1>3, <1>4, <1>5, <1>6, DrawBounds
<1>9. give = [l \in LotIds |-> give[l]]
  BY <1>6, <1>7 DEF Draw
<1>10. Total(give, S) = Min2(Price[c], Total(Available, S))
  BY <1>1, <1>2, <1>3, <1>4, <1>5, <1>6, DrawTotal
<1>11. Total(give, LotIds) = Total(give, S)
  <2>1. \A l \in LotIds : give[l] \in Int
    BY <1>8
  <2>2. \A l \in LotIds \ S : give[l] = 0
    BY <1>8
  <2> QED
    BY <1>1, <2>1, <2>2, Finiteness, TotalWithin
<1>12. Total(Available, S) \in Nat
  <2>1. \A l \in S : Available[l] \in Nat
    BY <1>1, <1>5
  <2> QED
    BY <1>3, <2>1, TotalNat
<1>13. Total(give, LotIds) \in Nat /\ Total(give, LotIds) <= Price[c]
  BY <1>4, <1>10, <1>11, <1>12 DEF Min2
<1>14. give \in [LotIds -> Nat]
  BY <1>8, <1>9
<1> QED
  BY <1>5, <1>8, <1>13, <1>14

-----------------------------------------------------------------------------
(* Charges                                                                   *)

\* A charge takes what it pays from the lots and leaves the rest as debt.
LEMMA ConsumeBooks ==
  ASSUME BookInv, NEW s \in Servers, NEW c \in Charges, ~Exists(c), Consume(c, clock),
         End(s), UNCHANGED <<used, swept, clock, alarm>>, consumed' \subseteq Quotes
  PROVE  BookInv'
<1> DEFINE give == Draw(Spendable(c, clock), Available, EarlierLots, Price[c])
           debt == Price[c] - Total(give, LotIds)
           written == [created |-> NextRank(charges), from |-> give, debt |-> debt,
                   repaid |-> 0, reversal |-> None]
<1>0. clock \in Nat
  BY DEF BookInv, BooksBalance, TypeOK
<1>1. /\ give \in [LotIds -> Nat] /\ \A l \in LotIds : give[l] <= lots[l].available
      /\ Total(give, LotIds) \in Nat /\ Total(give, LotIds) <= Price[c]
  <2>1. give = Draw(Spendable(c, clock), Available, EarlierLots, Price[c])
    OBVIOUS
  <2> HIDE DEF give
  <2> QED
    BY <1>0, <2>1, ConsumeGives
<1>2. /\ lots' = [l \in LotIds |->
                  [lots[l] EXCEPT !.available = @ - give[l], !.spent = @ + give[l]]]
      /\ charges' = [charges EXCEPT ![c] = written]
      /\ booked' = [l \in LotIds |-> booked[l] - give[l]]
      /\ owed' = [owed EXCEPT ![c] = @ + debt]
      /\ ChangeAccount(-Total(give, TopUps), -Total(give, Rewards), debt)
  BY DEF Consume
<1> HIDE DEF give
<1>3. debt \in Nat
  BY <1>1, ChargeAssumption
<1>4. charges \in [Charges -> Charge] /\ lots \in [LotIds -> Lot]
  BY DEF BookInv, BooksBalance, TypeOK
<1>5. /\ NextRank(charges) \in Nat \ {0}
      /\ \A d \in Charges : charges[d].created < NextRank(charges)
  <2>1. DOMAIN charges = Charges /\ \A d \in Charges : charges[d].created \in Nat
    BY <1>4 DEF Charge
  <2> QED
    BY <2>1, Finiteness, NextRankIsNew
<1>6. written \in Charge
  BY <1>1, <1>3, <1>5 DEF Charge
<1>7. /\ charges' \in [Charges -> Charge] /\ charges'[c] = written
      /\ \A d \in Charges : d # c => charges'[d] = charges[d]
  BY <1>2, <1>4, <1>6
<1>8. charges[c] = NoCharge
  BY DEF BookInv, RanksInv
<1>9. /\ written.created = NextRank(charges) /\ written.from = give /\ written.debt = debt
      /\ written.repaid = 0 /\ written.reversal = None
  OBVIOUS
<1> HIDE DEF written, debt
<1>10. /\ lots' \in [LotIds -> Lot]
       /\ \A l \in LotIds : /\ lots'[l].created = lots[l].created
                            /\ lots'[l].original = lots[l].original
                            /\ lots'[l].expired = lots[l].expired
                            /\ lots'[l].available = lots[l].available - give[l]
                            /\ lots'[l].spent = lots[l].spent + give[l]
  <2>1. \A l \in LotIds : give[l] \in Nat /\ give[l] <= lots[l].available
    BY <1>1
  <2>2. \A l \in LotIds : /\ lots'[l] \in Lot
                            /\ lots'[l].created = lots[l].created
                            /\ lots'[l].original = lots[l].original
                            /\ lots'[l].expired = lots[l].expired
                            /\ lots'[l].available = lots[l].available - give[l]
                            /\ lots'[l].spent = lots[l].spent + give[l]
    <3> TAKE l \in LotIds
    <3>1. lots'[l] = [lots[l] EXCEPT !.available = @ - give[l], !.spent = @ + give[l]]
      BY <1>2
    <3>2. lots[l] \in Lot
      BY <1>4
    <3>3. lots[l].available - give[l] \in Nat /\ lots[l].spent + give[l] \in Nat
      BY <2>1, <3>2 DEF Lot
    <3> QED
      BY <3>1, <3>2, <3>3 DEF Lot
  <2>3. DOMAIN lots' = LotIds /\ lots' = [l \in DOMAIN lots' |-> lots'[l]]
    BY <1>2
  <2> QED
    BY <2>2, <2>3
<1>11. \A l \in LotIds : booked'[l] = booked[l] - give[l] /\ booked'[l] = lots'[l].available
  BY <1>2, <1>10 DEF BookInv, BooksBalance, ProjectionIsExact
<1>12. booked \in [LotIds -> Int] /\ owed \in [Charges -> Int]
  BY DEF BookInv, BooksBalance, TypeOK
<1>13. booked' \in [LotIds -> Int]
  <2>1. \A l \in LotIds : booked[l] - give[l] \in Int
    BY <1>1, <1>12
  <2> QED
    BY <1>2, <2>1
<1>14. /\ owed' \in [Charges -> Int]
       /\ \A d \in Charges : owed'[d] = IF d = c THEN owed[c] + debt ELSE owed[d]
  <2>1. owed[c] + debt \in Int
    BY <1>3, <1>12
  <2> QED
    BY <1>2, <1>12, <2>1
<1>15. owed[c] = 0 /\ Outstanding[c] = 0
  BY <1>8 DEF BookInv, DebtInv, Outstanding, NoCharge
<1>16. DebtInv'
  <2>1. \A d \in Charges : d # c => Outstanding'[d] = Outstanding[d]
    BY <1>7 DEF Outstanding
  <2>2. Outstanding'[c] = debt
    BY <1>3, <1>7, <1>9 DEF Outstanding
  <2>3. \A d \in Charges : owed'[d] = Outstanding'[d]
    BY <1>3, <1>14, <1>15, <2>1, <2>2 DEF BookInv, DebtInv
  <2>4. \A d \in Charges : charges'[d].repaid <= charges'[d].debt
    BY <1>3, <1>7, <1>9 DEF BookInv, DebtInv
  <2> QED
    BY <2>3, <2>4 DEF DebtInv
<1>17. Total(booked', TopUps) = Total(booked, TopUps) + (-Total(give, TopUps))
  <2>1. \A l \in TopUps : /\ booked[l] \in Int /\ give[l] \in Int
                          /\ booked'[l] = booked[l] - give[l]
    BY <1>1, <1>11, <1>12, Finiteness
  <2>2. Total(booked', TopUps) = Total(booked, TopUps) - Total(give, TopUps)
    BY <2>1, Finiteness, TotalMinus
  <2>3. Total(booked, TopUps) \in Int
    BY <2>1, Finiteness, TotalInt
  <2>4. Total(give, TopUps) \in Int
    BY <2>1, Finiteness, TotalInt
  <2> QED
    BY <2>2, <2>3, <2>4
<1>18. Total(booked', Rewards) = Total(booked, Rewards) + (-Total(give, Rewards))
  <2>1. \A l \in Rewards : /\ booked[l] \in Int /\ give[l] \in Int
                          /\ booked'[l] = booked[l] - give[l]
    BY <1>1, <1>11, <1>12, Finiteness
  <2>2. Total(booked', Rewards) = Total(booked, Rewards) - Total(give, Rewards)
    BY <2>1, Finiteness, TotalMinus
  <2>3. Total(booked, Rewards) \in Int
    BY <2>1, Finiteness, TotalInt
  <2>4. Total(give, Rewards) \in Int
    BY <2>1, Finiteness, TotalInt
  <2> QED
    BY <2>2, <2>3, <2>4
<1>19. Total(owed', Charges) = Total(owed, Charges) + debt
  <2>1. \A d \in Charges : /\ owed[d] \in Int
                            /\ owed'[d] = IF d = c THEN owed[c] + debt ELSE owed[d]
    BY <1>12, <1>14
  <2>2. debt \in Int
    BY <1>3
  <2> QED
    BY <2>1, <2>2, Finiteness, TotalChange
<1>20. -Total(give, TopUps) \in Int /\ -Total(give, Rewards) \in Int
  <2>1. \A l \in TopUps : give[l] \in Int
    BY <1>1, Finiteness
  <2>2. \A l \in Rewards : give[l] \in Int
    BY <1>1, Finiteness
  <2>3. Total(give, TopUps) \in Int
    BY <2>1, Finiteness, TotalInt
  <2>4. Total(give, Rewards) \in Int
    BY <2>2, Finiteness, TotalInt
  <2> QED
    BY <2>3, <2>4
<1>21. /\ ProjectionIsExact' /\ DebtIsAttributed'
       /\ account' \in [paid : Nat, promo : Nat, debt : Nat]
  <2> DEFINE paid == -Total(give, TopUps)
             promo == -Total(give, Rewards)
  <2>1. ChangeAccount(paid, promo, debt)
    BY <1>2, Zenon
  <2>5. debt \in Int
    BY <1>3
  <2>2. paid \in Int /\ promo \in Int
    BY <1>20
  <2>3. Total(booked', TopUps) = Total(booked, TopUps) + paid
    BY <1>17
  <2>4. Total(booked', Rewards) = Total(booked, Rewards) + promo
    BY <1>18
  <2> HIDE DEF paid, promo
  <2> QED
    BY <1>7, <1>10, <1>11, <1>16, <1>19, <2>1, <2>2, <2>3, <2>4, <2>5, BooksFollow
<1>22. LotsAreConserved'
  <2> SUFFICES ASSUME NEW l \in LotIds
               PROVE  /\ lots'[l].original =
                          lots'[l].available + lots'[l].spent + lots'[l].expired
                      /\ lots'[l].spent = Total([d \in Charges |-> charges'[d].from[l]],
                                                {d \in Charges : charges'[d].reversal = None})
      BY DEF LotsAreConserved
  <2> DEFINE T == [d \in Charges |-> charges'[d].from[l]]
  <2>1. {d \in Charges : charges'[d].reversal = None} = Posted /\ c \in Posted
    BY <1>7, <1>8, <1>9 DEF Posted, NoCharge
  <2>2. \A d \in Posted : /\ Takes(l)[d] \in Int
                          /\ T[d] = IF d = c THEN Takes(l)[c] + give[l] ELSE Takes(l)[d]
    BY <1>1, <1>4, <1>7, <1>8, <1>9 DEF Posted, Takes, NoCharge, Charge
  <2>3. give[l] \in Int /\ IsFiniteSet(Posted)
    BY <1>1, Finiteness DEF Posted
  <2> HIDE DEF T
  <2>4. Total(T, Posted) = Total(Takes(l), Posted) + give[l]
    <3> DEFINE f == Takes(l)
               n == give[l]
    <3>1. \A d \in Posted : f[d] \in Int /\ T[d] = IF d = c THEN f[c] + n ELSE f[d]
      BY <2>2
    <3>4. IsFiniteSet(Posted)
      BY <2>3
    <3>2. n \in Int /\ c \in Posted
      BY <2>1, <2>3
    <3> HIDE DEF f, n
    <3>3. Total(T, Posted) = Total(f, Posted) + n
      BY <3>1, <3>2, <3>4, TotalChange, Zenon
    <3> QED
      BY <3>3 DEF f, n
  <2>5. lots'[l].spent = Total(T, Posted)
    BY <1>10, <2>4, SpentIs
  <2>6. lots[l].original = lots[l].available + lots[l].spent + lots[l].expired
    BY DEF BookInv, BooksBalance, LotsAreConserved
  <2>7. /\ lots[l].available \in Nat /\ lots[l].spent \in Nat /\ lots[l].expired \in Nat
        /\ give[l] \in Nat
    BY <1>1, <1>4 DEF Lot
  <2>8. lots'[l].original = lots'[l].available + lots'[l].spent + lots'[l].expired
    BY <1>10, <2>6, <2>7
  <2> QED
    BY <2>1, <2>5, <2>8 DEF T
<1>23. TypeOK'
  <2>1. tx' \in [Servers -> Transaction]
    BY DEF End, BookInv, BooksBalance, TypeOK, Transaction
  <2> QED
    BY <1>7, <1>10, <1>13, <1>14, <1>21, <2>1 DEF BookInv, BooksBalance, TypeOK
<1>24. RanksInv'
  <2>1. \A l \in LotIds : lots'[l].created = 0 =>
          lots'[l].available = 0 /\ \A d \in Charges : charges'[d].from[l] = 0
    <3> SUFFICES ASSUME NEW l \in LotIds, lots'[l].created = 0
                 PROVE  lots'[l].available = 0 /\ \A d \in Charges : charges'[d].from[l] = 0
        OBVIOUS
    <3>1. lots[l].available = 0 /\ \A d \in Charges : charges[d].from[l] = 0
      BY <1>10 DEF BookInv, RanksInv
    <3>2. give[l] = 0
      BY <1>1, <3>1
    <3> QED
      BY <1>7, <1>9, <1>10, <3>1, <3>2
  <2>2. \A l, m \in LotIds : l # m /\ (l \in Rewards <=> m \in Rewards) /\ lots'[l].created # 0
          => lots'[l].created # lots'[m].created
    BY <1>10 DEF BookInv, RanksInv
  <2>3. \A d \in Charges : charges'[d].created = 0 => charges'[d] = NoCharge
    BY <1>5, <1>7, <1>9 DEF BookInv, RanksInv, Exists
  <2>4. \A d \in Charges : charges[d].created \in Nat
    BY <1>4 DEF Charge
  <2>5. \A d, e \in Charges : d # e /\ charges'[d].created # 0
          => charges'[d].created # charges'[e].created
    BY <1>5, <1>7, <1>9, <2>4 DEF BookInv, RanksInv, Exists
  <2> QED
    BY <2>1, <2>2, <2>3, <2>5 DEF RanksInv, Exists
<1>25. OpenInv'
  <2>1. \A d \in Charges : Outstanding[d] <= Outstanding'[d] /\ Outstanding[d] \in Nat
                           /\ Outstanding'[d] \in Int
    <3>1. \A d \in Charges : d # c => Outstanding'[d] = Outstanding[d]
      BY <1>7 DEF Outstanding
    <3>2. Outstanding'[c] = debt
      BY <1>3, <1>7, <1>9 DEF Outstanding
    <3> QED
      BY <1>3, <1>15, <3>1, <3>2, OutstandingNat DEF BookInv, BooksBalance
  <2>2. \A r \in Servers : tx'[r].op = "topup" => tx'[r] = tx[r]
    BY DEF End, BookInv, BooksBalance, TypeOK, Idle
  <2>3. \A r \in Servers : tx[r].op = "topup" => tx[r].owed \in [Charges -> Nat]
    BY TxKinds DEF BookInv, BooksBalance
  <2>4. ASSUME NEW r \in Servers, tx'[r].op = "topup", NEW d \in Charges
        PROVE  tx'[r].owed[d] <= Outstanding'[d]
    <3>1. tx[r].owed[d] <= Outstanding[d] /\ tx[r].owed[d] \in Nat
      BY <2>2, <2>3, <2>4 DEF BookInv, OpenInv
    <3> QED
      BY <2>1, <2>2, <2>4, <3>1
  <2>5. \A r \in Servers : tx'[r].op = "reverse" => tx'[r] = tx[r]
    BY DEF End, BookInv, BooksBalance, TypeOK, Idle
  <2>6. \A r \in Servers : tx[r].op = "reverse" => tx[r].charge \in Charges
    BY TxKinds DEF BookInv, BooksBalance
  <2>7. \A d \in Charges : charges[d].created # 0 => charges'[d].created # 0
    BY <1>5, <1>7, <1>9
  <2>8. \A r \in Servers : tx'[r].op = "reverse" => charges'[tx'[r].charge].created # 0
    BY <2>5, <2>6, <2>7 DEF BookInv, OpenInv, Exists
  <2> QED
    BY <2>2, <2>4, <2>8 DEF BookInv, OpenInv, Exists
<1> QED
  BY <1>16, <1>21, <1>22, <1>23, <1>24, <1>25 DEF BookInv, BooksBalance

-----------------------------------------------------------------------------
(* Top-ups and rewards                                                       *)

\* What a top-up found owed is what is owed now, when it explains the account's debt:
\* nothing was repaid since, and any debt made since would be missing.
LEMMA OldSnapshot ==
  ASSUME BookInv, NEW s \in Servers, tx[s].op = "topup", Total(tx[s].owed, Charges) = account.debt
  PROVE  tx[s].owed = Outstanding
<1>1. tx[s].owed \in [Charges -> Nat] /\ Outstanding \in [Charges -> Nat]
  BY TxKinds, OutstandingNat DEF BookInv, BooksBalance
<1>2. \A c \in Charges : tx[s].owed[c] <= Outstanding[c]
  BY DEF BookInv, OpenInv
<1>3. Total(tx[s].owed, Charges) = Total(Outstanding, Charges)
  BY DEF BookInv, BooksBalance, DebtIsAttributed
<1>4. \A f, g \in [Charges -> Nat] :
        (\A c \in Charges : f[c] <= g[c]) /\ Total(f, Charges) = Total(g, Charges) => f = g
  <2> TAKE f, g \in [Charges -> Nat]
  <2> HAVE (\A c \in Charges : f[c] <= g[c]) /\ Total(f, Charges) = Total(g, Charges)
  <2>1. \A c \in Charges : f[c] \in Nat /\ g[c] \in Nat /\ f[c] <= g[c]
    OBVIOUS
  <2>2. \A c \in Charges : f[c] = g[c]
    BY <2>1, Finiteness, TotalSame
  <2> QED
    BY <2>2
<1> QED
  BY <1>1, <1>2, <1>3, <1>4

\* A top-up repays exactly what it takes off the account's debt.
LEMMA RepaymentsGive ==
  ASSUME BookInv, NEW m \in Nat, m <= account.debt, NEW repaid,
         repaid = Repayments(Outstanding, m)
  PROVE  /\ repaid \in [Charges -> Nat] /\ \A c \in Charges : repaid[c] <= Outstanding[c]
         /\ Total(repaid, Charges) = m
<1> DEFINE S == {c \in Charges : Outstanding[c] > 0}
<1>1. S \in SUBSET Charges /\ \A c \in S : Outstanding[c] > 0
  OBVIOUS
<1>2. Outstanding \in [Charges -> Nat]
  BY OutstandingNat DEF BookInv, BooksBalance
<1>3. \A c \in Charges \ S : Outstanding[c] = 0
  BY <1>2
<1>4. repaid = Draw(S, Outstanding, EarlierDebts, m)
  BY DEF Repayments
<1> HIDE DEF S
<1>5. Ordered(S, EarlierDebts)
  BY <1>1, DebtsOrdered
<1>6. IsFiniteSet(S)
  BY <1>1, Finiteness
<1>7. DOMAIN Outstanding = Charges /\ \A c \in Charges : Outstanding[c] \in Nat
  BY <1>2
<1>8. DOMAIN repaid = Charges
  BY <1>1, <1>4, <1>6, <1>7, DrawBounds
<1>9. \A c \in Charges : /\ repaid[c] \in Nat /\ repaid[c] <= Outstanding[c]
                         /\ c \notin S => repaid[c] = 0
  BY <1>1, <1>4, <1>6, <1>7, DrawBounds
<1>10. Total(repaid, S) = Min2(m, Total(Outstanding, S))
  BY <1>1, <1>4, <1>5, <1>6, <1>7, DrawTotal
<1>11. repaid \in [Charges -> Nat]
  <2>1. repaid = [c \in Charges |-> repaid[c]]
    BY <1>4, <1>8 DEF Draw
  <2> QED
    BY <1>9, <2>1
<1>12. Total(repaid, Charges) = Total(repaid, S)
  <2>1. \A c \in Charges : repaid[c] \in Int
    BY <1>9
  <2>2. \A c \in Charges \ S : repaid[c] = 0
    BY <1>9
  <2> QED
    BY <1>1, <2>1, <2>2, Finiteness, TotalWithin
<1>13. Total(Outstanding, Charges) = Total(Outstanding, S)
  <2>1. \A c \in Charges : Outstanding[c] \in Int
    BY <1>7
  <2> QED
    BY <1>1, <1>3, <2>1, Finiteness, TotalWithin
<1>14. account.debt = Total(Outstanding, Charges) /\ account.debt \in Nat
  BY DEF BookInv, BooksBalance, DebtIsAttributed, TypeOK
<1>15. Total(repaid, Charges) = m
  BY <1>10, <1>12, <1>13, <1>14 DEF Min2
<1> QED
  BY <1>9, <1>11, <1>15

\* An empty lot nobody took anything from
LEMMA UnusedLot ==
  ASSUME BookInv, ExpiryInv, NEW l \in LotIds, l \notin used
  PROVE  /\ booked[l] = 0 /\ lots[l].available = 0
         /\ \A c \in Charges : charges[c].from[l] = 0
BY DEF BookInv, BooksBalance, ProjectionIsExact, ExpiryInv

\* A new lot
LEMMA NewLotIs ==
  ASSUME BookInv, NEW credits \in Nat, NEW expires \in Nat
  PROVE  /\ NewLot(credits, expires) \in Lot
         /\ NewLot(credits, expires).original = credits
         /\ NewLot(credits, expires).available = credits
         /\ NewLot(credits, expires).spent = 0 /\ NewLot(credits, expires).expired = 0
         /\ NewLot(credits, expires).created = NextRank(lots)
         /\ NextRank(lots) # 0 /\ \A l \in LotIds : lots[l].created # NextRank(lots)
<1>1. lots \in [LotIds -> Lot]
  BY DEF BookInv, BooksBalance, TypeOK
<1>2. DOMAIN lots = LotIds /\ \A l \in LotIds : lots[l].created \in Nat
  BY <1>1 DEF Lot
<1>3. NextRank(lots) \in Nat \ {0} /\ \A l \in LotIds : lots[l].created < NextRank(lots)
  BY <1>2, Finiteness, NextRankIsNew
<1>4. \A l \in LotIds : lots[l].created # NextRank(lots)
  BY <1>2, <1>3
<1> QED
  BY <1>3, <1>4 DEF NewLot, Lot

\* Conservation, when no charge is posted or reversed and new lots are untouched.
LEMMA ConservedWithNewLots ==
  ASSUME BookInv, ExpiryInv, \A c \in Charges : /\ charges'[c].from = charges[c].from
                                               /\ charges'[c].reversal = charges[c].reversal,
         \A l \in LotIds : \/ lots'[l] = lots[l]
                           \/ /\ l \notin used /\ lots'[l].spent = 0 /\ lots'[l].expired = 0
                              /\ lots'[l].original = lots'[l].available
                              /\ lots'[l].available \in Nat
  PROVE  LotsAreConserved'
<1> SUFFICES ASSUME NEW l \in LotIds
             PROVE  /\ lots'[l].original = lots'[l].available + lots'[l].spent + lots'[l].expired
                    /\ lots'[l].spent = Total([c \in Charges |-> charges'[c].from[l]],
                                              {c \in Charges : charges'[c].reversal = None})
    BY DEF LotsAreConserved
<1>1. /\ {c \in Charges : charges'[c].reversal = None} = Posted
      /\ [c \in Charges |-> charges'[c].from[l]] = Takes(l)
  BY DEF Posted, Takes
<1>2. CASE lots'[l] = lots[l]
  <2>1. lots[l].original = lots[l].available + lots[l].spent + lots[l].expired
    BY DEF BookInv, BooksBalance, LotsAreConserved
  <2> QED
    BY <1>1, <1>2, <2>1, SpentIs
<1>3. CASE lots'[l] # lots[l]
  <2>1. Posted \subseteq Charges
    BY DEF Posted
  <2>2. IsFiniteSet(Posted)
    BY <2>1, Finiteness
  <2>3. \A c \in Posted : Takes(l)[c] = 0
    BY <1>3, <2>1, UnusedLot DEF Takes
  <2>4. Total(Takes(l), Posted) = 0
    BY <2>2, <2>3, TotalZero
  <2>5. lots'[l].spent = 0
    BY <1>3
  <2>6. lots'[l].original = lots'[l].available + lots'[l].spent + lots'[l].expired
    BY <1>3
  <2> QED
    BY <1>1, <2>4, <2>5, <2>6
<1> QED
  BY <1>2, <1>3

\* A top-up repays debts, and the lot it makes of the rest and the reward are new.
LEMMA TopUpBooks ==
  ASSUME BookInv, ExpiryInv, NEW s \in Servers, CommitTopUp(s)
  PROVE  BookInv'
<1> DEFINE u == tx[s].source
           m == Min2(Credits[u], account.debt)
           added == Credits[u] - m
           due == IF u \in Qualifying THEN Welcome \ used ELSE {}
           positions == IF SnapshotReads THEN tx[s].owed ELSE Outstanding
           repaid == Repayments(positions, m)
<1>1. CASE UNCHANGED rows
  <2>1. Idle \in Transaction /\ Idle.op # "topup" /\ Idle.op # "reverse"
    BY DEF Transaction, Idle
  <2>2. tx' = [tx EXCEPT ![s] = Idle]
    BY DEF CommitTopUp, RefuseUnless, End
  <2>3. clock' \in 0..MaxClock /\ alarm' \in BOOLEAN
    BY DEF CommitTopUp, RefuseUnless, BookInv, BooksBalance, TypeOK
  <2> QED
    BY <1>1, <2>1, <2>2, <2>3, BooksUnwritten
<1>2. CASE ~UNCHANGED rows
  <2>1. PICK granted \in SUBSET due :
          /\ u \notin used /\ Total(positions, Charges) = account.debt
          /\ used' = used \cup {u} \cup due
          /\ lots' = [l \in LotIds |->
                       IF l = u /\ added > 0 THEN NewLot(added, 0)
                       ELSE IF l \in granted THEN NewReward(l) ELSE lots[l]]
          /\ booked' = [l \in LotIds |->
                         booked[l] + (IF l = u THEN added
                                      ELSE IF l \in granted THEN Credits[l] ELSE 0)]
          /\ charges' = [c \in Charges |-> [charges[c] EXCEPT !.repaid = @ + repaid[c]]]
          /\ owed' = [c \in Charges |-> owed[c] - repaid[c]]
          /\ ChangeAccount(added, Total(Credits, granted), -m)
          /\ End(s) /\ UNCHANGED <<swept, consumed, clock, alarm>>
    BY <1>2 DEF CommitTopUp, RefuseUnless
  <2>2. tx[s].op = "topup" /\ u \in TopUps
    BY TxKinds DEF CommitTopUp, BookInv, BooksBalance
  <2>3. granted \subseteq Welcome \ used /\ granted \subseteq Rewards \ used
    BY SourceAssumption
  <2>4. u \in LotIds /\ u \notin granted /\ Rewards \subseteq LotIds /\ TopUps \subseteq LotIds
        /\ TopUps \cap Rewards = {}
    BY <2>2, <2>3, SourceAssumption DEF LotIds, Sources
  <2>5. /\ account.debt \in Nat /\ Credits[u] \in Nat /\ clock \in Nat /\ Credits \in [LotIds -> Nat \ {0}]
        /\ \A r \in Rewards : clock + Validity[r] \in Nat
    BY <2>2, <2>4, SourceAssumption DEF BookInv, BooksBalance, TypeOK, LotIds
  <2>6. positions = Outstanding
    BY <2>1, <2>2, OldSnapshot
  <2> HIDE DEF u, due, positions
  <2>7. m \in Nat /\ m <= account.debt /\ added \in Nat
    BY <2>5 DEF Min2
  <2>8. repaid = Repayments(Outstanding, m)
    BY <2>6
  <2> HIDE DEF m, repaid
  <2>9. /\ repaid \in [Charges -> Nat] /\ \A c \in Charges : repaid[c] <= Outstanding[c]
        /\ Total(repaid, Charges) = m
    BY <2>7, <2>8, RepaymentsGive
  <2> HIDE DEF added
  <2>10. /\ charges \in [Charges -> Charge] /\ lots \in [LotIds -> Lot]
         /\ booked \in [LotIds -> Int] /\ owed \in [Charges -> Int]
         /\ Outstanding \in [Charges -> Nat]
    BY OutstandingNat DEF BookInv, BooksBalance, TypeOK
  <2>11. /\ charges' \in [Charges -> Charge]
         /\ \A c \in Charges : /\ charges'[c].created = charges[c].created
                               /\ charges'[c].from = charges[c].from
                               /\ charges'[c].debt = charges[c].debt
                               /\ charges'[c].reversal = charges[c].reversal
                               /\ charges'[c].repaid = charges[c].repaid + repaid[c]
                               /\ charges'[c] = [charges[c] EXCEPT !.repaid = @ + repaid[c]]
    <3>1. \A c \in Charges : charges[c] \in Charge /\ repaid[c] \in Nat
      BY <2>9, <2>10
    <3>2. \A c \in Charges : /\ charges'[c] \in Charge
                             /\ charges'[c].created = charges[c].created
                             /\ charges'[c].from = charges[c].from
                             /\ charges'[c].debt = charges[c].debt
                             /\ charges'[c].reversal = charges[c].reversal
                             /\ charges'[c].repaid = charges[c].repaid + repaid[c]
      <4> TAKE c \in Charges
      <4>1. charges'[c] = [charges[c] EXCEPT !.repaid = @ + repaid[c]]
        BY <2>1
      <4>2. charges[c].repaid + repaid[c] \in Nat
        BY <3>1 DEF Charge
      <4> QED
        BY <3>1, <4>1, <4>2 DEF Charge
    <3>3. charges' = [c \in Charges |-> charges'[c]]
      BY <2>1
    <3>4. charges' \in [Charges -> Charge]
      BY <3>2, <3>3
    <3>5. \A c \in Charges : charges'[c] = [charges[c] EXCEPT !.repaid = @ + repaid[c]]
      BY <2>1
    <3> QED
      BY <3>2, <3>4, <3>5
  <2>12. \A c \in Charges : /\ Outstanding'[c] = Outstanding[c] - repaid[c]
                            /\ charges'[c].repaid <= charges'[c].debt
    <3> SUFFICES ASSUME NEW c \in Charges
                 PROVE  /\ Outstanding'[c] = Outstanding[c] - repaid[c]
                        /\ charges'[c].repaid <= charges'[c].debt
        OBVIOUS
    <3>1. charges[c].repaid \in Nat /\ charges[c].debt \in Nat /\ repaid[c] \in Nat
      BY <2>9, <2>10 DEF Charge
    <3>2. Outstanding[c] = charges[c].debt - charges[c].repaid
      BY DEF Outstanding
    <3>3. Outstanding'[c] = charges'[c].debt - charges'[c].repaid
      BY DEF Outstanding
    <3>4. repaid[c] <= Outstanding[c]
      BY <2>9
    <3> QED
      BY <2>11, <3>1, <3>2, <3>3, <3>4
  <2>13. \A c \in Charges : owed'[c] = owed[c] - repaid[c]
    BY <2>1
  <2>14. DebtInv'
    BY <2>12, <2>13 DEF BookInv, DebtInv
  <2>15. \A l \in LotIds :
           \/ l = u /\ added > 0 /\ lots'[l] = NewLot(added, 0)
           \/ l \in granted /\ lots'[l] = NewLot(Credits[l], clock + Validity[l])
           \/ l \notin granted /\ (l = u => added = 0) /\ lots'[l] = lots[l]
    BY <2>1, <2>3, <2>4, <2>7 DEF NewReward
  <2>16. NewLot(added, 0) \in Lot /\ NewLot(added, 0).available = added
         /\ NewLot(added, 0).original = added /\ NewLot(added, 0).spent = 0
         /\ NewLot(added, 0).expired = 0 /\ NewLot(added, 0).created = NextRank(lots)
    BY <2>7, NewLotIs
  <2>17. \A l \in granted :
           LET new == NewLot(Credits[l], clock + Validity[l])
           IN  new \in Lot /\ new.available = Credits[l] /\ new.original = Credits[l]
               /\ new.spent = 0 /\ new.expired = 0 /\ new.created = NextRank(lots)
    <3> TAKE l \in granted
    <3>1. Credits[l] \in Nat /\ clock + Validity[l] \in Nat
      BY <2>3, <2>4, <2>5
    <3> QED
      BY <3>1, NewLotIs
  <2>18. NextRank(lots) # 0 /\ \A l \in LotIds : lots[l].created # NextRank(lots)
    BY <2>7, NewLotIs
  <2>19. lots' \in [LotIds -> Lot]
    <3>1. \A l \in LotIds : lots'[l] \in Lot
      BY <2>10, <2>15, <2>16, <2>17
    <3>2. lots' = [l \in LotIds |-> lots'[l]]
      BY <2>1
    <3> QED
      BY <3>1, <3>2
  <2>20. u \notin used /\ \A l \in granted : l \notin used /\ l \in LotIds
    BY <2>1, <2>3, <2>4
  <2>21. \A l \in LotIds : booked'[l] = booked[l] + (IF l = u THEN added
                                       ELSE IF l \in granted THEN Credits[l] ELSE 0)
    BY <2>1
  <2>22. \A l \in LotIds : booked'[l] = lots'[l].available
    <3> TAKE l \in LotIds
    <3>1. booked[l] = lots[l].available /\ booked[l] \in Int
      BY <2>10 DEF BookInv, BooksBalance, ProjectionIsExact
    <3>2. CASE l = u /\ added > 0
      BY <2>4, <2>7, <2>15, <2>16, <2>20, <2>21, <3>2, UnusedLot
    <3>3. CASE l \in granted
      <4>1. booked[l] = 0 /\ l # u
        BY <2>4, <2>20, <3>3, UnusedLot
      <4>2. booked'[l] = Credits[l] /\ Credits[l] \in Nat
        BY <2>5, <2>21, <3>3, <4>1
      <4> QED
        BY <2>4, <2>15, <2>17, <3>3, <4>2
    <3>4. CASE ~(l = u /\ added > 0) /\ l \notin granted
      <4>1. lots'[l] = lots[l]
        BY <2>15, <3>4
      <4>2. booked'[l] = booked[l]
        BY <2>7, <2>21, <3>1, <3>4
      <4> QED
        BY <3>1, <4>1, <4>2
    <3> QED
      BY <3>2, <3>3, <3>4
  <2>23. booked' \in [LotIds -> Int] /\ owed' \in [Charges -> Int]
    <3>1. \A l \in LotIds : booked'[l] \in Int
      BY <2>5, <2>7, <2>10, <2>21
    <3>2. \A c \in Charges : owed'[c] \in Int
      BY <2>9, <2>10, <2>13
    <3>3. booked' = [l \in LotIds |-> booked'[l]] /\ owed' = [c \in Charges |-> owed'[c]]
      BY <2>1
    <3>4. booked' \in [LotIds -> Int]
      BY <3>1, <3>3
    <3>5. owed' \in [Charges -> Int]
      BY <3>2, <3>3
    <3> QED
      BY <3>4, <3>5
  <2>24. Total(booked', TopUps) = Total(booked, TopUps) + added
    <3>1. \A l \in TopUps : booked[l] \in Int /\ booked'[l] = IF l = u THEN booked[u] + added ELSE booked[l]
      BY <2>3, <2>4, <2>10, <2>21
    <3>2. IsFiniteSet(TopUps) /\ added \in Int /\ u \in TopUps
      BY <2>2, <2>7, Finiteness DEF u
    <3> QED
      BY <3>1, <3>2, TotalChange, Zenon
  <2>25. Total(booked', Rewards) = Total(booked, Rewards) + Total(Credits, granted)
    <3> DEFINE g == [l \in Rewards |-> IF l \in granted THEN Credits[l] ELSE 0]
    <3>1. \A l \in Rewards : /\ booked[l] \in Int /\ g[l] \in Int
                             /\ booked'[l] = booked[l] + g[l]
      BY <2>2, <2>4, <2>5, <2>10, <2>21 DEF u
    <3>2. \A l \in Rewards \ granted : g[l] = 0
      OBVIOUS
    <3>3. \A l \in granted : g[l] = Credits[l] /\ g[l] \in Int
      BY <2>3, <2>4, <2>5
    <3>4. granted \in SUBSET Rewards /\ IsFiniteSet(granted)
      BY <2>3, <2>4, Finiteness
    <3> HIDE DEF g
    <3>5. Total(booked', Rewards) = Total(booked, Rewards) + Total(g, Rewards)
      BY <3>1, Finiteness, TotalPlus
    <3>6. Total(g, Rewards) = Total(g, granted)
      BY <3>1, <3>2, <3>4, Finiteness, TotalWithin
    <3>7. Total(g, granted) = Total(Credits, granted)
      BY <3>3, <3>4, TotalAgree
    <3> QED
      BY <3>5, <3>6, <3>7
  <2>26. Total(owed', Charges) = Total(owed, Charges) + (-m)
    <3>1. \A c \in Charges : /\ owed[c] \in Int /\ repaid[c] \in Int
                             /\ owed'[c] = owed[c] - repaid[c]
      BY <2>9, <2>10, <2>13
    <3>2. Total(owed', Charges) = Total(owed, Charges) - Total(repaid, Charges)
      BY <3>1, Finiteness, TotalMinus
    <3>3. Total(owed, Charges) \in Int
      BY <3>1, Finiteness, TotalInt
    <3> QED
      BY <2>7, <2>9, <3>2, <3>3
  <2>27. Total(Credits, granted) \in Int
    <3>1. \A l \in granted : Credits[l] \in Int
      BY <2>3, <2>4, <2>5
    <3>2. IsFiniteSet(granted)
      BY <2>3, <2>4, Finiteness
    <3> QED
      BY <3>1, <3>2, TotalInt
  <2>28. /\ ProjectionIsExact' /\ DebtIsAttributed'
         /\ account' \in [paid : Nat, promo : Nat, debt : Nat]
    <3> DEFINE promo == Total(Credits, granted)
               debt == -m
    <3>1. ChangeAccount(added, promo, debt)
      BY <2>1, Zenon
    <3>2. added \in Int /\ promo \in Int /\ debt \in Int
      BY <2>7, <2>27
    <3>3. Total(booked', Rewards) = Total(booked, Rewards) + promo
      BY <2>25
    <3>4. Total(owed', Charges) = Total(owed, Charges) + debt
      BY <2>26
    <3> HIDE DEF promo, debt
    <3> QED
      BY <2>11, <2>14, <2>19, <2>22, <2>24, <3>1, <3>2, <3>3, <3>4, BooksFollow
  <2>29. LotsAreConserved'
    <3>1. \A l \in LotIds : \/ lots'[l] = lots[l]
                            \/ /\ l \notin used /\ lots'[l].spent = 0 /\ lots'[l].expired = 0
                               /\ lots'[l].original = lots'[l].available
                               /\ lots'[l].available \in Nat
      <4> TAKE l \in LotIds
      <4>1. CASE l = u /\ added > 0 /\ lots'[l] = NewLot(added, 0)
        BY <2>7, <2>16, <2>20, <4>1
      <4>2. CASE l \in granted /\ lots'[l] = NewLot(Credits[l], clock + Validity[l])
        BY <2>5, <2>17, <2>20, <4>2
      <4> QED
        BY <2>15, <4>1, <4>2
    <3>2. \A c \in Charges : /\ charges'[c].from = charges[c].from
                             /\ charges'[c].reversal = charges[c].reversal
      BY <2>11
    <3> QED
      BY <3>1, <3>2, ConservedWithNewLots
  <2>30. TypeOK'
    <3>1. tx' \in [Servers -> Transaction]
      BY <2>1 DEF End, BookInv, BooksBalance, TypeOK, Transaction
    <3>2. used' \subseteq Sources
      BY <2>1, <2>2, SourceAssumption DEF due, u, BookInv, BooksBalance, TypeOK, Sources
    <3> QED
      BY <2>1, <2>11, <2>19, <2>23, <2>28, <3>1, <3>2 DEF BookInv, BooksBalance, TypeOK
  <2>31. RanksInv'
    <3>1. \A l \in LotIds : lots'[l].created = 0 =>
            lots'[l].available = 0 /\ \A c \in Charges : charges'[c].from[l] = 0
      BY <2>11, <2>15, <2>16, <2>17, <2>18 DEF BookInv, RanksInv
    <3>2. \A l \in LotIds : \/ lots'[l] = lots[l]
                            \/ (l = u \/ l \in granted) /\ lots'[l].created = NextRank(lots)
      BY <2>15, <2>16, <2>17
    <3>3. \A l, k \in {u} \cup granted : l # k => ~(l \in Rewards <=> k \in Rewards)
      BY <2>2, <2>3, <2>4, SourceAssumption DEF u
    <3>4. \A l, k \in LotIds : l # k /\ (l \in Rewards <=> k \in Rewards) /\ lots'[l].created # 0
            => lots'[l].created # lots'[k].created
      BY <2>18, <3>2, <3>3 DEF BookInv, RanksInv
    <3>5. ASSUME NEW c \in Charges, charges'[c].created = 0 PROVE charges'[c] = NoCharge
      <4>1. charges[c] = NoCharge
        BY <2>11, <3>5 DEF BookInv, RanksInv, Exists
      <4>2. repaid[c] = 0
        <5>1. Outstanding[c] = 0
          BY <4>1 DEF Outstanding, NoCharge
        <5> QED
          BY <2>9, <5>1
      <4> QED
        BY <2>11, <4>1, <4>2 DEF NoCharge
    <3>6. \A c, d \in Charges : c # d /\ charges'[c].created # 0
            => charges'[c].created # charges'[d].created
      BY <2>11 DEF BookInv, RanksInv, Exists
    <3> QED
      BY <3>1, <3>4, <3>5, <3>6 DEF RanksInv, Exists
  <2>32. OpenInv'
    <3>1. \A r \in Servers : tx'[r].op # "topup"
      <4>1. \A r \in Servers : r # s => tx'[r] = tx[r] /\ tx[r].op # "topup"
        BY <2>1, <2>2 DEF End, BookInv, BooksBalance, TypeOK, OpenInv
      <4>2. tx'[s].op # "topup"
        BY <2>1 DEF End, BookInv, BooksBalance, TypeOK, Idle
      <4> QED
        BY <4>1, <4>2
    <3>2. \A r \in Servers : tx'[r].op = "reverse" => tx'[r] = tx[r]
      BY <2>1 DEF End, BookInv, BooksBalance, TypeOK, Idle
    <3>3. \A r \in Servers : tx[r].op = "reverse" => tx[r].charge \in Charges
      BY TxKinds DEF BookInv, BooksBalance
    <3>4. \A r \in Servers : tx'[r].op = "reverse" => charges'[tx'[r].charge].created # 0
      BY <2>11, <3>2, <3>3 DEF BookInv, OpenInv, Exists
    <3> QED
      BY <3>1, <3>4 DEF OpenInv, Exists
  <2> QED
    BY <2>14, <2>28, <2>29, <2>30, <2>31, <2>32 DEF BookInv, BooksBalance
<1> QED
  BY <1>1, <1>2

LEMMA TxEnds ==
  ASSUME BookInv, NEW s \in Servers, End(s)
  PROVE  /\ tx' \in [Servers -> Transaction] /\ tx'[s] = Idle
         /\ \A r \in Servers : tx'[r].op # "idle" => tx'[r] = tx[r]
BY DEF End, BookInv, BooksBalance, TypeOK, Transaction, Idle

LEMMA OpenStays ==
  ASSUME BookInv, \A r \in Servers : tx'[r].op # "idle" => tx'[r] = tx[r],
         \A c \in Charges : /\ Outstanding'[c] = Outstanding[c]
                            /\ charges'[c].created = charges[c].created
  PROVE  OpenInv'
<1>1. \A r \in Servers : tx'[r].op \in {"topup", "reverse"} => tx'[r] = tx[r]
  OBVIOUS
<1>2. \A r \in Servers : tx[r].op = "reverse" => tx[r].charge \in Charges
  BY TxKinds DEF BookInv, BooksBalance
<1>3. \A r \in Servers : tx'[r].op = "reverse" => charges'[tx'[r].charge].created # 0
  BY <1>1, <1>2 DEF BookInv, OpenInv, Exists
<1> QED
  BY <1>1, <1>3 DEF BookInv, OpenInv, Exists

\* The reward of somebody this user invited
LEMMA RewardBooks ==
  ASSUME BookInv, ExpiryInv, NEW r \in Rewards, IssueReward(r)
  PROVE  BookInv'
<1>1. /\ r \notin used /\ used' = used \cup {r}
      /\ lots' = [lots EXCEPT ![r] = NewReward(r)]
      /\ booked' = [booked EXCEPT ![r] = @ + Credits[r]]
      /\ ChangeAccount(0, Credits[r], 0)
      /\ UNCHANGED <<owed, charges, swept, consumed, tx, clock, alarm>>
  BY DEF IssueReward
<1>2. r \in LotIds /\ r \notin TopUps /\ Rewards \subseteq LotIds /\ TopUps \subseteq LotIds
  BY SourceAssumption DEF LotIds, Sources
<1>3. Credits[r] \in Nat /\ clock + Validity[r] \in Nat
  BY <1>2, SourceAssumption DEF BookInv, BooksBalance, TypeOK, LotIds
<1>4. /\ NewReward(r) \in Lot /\ NewReward(r).available = Credits[r]
      /\ NewReward(r).original = Credits[r] /\ NewReward(r).spent = 0
      /\ NewReward(r).expired = 0 /\ NewReward(r).created = NextRank(lots)
      /\ NextRank(lots) # 0 /\ \A l \in LotIds : lots[l].created # NextRank(lots)
  BY <1>3, NewLotIs DEF NewReward
<1> HIDE DEF NewReward
<1>5. /\ lots \in [LotIds -> Lot] /\ booked \in [LotIds -> Int] /\ owed \in [Charges -> Int]
      /\ charges \in [Charges -> Charge]
  BY DEF BookInv, BooksBalance, TypeOK
<1>6. /\ lots' \in [LotIds -> Lot] /\ lots'[r] = NewReward(r)
      /\ \A l \in LotIds : l # r => lots'[l] = lots[l]
  BY <1>1, <1>2, <1>4, <1>5
<1>7. booked[r] = 0
  BY <1>1, <1>2, UnusedLot
<1>8. /\ booked' \in [LotIds -> Int] /\ booked'[r] = Credits[r]
      /\ \A l \in LotIds : l # r => booked'[l] = booked[l]
  BY <1>1, <1>2, <1>3, <1>5, <1>7
<1>9. \A l \in LotIds : booked'[l] = lots'[l].available
  BY <1>4, <1>6, <1>8 DEF BookInv, BooksBalance, ProjectionIsExact
<1>10. DebtInv' /\ charges' = charges /\ Outstanding' = Outstanding
  BY <1>1 DEF BookInv, DebtInv, Outstanding
<1>11. Total(booked', TopUps) = Total(booked, TopUps) + 0
  <2>1. \A l \in TopUps : booked[l] = booked'[l] /\ booked[l] \in Int
    BY <1>2, <1>5, <1>8
  <2>2. Total(booked, TopUps) = Total(booked', TopUps)
    BY <2>1, Finiteness, TotalAgree
  <2>3. Total(booked, TopUps) \in Int
    BY <2>1, Finiteness, TotalInt
  <2> QED
    BY <2>2, <2>3
<1>12. Total(booked', Rewards) = Total(booked, Rewards) + Credits[r]
  <2> DEFINE n == Credits[r]
  <2>1. \A l \in Rewards : booked[l] \in Int /\ booked'[l] = IF l = r THEN booked[r] + n ELSE booked[l]
    BY <1>2, <1>3, <1>5, <1>7, <1>8
  <2>2. IsFiniteSet(Rewards) /\ n \in Int
    BY <1>3, Finiteness
  <2> HIDE DEF n
  <2>3. Total(booked', Rewards) = Total(booked, Rewards) + n
    BY <2>1, <2>2, TotalChange, Zenon
  <2> QED
    BY <2>3 DEF n
<1>13. Total(owed', Charges) = Total(owed, Charges) + 0
  <2>1. Total(owed, Charges) \in Int
    BY <1>5, Finiteness, TotalInt
  <2>2. owed' = owed
    BY <1>1
  <2> QED
    BY <2>1, <2>2
<1>14. /\ ProjectionIsExact' /\ DebtIsAttributed'
       /\ account' \in [paid : Nat, promo : Nat, debt : Nat]
  <2> DEFINE n == Credits[r]
  <2>1. ChangeAccount(0, n, 0) /\ Total(booked', Rewards) = Total(booked, Rewards) + n
    BY <1>1, <1>12
  <2>2. n \in Int /\ 0 \in Int
    BY <1>3
  <2>3. charges' \in [Charges -> Charge]
    BY <1>5, <1>10
  <2> HIDE DEF n
  <2> QED
    BY <1>6, <1>9, <1>10, <1>11, <1>13, <2>1, <2>2, <2>3, BooksFollow
<1>15. LotsAreConserved'
  <2>1. \A l \in LotIds : \/ lots'[l] = lots[l]
                          \/ /\ l \notin used /\ lots'[l].spent = 0 /\ lots'[l].expired = 0
                             /\ lots'[l].original = lots'[l].available
                             /\ lots'[l].available \in Nat
    BY <1>1, <1>3, <1>4, <1>6
  <2>2. \A c \in Charges : /\ charges'[c].from = charges[c].from
                           /\ charges'[c].reversal = charges[c].reversal
    BY <1>10
  <2> QED
    BY <2>1, <2>2, ConservedWithNewLots
<1>16. TypeOK'
  <2>1. used' \subseteq Sources
    BY <1>1, <1>2 DEF BookInv, BooksBalance, TypeOK, LotIds
  <2> QED
    BY <1>1, <1>6, <1>8, <1>14, <2>1 DEF BookInv, BooksBalance, TypeOK
<1>17. RanksInv'
  <2>1. \A l \in LotIds : lots'[l].created = 0 =>
          lots'[l].available = 0 /\ \A c \in Charges : charges'[c].from[l] = 0
    BY <1>4, <1>6, <1>10 DEF BookInv, RanksInv
  <2>2. \A l, k \in LotIds : l # k /\ (l \in Rewards <=> k \in Rewards) /\ lots'[l].created # 0
          => lots'[l].created # lots'[k].created
    BY <1>4, <1>6 DEF BookInv, RanksInv
  <2> QED
    BY <1>10, <2>1, <2>2 DEF BookInv, RanksInv, Exists
<1>18. OpenInv'
  <2>1. \A t \in Servers : tx'[t].op # "idle" => tx'[t] = tx[t]
    BY <1>1
  <2> QED
    BY <1>10, <2>1, OpenStays
<1> QED
  BY <1>10, <1>14, <1>15, <1>16, <1>17, <1>18 DEF BookInv, BooksBalance

\* Every lot has spent at least what a charge that still stands took of it, so a
\* reversal always finds its credits.
LEMMA ReversalCovered ==
  ASSUME BookInv, NEW c \in Charges, Unreversed(c)
  PROVE  \A l \in LotIds : lots[l].spent >= charges[c].from[l]
<1> SUFFICES ASSUME NEW l \in LotIds PROVE lots[l].spent >= charges[c].from[l]
    OBVIOUS
<1>1. c \in Posted /\ Posted \subseteq Charges
  BY DEF Unreversed, Posted
<1>2. \A d \in Posted : Takes(l)[d] \in Nat
  BY <1>1 DEF Takes, BookInv, BooksBalance, TypeOK, Charge
<1>3. IsFiniteSet(Posted)
  BY <1>1, Finiteness
<1>4. Takes(l)[c] <= Total(Takes(l), Posted)
  BY <1>1, <1>2, <1>3, TotalNat
<1>5. Takes(l)[c] = charges[c].from[l] /\ lots[l].spent \in Nat
  BY DEF Takes, BookInv, BooksBalance, TypeOK, Lot
<1>6. Takes(l)[c] \in Nat
  BY <1>1, <1>2
<1> QED
  BY <1>4, <1>5, <1>6, SpentIs

\* Every promotional credit of a lot is on the account, so an expiry always finds its credits.
LEMMA ExpiryCovered ==
  ASSUME BookInv, NEW l \in Rewards
  PROVE  account.promo >= lots[l].available
<1>1. Rewards \subseteq LotIds
  BY DEF LotIds, Sources
<1>2. \A k \in Rewards : booked[k] \in Nat /\ booked[k] = lots[k].available
  BY <1>1 DEF BookInv, BooksBalance, ProjectionIsExact, TypeOK, Lot
<1>3. booked[l] <= Total(booked, Rewards) /\ Total(booked, Rewards) \in Nat
  BY <1>2, Finiteness, TotalNat
<1>4. account.promo = Total(booked, Rewards)
  BY DEF BookInv, BooksBalance, ProjectionIsExact
<1>5. lots[l].available \in Nat
  BY <1>2
<1> QED
  BY <1>2, <1>3, <1>4, <1>5

-----------------------------------------------------------------------------
(* Reversals and expiry                                                      *)

\* A transaction that ends without writing
LEMMA BooksRefused ==
  ASSUME BookInv, NEW s \in Servers, End(s), UNCHANGED <<rows, clock>>, alarm' \in BOOLEAN
  PROVE  BookInv'
<1>1. Idle \in Transaction /\ Idle.op # "topup" /\ Idle.op # "reverse"
  BY DEF Transaction, Idle
<1>2. tx' = [tx EXCEPT ![s] = Idle] /\ clock' \in 0..MaxClock
  BY DEF End, BookInv, BooksBalance, TypeOK
<1> QED
  BY <1>1, <1>2, BooksUnwritten

\* A reversal gives back what the charge took, to the lots or to what expired of them.
LEMMA ReverseBooks ==
  ASSUME BookInv, NEW s \in Servers, CommitReverse(s)
  PROVE  BookInv'
<1> DEFINE c == tx[s].charge
           key == tx[s].key
           from == charges[c].from
           back == Returned(c, clock)
<1>1. CASE UNCHANGED rows
  <2>1. End(s) /\ UNCHANGED <<rows, clock>> /\ alarm' \in BOOLEAN
    BY <1>1 DEF CommitReverse, RefuseUnless, BookInv, BooksBalance, TypeOK
  <2> QED
    BY <2>1, BooksRefused
<1>2. CASE ~UNCHANGED rows
  <2>1. /\ Unreversed(c) /\ \A l \in LotIds : lots[l].spent >= from[l]
        /\ charges' = [charges EXCEPT ![c].reversal = key]
        /\ lots' = [l \in LotIds |->
                     [lots[l] EXCEPT !.spent = @ - from[l], !.available = @ + back[l],
                                     !.expired = @ + (from[l] - back[l])]]
        /\ booked' = [l \in LotIds |-> booked[l] + back[l]]
        /\ ChangeAccount(Total(back, TopUps), Total(back, Rewards), 0)
        /\ End(s) /\ UNCHANGED <<owed, used, swept, consumed, clock, alarm>>
    BY <1>2 DEF CommitReverse, RefuseUnless
  <2>2. c \in Charges /\ key \in Keys /\ tx[s].op = "reverse"
    BY TxKinds DEF CommitReverse, BookInv, BooksBalance
  <2>3. /\ charges \in [Charges -> Charge] /\ lots \in [LotIds -> Lot]
        /\ booked \in [LotIds -> Int] /\ owed \in [Charges -> Int]
    BY DEF BookInv, BooksBalance, TypeOK
  <2>4. charges[c].created # 0
    BY <2>2 DEF BookInv, OpenInv, Exists
  <2>5. \A l \in LotIds : from[l] \in Nat /\ back[l] \in {0, from[l]}
    BY <2>2, <2>3 DEF Charge, Returned
  <2>6. charges[c].reversal = None
    BY <2>1 DEF Unreversed
  <2> HIDE DEF c, key, back
  <2>7. /\ charges' \in [Charges -> Charge] /\ charges'[c].reversal = key
        /\ \A d \in Charges : /\ charges'[d].created = charges[d].created
                              /\ charges'[d].from = charges[d].from
                              /\ charges'[d].debt = charges[d].debt
                              /\ charges'[d].repaid = charges[d].repaid
                              /\ d # c => charges'[d] = charges[d]
    <3>1. [charges[c] EXCEPT !.reversal = key] \in Charge
      BY <2>2, <2>3 DEF Charge
    <3>2. charges' = [charges EXCEPT ![c] = [charges[c] EXCEPT !.reversal = key]]
      BY <2>1
    <3>3. charges'[c] = [charges[c] EXCEPT !.reversal = key]
      BY <2>2, <2>3, <3>2
    <3>4. \A d \in Charges : d # c => charges'[d] = charges[d]
      BY <2>2, <2>3, <3>2
    <3>5. charges' \in [Charges -> Charge]
      BY <2>2, <2>3, <3>1, <3>2
    <3>6. charges[c] \in Charge
      BY <2>2, <2>3
    <3>7. /\ charges'[c].created = charges[c].created /\ charges'[c].from = charges[c].from
          /\ charges'[c].debt = charges[c].debt /\ charges'[c].repaid = charges[c].repaid
          /\ charges'[c].reversal = key
      BY <3>3, <3>6 DEF Charge
    <3> QED
      BY <3>4, <3>5, <3>7
  <2>8. /\ lots' \in [LotIds -> Lot]
        /\ \A l \in LotIds : /\ lots'[l].created = lots[l].created
                             /\ lots'[l].original = lots[l].original
                             /\ lots'[l].available = lots[l].available + back[l]
                             /\ lots'[l].spent = lots[l].spent - from[l]
                             /\ lots'[l].expired = lots[l].expired + (from[l] - back[l])
    <3>1. \A l \in LotIds : /\ lots'[l] \in Lot
                            /\ lots'[l].created = lots[l].created
                            /\ lots'[l].original = lots[l].original
                            /\ lots'[l].available = lots[l].available + back[l]
                            /\ lots'[l].spent = lots[l].spent - from[l]
                            /\ lots'[l].expired = lots[l].expired + (from[l] - back[l])
      <4> TAKE l \in LotIds
      <4> DEFINE a == lots[l].available + back[l]
                 p == lots[l].spent - from[l]
                 x == lots[l].expired + (from[l] - back[l])
      <4>1. lots'[l] = [lots[l] EXCEPT !.spent = p, !.available = a, !.expired = x]
        BY <2>1
      <4>2. lots[l] \in Lot
        BY <2>3
      <4>3. lots[l].available \in Nat /\ lots[l].spent \in Nat /\ lots[l].expired \in Nat
        BY <4>2 DEF Lot
      <4>4. from[l] \in Nat /\ back[l] \in Nat /\ back[l] <= from[l] /\ lots[l].spent >= from[l]
        <5>1. back[l] \in {0, from[l]} /\ from[l] \in Nat
          BY <2>5
        <5>2. lots[l].spent >= from[l]
          BY <2>1
        <5> QED
          BY <5>1, <5>2
      <4>5. a \in Nat /\ p \in Nat /\ x \in Nat
        BY <4>3, <4>4
      <4> HIDE DEF a, p, x
      <4>6. /\ lots'[l] \in Lot
            /\ lots'[l].created = lots[l].created
            /\ lots'[l].original = lots[l].original
            /\ lots'[l].available = a /\ lots'[l].spent = p /\ lots'[l].expired = x
        BY <4>1, <4>2, <4>5 DEF Lot
      <4> QED
        BY <4>6 DEF a, p, x
    <3>2. lots' = [l \in LotIds |-> lots'[l]]
      BY <2>1
    <3> QED
      BY <3>1, <3>2
  <2>9. \A l \in LotIds : booked'[l] = booked[l] + back[l] /\ booked'[l] = lots'[l].available
    BY <2>1, <2>8 DEF BookInv, BooksBalance, ProjectionIsExact
  <2>10. booked' \in [LotIds -> Int]
    <3>1. \A l \in LotIds : booked'[l] \in Int
      BY <2>3, <2>5, <2>9
    <3>2. booked' = [l \in LotIds |-> booked'[l]]
      BY <2>1
    <3> QED
      BY <3>1, <3>2
  <2>11. /\ DebtInv' /\ \A d \in Charges : Outstanding'[d] = Outstanding[d]
    <3>1. \A d \in Charges : Outstanding'[d] = Outstanding[d]
      BY <2>7 DEF Outstanding
    <3>2. owed' = owed
      BY <2>1
    <3>3. DebtInv'
      BY <2>7, <3>1, <3>2 DEF BookInv, DebtInv
    <3> QED
      BY <3>1, <3>3
  <2>12. /\ Total(booked', TopUps) = Total(booked, TopUps) + Total(back, TopUps)
         /\ Total(back, TopUps) \in Int
    <3>1. \A l \in TopUps : /\ booked[l] \in Int /\ back[l] \in Int
                            /\ booked'[l] = booked[l] + back[l]
      BY <2>3, <2>5, <2>9, Finiteness
    <3>2. \A l \in TopUps : back[l] \in Int
      BY <3>1
    <3> QED
      BY <3>1, <3>2, Finiteness, TotalPlus, TotalInt
  <2>13. /\ Total(booked', Rewards) = Total(booked, Rewards) + Total(back, Rewards)
         /\ Total(back, Rewards) \in Int
    <3>1. \A l \in Rewards : /\ booked[l] \in Int /\ back[l] \in Int
                             /\ booked'[l] = booked[l] + back[l]
      BY <2>3, <2>5, <2>9, Finiteness
    <3>2. \A l \in Rewards : back[l] \in Int
      BY <3>1
    <3> QED
      BY <3>1, <3>2, Finiteness, TotalPlus, TotalInt
  <2>14. Total(owed', Charges) = Total(owed, Charges) + 0
    <3>1. Total(owed, Charges) \in Int
      BY <2>3, Finiteness, TotalInt
    <3>2. owed' = owed
      BY <2>1
    <3> QED
      BY <3>1, <3>2
  <2>15. /\ ProjectionIsExact' /\ DebtIsAttributed'
         /\ account' \in [paid : Nat, promo : Nat, debt : Nat]
    <3> DEFINE paid == Total(back, TopUps)
               promo == Total(back, Rewards)
    <3>1. ChangeAccount(paid, promo, 0)
      BY <2>1, Zenon
    <3>2. paid \in Int /\ promo \in Int /\ 0 \in Int
      BY <2>12, <2>13
    <3>3. Total(booked', TopUps) = Total(booked, TopUps) + paid
      BY <2>12
    <3>4. Total(booked', Rewards) = Total(booked, Rewards) + promo
      BY <2>13
    <3>5. \A l \in LotIds : booked'[l] = lots'[l].available
      BY <2>9
    <3> HIDE DEF paid, promo
    <3> QED
      BY <2>7, <2>8, <2>11, <2>14, <3>1, <3>2, <3>3, <3>4, <3>5, BooksFollow
  <2>16. LotsAreConserved'
    <3> SUFFICES ASSUME NEW l \in LotIds
                 PROVE  /\ lots'[l].original =
                            lots'[l].available + lots'[l].spent + lots'[l].expired
                        /\ lots'[l].spent = Total([d \in Charges |-> charges'[d].from[l]],
                                                  {d \in Charges : charges'[d].reversal = None})
        BY DEF LotsAreConserved
    <3>1. {d \in Charges : charges'[d].reversal = None} = Posted \ {c}
      BY <2>2, <2>7, EnvironmentAssumption DEF Posted
    <3>2. [d \in Charges |-> charges'[d].from[l]] = Takes(l)
      BY <2>7 DEF Takes
    <3>3. /\ c \in Posted /\ IsFiniteSet(Posted) /\ Takes(l)[c] = from[l]
          /\ \A d \in Posted : Takes(l)[d] \in Nat
      BY <2>2, <2>3, <2>6, Finiteness DEF Posted, Takes, Charge
    <3>4. \A d \in Posted : Takes(l)[d] \in Int
      BY <3>3
    <3>5. Total(Takes(l), Posted) = Takes(l)[c] + Total(Takes(l), Posted \ {c})
      BY <3>3, <3>4, TotalPick, Zenon
    <3>6. Total(Takes(l), Posted \ {c}) \in Int
      <4>1. IsFiniteSet(Posted \ {c}) /\ \A d \in Posted \ {c} : Takes(l)[d] \in Int
        BY <3>3, <3>4, FS_Subset
      <4> QED
        BY <4>1, TotalInt
    <3>7. /\ lots[l].available \in Nat /\ lots[l].spent \in Nat /\ lots[l].expired \in Nat
          /\ from[l] \in Nat /\ back[l] \in Nat
      BY <2>3, <2>5 DEF Lot
    <3>8. lots[l].spent = Total(Takes(l), Posted)
      BY SpentIs
    <3>9. lots'[l].spent = Total(Takes(l), Posted \ {c})
      BY <2>8, <3>3, <3>5, <3>6, <3>7, <3>8
    <3>10. lots[l].original = lots[l].available + lots[l].spent + lots[l].expired
      BY DEF BookInv, BooksBalance, LotsAreConserved
    <3>11. lots'[l].original = lots'[l].available + lots'[l].spent + lots'[l].expired
      BY <2>8, <3>7, <3>10
    <3> QED
      BY <3>1, <3>2, <3>9, <3>11
  <2>17. TypeOK'
    BY <2>1, <2>3, <2>7, <2>8, <2>10, <2>15, TxEnds DEF BookInv, BooksBalance, TypeOK
  <2>18. RanksInv'
    <3>1. \A l \in LotIds : lots'[l].created = 0 =>
            lots'[l].available = 0 /\ \A d \in Charges : charges'[d].from[l] = 0
      <4> SUFFICES ASSUME NEW l \in LotIds, lots'[l].created = 0
                   PROVE  lots'[l].available = 0 /\ \A d \in Charges : charges'[d].from[l] = 0
          OBVIOUS
      <4>1. lots[l].available = 0 /\ \A d \in Charges : charges[d].from[l] = 0
        BY <2>8 DEF BookInv, RanksInv
      <4>2. back[l] = 0
        BY <2>2, <2>5, <4>1
      <4> QED
        BY <2>7, <2>8, <4>1, <4>2
    <3>2. \A l, k \in LotIds : l # k /\ (l \in Rewards <=> k \in Rewards) /\ lots'[l].created # 0
            => lots'[l].created # lots'[k].created
      BY <2>8 DEF BookInv, RanksInv
    <3>3. \A d \in Charges : charges'[d].created = 0 => charges'[d] = NoCharge
      BY <2>4, <2>7 DEF BookInv, RanksInv, Exists
    <3>4. \A d, e \in Charges : d # e /\ charges'[d].created # 0
            => charges'[d].created # charges'[e].created
      BY <2>7 DEF BookInv, RanksInv, Exists
    <3> QED
      BY <3>1, <3>2, <3>3, <3>4 DEF RanksInv, Exists
  <2>19. OpenInv'
    BY <2>1, <2>7, <2>11, TxEnds, OpenStays
  <2> QED
    BY <2>11, <2>15, <2>16, <2>17, <2>18, <2>19 DEF BookInv, BooksBalance
<1> QED
  BY <1>1, <1>2

\* An expiry moves what is available to what expired, of the lot and of the account.
LEMMA ExpireBooks ==
  ASSUME BookInv, NEW s \in Servers, CommitExpire(s)
  PROVE  BookInv'
<1> DEFINE l == tx[s].lot
           n == lots[l].available
<1>1. CASE UNCHANGED rows
  <2>1. End(s) /\ UNCHANGED <<rows, clock>> /\ alarm' \in BOOLEAN
    BY <1>1 DEF CommitExpire, RefuseUnless, BookInv, BooksBalance, TypeOK
  <2> QED
    BY <2>1, BooksRefused
<1>2. CASE ~UNCHANGED rows
  <2>1. /\ lots' = [lots EXCEPT ![l].available = 0, ![l].expired = @ + n]
        /\ booked' = [booked EXCEPT ![l] = @ - n]
        /\ swept' = swept \cup {l}
        /\ ChangeAccount(0, -n, 0)
        /\ End(s) /\ UNCHANGED <<owed, charges, used, consumed, clock, alarm>>
    BY <1>2 DEF CommitExpire, RefuseUnless
  <2>2. l \in Rewards
    BY TxKinds DEF CommitExpire, BookInv, BooksBalance
  <2>3. l \in LotIds /\ l \notin TopUps /\ TopUps \subseteq LotIds /\ Rewards \subseteq LotIds
    BY <2>2, SourceAssumption DEF LotIds, Sources
  <2>4. /\ lots \in [LotIds -> Lot] /\ booked \in [LotIds -> Int] /\ owed \in [Charges -> Int]
        /\ charges \in [Charges -> Charge]
    BY DEF BookInv, BooksBalance, TypeOK
  <2>5. n \in Nat /\ booked[l] = n /\ lots[l] \in Lot
    BY <2>3, <2>4 DEF Lot, BookInv, BooksBalance, ProjectionIsExact
  <2> DEFINE written == [lots[l] EXCEPT !.available = 0, !.expired = @ + n]
  <2>6. /\ written \in Lot /\ written.created = lots[l].created /\ written.original = lots[l].original
        /\ written.spent = lots[l].spent /\ written.available = 0 /\ written.expired = lots[l].expired + n
    <3> DEFINE x == lots[l].expired + n
    <3>1. x \in Nat
      BY <2>5 DEF Lot
    <3>2. written = [lots[l] EXCEPT !.available = 0, !.expired = x]
      OBVIOUS
    <3> HIDE DEF x, written
    <3>3. /\ written \in Lot /\ written.created = lots[l].created /\ written.original = lots[l].original
          /\ written.spent = lots[l].spent /\ written.available = 0 /\ written.expired = x
      BY <2>5, <3>1, <3>2 DEF Lot
    <3> QED
      BY <3>3 DEF x
  <2>7. lots' = [lots EXCEPT ![l] = written]
    BY <2>1, <2>3, <2>4
  <2> HIDE DEF l, n, written
  <2>8. /\ lots' \in [LotIds -> Lot] /\ lots'[l] = written
        /\ \A k \in LotIds : k # l => lots'[k] = lots[k]
    BY <2>3, <2>4, <2>6, <2>7
  <2>9. /\ booked' \in [LotIds -> Int] /\ booked'[l] = 0
        /\ \A k \in LotIds : k # l => booked'[k] = booked[k]
    <3>1. booked[l] - n = 0
      BY <2>5
    <3> QED
      BY <2>1, <2>3, <2>4, <3>1
  <2>10. \A k \in LotIds : booked'[k] = lots'[k].available
    BY <2>6, <2>8, <2>9 DEF BookInv, BooksBalance, ProjectionIsExact
  <2>11. DebtInv' /\ charges' = charges /\ Outstanding' = Outstanding
    BY <2>1 DEF BookInv, DebtInv, Outstanding
  <2>12. Total(booked', TopUps) = Total(booked, TopUps) + 0
    <3>1. \A k \in TopUps : booked[k] = booked'[k] /\ booked[k] \in Int
      BY <2>3, <2>4, <2>9
    <3>2. Total(booked, TopUps) = Total(booked', TopUps)
      BY <3>1, Finiteness, TotalAgree
    <3>3. Total(booked, TopUps) \in Int
      BY <3>1, Finiteness, TotalInt
    <3> QED
      BY <3>2, <3>3
  <2> DEFINE d == -n
  <2>13. d \in Int /\ booked[l] + d = 0
    BY <2>5
  <2>14. ChangeAccount(0, d, 0)
    BY <2>1, Zenon
  <2> HIDE DEF d
  <2>15. Total(booked', Rewards) = Total(booked, Rewards) + d
    <3>1. \A k \in Rewards : booked[k] \in Int /\ booked'[k] = IF k = l THEN booked[l] + d ELSE booked[k]
      BY <2>3, <2>4, <2>9, <2>13
    <3>2. IsFiniteSet(Rewards) /\ d \in Int /\ l \in Rewards
      BY <2>2, <2>13, Finiteness DEF l
    <3> QED
      BY <3>1, <3>2, TotalChange, Zenon
  <2>16. Total(owed', Charges) = Total(owed, Charges) + 0
    <3>1. Total(owed, Charges) \in Int
      BY <2>4, Finiteness, TotalInt
    <3>2. owed' = owed
      BY <2>1
    <3> QED
      BY <3>1, <3>2
  <2>17. /\ ProjectionIsExact' /\ DebtIsAttributed'
         /\ account' \in [paid : Nat, promo : Nat, debt : Nat]
    <3>1. 0 \in Int /\ charges' \in [Charges -> Charge]
      BY <2>4, <2>11
    <3> QED
      BY <2>8, <2>10, <2>11, <2>12, <2>13, <2>14, <2>15, <2>16, <3>1, BooksFollow
  <2>18. LotsAreConserved'
    <3> SUFFICES ASSUME NEW k \in LotIds
                 PROVE  /\ lots'[k].original =
                            lots'[k].available + lots'[k].spent + lots'[k].expired
                        /\ lots'[k].spent = Total([c \in Charges |-> charges'[c].from[k]],
                                                  {c \in Charges : charges'[c].reversal = None})
        BY DEF LotsAreConserved
    <3>1. /\ {c \in Charges : charges'[c].reversal = None} = Posted
          /\ [c \in Charges |-> charges'[c].from[k]] = Takes(k)
      BY <2>11 DEF Posted, Takes
    <3>2. lots[k].original = lots[k].available + lots[k].spent + lots[k].expired
      BY DEF BookInv, BooksBalance, LotsAreConserved
    <3>3. lots[k].available \in Nat /\ lots[k].spent \in Nat /\ lots[k].expired \in Nat
      BY <2>4 DEF Lot
    <3>4. lots[l].available = n
      BY DEF n
    <3>5. lots'[k].spent = lots[k].spent
      BY <2>6, <2>8
    <3>6. lots'[k].original = lots'[k].available + lots'[k].spent + lots'[k].expired
      BY <2>6, <2>8, <3>2, <3>3, <3>4
    <3> QED
      BY <3>1, <3>5, <3>6, SpentIs
  <2>19. TypeOK'
    BY <2>1, <2>2, <2>8, <2>9, <2>17, TxEnds DEF l, BookInv, BooksBalance, TypeOK
  <2>20. RanksInv'
    <3>1. \A k \in LotIds : lots'[k].created = 0 =>
            lots'[k].available = 0 /\ \A c \in Charges : charges'[c].from[k] = 0
      BY <2>6, <2>8, <2>11 DEF BookInv, RanksInv
    <3>2. \A j, k \in LotIds : j # k /\ (j \in Rewards <=> k \in Rewards) /\ lots'[j].created # 0
            => lots'[j].created # lots'[k].created
      BY <2>6, <2>8 DEF BookInv, RanksInv
    <3> QED
      BY <2>11, <3>1, <3>2 DEF BookInv, RanksInv, Exists
  <2>21. OpenInv'
    BY <2>1, <2>11, TxEnds, OpenStays
  <2> QED
    BY <2>11, <2>17, <2>18, <2>19, <2>20, <2>21 DEF BookInv, BooksBalance
<1> QED
  BY <1>1, <1>2

-----------------------------------------------------------------------------
(* Every step keeps the books                                                *)

LEMMA InitBooks == Init => BookInv
<1> SUFFICES ASSUME Init PROVE BookInv
    OBVIOUS
<1>1. /\ \A l \in LotIds : booked[l] = 0 /\ lots[l] = NoLot
      /\ \A c \in Charges : owed[c] = 0 /\ charges[c] = NoCharge
      /\ \A s \in Servers : tx[s] = Idle
      /\ account = [paid |-> 0, promo |-> 0, debt |-> 0]
  BY DEF Init
<1>2. TypeOK
  <2>1. NoLot \in Lot /\ NoCharge \in Charge /\ Idle \in Transaction
    BY DEF NoLot, Lot, NoCharge, Charge, Transaction
  <2>2. 0 \in 0..MaxClock
    BY EnvironmentAssumption
  <2>3. /\ lots \in [LotIds -> Lot] /\ charges \in [Charges -> Charge]
        /\ tx \in [Servers -> Transaction]
    BY <2>1 DEF Init
  <2>4. booked \in [LotIds -> Int] /\ owed \in [Charges -> Int]
    BY DEF Init
  <2> QED
    BY <2>2, <2>3, <2>4 DEF Init, TypeOK
<1>3. \A c \in Charges : Outstanding[c] = 0
  BY <1>1 DEF Outstanding, NoCharge
<1>4. RanksInv /\ DebtInv /\ OpenInv
  BY <1>1, <1>3 DEF RanksInv, DebtInv, OpenInv, Exists, NoLot, NoCharge, Idle
<1>5. Total(booked, TopUps) = 0 /\ Total(booked, Rewards) = 0
  <2>1. \A l \in TopUps : booked[l] = 0
    BY <1>1, Finiteness
  <2>2. \A l \in Rewards : booked[l] = 0
    BY <1>1, Finiteness
  <2>3. Total(booked, TopUps) = 0
    BY <2>1, Finiteness, TotalZero
  <2>4. Total(booked, Rewards) = 0
    BY <2>2, Finiteness, TotalZero
  <2> QED
    BY <2>3, <2>4
<1>6. Total(owed, Charges) = 0
  BY <1>1, Finiteness, TotalZero
<1>7. Total(Outstanding, Charges) = 0
  BY <1>3, Finiteness, TotalZero
<1>8. ProjectionIsExact
  BY <1>1, <1>5, <1>6 DEF ProjectionIsExact, NoLot
<1>9. DebtIsAttributed
  BY <1>1, <1>7 DEF DebtIsAttributed
<1>10. LotsAreConserved
  <2> SUFFICES ASSUME NEW l \in LotIds
               PROVE  /\ lots[l].original = lots[l].available + lots[l].spent + lots[l].expired
                      /\ lots[l].spent = Total([c \in Charges |-> charges[c].from[l]],
                                               {c \in Charges : charges[c].reversal = None})
      BY DEF LotsAreConserved
  <2>1. IsFiniteSet(Posted) /\ Posted \subseteq Charges
    BY Finiteness DEF Posted
  <2>2. \A c \in Posted : Takes(l)[c] = 0
    BY <1>1, <2>1 DEF Takes, NoCharge
  <2>3. Total(Takes(l), Posted) = 0
    BY <2>1, <2>2, TotalZero
  <2> QED
    BY <1>1, <2>3 DEF NoLot, Posted, Takes
<1> QED
  BY <1>2, <1>4, <1>8, <1>9, <1>10 DEF BookInv, BooksBalance

LEMMA QuotedChargeBooks ==
  ASSUME BookInv, NEW s \in Servers, CommitQuotedCharge(s)
  PROVE  BookInv'
<1> DEFINE c == tx[s].charge
<1>1. CASE Refuse(s)
  <2>1. End(s) /\ UNCHANGED <<rows, clock>> /\ alarm' \in BOOLEAN
    BY <1>1 DEF Refuse, BookInv, BooksBalance, TypeOK
  <2> QED
    BY <2>1, BooksRefused
<1>2. CASE ~Refuse(s)
  <2>1. /\ c \in Quoted /\ ~Exists(c)
        /\ Consume(c, clock) /\ consumed' = consumed \cup {QuoteOf[c]}
        /\ End(s) /\ UNCHANGED <<used, swept, clock, alarm>>
    BY <1>2 DEF CommitQuotedCharge
  <2>2. c \in Charges /\ QuoteOf[c] \in Quotes
    BY <2>1, ChargeAssumption DEF Charges
  <2>3. consumed' \subseteq Quotes
    BY <2>1, <2>2 DEF BookInv, BooksBalance, TypeOK
  <2> HIDE DEF c
  <2> QED
    BY <2>1, <2>2, <2>3, ConsumeBooks
<1> QED
  BY <1>1, <1>2

LEMMA AcceptedOperationBooks ==
  ASSUME BookInv, NEW s \in Servers, CommitAcceptedOperation(s)
  PROVE  BookInv'
<1> DEFINE c == tx[s].charge
<1>1. CASE Refuse(s)
  <2>1. End(s) /\ UNCHANGED <<rows, clock>> /\ alarm' \in BOOLEAN
    BY <1>1 DEF Refuse, BookInv, BooksBalance, TypeOK
  <2> QED
    BY <2>1, BooksRefused
<1>2. CASE ~Refuse(s)
  <2>1. /\ c \in Accepted \cup Images /\ ~Exists(c) /\ Consume(c, clock)
        /\ End(s) /\ UNCHANGED <<used, swept, consumed, clock, alarm>>
    BY <1>2 DEF CommitAcceptedOperation
  <2>2. c \in Charges
    BY <2>1 DEF Charges
  <2>3. consumed' \subseteq Quotes
    BY <2>1 DEF BookInv, BooksBalance, TypeOK
  <2> HIDE DEF c
  <2> QED
    BY <2>1, <2>2, <2>3, ConsumeBooks
<1> QED
  BY <1>1, <1>2

\* A transaction that starts
LEMMA BooksBegun ==
  ASSUME BookInv, NEW s \in Servers
  PROVE  /\ \A c \in Charges : BeginCharge(s, c) => BookInv'
         /\ \A c \in Charges, k \in Keys : BeginReverse(s, c, k) => BookInv'
         /\ \A u \in TopUps : BeginTopUp(s, u) => BookInv'
         /\ \A l \in Rewards : BeginExpire(s, l) => BookInv'
<1>1. clock \in 0..MaxClock /\ alarm \in BOOLEAN
  BY DEF BookInv, BooksBalance, TypeOK
<1>2. ASSUME NEW c \in Charges, BeginCharge(s, c) PROVE BookInv'
  <2> DEFINE t == [op |-> "charge", charge |-> c]
  <2>1. tx' = [tx EXCEPT ![s] = t] /\ UNCHANGED <<rows, clock, alarm>>
    BY <1>2 DEF BeginCharge
  <2>2. t \in Transaction /\ t.op # "topup" /\ t.op # "reverse"
    BY DEF Transaction
  <2> HIDE DEF t
  <2> QED
    BY <1>1, <2>1, <2>2, BooksUnwritten
<1>3. ASSUME NEW c \in Charges, NEW k \in Keys, BeginReverse(s, c, k) PROVE BookInv'
  <2> DEFINE t == [op |-> "reverse", charge |-> c, key |-> k]
  <2>1. tx' = [tx EXCEPT ![s] = t] /\ UNCHANGED <<rows, clock, alarm>> /\ Exists(c)
    BY <1>3 DEF BeginReverse
  <2>2. t \in Transaction /\ t.op # "topup" /\ t.charge = c
    BY DEF Transaction
  <2> HIDE DEF t
  <2> QED
    BY <1>1, <2>1, <2>2, BooksUnwritten
<1>4. ASSUME NEW u \in TopUps, BeginTopUp(s, u) PROVE BookInv'
  <2> DEFINE t == [op |-> "topup", source |-> u, owed |-> Outstanding]
  <2>1. /\ tx' = [tx EXCEPT ![s] = t] /\ UNCHANGED <<rows, clock, alarm>>
        /\ \A r \in Servers : tx[r].op # "topup"
    BY <1>4 DEF BeginTopUp
  <2>2. t \in Transaction /\ t.op # "reverse" /\ t.owed = Outstanding
    <3>1. Outstanding \in [Charges -> Nat]
      BY OutstandingNat DEF BookInv, BooksBalance
    <3> QED
      BY <3>1 DEF Transaction
  <2> HIDE DEF t
  <2> QED
    BY <1>1, <2>1, <2>2, BooksUnwritten
<1>5. ASSUME NEW l \in Rewards, BeginExpire(s, l) PROVE BookInv'
  <2> DEFINE t == [op |-> "expire", lot |-> l, now |-> clock]
  <2>1. tx' = [tx EXCEPT ![s] = t] /\ UNCHANGED <<rows, clock, alarm>>
    BY <1>5 DEF BeginExpire
  <2>2. t \in Transaction /\ t.op # "topup" /\ t.op # "reverse"
    BY <1>1 DEF Transaction
  <2> HIDE DEF t
  <2> QED
    BY <1>1, <2>1, <2>2, BooksUnwritten
<1> QED
  BY <1>2, <1>3, <1>4, <1>5

\* Rebuilding the projection of books that balance changes nothing, and time passes.
LEMMA BooksIdle ==
  ASSUME BookInv, RebuildProjection \/ Tick \/ UNCHANGED vars
  PROVE  BookInv'
<1>1. account' = account /\ UNCHANGED <<booked, owed, lots, charges, used, swept, consumed, tx>>
  BY DEF RebuildProjection, Tick, vars, rows, BookInv, BooksBalance, ProjectionIsExact
<1>2. clock' \in 0..MaxClock /\ alarm' \in BOOLEAN
  BY EnvironmentAssumption DEF RebuildProjection, Tick, vars, BookInv, BooksBalance, TypeOK
<1>3. TypeOK'
  BY <1>1, <1>2 DEF BookInv, BooksBalance, TypeOK
<1>4. LotsAreConserved' /\ ProjectionIsExact' /\ DebtIsAttributed'
  BY <1>1 DEF BookInv, BooksBalance, LotsAreConserved, ProjectionIsExact, DebtIsAttributed,
              Outstanding
<1>5. RanksInv' /\ DebtInv' /\ OpenInv'
  BY <1>1 DEF BookInv, RanksInv, DebtInv, OpenInv, Exists, Outstanding
<1> QED
  BY <1>3, <1>4, <1>5 DEF BookInv, BooksBalance

LEMMA NextBooks == IInv /\ BookInv /\ [Next]_vars => BookInv'
<1> SUFFICES ASSUME IInv, BookInv, [Next]_vars PROVE BookInv'
    OBVIOUS
<1>1. ExpiryInv
  BY DEF IInv
<1>2. ASSUME NEW s \in Servers, Abort(s) PROVE BookInv'
  <2>1. End(s) /\ UNCHANGED <<rows, clock>> /\ alarm' \in BOOLEAN
    BY <1>2 DEF Abort, Refuse, BookInv, BooksBalance, TypeOK
  <2> QED
    BY <2>1, BooksRefused
<1> QED
  BY <1>1, <1>2, BooksBegun, QuotedChargeBooks, AcceptedOperationBooks, TopUpBooks, RewardBooks,
     ReverseBooks, ExpireBooks, BooksIdle DEF Next

LEMMA BookInvariance == Spec => [](IInv /\ BookInv)
<1> QED
  BY InitInv, NextInv, InitBooks, NextBooks, PTL DEF Spec

-----------------------------------------------------------------------------
(* The theorems                                                              *)

\* A promotional lot whose expiry ExpirePromotionalCredits booked never holds
\* credits again, whatever reverseCharge, top-ups and rewards do afterwards.
THEOREM ExpiryIsFinal == Spec => []ExpiredStaysExpired
<1>1. IInv => ExpiredStaysExpired
  BY DEF IInv, ExpiryInv, ExpiredStaysExpired
<1> QED
  BY <1>1, Invariance, PTL

\* However many requests present a quote at once, at most one charge is posted for
\* it (validateQuoteAvailability under the account's lock, MarkQuoteConsumed).
THEOREM QuotesPayOnce == Spec => []QuoteIsSpentOnce
<1>1. IInv => QuoteIsSpentOnce
  BY DEF IInv, QuoteInv
<1> QED
  BY <1>1, Invariance, PTL

\* After every commit of overlapping charges, top-ups, rewards, reversals and expiries
\* lots, charges, entries, debts and the account row agree, whatever rows they find and
\* however many there are (consumeForCharge, topUpInTxAfterUserLock, reverseCharge,
\* ExpirePromotionalCredits, RebuildProjection).
THEOREM TheBooksBalance == Spec => []BooksBalance
<1>1. BookInv => BooksBalance
  BY DEF BookInv
<1> QED
  BY <1>1, BookInvariance, PTL

\* ErrBillingLedgerInvalid is answered only to a top-up whose snapshot is older than the
\* debts: reverseCharge and ExpirePromotionalCredits always find the credits they move.
THEOREM OnlyOldSnapshotsAlarm == Spec => AlarmMeansOldSnapshot
<1> DEFINE A == ~alarm /\ alarm' =>
                  \E s \in Servers : /\ SnapshotReads /\ tx[s].op = "topup" /\ tx'[s] = Idle
                                    /\ tx[s].owed # Outstanding
<1>1. ASSUME BookInv, Next PROVE A
  <2> SUFFICES ASSUME ~alarm, alarm'
               PROVE  \E s \in Servers : /\ SnapshotReads /\ tx[s].op = "topup" /\ tx'[s] = Idle
                                         /\ tx[s].owed # Outstanding
      OBVIOUS
  <2>1. CASE \E s \in Servers : CommitTopUp(s)
    <3>1. PICK s \in Servers : CommitTopUp(s)
      BY <2>1
    <3>2. /\ tx[s].op = "topup" /\ End(s)
          /\ Total(IF SnapshotReads THEN tx[s].owed ELSE Outstanding, Charges) # account.debt
      BY <1>1, <3>1 DEF CommitTopUp, RefuseUnless
    <3>3. account.debt = Total(Outstanding, Charges)
      BY <1>1 DEF BookInv, BooksBalance, DebtIsAttributed
    <3>4. SnapshotReads /\ tx[s].owed # Outstanding
      BY <3>2, <3>3
    <3>5. tx'[s] = Idle
      BY <1>1, <3>2, TxEnds
    <3> QED
      BY <3>2, <3>4, <3>5
  <2>2. ASSUME NEW s \in Servers, CommitReverse(s) PROVE FALSE
    <3>1. tx[s].charge \in Charges
      BY <1>1, <2>2, TxKinds DEF CommitReverse, BookInv, BooksBalance
    <3>2. /\ Unreversed(tx[s].charge)
          /\ ~\A l \in LotIds : lots[l].spent >= charges[tx[s].charge].from[l]
      BY <1>1, <2>2 DEF CommitReverse, RefuseUnless
    <3> QED
      BY <1>1, <3>1, <3>2, ReversalCovered
  <2>3. ASSUME NEW s \in Servers, CommitExpire(s) PROVE FALSE
    <3>1. tx[s].lot \in Rewards
      BY <1>1, <2>3, TxKinds DEF CommitExpire, BookInv, BooksBalance
    <3>2. ~(account.promo >= lots[tx[s].lot].available)
      BY <1>1, <2>3 DEF CommitExpire, RefuseUnless
    <3> QED
      BY <1>1, <3>1, <3>2, ExpiryCovered
  <2>4. ASSUME NEW s \in Servers, CommitQuotedCharge(s) \/ CommitAcceptedOperation(s) \/ Abort(s)
        PROVE  FALSE
    BY <1>1, <2>4 DEF CommitQuotedCharge, CommitAcceptedOperation, Abort, Refuse
  <2>5. ASSUME NEW s \in Servers PROVE /\ \A c \in Charges : ~BeginCharge(s, c)
                                       /\ \A c \in Charges, k \in Keys : ~BeginReverse(s, c, k)
                                       /\ \A u \in TopUps : ~BeginTopUp(s, u)
                                       /\ \A l \in Rewards : ~BeginExpire(s, l)
    BY <1>1 DEF BeginCharge, BeginReverse, BeginTopUp, BeginExpire
  <2>6. ~RebuildProjection /\ ~Tick /\ \A r \in Rewards : ~IssueReward(r)
    BY <1>1 DEF RebuildProjection, Tick, IssueReward
  <2> QED
    BY <1>1, <2>1, <2>2, <2>3, <2>4, <2>5, <2>6 DEF Next
<1>2. (IInv /\ BookInv) /\ [Next]_vars => [A]_vars
  BY <1>1
<1> HIDE DEF A
<1>3. [](IInv /\ BookInv) /\ [][Next]_vars => [][A]_vars
  BY <1>2, PTL
<1>4. [][A]_vars <=> AlarmMeansOldSnapshot
  BY DEF A, AlarmMeansOldSnapshot
<1> QED
  BY <1>3, <1>4, BookInvariance, PTL DEF Spec

-----------------------------------------------------------------------------
(* The settlement outbox in front of the wallet, for any number of workers,  *)
(* settlements and faults and any batch size.  The attempts of a row are     *)
(* larger than every token handed out before, so tokens of one row differ    *)
(* (TokenInv); a worker about to mark "processed" has seen the posting       *)
(* (ResultInv).                                                              *)

TokenInv ==
  /\ \A w \in Workers : \A s \in batch[w] : token[w][s] <= row[s].attempts
  /\ \A v, w \in Workers :
       v # w => \A s \in batch[v] \cap batch[w] : token[v][s] # token[w][s]

ResultInv ==
  /\ AppliedOnce
  /\ \A w \in Workers :
       /\ batch[w] = {} => result[w] = "none"
       /\ \A s \in batch[w] : AtHead(w, s) /\ result[w] = "processed" => posted[s] = 1

OutboxInv == OutboxTypeOK /\ TokenInv /\ ResultInv

LEMMA OutboxInitInv == OutboxInit => OutboxInv
<1> SUFFICES ASSUME OutboxInit PROVE OutboxInv
    OBVIOUS
<1>1. OutboxTypeOK
  BY OutboxAssumption DEF OutboxInit, OutboxTypeOK, Row, Status, Settled
<1>2. TokenInv /\ ResultInv
  BY DEF OutboxInit, TokenInv, ResultInv, AppliedOnce
<1> QED
  BY <1>1, <1>2 DEF OutboxInv

\* ClaimSettlements hands out tokens larger than all before.
LEMMA ClaimInv ==
  ASSUME OutboxInv, NEW w \in Workers, ClaimSettlements(w)
  PROVE  OutboxInv'
<1> DEFINE claimed == Oldest({s \in Settlements : Claimable(s)}, BatchSize)
<1>1. claimed \subseteq {s \in Settlements : Claimable(s)}
  BY DEF Oldest
<1>2. /\ batch[w] = {} /\ claimed # {}
      /\ row' = [s \in Settlements |-> IF s \in claimed THEN Claimed(row[s]) ELSE row[s]]
      /\ batch' = [batch EXCEPT ![w] = claimed]
      /\ token' = [token EXCEPT ![w] = [s \in Settlements |->
                     IF s \in claimed THEN Claimed(row[s]).attempts ELSE @[s]]]
      /\ UNCHANGED <<posted, result, faults>>
  BY DEF ClaimSettlements
<1> HIDE DEF claimed
<1>3. \A s \in Settlements : Claimed(row[s]) \in Row /\ Claimed(row[s]).attempts = row[s].attempts + 1
  BY DEF OutboxInv, OutboxTypeOK, Row, Claimed, Status
<1>4. OutboxTypeOK'
  BY <1>1, <1>2, <1>3 DEF OutboxInv, OutboxTypeOK, Row
<1>5. TokenInv'
  <2>1. \A s \in Settlements : row[s].attempts \in Nat /\ row'[s].attempts \in Nat
                               /\ row[s].attempts <= row'[s].attempts
                               /\ (s \in claimed => row'[s].attempts = row[s].attempts + 1)
    BY <1>2, <1>3 DEF OutboxInv, OutboxTypeOK, Row
  <2>2. \A v \in Workers : v # w => batch'[v] = batch[v] /\ token'[v] = token[v]
    BY <1>2 DEF OutboxInv, OutboxTypeOK
  <2>3. batch'[w] = claimed /\ \A s \in claimed : token'[w][s] = row'[s].attempts
    BY <1>1, <1>2, <1>3 DEF OutboxInv, OutboxTypeOK
  <2>4. \A v \in Workers : \A s \in batch[v] : s \in Settlements /\ token[v][s] \in Nat
    BY DEF OutboxInv, OutboxTypeOK
  <2>5. \A v \in Workers : \A s \in batch'[v] : token'[v][s] <= row'[s].attempts
    <3> TAKE v \in Workers
    <3> TAKE s \in batch'[v]
    <3>1. CASE v = w
      BY <1>1, <2>1, <2>3, <3>1
    <3>2. CASE v # w
      BY <2>1, <2>2, <2>4, <3>2 DEF OutboxInv, TokenInv
    <3> QED
      BY <3>1, <3>2
  <2>6. \A v \in Workers \ {w} : \A s \in batch'[v] \cap claimed : token'[v][s] # token'[w][s]
    BY <2>1, <2>2, <2>3, <2>4 DEF OutboxInv, TokenInv
  <2>7. \A u, v \in Workers :
          u # v => \A s \in batch'[u] \cap batch'[v] : token'[u][s] # token'[v][s]
    <3> TAKE u, v \in Workers
    <3> HAVE u # v
    <3> TAKE s \in batch'[u] \cap batch'[v]
    <3>1. CASE u = w
      BY <2>3, <2>6, <3>1
    <3>2. CASE v = w
      BY <2>3, <2>6, <3>2
    <3>3. CASE u # w /\ v # w
      BY <2>2, <3>3 DEF OutboxInv, TokenInv
    <3> QED
      BY <3>1, <3>2, <3>3
  <2> QED
    BY <2>5, <2>7 DEF TokenInv
<1>6. ResultInv'
  <2>1. \A s \in Settlements : row'[s].status = "processed" => row[s].status = "processed"
    BY <1>2 DEF Claimed
  <2>2. AppliedOnce'
    BY <1>2, <2>1 DEF OutboxInv, ResultInv, AppliedOnce
  <2>3. result[w] = "none"
    BY <1>2 DEF OutboxInv, ResultInv
  <2>4. \A v \in Workers : v # w => batch'[v] = batch[v]
    BY <1>2 DEF OutboxInv, OutboxTypeOK
  <2> QED
    BY <1>2, <2>2, <2>3, <2>4 DEF OutboxInv, ResultInv, AtHead
<1> QED
  BY <1>4, <1>5, <1>6 DEF OutboxInv

\* A step that only advances the clock of a row, or writes it down.
LEMMA RowInv ==
  ASSUME OutboxInv, NEW s \in Settlements, row' \in [Settlements -> Row],
         row'[s].attempts = row[s].attempts, row'[s].status # "processed",
         \A t \in Settlements : t # s => row'[t] = row[t],
         UNCHANGED <<posted, batch, token, result>>, faults' \in 0..MaxFaults
  PROVE  OutboxInv'
<1>1. OutboxTypeOK'
  BY DEF OutboxInv, OutboxTypeOK
<1>2. TokenInv'
  BY DEF OutboxInv, OutboxTypeOK, TokenInv
<1>3. ResultInv'
  BY DEF OutboxInv, ResultInv, AppliedOnce, AtHead
<1> QED
  BY <1>1, <1>2, <1>3 DEF OutboxInv

\* Post keeps AppliedOnce and what other workers have seen.
LEMMA PostInv ==
  ASSUME OutboxInv, NEW w \in Workers, NEW s \in Settlements, AtHead(w, s),
         Post(s) \/ UNCHANGED posted,
         NEW r \in {"retry", "processed", "failed"}, r = "processed" => Post(s),
         result' = [result EXCEPT ![w] = r],
         UNCHANGED <<row, batch, token>>, faults' \in 0..MaxFaults
  PROVE  OutboxInv'
<1>1. posted' \in [Settlements -> Nat]
  BY DEF OutboxInv, OutboxTypeOK, Post
<1>2. \A t \in Settlements : posted'[t] <= 1 /\ (posted[t] = 1 => posted'[t] = 1)
  BY DEF OutboxInv, OutboxTypeOK, ResultInv, AppliedOnce, Post
<1>3. r = "processed" => posted'[s] = 1
  <2>1. posted[s] \in Nat /\ posted[s] <= 1
    BY DEF OutboxInv, OutboxTypeOK, ResultInv, AppliedOnce
  <2>2. Post(s) => posted'[s] = IF posted[s] = 0 THEN 1 ELSE posted[s]
    BY DEF OutboxInv, OutboxTypeOK, Post
  <2> QED
    BY <2>1, <2>2
<1>4. OutboxTypeOK'
  BY <1>1 DEF OutboxInv, OutboxTypeOK, Settled
<1>5. TokenInv'
  BY DEF OutboxInv, TokenInv
<1>6. AppliedOnce'
  BY <1>2 DEF OutboxInv, ResultInv, AppliedOnce
<1>7. \A v \in Workers :
        /\ batch'[v] = {} => result'[v] = "none"
        /\ \A t \in batch'[v] : AtHead(v, t)' /\ result'[v] = "processed" => posted'[t] = 1
  <2> TAKE v \in Workers
  <2>1. CASE v = w
    <3>1. \A t \in batch[w] : AtHead(w, t) => t = s
      BY OutboxAssumption DEF AtHead, OutboxInv, OutboxTypeOK
    <3> QED
      BY <1>3, <2>1, <3>1 DEF AtHead, OutboxInv, OutboxTypeOK
  <2>2. CASE v # w
    BY <1>2, <2>2 DEF AtHead, OutboxInv, OutboxTypeOK, ResultInv
  <2> QED
    BY <2>1, <2>2
<1>8. ResultInv'
  BY <1>6, <1>7 DEF ResultInv
<1> QED
  BY <1>4, <1>5, <1>8 DEF OutboxInv

LEMMA MarkInv ==
  ASSUME OutboxInv, NEW w \in Workers, NEW s \in Settlements, MarkSettlement(w, s)
  PROVE  OutboxInv'
<1>1. row' \in [Settlements -> Row]
  BY DEF MarkSettlement, OutboxInv, OutboxTypeOK, Row, Status, Settled
<1>2. OutboxTypeOK'
  BY <1>1 DEF MarkSettlement, OutboxInv, OutboxTypeOK
<1>3. \A t \in Settlements : row'[t].attempts = row[t].attempts
  <2> TAKE t \in Settlements
  <2>1. CASE UNCHANGED row
    BY <2>1
  <2>2. CASE row' = [row EXCEPT ![s].status = result[w], ![s].ready = FALSE]
    BY <2>2 DEF OutboxInv, OutboxTypeOK, Row
  <2> QED
    BY <2>1, <2>2 DEF MarkSettlement
<1>4. \A v \in Workers : batch'[v] \subseteq batch[v]
  BY DEF MarkSettlement, OutboxInv, OutboxTypeOK
<1>5. TokenInv'
  BY <1>3, <1>4 DEF MarkSettlement, OutboxInv, OutboxTypeOK, TokenInv
<1>6. AppliedOnce'
  <2>1. \A t \in Settlements : t # s => row'[t] = row[t]
    BY DEF MarkSettlement, OutboxInv, OutboxTypeOK
  <2>2. row'[s].status = "processed" => row[s].status = "processed" \/ result[w] = "processed"
    BY DEF MarkSettlement, OutboxInv, OutboxTypeOK, Row
  <2>3. result[w] = "processed" => posted[s] = 1
    BY DEF MarkSettlement, AtHead, OutboxInv, ResultInv
  <2> QED
    BY <2>1, <2>2, <2>3 DEF MarkSettlement, OutboxInv, ResultInv, AppliedOnce
<1>7. \A v \in Workers : v # w => batch'[v] = batch[v] /\ result'[v] = result[v]
  BY DEF MarkSettlement, OutboxInv, OutboxTypeOK
<1>8. result'[w] = "none"
  BY DEF MarkSettlement, OutboxInv, OutboxTypeOK
<1>9. ResultInv'
  BY <1>6, <1>7, <1>8 DEF MarkSettlement, OutboxInv, ResultInv, AtHead
<1> QED
  BY <1>2, <1>5, <1>9 DEF OutboxInv

LEMMA AbandonInv ==
  ASSUME OutboxInv, NEW w \in Workers, AbandonBatch(w)
  PROVE  OutboxInv'
<1>1. OutboxTypeOK'
  BY OutboxAssumption DEF AbandonBatch, Fault, OutboxInv, OutboxTypeOK
<1>2. batch'[w] = {} /\ result'[w] = "none"
  BY DEF AbandonBatch, OutboxInv, OutboxTypeOK
<1>3. \A v \in Workers : v # w => batch'[v] = batch[v] /\ result'[v] = result[v]
  BY DEF AbandonBatch, OutboxInv, OutboxTypeOK
<1>4. TokenInv'
  BY <1>2, <1>3 DEF AbandonBatch, OutboxInv, TokenInv
<1>5. ResultInv'
  BY <1>2, <1>3 DEF AbandonBatch, OutboxInv, ResultInv, AppliedOnce, AtHead
<1> QED
  BY <1>1, <1>4, <1>5 DEF OutboxInv

LEMMA OutboxNextInv == OutboxInv /\ [OutboxNext]_outboxVars => OutboxInv'
<1> SUFFICES ASSUME OutboxInv, [OutboxNext]_outboxVars PROVE OutboxInv'
    OBVIOUS
<1> USE OutboxAssumption
<1>1. ASSUME NEW s \in Settlements, Enqueue(s) PROVE OutboxInv'
  <2>1. /\ row' \in [Settlements -> Row] /\ row'[s].attempts = row[s].attempts
        /\ row'[s].status # "processed" /\ \A t \in Settlements : t # s => row'[t] = row[t]
    BY <1>1 DEF Enqueue, OutboxInv, OutboxTypeOK, Row, Status
  <2>2. UNCHANGED <<posted, batch, token, result>> /\ faults' \in 0..MaxFaults
    BY <1>1 DEF Enqueue, OutboxInv, OutboxTypeOK
  <2> QED
    BY <2>1, <2>2, RowInv
<1>2. ASSUME NEW s \in Settlements, BackoffEnds(s) PROVE OutboxInv'
  <2>1. /\ row' \in [Settlements -> Row] /\ row'[s].attempts = row[s].attempts
        /\ row'[s].status # "processed" /\ \A t \in Settlements : t # s => row'[t] = row[t]
    BY <1>2 DEF BackoffEnds, OutboxInv, OutboxTypeOK, Row
  <2>2. UNCHANGED <<posted, batch, token, result>> /\ faults' \in 0..MaxFaults
    BY <1>2 DEF BackoffEnds, OutboxInv, OutboxTypeOK
  <2> QED
    BY <2>1, <2>2, RowInv
<1>3. ASSUME NEW s \in Settlements, LeaseEnds(s) PROVE OutboxInv'
  <2>1. /\ row' \in [Settlements -> Row] /\ row'[s].attempts = row[s].attempts
        /\ row'[s].status # "processed" /\ \A t \in Settlements : t # s => row'[t] = row[t]
    BY <1>3 DEF LeaseEnds, OutboxInv, OutboxTypeOK, Row
  <2>2. UNCHANGED <<posted, batch, token, result>> /\ faults' \in 0..MaxFaults
    BY <1>3 DEF LeaseEnds, Fault, OutboxInv, OutboxTypeOK
  <2> QED
    BY <2>1, <2>2, RowInv
<1>4. ASSUME NEW w \in Workers, NEW s \in Settlements, ApplySettlement(w, s) PROVE OutboxInv'
  <2>1. AtHead(w, s) /\ UNCHANGED <<row, batch, token>> /\ faults' \in 0..MaxFaults
    BY <1>4 DEF ApplySettlement, OutboxInv, OutboxTypeOK
  <2>2. CASE Post(s) /\ result' = [result EXCEPT ![w] = "processed"]
    BY <2>1, <2>2, PostInv
  <2>3. CASE UNCHANGED posted /\ result' = [result EXCEPT ![w] = "failed"]
    BY <2>1, <2>3, PostInv
  <2> QED
    BY <1>4, <2>2, <2>3 DEF ApplySettlement
<1>5. ASSUME NEW w \in Workers, NEW s \in Settlements, ApplyErrs(w, s) PROVE OutboxInv'
  <2>1. /\ AtHead(w, s) /\ UNCHANGED <<row, batch, token>> /\ faults' \in 0..MaxFaults
        /\ Post(s) \/ UNCHANGED posted
    BY <1>5 DEF ApplyErrs, Fault, OutboxInv, OutboxTypeOK
  <2>2. PICK r \in {"retry", "failed"} : result' = [result EXCEPT ![w] = r]
    BY <1>5 DEF ApplyErrs
  <2> QED
    BY <2>1, <2>2, PostInv
<1>6. CASE UNCHANGED outboxVars
  <2>1. OutboxTypeOK'
    BY <1>6 DEF outboxVars, OutboxInv, OutboxTypeOK
  <2>2. TokenInv' /\ ResultInv'
    BY <1>6 DEF outboxVars, OutboxInv, TokenInv, ResultInv, AppliedOnce, AtHead
  <2> QED
    BY <2>1, <2>2 DEF OutboxInv
<1> QED
  BY <1>1, <1>2, <1>3, <1>4, <1>5, <1>6, ClaimInv, MarkInv, AbandonInv DEF OutboxNext

LEMMA OutboxInvariance == OutboxSpec => []OutboxInv
<1> QED
  BY OutboxInitInv, OutboxNextInv, PTL DEF OutboxSpec

-----------------------------------------------------------------------------
(* The theorems                                                              *)

\* The rows, batches and tokens of the outbox stay in their types.
THEOREM OutboxTypeCorrect == OutboxSpec => []OutboxTypeOK
<1>1. OutboxInv => OutboxTypeOK
  BY DEF OutboxInv
<1> QED
  BY <1>1, OutboxInvariance, PTL

\* applySettlement under the settlement's ID posts each settlement at most once,
\* and what is marked processed was posted, whatever is taken over, lost or retried.
THEOREM PostedOnce == OutboxSpec => []AppliedOnce
<1>1. OutboxInv => AppliedOnce
  BY DEF OutboxInv, ResultInv
<1> QED
  BY <1>1, OutboxInvariance, PTL

\* The attempts fence leaves at most one worker able to mark a settlement.
THEOREM FenceIsExclusive == OutboxSpec => []OneOwner
<1>1. OutboxInv => OneOwner
  <2> SUFFICES ASSUME OutboxInv, NEW s \in Settlements, NEW v \in Workers, NEW w \in Workers,
                      s \in batch[v] \cap batch[w], Owns(v, s), Owns(w, s)
               PROVE  v = w
    BY DEF OneOwner
  <2>1. token[v][s] = token[w][s]
    BY DEF Owns
  <2> QED
    BY <2>1 DEF OutboxInv, TokenInv
<1> QED
  BY <1>1, OutboxInvariance, PTL

\* ClaimSettlements and the marks leave processed and failed rows alone.
THEOREM Finality == OutboxSpec => SettledIsFinal
<1> DEFINE Final == \A s \in Settlements : row[s].status \in Settled => row'[s] = row[s]
<1>1. ASSUME OutboxTypeOK, [OutboxNext]_outboxVars PROVE [Final]_outboxVars
  <2>1. ASSUME NEW s \in Settlements, Enqueue(s) \/ BackoffEnds(s) \/ LeaseEnds(s)
        PROVE  Final
    BY <1>1, <2>1 DEF Enqueue, BackoffEnds, LeaseEnds, Settled, OutboxTypeOK
  <2>2. ASSUME NEW w \in Workers, ClaimSettlements(w) PROVE Final
    <3> DEFINE claimed == Oldest({s \in Settlements : Claimable(s)}, BatchSize)
    <3>1. \A s \in claimed : row[s].status \notin Settled
      BY DEF Oldest, Claimable, Settled
    <3>2. row' = [s \in Settlements |-> IF s \in claimed THEN Claimed(row[s]) ELSE row[s]]
      BY <2>2 DEF ClaimSettlements
    <3> QED
      BY <3>1, <3>2
  <2>3. ASSUME NEW w \in Workers, NEW s \in Settlements, MarkSettlement(w, s) PROVE Final
    BY <1>1, <2>3 DEF MarkSettlement, Owns, Settled, OutboxTypeOK
  <2>4. ASSUME NEW w \in Workers, NEW s \in Settlements,
               ApplySettlement(w, s) \/ ApplyErrs(w, s)
        PROVE  Final
    BY <2>4 DEF ApplySettlement, ApplyErrs
  <2>5. ASSUME NEW w \in Workers, AbandonBatch(w) PROVE Final
    BY <2>5 DEF AbandonBatch
  <2> QED
    BY <1>1, <2>1, <2>2, <2>3, <2>4, <2>5 DEF OutboxNext
<1> QED
  BY <1>1, OutboxTypeCorrect, PTL DEF OutboxSpec, SettledIsFinal
=============================================================================
