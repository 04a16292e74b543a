------------------------- MODULE InductionTheorems -------------------------
(***************************************************************************)
(* Induction as statements about sets, which first-order provers can use,  *)
(* and what it gives for sums over finite sets (SumFunctionOnSet of the    *)
(* community module Functions).  Both inductions rest on WFMin: that in a  *)
(* well-founded order every non-empty set has a minimal element.           *)
(***************************************************************************)
EXTENDS FiniteSetsExt, FiniteSetTheorems, TLAPS

(* What holds at 0 and at every successor holds of every number.           *)
LEMMA NatInduct ==
    ASSUME NEW M, M \subseteq Nat, 0 \in M, \A n \in M : n + 1 \in M
    PROVE  M = Nat
<1> SUFFICES ASSUME Nat \ M # {} PROVE FALSE
  OBVIOUS
<1>1. PICK n \in Nat \ M : \A k \in Nat \ M : ~ (<< k, n >> \in OpToRel(<, Nat))
  BY NatLessThanWellFounded, WFMin, Zenon
<1>2. \A k \in Nat \ M : ~ (k < n)
  BY <1>1 DEF OpToRel
<1>3. n # 0 /\ n - 1 \in Nat /\ n - 1 < n
  OBVIOUS
<1>4. n - 1 \in M
  BY <1>2, <1>3
<1> QED  BY <1>4, <1>3

(* Every non-empty family of subsets of a finite set has a minimal one.    *)
LEMMA MinimalSet ==
    ASSUME NEW S, IsFiniteSet(S), NEW F, F \subseteq SUBSET S, F # {}
    PROVE  \E T \in F : \A U \in F : U \subseteq T => U = T
<1>1. IsWellFoundedOn(StrictSubsetOrdering(S), SUBSET S)
  BY FS_StrictSubsetOrderingWellFounded, FS_FiniteSubsetsOfFinite, Zenon
<1>2. PICK T \in F : \A U \in F : ~ (<< U, T >> \in StrictSubsetOrdering(S))
  BY <1>1, WFMin, Zenon
<1>3. ASSUME NEW U \in F, U \subseteq T PROVE U = T
  BY <1>2, <1>3, Zenon DEF StrictSubsetOrdering
<1> QED  BY <1>2, <1>3

(* What holds of a set when it holds of the smaller ones holds of all.     *)
LEMMA SetInduct ==
    ASSUME NEW S, IsFiniteSet(S), NEW F, F \subseteq SUBSET S,
           \A T \in SUBSET S : (\A U \in SUBSET T : U # T => U \in F) => T \in F
    PROVE  F = SUBSET S
<1> DEFINE B == (SUBSET S) \ F
<1>1. SUFFICES ASSUME B # {} PROVE FALSE
  OBVIOUS
<1>2. B \subseteq SUBSET S
  OBVIOUS
<1>3. \E T \in B : \A U \in B : U \subseteq T => U = T
  <2> HIDE DEF B
  <2> QED  BY <1>1, <1>2, MinimalSet, SMT
<1>4. PICK T \in B : \A U \in B : U \subseteq T => U = T
  BY <1>3, Zenon
<1>5. \A U \in SUBSET T : U # T => U \in F
  BY <1>4
<1> QED  BY <1>5
-----------------------------------------------------------------------------
(* The function that a sum unfolds to. *)

First(s) == CHOOSE x \in s : TRUE

(* What adds f over the subsets of S, taking away the first element.       *)
Adds(g, f, S) ==
    g = [s \in SUBSET S |-> IF s = {} THEN 0 ELSE f[First(s)] + g[s \ {First(s)}]]

Upto(S, n) == { s \in SUBSET S : Cardinality(s) =< n }

AddsUpto(g, f, S, n) ==
    g = [s \in Upto(S, n) |-> IF s = {} THEN 0 ELSE f[First(s)] + g[s \ {First(s)}]]

LEMMA SumUnfold ==
    ASSUME NEW f, NEW S
    PROVE  SumFunctionOnSet(f, S) = (CHOOSE g : Adds(g, f, S))[S]
BY DEF SumFunctionOnSet, FoldFunctionOnSet, MapThenFoldSet, First, Adds

LEMMA Smaller ==
    ASSUME NEW S, IsFiniteSet(S), NEW s \in SUBSET S
    PROVE  /\ IsFiniteSet(s) /\ Cardinality(s) \in Nat /\ Cardinality(s) =< Cardinality(S)
           /\ Cardinality(s) = 0 <=> s = {}
           /\ s # {} => /\ First(s) \in s /\ s \ {First(s)} \in SUBSET S
                        /\ Cardinality(s \ {First(s)}) = Cardinality(s) - 1
<1>1. IsFiniteSet(s) /\ Cardinality(s) =< Cardinality(S) /\ Cardinality(s) \in Nat
  BY FS_Subset, FS_CardinalityType
<1>2. s # {} => First(s) \in s
  BY Zenon DEF First
<1>3. s # {} => Cardinality(s \ {First(s)}) = Cardinality(s) - 1
  BY <1>1, <1>2, FS_RemoveElement
<1> QED  BY <1>1, <1>2, <1>3, FS_EmptySet

LEMMA AddsNone ==
    ASSUME NEW f, NEW S, IsFiniteSet(S)
    PROVE  \E g : AddsUpto(g, f, S, 0)
<1> DEFINE g == [s \in Upto(S, 0) |-> 0]
<1>1. ASSUME NEW s \in Upto(S, 0) PROVE s = {}
  <2>1. s \in SUBSET S /\ Cardinality(s) =< 0
    BY DEF Upto
  <2>2. Cardinality(s) \in Nat /\ (Cardinality(s) = 0 <=> s = {})
    BY <2>1, Smaller, Zenon
  <2> QED  BY <2>1, <2>2
<1>2. AddsUpto(g, f, S, 0)
  BY <1>1 DEF AddsUpto
<1> QED  BY <1>2

LEMMA AddsOneMore ==
    ASSUME NEW f, NEW S, IsFiniteSet(S), NEW n \in Nat, NEW g, AddsUpto(g, f, S, n)
    PROVE  \E h : AddsUpto(h, f, S, n + 1)
<1> DEFINE h == [s \in Upto(S, n + 1) |->
                   IF s = {} THEN 0 ELSE f[First(s)] + g[s \ {First(s)}]]
<1>1. ASSUME NEW s \in Upto(S, n) PROVE s \in Upto(S, n + 1) /\ h[s] = g[s]
  <2>1. s \in SUBSET S /\ Cardinality(s) =< n
    BY DEF Upto
  <2>2. Cardinality(s) \in Nat
    BY <2>1, Smaller, Zenon
  <2>3. s \in Upto(S, n + 1)
    BY <2>1, <2>2 DEF Upto
  <2> QED  BY <2>3 DEF AddsUpto
<1>2. ASSUME NEW s \in Upto(S, n + 1), s # {} PROVE s \ {First(s)} \in Upto(S, n)
  BY <1>2, Smaller DEF Upto
<1>3. AddsUpto(h, f, S, n + 1)
  BY <1>1, <1>2 DEF AddsUpto
<1> QED  BY <1>3

LEMMA AddsAll ==
    ASSUME NEW f, NEW S, IsFiniteSet(S)
    PROVE  \E g : Adds(g, f, S)
<1> DEFINE M == { n \in Nat : \E g : AddsUpto(g, f, S, n) }
<1>1. M = Nat
  <2>1. 0 \in M
    BY AddsNone
  <2>2. \A n \in M : n + 1 \in M
    BY AddsOneMore
  <2>3. M \subseteq Nat
    OBVIOUS
  <2> HIDE DEF M
  <2> QED  BY <2>1, <2>2, <2>3, NatInduct
<1>2. PICK g : AddsUpto(g, f, S, Cardinality(S))
  BY <1>1, FS_CardinalityType
<1>3. Upto(S, Cardinality(S)) = SUBSET S
  BY Smaller DEF Upto
<1> QED  BY <1>2, <1>3 DEF AddsUpto, Adds

LEMMA SumAdds ==
    ASSUME NEW f, NEW S, IsFiniteSet(S)
    PROVE  \E g : Adds(g, f, S) /\ SumFunctionOnSet(f, S) = g[S]
<1> DEFINE G == CHOOSE g : Adds(g, f, S)
<1>1. Adds(G, f, S)
  BY AddsAll, Zenon
<1> QED  BY <1>1, SumUnfold

(* Two such functions agree where the numbers they add do.                 *)
LEMMA AddsAgree ==
    ASSUME NEW f, NEW k, NEW S, IsFiniteSet(S), NEW T \in SUBSET S, \A x \in T : f[x] = k[x],
           NEW g, NEW h, Adds(g, f, S), Adds(h, k, T)
    PROVE  g[T] = h[T]
<1> DEFINE F == { s \in SUBSET T : g[s] = h[s] }
<1>1. IsFiniteSet(T)
  BY FS_Subset
<1>2. ASSUME NEW s \in SUBSET T, \A U \in SUBSET s : U # s => U \in F
      PROVE  s \in F
  <2>1. CASE s = {}
    BY <2>1 DEF Adds
  <2>2. CASE s # {}
    <3>1. First(s) \in s /\ s \ {First(s)} \in SUBSET s /\ s \ {First(s)} # s
      BY <1>1, <2>2, Smaller
    <3>2. g[s \ {First(s)}] = h[s \ {First(s)}]
      BY <1>2, <3>1
    <3>3. g[s] = f[First(s)] + g[s \ {First(s)}]
      BY <2>2 DEF Adds
    <3>4. h[s] = k[First(s)] + h[s \ {First(s)}]
      BY <2>2 DEF Adds
    <3> QED  BY <3>1, <3>2, <3>3, <3>4
  <2> QED  BY <2>1, <2>2
<1>3. F \subseteq SUBSET T
  OBVIOUS
<1>4. F = SUBSET T
  <2> HIDE DEF F
  <2> QED  BY <1>1, <1>2, <1>3, SetInduct
<1> QED  BY <1>4
-----------------------------------------------------------------------------
(* Sums over a finite set. *)

LEMMA SumSame ==
    ASSUME NEW f, NEW k, NEW S, IsFiniteSet(S), \A x \in S : f[x] = k[x]
    PROVE  SumFunctionOnSet(f, S) = SumFunctionOnSet(k, S)
<1>1. PICK g : Adds(g, f, S) /\ SumFunctionOnSet(f, S) = g[S]
  BY SumAdds
<1>2. PICK h : Adds(h, k, S) /\ SumFunctionOnSet(k, S) = h[S]
  BY SumAdds
<1> QED  BY <1>1, <1>2, AddsAgree

LEMMA SumFirst ==
    ASSUME NEW f, NEW S, IsFiniteSet(S)
    PROVE  SumFunctionOnSet(f, S) =
             IF S = {} THEN 0 ELSE f[First(S)] + SumFunctionOnSet(f, S \ {First(S)})
<1>1. PICK g : Adds(g, f, S) /\ SumFunctionOnSet(f, S) = g[S]
  BY SumAdds
<1>2. CASE S = {}
  BY <1>1, <1>2 DEF Adds
<1>3. CASE S # {}
  <2> DEFINE T == S \ {First(S)}
  <2>1. T \in SUBSET S /\ IsFiniteSet(T)
    BY FS_Subset
  <2>2. PICK h : Adds(h, f, T) /\ SumFunctionOnSet(f, T) = h[T]
    BY <2>1, SumAdds
  <2>3. g[T] = h[T]
    BY <1>1, <2>1, <2>2, AddsAgree
  <2>4. g[S] = f[First(S)] + g[T]
    BY <1>1, <1>3 DEF Adds
  <2> QED  BY <1>1, <1>3, <2>2, <2>3, <2>4
<1> QED  BY <1>2, <1>3

LEMMA SumType ==
    ASSUME NEW f, NEW S, IsFiniteSet(S), NEW N \in {Nat, Int}, \A x \in S : f[x] \in N
    PROVE  SumFunctionOnSet(f, S) \in N
<1> DEFINE F == { s \in SUBSET S : SumFunctionOnSet(f, s) \in N }
<1>1. ASSUME NEW s \in SUBSET S, \A U \in SUBSET s : U # s => U \in F
      PROVE  s \in F
  <2>1. IsFiniteSet(s)
    BY FS_Subset
  <2>2. CASE s = {}
    <3>1. SumFunctionOnSet(f, s) = 0
      BY <2>1, <2>2, SumFirst
    <3> QED  BY <3>1
  <2>3. CASE s # {}
    <3>1. First(s) \in s /\ s \ {First(s)} \in SUBSET s /\ s \ {First(s)} # s
      BY <2>3, Smaller
    <3>2. SumFunctionOnSet(f, s \ {First(s)}) \in N
      BY <1>1, <3>1
    <3>3. SumFunctionOnSet(f, s) = f[First(s)] + SumFunctionOnSet(f, s \ {First(s)})
      BY <2>1, <2>3, SumFirst
    <3>4. f[First(s)] \in N
      BY <3>1
    <3> QED  BY <3>2, <3>3, <3>4
  <2> QED  BY <2>2, <2>3
<1>2. F \subseteq SUBSET S
  OBVIOUS
<1>3. F = SUBSET S
  <2> HIDE DEF F
  <2> QED  BY <1>1, <1>2, SetInduct
<1> QED  BY <1>3

(* Any element can be taken out first. *)
LEMMA SumRemove ==
    ASSUME NEW f, NEW S, IsFiniteSet(S), \A x \in S : f[x] \in Int, NEW x \in S
    PROVE  SumFunctionOnSet(f, S) = f[x] + SumFunctionOnSet(f, S \ {x})
<1> DEFINE Total(s) == SumFunctionOnSet(f, s)
           F == { s \in SUBSET S : \A y \in s : Total(s) = f[y] + Total(s \ {y}) }
<1>1. ASSUME NEW s \in SUBSET S, \A U \in SUBSET s : U # s => U \in F
      PROVE  s \in F
  <2> SUFFICES ASSUME NEW y \in s PROVE Total(s) = f[y] + Total(s \ {y})
    OBVIOUS
  <2> DEFINE z == First(s)
  <2>1. IsFiniteSet(s) /\ z \in s
    BY Smaller
  <2>2. Total(s) = f[z] + Total(s \ {z})
    BY <2>1, SumFirst
  <2>3. CASE y = z
    BY <2>2, <2>3
  <2>4. CASE y # z
    <3>1. s \ {z} \in SUBSET s /\ s \ {z} # s /\ y \in s \ {z}
      BY <2>1, <2>4
    <3>2. s \ {y} \in SUBSET s /\ s \ {y} # s /\ z \in s \ {y}
      BY <2>1, <2>4
    <3> HIDE DEF z, Total
    <3>3. Total(s \ {z}) = f[y] + Total((s \ {z}) \ {y})
      BY <1>1, <3>1
    <3>4. Total(s \ {y}) = f[z] + Total((s \ {y}) \ {z})
      BY <1>1, <3>2
    <3>5. (s \ {y}) \ {z} = (s \ {z}) \ {y}
      OBVIOUS
    <3>6. Total((s \ {z}) \ {y}) \in Int
      <4>1. (s \ {z}) \ {y} \in SUBSET S
        OBVIOUS
      <4>2. IsFiniteSet((s \ {z}) \ {y})
        BY <4>1, FS_Subset, Zenon
      <4>3. \A v \in (s \ {z}) \ {y} : f[v] \in Int
        BY <4>1
      <4> QED  BY <4>2, <4>3, SumType DEF Total
    <3>7. f[y] \in Int /\ f[z] \in Int
      BY <2>1
    <3>8. ASSUME NEW a \in Int, NEW b \in Int, NEW c \in Int
          PROVE  a + (b + c) = b + (a + c)
      OBVIOUS
    <3>9. Total(s) = f[z] + (f[y] + Total((s \ {z}) \ {y}))
      BY <2>2, <3>3, Zenon
    <3>10. Total(s \ {y}) = f[z] + Total((s \ {z}) \ {y})
      BY <3>4, <3>5, Zenon
    <3>11. Total(s) = f[y] + (f[z] + Total((s \ {z}) \ {y}))
      BY <3>6, <3>7, <3>8, <3>9, Zenon
    <3> QED  BY <3>10, <3>11, Zenon
  <2> QED  BY <2>3, <2>4
<1>2. F \subseteq SUBSET S
  OBVIOUS
<1>3. F = SUBSET S
  <2> HIDE DEF F
  <2> QED  BY <1>1, <1>2, SetInduct
<1> QED  BY <1>3

LEMMA SumInsert ==
    ASSUME NEW f, NEW S, IsFiniteSet(S), NEW x, x \notin S,
           \A y \in S \cup {x} : f[y] \in Int
    PROVE  SumFunctionOnSet(f, S \cup {x}) = f[x] + SumFunctionOnSet(f, S)
<1>1. IsFiniteSet(S \cup {x})
  BY FS_AddElement
<1>2. (S \cup {x}) \ {x} = S
  OBVIOUS
<1> QED  BY <1>1, <1>2, SumRemove

(* A sum over two parts is the sum of theirs. *)
LEMMA SumParts ==
    ASSUME NEW f, NEW S, IsFiniteSet(S), NEW T, IsFiniteSet(T), S \cap T = {},
           \A x \in S \cup T : f[x] \in Int
    PROVE  SumFunctionOnSet(f, S \cup T) = SumFunctionOnSet(f, S) + SumFunctionOnSet(f, T)
<1> DEFINE Total(s) == SumFunctionOnSet(f, s)
           F == { s \in SUBSET T : Total(S \cup s) = Total(S) + Total(s) }
<1>1. ASSUME NEW s \in SUBSET T, \A U \in SUBSET s : U # s => U \in F
      PROVE  s \in F
  <2>1. IsFiniteSet(s) /\ IsFiniteSet(S \cup s)
    BY FS_Subset, FS_Union
  <2>2. Total(S) \in Int
    BY SumType
  <2>3. CASE s = {}
    <3>1. Total(s) = 0 /\ S \cup s = S
      BY <2>1, <2>3, SumFirst
    <3> HIDE DEF Total
    <3>2. Total(S \cup s) = Total(S) + Total(s)
      BY <2>2, <3>1
    <3> QED  BY <3>2
  <2>4. CASE s # {}
    <3> DEFINE y == First(s)
               u == s \ {y}
    <3>1. y \in s /\ u \in SUBSET s /\ u # s
      BY <2>4, Smaller
    <3>2. Total(S \cup u) = Total(S) + Total(u)
      BY <1>1, <3>1
    <3>3. Total(s) = f[y] + Total(u)
      BY <2>1, <2>4, SumFirst
    <3>4. (S \cup s) \ {y} = S \cup u
      BY <3>1
    <3>5. \A x \in S \cup s : f[x] \in Int
      OBVIOUS
    <3>6. Total(S \cup s) = f[y] + Total((S \cup s) \ {y})
      <4>1. y \in S \cup s
        BY <3>1
      <4> HIDE DEF y
      <4> QED  BY <2>1, <3>5, <4>1, SumRemove
    <3>7. f[y] \in Int
      BY <3>1, <3>5
    <3>8. Total(u) \in Int
      <4>1. IsFiniteSet(u) /\ \A x \in u : f[x] \in Int
        BY <2>1, <3>1, <3>5, FS_Subset
      <4> QED  BY <4>1, SumType
    <3> HIDE DEF y, u, Total
    <3>9. Total(S \cup s) = f[y] + (Total(S) + Total(u))
      BY <3>2, <3>4, <3>6, Zenon
    <3>10. ASSUME NEW a \in Int, NEW b \in Int, NEW c \in Int
           PROVE  a + (b + c) = b + (a + c)
      OBVIOUS
    <3>11. f[y] + (Total(S) + Total(u)) = Total(S) + (f[y] + Total(u))
      BY <2>2, <3>7, <3>8, <3>10, Zenon
    <3>12. Total(S \cup s) = Total(S) + Total(s)
      BY <3>3, <3>9, <3>11, Zenon
    <3> QED  BY <3>12
  <2> QED  BY <2>3, <2>4
<1>2. F \subseteq SUBSET T
  OBVIOUS
<1>3. F = SUBSET T
  <2> HIDE DEF F
  <2> QED  BY <1>1, <1>2, SetInduct
<1> QED  BY <1>3

(* Of natural numbers, fewer add up to no more. *)
LEMMA SumWithin ==
    ASSUME NEW f, NEW S, IsFiniteSet(S), NEW T \in SUBSET S, \A x \in S : f[x] \in Nat
    PROVE  /\ SumFunctionOnSet(f, T) \in Nat /\ SumFunctionOnSet(f, S) \in Nat
           /\ SumFunctionOnSet(f, T) <= SumFunctionOnSet(f, S)
<1>1. /\ IsFiniteSet(T) /\ IsFiniteSet(S \ T)
      /\ T \cap (S \ T) = {} /\ T \cup (S \ T) = S
  BY FS_Subset, FS_Difference
<1>2. /\ SumFunctionOnSet(f, T) \in Nat /\ SumFunctionOnSet(f, S \ T) \in Nat
      /\ SumFunctionOnSet(f, S) \in Nat
  BY <1>1, SumType
<1>3. SumFunctionOnSet(f, T \cup (S \ T)) =
        SumFunctionOnSet(f, T) + SumFunctionOnSet(f, S \ T)
  BY <1>1, SumParts
<1> QED  BY <1>1, <1>2, <1>3

(* Nothing but zeros. *)
LEMMA SumZero ==
    ASSUME NEW f, NEW S, IsFiniteSet(S), \A x \in S : f[x] = 0
    PROVE  SumFunctionOnSet(f, S) = 0
<1> DEFINE F == { s \in SUBSET S : SumFunctionOnSet(f, s) = 0 }
<1>1. ASSUME NEW s \in SUBSET S, \A U \in SUBSET s : U # s => U \in F
      PROVE  s \in F
  <2>1. IsFiniteSet(s)
    BY FS_Subset
  <2>2. CASE s = {}
    <3>1. SumFunctionOnSet(f, s) = 0
      BY <2>1, <2>2, SumFirst
    <3> QED  BY <3>1
  <2>3. CASE s # {}
    <3>1. First(s) \in s /\ s \ {First(s)} \in SUBSET s /\ s \ {First(s)} # s
      BY <2>3, Smaller
    <3>2. SumFunctionOnSet(f, s \ {First(s)}) = 0 /\ f[First(s)] = 0
      BY <1>1, <3>1
    <3>3. SumFunctionOnSet(f, s) = f[First(s)] + SumFunctionOnSet(f, s \ {First(s)})
      BY <2>1, <2>3, SumFirst
    <3>4. SumFunctionOnSet(f, s) = 0
      BY <3>2, <3>3
    <3> QED  BY <3>4
  <2> QED  BY <2>2, <2>3
<1>2. F \subseteq SUBSET S
  OBVIOUS
<1>3. F = SUBSET S
  <2> HIDE DEF F
  <2> QED  BY <1>1, <1>2, SetInduct
<1> QED  BY <1>3

(* One term that grows by one. *)
LEMMA SumRaised ==
    ASSUME NEW f, NEW g, NEW S, IsFiniteSet(S), \A x \in S : f[x] \in Nat,
           NEW k \in S, g[k] = f[k] + 1, \A x \in S : x # k => g[x] = f[x]
    PROVE  SumFunctionOnSet(g, S) = SumFunctionOnSet(f, S) + 1
<1>1. IsFiniteSet(S \ {k})
  BY FS_Subset
<1>2. \A x \in S : f[x] \in Int /\ g[x] \in Int
  OBVIOUS
<1>3. /\ SumFunctionOnSet(f, S) = f[k] + SumFunctionOnSet(f, S \ {k})
      /\ SumFunctionOnSet(g, S) = g[k] + SumFunctionOnSet(g, S \ {k})
  BY <1>2, SumRemove
<1>4. SumFunctionOnSet(g, S \ {k}) = SumFunctionOnSet(f, S \ {k})
  BY <1>1, SumSame
<1>5. SumFunctionOnSet(f, S \ {k}) \in Int
  BY <1>1, <1>2, SumType
<1> QED  BY <1>3, <1>4, <1>5
-----------------------------------------------------------------------------
(* Folds and enumerations. *)

(* A fold over a finite set, in the order in which c takes its elements.   *)
Picks(c, S) == \A s \in SUBSET S : s # {} => c[s] \in s

FoldsBy(g, c, base, step, S) ==
    \A s \in SUBSET S :
       g[s] = IF s = {} THEN base ELSE step[<< c[s], g[s \ {c[s]}] >>]

LEMMA FoldExists ==
    ASSUME NEW S, IsFiniteSet(S), NEW V, NEW base \in V, NEW step \in [S \X V -> V],
           NEW c, Picks(c, S)
    PROVE  \E g \in [SUBSET S -> V] : FoldsBy(g, c, base, step, S)
<1> DEFINE Right(g, n) ==
             \A s \in Upto(S, n) :
                g[s] = IF s = {} THEN base ELSE step[<< c[s], g[s \ {c[s]}] >>]
           M == { n \in Nat : \E g \in [Upto(S, n) -> V] : Right(g, n) }
<1>1. ASSUME NEW s \in SUBSET S, s # {}
      PROVE  /\ c[s] \in s /\ s \ {c[s]} \in SUBSET S
             /\ Cardinality(s) \in Nat /\ Cardinality(s \ {c[s]}) = Cardinality(s) - 1
  <2>1. c[s] \in s
    BY <1>1 DEF Picks
  <2>2. IsFiniteSet(s) /\ Cardinality(s) \in Nat
    BY Smaller
  <2>3. Cardinality(s \ {c[s]}) = Cardinality(s) - 1
    BY <2>1, <2>2, FS_RemoveElement
  <2> QED  BY <2>1, <2>2, <2>3
<1>2. 0 \in M
  <2> DEFINE g == [s \in Upto(S, 0) |-> base]
  <2>1. ASSUME NEW s \in Upto(S, 0) PROVE s = {}
    <3>1. s \in SUBSET S /\ Cardinality(s) =< 0
      BY DEF Upto
    <3>2. Cardinality(s) \in Nat /\ (Cardinality(s) = 0 <=> s = {})
      BY <3>1, Smaller, Zenon
    <3> QED  BY <3>1, <3>2
  <2>2. g \in [Upto(S, 0) -> V] /\ Right(g, 0)
    BY <2>1
  <2> QED  BY <2>2
<1>3. ASSUME NEW n \in M PROVE n + 1 \in M
  <2>1. PICK g \in [Upto(S, n) -> V] : Right(g, n)
    BY <1>3
  <2> DEFINE h == [s \in Upto(S, n + 1) |->
                     IF s = {} THEN base ELSE step[<< c[s], g[s \ {c[s]}] >>]]
  <2>2. ASSUME NEW s \in Upto(S, n + 1), s # {}
        PROVE  s \ {c[s]} \in Upto(S, n) /\ c[s] \in S
    BY <1>1, <2>2 DEF Upto
  <2>3. ASSUME NEW s \in Upto(S, n) PROVE s \in Upto(S, n + 1) /\ h[s] = g[s]
    <3>1. s \in SUBSET S /\ Cardinality(s) =< n
      BY DEF Upto
    <3>2. Cardinality(s) \in Nat
      BY <3>1, Smaller, Zenon
    <3>3. s \in Upto(S, n + 1)
      BY <3>1, <3>2 DEF Upto
    <3> QED  BY <2>1, <3>3
  <2>4. ASSUME NEW s \in Upto(S, n + 1) PROVE h[s] \in V
    BY <2>2
  <2>5. h \in [Upto(S, n + 1) -> V]
    BY <2>4
  <2>6. Right(h, n + 1)
    BY <2>2, <2>3
  <2> HIDE DEF Right, h
  <2> QED  BY <2>5, <2>6
<1>4. M = Nat
  <2>1. M \subseteq Nat
    OBVIOUS
  <2> HIDE DEF M
  <2> QED  BY <1>2, <1>3, <2>1, NatInduct
<1>5. Upto(S, Cardinality(S)) = SUBSET S
  BY Smaller DEF Upto
<1>6. Cardinality(S) \in Nat
  BY FS_CardinalityType
<1>7. PICK g \in [Upto(S, Cardinality(S)) -> V] : Right(g, Cardinality(S))
  BY <1>4, <1>6
<1> QED  BY <1>5, <1>7 DEF FoldsBy

LEMMA LeastElement ==
    ASSUME NEW S, S \subseteq Nat, S # {}
    PROVE  \E m \in S : \A k \in S : m =< k
<1>1. PICK m \in S : \A k \in S : ~ (<< k, m >> \in OpToRel(<, Nat))
  BY NatLessThanWellFounded, WFMin, Zenon
<1>2. \A k \in S : ~ (k < m)
  BY <1>1 DEF OpToRel
<1> QED  BY <1>2

Ascending(e) == \A i, j \in DOMAIN e : i < j => e[i] < e[j]

(* A finite set of numbers can be listed in order, and a list in order     *)
(* names every element once.                                               *)
LEMMA ListInOrder ==
    ASSUME NEW S, S \subseteq Nat, IsFiniteSet(S)
    PROVE  \E e \in [1 .. Cardinality(S) -> S] : Ascending(e)
<1> DEFINE F == { T \in SUBSET S : \E e \in [1 .. Cardinality(T) -> T] : Ascending(e) }
<1>1. ASSUME NEW T \in SUBSET S, \A U \in SUBSET T : U # T => U \in F
      PROVE  T \in F
  <2>1. IsFiniteSet(T) /\ Cardinality(T) \in Nat
    BY FS_Subset, FS_CardinalityType
  <2>2. CASE T = {}
    <3>1. Cardinality(T) = 0
      BY <2>2, FS_EmptySet
    <3> DEFINE e == [i \in 1 .. 0 |-> i]
    <3>2. e \in [1 .. Cardinality(T) -> T] /\ Ascending(e)
      BY <3>1 DEF Ascending
    <3> QED  BY <3>2
  <2>3. CASE T # {}
    <3>1. PICK m \in T : \A k \in T : m =< k
      BY <2>3, LeastElement
    <3> DEFINE U == T \ {m}
               n == Cardinality(U)
    <3>2. /\ U \in SUBSET T /\ U # T /\ IsFiniteSet(U)
          /\ n \in Nat /\ Cardinality(T) = n + 1
      <4>1. IsFiniteSet(U) /\ Cardinality(U) = Cardinality(T) - 1 /\ n \in Nat
        BY <2>1, FS_RemoveElement, FS_CardinalityType
      <4> QED  BY <2>1, <4>1
    <3>3. PICK e \in [1 .. n -> U] : Ascending(e)
      BY <1>1, <3>2
    <3> HIDE DEF n
    <3> DEFINE d == [i \in 1 .. n + 1 |-> IF i = 1 THEN m ELSE e[i - 1]]
    <3>4. \A i \in 1 .. n + 1 : i # 1 => i - 1 \in 1 .. n /\ e[i - 1] \in U
      BY <3>2, <3>3
    <3>5. d \in [1 .. n + 1 -> T]
      BY <3>2, <3>4
    <3>6. ASSUME NEW i \in 1 .. n + 1, NEW j \in 1 .. n + 1, i < j
          PROVE  d[i] < d[j]
      <4>1. j # 1 /\ d[j] = e[j - 1] /\ e[j - 1] \in U
        BY <3>2, <3>4, <3>6
      <4>2. CASE i = 1
        <5>1. d[i] = m /\ m \in Nat /\ d[j] \in Nat /\ d[j] # m /\ m =< d[j]
          BY <3>1, <4>1, <4>2
        <5> QED  BY <5>1
      <4>3. CASE i # 1
        <5>1. i - 1 \in 1 .. n /\ j - 1 \in 1 .. n /\ i - 1 < j - 1
          BY <3>2, <3>6, <4>3
        <5> QED  BY <3>3, <4>1, <4>3, <5>1 DEF Ascending
      <4> QED  BY <4>2, <4>3
    <3>7. Ascending(d)
      BY <3>6 DEF Ascending
    <3> QED  BY <3>2, <3>5, <3>7
  <2> QED  BY <2>2, <2>3
<1>2. F \subseteq SUBSET S
  OBVIOUS
<1>3. F = SUBSET S
  <2> HIDE DEF F
  <2> QED  BY <1>1, <1>2, SetInduct
<1> QED  BY <1>3

LEMMA ListIsComplete ==
    ASSUME NEW S, S \subseteq Nat, IsFiniteSet(S),
           NEW e \in [1 .. Cardinality(S) -> S], Ascending(e)
    PROVE  e \in Bijection(1 .. Cardinality(S), S)
<1>1. Cardinality(S) \in Nat
  BY FS_CardinalityType
<1>2. IsFiniteSet(1 .. Cardinality(S)) /\ Cardinality(1 .. Cardinality(S)) = Cardinality(S)
  BY <1>1, FS_Interval
<1>3. ASSUME NEW i \in 1 .. Cardinality(S), NEW j \in 1 .. Cardinality(S), i # j
      PROVE  e[i] # e[j]
  <2>1. e[i] \in Nat /\ e[j] \in Nat
    OBVIOUS
  <2>3. i \in Int /\ j \in Int
    BY <1>1
  <2>4. i < j \/ j < i
    BY <1>3, <2>3
  <2>2. (i < j => e[i] < e[j]) /\ (j < i => e[j] < e[i])
    BY DEF Ascending
  <2> QED  BY <2>1, <2>2, <2>4
<1>4. e \in Injection(1 .. Cardinality(S), S)
  BY <1>3 DEF Injection, IsInjective
<1>5. e \in Surjection(1 .. Cardinality(S), S)
  BY <1>2, <1>4, FS_Injection
<1> QED  BY <1>4, <1>5 DEF Bijection
=============================================================================
