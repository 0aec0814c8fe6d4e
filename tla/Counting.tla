------------------------------ MODULE Counting -----------------------------
(***************************************************************************)
(* Induction and counting for the proofs of this directory.  The library   *)
(* states induction for an operator P(_), which the provers cannot         *)
(* instantiate; it also states that the strict subset ordering of the      *)
(* finite subsets of a set is well-founded, and that is first-order.  From *)
(* it follow the two rules below, with the set of the arguments that       *)
(* satisfy the claim for P.  Sums are cardinalities of sets of tokens.     *)
(* Recursive functions get their equations from loops that are shown to    *)
(* exist; powers of two and division have the facts the models need.       *)
(***************************************************************************)
EXTENDS Powers, Integers, FiniteSetTheorems, WellFoundedInduction, TLAPS

(* A nonempty set of naturals has a least element. *)
LEMMA LeastNat ==
    ASSUME NEW T \in SUBSET Nat, T # {}
    PROVE  \E m \in T : \A k \in T : m <= k
<1> DEFINE Below(n) == 0..(n - 1)
           C == {Below(n) : n \in T}
<1>1. C \subseteq FiniteSubsetsOf(Nat)
  <2>1. \A n \in T : IsFiniteSet(Below(n)) /\ Below(n) \subseteq Nat
    <3> TAKE n \in T
    <3>1. n \in Nat /\ n - 1 \in Int
      OBVIOUS
    <3> QED
      BY <3>1, FS_Interval
  <2> QED
    BY <2>1 DEF FiniteSubsetsOf
<1>2. IsWellFoundedOn(StrictSubsetOrdering(Nat), FiniteSubsetsOf(Nat))
  BY FS_StrictSubsetOrderingWellFounded
<1>3. PICK x \in C : \A y \in C : ~ (<<y, x>> \in StrictSubsetOrdering(Nat))
  <2>1. C # {}
    OBVIOUS
  <2> HIDE DEF C
  <2> QED
    BY <1>1, <1>2, <2>1, WFMin
<1>4. PICK m \in T : x = Below(m)
  OBVIOUS
<1>5. ASSUME NEW k \in T, ~(m <= k) PROVE FALSE
  <2>1. Below(k) \in C /\ Below(k) \subseteq Below(m) /\ k \in Below(m) /\ k \notin Below(k)
    BY <1>5
  <2>2. <<Below(k), x>> \in StrictSubsetOrdering(Nat)
    BY <1>4, <2>1, SMT DEF StrictSubsetOrdering
  <2> QED
    BY <1>3, <2>1, <2>2
<1> QED
  BY <1>5

(* A nonempty set of finite sets has a smallest one: none of the others is *)
(* a proper subset of it.                                                  *)
LEMMA SmallestSet ==
    ASSUME NEW S, NEW C, C # {}, \A T \in C : T \subseteq S /\ IsFiniteSet(T)
    PROVE  \E M \in C : \A T \in C : T \subseteq M => T = M
<1>1. C \subseteq FiniteSubsetsOf(S)
  BY DEF FiniteSubsetsOf
<1>2. PICK M \in C : \A T \in C : ~ (<<T, M>> \in StrictSubsetOrdering(S))
  BY <1>1, FS_StrictSubsetOrderingWellFounded, WFMin
<1>3. ASSUME NEW T \in C, T \subseteq M, T # M PROVE FALSE
  <2>1. <<T, M>> \in StrictSubsetOrdering(S)
    BY <1>3 DEF StrictSubsetOrdering
  <2> QED
    BY <1>2, <2>1
<1> QED
  BY <1>3

(* Induction over the naturals *)
LEMMA NatInduct ==
    ASSUME NEW P, 0 \in P, \A n \in Nat : n \in P => n + 1 \in P
    PROVE  Nat \subseteq P
<1> DEFINE T == Nat \ P
<1> SUFFICES ASSUME T # {} PROVE FALSE
  OBVIOUS
<1>1. PICK m \in T : \A k \in T : m <= k
  BY LeastNat
<1>2. m # 0 /\ m - 1 \in Nat /\ m - 1 \notin T
  BY <1>1
<1>3. (m - 1) + 1 \in P
  BY <1>2
<1> QED
  BY <1>1, <1>2, <1>3

(* Induction over the subsets of a finite set *)
LEMMA SubsetInduct ==
    ASSUME NEW S, IsFiniteSet(S), NEW P, {} \in P,
           \A T \in SUBSET S, x \in S : (T \in P /\ x \notin T) => T \cup {x} \in P
    PROVE  SUBSET S \subseteq P
<1> DEFINE C == (SUBSET S) \ P
<1> SUFFICES ASSUME C # {} PROVE FALSE
  OBVIOUS
<1>1. PICK M \in C : \A T \in C : T \subseteq M => T = M
  <2>1. \A T \in C : T \subseteq S /\ IsFiniteSet(T)
    BY FS_Subset
  <2> HIDE DEF C
  <2> QED
    BY <2>1, SmallestSet
<1>2. PICK x \in M : TRUE
  BY <1>1
<1>3. M \ {x} \in P /\ M \ {x} \in SUBSET S /\ x \in S /\ x \notin M \ {x}
  BY <1>1, <1>2
<1>4. (M \ {x}) \cup {x} \in P
  BY <1>3
<1>5. (M \ {x}) \cup {x} = M
  BY <1>2
<1> QED
  BY <1>1, <1>4, <1>5

-----------------------------------------------------------------------------
(* The units a function f counts for the elements of S, one by one: their  *)
(* number is the sum of f over S.                                          *)
Tokens(f, S) == UNION {{a} \X (1..f[a]) : a \in S}

LEMMA TokenFacts ==
    ASSUME NEW f, NEW S
    PROVE  \A t : t \in Tokens(f, S) <=> \E a \in S : \E n \in 1..f[a] : t = <<a, n>>
  BY DEF Tokens

LEMMA TokensFinite ==
    ASSUME NEW S, IsFiniteSet(S), NEW f \in [S -> Nat]
    PROVE  IsFiniteSet(Tokens(f, S)) /\ Cardinality(Tokens(f, S)) \in Nat
<1> DEFINE R == {{a} \X (1..f[a]) : a \in S}
           g == [a \in S |-> {a} \X (1..f[a])]
<1>1. g \in Surjection(S, R)
  BY DEF Surjection
<1>2. IsFiniteSet(R)
  BY <1>1, FS_Surjection
<1>3. ASSUME NEW T \in R PROVE IsFiniteSet(T)
  <2>1. PICK a \in S : T = {a} \X (1..f[a])
    OBVIOUS
  <2>2. 1 \in Int /\ f[a] \in Int
    OBVIOUS
  <2>3. IsFiniteSet({a}) /\ IsFiniteSet(1..f[a])
    BY <2>2, FS_Singleton, FS_Interval
  <2> QED
    BY <2>1, <2>3, FS_Product
<1>4. IsFiniteSet(UNION R)
  BY <1>2, <1>3, FS_UNION
<1> QED
  BY <1>4, FS_CardinalityType DEF Tokens

(* Adding n to one value adds n to the sum. *)
LEMMA TokensAdd ==
    ASSUME NEW S, IsFiniteSet(S), NEW f \in [S -> Nat], NEW g \in [S -> Nat], NEW b \in S,
           NEW n \in Nat, g[b] = f[b] + n, \A a \in S : a # b => g[a] = f[a]
    PROVE  Cardinality(Tokens(g, S)) = Cardinality(Tokens(f, S)) + n
<1> DEFINE I == (f[b] + 1)..g[b]
           D == {b} \X I
<1>1. IsFiniteSet(D) /\ Cardinality(D) = n
  <2>1. f[b] \in Nat /\ g[b] \in Nat /\ f[b] + 1 \in Int /\ g[b] \in Int
    OBVIOUS
  <2>2. IsFiniteSet(I) /\ Cardinality(I) = n
    <3>1. IsFiniteSet(I) /\ Cardinality(I) = IF f[b] + 1 > g[b] THEN 0 ELSE g[b] - (f[b] + 1) + 1
      BY <2>1, FS_Interval
    <3> QED
      BY <2>1, <3>1
  <2>3. IsFiniteSet({b}) /\ Cardinality({b}) = 1
    BY FS_Singleton
  <2> HIDE DEF I
  <2>4. IsFiniteSet(D) /\ Cardinality(D) = 1 * n
    BY <2>2, <2>3, FS_Product
  <2> QED
    BY <2>4
<1>2. \A t : t \in D <=> \E k \in I : t = <<b, k>>
  OBVIOUS
<1>3. \A a \in S : \A k : k \in 1..g[a] <=> (k \in 1..f[a] \/ (a = b /\ k \in I))
  OBVIOUS
<1>4. \A k \in I : k \notin 1..f[b]
  OBVIOUS
<1> HIDE DEF D, I
<1>5. Tokens(g, S) = Tokens(f, S) \cup D
  <2>1. ASSUME NEW t PROVE t \in Tokens(g, S) <=> t \in Tokens(f, S) \/ t \in D
    BY <1>2, <1>3, TokenFacts
  <2> QED
    BY <2>1
<1>6. Tokens(f, S) \cap D = {}
  <2> SUFFICES ASSUME NEW t \in Tokens(f, S), t \in D PROVE FALSE
    OBVIOUS
  <2>1. PICK k \in I : t = <<b, k>>
    BY <1>2
  <2>2. PICK a \in S : \E m \in 1..f[a] : t = <<a, m>>
    BY TokenFacts
  <2> QED
    BY <1>4, <2>1, <2>2
<1>7. Cardinality({}) = 0
  BY FS_EmptySet
<1>8. IsFiniteSet(Tokens(f, S)) /\ Cardinality(Tokens(f, S)) \in Nat
  BY TokensFinite
<1>9. Cardinality(Tokens(g, S)) = Cardinality(Tokens(f, S)) + Cardinality(D) - 0
  BY <1>1, <1>5, <1>6, <1>7, <1>8, FS_Union
<1> QED
  BY <1>1, <1>8, <1>9

(* More elements, or larger values, do not make the sum smaller. *)
LEMMA TokensMono ==
    ASSUME NEW S, IsFiniteSet(S), NEW T \in SUBSET S, NEW f, NEW g \in [S -> Nat],
           \A a \in T : f[a] \in Nat /\ f[a] <= g[a]
    PROVE  Cardinality(Tokens(f, T)) <= Cardinality(Tokens(g, S))
<1>1. \A a \in T : a \in S /\ 1..f[a] \subseteq 1..g[a]
  OBVIOUS
<1>2. Tokens(f, T) \subseteq Tokens(g, S)
  BY <1>1, TokenFacts
<1>3. IsFiniteSet(Tokens(g, S))
  BY TokensFinite
<1> QED
  BY <1>2, <1>3, FS_Subset

(* Sums over two sets *)
LEMMA TokensUnion ==
    ASSUME NEW S, IsFiniteSet(S), NEW f \in [S -> Nat], NEW A \in SUBSET S, NEW B \in SUBSET S
    PROVE  /\ Cardinality(Tokens(f, A)) \in Nat /\ Cardinality(Tokens(f, B)) \in Nat
           /\ Cardinality(Tokens(f, A \cup B)) \in Nat
           /\ Cardinality(Tokens(f, A \cup B)) <= Cardinality(Tokens(f, A)) + Cardinality(Tokens(f, B))
           /\ A \cap B = {} => Cardinality(Tokens(f, A \cup B)) =
                                  Cardinality(Tokens(f, A)) + Cardinality(Tokens(f, B))
<1> DEFINE X == Tokens(f, A)
           Y == Tokens(f, B)
<1>1. Tokens(f, A \cup B) = X \cup Y
  <2>1. ASSUME NEW t PROVE t \in Tokens(f, A \cup B) <=> t \in X \/ t \in Y
    <3>1. t \in Tokens(f, A \cup B) <=> \E a \in A \cup B : \E n \in 1..f[a] : t = <<a, n>>
      BY TokenFacts
    <3>2. /\ t \in X <=> \E a \in A : \E n \in 1..f[a] : t = <<a, n>>
          /\ t \in Y <=> \E a \in B : \E n \in 1..f[a] : t = <<a, n>>
      BY TokenFacts
    <3> HIDE DEF X, Y
    <3> QED
      BY <3>1, <3>2
  <2> QED
    BY <2>1
<1>2. A \cap B = {} => X \cap Y = {}
  <2> SUFFICES ASSUME A \cap B = {}, NEW t \in X, t \in Y PROVE FALSE
    OBVIOUS
  <2>1. PICK a \in A : \E n \in 1..f[a] : t = <<a, n>>
    BY TokenFacts
  <2>2. PICK b \in B : \E n \in 1..f[b] : t = <<b, n>>
    BY TokenFacts
  <2> QED
    BY <2>1, <2>2
<1>3. IsFiniteSet(X) /\ IsFiniteSet(Y)
  <2>1. X \subseteq Tokens(f, S) /\ Y \subseteq Tokens(f, S)
    BY TokenFacts
  <2> QED
    BY <2>1, TokensFinite, FS_Subset
<1>4. Cardinality({}) = 0
  BY FS_EmptySet
<1> HIDE DEF X, Y
<1>5. /\ IsFiniteSet(X \cup Y) /\ IsFiniteSet(X \cap Y)
      /\ Cardinality(X \cup Y) = Cardinality(X) + Cardinality(Y) - Cardinality(X \cap Y)
  BY <1>3, FS_Union, FS_Subset
<1>6. /\ Cardinality(X) \in Nat /\ Cardinality(Y) \in Nat
      /\ Cardinality(X \cup Y) \in Nat /\ Cardinality(X \cap Y) \in Nat
  BY <1>3, <1>5, FS_CardinalityType
<1>7. Cardinality(X \cup Y) <= Cardinality(X) + Cardinality(Y)
  BY <1>5, <1>6
<1>8. ASSUME A \cap B = {} PROVE Cardinality(X \cup Y) = Cardinality(X) + Cardinality(Y)
  <2>1. Cardinality(X \cap Y) = 0
    BY <1>2, <1>4, <1>8
  <2> QED
    BY <1>5, <1>6, <2>1
<1> QED
  BY <1>1, <1>6, <1>7, <1>8 DEF X, Y

LEMMA TokensSplit ==
    ASSUME NEW S, IsFiniteSet(S), NEW f \in [S -> Nat], NEW T \in SUBSET S
    PROVE  LET g == [a \in S |-> IF a \in T THEN 0 ELSE f[a]]
           IN  Cardinality(Tokens(f, S)) = Cardinality(Tokens(f, T)) + Cardinality(Tokens(g, S))
<1> DEFINE g == [a \in S |-> IF a \in T THEN 0 ELSE f[a]]
<1>1. Tokens(f, S) = Tokens(f, T) \cup Tokens(g, S)
  <2>1. ASSUME NEW t \in Tokens(f, S) PROVE t \in Tokens(f, T) \cup Tokens(g, S)
    <3>1. PICK a \in S : \E n \in 1..f[a] : t = <<a, n>>
      BY TokenFacts
    <3>2. CASE a \in T
      BY <3>1, <3>2, TokenFacts
    <3>3. CASE a \notin T
      <4>1. g[a] = f[a]
        BY <3>3
      <4> HIDE DEF g
      <4> QED
        BY <3>1, <4>1, TokenFacts
    <3> QED
      BY <3>2, <3>3
  <2>2. ASSUME NEW t \in Tokens(f, T) PROVE t \in Tokens(f, S)
    BY TokenFacts
  <2>3. ASSUME NEW t \in Tokens(g, S) PROVE t \in Tokens(f, S)
    <3>1. \A a \in S : 1..g[a] \subseteq 1..f[a]
      OBVIOUS
    <3> HIDE DEF g
    <3> QED
      BY <3>1, TokenFacts
  <2> QED
    BY <2>1, <2>2, <2>3
<1>2. Tokens(f, T) \cap Tokens(g, S) = {}
  <2> SUFFICES ASSUME NEW t \in Tokens(f, T), t \in Tokens(g, S) PROVE FALSE
    OBVIOUS
  <2>1. PICK a \in T : \E n \in 1..f[a] : t = <<a, n>>
    BY TokenFacts
  <2>2. \A d \in S : d \in T => 1..g[d] = {}
    OBVIOUS
  <2> HIDE DEF g
  <2>3. PICK d \in S : \E n \in 1..g[d] : t = <<d, n>>
    BY TokenFacts
  <2> QED
    BY <2>1, <2>2, <2>3
<1>3. IsFiniteSet(Tokens(f, T)) /\ IsFiniteSet(Tokens(g, S))
  <2>1. Tokens(f, T) \subseteq Tokens(f, S) /\ Tokens(g, S) \subseteq Tokens(f, S)
    BY <1>1
  <2> HIDE DEF g
  <2> QED
    BY <2>1, TokensFinite, FS_Subset
<1>4. Cardinality({}) = 0
  BY FS_EmptySet
<1> HIDE DEF g
<1>5. Cardinality(Tokens(f, S)) = Cardinality(Tokens(f, T)) + Cardinality(Tokens(g, S)) - 0
  BY <1>1, <1>2, <1>3, <1>4, FS_Union
<1>6. Cardinality(Tokens(f, T)) \in Nat /\ Cardinality(Tokens(g, S)) \in Nat
  BY <1>3, FS_CardinalityType
<1>7. Cardinality(Tokens(f, S)) = Cardinality(Tokens(f, T)) + Cardinality(Tokens(g, S))
  BY <1>5, <1>6
<1> QED
  BY <1>7 DEF g

LEMMA TokensNone ==
    ASSUME NEW S, NEW f, \A a \in S : f[a] = 0
    PROVE  Cardinality(Tokens(f, S)) = 0
<1>1. Tokens(f, S) = {}
  BY TokenFacts
<1> QED
  BY <1>1, FS_EmptySet

(* No address has more packets than there are. *)
LEMMA TokensBound ==
    ASSUME NEW S, IsFiniteSet(S), NEW f \in [S -> Nat], NEW b \in S
    PROVE  f[b] <= Cardinality(Tokens(f, S))
<1> DEFINE h == [n \in 1..f[b] |-> <<b, n>>]
<1>1. h \in Injection(1..f[b], Tokens(f, S))
  BY TokenFacts DEF Injection, IsInjective
<1>2. IsFiniteSet(Tokens(f, S)) /\ Cardinality(Tokens(f, S)) \in Nat
  BY TokensFinite
<1>3. Cardinality(1..f[b]) <= Cardinality(Tokens(f, S))
  <2> HIDE DEF h
  <2> QED
    BY <1>1, <1>2, FS_Injection
<1>4. Cardinality(1..f[b]) = f[b]
  BY FS_Interval
<1> QED
  BY <1>3, <1>4

(* Iterating a function: what a recursive definition over the naturals, or *)
(* a loop that carries its state from round to round, computes.            *)
LEMMA Iterates ==
    ASSUME NEW S, NEW a \in S, NEW f \in [S -> S]
    PROVE  \E g \in [Nat -> S] : g[0] = a /\ \A n \in Nat : g[n + 1] = f[g[n]]
<1> DEFINE Approx(n, g) == /\ g \in [0..n -> S] /\ g[0] = a
                           /\ \A i \in 0..(n - 1) : g[i + 1] = f[g[i]]
           Defined == {n \in Nat : \E g : Approx(n, g)}
<1>1. 0 \in Defined
  <2>1. Approx(0, [i \in 0..0 |-> a])
    OBVIOUS
  <2> QED
    BY <2>1
<1>2. ASSUME NEW n \in Nat, n \in Defined PROVE n + 1 \in Defined
  <2>1. PICK g : Approx(n, g)
    BY <1>2
  <2> DEFINE h == [i \in 0..(n + 1) |-> IF i = n + 1 THEN f[g[n]] ELSE g[i]]
  <2>2. n \in 0..n /\ g[n] \in S /\ f[g[n]] \in S
    BY <2>1
  <2>3. h \in [0..(n + 1) -> S] /\ h[0] = a
    BY <2>1, <2>2
  <2>4. ASSUME NEW i \in 0..((n + 1) - 1) PROVE h[i + 1] = f[h[i]]
    <3>1. CASE i = n
      BY <2>1, <3>1
    <3>2. CASE i # n
      <4>1. i \in 0..(n - 1) /\ i + 1 \in 0..(n + 1) /\ i + 1 # n + 1
        BY <3>2
      <4> QED
        BY <2>1, <4>1
    <3> QED
      BY <3>1, <3>2
  <2>5. Approx(n + 1, h)
    BY <2>3, <2>4
  <2> HIDE DEF Approx, h
  <2> QED
    BY <2>5
<1>3. Nat \subseteq Defined
  <2> HIDE DEF Defined
  <2> QED
    BY <1>1, <1>2, NatInduct
<1> DEFINE Same == {i \in Nat : \A n, m \in Nat : \A g, h :
                      (i <= n /\ i <= m /\ Approx(n, g) /\ Approx(m, h)) => g[i] = h[i]}
<1>4. 0 \in Same
  OBVIOUS
<1>5. ASSUME NEW i \in Nat, i \in Same PROVE i + 1 \in Same
  <2> SUFFICES ASSUME NEW n \in Nat, NEW m \in Nat, NEW g, NEW h,
                      i + 1 <= n, i + 1 <= m, Approx(n, g), Approx(m, h)
               PROVE  g[i + 1] = h[i + 1]
    <3> HIDE DEF Approx
    <3> QED
      OBVIOUS
  <2>1. i \in 0..(n - 1) /\ i \in 0..(m - 1) /\ i <= n /\ i <= m
    OBVIOUS
  <2>2. g[i] = h[i]
    <3> HIDE DEF Approx
    <3> QED
      BY <1>5, <2>1
  <2> QED
    BY <2>1, <2>2
<1>6. Nat \subseteq Same
  <2> HIDE DEF Same
  <2> QED
    BY <1>4, <1>5, NatInduct
<1> DEFINE A(n) == CHOOSE g : Approx(n, g)
           G == [n \in Nat |-> A(n)[n]]
<1>7. ASSUME NEW n \in Nat PROVE Approx(n, A(n))
  BY <1>3
<1> HIDE DEF A
<1>8. G \in [Nat -> S] /\ G[0] = a
  BY <1>7
<1>9. ASSUME NEW n \in Nat PROVE G[n + 1] = f[G[n]]
  <2>1. Approx(n, A(n)) /\ Approx(n + 1, A(n + 1))
    BY <1>7
  <2>2. A(n + 1)[n] = A(n)[n]
    <3>1. n \in Same
      <4> HIDE DEF Same
      <4> QED
        BY <1>6
    <3>2. n + 1 \in Nat /\ n <= n + 1 /\ n <= n
      OBVIOUS
    <3> HIDE DEF Approx
    <3> QED
      BY <2>1, <3>1, <3>2
  <2>3. A(n + 1)[n + 1] = f[A(n + 1)[n]]
    BY <2>1
  <2> QED
    BY <2>2, <2>3
<1> QED
  BY <1>8, <1>9

(* A loop of n rounds *)
LEMMA Rounds ==
    ASSUME NEW S, NEW a \in S, NEW f \in [S -> S], NEW n \in Nat
    PROVE  \E g \in [0..n -> S] : g[0] = a /\ \A i \in 1..n : g[i] = f[g[i - 1]]
<1>1. PICK h \in [Nat -> S] : h[0] = a /\ \A i \in Nat : h[i + 1] = f[h[i]]
  BY Iterates
<1> DEFINE g == [i \in 0..n |-> h[i]]
<1>2. g \in [0..n -> S] /\ g[0] = a
  BY <1>1
<1>3. ASSUME NEW i \in 1..n PROVE g[i] = f[g[i - 1]]
  <2>1. i - 1 \in Nat /\ (i - 1) + 1 = i /\ i - 1 \in 0..n /\ i \in 0..n
    OBVIOUS
  <2> QED
    BY <1>1, <2>1
<1> HIDE DEF g
<1> QED
  BY <1>2, <1>3

(* What Pow2 computes *)
LEMMA Pow2Facts ==
    /\ Pow2[0] = 1 /\ \A n \in Nat : Pow2[n] \in Nat \ {0} /\ Pow2[n + 1] = 2 * Pow2[n]
<1> DEFINE Def(p) == [n \in Nat |-> IF n = 0 THEN 1 ELSE 2 * p[n - 1]]
           double == [k \in Nat \ {0} |-> 2 * k]
<1>1. PICK g \in [Nat -> Nat \ {0}] : g[0] = 1 /\ \A n \in Nat : g[n + 1] = double[g[n]]
  <2> DEFINE S == Nat \ {0}
             one == 1
  <2>1. double \in [S -> S] /\ one \in S
    OBVIOUS
  <2>2. \E g \in [Nat -> S] : g[0] = one /\ \A n \in Nat : g[n + 1] = double[g[n]]
    <3> HIDE DEF double, S, one
    <3> QED
      BY <2>1, Iterates
  <2> QED
    BY <2>2
<1>2. g = Def(g)
  <2>1. ASSUME NEW n \in Nat PROVE g[n] = IF n = 0 THEN 1 ELSE 2 * g[n - 1]
    <3>1. CASE n # 0
      <4>1. n - 1 \in Nat /\ (n - 1) + 1 = n
        BY <3>1
      <4>2. g[n] = double[g[n - 1]] /\ g[n - 1] \in Nat \ {0}
        BY <1>1, <4>1
      <4> QED
        BY <3>1, <4>2
    <3> QED
      BY <1>1, <3>1
  <2> QED
    BY <2>1
<1>3. Pow2 = Def(Pow2)
  <2>1. Pow2 = CHOOSE p : p = Def(p)
    BY DEF Pow2
  <2> HIDE DEF Def
  <2> QED
    BY <1>2, <2>1
<1>4. /\ Pow2[0] = 1 /\ \A n \in Nat : Pow2[n + 1] = 2 * Pow2[n]
  <2>1. \A n \in Nat : Pow2[n] = IF n = 0 THEN 1 ELSE 2 * Pow2[n - 1]
    BY <1>3
  <2> QED
    BY <2>1
<1> DEFINE Positive == {n \in Nat : Pow2[n] \in Nat \ {0}}
<1>5. Nat \subseteq Positive
  <2>1. 0 \in Positive /\ \A n \in Nat : n \in Positive => n + 1 \in Positive
    BY <1>4
  <2> HIDE DEF Positive
  <2> QED
    BY <2>1, NatInduct
<1> QED
  BY <1>4, <1>5

(* Powers of two *)
LEMMA Pow2Order ==
    ASSUME NEW m \in Nat, NEW n \in Nat
    PROVE  /\ m <= n => Pow2[m] <= Pow2[n]
           /\ m < n => 2 * Pow2[m] <= Pow2[n]
           /\ Pow2[m] = Pow2[n] => m = n
<1> DEFINE Above(a) == {d \in Nat : Pow2[a] <= Pow2[a + d]}
<1>1. ASSUME NEW a \in Nat, NEW b \in Nat, a <= b PROVE Pow2[a] <= Pow2[b]
  <2>1. 0 \in Above(a)
    BY Pow2Facts
  <2>2. ASSUME NEW d \in Nat, d \in Above(a) PROVE d + 1 \in Above(a)
    <3>1. a + d \in Nat /\ (a + d) + 1 = a + (d + 1)
      OBVIOUS
    <3>2. Pow2[a] \in Nat /\ Pow2[a + d] \in Nat /\ Pow2[(a + d) + 1] = 2 * Pow2[a + d]
      BY <3>1, Pow2Facts
    <3> QED
      BY <2>2, <3>1, <3>2
  <2>3. Nat \subseteq Above(a)
    <3> HIDE DEF Above
    <3> QED
      BY <2>1, <2>2, NatInduct
  <2>4. b - a \in Nat /\ a + (b - a) = b
    BY <1>1
  <2> QED
    BY <2>3, <2>4
<1>2. ASSUME NEW a \in Nat, NEW b \in Nat, a < b PROVE 2 * Pow2[a] <= Pow2[b]
  <2>1. a + 1 \in Nat /\ a + 1 <= b
    BY <1>2
  <2>2. Pow2[a + 1] <= Pow2[b] /\ Pow2[a + 1] = 2 * Pow2[a]
    BY <1>1, <2>1, Pow2Facts
  <2> QED
    BY <2>2
<1>3. ASSUME Pow2[m] = Pow2[n], m # n PROVE FALSE
  <2>1. Pow2[m] \in Nat \ {0} /\ Pow2[n] \in Nat \ {0}
    BY Pow2Facts
  <2>2. m < n \/ n < m
    BY <1>3
  <2>3. 2 * Pow2[m] <= Pow2[n] \/ 2 * Pow2[n] <= Pow2[m]
    BY <1>2, <2>2
  <2> QED
    BY <1>3, <2>1, <2>3
<1> QED
  BY <1>1, <1>2, <1>3

(* Division *)
LEMMA DivFacts ==
    ASSUME NEW a \in Nat, NEW b \in Nat \ {0}
    PROVE  /\ a \div b \in Nat /\ a % b \in Nat /\ a % b < b
           /\ b * (a \div b) <= a /\ a < b * (a \div b) + b
           /\ a % b = a - b * (a \div b)
  OBVIOUS

LEMMA DivUnique ==
    ASSUME NEW a \in Nat, NEW b \in Nat \ {0}, NEW q \in Int, q * b <= a, a <= q * b + b - 1
    PROVE  a \div b = q
<1>1. a \div b \in Int /\ b * (a \div b) <= a /\ a < b * (a \div b) + b
  BY DivFacts
<1>2. PICK d \in Int : d = a \div b
  BY <1>1
<1>3. ~(d <= q - 1)
  <2> SUFFICES ASSUME d <= q - 1 PROVE FALSE
    OBVIOUS
  <2>1. b * d <= b * (q - 1)
    BY <1>1, <1>2
  <2> QED
    BY <1>1, <1>2, <2>1
<1>4. ~(q <= d - 1)
  <2> SUFFICES ASSUME q <= d - 1 PROVE FALSE
    OBVIOUS
  <2>1. b * q <= b * (d - 1)
    BY <1>1, <1>2
  <2> QED
    BY <1>1, <1>2, <2>1
<1> QED
  BY <1>2, <1>3, <1>4

(* Induction up to a bound *)
LEMMA UpTo ==
    ASSUME NEW n \in Nat, NEW P, 0 \in P, \A i \in 1..n : i - 1 \in P => i \in P
    PROVE  \A i \in 0..n : i \in P
<1> DEFINE Q == {i \in Nat : i <= n => i \in P}
<1>1. 0 \in Q
  OBVIOUS
<1>2. ASSUME NEW i \in Nat, i \in Q PROVE i + 1 \in Q
  <2> SUFFICES ASSUME i + 1 <= n PROVE i + 1 \in P
    OBVIOUS
  <2>1. i + 1 \in 1..n /\ (i + 1) - 1 = i /\ i <= n
    OBVIOUS
  <2>2. i \in P
    BY <1>2, <2>1
  <2> QED
    BY <2>1, <2>2
<1>3. Nat \subseteq Q
  <2> HIDE DEF Q
  <2> QED
    BY <1>1, <1>2, NatInduct
<1> QED
  BY <1>3

(* What a loop that never ends computes, and one of n rounds *)
Iteration(S, a, f, g) == g \in [Nat -> S] /\ g[0] = a /\ \A n \in Nat : g[n + 1] = f[g[n]]

(* Iterates, with its conclusion under a name the provers can match *)
LEMMA IterationExists ==
    ASSUME NEW S, NEW a, NEW f, a \in S, f \in [S -> S] PROVE \E g : Iteration(S, a, f, g)
  BY Iterates DEF Iteration

(* A loop whose body depends on the number of the round *)
LEMMA Loops ==
    ASSUME NEW S, NEW a \in S, NEW n \in Nat, NEW F \in [1..n -> [S -> S]]
    PROVE  \E g \in [0..n -> S] : g[0] = a /\ \A i \in 1..n : g[i] = F[i][g[i - 1]]
<1> DEFINE T == [i : Nat, x : S]
           z == [i |-> 0, x |-> a]
           next(c) == [i |-> c.i + 1, x |-> IF c.i + 1 <= n THEN F[c.i + 1][c.x] ELSE c.x]
           f == [c \in T |-> next(c)]
<1>1. z \in T
  OBVIOUS
<1>2. ASSUME NEW c \in T PROVE next(c) \in T
  <2>1. c.i + 1 \in Nat /\ c.x \in S
    OBVIOUS
  <2>2. CASE c.i + 1 <= n
    <3>1. c.i + 1 \in 1..n
      BY <2>1, <2>2
    <3>2. F[c.i + 1][c.x] \in S
      BY <2>1, <3>1
    <3> QED
      BY <2>1, <2>2, <3>2
  <2>3. CASE ~(c.i + 1 <= n)
    BY <2>1, <2>3
  <2> QED
    BY <2>2, <2>3
<1>3. f \in [T -> T]
  <2> HIDE DEF T, next
  <2> QED
    BY <1>2
<1>4. PICK h \in [Nat -> T] : h[0] = z /\ \A m \in Nat : h[m + 1] = f[h[m]]
  <2> HIDE DEF T, z, f
  <2>1. \E h : Iteration(T, z, f, h)
    BY <1>1, <1>3, IterationExists, Zenon
  <2> QED
    BY <2>1, Zenon DEF Iteration
<1>5. \A m \in Nat : h[m] \in T
  <2> HIDE DEF T, z, f
  <2> QED
    BY <1>4
<1>6. \A m \in Nat : h[m + 1] = next(h[m])
  <2> HIDE DEF T, z, next
  <2> QED
    BY <1>4, <1>5
<1>a. \A m \in Nat : /\ h[m + 1].i = h[m].i + 1
                     /\ h[m].i + 1 <= n => h[m + 1].x = F[h[m].i + 1][h[m].x]
  <2>1. \A c : /\ next(c).i = c.i + 1
               /\ c.i + 1 <= n => next(c).x = F[c.i + 1][c.x]
    OBVIOUS
  <2> HIDE DEF next
  <2> QED
    BY <1>6, <2>1
<1> HIDE DEF next, T, z, f
<1> DEFINE N == {m \in Nat : h[m].i = m}
<1>7. Nat \subseteq N
  <2>1. 0 \in N
    BY <1>4 DEF z
  <2>2. ASSUME NEW m \in Nat, m \in N PROVE m + 1 \in N
    <3>1. h[m].i = m /\ h[m + 1].i = h[m].i + 1
      BY <1>a, <2>2
    <3> QED
      BY <3>1
  <2> HIDE DEF N
  <2> QED
    BY <2>1, <2>2, NatInduct
<1> DEFINE g == [m \in 0..n |-> h[m].x]
<1>8. g \in [0..n -> S]
  BY <1>5 DEF T
<1>9. g[0] = a
  BY <1>4 DEF z
<1>10. ASSUME NEW m \in 1..n PROVE g[m] = F[m][g[m - 1]]
  <2>1. PICK j \in Nat : j = m - 1 /\ m = j + 1 /\ j + 1 <= n /\ j \in 0..n /\ m \in 0..n
    OBVIOUS
  <2>2. h[j].i = j
    BY <1>7
  <2>3. h[j + 1].x = F[j + 1][h[j].x]
    BY <1>a, <2>1, <2>2
  <2> QED
    BY <2>1, <2>3
<1> HIDE DEF g
<1> QED
  BY <1>8, <1>9, <1>10

Looped(S, a, n, F, g) == g \in [0..n -> S] /\ g[0] = a /\ \A i \in 1..n : g[i] = F[i][g[i - 1]]

(* Loops, likewise *)
LEMMA LoopExists ==
    ASSUME NEW S, NEW a, NEW n, NEW F, a \in S, n \in Nat, F \in [1..n -> [S -> S]]
    PROVE  \E g : Looped(S, a, n, F, g)
<1>1. \E g \in [0..n -> S] : g[0] = a /\ \A i \in 1..n : g[i] = F[i][g[i - 1]]
  BY Loops
<1> QED
  BY <1>1, Zenon DEF Looped

(* A remainder is what is left of a multiple. *)
LEMMA ModShift ==
    ASSUME NEW a \in Int, NEW b \in Nat \ {0}, NEW k \in Int, NEW r \in Nat, r < b, a = k * b + r
    PROVE  a % b = r
<1>1. k * b \in Int
  OBVIOUS
<1>2. a % b \in Nat /\ a % b < b /\ a \div b \in Int /\ a = b * (a \div b) + (a % b)
  OBVIOUS
<1>3. PICK q \in Int : q = a \div b
  BY <1>2
<1>4. PICK l \in Nat : l = a % b /\ l < b
  BY <1>2
<1>5. b * q \in Int /\ b * q + l = k * b + r
  BY <1>2, <1>3, <1>4
<1>6. PICK d \in Int : d = q - k
  OBVIOUS
<1>7. b * d = b * q - k * b
  BY <1>6
<1>8. b * d = r - l
  BY <1>1, <1>5, <1>7
<1>9. ~(d >= 1) /\ ~(d <= -1)
  <2>1. d >= 1 => b * d >= b
    OBVIOUS
  <2>2. d <= -1 => b * d <= -b
    OBVIOUS
  <2> QED
    BY <1>4, <1>8, <2>1, <2>2
<1>10. d = 0
  BY <1>9
<1> QED
  BY <1>4, <1>8, <1>10

(* Powers of two divide larger ones. *)
LEMMA Pow2Multiple ==
    ASSUME NEW m \in Nat, NEW n \in Nat, m <= n
    PROVE  \E k \in Nat : Pow2[n] = k * Pow2[m]
<1> DEFINE P == Pow2[m]
           D == {d \in Nat : \E k \in Nat : Pow2[m + d] = k * P}
<1>1. P \in Nat \ {0}
  BY Pow2Facts
<1>2. 0 \in D
  <2>1. Pow2[m + 0] = 1 * P
    BY <1>1
  <2> QED
    BY <2>1
<1>3. ASSUME NEW d \in Nat, d \in D PROVE d + 1 \in D
  <2>1. PICK k \in Nat : Pow2[m + d] = k * P
    BY <1>3
  <2>2. Pow2[(m + d) + 1] = 2 * Pow2[m + d]
    BY Pow2Facts
  <2>3. m + (d + 1) = (m + d) + 1 /\ 2 * k \in Nat
    OBVIOUS
  <2> HIDE DEF P
  <2>4. 2 * (k * P) = (2 * k) * P
    BY <1>1
  <2>5. Pow2[m + (d + 1)] = (2 * k) * P
    BY <2>1, <2>2, <2>3, <2>4
  <2> QED
    BY <2>3, <2>5
<1>4. Nat \subseteq D
  <2> HIDE DEF D
  <2> QED
    BY <1>2, <1>3, NatInduct
<1>5. n - m \in D /\ m + (n - m) = n
  <2> HIDE DEF D
  <2> QED
    BY <1>4
<1> QED
  BY <1>5

(* A multiple x of p is one of the halves of a multiple of 2 * p. *)
Paired(p, x, t) ==
    \E q \in Nat :
        /\ (\E j \in Nat : q = j * (2 * p)) /\ q + 2 * p <= t
        /\ x - (x % (2 * p)) = q
        /\ \/ x = q /\ (x \div p) % 2 = 0
           \/ x = q + p /\ (x \div p) % 2 # 0

(* Every multiple is. *)
LEMMA Halves ==
    ASSUME NEW p, NEW m, NEW x, NEW t, NEW k, p \in Nat \ {0}, m \in Nat, x \in Nat, x = m * p,
           t \in Nat, k \in Nat, t = k * (2 * p), x + p <= t
    PROVE  Paired(p, x, t)
<1>1. PICK j \in Nat : m = 2 * j \/ m = 2 * j + 1
  <2>1. m \div 2 \in Nat /\ (m = 2 * (m \div 2) \/ m = 2 * (m \div 2) + 1)
    OBVIOUS
  <2> QED
    BY <2>1
<1>2. PICK d \in Nat \ {0} : d = 2 * p
  OBVIOUS
<1>3. PICK q \in Nat : q = j * d
  BY <1>2
<1>4. x \div p = m
  <2>1. m * p <= x /\ x <= m * p + p - 1
    OBVIOUS
  <2> QED
    BY <2>1, DivUnique
<1>5. q = j * (2 * p) /\ j * (2 * p) = (2 * j) * p
  BY <1>2, <1>3
<1>6. CASE m = 2 * j
  <2>1. x = q
    BY <1>5, <1>6
  <2>2. m % 2 = 0
    BY <1>6
  <2>3. x % d = 0
    <3>1. x = j * d + 0 /\ 0 < d
      BY <1>3, <2>1
    <3>2. x \in Int /\ d \in Nat \ {0} /\ j \in Int /\ 0 \in Nat
      OBVIOUS
    <3> QED
      BY ONLY <3>1, <3>2, ModShift
  <2>4. q + d <= t
    <3>1. t = k * d
      BY <1>2
    <3>2. j < k
      <4> SUFFICES ASSUME ~(j < k) PROVE FALSE
        OBVIOUS
      <4>1. k * d <= j * d
        OBVIOUS
      <4> QED
        BY <1>2, <1>3, <2>1, <3>1, <4>1
    <3>3. (j + 1) * d <= k * d /\ (j + 1) * d = j * d + d
      BY <3>2
    <3> QED
      BY <1>3, <3>1, <3>3
  <2> QED
    BY <1>2, <1>3, <1>4, <1>5, <2>1, <2>2, <2>3, <2>4 DEF Paired
<1>7. CASE m = 2 * j + 1
  <2>1. x = q + p
    <3>1. (2 * j + 1) * p = (2 * j) * p + p
      OBVIOUS
    <3> QED
      BY <1>5, <1>7, <3>1
  <2>2. m % 2 # 0
    BY <1>7
  <2>3. x % d = p
    <3>1. x = j * d + p /\ p < d
      BY <1>2, <1>3, <2>1
    <3>2. x \in Int /\ d \in Nat \ {0} /\ j \in Int /\ p \in Nat
      OBVIOUS
    <3> QED
      BY ONLY <3>1, <3>2, ModShift
  <2>4. q + d <= t
    BY <1>2, <2>1
  <2>5. x - (x % (2 * p)) = q
    <3>1. x - (x % d) = q
      BY <2>1, <2>3
    <3> QED
      BY <1>2, <3>1
  <2>6. (x \div p) % 2 # 0
    BY <1>4, <2>2
  <2>7. q + 2 * p <= t
    BY <1>2, <2>4
  <2> QED
    BY <1>5, <2>1, <2>5, <2>6, <2>7 DEF Paired
<1> QED
  BY <1>1, <1>6, <1>7

(* The halves of a multiple of 2 * p are an even and an odd multiple of p. *)
LEMMA HalfFacts ==
    ASSUME NEW p \in Nat \ {0}, NEW j \in Nat, NEW q \in Nat, q = j * (2 * p)
    PROVE  (q \div p) % 2 = 0 /\ ((q + p) \div p) % 2 # 0
<1>1. PICK m \in Nat : m = 2 * j
  OBVIOUS
<1>2. m * p = q
  BY <1>1
<1>3. q \div p = m
  <2>1. m * p <= q /\ q <= m * p + p - 1
    BY <1>2
  <2> QED
    BY <2>1, DivUnique
<1>4. (q + p) \div p = m + 1
  <2>1. (m + 1) * p = m * p + p
    OBVIOUS
  <2>2. (m + 1) * p <= q + p /\ q + p <= (m + 1) * p + p - 1 /\ q + p \in Nat /\ m + 1 \in Int
    BY <1>2, <2>1
  <2> QED
    BY <2>2, DivUnique
<1>5. m % 2 = 0 /\ (m + 1) % 2 = 1
  BY <1>1
<1> QED
  BY <1>3, <1>4, <1>5
=============================================================================
