---------------------------- MODULE GrowthProofs ----------------------------
(***************************************************************************)
(* What the proofs about the files of Cassette need of the natural         *)
(* numbers: induction, the least number of a set, that what a recursive    *)
(* definition asks of a function some function does, and that doubling     *)
(* outgrows counting.                                                      *)
(***************************************************************************)
EXTENDS Growth, WellFoundedInduction, TLAPS

\* The natural numbers are the least set with zero and the successors.
LEMMA Induction ==
    ASSUME NEW S, 0 \in S, \A n \in Nat : n \in S => n + 1 \in S
    PROVE  Nat \subseteq S
<1> SUFFICES ASSUME Nat \ S # {} PROVE FALSE
  OBVIOUS
<1>1. PICK T : T = Nat \ S
  OBVIOUS
<1>2. PICK R : R = OpToRel(<, Nat)
  OBVIOUS
<1>3. IsWellFoundedOn(R, Nat)
  BY <1>2, NatLessThanWellFounded
<1>4. PICK x \in T : \A y \in T : << y, x >> \notin R
  <2>1. T \subseteq Nat /\ T # {}
    BY <1>1
  <2> QED
    BY <1>3, <2>1, WFMin
<1>5. \A y \in Nat : y < x => << y, x >> \in R
  BY <1>1, <1>2 DEF OpToRel
<1>6. x # 0 /\ x \in Nat
  BY <1>1
<1>7. x - 1 \in Nat /\ x - 1 < x /\ (x - 1) + 1 = x
  BY <1>6
<1> QED
  BY <1>1, <1>4, <1>5, <1>6, <1>7

\* A non-empty set of natural numbers has a least one.
LEMMA Least ==
    ASSUME NEW S, S \subseteq Nat, NEW n \in S
    PROVE  \E m \in S : \A k \in S : m <= k
<1> SUFFICES ASSUME \A m \in S : \E k \in S : k < m PROVE FALSE
  OBVIOUS
<1>1. PICK T : T = {b \in Nat : \A k \in S : b < k \/ b = k}
  OBVIOUS
<1>2. 0 \in T
  BY <1>1
<1>3. ASSUME NEW b \in Nat, b \in T PROVE b + 1 \in T
  <2>1. b \notin S
    BY <1>1, <1>3
  <2>2. \A k \in S : b + 1 < k \/ b + 1 = k
    BY <1>1, <1>3, <2>1
  <2> QED
    BY <1>1, <2>2
<1>4. n + 1 \in T
  BY <1>2, <1>3, Induction
<1> QED
  BY <1>1, <1>4

-----------------------------------------------------------------------------
(* Recursive functions.  A recursive definition stands for some function   *)
(* that its equation describes: that there is one is what has to be shown. *)

\* The values up to n of a function given by its first value and a step.
UpTo(n, X, a, g) ==
    {f \in [0..n -> X] : f[0] = a /\ \A k \in 1..n : f[k] = g[<< k, f[k - 1] >>]}

LEMMA UpToExists ==
    ASSUME NEW X, NEW a \in X, NEW g \in [(Nat \X X) -> X]
    PROVE  \A n \in Nat : UpTo(n, X, a, g) # {}
<1>1. PICK S : S = {n \in Nat : UpTo(n, X, a, g) # {}}
  OBVIOUS
<1>2. 0 \in S
  <2>1. PICK f : f = [k \in 0..0 |-> a]
    OBVIOUS
  <2>2. f \in UpTo(0, X, a, g)
    BY <2>1 DEF UpTo
  <2> QED
    BY <1>1, <2>2
<1>3. ASSUME NEW n \in Nat, n \in S PROVE n + 1 \in S
  <2>1. PICK f \in [0..n -> X] : f[0] = a /\ \A k \in 1..n : f[k] = g[<< k, f[k - 1] >>]
    BY <1>1, <1>3 DEF UpTo
  <2>2. PICK x \in X : x = g[<< n + 1, f[n] >>]
    OBVIOUS
  <2>3. PICK h : h = [k \in 0..(n + 1) |-> IF k = n + 1 THEN x ELSE f[k]]
    OBVIOUS
  <2>4. h \in [0..(n + 1) -> X] /\ h[0] = a
    BY <2>1, <2>3
  <2>5. ASSUME NEW k \in 1..(n + 1) PROVE h[k] = g[<< k, h[k - 1] >>]
    <3>1. CASE k = n + 1
      <4>1. h[k] = x /\ h[k - 1] = f[n]
        BY <2>3, <3>1
      <4> QED
        BY <2>2, <3>1, <4>1
    <3>2. CASE k # n + 1
      <4>1. k \in 1..n /\ k - 1 \in 0..n /\ k - 1 # n + 1
        BY <3>2
      <4> QED
        BY <2>1, <2>3, <3>2, <4>1
    <3> QED
      BY <3>1, <3>2
  <2>6. h \in UpTo(n + 1, X, a, g)
    BY <2>4, <2>5 DEF UpTo
  <2> QED
    BY <1>1, <2>6
<1> QED
  BY <1>1, <1>2, <1>3, Induction

LEMMA UpToAgrees ==
    ASSUME NEW X, NEW a, NEW g, NEW m \in Nat, NEW n \in Nat, m <= n,
           NEW e \in UpTo(m, X, a, g), NEW f \in UpTo(n, X, a, g)
    PROVE  \A k \in 0..m : e[k] = f[k]
<1>1. PICK S : S = {k \in Nat : k <= m => e[k] = f[k]}
  OBVIOUS
<1>2. 0 \in S
  BY <1>1 DEF UpTo
<1>3. ASSUME NEW k \in Nat, k \in S PROVE k + 1 \in S
  <2> SUFFICES ASSUME k + 1 <= m PROVE e[k + 1] = f[k + 1]
    BY <1>1
  <2>1. k + 1 \in 1..m /\ k + 1 \in 1..n /\ (k + 1) - 1 = k
    OBVIOUS
  <2>2. e[k] = f[k]
    BY <1>1, <1>3
  <2>3. e[k + 1] = g[<< k + 1, e[k] >>]
    BY <2>1 DEF UpTo
  <2>4. f[k + 1] = g[<< k + 1, f[k] >>]
    BY <2>1 DEF UpTo
  <2> QED
    BY <2>2, <2>3, <2>4
<1> QED
  BY <1>1, <1>2, <1>3, Induction

Recursive(X, a, g) ==
    {f \in [Nat -> X] : f[0] = a /\ \A k \in Nat \ {0} : f[k] = g[<< k, f[k - 1] >>]}

LEMMA RecursiveFunction ==
    ASSUME NEW X, NEW a \in X, NEW g \in [(Nat \X X) -> X]
    PROVE  \E f : f \in Recursive(X, a, g)
<1>1. PICK F : F = [n \in Nat |-> CHOOSE f : f \in UpTo(n, X, a, g)]
  OBVIOUS
<1>2. \A n \in Nat : F[n] \in UpTo(n, X, a, g)
  BY <1>1, UpToExists
<1>3. PICK d : d = [n \in Nat |-> F[n][n]]
  OBVIOUS
<1>4. d \in [Nat -> X] /\ d[0] = a
  BY <1>2, <1>3 DEF UpTo
<1>5. ASSUME NEW k \in Nat \ {0} PROVE d[k] = g[<< k, d[k - 1] >>]
  <2>1. k - 1 \in Nat /\ k - 1 <= k /\ k \in 1..k /\ k - 1 \in 0..(k - 1)
    OBVIOUS
  <2>2. F[k][k] = g[<< k, F[k][k - 1] >>]
    BY <1>2, <2>1 DEF UpTo
  <2>3. F[k - 1][k - 1] = F[k][k - 1]
    BY <1>2, <2>1, UpToAgrees
  <2> QED
    BY <1>3, <2>1, <2>2, <2>3
<1>6. d \in Recursive(X, a, g)
  BY <1>4, <1>5 DEF Recursive
<1> QED
  BY <1>6

\* The same for a function of 0..n, whose step need not be defined elsewhere.
LEMMA RecursiveFunctionUpTo ==
    ASSUME NEW X, NEW a \in X, NEW n \in Nat, NEW g \in [((1..n) \X X) -> X]
    PROVE  \E f : f \in UpTo(n, X, a, g)
<1>1. PICK h : h = [y \in Nat \X X |-> IF y[1] \in 1..n THEN g[y] ELSE y[2]]
  OBVIOUS
<1>2. h \in [(Nat \X X) -> X]
  BY <1>1
<1>3. PICK f \in [Nat -> X] :
        f[0] = a /\ \A k \in Nat \ {0} : f[k] = h[<< k, f[k - 1] >>]
  <2>1. PICK f : f \in Recursive(X, a, h)
    BY <1>2, RecursiveFunction, Zenon
  <2> QED
    BY <2>1 DEF Recursive
<1>4. PICK e : e = [k \in 0..n |-> f[k]]
  OBVIOUS
<1>5. e \in [0..n -> X] /\ e[0] = a
  BY <1>3, <1>4
<1>6. ASSUME NEW k \in 1..n PROVE e[k] = g[<< k, e[k - 1] >>]
  <2>1. k \in Nat \ {0} /\ k - 1 \in 0..n /\ k \in 0..n /\ k - 1 \in Nat
    OBVIOUS
  <2>2. << k, f[k - 1] >> \in Nat \X X
    BY <1>3, <2>1
  <2>3. h[<< k, f[k - 1] >>] = g[<< k, f[k - 1] >>]
    BY <1>1, <2>2
  <2> QED
    BY <1>3, <1>4, <2>1, <2>3
<1>7. e \in UpTo(n, X, a, g)
  BY <1>5, <1>6 DEF UpTo
<1> QED
  BY <1>7

-----------------------------------------------------------------------------
(* Doubling *)

\* Doubling is the function its definition asks for.
LEMMA DoublingDef ==
    /\ Doubling \in [Nat -> Nat]
    /\ Doubling[0] = 1
    /\ \A k \in Nat : Doubling[k + 1] = 2 * Doubling[k]
<1>1. PICK g : g = [y \in Nat \X Nat |-> 2 * y[2]]
  OBVIOUS
<1>2. g \in [(Nat \X Nat) -> Nat] /\ \A k, x \in Nat : g[<< k, x >>] = 2 * x
  BY <1>1
<1>3. PICK d \in [Nat -> Nat] :
        d[0] = 1 /\ \A k \in Nat \ {0} : d[k] = g[<< k, d[k - 1] >>]
  <2>1. PICK d : d \in Recursive(Nat, 1, g)
    <3>1. 1 \in Nat /\ g \in [(Nat \X Nat) -> Nat]
      BY <1>2
    <3> QED
      BY <3>1, RecursiveFunction, Zenon
  <2> QED
    BY <2>1 DEF Recursive
<1>4. d = [k \in Nat |-> IF k = 0 THEN 1 ELSE 2 * d[k - 1]]
  <2>1. ASSUME NEW k \in Nat \ {0} PROVE d[k] = 2 * d[k - 1]
    <3>1. k - 1 \in Nat
      OBVIOUS
    <3> QED
      BY <1>2, <1>3, <3>1
  <2> QED
    BY <1>3, <2>1
<1>5. Doubling = [k \in Nat |-> IF k = 0 THEN 1 ELSE 2 * Doubling[k - 1]]
  BY <1>4 DEF Doubling
<1>6. Doubling[0] = 1 /\ \A k \in Nat : Doubling[k + 1] = 2 * Doubling[k]
  <2>1. ASSUME NEW k \in Nat PROVE Doubling[k + 1] = 2 * Doubling[k]
    <3>1. k + 1 \in Nat /\ k + 1 # 0 /\ (k + 1) - 1 = k
      OBVIOUS
    <3> QED
      BY <1>5, <3>1
  <2> QED
    BY <1>5, <2>1
<1>7. \A k \in Nat : Doubling[k] \in Nat
  <2>1. PICK S : S = {k \in Nat : Doubling[k] \in Nat}
    OBVIOUS
  <2>2. 0 \in S /\ \A k \in Nat : k \in S => k + 1 \in S
    BY <1>6, <2>1
  <2> QED
    BY <2>1, <2>2, Induction
<1>8. Doubling = [k \in Nat |-> Doubling[k]]
  BY <1>5
<1> QED
  BY <1>6, <1>7, <1>8

LEMMA DoublingGrows == \A k \in Nat : Doubling[k] >= k + 1
<1>1. PICK S : S = {k \in Nat : Doubling[k] >= k + 1}
  OBVIOUS
<1>2. 0 \in S /\ \A k \in Nat : k \in S => k + 1 \in S
  BY <1>1, DoublingDef
<1> QED
  BY <1>1, <1>2, Induction
=============================================================================
