---------------------------- MODULE LeastElement ----------------------------
(***************************************************************************)
(* A nonempty set of naturals has a least element.  The kernel's bitmaps   *)
(* are searched with __builtin_ffs (mem/umem.c, drivers/dport.c) and its   *)
(* stamps for the smallest one; the models write both as a CHOOSE, and the *)
(* proofs need that there is something to choose.                          *)
(*                                                                         *)
(* The least element is also all that induction needs: StrongInduction     *)
(* takes the predicate as a set, and Recursion says that a function whose  *)
(* values depend on those at smaller numbers exists, as the digits that    *)
(* printf.c divides off a number do.                                       *)
(***************************************************************************)
EXTENDS Integers, TLAPS, WellFoundedInduction

\* A bitmap that is not empty has a first bit: what __builtin_ffs finds.
LEMMA NatMin ==
    ASSUME NEW S \in SUBSET Nat, S # {}
    PROVE  \E m \in S : \A n \in S : m <= n
PROOF
<1> DEFINE R == {ss \in Nat \X Nat : ss[1] < ss[2]}
<1>1. IsWellFoundedOn(R, Nat)
    BY NatLessThanWellFounded DEF OpToRel
<1> HIDE DEF R
<1>2. PICK m \in S : \A n \in S : ~(<<n, m>> \in R)
    BY <1>1, WFMin
<1>3. \A n \in S : ~(n < m)
    BY <1>2 DEF R
<1> QED
    BY <1>3

\* Induction, with a set for the predicate.
LEMMA StrongInduction ==
    ASSUME NEW G, \A n \in Nat : (\A m \in 0 .. n - 1 : m \in G) => n \in G
    PROVE  \A n \in Nat : n \in G
PROOF
<1> DEFINE Bad == Nat \ G
<1> SUFFICES ASSUME Bad # {} PROVE FALSE
    OBVIOUS
<1>1. PICK n \in Bad : \A m \in Bad : n <= m
    <2> HIDE DEF Bad
    <2>1. Bad \in SUBSET Nat
        BY DEF Bad
    <2> QED
        BY <2>1, NatMin
<1>2. \A m \in 0 .. n - 1 : m \in G
    <2>1. \A m \in 0 .. n - 1 : m \in Nat /\ m \notin Bad
        <3>1. n \in Nat
            OBVIOUS
        <3> HIDE DEF Bad
        <3> QED
            BY <1>1, <3>1
    <2> QED
        BY <2>1
<1> QED
    BY <1>2

\* A function that calls itself on a smaller number is well defined, and so is
\* the CHOOSE a recursive function stands for.
RecursionLaw(f, Stop, c, h, g) ==
    \A v \in Nat : f[v] = IF v \in Stop THEN c[v] ELSE h[<<v, f[g[v]]>>]

LEMMA Recursion ==
    ASSUME NEW S, NEW c \in [Nat -> S], NEW h \in [Nat \X S -> S], NEW g \in [Nat -> Nat],
           NEW Stop \in SUBSET Nat, \A v \in Nat \ Stop : g[v] < v
    PROVE  \E f \in [Nat -> S] : RecursionLaw(f, Stop, c, h, g)
PROOF
<1> DEFINE Val(p, v) == IF v \in Stop THEN c[v] ELSE h[<<v, p[g[v]]>>]
           Good(p, n) == p \in [Nat -> S] /\ \A v \in 0..n : p[v] = Val(p, v)
<1>1. \A n \in Nat : \E p : Good(p, n)
    <2> DEFINE Bad == {n \in Nat : ~ \E p : Good(p, n)}
    <2> SUFFICES ASSUME Bad # {} PROVE FALSE
        OBVIOUS
    <2>1. PICK n \in Bad : \A m \in Bad : n <= m
        <3> HIDE DEF Bad
        <3>1. Bad \in SUBSET Nat
            BY DEF Bad
        <3> QED
            BY <3>1, NatMin
    <2>2. n \in Nat /\ ~ \E p : Good(p, n)
        BY <2>1
    <2>3. \E p \in [Nat -> S] : \A v \in 0 .. n - 1 : p[v] = Val(p, v)
        <3>1. CASE n = 0
            <4>1. 0 .. n - 1 = {}
                BY <3>1
            <4> QED
                BY <4>1
        <3>2. CASE n # 0
            <4>1. n - 1 \in Nat /\ n - 1 \notin Bad
                <5> HIDE DEF Bad
                <5> QED
                    BY <2>1, <2>2, <3>2
            <4> QED
                BY <4>1
        <3> QED
            BY <3>1, <3>2
    <2>4. PICK p \in [Nat -> S] : \A v \in 0 .. n - 1 : p[v] = Val(p, v)
        BY <2>3
    <2> DEFINE q == [p EXCEPT ![n] = Val(p, n)]
    <2>5. Val(p, n) \in S
        BY <2>2, <2>4
    <2>6. q \in [Nat -> S] /\ q[n] = Val(p, n) /\ \A v \in 0 .. n - 1 : q[v] = p[v]
        BY <2>2, <2>4, <2>5
    <2> HIDE DEF q
    <2>7. ASSUME NEW v \in 0 .. n PROVE q[v] = Val(q, v)
        <3>1. v \in Nat /\ (v \notin Stop => g[v] \in 0 .. n - 1)
            BY <2>2, <2>7
        <3>2. Val(q, v) = Val(p, v)
            BY <2>6, <3>1
        <3>3. CASE v = n
            BY <2>6, <3>2, <3>3
        <3>4. CASE v # n
            <4>1. v \in 0 .. n - 1
                BY <2>2, <2>7, <3>4
            <4> QED
                BY <2>4, <2>6, <3>2, <4>1
        <3> QED
            BY <3>3, <3>4
    <2> QED
        BY <2>2, <2>6, <2>7
<1>2. ASSUME NEW p, NEW q, NEW n \in Nat, Good(p, n), Good(q, n)
      PROVE  \A v \in 0 .. n : p[v] = q[v]
    <2> DEFINE Bad == {v \in 0 .. n : p[v] # q[v]}
    <2> SUFFICES ASSUME Bad # {} PROVE FALSE
        OBVIOUS
    <2>1. PICK v \in Bad : \A w \in Bad : v <= w
        <3> HIDE DEF Bad
        <3>1. Bad \in SUBSET Nat
            BY DEF Bad
        <3> QED
            BY <3>1, NatMin
    <2>2. v \in 0 .. n /\ p[v] # q[v] /\ p[v] = Val(p, v) /\ q[v] = Val(q, v)
        BY <1>2, <2>1
    <2>3. v \notin Stop /\ p[g[v]] # q[g[v]]
        BY <2>2
    <2>4. g[v] \in 0 .. n /\ g[v] < v
        BY <2>2, <2>3
    <2>5. g[v] \in Bad
        BY <2>3, <2>4
    <2> QED
        BY <2>1, <2>2, <2>4, <2>5
<1> DEFINE P(n) == CHOOSE p : Good(p, n)
           f == [v \in Nat |-> P(v)[v]]
<1>3. \A n \in Nat : Good(P(n), n)
    BY <1>1
<1> HIDE DEF P
<1>4. ASSUME NEW v \in Nat PROVE f[v] \in S /\ f[v] = Val(f, v)
    <2>1. Good(P(v), v) /\ f[v] = P(v)[v] /\ v \in 0 .. v
        BY <1>3
    <2>2. f[v] \in S /\ f[v] = Val(P(v), v)
        BY <2>1
    <2>3. CASE v \in Stop
        BY <2>2, <2>3
    <2>4. CASE v \notin Stop
        <3>1. g[v] \in Nat /\ g[v] < v /\ g[v] \in 0 .. g[v]
            BY <2>4
        <3>2. Good(P(g[v]), g[v]) /\ Good(P(v), g[v])
            <4>1. Good(P(g[v]), g[v])
                BY <1>3, <3>1
            <4>2. \A x \in 0 .. g[v] : x \in 0 .. v
                BY <3>1
            <4>3. Good(P(v), g[v])
                BY <2>1, <4>2
            <4> QED
                BY <4>1, <4>3
        <3>3. P(v)[g[v]] = P(g[v])[g[v]]
            <4> DEFINE w == g[v]
            <4>1. w \in Nat /\ w \in 0 .. w /\ Good(P(w), w) /\ Good(P(v), w)
                BY <3>1, <3>2
            <4> HIDE DEF w, Good
            <4>2. \A u \in 0 .. w : P(v)[u] = P(w)[u]
                BY <1>2, <4>1
            <4>3. P(v)[w] = P(w)[w]
                BY <4>1, <4>2
            <4> QED
                BY <4>3 DEF w
        <3>4. f[g[v]] = P(g[v])[g[v]]
            BY <3>1
        <3> QED
            BY <2>2, <2>4, <3>3, <3>4
    <2> QED
        BY <2>3, <2>4
<1> QED
    BY <1>4 DEF RecursionLaw
=============================================================================
