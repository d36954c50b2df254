---------------------------- MODULE PrintfProofs ----------------------------
(***************************************************************************)
(* Proofs about Printf, for every call that is written as Written-         *)
(* Assumption says and every width of the types:                           *)
(*                                                                         *)
(*   SnprintfTheorem   snprintf stores nothing past the buffer;            *)
(*   TypeTheorem       the variables stay in range, the arguments suffice; *)
(*   FormatsTheorem    what leaves is the text the C standard defines.     *)
(*                                                                         *)
(* The last one rests on ConvertsAsC, about the conversions, on ParserInv, *)
(* which says what of a directive the parser has read, and on OutputInv,   *)
(* which says what of the expected text has left.                          *)
(***************************************************************************)
EXTENDS Printf, TLAPS, LeastElement, FiniteSetTheorems, FunctionTheorems, SequenceTheorems

-----------------------------------------------------------------------------
(* Numbers: powers, division and numerals.  _ntoa_long divides by the base *)
(* until nothing is left; the standard's numeral has the digit of each place.*)

\* 2^n is a number, and doubles with n: the subsets of 1..n.
LEMMA PowerOfTwo == ASSUME NEW n \in Nat PROVE 2^n \in Nat \ {0} /\ 2^(n + 1) = 2 * 2^n
PROOF
<1>1. IsFiniteSet(1..n) /\ Cardinality(1..n) = n
      /\ IsFiniteSet(1..(n + 1)) /\ Cardinality(1..(n + 1)) = n + 1
    BY FS_Interval
<1> DEFINE S == SUBSET (1..n)
           B == SUBSET (1..(n + 1))
           T == B \ S
<1>2. IsFiniteSet(S) /\ Cardinality(S) = 2^n /\ IsFiniteSet(B) /\ Cardinality(B) = 2^(n + 1)
    BY <1>1, FS_SUBSET
<1>3. {} \in S /\ S \subseteq B /\ S \cap T = {} /\ S \cup T = B
    OBVIOUS
<1>4. ExistsBijection(S, T)
    <2> DEFINE b == [s \in S |-> s \cup {n + 1}]
    <2>1. \A s \in S : n + 1 \notin s
        OBVIOUS
    <2>2. b \in [S -> T]
        BY <2>1
    <2>3. \A s, t \in S : b[s] = b[t] => s = t
        BY <2>1
    <2>4. ASSUME NEW t \in T PROVE \E s \in S : b[s] = t
        <3>1. n + 1 \in t /\ t \ {n + 1} \in S
            OBVIOUS
        <3>2. b[t \ {n + 1}] = t
            BY <3>1
        <3> QED
            BY <3>1, <3>2
    <2> HIDE DEF S, T, b
    <2> QED
        BY <2>2, <2>3, <2>4, Fun_IsBij, Fun_ExistsBij
<1> HIDE DEF S, T, B
<1>5. IsFiniteSet(T) /\ Cardinality(T) = Cardinality(S)
    BY <1>2, <1>4, FS_Bijection
<1>6. Cardinality(B) = Cardinality(S) + Cardinality(T) - Cardinality({})
    BY <1>2, <1>3, <1>5, FS_Union
<1>7. Cardinality(S) \in Nat /\ Cardinality({}) = 0 /\ Cardinality(S) # 0
    BY <1>2, <1>3, FS_EmptySet, FS_CardinalityType
<1> QED
    BY <1>2, <1>5, <1>6, <1>7

\* Power is the power of a base.
LEMMA PowerFacts ==
    ASSUME NEW base \in Nat \ {0}
    PROVE  /\ Power(base, 0) = 1
           /\ \A k \in Nat : /\ Power(base, k) \in Nat \ {0}
                             /\ Power(base, k + 1) = base * Power(base, k)
PROOF
<1> DEFINE P == Nat \ {0}
           one == [n \in Nat |-> 1]
           times == [x \in Nat \X P |-> base * x[2]]
           pred == [n \in Nat |-> IF n = 0 THEN 0 ELSE n - 1]
           Law(f) == f = [n \in Nat |-> IF n = 0 THEN 1 ELSE base * f[n - 1]]
           power == CHOOSE f : Law(f)
<1>1. one \in [Nat -> P] /\ times \in [Nat \X P -> P] /\ pred \in [Nat -> Nat]
    <2>1. \A p \in P : base * p \in P
        OBVIOUS
    <2> QED
        BY <2>1
<1>2. \A v \in Nat \ {0} : pred[v] < v
    OBVIOUS
<1>3. {0} \in SUBSET Nat
    OBVIOUS
<1> HIDE DEF P, one, times, pred, power
<1>4. PICK f \in [Nat -> P] : RecursionLaw(f, {0}, one, times, pred)
    BY <1>1, <1>2, <1>3, Recursion
<1>5. ASSUME NEW n \in Nat PROVE f[n] = IF n = 0 THEN 1 ELSE base * f[n - 1]
    <2>1. f[n] = IF n \in {0} THEN one[n] ELSE times[<<n, f[pred[n]]>>]
        BY <1>4 DEF RecursionLaw
    <2>2. CASE n = 0
        BY <2>1, <2>2 DEF one
    <2>3. CASE n # 0
        <3>1. pred[n] = n - 1 /\ f[n - 1] \in P
            BY <1>4, <2>3 DEF pred
        <3>2. times[<<n, f[n - 1]>>] = base * f[n - 1]
            BY <3>1 DEF times
        <3> QED
            BY <2>1, <2>3, <3>1, <3>2
    <2> QED
        BY <2>2, <2>3
<1>6. Law(f)
    BY <1>4, <1>5
<1>7. Law(power)
    BY <1>6 DEF power
<1>8. \A k : Power(base, k) = power[k]
    BY DEF Power, power
<1>9. \A n \in Nat : power[n] = IF n = 0 THEN 1 ELSE base * power[n - 1]
    BY <1>7
<1>10. \A n \in Nat : n \in {m \in Nat : power[m] \in P}
    <2> DEFINE G == {m \in Nat : power[m] \in P}
    <2>1. ASSUME NEW n \in Nat, \A m \in 0 .. n - 1 : m \in G PROVE n \in G
        <3>1. CASE n = 0
            BY <1>9, <3>1 DEF P
        <3>2. CASE n # 0
            <4>1. n - 1 \in 0 .. n - 1
                BY <3>2
            <4>2. power[n - 1] \in P
                BY <2>1, <4>1
            <4>3. base * power[n - 1] \in P
                BY <4>2 DEF P
            <4> QED
                BY <1>9, <3>2, <4>3
        <3> QED
            BY <3>1, <3>2
    <2> HIDE DEF G
    <2> QED
        BY <2>1, StrongInduction DEF G
<1>11. ASSUME NEW k \in Nat PROVE power[k] \in Nat \ {0} /\ power[k + 1] = base * power[k]
    <2>1. power[k] \in P
        BY <1>10
    <2>2. k + 1 \in Nat /\ k + 1 # 0 /\ (k + 1) - 1 = k
        OBVIOUS
    <2> QED
        BY <1>9, <2>1, <2>2 DEF P
<1> QED
    BY <1>8, <1>9, <1>11

\* Quotient and remainder.
LEMMA DivFacts ==
    ASSUME NEW v \in Nat, NEW b \in Nat \ {0}
    PROVE  /\ v \div b \in Nat /\ v % b \in 0 .. b - 1
           /\ v = b * (v \div b) + (v % b)
PROOF
<1>1. v \div b \in Int /\ v % b \in 0 .. b - 1
    OBVIOUS
<1>2. v = b * (v \div b) + (v % b)
    OBVIOUS
<1>3. v \div b >= 0
    <2> DEFINE q == v \div b
               r == v % b
    <2>1. q \in Int /\ r \in 0 .. b - 1 /\ v = b * q + r
        BY <1>1, <1>2
    <2> HIDE DEF q, r
    <2>2. CASE q < 0
        <3>1. b * q <= b * (-1)
            BY <2>1, <2>2
        <3> QED
            BY <2>1, <3>1
    <2> QED
        BY <2>1, <2>2 DEF q
<1> QED
    BY <1>1, <1>2, <1>3

\* There is only one quotient.
LEMMA DivUnique ==
    ASSUME NEW b \in Nat \ {0}, NEW q \in Nat, NEW r \in 0 .. b - 1
    PROVE  (b * q + r) \div b = q /\ (b * q + r) % b = r
PROOF
<1> DEFINE v == b * q + r
<1>1. v \in Nat
    OBVIOUS
<1> DEFINE p == v \div b
           s == v % b
<1>2. p \in Nat /\ s \in 0 .. b - 1 /\ v = b * p + s
    BY <1>1, DivFacts
<1>3. b * p + s = b * q + r
    BY <1>2
<1> HIDE DEF v, p, s
<1>4. p = q
    <2>1. CASE p < q
        <3>1. b * p + b <= b * q
            <4>1. q = p + 1 + (q - p - 1) /\ q - p - 1 \in Nat
                BY <1>2, <2>1
            <4>2. b * q = b * p + b + b * (q - p - 1)
                BY <1>2, <4>1
            <4> QED
                BY <1>2, <4>1, <4>2
        <3> QED
            BY <1>2, <1>3, <3>1
    <2>2. CASE q < p
        <3>1. b * q + b <= b * p
            <4>1. p = q + 1 + (p - q - 1) /\ p - q - 1 \in Nat
                BY <1>2, <2>2
            <4>2. b * p = b * q + b + b * (p - q - 1)
                BY <1>2, <4>1
            <4> QED
                BY <1>2, <4>1, <4>2
        <3> QED
            BY <1>2, <1>3, <3>1
    <2> QED
        BY <1>2, <2>1, <2>2
<1> QED
    BY <1>2, <1>3, <1>4 DEF v, p, s

\* To divide twice is to divide by the product.
LEMMA DivDiv ==
    ASSUME NEW v \in Nat, NEW a \in Nat \ {0}, NEW b \in Nat \ {0}
    PROVE  (v \div a) \div b = v \div (a * b)
PROOF
<1> DEFINE q == v \div a
           r == v % a
           s == q \div b
           u == q % b
           w == a * u + r
<1>1. q \in Nat /\ r \in 0 .. a - 1 /\ v = a * q + r
    BY DivFacts
<1> HIDE DEF q, r
<1>2. s \in Nat /\ u \in 0 .. b - 1 /\ q = b * s + u
    BY <1>1, DivFacts
<1> HIDE DEF s, u
<1>3. v = (a * b) * s + w
    <2>1. a * q = a * (b * s) + a * u
        BY <1>2
    <2>2. a * (b * s) = (a * b) * s
        BY <1>2
    <2> QED
        BY <1>1, <1>2, <2>1, <2>2
<1>4. w \in 0 .. a * b - 1 /\ a * b \in Nat \ {0}
    <2>1. a * u <= a * (b - 1) /\ a * u \in Nat
        <3>1. b - 1 = u + (b - 1 - u) /\ b - 1 - u \in Nat
            BY <1>2
        <3>2. a * (b - 1) = a * u + a * (b - 1 - u)
            BY <1>2, <3>1
        <3> QED
            BY <1>2, <3>1, <3>2
    <2>2. a * (b - 1) = a * b - a /\ a * b \in Nat \ {0}
        OBVIOUS
    <2> QED
        BY <1>1, <1>2, <2>1, <2>2
<1> HIDE DEF w
<1>5. v \div (a * b) = s
    <2> DEFINE m == a * b
    <2>1. m \in Nat \ {0} /\ v = m * s + w /\ w \in 0 .. m - 1
        BY <1>3, <1>4
    <2> HIDE DEF m
    <2>2. v \div m = s
        BY <1>2, <2>1, DivUnique
    <2> QED
        BY <2>2 DEF m
<1> QED
    BY <1>5 DEF s, q

\* The letters of the digits.
Letter(f, d) == (IF "upper" \in f THEN Upper ELSE Lower)[d + 1]

Letters(f) == {Letter(f, d) : d \in 0..15}

\* A number is as long as it has digits, the last one in front.
LEMMA DigitsUnfold ==
    ASSUME NEW base \in 2..16, NEW f, NEW v \in Nat
    PROVE  /\ Digits(v, base, f) \in Seq(Letters(f))
           /\ Digits(v, base, f) = <<Letter(f, v % base)>> \o
                  (IF v < base THEN <<>> ELSE Digits(v \div base, base, f))
PROOF
<1> DEFINE S == Seq(Letters(f))
           l(n) == Letter(f, n % base)
           c == [n \in Nat |-> <<l(n)>>]
           h == [x \in Nat \X S |-> <<l(x[1])>> \o x[2]]
           g == [n \in Nat |-> n \div base]
           Stop == 0 .. base - 1
           Law(d) == d = [n \in Nat |-> <<l(n)>> \o (IF n < base THEN <<>> ELSE d[n \div base])]
           from == CHOOSE d : Law(d)
<1>1. \A n \in Nat : l(n) \in Letters(f)
    <2>1. ASSUME NEW n \in Nat PROVE n % base \in 0..15
        BY DivFacts
    <2> QED
        BY <2>1 DEF Letters
<1> HIDE DEF l
<1>2. c \in [Nat -> S] /\ h \in [Nat \X S -> S]
    BY <1>1
<1>3. g \in [Nat -> Nat] /\ Stop \in SUBSET Nat
    BY DivFacts
<1>4. \A n \in Nat \ Stop : n \div base \in Nat /\ n \div base < n
    <2> TAKE n \in Nat \ Stop
    <2> DEFINE q == n \div base
    <2>1. q \in Nat /\ n = base * q + (n % base) /\ n % base \in Nat /\ n >= base
        BY DivFacts
    <2> HIDE DEF q
    <2>2. base * q >= 2 * q
        BY <2>1
    <2>3. q < n
        BY <2>1, <2>2
    <2> QED
        BY <2>1, <2>3 DEF q
<1>5. \A n \in Nat \ Stop : g[n] < n
    BY <1>4
<1> HIDE DEF S, c, h, g, Stop, from
<1>6. PICK d \in [Nat -> S] : RecursionLaw(d, Stop, c, h, g)
    BY <1>2, <1>3, <1>5, Recursion
<1>7. ASSUME NEW n \in Nat
      PROVE  d[n] = <<l(n)>> \o (IF n < base THEN <<>> ELSE d[n \div base])
    <2>1. d[n] = IF n \in Stop THEN c[n] ELSE h[<<n, d[g[n]]>>]
        BY <1>6 DEF RecursionLaw
    <2>2. CASE n < base
        <3>1. n \in Stop /\ c[n] = <<l(n)>>
            BY <2>2 DEF Stop, c
        <3>2. <<l(n)>> \o <<>> = <<l(n)>>
            BY <1>1
        <3> QED
            BY <2>1, <2>2, <3>1, <3>2
    <2>3. CASE ~(n < base)
        <3>1. n \notin Stop /\ g[n] = n \div base /\ g[n] \in Nat
            BY <1>3, <2>3 DEF Stop, g
        <3>2. d[g[n]] \in S
            BY <1>6, <3>1
        <3>3. h[<<n, d[g[n]]>>] = <<l(n)>> \o d[g[n]]
            BY <3>2 DEF h
        <3> QED
            BY <2>1, <2>3, <3>1, <3>3
    <2> QED
        BY <2>2, <2>3
<1>8. Law(d)
    BY <1>6, <1>7
<1>9. Law(from)
    BY <1>8 DEF from
<1>10. \A n : Digits(n, base, f) = from[n]
    BY DEF Digits, from, l, Letter
<1>11. \A n \in Nat : from[n] = <<l(n)>> \o (IF n < base THEN <<>> ELSE from[n \div base])
    BY <1>9
<1>12. \A n \in Nat : n \in {m \in Nat : from[m] \in S}
    <2> DEFINE G == {m \in Nat : from[m] \in S}
    <2>1. ASSUME NEW n \in Nat, \A m \in 0 .. n - 1 : m \in G PROVE n \in G
        <3>1. CASE n < base
            <4>1. <<l(n)>> \o <<>> \in S
                BY <1>1 DEF S
            <4> QED
                BY <1>11, <3>1, <4>1
        <3>2. CASE ~(n < base)
            <4>1. n \div base \in 0 .. n - 1
                BY <1>4, <3>2 DEF Stop
            <4>2. from[n \div base] \in S
                BY <2>1, <4>1
            <4>3. <<l(n)>> \o from[n \div base] \in S
                BY <1>1, <4>2 DEF S
            <4> QED
                BY <1>11, <3>2, <4>3
        <3> QED
            BY <3>1, <3>2
    <2> HIDE DEF G
    <2> QED
        BY <2>1, StrongInduction DEF G
<1> QED
    BY <1>10, <1>11, <1>12 DEF S, l

\* Powers grow.
LEMMA PowerMonotone ==
    ASSUME NEW base \in Nat \ {0}, NEW a \in Nat
    PROVE  \A n \in Nat : Power(base, a) <= Power(base, a + n)
PROOF
<1> DEFINE P(k) == Power(base, k)
           G == {n \in Nat : P(a) <= P(a + n)}
<1>1. \A k \in Nat : P(k) \in Nat \ {0} /\ P(k + 1) = base * P(k)
    BY PowerFacts
<1> HIDE DEF P
<1>2. ASSUME NEW n \in Nat, \A m \in 0 .. n - 1 : m \in G PROVE n \in G
    <2>1. CASE n = 0
        BY <1>1, <2>1
    <2>2. CASE n # 0
        <3>1. n - 1 \in 0 .. n - 1 /\ a + (n - 1) \in Nat /\ (a + (n - 1)) + 1 = a + n
            BY <2>2
        <3> DEFINE p == P(a + (n - 1))
        <3>2. P(a) <= p /\ p \in Nat /\ P(a + n) = base * p /\ P(a) \in Nat
            BY <1>1, <1>2, <3>1
        <3> HIDE DEF p
        <3>3. p <= base * p
            BY <3>2
        <3>4. P(a) <= P(a + n)
            BY <3>2, <3>3
        <3> QED
            BY <3>4
    <2> QED
        BY <2>1, <2>2
<1> HIDE DEF G
<1>3. \A n \in Nat : n \in G
    BY <1>2, StrongInduction
<1> QED
    BY <1>3 DEF G, P

\* What the digits of a number are, by their place.
LEMMA DigitsByPlace ==
    ASSUME NEW base \in 2..16, NEW f
    PROVE  \A v \in Nat :
               LET s == Digits(v, base, f)
               IN  /\ Len(s) \in Nat \ {0}
                   /\ v < Power(base, Len(s))
                   /\ Len(s) = 1 \/ v >= Power(base, Len(s) - 1)
                   /\ \A i \in 1 .. Len(s) :
                          s[i] = Letter(f, (v \div Power(base, i - 1)) % base)
PROOF
<1> DEFINE P(k) == Power(base, k)
           D(v) == Digits(v, base, f)
           L(d) == Letter(f, d)
           Placed(v) ==
               /\ Len(D(v)) \in Nat \ {0}
               /\ v < P(Len(D(v)))
               /\ Len(D(v)) = 1 \/ v >= P(Len(D(v)) - 1)
               /\ \A i \in 1 .. Len(D(v)) : D(v)[i] = L((v \div P(i - 1)) % base)
           G == {v \in Nat : Placed(v)}
<1>0. base \in Nat \ {0}
    OBVIOUS
<1>1. P(0) = 1 /\ \A k \in Nat : P(k) \in Nat \ {0} /\ P(k + 1) = base * P(k)
    BY <1>0, PowerFacts
<1>2. \A v \in Nat : /\ D(v) \in Seq(Letters(f))
                     /\ D(v) = <<L(v % base)>> \o (IF v < base THEN <<>> ELSE D(v \div base))
    BY DigitsUnfold
<1>3. \A v \in Nat : L(v % base) \in Letters(f)
    <2>1. ASSUME NEW v \in Nat PROVE v % base \in 0..15
        BY DivFacts
    <2> QED
        BY <2>1 DEF Letters
<1>4. P(1) = base
    <2>1. P(0 + 1) = base * P(0)
        BY <1>1
    <2> QED
        BY <1>1, <2>1
<1>5. \A v \in Nat : v \div P(0) = v
    BY <1>1
<1> HIDE DEF P, D, L
<1>6. ASSUME NEW v \in Nat, \A m \in 0 .. v - 1 : m \in G PROVE Placed(v)
    <2>1. CASE v < base
        <3>1. D(v) = <<L(v % base)>>
            <4>1. D(v) = <<L(v % base)>> \o <<>>
                BY <1>2, <2>1
            <4> QED
                BY <1>3, <4>1
        <3>2. Len(D(v)) = 1 /\ D(v)[1] = L(v % base)
            BY <3>1
        <3>3. \A i \in 1 .. Len(D(v)) : D(v)[i] = L((v \div P(i - 1)) % base)
            <4> TAKE i \in 1 .. Len(D(v))
            <4>1. i = 1 /\ i - 1 = 0
                BY <3>2
            <4> QED
                BY <1>5, <3>2, <4>1
        <3> QED
            BY <1>4, <2>1, <3>2, <3>3
    <2>2. CASE ~(v < base)
        <3> DEFINE q == v \div base
                   r == v % base
                   m == Len(D(q))
        <3>1. q \in Nat /\ r \in 0 .. base - 1 /\ v = base * q + r
            BY <1>0, DivFacts
        <3>2. q < v
            <4> HIDE DEF q, r
            <4>1. base * q >= 2 * q
                BY <3>1
            <4> QED
                BY <2>2, <3>1, <4>1
        <3>3. Placed(q) /\ q \in Nat
            <4> HIDE DEF q, r, Placed
            <4>1. q \in 0 .. v - 1
                BY <3>1, <3>2
            <4> QED
                BY <1>6, <4>1
        <3>4. D(v) = <<L(r)>> \o D(q)
            BY <1>2, <2>2
        <3>5. D(q) \in Seq(Letters(f)) /\ L(r) \in Letters(f)
            BY <1>2, <1>3, <3>1
        <3> HIDE DEF q, r
        <3>6. m \in Nat \ {0} /\ q < P(m) /\ (m = 1 \/ q >= P(m - 1))
            BY <3>3
        <3>7. Len(D(v)) = m + 1 /\ D(v)[1] = L(r) /\ \A i \in 2 .. m + 1 : D(v)[i] = D(q)[i - 1]
            BY <3>4, <3>5
        <3>8. v < P(m + 1)
            <4> DEFINE p == P(m)
            <4>1. p \in Nat /\ P(m + 1) = base * p /\ q <= p - 1
                BY <1>1, <3>1, <3>6
            <4> HIDE DEF p
            <4>2. base * q <= base * (p - 1)
                BY <3>1, <4>1
            <4>3. base * (p - 1) = base * p - base
                BY <4>1
            <4> QED
                BY <3>1, <4>1, <4>2, <4>3
        <3>9. v >= P(m)
            <4>1. CASE m = 1
                BY <1>4, <2>2, <4>1
            <4>2. CASE m # 1
                <5> DEFINE p == P(m - 1)
                <5>1. m - 1 \in Nat /\ (m - 1) + 1 = m
                    BY <3>6
                <5>2. p \in Nat /\ P(m) = base * p /\ q >= p
                    BY <1>1, <3>6, <4>2, <5>1
                <5> HIDE DEF p
                <5>3. base * q >= base * p
                    BY <3>1, <5>2
                <5>4. base * q \in Nat /\ base * p \in Nat
                    BY <3>1, <5>2
                <5> QED
                    BY <3>1, <5>2, <5>3, <5>4
            <4> QED
                BY <4>1, <4>2
        <3>10. ASSUME NEW i \in 1 .. m + 1 PROVE D(v)[i] = L((v \div P(i - 1)) % base)
            <4>1. CASE i = 1
                <5>1. v \div P(i - 1) = v
                    BY <1>5, <4>1
                <5> QED
                    BY <3>7, <4>1, <5>1 DEF r
            <4>2. CASE i # 1
                <5>1. i - 2 \in Nat /\ (i - 2) + 1 = i - 1 /\ i - 1 \in 1 .. m /\ (i - 1) - 1 = i - 2
                      /\ i \in 2 .. m + 1
                    BY <3>6, <4>2
                <5>2. P(i - 2) \in Nat \ {0} /\ P(i - 1) = base * P(i - 2)
                    BY <1>1, <5>1
                <5>3. q \div P(i - 2) = v \div P(i - 1)
                    BY <5>2, DivDiv DEF q
                <5>4. D(v)[i] = D(q)[i - 1]
                    BY <3>7, <5>1
                <5>5. D(q)[i - 1] = L((q \div P(i - 2)) % base)
                    BY <3>3, <5>1
                <5> QED
                    BY <5>3, <5>4, <5>5
            <4> QED
                BY <4>1, <4>2
        <3> DEFINE k == Len(D(v))
        <3>11. k = m + 1 /\ k \in Nat \ {0} /\ k - 1 = m
            BY <3>6, <3>7
        <3> HIDE DEF m
        <3>12. v < P(k) /\ v >= P(k - 1) /\ \A i \in 1 .. k : D(v)[i] = L((v \div P(i - 1)) % base)
            BY <3>8, <3>9, <3>10, <3>11
        <3> QED
            BY <3>11, <3>12
    <2> QED
        BY <2>1, <2>2
<1>7. \A v \in Nat : v \in G
    <2>1. ASSUME NEW v \in Nat, \A m \in 0 .. v - 1 : m \in G PROVE v \in G
        BY <1>6, <2>1
    <2> HIDE DEF G
    <2> QED
        BY <2>1, StrongInduction
<1> QED
    BY <1>7 DEF D, P, L

\* A number has no more digits than bits, whatever its base: the loop of
\* _ntoa_long ends at the last digit, and buf[PRINTF_NTOA_BUFFER_SIZE], longer
\* than the longest type, never cuts one off.
THEOREM DigitsFit ==
    ASSUME NEW base \in 2..16, NEW f
    PROVE  \A v \in Nat : \A b \in Nat \ {0} : v < 2^b => Len(Digits(v, base, f)) <= b
PROOF
<1> DEFINE D(v) == Digits(v, base, f)
           T(b) == 2^b
           Fits(v) == \A b \in Nat \ {0} : v < T(b) => Len(D(v)) <= b
           G == {v \in Nat : Fits(v)}
<1>0. base \in Nat \ {0}
    OBVIOUS
<1>1. \A v \in Nat : /\ D(v) \in Seq(Letters(f))
                     /\ D(v) = <<Letter(f, v % base)>> \o
                               (IF v < base THEN <<>> ELSE D(v \div base))
    BY DigitsUnfold
<1>2. \A b \in Nat : T(b) \in Nat /\ T(b + 1) = 2 * T(b)
    BY PowerOfTwo
<1>3. T(1) = 2
    OBVIOUS
<1>4. \A v \in Nat : Letter(f, v % base) \in Letters(f)
    <2>1. ASSUME NEW v \in Nat PROVE v % base \in 0..15
        BY DivFacts
    <2> QED
        BY <2>1 DEF Letters
<1> HIDE DEF D, T
<1>5. ASSUME NEW v \in Nat, \A m \in 0 .. v - 1 : m \in G PROVE v \in G
    <2> SUFFICES ASSUME NEW b \in Nat \ {0}, v < T(b) PROVE Len(D(v)) <= b
        OBVIOUS
    <2> DEFINE l == Letter(f, v % base)
    <2>0. l \in Letters(f)
        BY <1>4
    <2> HIDE DEF l
    <2>1. CASE v < base
        <3>1. D(v) = <<l>> \o <<>>
            BY <1>1, <2>1 DEF l
        <3>2. Len(D(v)) = 1
            BY <2>0, <3>1
        <3> QED
            BY <3>2
    <2>2. CASE ~(v < base)
        <3> DEFINE q == v \div base
                   t == T(b - 1)
        <3>1. q \in Nat /\ v % base \in Nat /\ v = base * q + (v % base)
            BY <1>0, DivFacts
        <3>2. D(v) = <<l>> \o D(q) /\ D(q) \in Seq(Letters(f))
            BY <1>1, <2>2, <3>1 DEF l
        <3>3. Len(D(v)) = Len(D(q)) + 1 /\ Len(D(q)) \in Nat
            BY <2>0, <3>2
        <3> HIDE DEF q
        <3>4. base * q >= 2 * q
            BY <3>1
        <3>5. q < v /\ 2 * q <= v
            BY <2>2, <3>1, <3>4
        <3>6. b - 1 \in Nat \ {0} /\ (b - 1) + 1 = b
            BY <1>3, <2>2
        <3>7. t \in Nat /\ T(b) = 2 * t
            BY <1>2, <3>6
        <3> HIDE DEF t
        <3>8. q < t
            BY <3>1, <3>5, <3>7
        <3>9. Fits(q)
            <4>1. q \in 0 .. v - 1
                BY <3>1, <3>5
            <4> HIDE DEF Fits
            <4> QED
                BY <1>5, <4>1
        <3>10. Len(D(q)) <= b - 1
            BY <3>6, <3>8, <3>9 DEF t
        <3> QED
            BY <3>3, <3>10
    <2> QED
        BY <2>1, <2>2
<1>6. \A v \in Nat : v \in G
    <2> HIDE DEF G
    <2> QED
        BY <1>5, StrongInduction
<1> QED
    BY <1>6 DEF D, T

\* Read from the back, as _out_rev does, the digits that _ntoa_long leaves in buf
\* are the numeral of the value, without a zero in front.
THEOREM DigitsNumeral ==
    ASSUME NEW base \in 2..16, NEW f, NEW v \in Nat, v < 2^LongLongBits
    PROVE  /\ Reverse(Digits(v, base, f)) =
                  Numeral(v, base, IF "upper" \in f THEN Upper ELSE Lower)
           /\ Digits(v, base, f) \in Seq(Letters(f))
           /\ Len(Digits(v, base, f)) \in 1 .. LongLongBits
           /\ v = 0 => Numeral(v, base, IF "upper" \in f THEN Upper ELSE Lower) = <<"0">>
PROOF
<1> DEFINE P(k) == Power(base, k)
           s == Digits(v, base, f)
           n == Len(s)
           letters == IF "upper" \in f THEN Upper ELSE Lower
           Is(k) == v < P(k) /\ (k = 1 \/ v >= P(k - 1))
           k0 == CHOOSE k \in 1..LongLongBits : Is(k)
<1>0. base \in Nat \ {0} /\ LongLongBits \in Nat \ {0}
    BY PrintfAssumption DEF CallAssumption
<1>1. s \in Seq(Letters(f))
    BY DigitsUnfold
<1>2. n \in Nat \ {0} /\ v < P(n) /\ (n = 1 \/ v >= P(n - 1))
    BY DigitsByPlace
<1>20. \A i \in 1 .. n : s[i] = Letter(f, (v \div P(i - 1)) % base)
    BY DigitsByPlace
<1>3. n <= LongLongBits
    BY <1>0, DigitsFit
<1>4. \A k \in Nat : P(k) \in Nat
    BY <1>0, PowerFacts
<1>5. \A a \in Nat : \A m \in Nat : P(a) <= P(a + m)
    BY <1>0, PowerMonotone
<1> HIDE DEF s, P
<1>6. ASSUME NEW k \in 1..LongLongBits, Is(k) PROVE k = n
    <2>1. CASE k < n
        <3>1. k \in Nat /\ n - 1 - k \in Nat /\ k + (n - 1 - k) = n - 1 /\ n - 1 \in Nat
            BY <1>0, <1>2, <2>1
        <3>2. P(k) <= P(n - 1)
            BY <1>5, <3>1
        <3>3. n # 1
            BY <2>1, <3>1
        <3>4. v < P(k) /\ v >= P(n - 1) /\ P(k) \in Nat /\ P(n - 1) \in Nat
            BY <1>2, <1>4, <1>6, <3>1, <3>3
        <3> QED
            BY <3>2, <3>4
    <2>2. CASE n < k
        <3>1. n \in Nat /\ k - 1 - n \in Nat /\ n + (k - 1 - n) = k - 1 /\ k - 1 \in Nat
            BY <1>0, <1>2, <2>2
        <3>2. P(n) <= P(k - 1)
            BY <1>5, <3>1
        <3>3. v < P(n) /\ v >= P(k - 1) /\ P(n) \in Nat /\ P(k - 1) \in Nat
            BY <1>2, <1>4, <1>6, <2>2, <3>1
        <3> QED
            BY <3>2, <3>3
    <2>3. k \in Nat /\ n \in Nat
        BY <1>0, <1>2
    <2> HIDE DEF n
    <2> QED
        BY <2>1, <2>2, <2>3
<1>7. n \in 1..LongLongBits /\ Is(n)
    BY <1>0, <1>2, <1>3
<1>8. k0 = n
    <2>1. k0 \in 1..LongLongBits /\ Is(k0)
        <3> HIDE DEF Is
        <3> QED
            BY <1>7
    <2> HIDE DEF k0
    <2> QED
        BY <1>6, <2>1
<1> DEFINE N == Numeral(v, base, letters)
<1>9. N = [i \in 1..n |-> letters[((v \div P(n - i)) % base) + 1]]
    <2>1. N = [i \in 1..k0 |-> letters[((v \div P(k0 - i)) % base) + 1]]
        BY DEF Numeral, P
    <2> QED
        BY <1>8, <2>1
<1>10. Reverse(s) = [i \in 1..n |-> s[(n - i) + 1]]
    BY DEF Reverse
<1>11. ASSUME NEW i \in 1..n PROVE s[(n - i) + 1] = letters[((v \div P(n - i)) % base) + 1]
    <2>1. (n - i) + 1 \in 1 .. n /\ ((n - i) + 1) - 1 = n - i
        BY <1>2
    <2>2. s[(n - i) + 1] = Letter(f, (v \div P(n - i)) % base)
        BY <1>20, <2>1
    <2> QED
        BY <2>2 DEF Letter
<1>12. Reverse(s) = N
    <2> HIDE DEF N, n, letters
    <2> QED
        BY <1>9, <1>10, <1>11
<1>13. ASSUME v = 0 PROVE N = <<"0">>
    <2>1. s = <<Letter(f, v % base)>> \o <<>>
        <3>1. v < base
            BY <1>13
        <3>2. s = <<Letter(f, v % base)>> \o
                      (IF v < base THEN <<>> ELSE Digits(v \div base, base, f))
            BY DigitsUnfold DEF s
        <3> QED
            BY <3>1, <3>2
    <2>2. v % base = 0
        BY <1>0, <1>13
    <2>3. n = 1
        BY <2>1
    <2>4. N = [i \in 1..1 |-> letters[((v \div P(1 - i)) % base) + 1]]
        BY <1>9, <2>3
    <2>5. v \div P(0) = 0
        <3>1. P(0) = 1
            BY <1>0, PowerFacts DEF P
        <3> QED
            BY <1>13, <3>1
    <2>6. letters[1] = "0"
        BY DEF Upper, Lower
    <2>7. N[1] = "0" /\ N = [i \in 1..1 |-> N[1]]
        <3> HIDE DEF N, letters
        <3>1. N[1] = letters[((v \div P(0)) % base) + 1]
            BY <2>4
        <3>2. ((v \div P(0)) % base) + 1 = 1
            BY <1>13, <2>2, <2>5
        <3> QED
            BY <2>4, <2>6, <3>1, <3>2
    <2> HIDE DEF N
    <2> QED
        BY <2>7
<1> QED
    BY <1>1, <1>7, <1>12, <1>13 DEF s

-----------------------------------------------------------------------------
(* Texts: what Repeat, Reverse and Pad make. *)

\* Texts are put together in any order.
LEMMA Associative ==
    ASSUME NEW S PROVE \A a, b, c \in Seq(S) : (a \o b) \o c = a \o (b \o c)
PROOF
    BY ConcatAssociative

\* A character repeated.
LEMMA RepeatFacts ==
    ASSUME NEW c, NEW n \in Int, NEW S, c \in S
    PROVE  /\ Repeat(c, n) \in Seq(S)
           /\ Len(Repeat(c, n)) = IF n > 0 THEN n ELSE 0
           /\ n <= 0 => Repeat(c, n) = <<>>
           /\ \A i \in 1..n : Repeat(c, n)[i] = c
PROOF
<1>1. CASE n > 0
    <2>1. n \in Nat /\ Repeat(c, n) = [i \in 1..n |-> c]
        BY <1>1 DEF Repeat
    <2> QED
        BY <1>1, <2>1
<1>2. CASE ~(n > 0)
    <2>1. Repeat(c, n) = <<>> /\ 1..n = {}
        BY <1>2 DEF Repeat
    <2> QED
        BY <1>2, <2>1
<1> QED
    BY <1>1, <1>2

\* What Reverse does.
LEMMA ReverseFacts ==
    ASSUME NEW S, NEW s \in Seq(S)
    PROVE  /\ Reverse(s) \in Seq(S) /\ Len(Reverse(s)) = Len(s)
           /\ \A i \in 1..Len(s) : Reverse(s)[i] = s[(Len(s) - i) + 1]
PROOF
<1> DEFINE n == Len(s)
<1>1. n \in Nat /\ \A i \in 1..n : (n - i) + 1 \in 1..n
    OBVIOUS
<1>2. Reverse(s) = [i \in 1..n |-> s[(n - i) + 1]]
    BY DEF Reverse
<1>3. \A i \in 1..n : s[(n - i) + 1] \in S
    BY <1>1
<1> HIDE DEF n
<1>4. Reverse(s) \in [1..n -> S]
    BY <1>2, <1>3
<1>5. Reverse(s) \in Seq(S) /\ Len(Reverse(s)) = n
    BY <1>1, <1>4
<1> QED
    BY <1>2, <1>5 DEF n

\* The reverse of two texts, behind each other.
LEMMA ReverseConcat ==
    ASSUME NEW S, NEW s \in Seq(S), NEW t \in Seq(S)
    PROVE  Reverse(s \o t) = Reverse(t) \o Reverse(s)
PROOF
<1> DEFINE st == s \o t
           rs == Reverse(s)
           rt == Reverse(t)
           l == Reverse(st)
           r == rt \o rs
           m == Len(s)
           n == Len(t)
<1>1. /\ st \in Seq(S) /\ Len(st) = m + n
      /\ \A i \in 1 .. m + n : st[i] = IF i <= m THEN s[i] ELSE t[i - m]
    BY ConcatProperties
<1>2. m \in Nat /\ n \in Nat
    OBVIOUS
<1>3. rs \in Seq(S) /\ Len(rs) = m /\ \A i \in 1..m : rs[i] = s[(m - i) + 1]
    BY ReverseFacts
<1>4. rt \in Seq(S) /\ Len(rt) = n /\ \A i \in 1..n : rt[i] = t[(n - i) + 1]
    BY ReverseFacts
<1> HIDE DEF st, rs, rt, m, n
<1>5. l \in Seq(S) /\ Len(l) = m + n /\ \A i \in 1 .. m + n : l[i] = st[((m + n) - i) + 1]
    BY <1>1, ReverseFacts
<1>6. r \in Seq(S) /\ Len(r) = n + m /\ \A i \in 1 .. n + m : r[i] = IF i <= n THEN rt[i] ELSE rs[i - n]
    <2>1. rt \in Seq(S) /\ rs \in Seq(S)
        BY <1>3, <1>4
    <2>2. /\ r \in Seq(S) /\ Len(r) = Len(rt) + Len(rs)
          /\ \A i \in 1 .. Len(rt) + Len(rs) : r[i] = IF i <= Len(rt) THEN rt[i] ELSE rs[i - Len(rt)]
        BY <2>1, ConcatProperties
    <2> HIDE DEF r
    <2> QED
        BY <1>3, <1>4, <2>2
<1> HIDE DEF l, r
<1>7. ASSUME NEW i \in 1 .. m + n PROVE l[i] = r[i]
    <2>1. i \in Int /\ 1 <= i /\ i <= m + n /\ i \in 1 .. n + m
        BY <1>2
    <2> DEFINE x == ((m + n) - i) + 1
    <2>2. x \in 1 .. m + n /\ l[i] = st[x]
        BY <1>2, <1>5, <2>1
    <2>3. CASE i <= n
        <3>1. ~(x <= m) /\ x - m = (n - i) + 1 /\ i \in 1 .. n
            BY <1>2, <2>1, <2>3
        <3> HIDE DEF x
        <3>2. st[x] = t[(n - i) + 1]
            BY <1>1, <2>2, <3>1
        <3>3. r[i] = rt[i]
            BY <1>6, <2>1, <2>3
        <3> QED
            BY <1>4, <2>2, <3>1, <3>2, <3>3
    <2>4. CASE ~(i <= n)
        <3>1. x <= m /\ x = (m - (i - n)) + 1 /\ i - n \in 1 .. m
            BY <1>2, <2>1, <2>4
        <3> HIDE DEF x
        <3>2. st[x] = s[(m - (i - n)) + 1]
            BY <1>1, <2>2, <3>1
        <3>3. r[i] = rs[i - n]
            BY <1>6, <2>1, <2>4
        <3> QED
            BY <1>3, <2>2, <3>1, <3>2, <3>3
    <2> QED
        BY <2>3, <2>4
<1>8. l = r
    <2>1. Len(l) = Len(r) /\ \A i \in 1 .. Len(l) : l[i] = r[i]
        BY <1>2, <1>5, <1>6, <1>7
    <2> QED
        BY <1>5, <1>6, <2>1, SeqEqual
<1> QED
    BY <1>8 DEF l, r, st, rs, rt

\* A character repeated is its own reverse.
LEMMA ReverseRepeat ==
    ASSUME NEW c, NEW n \in Int PROVE Reverse(Repeat(c, n)) = Repeat(c, n)
PROOF
<1> DEFINE s == Repeat(c, n)
           m == Len(s)
           r == Reverse(s)
<1>1. /\ s \in Seq({c}) /\ m = IF n > 0 THEN n ELSE 0
      /\ \A i \in 1..n : s[i] = c
    BY RepeatFacts
<1>2. r \in Seq({c}) /\ Len(r) = m
    BY <1>1, ReverseFacts
<1>3. \A i \in 1..m : s[i] = c /\ r[i] = c
    <2> HIDE DEF r, s
    <2> QED
        BY <1>1, <1>2
<1> HIDE DEF s, r
<1> QED
    BY <1>1, <1>2, <1>3, SeqEqual DEF s, r

\* One character is its own reverse.
LEMMA ReverseOne == ASSUME NEW c PROVE Reverse(<<c>>) = <<c>>
PROOF
<1>1. Repeat(c, 1) = <<c>>
    BY DEF Repeat
<1> QED
    BY <1>1, ReverseRepeat

\* The sign _ntoa_format writes, and the zeros it puts in front of the digits.
Sign(negative, f) ==
    IF negative THEN <<"-">> ELSE IF "+" \in f THEN <<"+">>
    ELSE IF SPACE \in f THEN <<SPACE>> ELSE <<>>

Zeros(len, sign, prec, wid, f) ==
    IF "-" \in f THEN 0 ELSE IF "0" \in f THEN wid - Len(sign) - len ELSE prec - len

\* The zeros that the conversion buffer has room for.
LEMMA PadFacts ==
    ASSUME NEW S, "0" \in S, NEW s \in Seq(S), NEW n \in Int, n < NTOA
    PROVE  Pad(s, n) = s \o Repeat("0", n - Len(s))
PROOF
<1>1. NTOA \in Nat
    BY PrintfAssumption DEF CallAssumption
<1>2. Atmost(n, NTOA) = n
    BY <1>1 DEF Atmost
<1> QED
    BY <1>2 DEF Pad

\* A character more, if there is room for it.
LEMMA RoomFacts ==
    ASSUME NEW S, NEW s \in Seq(S), NEW c \in S, Len(s) < NTOA
    PROVE  Room(s, c) = s \o <<c>>
PROOF
    BY AppendIsConcat DEF Room

\* Nothing is repeated no times.
LEMMA RepeatNone == ASSUME NEW c, NEW n \in Int, n <= 0 PROVE Repeat(c, n) = <<>>
PROOF
    BY DEF Repeat

\* A sign is one character, or none.
LEMMA SignFacts ==
    ASSUME NEW negative, NEW f, NEW S, {"-", "+", SPACE} \subseteq S
    PROVE  /\ Sign(negative, f) \in Seq(S)
           /\ Reverse(Sign(negative, f)) = Sign(negative, f)
           /\ Len(Sign(negative, f)) = IF negative \/ "+" \in f \/ SPACE \in f THEN 1 ELSE 0
PROOF
<1>1. ASSUME NEW c \in S PROVE <<c>> \in Seq(S) /\ Len(<<c>>) = 1 /\ Reverse(<<c>>) = <<c>>
    BY ReverseOne
<1>2. CASE negative
    <2>1. Sign(negative, f) = <<"-">>
        BY <1>2 DEF Sign
    <2> QED
        BY <1>1, <1>2, <2>1
<1>3. CASE ~negative /\ "+" \in f
    <2>1. Sign(negative, f) = <<"+">>
        BY <1>3 DEF Sign
    <2> QED
        BY <1>1, <1>3, <2>1
<1>4. CASE ~negative /\ "+" \notin f /\ SPACE \in f
    <2>1. Sign(negative, f) = <<SPACE>>
        BY <1>4 DEF Sign
    <2> QED
        BY <1>1, <1>4, <2>1
<1>5. CASE ~negative /\ "+" \notin f /\ SPACE \notin f
    <2>1. Sign(negative, f) = <<>>
        BY <1>5 DEF Sign
    <2>2. Reverse(<<>>) = <<>>
        <3>1. Repeat(SPACE, 0) = <<>>
            BY RepeatNone
        <3> QED
            BY <3>1, ReverseRepeat
    <2>3. <<>> \in Seq(S) /\ Len(<<>>) = 0
        OBVIOUS
    <2> QED
        BY <1>5, <2>1, <2>2, <2>3
<1> QED
    BY <1>2, <1>3, <1>4, <1>5

\* A number that fits the conversion buffer is its sign, zeros and digits, with
\* spaces on one side.
LEMMA NtoaFormat ==
    ASSUME NEW T, NEW digits \in Seq(T), Len(digits) <= LongLongBits,
           NEW negative \in BOOLEAN, NEW base, NEW prec \in Nat, NEW wid \in Nat, NEW f,
           "#" \notin f, prec < NTOA,
           "0" \in f /\ "-" \notin f => wid < NTOA /\ prec = 0,
           NEW left \in BOOLEAN, left <=> "-" \in f
    PROVE  LET sign == Sign(negative, f)
               zeros == Zeros(Len(digits), sign, prec, wid, f)
           IN  _ntoa_format(digits, negative, base, prec, wid, f) =
                   Justified(sign \o Repeat("0", zeros) \o Reverse(digits), wid, left)
PROOF
<1> DEFINE S == T \cup {"0", "-", "+", SPACE}
           sign == Sign(negative, f)
           n == Len(digits)
           z == Zeros(n, sign, prec, wid, f)
           w == IF wid # 0 /\ "-" \notin f /\ "0" \in f /\ (negative \/ f \cap {"+", SPACE} # {})
                THEN wid - 1 ELSE wid
           Z == IF "-" \in f THEN digits
                ELSE LET p == Pad(digits, prec) IN IF "0" \in f THEN Pad(p, w) ELSE p
           G == CASE negative -> Room(Z, "-")
                  [] ~negative /\ "+" \in f -> Room(Z, "+")
                  [] ~negative /\ "+" \notin f /\ SPACE \in f -> Room(Z, SPACE)
                  [] OTHER -> Z
<1>1. _ntoa_format(digits, negative, base, prec, wid, f) = _out_rev(G, w, f)
    BY DEF _ntoa_format
<1> HIDE DEF G
<1>2. digits \in Seq(S) /\ n \in Nat
    <2> HIDE DEF Z, w, z, sign
    <2>1. T \subseteq S
        OBVIOUS
    <2> HIDE DEF S
    <2> QED
        BY <2>1, SeqMonotonic
<1>3. "0" \in S /\ SPACE \in S /\ "-" \in S /\ "+" \in S
    OBVIOUS
<1> HIDE DEF S
<1>4. /\ sign \in Seq(S) /\ Reverse(sign) = sign
      /\ Len(sign) = IF negative \/ "+" \in f \/ SPACE \in f THEN 1 ELSE 0
    BY <1>3, SignFacts
<1> DEFINE signed == negative \/ f \cap {"+", SPACE} # {}
<1>5. Len(sign) = IF signed THEN 1 ELSE 0
    BY <1>4
<1> HIDE DEF sign, n
<1>6. NTOA \in Nat /\ LongLongBits \in Nat /\ n < NTOA
    BY <1>2, PrintfAssumption DEF CallAssumption, n
<1>70. w = IF wid # 0 /\ "-" \notin f /\ "0" \in f /\ signed THEN wid - 1 ELSE wid
    OBVIOUS
<1> HIDE DEF w, Z, signed
<1>7. w \in Nat /\ w <= wid
    BY <1>70
<1>71. Len(sign) \in 0..1
    BY <1>5
<1>8. z \in Int
    BY <1>2, <1>71 DEF Zeros
<1> HIDE DEF z
<1>9. Z = digits \o Repeat("0", z)
    <2>1. CASE "-" \in f
        <3>1. z = 0 /\ Z = digits
            BY <2>1 DEF Zeros, Z, z
        <3>2. Repeat("0", 0) = <<>>
            BY DEF Repeat
        <3> QED
            BY <1>2, <3>1, <3>2, ConcatEmptySeq
    <2>2. CASE "-" \notin f /\ "0" \notin f
        <3>1. z = prec - n /\ Z = Pad(digits, prec)
            BY <2>2 DEF Zeros, Z, z
        <3> QED
            BY <1>2, <1>3, <3>1, PadFacts DEF n
    <2>3. CASE "-" \notin f /\ "0" \in f
        <3>1. prec = 0 /\ wid < NTOA /\ w < NTOA /\ w \in Int
            BY <1>6, <1>7, <2>3
        <3>2. Pad(digits, prec) = digits
            <4>1. Pad(digits, prec) = digits \o Repeat("0", prec - n)
                BY <1>2, <1>3, PadFacts DEF n
            <4>0. prec - n \in Int /\ prec - n <= 0
                BY <1>2, <3>1
            <4>2. Repeat("0", prec - n) = <<>>
                BY <4>0, RepeatNone
            <4> QED
                BY <1>2, <4>1, <4>2, ConcatEmptySeq
        <3>3. Z = Pad(digits, w)
            BY <2>3, <3>2 DEF Z
        <3>4. Z = digits \o Repeat("0", w - n)
            BY <1>2, <1>3, <3>1, <3>3, PadFacts DEF n
        <3>5. z = wid - Len(sign) - n
            BY <2>3 DEF Zeros, z
        <3>6. w - n = z \/ (w - n <= 0 /\ z <= 0)
            BY <1>2, <1>5, <1>70, <2>3, <3>5
        <3>7. Repeat("0", w - n) = Repeat("0", z)
            <4>0. w - n \in Int
                BY <1>2, <1>7
            <4>1. w - n <= 0 => Repeat("0", w - n) = <<>>
                BY <4>0, RepeatNone
            <4>2. z <= 0 => Repeat("0", z) = <<>>
                BY <1>8, RepeatNone
            <4> QED
                BY <3>6, <4>1, <4>2
        <3> QED
            BY <3>4, <3>7
    <2> QED
        BY <2>1, <2>2, <2>3
<1> DEFINE zs == Repeat("0", z)
<1>10. zs \in Seq(S) /\ Len(zs) = (IF z > 0 THEN z ELSE 0) /\ Reverse(zs) = zs
    BY <1>3, <1>8, RepeatFacts, ReverseRepeat
<1>11. Z \in Seq(S) /\ Len(Z) = n + Len(zs)
    <2> HIDE DEF zs, Z
    <2> QED
        BY <1>2, <1>9, <1>10, ConcatProperties DEF zs, n
<1>12. Len(Z) < NTOA
    <2>1. z + n < NTOA
        BY <1>2, <1>6, <1>71 DEF Zeros, z
    <2> HIDE DEF zs
    <2> QED
        BY <1>2, <1>6, <1>8, <1>10, <1>11, <2>1
<1> HIDE DEF zs
<1>13. G = Z \o sign
    <2>1. CASE negative
        BY <1>3, <1>11, <1>12, <2>1, RoomFacts DEF Sign, sign, G
    <2>2. CASE ~negative /\ "+" \in f
        BY <1>3, <1>11, <1>12, <2>2, RoomFacts DEF Sign, sign, G
    <2>3. CASE ~negative /\ "+" \notin f /\ SPACE \in f
        BY <1>3, <1>11, <1>12, <2>3, RoomFacts DEF Sign, sign, G
    <2>4. CASE ~negative /\ "+" \notin f /\ SPACE \notin f
        <3>1. G = Z /\ sign = <<>>
            BY <2>4 DEF Sign, sign, G
        <3> QED
            BY <1>11, <3>1, ConcatEmptySeq
    <2> QED
        BY <2>1, <2>2, <2>3, <2>4
<1> DEFINE rev == Reverse(digits)
           text == sign \o zs \o rev
<1>14. rev \in Seq(S) /\ Len(rev) = n
    BY <1>2, ReverseFacts DEF n
<1>15. G \in Seq(S) /\ Len(G) = n + Len(zs) + Len(sign)
    BY <1>2, <1>4, <1>10, <1>11, <1>13, ConcatProperties
<1>16. Reverse(G) = text
    <2>1. Reverse(G) = Reverse(sign) \o Reverse(Z)
        BY <1>4, <1>11, <1>13, ReverseConcat
    <2>2. Reverse(Z) = Reverse(zs) \o rev
        BY <1>2, <1>9, <1>10, ReverseConcat DEF zs
    <2>3. Reverse(G) = sign \o (zs \o rev)
        BY <1>4, <1>10, <2>1, <2>2
    <2> HIDE DEF rev
    <2>4. (sign \o zs) \o rev = sign \o (zs \o rev)
        <3>1. sign \in Seq(S) /\ zs \in Seq(S) /\ rev \in Seq(S)
            BY <1>4, <1>10, <1>14
        <3> HIDE DEF S, zs, sign, text
        <3> QED
            BY <3>1, Associative
    <2> QED
        BY <2>3, <2>4
<1>17. text \in Seq(S) /\ Len(text) = Len(G)
    BY <1>15, <1>16, ReverseFacts
<1> HIDE DEF text
<1>18. Repeat(SPACE, 0) = <<>>
    BY DEF Repeat
<1> DEFINE m == Len(text)
           Pads(k) == Repeat(SPACE, k)
<1>19. m \in Nat /\ \A k \in Int : Pads(k) \in Seq(S)
    <2>1. m \in Nat
        BY <1>17
    <2>2. ASSUME NEW k \in Int PROVE Pads(k) \in Seq(S)
        BY <1>3, RepeatFacts
    <2> QED
        BY <2>1, <2>2
<1>20. _out_rev(G, w, f) = Pads(IF f \cap {"-", "0"} = {} THEN w - m ELSE 0) \o text
                               \o Pads(IF "-" \in f THEN w - m ELSE 0)
    BY <1>16, <1>17 DEF _out_rev
<1>21. _out_rev(G, w, f) = Justified(text, wid, left)
    <2>1. CASE "-" \in f
        <3>1. w = wid /\ f \cap {"-", "0"} # {}
            BY <1>70, <2>1
        <3>2. _out_rev(G, w, f) = <<>> \o text \o Pads(wid - m)
            BY <1>18, <1>20, <2>1, <3>1
        <3>3. <<>> \o text = text
            BY <1>17, ConcatEmptySeq
        <3> QED
            BY <2>1, <3>2, <3>3 DEF Justified
    <2>2. CASE "-" \notin f /\ "0" \notin f
        <3>1. w = wid /\ f \cap {"-", "0"} = {}
            BY <1>70, <2>2
        <3>2. _out_rev(G, w, f) = Pads(wid - m) \o text \o <<>>
            BY <1>18, <1>20, <2>2, <3>1
        <3>3. wid - m \in Int /\ Pads(wid - m) \in Seq(S)
            <4> HIDE DEF m, Pads
            <4>1. wid - m \in Int
                BY <1>19
            <4> QED
                BY <1>19, <4>1
        <3>4. Pads(wid - m) \o text \in Seq(S)
            <4> HIDE DEF Pads, m
            <4> QED
                BY <1>17, <3>3, ConcatProperties
        <3>5. (Pads(wid - m) \o text) \o <<>> = Pads(wid - m) \o text
            <4> HIDE DEF Pads, m
            <4> QED
                BY <3>4, ConcatEmptySeq
        <3> QED
            BY <2>2, <3>2, <3>5 DEF Justified
    <2>3. CASE "-" \notin f /\ "0" \in f
        <3>1. f \cap {"-", "0"} # {}
            BY <2>3
        <3>2. _out_rev(G, w, f) = <<>> \o text \o <<>>
            BY <1>18, <1>20, <2>3, <3>1
        <3>3. _out_rev(G, w, f) = text
            BY <1>17, <3>2, ConcatEmptySeq
        <3>4. z = wid - Len(sign) - n
            BY <2>3 DEF Zeros, z
        <3>5. wid - m <= 0
            <4>1. m = n + Len(zs) + Len(sign) /\ Len(zs) = (IF z > 0 THEN z ELSE 0)
                BY <1>10, <1>15, <1>17
            <4> HIDE DEF m
            <4> QED
                BY <1>2, <1>71, <1>8, <3>4, <4>1
        <3>6. Repeat(SPACE, wid - m) = <<>>
            <4> HIDE DEF m
            <4>1. wid - m \in Int
                BY <1>19
            <4> QED
                BY <3>5, <4>1, RepeatNone
        <3> QED
            BY <1>17, <2>3, <3>3, <3>6, ConcatEmptySeq DEF Justified
    <2> QED
        BY <2>1, <2>2, <2>3
<1> QED
    BY <1>1, <1>21 DEF text, zs, z, n, sign, rev

-----------------------------------------------------------------------------
(* What a directive says, and the number it prints.  Reads is the parser's *)
(* finding at the specifier, Described the types of the description.       *)

\* The powers of two grow.
LEMMA TwoMonotone == ASSUME NEW a \in Nat, NEW b \in Nat, a <= b PROVE 2^a <= 2^b
PROOF
<1> DEFINE T(k) == 2^k
           G == {n \in Nat : T(a) <= T(a + n)}
<1>1. \A k \in Nat : T(k) \in Nat \ {0} /\ T(k + 1) = 2 * T(k)
    BY PowerOfTwo
<1> HIDE DEF T
<1>2. ASSUME NEW n \in Nat, \A m \in 0 .. n - 1 : m \in G PROVE n \in G
    <2>1. CASE n = 0
        BY <1>1, <2>1
    <2>2. CASE n # 0
        <3>1. n - 1 \in 0 .. n - 1 /\ a + (n - 1) \in Nat /\ (a + (n - 1)) + 1 = a + n
            BY <2>2
        <3> DEFINE p == T(a + (n - 1))
        <3>2. T(a) <= p /\ p \in Nat /\ T(a + n) = 2 * p /\ T(a) \in Nat
            BY <1>1, <1>2, <3>1
        <3> HIDE DEF p
        <3>3. T(a) <= T(a + n)
            BY <3>2
        <3> QED
            BY <3>3
    <2> QED
        BY <2>1, <2>2
<1> HIDE DEF G
<1>3. \A n \in Nat : n \in G
    BY <1>2, StrongInduction
<1>4. b - a \in Nat /\ a + (b - a) = b
    OBVIOUS
<1>5. T(a) <= T(a + (b - a))
    BY <1>3, <1>4 DEF G
<1> QED
    BY <1>4, <1>5 DEF T

\* The value of an argument as the type of a width sees it.
LEMMA SignedFacts ==
    ASSUME NEW v \in Int, NEW bits \in Nat \ {0}
    PROVE  /\ v % 2^bits \in 0 .. 2^bits - 1 /\ 2^bits \in Nat \ {0}
           /\ Signed(v, bits) \in Int
           /\ Signed(v, bits) < 2^bits /\ 0 - Signed(v, bits) < 2^bits
PROOF
<1> DEFINE t == 2^bits
           h == 2^(bits - 1)
           u == v % t
<1>1. t \in Nat \ {0}
    BY PowerOfTwo
<1>2. h \in Nat \ {0}
    <2>1. bits - 1 \in Nat
        OBVIOUS
    <2> QED
        BY <2>1, PowerOfTwo
<1>3. Signed(v, bits) = IF u >= h THEN u - t ELSE u
    BY DEF Signed
<1> HIDE DEF t, h
<1>4. u \in 0 .. t - 1
    BY <1>1
<1> HIDE DEF u
<1>5. /\ Signed(v, bits) \in Int /\ Signed(v, bits) < t
      /\ 0 - Signed(v, bits) < t
    BY <1>1, <1>2, <1>3, <1>4
<1> QED
    BY <1>1, <1>4, <1>5 DEF t, u

\* What the parser has found out about a directive when it meets the specifier.
Reads(d, f) ==
    /\ "-" \in f <=> "-" \in d.flags \/ d.width < 0
    /\ "0" \in f <=> "0" \in d.flags
    /\ "+" \in f <=> "+" \in d.flags
    /\ SPACE \in f <=> SPACE \in d.flags
    /\ "#" \in f <=> "#" \in d.flags
    /\ "prec" \in f <=> d.prec >= 0
    /\ "upper" \notin f
    /\ "long" \in f <=> d.len \in {<<"l">>, <<"l", "l">>, <<"t">>, <<"z">>}
    /\ "longlong" \in f <=> d.len \in {<<"l", "l">>, <<"j">>}
    /\ "short" \in f <=> d.len \in {<<"h">>, <<"h", "h">>}
    /\ "char" \in f <=> d.len = <<"h", "h">>
    /\ width = IF d.width < 0 THEN 0 - d.width ELSE d.width
    /\ precision = IF d.prec < 0 THEN 0 ELSE d.prec

\* The types of what describes a directive.
Described(d) ==
    /\ d.width \in Int /\ d.prec \in Int /\ d.prec >= -1
    /\ d.len \in {<<>>, <<"h">>, <<"h", "h">>, <<"l">>, <<"l", "l">>, <<"j">>, <<"t">>, <<"z">>}
    /\ d.spec \in Takes \cup {"%"}
    /\ d.spec \in Takes => d.value.n \in Int /\ d.value.s \in Seq(STRING)
    /\ d.spec = "c" => Len(d.value.s) = 1

\* The parser and the standard see arguments of the same size.
LEMMA BitsFacts ==
    ASSUME NEW d, NEW f, Reads(d, f), Described(d)
    PROVE  /\ Bits(f) = StandardBits(d)
           /\ Bits(f) \in Nat \ {0} /\ Bits(f) <= LongLongBits
PROOF
<1>0. \A b \in {CharBits, ShortBits, IntBits, LongLongBits} : b \in Nat \ {0} /\ b <= LongLongBits
    BY PrintfAssumption DEF CallAssumption
<1>1. <<"h">> # <<"h", "h">> /\ <<"l">> # <<"l", "l">> /\ <<"h">> # <<"l">> /\ <<"h", "h">> # <<"l", "l">>
    OBVIOUS
<1>2. CASE d.len = <<"h", "h">>
    <2>1. "char" \in f /\ "long" \notin f /\ "longlong" \notin f
        BY <1>1, <1>2 DEF Reads
    <2>2. Bits(f) = CharBits
        BY <2>1 DEF Bits
    <2>3. StandardBits(d) = CharBits
        BY <1>2, <2>1 DEF StandardBits
    <2> QED
        BY <1>0, <2>2, <2>3
<1>3. CASE d.len = <<"h">>
    <2>1. "char" \notin f /\ "short" \in f /\ "long" \notin f /\ "longlong" \notin f
        BY <1>1, <1>3 DEF Reads
    <2>2. Bits(f) = ShortBits
        BY <2>1 DEF Bits
    <2>3. StandardBits(d) = ShortBits
        BY <1>1, <1>3, <2>1 DEF StandardBits
    <2> QED
        BY <1>0, <2>2, <2>3
<1>4. CASE d.len \in {<<"l", "l">>, <<"j">>}
    <2>1. "longlong" \in f /\ "char" \notin f /\ "short" \notin f /\ d.len # <<"h">> /\ d.len # <<"h", "h">>
        BY <1>4 DEF Reads
    <2>2. Bits(f) = LongLongBits
        BY <2>1 DEF Bits
    <2>3. StandardBits(d) = LongLongBits
        BY <1>4, <2>1 DEF StandardBits
    <2> QED
        BY <1>0, <2>2, <2>3
<1>5. CASE d.len \in {<<"l">>, <<"t">>, <<"z">>}
    <2>1. "longlong" \notin f /\ "long" \in f /\ "char" \notin f /\ "short" \notin f /\ d.len # <<"h">> /\ d.len # <<"h", "h">>
              /\ d.len \notin {<<"l", "l">>, <<"j">>}
        BY <1>5 DEF Reads
    <2>2. Bits(f) = IntBits
        BY <2>1 DEF Bits
    <2>3. StandardBits(d) = IntBits
        BY <2>1 DEF StandardBits
    <2> QED
        BY <1>0, <2>2, <2>3
<1>6. CASE d.len = <<>>
    <2>1. "longlong" \notin f /\ "long" \notin f /\ "char" \notin f /\ "short" \notin f
              /\ d.len # <<"h">> /\ d.len # <<"h", "h">> /\ d.len \notin {<<"l", "l">>, <<"j">>}
        BY <1>6 DEF Reads
    <2>2. Bits(f) = IntBits
        BY <2>1 DEF Bits
    <2>3. StandardBits(d) = IntBits
        BY <2>1 DEF StandardBits
    <2> QED
        BY <1>0, <2>2, <2>3
<1> QED
    BY <1>2, <1>3, <1>4, <1>5, <1>6 DEF Described

\* The standard's text of a number.
LEMMA StandardOfNumber ==
    ASSUME NEW d, d.spec \in {"d", "i", "u", "x", "X", "o", "b"}
    PROVE  Standard(d) =
               Justified(StandardSign(d) \o Repeat("0", StandardZeros(d)) \o StandardDigits(d),
                         StandardWidth(d), StandardLeft(d))
PROOF
<1>1. d.spec \notin {"c", "s", "%"}
    OBVIOUS
<1> QED
    BY <1>1 DEF Standard

\* No argument is larger than a long long.
LEMMA StandardBitsFacts ==
    ASSUME NEW d PROVE StandardBits(d) \in Nat \ {0} /\ StandardBits(d) <= LongLongBits
PROOF
<1>1. \A b \in {CharBits, ShortBits, IntBits, LongLongBits} : b \in Nat \ {0} /\ b <= LongLongBits
    BY PrintfAssumption DEF CallAssumption
<1>2. CASE d.len = <<"h", "h">>
    <2>1. StandardBits(d) = CharBits
        <3>1. d.len # <<"h">> /\ d.len \notin {<<"l", "l">>, <<"j">>}
            BY <1>2
        <3> QED
            BY <1>2, <3>1 DEF StandardBits
    <2> QED
        BY <1>1, <2>1
<1>3. CASE d.len = <<"h">>
    <2>1. StandardBits(d) = ShortBits
        <3>1. d.len # <<"h", "h">> /\ d.len \notin {<<"l", "l">>, <<"j">>}
            BY <1>3
        <3> QED
            BY <1>3, <3>1 DEF StandardBits
    <2> QED
        BY <1>1, <2>1
<1>4. CASE d.len \in {<<"l", "l">>, <<"j">>}
    <2>1. StandardBits(d) = LongLongBits
        <3>1. d.len # <<"h", "h">> /\ d.len # <<"h">>
            BY <1>4
        <3> QED
            BY <1>4, <3>1 DEF StandardBits
    <2> QED
        BY <1>1, <2>1
<1>5. CASE d.len # <<"h", "h">> /\ d.len # <<"h">> /\ d.len \notin {<<"l", "l">>, <<"j">>}
    <2>1. StandardBits(d) = IntBits
        BY <1>5 DEF StandardBits
    <2> QED
        BY <1>1, <2>1
<1> QED
    BY <1>2, <1>3, <1>4, <1>5

\* The number a directive prints is one of the type of its argument.
LEMMA NumberRange ==
    ASSUME NEW d, Described(d), d.spec \in Takes
    PROVE  /\ StandardNumber(d) \in Int
           /\ StandardNumber(d) < 2^LongLongBits /\ 0 - StandardNumber(d) < 2^LongLongBits
           /\ d.spec \notin {"d", "i"} => StandardNumber(d) >= 0
PROOF
<1> DEFINE b == StandardBits(d)
           v == d.value.n
           t == 2^b
           u == 2^LongLongBits
           sg == Signed(v, b)
           md == v % t
<1>1. b \in Nat \ {0} /\ b <= LongLongBits
    BY StandardBitsFacts
<1>2. v \in Int
    BY DEF Described
<1>3. LongLongBits \in Nat \ {0}
    BY PrintfAssumption DEF CallAssumption
<1>4. md \in 0 .. t - 1 /\ t \in Nat \ {0} /\ sg \in Int /\ sg < t /\ 0 - sg < t
    <2> HIDE DEF b, v
    <2> QED
        BY <1>1, <1>2, SignedFacts
<1>5. t <= u /\ u \in Nat
    <2> HIDE DEF b, v
    <2> QED
        BY <1>1, <1>3, TwoMonotone, PowerOfTwo
<1>6. StandardNumber(d) = IF d.spec \in {"d", "i"} THEN sg ELSE md
    BY DEF StandardNumber
<1> HIDE DEF t, u, sg, md
<1>7. /\ StandardNumber(d) \in Int /\ StandardNumber(d) < u /\ 0 - StandardNumber(d) < u
      /\ d.spec \notin {"d", "i"} => StandardNumber(d) >= 0
    BY <1>4, <1>5, <1>6
<1> QED
    BY <1>7 DEF u

\* The number is the one that the code computes.
LEMMA NumberFacts ==
    ASSUME NEW d, NEW f, Reads(d, f), Described(d), d.spec \in Takes
    PROVE  /\ StandardNumber(d) \in Int
           /\ StandardNumber(d) < 2^LongLongBits /\ 0 - StandardNumber(d) < 2^LongLongBits
           /\ d.spec \notin {"d", "i"} => StandardNumber(d) >= 0
           /\ d.spec \in {"d", "i"} /\ "char" \notin f =>
                  StandardNumber(d) = Signed(d.value.n, Bits(f))
           /\ d.spec \notin {"d", "i"} => StandardNumber(d) = d.value.n % 2^Bits(f)
PROOF
<1>1. StandardBits(d) = Bits(f)
    BY BitsFacts
<1>2. /\ StandardNumber(d) \in Int
      /\ StandardNumber(d) < 2^LongLongBits /\ 0 - StandardNumber(d) < 2^LongLongBits
      /\ d.spec \notin {"d", "i"} => StandardNumber(d) >= 0
    BY NumberRange
<1>3. /\ d.spec \in {"d", "i"} => StandardNumber(d) = Signed(d.value.n, Bits(f))
      /\ d.spec \notin {"d", "i"} => StandardNumber(d) = d.value.n % 2^Bits(f)
    BY <1>1 DEF StandardNumber
<1> QED
    BY <1>2, <1>3

-----------------------------------------------------------------------------
(* The conversions: Integer, and with it Converted, gives the text that the*)
(* standard asks for.                                                      *)

IntegerSpecs == {"d", "i", "u", "x", "X", "o", "b"}

\* The flags case 'd', 'i', 'u', 'x', 'X', 'o', 'b' leaves to the conversion.
IntegerFlags(c, f) ==
    LET base == CASE c \in {"x", "X"} -> 16 [] c = "o" -> 8 [] c = "b" -> 2 [] OTHER -> 10
    IN  (IF c = "X" THEN f \cup {"upper"} ELSE f)
            \ ((IF base = 10 THEN {"#"} ELSE {})
                \cup (IF c \in {"d", "i"} THEN {} ELSE {"+", SPACE})
                \cup (IF "prec" \in f THEN {"0"} ELSE {}))

\* The space is none of the other flags.
LEMMA Spaces == SPACE \notin {"0", "-", "+", "#", "prec", "upper", "long", "longlong", "short", "char"}
PROOF
    BY Zenon DEF SPACE

\* The flags that are left for _ntoa_format, against those of the directive.
LEMMA IntegerFlagsFacts ==
    ASSUME NEW d, NEW f, Reads(d, f), Described(d), "#" \notin d.flags,
           d.spec \in IntegerSpecs
    PROVE  LET g == IntegerFlags(d.spec, f)
           IN  /\ "#" \notin g
               /\ "-" \in g <=> StandardLeft(d)
               /\ "0" \in g <=> "0" \in d.flags /\ d.prec < 0
               /\ "+" \in g <=> "+" \in d.flags /\ d.spec \in {"d", "i"}
               /\ SPACE \in g <=> SPACE \in d.flags /\ d.spec \in {"d", "i"}
               /\ "upper" \in g <=> d.spec = "X"
               /\ "prec" \in g <=> d.prec >= 0
PROOF
<1> DEFINE g == IntegerFlags(d.spec, f)
           c == d.spec
<1>1. \E h \in {{}, {"#"}} : g = (IF c = "X" THEN f \cup {"upper"} ELSE f)
          \ (h \cup (IF c \in {"d", "i"} THEN {} ELSE {"+", SPACE})
               \cup (IF "prec" \in f THEN {"0"} ELSE {}))
    BY DEF IntegerFlags
<1>2. PICK h \in {{}, {"#"}} : g = (IF c = "X" THEN f \cup {"upper"} ELSE f)
          \ (h \cup (IF c \in {"d", "i"} THEN {} ELSE {"+", SPACE})
               \cup (IF "prec" \in f THEN {"0"} ELSE {}))
    BY <1>1
<1> HIDE DEF g
<1>3. \A x : x \in g <=> /\ x \in f \/ (c = "X" /\ x = "upper")
                         /\ x \notin h
                         /\ ~(c \notin {"d", "i"} /\ x \in {"+", SPACE})
                         /\ ~("prec" \in f /\ x = "0")
    BY <1>2
<1>4. h \subseteq {"#"}
    OBVIOUS
<1>5. "#" \notin f
    BY DEF Reads
<1>6. "#" \notin g
    BY <1>3, <1>5
<1>7. "-" \in g <=> StandardLeft(d)
    BY <1>3, <1>4, Spaces DEF Reads, StandardLeft
<1>8. "0" \in g <=> "0" \in d.flags /\ ~("prec" \in f)
    BY <1>3, <1>4, Spaces DEF Reads
<1>9. "+" \in g <=> "+" \in d.flags /\ c \in {"d", "i"}
    BY <1>3, <1>4 DEF Reads
<1>10. SPACE \in g <=> SPACE \in d.flags /\ c \in {"d", "i"}
    BY <1>3, <1>4, Spaces DEF Reads
<1>11. "upper" \in g <=> c = "X"
    BY <1>3, <1>4, Spaces DEF Reads
<1>12. "prec" \in g <=> "prec" \in f
    BY <1>3, <1>4, Spaces
<1>13. ("prec" \in f <=> d.prec >= 0) /\ (~("prec" \in f) <=> d.prec < 0)
    BY DEF Reads, Described
<1> QED
    BY <1>6, <1>7, <1>8, <1>9, <1>10, <1>11, <1>12, <1>13 DEF g

\* Repeat with one more at its end.
LEMMA RepeatMore ==
    ASSUME NEW c, NEW n \in Nat PROVE Repeat(c, n) \o <<c>> = Repeat(c, n + 1)
PROOF
<1> DEFINE s == Repeat(c, n)
           t == Repeat(c, n + 1)
           u == s \o <<c>>
<1>1. s \in Seq({c}) /\ Len(s) = n
    BY RepeatFacts
<1>2. t \in Seq({c}) /\ Len(t) = n + 1
    BY RepeatFacts
<1>3. <<c>> \in Seq({c}) /\ Len(<<c>>) = 1
    OBVIOUS
<1> HIDE DEF s, t
<1>4. u \in Seq({c}) /\ Len(u) = n + 1
    BY <1>1, <1>3, ConcatProperties
<1> HIDE DEF u
<1>5. \A i \in 1 .. n + 1 : u[i] = c /\ t[i] = c
    BY <1>2, <1>4
<1>6. u = t
    BY <1>2, <1>4, <1>5, SeqEqual
<1> QED
    BY <1>6 DEF u, s, t

\* The text of the standard does not depend on how its digits and zeros split.
LEMMA SameText ==
    ASSUME NEW S, {"0"} \subseteq S, NEW sign \in Seq(S), NEW n \in Nat
    PROVE  sign \o Repeat("0", n) \o <<"0">> = sign \o Repeat("0", n + 1) \o <<>>
PROOF
<1> DEFINE r == Repeat("0", n)
           q == Repeat("0", n + 1)
           z == <<"0">>
<1>1. r \in Seq(S) /\ q \in Seq(S)
    BY RepeatFacts
<1>2. r \o z = q
    BY RepeatMore
<1>3. z \in Seq(S)
    OBVIOUS
<1> HIDE DEF r, q, z
<1>4. (sign \o r) \o z = sign \o (r \o z)
    <2>1. \A a, b, c \in Seq(S) : (a \o b) \o c = a \o (b \o c)
        BY Associative
    <2> QED
        BY <1>1, <1>3, <2>1
<1>5. sign \o q \in Seq(S)
    BY <1>1, ConcatProperties
<1>6. (sign \o q) \o <<>> = sign \o q
    BY <1>5, ConcatEmptySeq
<1> QED
    BY <1>2, <1>4, <1>6 DEF r, q, z

\* What Integer hands to _ntoa_format.
LEMMA IntegerUnfold ==
    ASSUME NEW d, NEW f, Reads(d, f), Described(d), Conforms(d), d.spec \in IntegerSpecs
    PROVE  LET n == StandardNumber(d)
               v == IF n < 0 THEN 0 - n ELSE n
               g == IntegerFlags(d.spec, f)
           IN  \E F : /\ F = g \/ F = g \ {"#"}
                      /\ Integer(d.spec, d.value.n, f) =
                             _ntoa_format(IF "prec" \in g /\ v = 0 THEN <<>>
                                          ELSE Digits(v, StandardBase(d), g),
                                          n < 0, StandardBase(d), precision, width, F)
PROOF
<1> DEFINE c == d.spec
           n == StandardNumber(d)
           v == IF n < 0 THEN 0 - n ELSE n
           g == IntegerFlags(c, f)
           base == StandardBase(d)
           m == IF c \in {"d", "i"} /\ "char" \notin f
                THEN Signed(d.value.n, Bits(f)) ELSE d.value.n % 2^Bits(f)
           w == IF m > 0 THEN m ELSE 0 - m
<1>1. c \in Takes
    BY DEF IntegerSpecs, Takes
<1>2. c \in {"d", "i"} => "char" \notin f
    BY DEF Conforms, Reads
<1>3. n \in Int /\ m = n
    BY <1>1, <1>2, NumberFacts
<1>4. base = CASE c \in {"x", "X"} -> 16 [] c = "o" -> 8 [] c = "b" -> 2 [] OTHER -> 10
    <2>1. c # "p"
        BY DEF IntegerSpecs
    <2> QED
        BY <2>1 DEF StandardBase
<1>5. Integer(c, d.value.n, f) = _ntoa_long(w, m < 0, base, precision, width, g)
    BY <1>4 DEF Integer, IntegerFlags
<1>6. w = v
    <2> HIDE DEF m, n
    <2> QED
        BY <1>3
<1>7. Integer(c, d.value.n, f) = _ntoa_long(v, n < 0, base, precision, width, g)
    BY <1>3, <1>5, <1>6
<1> HIDE DEF v, n, g, base, c
<1> QED
    BY <1>7 DEF _ntoa_long, v, n, g, base, c

\* The bases.
LEMMA BaseFacts == ASSUME NEW d, d.spec \in IntegerSpecs PROVE StandardBase(d) \in 2..16
PROOF
<1>1. CASE d.spec \in {"x", "X"}
    <2>1. StandardBase(d) = 16
        BY <1>1 DEF StandardBase
    <2> QED
        BY <2>1
<1>2. CASE d.spec = "o"
    <2>1. StandardBase(d) = 8
        BY <1>2 DEF StandardBase
    <2> QED
        BY <2>1
<1>3. CASE d.spec = "b"
    <2>1. StandardBase(d) = 2
        BY <1>3 DEF StandardBase
    <2> QED
        BY <2>1
<1>4. CASE d.spec \in {"d", "i", "u"}
    <2>1. StandardBase(d) = 10
        BY <1>4 DEF StandardBase
    <2> QED
        BY <2>1
<1> QED
    BY <1>1, <1>2, <1>3, <1>4 DEF IntegerSpecs

\* The sign of the standard is the one the code puts in front.
LEMMA StandardSignIs ==
    ASSUME NEW d, Described(d), d.spec \in IntegerSpecs, NEW F,
           "+" \in F <=> "+" \in d.flags /\ d.spec \in {"d", "i"},
           SPACE \in F <=> SPACE \in d.flags /\ d.spec \in {"d", "i"}
    PROVE  Sign(StandardNumber(d) < 0, F) = StandardSign(d)
PROOF
<1> DEFINE n == StandardNumber(d)
<1>1. d.spec \in Takes
    BY DEF IntegerSpecs, Takes
<1>2. n \in Int
    BY <1>1, NumberRange
<1> HIDE DEF n
<1>3. CASE n < 0
    <2>1. ~(n >= 0)
        BY <1>2, <1>3
    <2>2. Sign(n < 0, F) = <<"-">>
        BY <1>3 DEF Sign
    <2>3. StandardSign(d) = <<"-">>
        BY <1>3, <2>1 DEF StandardSign, n
    <2> QED
        BY <2>2, <2>3 DEF n
<1>4. CASE ~(n < 0)
    <2>1. n >= 0
        BY <1>2, <1>4
    <2>2. CASE "+" \in F
        <3>1. Sign(n < 0, F) = <<"+">>
            BY <1>4, <2>2 DEF Sign
        <3>2. StandardSign(d) = <<"+">>
            BY <1>4, <2>1, <2>2 DEF StandardSign, n
        <3> QED
            BY <3>1, <3>2 DEF n
    <2>3. CASE "+" \notin F /\ SPACE \in F
        <3>1. Sign(n < 0, F) = <<SPACE>>
            BY <1>4, <2>3 DEF Sign
        <3>2. StandardSign(d) = <<SPACE>>
            BY <1>4, <2>1, <2>3 DEF StandardSign, n
        <3> QED
            BY <3>1, <3>2 DEF n
    <2>4. CASE "+" \notin F /\ SPACE \notin F
        <3>1. Sign(n < 0, F) = <<>>
            BY <1>4, <2>4 DEF Sign
        <3>2. StandardSign(d) = <<>>
            BY <1>4, <2>1, <2>4 DEF StandardSign, n
        <3> QED
            BY <3>1, <3>2 DEF n
    <2> QED
        BY <2>2, <2>3, <2>4
<1> QED
    BY <1>3, <1>4

\* Case 'd', 'i', 'u', 'x', 'X', 'o', 'b': the text is that of the standard.
LEMMA IntegerAsC ==
    ASSUME NEW d, NEW f, Reads(d, f), Described(d), Conforms(d), d.spec \in IntegerSpecs
    PROVE  Integer(d.spec, d.value.n, f) = Standard(d)
PROOF
<1> DEFINE n == StandardNumber(d)
           v == IF n < 0 THEN 0 - n ELSE n
           g == IntegerFlags(d.spec, f)
           base == StandardBase(d)
           D == IF "prec" \in g /\ v = 0 THEN <<>> ELSE Digits(v, base, g)
           left == StandardLeft(d)
           sign == StandardSign(d)
<1>1. PICK F : /\ F = g \/ F = g \ {"#"}
               /\ Integer(d.spec, d.value.n, f) =
                      _ntoa_format(D, n < 0, base, precision, width, F)
    BY IntegerUnfold
<1>2. d.spec \in Takes /\ d.spec \notin {"c", "s", "%"}
    BY DEF IntegerSpecs, Takes
<1>3. n \in Int /\ n < 2^LongLongBits /\ 0 - n < 2^LongLongBits
    BY <1>2, NumberFacts
<1>4. base \in 2..16
    BY BaseFacts
<1>5. "#" \notin d.flags /\ (d.prec <= 0 \/ ~left) /\ d.prec < NTOA
      /\ ("0" \in d.flags => d.width < NTOA)
    <2>1. /\ "#" \notin d.flags /\ d.prec < NTOA /\ ("0" \in d.flags => d.width < NTOA)
          /\ d.prec <= 0 \/ ("-" \notin d.flags /\ d.width >= 0)
        BY <1>2 DEF Conforms
    <2>2. d.width \in Int
        BY DEF Described
    <2> QED
        BY <2>1, <2>2 DEF StandardLeft
<1>6. /\ "#" \notin g
      /\ "-" \in g <=> left
      /\ "0" \in g <=> "0" \in d.flags /\ d.prec < 0
      /\ "+" \in g <=> "+" \in d.flags /\ d.spec \in {"d", "i"}
      /\ SPACE \in g <=> SPACE \in d.flags /\ d.spec \in {"d", "i"}
      /\ "upper" \in g <=> d.spec = "X"
      /\ "prec" \in g <=> d.prec >= 0
    BY <1>5, IntegerFlagsFacts
<1> HIDE DEF g, base, left
<1>7. F = g
    BY <1>1, <1>6
<1>8. Sign(n < 0, g) = sign
    BY <1>6, StandardSignIs
<1> HIDE DEF n, sign
<1>9. v \in Nat /\ v < 2^LongLongBits /\ (v = 0 <=> n = 0)
    BY <1>3
<1> DEFINE letters == IF d.spec = "X" THEN Upper ELSE Lower
           N == Numeral(v, base, letters)
           E == Digits(v, base, g)
<1>10. letters = IF "upper" \in g THEN Upper ELSE Lower
    BY <1>6
<1> HIDE DEF v, letters
<1>11. /\ Reverse(E) = N /\ E \in Seq(Letters(g)) /\ Len(E) \in 1 .. LongLongBits
       /\ v = 0 => N = <<"0">>
    BY <1>4, <1>9, <1>10, DigitsNumeral
<1> HIDE DEF E, N
<1>12. StandardDigits(d) = IF d.prec = 0 /\ v = 0 THEN <<>> ELSE N
    <2>1. StandardDigits(d) = IF d.prec = 0 /\ n = 0 THEN <<>> ELSE N
        BY DEF StandardDigits, N, v, n, base, letters
    <2> QED
        BY <1>9, <2>1
<1>13. D = IF d.prec >= 0 /\ v = 0 THEN <<>> ELSE E
    BY <1>6 DEF E
<1> HIDE DEF D
<1>14. LongLongBits \in Nat /\ NTOA \in Nat /\ NTOA > LongLongBits
    BY PrintfAssumption DEF CallAssumption
<1>15. D \in Seq(Letters(g)) /\ Len(D) \in Nat /\ Len(D) <= LongLongBits
    BY <1>11, <1>13, <1>14
<1> DEFINE W == StandardWidth(d)
<1>16. /\ d.prec \in Int /\ d.width \in Int
       /\ width = W /\ precision = IF d.prec < 0 THEN 0 ELSE d.prec
    BY DEF Reads, Described, StandardWidth
<1>17. W \in Nat /\ (~left => W = d.width)
    BY <1>16 DEF StandardWidth, StandardLeft, left
<1> HIDE DEF W
<1>18. precision \in Nat /\ precision < NTOA
    BY <1>5, <1>14, <1>16
<1>19. "0" \in g /\ "-" \notin g => W < NTOA /\ precision = 0
    BY <1>5, <1>6, <1>16, <1>17
<1> DEFINE z == Zeros(Len(D), sign, precision, W, g)
<1>20. Integer(d.spec, d.value.n, f) =
           Justified(sign \o Repeat("0", z) \o Reverse(D), W, left)
    <2> DEFINE neg == n < 0
               L == Letters(g)
    <2>1. neg \in BOOLEAN /\ left \in BOOLEAN
        BY DEF left, StandardLeft
    <2>2. Integer(d.spec, d.value.n, f) = _ntoa_format(D, neg, base, precision, W, g)
        BY <1>1, <1>7, <1>16
    <2>3. Sign(neg, g) = sign
        BY <1>8
    <2>4. D \in Seq(L)
        BY <1>15
    <2>5. Len(D) <= LongLongBits /\ precision \in Nat /\ W \in Nat /\ precision < NTOA
        BY <1>15, <1>17, <1>18
    <2>6. "#" \notin g /\ (left <=> "-" \in g)
        BY <1>6
    <2> HIDE DEF neg, L, z
    <2>7. _ntoa_format(D, neg, base, precision, W, g) =
              Justified(Sign(neg, g) \o Repeat("0", Zeros(Len(D), Sign(neg, g), precision, W, g))
                            \o Reverse(D), W, left)
        BY <1>19, <2>1, <2>4, <2>5, <2>6, NtoaFormat
    <2> QED
        BY <2>2, <2>3, <2>7 DEF z
<1> DEFINE SD == StandardDigits(d)
           SZ == StandardZeros(d)
<1>21. Standard(d) = Justified(sign \o Repeat("0", SZ) \o SD, W, left)
    BY StandardOfNumber DEF IntegerSpecs, sign, W, left
<1>22. SZ = IF d.prec >= 0 THEN d.prec - Len(SD)
            ELSE IF "0" \in d.flags /\ ~left THEN W - Len(sign) - Len(SD) ELSE 0
    BY DEF StandardZeros, sign, W, left
<1>23. z = IF left THEN 0 ELSE IF "0" \in d.flags /\ d.prec < 0 THEN W - Len(sign) - Len(D)
           ELSE precision - Len(D)
    BY <1>6 DEF Zeros
<1>24. Len(sign) \in Nat /\ sign \in Seq({"-", "+", SPACE, "0"})
    <2>1. {"-", "+", SPACE} \subseteq {"-", "+", SPACE, "0"}
        OBVIOUS
    <2>2. Sign(n < 0, g) \in Seq({"-", "+", SPACE, "0"})
        BY <2>1, SignFacts
    <2> QED
        BY <1>8, <2>2
<1> HIDE DEF z, SD, SZ
<1>25. sign \o Repeat("0", z) \o Reverse(D) = sign \o Repeat("0", SZ) \o SD
    <2>1. CASE d.prec >= 0 /\ v = 0 /\ d.prec # 0
        <3>1. D = <<>> /\ SD = <<"0">> /\ ~left
            BY <1>5, <1>11, <1>12, <1>13, <1>16, <2>1 DEF SD
        <3>2. z = d.prec /\ SZ = d.prec - 1
            BY <1>16, <1>22, <1>23, <2>1, <3>1
        <3>3. Reverse(D) = <<>>
            BY <3>1, ReverseRepeat, RepeatNone
        <3>4. d.prec - 1 \in Nat /\ (d.prec - 1) + 1 = d.prec
            BY <1>16, <2>1
        <3>5. sign \o Repeat("0", d.prec - 1) \o <<"0">> = sign \o Repeat("0", (d.prec - 1) + 1) \o <<>>
            BY <1>24, <3>4, SameText
        <3> QED
            BY <3>1, <3>2, <3>3, <3>4, <3>5
    <2>2. CASE d.prec = 0 /\ v = 0
        <3>1. D = <<>> /\ SD = <<>>
            BY <1>12, <1>13, <2>2 DEF SD
        <3>4. Len(D) = 0 /\ Len(SD) = 0 /\ precision = 0
            BY <1>16, <2>2, <3>1
        <3>2. z = 0 /\ SZ = 0
            BY <1>22, <1>23, <2>2, <3>4
        <3>3. Reverse(D) = <<>>
            BY <3>1, ReverseRepeat, RepeatNone
        <3> QED
            BY <3>1, <3>2, <3>3
    <2>3. CASE ~(d.prec >= 0 /\ v = 0)
        <3>1. D = E /\ SD = N
            BY <1>12, <1>13, <1>16, <2>3 DEF SD
        <3>2. Reverse(D) = SD /\ Len(SD) = Len(D)
            BY <1>11, <3>1, ReverseFacts
        <3>3. z = SZ \/ (z \in Int /\ SZ \in Int /\ z <= 0 /\ SZ <= 0)
            BY <1>5, <1>15, <1>16, <1>17, <1>22, <1>23, <1>24, <3>2
        <3>4. Repeat("0", z) = Repeat("0", SZ)
            BY <3>3, RepeatNone
        <3> QED
            BY <3>2, <3>4
    <2> QED
        BY <1>16, <2>1, <2>2, <2>3
<1> QED
    BY <1>20, <1>21, <1>25

\* What a directive gives to out(), once its flags, width, precision and length
\* are read, is the text that the C standard defines for it.
THEOREM ConvertsAsC ==
    ASSUME NEW d, NEW f, Reads(d, f), Described(d), Conforms(d)
    PROVE  Converted(d.spec, IF d.spec \in Takes THEN d.value ELSE <<>>, f) = Standard(d)
PROOF
<1> DEFINE left == StandardLeft(d)
           W == StandardWidth(d)
<1>1. /\ width = W /\ ("-" \in f <=> left) /\ d.prec \in Int
      /\ "prec" \in f <=> d.prec >= 0
      /\ d.prec >= 0 => precision = d.prec
    BY DEF Reads, Described, StandardLeft, StandardWidth
<1>2. CASE d.spec \in IntegerSpecs
    <2>1. d.spec \in {"d", "i", "u", "x", "X", "o", "b"} /\ d.spec \in Takes
        BY <1>2 DEF IntegerSpecs, Takes
    <2>2. Converted(d.spec, d.value, f) = Integer(d.spec, d.value.n, f)
        BY <2>1 DEF Converted
    <2> QED
        BY <1>2, <2>1, <2>2, IntegerAsC
<1>3. CASE d.spec = "c"
    <2> DEFINE s == d.value.s
    <2>1. d.spec \in Takes /\ Len(s) = 1
        BY <1>3 DEF Takes, Described
    <2>2. Standard(d) = Justified(s, W, left)
        BY <1>3 DEF Standard
    <2>3. Converted(d.spec, d.value, f) =
              IF "-" \in f THEN s \o Repeat(SPACE, width - 1) ELSE Repeat(SPACE, width - 1) \o s
        BY <1>3 DEF Converted
    <2> HIDE DEF s, W, left
    <2> QED
        BY <1>1, <2>1, <2>2, <2>3 DEF Justified
<1>4. CASE d.spec = "s"
    <2> DEFINE s == d.value.s
               n == IF d.prec < 0 THEN Len(s) ELSE Atmost(Len(s), d.prec)
               cut == SubSeq(s, 1, n)
    <2>1. d.spec \in Takes /\ s \in Seq(STRING)
        BY <1>4 DEF Takes, Described
    <2>2. Len(s) \in Nat /\ n \in 0 .. Len(s)
        <3>1. Len(s) \in Nat
            BY <2>1
        <3> HIDE DEF s
        <3> QED
            BY <1>1, <3>1 DEF Atmost, n
    <2> HIDE DEF n
    <2>3. Standard(d) = Justified(cut, W, left)
        <3>1. Standard(d) = Justified(IF d.prec < 0 THEN s ELSE SubSeq(s, 1, Atmost(d.prec, Len(s))), W, left)
            BY <1>4 DEF Standard
        <3>2. d.prec < 0 => cut = s
            BY <2>1 DEF n
        <3>3. ~(d.prec < 0) => n = Atmost(d.prec, Len(s))
            <4> HIDE DEF s
            <4> QED
                BY <1>1, <2>2 DEF Atmost, n
        <3> QED
            BY <3>1, <3>2, <3>3
    <2>4. Converted(d.spec, d.value, f) = String(s, f)
        <3>1. Converted(d.spec, d.value, f) = String(Pointed(d.value.s), f)
            BY <1>4 DEF Converted
        <3>2. d.value.s # NULL
            BY <1>4 DEF Conforms
        <3>3. Pointed(d.value.s) = d.value.s
            BY <3>2 DEF Pointed
        <3> QED
            BY <3>1, <3>3
    <2>5. String(s, f) = IF "-" \in f THEN cut \o Repeat(SPACE, width - n)
                         ELSE Repeat(SPACE, width - n) \o cut
        <3>1. n = IF "prec" \in f THEN Atmost(Len(s), precision) ELSE Len(s)
            <4> HIDE DEF s
            <4> QED
                BY <1>1 DEF n
        <3> HIDE DEF s
        <3> QED
            BY <3>1 DEF String
    <2>6. Len(cut) = n
        BY <2>1, <2>2, SubSeqProperties
    <2> HIDE DEF s, W, left, cut
    <2> QED
        BY <1>1, <2>1, <2>3, <2>4, <2>5, <2>6 DEF Justified
<1>5. CASE d.spec = "%"
    <2>1. Standard(d) = <<"%">> /\ d.spec \notin Takes
        BY <1>5 DEF Standard, Takes
    <2>2. Converted("%", <<>>, f) = <<"%">>
        BY DEF Converted
    <2> QED
        BY <1>5, <2>1, <2>2
<1> QED
    BY <1>2, <1>3, <1>4, <1>5 DEF Described, Conforms, Takes, IntegerSpecs

-----------------------------------------------------------------------------
(* Iteration: the number that digits spell, and the text without its NULs. *)

IterationLaw(f, a, b, s, step) ==
    \A x \in a..b : f[x] = IF x = a THEN s ELSE step[<<x, f[x - 1]>>]

\* A function defined by steps from its first place on exists.
LEMMA Iteration ==
    ASSUME NEW S, NEW a \in Nat, NEW b \in Nat, NEW s \in S, NEW step \in [Nat \X S -> S]
    PROVE  \E f \in [a..b -> S] : IterationLaw(f, a, b, s, step)
PROOF
<1> DEFINE Stop == 0..a
           c == [n \in Nat |-> s]
           pred == [n \in Nat |-> IF n = 0 THEN 0 ELSE n - 1]
<1>1. c \in [Nat -> S] /\ pred \in [Nat -> Nat] /\ Stop \in SUBSET Nat
    OBVIOUS
<1>2. \A v \in Nat \ Stop : pred[v] < v
    OBVIOUS
<1> HIDE DEF Stop, c, pred
<1>3. PICK g \in [Nat -> S] : RecursionLaw(g, Stop, c, step, pred)
    BY <1>1, <1>2, Recursion
<1> DEFINE f == [x \in a..b |-> g[x]]
<1>4. f \in [a..b -> S]
    BY <1>3
<1>5. ASSUME NEW x \in a..b PROVE f[x] = IF x = a THEN s ELSE step[<<x, f[x - 1]>>]
    <2>1. x \in Nat /\ g[x] = IF x \in Stop THEN c[x] ELSE step[<<x, g[pred[x]]>>]
        BY <1>3 DEF RecursionLaw
    <2>2. x \in Stop <=> x = a
        BY DEF Stop
    <2>3. c[x] = s /\ f[x] = g[x]
        BY <2>1 DEF c
    <2>4. x # a => pred[x] = x - 1 /\ f[x - 1] = g[x - 1]
        BY <2>1 DEF pred
    <2> QED
        BY <2>1, <2>2, <2>3, <2>4
<1> QED
    BY <1>4, <1>5 DEF IterationLaw

\* A digit has a value.
LEMMA DigitFacts == ASSUME NEW c, _is_digit(c) PROVE Digit(c) \in 0..9
PROOF
<1>1. PICK i \in 1..10 : c = Lower[i]
    BY DEF _is_digit, Decimal
<1>2. i - 1 \in 0..9 /\ Lower[(i - 1) + 1] = c
    BY <1>1
<1> QED
    BY <1>2 DEF Digit

\* The numbers that digits spell, one by one.
LEMMA SpelledFacts ==
    ASSUME NEW text, NEW a \in Nat, NEW b \in Nat, a <= b,
           \A x \in a + 1 .. b : _is_digit(text[x])
    PROVE  LET s == Spelled(text, a, b)
           IN  /\ s[a] = 0
               /\ \A x \in a + 1 .. b : s[x] = s[x - 1] * 10 + Digit(text[x])
               /\ \A x \in a .. b : s[x] \in Nat /\ s[x] <= Number(text, a, b)
PROOF
<1> DEFINE D(x) == IF x \in a + 1 .. b THEN Digit(text[x]) ELSE 0
           step == [p \in Nat \X Nat |-> p[2] * 10 + D(p[1])]
           Law(f) == f = [x \in a..b |-> IF x = a THEN 0 ELSE f[x - 1] * 10 + Digit(text[x])]
           s == CHOOSE f : Law(f)
<1>1. \A x \in Nat : D(x) \in Nat
    BY DigitFacts
<1> HIDE DEF D
<1>2. step \in [Nat \X Nat -> Nat]
    BY <1>1
<1>3. PICK f \in [a..b -> Nat] : \A x \in a..b : f[x] = IF x = a THEN 0 ELSE step[<<x, f[x - 1]>>]
    <2> DEFINE Q == Nat
               z == 0
    <2>1. z \in Q /\ step \in [Nat \X Q -> Q]
        BY <1>2
    <2> HIDE DEF step, Q, z
    <2>2. \E f \in [a..b -> Q] : IterationLaw(f, a, b, z, step)
        BY <2>1, Iteration
    <2> QED
        BY <2>2 DEF Q, z, IterationLaw
<1>4. \A x \in a..b : f[x] = IF x = a THEN 0 ELSE f[x - 1] * 10 + Digit(text[x])
    <2> SUFFICES ASSUME NEW x \in a..b, x # a
                 PROVE  f[x] = f[x - 1] * 10 + Digit(text[x])
        BY <1>3
    <2>1. x \in Nat /\ x - 1 \in a..b /\ x \in a + 1 .. b
        OBVIOUS
    <2>2. f[x - 1] \in Nat /\ D(x) = Digit(text[x])
        BY <1>3, <2>1 DEF D
    <2>3. step[<<x, f[x - 1]>>] = f[x - 1] * 10 + D(x)
        BY <2>1, <2>2
    <2> HIDE DEF step
    <2> QED
        BY <1>3, <2>2, <2>3
<1>5. Law(f)
    BY <1>3, <1>4
<1>6. Law(s)
    BY <1>5
<1>7. Spelled(text, a, b) = s
    BY DEF Spelled
<1> HIDE DEF s
<1>8. s[a] = 0 /\ \A x \in a + 1 .. b : s[x] = s[x - 1] * 10 + Digit(text[x])
    BY <1>6
<1>9. \A n \in Nat : n \in {m \in Nat : a + m <= b => s[a + m] \in Nat /\ \A k \in 0..m : s[a + k] <= s[a + m]}
    <2> DEFINE G == {m \in Nat : a + m <= b => s[a + m] \in Nat /\ \A k \in 0..m : s[a + k] <= s[a + m]}
    <2>1. ASSUME NEW n \in Nat, \A m \in 0 .. n - 1 : m \in G PROVE n \in G
        <3>1. CASE n = 0
            <4>1. a + n = a /\ s[a + n] = 0 /\ \A k \in 0..n : a + k = a
                BY <1>8, <3>1
            <4>2. s[a + n] \in Nat /\ \A k \in 0..n : s[a + k] <= s[a + n]
                BY <4>1
            <4> QED
                BY <4>2
        <3>2. CASE n # 0 /\ a + n <= b
            <4>1. n - 1 \in 0 .. n - 1 /\ a + (n - 1) <= b /\ a + (n - 1) = (a + n) - 1 /\ a + n \in a + 1 .. b
                BY <3>2
            <4> DEFINE r == s[a + (n - 1)]
                       t == s[a + n]
                       dg == Digit(text[a + n])
            <4>2. r \in Nat /\ \A k \in 0 .. n - 1 : s[a + k] \in Nat /\ s[a + k] <= r
                <5>1. n - 1 \in G /\ \A k \in 0 .. n - 1 : k \in G /\ a + k <= b
                    <6> HIDE DEF G
                    <6>1. \A k \in 0 .. n - 1 : a + k <= b
                        BY <3>2
                    <6> QED
                        BY <2>1, <4>1, <6>1
                <5> QED
                    BY <4>1, <5>1
            <4>3. t = r * 10 + dg /\ dg \in Nat
                <5>1. dg \in 0..9
                    BY <4>1, DigitFacts
                <5>2. t = s[(a + n) - 1] * 10 + dg
                    BY <1>8, <4>1
                <5> HIDE DEF dg
                <5> QED
                    BY <4>1, <5>1, <5>2
            <4> HIDE DEF dg, r, t
            <4>4. t \in Nat /\ r <= t
                BY <4>2, <4>3
            <4>5. ASSUME NEW k \in 0..n PROVE s[a + k] <= t
                <5>1. CASE k = n
                    BY <4>4, <5>1 DEF t
                <5>2. CASE k # n
                    <6>1. k \in 0 .. n - 1
                        BY <5>2
                    <6> QED
                        BY <4>2, <4>4, <6>1
                <5> QED
                    BY <5>1, <5>2
            <4> QED
                BY <4>4, <4>5 DEF t
        <3> QED
            BY <3>1, <3>2
    <2> HIDE DEF G
    <2> QED
        BY <2>1, StrongInduction DEF G
<1>10. ASSUME NEW x \in a..b PROVE s[x] \in Nat /\ s[x] <= s[b]
    <2>1. b - a \in Nat /\ x - a \in 0 .. b - a /\ x - a \in Nat /\ a + (x - a) = x /\ a + (b - a) = b /\ a + (x - a) <= b
          /\ a + (b - a) <= b
        OBVIOUS
    <2>2. s[a + (x - a)] \in Nat
        BY <1>9, <2>1
    <2>3. \A k \in 0 .. b - a : s[a + k] <= s[a + (b - a)]
        BY <1>9, <2>1
    <2>4. s[a + (x - a)] <= s[a + (b - a)]
        BY <2>1, <2>3
    <2> QED
        BY <2>1, <2>2, <2>4
<1> QED
    BY <1>7, <1>8, <1>10 DEF Number

\* The text without its NULs, by its prefixes.
LEMMA DroppingFacts ==
    ASSUME NEW S, NEW text \in Seq(S)
    PROVE  LET s == Dropping(text)
           IN  /\ s[0] = <<>>
               /\ \A n \in 1 .. Len(text) :
                      s[n] = IF text[n] = NUL THEN s[n - 1] ELSE Append(s[n - 1], text[n])
               /\ \A n \in 0 .. Len(text) : s[n] \in Seq(S)
PROOF
<1> DEFINE b == Len(text)
           C(x) == x \in 1..b /\ text[x] # NUL
           step == [p \in Nat \X Seq(S) |-> IF C(p[1]) THEN Append(p[2], text[p[1]]) ELSE p[2]]
           Law(f) == f = [n \in 0..b |-> IF n = 0 THEN <<>>
                                         ELSE IF text[n] = NUL THEN f[n - 1] ELSE Append(f[n - 1], text[n])]
           s == CHOOSE f : Law(f)
<1>1. b \in Nat /\ <<>> \in Seq(S) /\ 0 \in Nat
    OBVIOUS
<1>2. step \in [Nat \X Seq(S) -> Seq(S)]
    <2>1. \A x \in 1..b : text[x] \in S
        OBVIOUS
    <2> QED
        BY <2>1
<1>3. PICK f \in [0..b -> Seq(S)] : \A x \in 0..b : f[x] = IF x = 0 THEN <<>> ELSE step[<<x, f[x - 1]>>]
    <2> DEFINE Q == Seq(S)
               e == <<>>
               a == 0
    <2>1. e \in Q /\ step \in [Nat \X Q -> Q] /\ a \in Nat /\ b \in Nat
        BY <1>1, <1>2
    <2> HIDE DEF step, b, Q, e, a
    <2>2. \E f \in [a..b -> Q] : IterationLaw(f, a, b, e, step)
        BY <2>1, Iteration
    <2> QED
        BY <2>2 DEF Q, e, a, IterationLaw
<1>4. ASSUME NEW x \in 1..b PROVE f[x] = IF text[x] = NUL THEN f[x - 1] ELSE Append(f[x - 1], text[x])
    <2>1. x \in Nat /\ x - 1 \in 0..b /\ x # 0 /\ x \in 0..b
        BY <1>1
    <2>2. f[x - 1] \in Seq(S)
        BY <1>3, <2>1
    <2>3. step[<<x, f[x - 1]>>] = IF C(x) THEN Append(f[x - 1], text[x]) ELSE f[x - 1]
        BY <2>1, <2>2
    <2> HIDE DEF step
    <2> QED
        BY <1>3, <2>1, <2>3
<1>5. Law(f)
    <2>1. \A x \in 0..b : x # 0 => x \in 1..b
        OBVIOUS
    <2> HIDE DEF step, b
    <2> QED
        BY <1>3, <1>4, <2>1
<1>6. Law(s)
    BY <1>5
<1>7. Dropping(text) = s
    BY DEF Dropping
<1> HIDE DEF s
<1>8. s[0] = <<>> /\ \A x \in 1..b : s[x] = IF text[x] = NUL THEN s[x - 1] ELSE Append(s[x - 1], text[x])
    <2> HIDE DEF b
    <2>1. \A x \in 0..b : s[x] = IF x = 0 THEN <<>>
                                 ELSE IF text[x] = NUL THEN s[x - 1] ELSE Append(s[x - 1], text[x])
        BY <1>6
    <2>2. 0 \in 0..b /\ \A x \in 1..b : x \in 0..b /\ x # 0
        BY <1>1
    <2> QED
        BY <2>1, <2>2
<1>9. \A n \in Nat : n \in {m \in Nat : m <= b => s[m] \in Seq(S)}
    <2> DEFINE G == {m \in Nat : m <= b => s[m] \in Seq(S)}
    <2>1. ASSUME NEW n \in Nat, \A m \in 0 .. n - 1 : m \in G PROVE n \in G
        <3>1. CASE n = 0
            BY <1>1, <1>8, <3>1
        <3>2. CASE n # 0 /\ n <= b
            <4>1. n - 1 \in 0 .. n - 1 /\ n - 1 \in G /\ n - 1 <= b /\ n \in 1..b
                BY <1>1, <2>1, <3>2
            <4>2. s[n - 1] \in Seq(S) /\ text[n] \in S
                BY <4>1
            <4>3. s[n] = IF text[n] = NUL THEN s[n - 1] ELSE Append(s[n - 1], text[n])
                BY <1>8, <4>1
            <4>4. Append(s[n - 1], text[n]) \in Seq(S)
                BY <4>2
            <4> QED
                BY <4>2, <4>3, <4>4
        <3> QED
            BY <3>1, <3>2
    <2> HIDE DEF G
    <2> QED
        BY <2>1, StrongInduction DEF G
<1> QED
    BY <1>1, <1>7, <1>8, <1>9

-----------------------------------------------------------------------------
(* The parser.  A directive ends its parts at i, j, k, l; by the mode, Parsed*)
(* says what _vsnprintf has found out when it is at offset o of the text.  *)

Rest(d, m) == SubSeq(d.args, m + 1, Len(d.args))

WidthFlags(d) == d.flags \cup (IF d.width < 0 THEN {"-"} ELSE {})
PrecisionFlags(d, j, k) == WidthFlags(d) \cup (IF j < k THEN {"prec"} ELSE {})
LengthFlags(len) ==
    CASE len = <<"l", "l">> -> {"long", "longlong"}
      [] len = <<"h", "h">> -> {"short", "char"}
      [] len = <<"h">> -> {"short"}
      [] len = <<"j">> -> {"longlong"}
      [] len \in {<<"l">>, <<"t">>, <<"z">>} -> {"long"}
      [] OTHER -> {}
ReadPrecision(d) == IF d.prec < 0 THEN 0 ELSE d.prec

AtFlags(d, i, o, f, w, p, v) ==
    /\ o \in 2 .. i + 1
    /\ f = {d.text[x] : x \in 2 .. o - 1}
    /\ w = 0 /\ p = 0 /\ v = Rest(d, 0)

AtWidth(d, i, j, o, f, w, p, v) ==
    /\ o \in i + 2 .. j + 1 /\ _is_digit(d.text[o - 1])
    /\ f = d.flags
    /\ w = Spelled(d.text, i, j)[o - 1] /\ p = 0 /\ v = Rest(d, 0)

AfterWidth(d, i, j, o, f, w, p, v) ==
    /\ o = j + 1
    /\ f = WidthFlags(d)
    /\ w = StandardWidth(d) /\ p = 0 /\ v = Rest(d, Stars(d.text, i, j))

AtDot(d, i, j, k, o, f, w, p, v) ==
    /\ o = j + 2 /\ j < k
    /\ f = PrecisionFlags(d, j, k)
    /\ w = StandardWidth(d) /\ p = 0 /\ v = Rest(d, Stars(d.text, i, j))

AtPrecision(d, i, j, k, o, f, w, p, v) ==
    /\ o \in j + 3 .. k + 1 /\ _is_digit(d.text[o - 1])
    /\ f = PrecisionFlags(d, j, k)
    /\ w = StandardWidth(d) /\ p = Spelled(d.text, j + 1, k)[o - 1]
    /\ v = Rest(d, Stars(d.text, i, j))

AfterPrecision(d, i, j, k, o, f, w, p, v) ==
    /\ o = k + 1
    /\ f = PrecisionFlags(d, j, k)
    /\ w = StandardWidth(d) /\ p = ReadPrecision(d)
    /\ v = Rest(d, Stars(d.text, i, j) + Stars(d.text, j, k))

AfterLength(d, i, j, k, l, o, f, w, p, v) ==
    /\ o = l + 1
    /\ f = PrecisionFlags(d, j, k) \cup LengthFlags(d.len)
    /\ w = StandardWidth(d) /\ p = ReadPrecision(d)
    /\ v = Rest(d, Stars(d.text, i, j) + Stars(d.text, j, k))

Parsed(d, i, j, k, l, m, o, f, w, p, v) ==
    /\ m = "flags" => AtFlags(d, i, o, f, w, p, v)
    /\ m = "width" => AtWidth(d, i, j, o, f, w, p, v)
    /\ m = "star" => AfterWidth(d, i, j, o, f, w, p, v)
    /\ m = "dot" => AtDot(d, i, j, k, o, f, w, p, v)
    /\ m = "precision" => AtPrecision(d, i, j, k, o, f, w, p, v)
    /\ m = "precision_star" => AfterPrecision(d, i, j, k, o, f, w, p, v)
    /\ m = "length" => AfterLength(d, i, j, k, l, o, f, w, p, v)

\* The types of a directive.
Typed(d) ==
    /\ d.text \in Seq(STRING) /\ d.args \in Seq([n : Int, s : Seq(STRING)])
    /\ d.spec = "c" => Len(d.value.s) = 1

\* The characters of the parts of a directive are different ones.
LEMMA Classes ==
    ASSUME NEW c
    PROVE  /\ c \in Flags => c \notin {"*", ".", "%", NUL} \cup Lengths \cup Takes
           /\ c \in Decimal => c \notin {"*", ".", "%", NUL} \cup Lengths \cup Takes
           /\ c \in Lengths => c \notin {"*", ".", "%", NUL} \cup Takes
           /\ c \in Takes => c \notin {"*", ".", "%", NUL}
           /\ c \in {"*", ".", "%"} => c # NUL
PROOF
<1>1. Decimal = {"0", "1", "2", "3", "4", "5", "6", "7", "8", "9"}
    BY DEF Decimal, Lower
<1>2. SPACE \notin {"*", ".", "%", NUL} \cup Lengths \cup Takes
    BY Zenon DEF SPACE, NUL, Lengths, Takes
<1>3. c \in Flags => c \notin {"*", ".", "%", NUL} \cup Lengths \cup Takes
    BY <1>2 DEF Flags, NUL, Lengths, Takes
<1>4. c \in Decimal => c \notin {"*", ".", "%", NUL} \cup Lengths \cup Takes
    BY <1>1 DEF NUL, Lengths, Takes
<1> QED
    BY <1>3, <1>4 DEF NUL, Lengths, Takes

\* The arguments that are left.
LEMMA RestFacts ==
    ASSUME NEW S, NEW args \in Seq(S), NEW m \in Nat
    PROVE  LET rest == SubSeq(args, m + 1, Len(args))
           IN  /\ rest \in Seq(S)
               /\ m < Len(args) => /\ Head(rest) = args[m + 1]
                                   /\ Tail(rest) = SubSeq(args, (m + 1) + 1, Len(args))
               /\ m = Len(args) => rest = <<>>
               /\ m = 0 => rest = args
PROOF
<1> DEFINE L == Len(args)
           rest == SubSeq(args, m + 1, L)
           next == SubSeq(args, (m + 1) + 1, L)
<1>1. L \in Nat
    OBVIOUS
<1>2. rest \in Seq(S)
    <2>1. \A x \in m + 1 .. L : args[x] \in S
        OBVIOUS
    <2> QED
        BY <2>1, <1>1, SubSeqProperties
<1>3. m < L => Head(rest) = args[m + 1] /\ Tail(rest) = next
    <2> SUFFICES ASSUME m < L PROVE Head(rest) = args[m + 1] /\ Tail(rest) = next
        OBVIOUS
    <2>1. Len(rest) = L - m /\ \A x \in 1 .. L - m : rest[x] = args[m + x]
        BY <1>1
    <2>2. Head(rest) = args[m + 1]
        BY <1>1, <1>2, <2>1
    <2>3. next \in Seq(S) /\ Len(next) = (L - m) - 1 /\ \A x \in 1 .. (L - m) - 1 : next[x] = args[m + x + 1]
        <3>1. \A x \in (m + 1) + 1 .. L : args[x] \in S
            OBVIOUS
        <3> QED
            BY <1>1, <3>1, SubSeqProperties
    <2>4. Tail(rest) \in Seq(S) /\ Len(Tail(rest)) = (L - m) - 1
          /\ \A x \in 1 .. (L - m) - 1 : Tail(rest)[x] = rest[x + 1]
        <3>1. rest # <<>>
            <4>1. L - m > 0 /\ Len(<<>>) = 0
                BY <1>1
            <4> HIDE DEF rest
            <4> QED
                BY <2>1, <4>1
        <3> HIDE DEF rest
        <3> QED
            BY <1>1, <1>2, <2>1, <3>1, HeadTailProperties
    <2>5. \A x \in 1 .. (L - m) - 1 : Tail(rest)[x] = next[x]
        <3> SUFFICES ASSUME NEW x \in 1 .. (L - m) - 1 PROVE Tail(rest)[x] = next[x]
            OBVIOUS
        <3>1. x + 1 \in 1 .. L - m /\ m + (x + 1) = m + x + 1
            BY <1>1
        <3> HIDE DEF rest, next, L
        <3> QED
            BY <2>1, <2>3, <2>4, <3>1
    <2> DEFINE tl == Tail(rest)
    <2> HIDE DEF rest, next, tl, L
    <2>6. tl = next
        BY <2>3, <2>4, <2>5, SeqEqual DEF tl
    <2> QED
        BY <2>2, <2>6 DEF tl
<1>4. m = L => rest = <<>>
    BY <1>1
<1>5. m = 0 => rest = args
    BY <1>1
<1> QED
    BY <1>2, <1>3, <1>4, <1>5

Written(d, i, j, k, l) ==
    /\ Typed(d) /\ {i, j, k, l} \subseteq DOMAIN d.text /\ Parts(d, i, j, k, l)

\* The ends of the parts.
LEMMA WrittenFacts ==
    ASSUME NEW d, NEW i, NEW j, NEW k, NEW l, Written(d, i, j, k, l)
    PROVE  /\ i \in Nat /\ j \in Nat /\ k \in Nat /\ l \in Nat
           /\ 1 <= i /\ i <= j /\ j <= k /\ k <= l /\ Len(d.text) = l + 1
           /\ Len(d.args) \in Nat /\ IntBits \in Nat \ {0}
PROOF
<1>1. d.text \in Seq(STRING) /\ d.args \in Seq([n : Int, s : Seq(STRING)])
    BY DEF Written, Typed
<1>2. {i, j, k, l} \subseteq 1 .. Len(d.text)
    BY <1>1 DEF Written
<1>3. i <= j /\ j <= k /\ k <= l /\ Len(d.text) = l + 1
    BY DEF Written, Parts
<1>4. IntBits \in Nat \ {0}
    BY PrintfAssumption DEF CallAssumption
<1>5. Len(d.text) \in Nat /\ Len(d.args) \in Nat
    BY <1>1
<1> QED
    BY <1>2, <1>3, <1>4, <1>5

\* How a width can be written.
LEMMA WidthCases ==
    ASSUME NEW d, NEW i, NEW j, NEW k, NEW l, Written(d, i, j, k, l)
    PROVE  \/ /\ \A x \in i + 1 .. j : _is_digit(d.text[x])
              /\ i < j => d.text[i + 1] \notin Flags
              /\ d.width = Spelled(d.text, i, j)[j] /\ d.width \in Nat /\ d.width < 2^IntBits
              /\ Stars(d.text, i, j) = 0
           \/ /\ j = i + 1 /\ d.text[j] = "*"
              /\ d.width = Signed(d.args[1].n, IntBits)
              /\ Stars(d.text, i, j) = 1
PROOF
<1>1. WidthPart(d, i, j)
    BY DEF Written, Parts
<1>2. i \in Nat /\ j \in Nat /\ i <= j
    BY WrittenFacts
<1>3. CASE \A x \in i + 1 .. j : _is_digit(d.text[x])
    <2>1. j = i + 1 => d.text[j] # "*"
        <3>1. j = i + 1 => _is_digit(d.text[j])
            BY <1>2, <1>3
        <3> QED
            BY <3>1, Classes DEF _is_digit
    <2>2. /\ i < j => d.text[i + 1] \notin Flags
          /\ d.width = Spelled(d.text, i, j)[j] /\ d.width < 2^IntBits
        BY <1>1, <2>1 DEF WidthPart, Number
    <2>3. Spelled(d.text, i, j)[j] \in Nat
        <3>1. \A x \in i .. j : Spelled(d.text, i, j)[x] \in Nat
            BY <1>2, <1>3, SpelledFacts
        <3> QED
            BY <1>2, <3>1
    <2>4. i < j => d.text[j] # "*"
        <3>1. i < j => _is_digit(d.text[j])
            BY <1>2, <1>3
        <3> QED
            BY <3>1, Classes DEF _is_digit
    <2>5. Stars(d.text, i, j) = 0
        BY <2>4 DEF Stars
    <2> QED
        BY <1>3, <2>2, <2>3, <2>5
<1>4. CASE ~ \A x \in i + 1 .. j : _is_digit(d.text[x])
    <2>1. j = i + 1 /\ d.text[j] = "*" /\ d.width = Signed(d.args[1].n, IntBits)
        BY <1>1, <1>4 DEF WidthPart
    <2>2. i < j
        BY <1>2, <2>1
    <2> QED
        BY <2>1, <2>2 DEF Stars
<1> QED
    BY <1>3, <1>4

\* How a precision can be written.
LEMMA PrecisionCases ==
    ASSUME NEW d, NEW i, NEW j, NEW k, NEW l, Written(d, i, j, k, l)
    PROVE  \/ j = k /\ d.prec = -1 /\ ~d.none /\ Stars(d.text, j, k) = 0
           \/ /\ j < k /\ d.text[j + 1] = "."
              /\ \A x \in j + 2 .. k : _is_digit(d.text[x])
              /\ d.prec = Spelled(d.text, j + 1, k)[k] /\ d.prec \in Nat /\ d.prec < 2^IntBits
              /\ ~d.none /\ Stars(d.text, j, k) = 0
           \/ /\ k = j + 2 /\ d.text[j + 1] = "." /\ d.text[k] = "*"
              /\ LET p == Signed(d.args[Stars(d.text, i, j) + 1].n, IntBits)
                 IN  d.none = (p < 0) /\ d.prec = IF p < 0 THEN -1 ELSE p
              /\ Stars(d.text, j, k) = 1
PROOF
<1>1. PrecisionPart(d, i, j, k)
    BY DEF Written, Parts
<1>2. j \in Nat /\ k \in Nat /\ j <= k
    BY WrittenFacts
<1>3. CASE j = k
    <2>1. ~(j < k) /\ k # j + 2
        BY <1>2, <1>3
    <2>2. d.prec = -1 /\ ~d.none
        BY <1>1, <2>1 DEF PrecisionPart
    <2> QED
        BY <1>3, <2>1, <2>2 DEF Stars
<1>4. CASE j # k /\ \A x \in j + 2 .. k : _is_digit(d.text[x])
    <2>1. j < k
        BY <1>2, <1>4
    <2>2. j + 2 <= k => d.text[k] # "*"
        <3>1. j + 2 <= k => _is_digit(d.text[k])
            BY <1>2, <1>4
        <3> QED
            BY <3>1, Classes DEF _is_digit
    <2>3. k # j + 2 \/ d.text[k] # "*"
        BY <1>2, <2>2
    <2>4. /\ d.text[j + 1] = "."
          /\ d.prec = Spelled(d.text, j + 1, k)[k] /\ d.prec < 2^IntBits /\ ~d.none
        BY <1>1, <1>4, <2>3 DEF PrecisionPart, Number
    <2>5. Spelled(d.text, j + 1, k)[k] \in Nat
        <3> DEFINE a == j + 1
        <3>1. a \in Nat /\ a <= k /\ a + 1 = j + 2
            BY <1>2, <2>1
        <3>2. \A x \in a + 1 .. k : _is_digit(d.text[x])
            BY <1>4, <3>1
        <3> HIDE DEF a
        <3>3. \A x \in a .. k : Spelled(d.text, a, k)[x] \in Nat
            BY <1>2, <3>1, <3>2, SpelledFacts
        <3> QED
            BY <1>2, <3>1, <3>3 DEF a
    <2>6. d.text[k] # "*"
        <3>1. CASE k = j + 1
            BY <2>4, <3>1
        <3>2. CASE k # j + 1
            <4>1. j + 2 <= k
                BY <1>2, <2>1, <3>2
            <4> QED
                BY <2>2, <4>1
        <3> QED
            BY <3>1, <3>2
    <2>7. Stars(d.text, j, k) = 0
        BY <2>6 DEF Stars
    <2> QED
        BY <1>4, <2>1, <2>4, <2>5, <2>7
<1>5. CASE j # k /\ ~ \A x \in j + 2 .. k : _is_digit(d.text[x])
    <2>1. /\ k = j + 2 /\ d.text[j + 1] = "." /\ d.text[k] = "*"
          /\ LET p == Signed(d.args[Stars(d.text, i, j) + 1].n, IntBits)
             IN  d.none = (p < 0) /\ d.prec = IF p < 0 THEN -1 ELSE p
        BY <1>1, <1>5 DEF PrecisionPart
    <2>2. j < k
        BY <1>2, <2>1
    <2>3. Stars(d.text, j, k) = 1
        BY <2>1, <2>2 DEF Stars
    <2> QED
        BY <2>1, <2>3
<1> QED
    BY <1>3, <1>4, <1>5

\* The arguments: the stars take one each, the specifier the last one.
LEMMA ArgsFacts ==
    ASSUME NEW d, NEW i, NEW j, NEW k, NEW l, Written(d, i, j, k, l)
    PROVE  LET s == Stars(d.text, i, j)
               z == s + Stars(d.text, j, k)
           IN  /\ s \in 0..1 /\ z \in 0..2 /\ Stars(d.text, j, k) \in 0..1
               /\ d.spec \in Takes \cup {"%"} /\ d.spec = d.text[l + 1]
               /\ d.spec \in Takes => Len(d.args) = z + 1 /\ d.args[z + 1] = d.value
               /\ d.spec \notin Takes => Len(d.args) = z
               /\ \A x \in 1 .. Len(d.args) : d.args[x].n \in Int /\ d.args[x].s \in Seq(STRING)
PROOF
<1> DEFINE s == Stars(d.text, i, j)
           u == Stars(d.text, j, k)
<1>1. s \in 0..1 /\ u \in 0..1
    BY DEF Stars
<1>2. d.spec \in Takes \cup {"%"} /\ d.spec = d.text[l + 1]
      /\ IF d.spec \in Takes THEN Len(d.args) = s + u + 1 /\ d.args[s + u + 1] = d.value
         ELSE Len(d.args) = s + u
    BY DEF Written, Parts
<1>3. \A x \in 1 .. Len(d.args) : d.args[x].n \in Int /\ d.args[x].s \in Seq(STRING)
    <2> DEFINE R == [n : Int, s : Seq(STRING)]
               a == d.args
    <2>1. a \in Seq(R)
        BY DEF Written, Typed
    <2>2. \A r \in R : r.n \in Int /\ r.s \in Seq(STRING)
        OBVIOUS
    <2> HIDE DEF R, a
    <2>3. \A x \in 1 .. Len(a) : a[x] \in R
        BY <2>1
    <2>4. \A x \in 1 .. Len(a) : a[x].n \in Int /\ a[x].s \in Seq(STRING)
        BY <2>2, <2>3
    <2> QED
        BY <2>4 DEF a
<1> HIDE DEF s, u
<1>4. s + u \in 0..2
    BY <1>1
<1> QED
    BY <1>1, <1>2, <1>3, <1>4 DEF s, u

\* What describes a directive has its types, and fits an int.
LEMMA DescribedFacts ==
    ASSUME NEW d, NEW i, NEW j, NEW k, NEW l, Written(d, i, j, k, l)
    PROVE  /\ Described(d)
           /\ StandardWidth(d) \in 0 .. 2^IntBits - 1 /\ ReadPrecision(d) \in 0 .. 2^IntBits - 1
           /\ d.flags \subseteq Flags
PROOF
<1> DEFINE T == 2^IntBits
           s == Stars(d.text, i, j)
           z == s + Stars(d.text, j, k)
<1>1. T \in Nat \ {0} /\ IntBits \in Nat \ {0}
    BY WrittenFacts, PowerOfTwo
<1>2. /\ s \in 0..1 /\ z \in 0..2 /\ Stars(d.text, j, k) \in 0..1 /\ d.spec \in Takes \cup {"%"}
      /\ d.spec \in Takes => Len(d.args) = z + 1 /\ d.args[z + 1] = d.value
      /\ d.spec \notin Takes => Len(d.args) = z
      /\ \A x \in 1 .. Len(d.args) : d.args[x].n \in Int /\ d.args[x].s \in Seq(STRING)
    BY ArgsFacts
<1>4. ASSUME NEW v \in Int PROVE Signed(v, IntBits) \in Int /\ Signed(v, IntBits) < T /\ 0 - Signed(v, IntBits) < T
    BY <1>1, SignedFacts
<1>5. d.width \in Int /\ d.width < T /\ 0 - d.width < T
    <2>1. CASE d.width \in Nat /\ d.width < T
        BY <1>1, <2>1
    <2>2. CASE d.width = Signed(d.args[1].n, IntBits) /\ s = 1
        <3>1. 1 \in 1 .. Len(d.args)
            <4> HIDE DEF s
            <4> QED
                BY <1>2, <2>2
        <3>2. d.args[1].n \in Int
            BY <1>2, <3>1
        <3> QED
            BY <1>4, <2>2, <3>2
    <2> QED
        BY <2>1, <2>2, WidthCases
<1>6. d.prec \in Int /\ d.prec >= -1 /\ d.prec < T
    <2>1. CASE d.prec = -1
        BY <1>1, <2>1
    <2>2. CASE d.prec \in Nat /\ d.prec < T
        BY <1>1, <2>2
    <2>3. CASE d.prec = (IF Signed(d.args[s + 1].n, IntBits) < 0 THEN -1
                         ELSE Signed(d.args[s + 1].n, IntBits)) /\ Stars(d.text, j, k) = 1
        <3>1. s + 1 \in 1 .. Len(d.args)
            <4> HIDE DEF s
            <4> QED
                BY <1>2, <2>3
        <3>2. d.args[s + 1].n \in Int
            BY <1>2, <3>1
        <3> DEFINE p == Signed(d.args[s + 1].n, IntBits)
        <3>3. p \in Int /\ p < T
            BY <1>4, <3>2
        <3> HIDE DEF p, T
        <3> QED
            BY <1>1, <2>3, <3>3 DEF p
    <2> QED
        BY <2>1, <2>2, <2>3, PrecisionCases
<1> HIDE DEF T
<1>7. StandardWidth(d) \in 0 .. T - 1
    BY <1>1, <1>5 DEF StandardWidth
<1>8. ReadPrecision(d) \in 0 .. T - 1
    BY <1>1, <1>6 DEF ReadPrecision
<1>9. d.flags \subseteq Flags /\ LengthPart(d, k, l) /\ (d.spec = "c" => Len(d.value.s) = 1)
    BY DEF Written, Parts, Typed
<1>10. d.len \in {<<>>, <<"h">>, <<"h", "h">>, <<"l">>, <<"l", "l">>, <<"j">>, <<"t">>, <<"z">>}
    BY <1>9 DEF LengthPart, Lengths
<1>11. d.spec \in Takes => d.value.n \in Int /\ d.value.s \in Seq(STRING)
    <2> SUFFICES ASSUME d.spec \in Takes PROVE d.value.n \in Int /\ d.value.s \in Seq(STRING)
        OBVIOUS
    <2>1. d.args[z + 1] = d.value /\ z + 1 \in 1 .. Len(d.args)
        <3> HIDE DEF z
        <3> QED
            BY <1>2
    <2> QED
        BY <1>2, <2>1
<1> QED
    BY <1>2, <1>5, <1>6, <1>7, <1>8, <1>9, <1>10, <1>11 DEF Described, T

\* The first character behind a part.
LEMMA Behind ==
    ASSUME NEW d, NEW i, NEW j, NEW k, NEW l, Written(d, i, j, k, l)
    PROVE  /\ d.text[1] = "%"
           /\ \A x \in 2 .. i : d.text[x] \in Flags /\ d.text[x] \in d.flags
           /\ j < k => d.text[j + 1] = "."
           /\ k < l => d.text[k + 1] \in Lengths
           /\ d.text[l + 1] \in Takes \cup {"%"}
PROOF
<1>1. /\ d.text[1] = "%" /\ d.flags \subseteq Flags /\ d.flags = {d.text[x] : x \in 2 .. i}
      /\ LengthPart(d, k, l)
    BY DEF Written, Parts
<1>2. j \in Nat /\ k \in Nat /\ l \in Nat /\ j <= k /\ k <= l
    BY WrittenFacts
<1>3. j < k => d.text[j + 1] = "."
    BY <1>2, PrecisionCases
<1>4. k < l => d.text[k + 1] \in Lengths
    <2>1. CASE l = k + 1 /\ d.text[l] \in Lengths
        BY <2>1
    <2>2. CASE l = k + 2 /\ d.text[l] \in {"l", "h"} /\ d.text[k + 1] = d.text[l]
        BY <2>2 DEF Lengths
    <2> QED
        BY <1>1, <1>2, <2>1, <2>2 DEF LengthPart
<1>5. d.text[l + 1] \in Takes \cup {"%"}
    BY ArgsFacts
<1> QED
    BY <1>1, <1>3, <1>4, <1>5

-----------------------------------------------------------------------------
(* Where a part of a directive can end. *)

\* Whatever can follow a width is no digit and no star.
LEMMA PastWidth ==
    ASSUME NEW d, NEW i, NEW j, NEW k, NEW l, Written(d, i, j, k, l),
           NEW m \in {"flags", "width", "star"}, NEW o, NEW f, NEW w, NEW p, NEW v,
           Parsed(d, i, j, k, l, m, o, f, w, p, v),
           m = "flags" => d.text[o] \notin Flags \cup Decimal \cup {"*"},
           m = "width" => d.text[o] \notin Decimal
    PROVE  o = j + 1
PROOF
<1>1. i \in Nat /\ j \in Nat /\ i <= j
    BY WrittenFacts
<1>2. CASE m = "flags"
    <2>1. o \in 2 .. i + 1
        BY <1>2 DEF Parsed, AtFlags
    <2>2. o \notin 2 .. i
        BY <1>2, Behind
    <2>3. o = i + 1
        BY <1>1, <2>1, <2>2
    <2>4. ~(i < j)
        <3>1. i < j => i + 1 \in i + 1 .. j
            BY <1>1
        <3> QED
            BY <1>2, <2>3, <3>1, WidthCases DEF _is_digit
    <2> QED
        BY <1>1, <2>3, <2>4
<1>3. CASE m = "width"
    <2>1. o \in i + 2 .. j + 1
        BY <1>3 DEF Parsed, AtWidth
    <2>2. o # j + 1 => o \in i + 1 .. j /\ j # i + 1
        BY <1>1, <2>1
    <2> QED
        BY <1>3, <2>2, WidthCases DEF _is_digit
<1>4. CASE m = "star"
    BY <1>4 DEF Parsed, AfterWidth
<1> QED
    BY <1>2, <1>3, <1>4

\* Whatever can follow a precision is no digit, no dot and no star.
LEMMA PastPrecision ==
    ASSUME NEW d, NEW i, NEW j, NEW k, NEW l, Written(d, i, j, k, l),
           NEW m \in {"flags", "width", "star", "dot", "precision", "precision_star"},
           NEW o, NEW f, NEW w, NEW p, NEW v,
           Parsed(d, i, j, k, l, m, o, f, w, p, v),
           m = "flags" => d.text[o] \notin Flags \cup Decimal \cup {"*"},
           m = "width" => d.text[o] \notin Decimal,
           m \in {"flags", "width", "star"} => d.text[o] # ".",
           m = "dot" => d.text[o] \notin Decimal \cup {"*"},
           m = "precision" => d.text[o] \notin Decimal
    PROVE  o = k + 1
PROOF
<1>1. j \in Nat /\ k \in Nat /\ j <= k
    BY WrittenFacts
<1>2. CASE m \in {"flags", "width", "star"}
    <2>1. o = j + 1
        BY <1>2, PastWidth
    <2>2. ~(j < k)
        BY <1>2, <2>1, Behind
    <2> QED
        BY <1>1, <2>1, <2>2
<1>3. CASE m = "dot"
    <2>1. o = j + 2 /\ j < k
        BY <1>3 DEF Parsed, AtDot
    <2>2. k # j + 1 => j + 2 \in j + 2 .. k
        BY <1>1, <2>1
    <2>3. k = j + 1
        BY <1>1, <1>3, <2>1, <2>2, PrecisionCases DEF _is_digit
    <2> QED
        BY <1>1, <2>1, <2>3
<1>4. CASE m = "precision"
    <2>1. o \in j + 3 .. k + 1
        BY <1>4 DEF Parsed, AtPrecision
    <2>2. o # k + 1 => o \in j + 2 .. k /\ k # j + 2 /\ j # k
        BY <1>1, <2>1
    <2> QED
        BY <1>4, <2>2, PrecisionCases DEF _is_digit
<1>5. CASE m = "precision_star"
    BY <1>5 DEF Parsed, AfterPrecision
<1> QED
    BY <1>2, <1>3, <1>4, <1>5

\* A dot, a length or a specifier is met behind the width.
LEMMA WidthEnd ==
    ASSUME NEW d, NEW i, NEW j, NEW k, NEW l, Written(d, i, j, k, l),
           NEW m \in {"flags", "width", "star"}, NEW o, NEW f, NEW w, NEW p, NEW v,
           Parsed(d, i, j, k, l, m, o, f, w, p, v), o = j + 1
    PROVE  AfterWidth(d, i, j, o, f, w, p, v)
PROOF
<1>1. i \in Nat /\ j \in Nat /\ i <= j
    BY WrittenFacts
<1>2. CASE m = "flags"
    <2>1. /\ o \in 2 .. i + 1 /\ f = {d.text[x] : x \in 2 .. o - 1}
          /\ w = 0 /\ p = 0 /\ v = Rest(d, 0)
        BY <1>2 DEF Parsed, AtFlags
    <2>2. i = j /\ o - 1 = i
        BY <1>1, <2>1
    <2>3. f = d.flags
        BY <2>1, <2>2 DEF Written, Parts
    <2>4. Stars(d.text, i, j) = 0 /\ d.width = 0
        <3>1. Stars(d.text, i, j) = 0 /\ d.width = Spelled(d.text, i, j)[j] /\ \A x \in i + 1 .. j : _is_digit(d.text[x])
            BY <1>1, <2>2, WidthCases
        <3>2. Spelled(d.text, i, j)[i] = 0
            BY <1>1, <3>1, SpelledFacts
        <3> QED
            BY <2>2, <3>1, <3>2
    <2>5. WidthFlags(d) = d.flags /\ StandardWidth(d) = 0
        BY <2>4 DEF WidthFlags, StandardWidth
    <2> QED
        BY <2>1, <2>3, <2>4, <2>5 DEF AfterWidth
<1>3. CASE m = "width"
    <2>1. /\ o \in i + 2 .. j + 1 /\ f = d.flags /\ _is_digit(d.text[o - 1])
          /\ w = Spelled(d.text, i, j)[o - 1] /\ p = 0 /\ v = Rest(d, 0)
        BY <1>3 DEF Parsed, AtWidth
    <2>2. o - 1 = j
        BY <1>1
    <2>3. d.text[j] # "*"
        BY <2>1, <2>2, Classes DEF _is_digit
    <2>4. Stars(d.text, i, j) = 0 /\ d.width = w /\ d.width \in Nat
        BY <2>1, <2>2, <2>3, WidthCases
    <2>5. ~(d.width < 0)
        BY <2>4
    <2>6. WidthFlags(d) = d.flags /\ StandardWidth(d) = w
        BY <2>4, <2>5 DEF WidthFlags, StandardWidth
    <2> QED
        BY <2>1, <2>4, <2>6 DEF AfterWidth
<1>4. CASE m = "star"
    BY <1>4 DEF Parsed
<1> QED
    BY <1>2, <1>3, <1>4

\* A length or a specifier is met behind the precision.
LEMMA PrecisionEnd ==
    ASSUME NEW d, NEW i, NEW j, NEW k, NEW l, Written(d, i, j, k, l),
           NEW m \in {"flags", "width", "star", "dot", "precision", "precision_star"},
           NEW o, NEW f, NEW w, NEW p, NEW v,
           Parsed(d, i, j, k, l, m, o, f, w, p, v), o = k + 1
    PROVE  AfterPrecision(d, i, j, k, o, f, w, p, v)
PROOF
<1>1. i \in Nat /\ j \in Nat /\ k \in Nat /\ i <= j /\ j <= k
    BY WrittenFacts
<1>2. Stars(d.text, i, j) \in Nat
    BY ArgsFacts
<1>3. CASE m \in {"flags", "width", "star"}
    <2>1. o <= j + 1
        <3>1. CASE m = "flags"
            BY <1>1, <3>1 DEF Parsed, AtFlags
        <3>2. CASE m = "width"
            BY <1>1, <3>2 DEF Parsed, AtWidth
        <3>3. CASE m = "star"
            BY <1>1, <3>3 DEF Parsed, AfterWidth
        <3> QED
            BY <1>3, <3>1, <3>2, <3>3
    <2>2. j = k /\ o = j + 1
        BY <1>1, <2>1
    <2>3. AfterWidth(d, i, j, o, f, w, p, v)
        BY <1>3, <2>2, WidthEnd
    <2>4. d.prec = -1 /\ Stars(d.text, j, k) = 0
        BY <1>1, <2>2, PrecisionCases
    <2>5. ReadPrecision(d) = 0 /\ PrecisionFlags(d, j, k) = WidthFlags(d)
        BY <1>1, <2>2, <2>4 DEF ReadPrecision, PrecisionFlags
    <2>6. Stars(d.text, i, j) + Stars(d.text, j, k) = Stars(d.text, i, j)
        BY <1>2, <2>4
    <2> QED
        BY <2>3, <2>5, <2>6 DEF AfterWidth, AfterPrecision
<1>4. CASE m = "dot"
    <2>1. /\ o = j + 2 /\ j < k /\ f = PrecisionFlags(d, j, k)
          /\ w = StandardWidth(d) /\ p = 0 /\ v = Rest(d, Stars(d.text, i, j))
        BY <1>4 DEF Parsed, AtDot
    <2>2. k = j + 1
        BY <1>1, <2>1
    <2>3. d.prec = Spelled(d.text, j + 1, k)[k] /\ Stars(d.text, j, k) = 0
        BY <1>1, <2>2, PrecisionCases
    <2>4. Spelled(d.text, k, k)[k] = 0
        <3>1. \A x \in k + 1 .. k : _is_digit(d.text[x])
            BY <1>1
        <3>2. k <= k /\ k \in Nat
            BY <1>1
        <3> DEFINE t == d.text
        <3> HIDE DEF t
        <3>3. \A x \in k + 1 .. k : _is_digit(t[x])
            BY <3>1 DEF t
        <3>4. Spelled(t, k, k)[k] = 0
            BY <3>2, <3>3, SpelledFacts
        <3> QED
            BY <3>4 DEF t
    <2>5. ReadPrecision(d) = 0
        BY <2>2, <2>3, <2>4 DEF ReadPrecision
    <2>6. Stars(d.text, i, j) + Stars(d.text, j, k) = Stars(d.text, i, j)
        BY <1>2, <2>3
    <2> QED
        BY <2>1, <2>5, <2>6 DEF AfterPrecision
<1>5. CASE m = "precision"
    <2>1. /\ o \in j + 3 .. k + 1 /\ f = PrecisionFlags(d, j, k) /\ _is_digit(d.text[o - 1])
          /\ w = StandardWidth(d) /\ p = Spelled(d.text, j + 1, k)[o - 1]
          /\ v = Rest(d, Stars(d.text, i, j))
        BY <1>5 DEF Parsed, AtPrecision
    <2>2. o - 1 = k /\ j # k
        BY <1>1, <2>1
    <2>3. d.text[k] # "*"
        BY <2>1, <2>2, Classes DEF _is_digit
    <2>4. d.prec = p /\ d.prec \in Nat /\ Stars(d.text, j, k) = 0
        BY <2>1, <2>2, <2>3, PrecisionCases
    <2>5. ReadPrecision(d) = p
        BY <2>4 DEF ReadPrecision
    <2>6. Stars(d.text, i, j) + Stars(d.text, j, k) = Stars(d.text, i, j)
        BY <1>2, <2>4
    <2> QED
        BY <2>1, <2>5, <2>6 DEF AfterPrecision
<1>6. CASE m = "precision_star"
    BY <1>6 DEF Parsed
<1> QED
    BY <1>3, <1>4, <1>5, <1>6

\* A specifier is met behind the length.
LEMMA LengthEnd ==
    ASSUME NEW d, NEW i, NEW j, NEW k, NEW l, Written(d, i, j, k, l),
           NEW m \in DOMAIN Accepts, NEW o, NEW f, NEW w, NEW p, NEW v,
           Parsed(d, i, j, k, l, m, o, f, w, p, v), d.text[o] \notin Accepts[m]
    PROVE  AfterLength(d, i, j, k, l, o, f, w, p, v)
PROOF
<1>1. k \in Nat /\ l \in Nat /\ k <= l
    BY WrittenFacts
<1>2. m \in {"flags", "width", "star", "dot", "precision", "precision_star", "length"}
    BY DEF Accepts
<1>3. CASE m = "length"
    BY <1>3 DEF Parsed
<1>4. CASE m # "length"
    <2> DEFINE c == d.text[o]
    <2>0. /\ m = "flags" => c \notin Flags \cup Decimal \cup {"*", "."} \cup Lengths
          /\ m = "width" => c \notin Decimal \cup {"."} \cup Lengths
          /\ m = "star" => c \notin {"."} \cup Lengths
          /\ m = "dot" => c \notin Decimal \cup {"*"} \cup Lengths
          /\ m = "precision" => c \notin Decimal \cup Lengths
          /\ m = "precision_star" => c \notin Lengths
        BY DEF Accepts
    <2> HIDE DEF c
    <2>1. /\ m = "flags" => c \notin Flags \cup Decimal \cup {"*"}
          /\ m = "width" => c \notin Decimal
          /\ m \in {"flags", "width", "star"} => c # "."
          /\ m = "dot" => c \notin Decimal \cup {"*"}
          /\ m = "precision" => c \notin Decimal
          /\ c \notin Lengths
        BY <1>2, <1>4, <2>0
    <2>2. o = k + 1
        BY <1>2, <1>4, <2>1, PastPrecision DEF c
    <2>3. AfterPrecision(d, i, j, k, o, f, w, p, v)
        BY <1>2, <1>4, <2>2, PrecisionEnd
    <2>4. ~(k < l)
        BY <2>1, <2>2, Behind DEF c
    <2>5. k = l
        BY <1>1, <2>4
    <2>6. d.len = <<>>
        <3>1. LengthPart(d, k, l)
            BY DEF Written, Parts
        <3> QED
            BY <1>1, <2>5, <3>1 DEF LengthPart
    <2>7. LengthFlags(d.len) = {}
        BY <2>6 DEF LengthFlags
    <2>8. PrecisionFlags(d, j, k) \cup LengthFlags(d.len) = PrecisionFlags(d, j, k)
        BY <2>7
    <2> QED
        BY <2>2, <2>3, <2>5, <2>8 DEF AfterPrecision, AfterLength
<1> QED
    BY <1>3, <1>4

-----------------------------------------------------------------------------
(* One step of the parser within a directive. *)

\* A flag is read.
LEMMA FlagStep ==
    ASSUME NEW d, NEW i, NEW j, NEW k, NEW l, Written(d, i, j, k, l),
           NEW o, NEW f, NEW w, NEW p, NEW v,
           Parsed(d, i, j, k, l, "flags", o, f, w, p, v), d.text[o] \in Flags
    PROVE  Parsed(d, i, j, k, l, "flags", o + 1, f \cup {d.text[o]}, w, p, v)
PROOF
<1>1. i \in Nat /\ j \in Nat /\ k \in Nat /\ l \in Nat /\ i <= j /\ j <= k /\ k <= l
    BY WrittenFacts
<1>2. /\ o \in 2 .. i + 1 /\ f = {d.text[x] : x \in 2 .. o - 1}
      /\ w = 0 /\ p = 0 /\ v = Rest(d, 0)
    BY DEF Parsed, AtFlags
<1>3. o # i + 1
    <2> SUFFICES ASSUME o = i + 1 PROVE FALSE
        OBVIOUS
    <2>1. i < j => i + 1 \in i + 1 .. j
        BY <1>1
    <2>2. ~(i < j)
        BY <2>1, WidthCases, Classes
    <2>3. o = j + 1
        BY <1>1, <2>2
    <2>4. ~(j < k)
        BY <2>3, Behind, Classes
    <2>5. ~(k < l) /\ o = k + 1
        BY <1>1, <2>3, <2>4, Behind, Classes
    <2>6. o = l + 1
        BY <1>1, <2>5
    <2> QED
        BY <2>6, Behind, Classes
<1>4. o + 1 \in 2 .. i + 1 /\ (o + 1) - 1 = o /\ 2 .. o = (2 .. o - 1) \cup {o}
    BY <1>1, <1>2, <1>3
<1>5. f \cup {d.text[o]} = {d.text[x] : x \in 2 .. (o + 1) - 1}
    BY <1>2, <1>4
<1>6. AtFlags(d, i, o + 1, f \cup {d.text[o]}, w, p, v)
    BY <1>2, <1>4, <1>5 DEF AtFlags
<1> QED
    BY <1>6 DEF Parsed

\* _atoi does not wrap on the way to a number that fits.
LEMMA AtoiFacts ==
    ASSUME NEW text, NEW a \in Nat, NEW b \in Nat, NEW x \in a + 1 .. b,
           \A y \in a + 1 .. b : _is_digit(text[y]),
           Number(text, a, b) < 2^IntBits, IntBits \in Nat \ {0}
    PROVE  _atoi(Spelled(text, a, b)[x - 1], text[x]) = Spelled(text, a, b)[x]
PROOF
<1> DEFINE s == Spelled(text, a, b)
           T == 2^IntBits
           N == Number(text, a, b)
<1>0. a <= b /\ x \in a .. b
    OBVIOUS
<1>1. s[x] = s[x - 1] * 10 + Digit(text[x]) /\ s[x] \in Nat /\ s[x] <= N /\ N \in Nat
    <2>1. \A y \in a + 1 .. b : s[y] = s[y - 1] * 10 + Digit(text[y])
        BY <1>0, SpelledFacts
    <2>2. \A y \in a .. b : s[y] \in Nat /\ s[y] <= N
        BY <1>0, SpelledFacts
    <2>3. N = s[b] /\ b \in a .. b
        BY <1>0 DEF Number
    <2> HIDE DEF s, N
    <2> QED
        BY <1>0, <2>1, <2>2, <2>3
<1>2. T \in Nat \ {0}
    BY PowerOfTwo
<1> DEFINE y == s[x]
<1>3. _atoi(s[x - 1], text[x]) = y % T
    BY <1>1 DEF _atoi
<1>4. N < T
    OBVIOUS
<1> HIDE DEF y, T, N
<1>5. y \in 0 .. T - 1
    BY <1>1, <1>2, <1>4 DEF y
<1>6. y % T = y
    BY <1>2, <1>5
<1> QED
    BY <1>3, <1>6 DEF y

\* A digit of the width is read.
LEMMA WidthDigitStep ==
    ASSUME NEW d, NEW i, NEW j, NEW k, NEW l, Written(d, i, j, k, l),
           NEW m \in {"flags", "width"}, NEW o, NEW f, NEW w, NEW p, NEW v,
           Parsed(d, i, j, k, l, m, o, f, w, p, v), _is_digit(d.text[o]),
           m = "flags" => d.text[o] \notin Flags
    PROVE  Parsed(d, i, j, k, l, "width", o + 1, f, _atoi(w, d.text[o]), p, v)
PROOF
<1>1. i \in Nat /\ j \in Nat /\ k \in Nat /\ l \in Nat /\ i <= j /\ j <= k /\ k <= l
    BY WrittenFacts
<1>2. d.text[o] \notin {"*", ".", "%"} \cup Lengths \cup Takes
    BY Classes DEF _is_digit
<1>3. o # j + 1
    <2> SUFFICES ASSUME o = j + 1 PROVE FALSE
        OBVIOUS
    <2>1. ~(j < k)
        BY <1>2, Behind
    <2>2. ~(k < l) /\ o = k + 1
        BY <1>1, <1>2, <2>1, Behind
    <2>3. o = l + 1
        BY <1>1, <2>2
    <2> QED
        BY <1>2, <2>3, Behind
<1>4. o \in i + 1 .. j /\ p = 0 /\ v = Rest(d, 0)
    <2>1. CASE m = "flags"
        <3>1. o \in 2 .. i + 1 /\ p = 0 /\ v = Rest(d, 0)
            BY <2>1 DEF Parsed, AtFlags
        <3>2. o \notin 2 .. i
            BY <2>1, Behind
        <3> QED
            BY <1>1, <1>3, <3>1, <3>2
    <2>2. CASE m = "width"
        <3>1. o \in i + 2 .. j + 1 /\ p = 0 /\ v = Rest(d, 0)
            BY <2>2 DEF Parsed, AtWidth
        <3> QED
            BY <1>1, <1>3, <3>1
    <2> QED
        BY <2>1, <2>2
<1>5. /\ \A x \in i + 1 .. j : _is_digit(d.text[x])
      /\ d.width = Spelled(d.text, i, j)[j] /\ d.width < 2^IntBits
    <2>1. o = j \/ j # i + 1
        BY <1>1, <1>4
    <2> QED
        BY <1>2, <2>1, WidthCases
<1>6. f = d.flags /\ w = Spelled(d.text, i, j)[o - 1]
    <2>1. CASE m = "flags"
        <3>1. o \in 2 .. i + 1 /\ f = {d.text[x] : x \in 2 .. o - 1} /\ w = 0
            BY <2>1 DEF Parsed, AtFlags
        <3>2. o - 1 = i
            BY <1>1, <1>4, <3>1
        <3>3. f = d.flags
            BY <3>1, <3>2 DEF Written, Parts
        <3>4. Spelled(d.text, i, j)[i] = 0
            BY <1>1, <1>5, SpelledFacts
        <3> QED
            BY <3>1, <3>2, <3>3, <3>4
    <2>2. CASE m = "width"
        BY <2>2 DEF Parsed, AtWidth
    <2> QED
        BY <2>1, <2>2
<1>7. _atoi(Spelled(d.text, i, j)[o - 1], d.text[o]) = Spelled(d.text, i, j)[o]
    <2> DEFINE t == d.text
    <2>1. IntBits \in Nat \ {0}
        BY WrittenFacts
    <2>2. Number(t, i, j) < 2^IntBits /\ \A x \in i + 1 .. j : _is_digit(t[x])
        BY <1>5 DEF Number
    <2> HIDE DEF t
    <2>3. _atoi(Spelled(t, i, j)[o - 1], t[o]) = Spelled(t, i, j)[o]
        BY <1>1, <1>4, <2>1, <2>2, AtoiFacts
    <2> QED
        BY <2>3 DEF t
<1>8. (o + 1) - 1 = o /\ o + 1 \in i + 2 .. j + 1
    BY <1>1, <1>4
<1>9. AtWidth(d, i, j, o + 1, f, _atoi(w, d.text[o]), p, v)
    BY <1>4, <1>6, <1>7, <1>8 DEF AtWidth
<1> QED
    BY <1>9 DEF Parsed

\* The width is taken from an argument.
LEMMA WidthStarStep ==
    ASSUME NEW d, NEW i, NEW j, NEW k, NEW l, Written(d, i, j, k, l),
           NEW o, NEW f, NEW w, NEW p, NEW v,
           Parsed(d, i, j, k, l, "flags", o, f, w, p, v), d.text[o] = "*"
    PROVE  LET s == Signed(Head(v).n, IntBits)
           IN  Parsed(d, i, j, k, l, "star", o + 1, IF s < 0 THEN f \cup {"-"} ELSE f,
                      IF s < 0 THEN 0 - s ELSE s, p, Tail(v))
PROOF
<1> DEFINE s == Signed(Head(v).n, IntBits)
<1>1. i \in Nat /\ j \in Nat /\ k \in Nat /\ l \in Nat /\ i <= j /\ j <= k /\ k <= l
    BY WrittenFacts
<1>2. d.text[o] \notin {".", "%"} \cup Lengths \cup Takes \cup Flags \cup Decimal
    BY Classes
<1>3. /\ o \in 2 .. i + 1 /\ f = {d.text[x] : x \in 2 .. o - 1}
      /\ w = 0 /\ p = 0 /\ v = Rest(d, 0)
    BY DEF Parsed, AtFlags
<1>4. o = i + 1
    <2>1. o \notin 2 .. i
        BY <1>2, Behind
    <2> QED
        BY <1>1, <1>3, <2>1
<1>5. i < j
    <2> SUFFICES ASSUME ~(i < j) PROVE FALSE
        OBVIOUS
    <2>0. o = j + 1
        BY <1>1, <1>4
    <2>1. ~(j < k)
        BY <1>2, <2>0, Behind
    <2>2. ~(k < l) /\ o = k + 1
        BY <1>1, <1>2, <2>0, <2>1, Behind
    <2>3. o = l + 1
        BY <1>1, <2>2
    <2> QED
        BY <1>2, <2>3, Behind
<1>6. j = i + 1 /\ d.width = Signed(d.args[1].n, IntBits) /\ Stars(d.text, i, j) = 1
    <2>1. i + 1 \in i + 1 .. j
        BY <1>1, <1>5
    <2> QED
        BY <1>2, <1>4, <2>1, WidthCases DEF _is_digit
<1>7. f = d.flags
    <2>1. o - 1 = i
        BY <1>1, <1>4
    <2> QED
        BY <1>3, <2>1 DEF Written, Parts
<1>8. Head(v) = d.args[1] /\ Tail(v) = Rest(d, 1)
    <2> DEFINE a == d.args
               A == [n : Int, s : Seq(STRING)]
    <2>1. a \in Seq(A)
        BY DEF Written, Typed
    <2>2. 0 < Len(a)
        <3>1. Stars(d.text, j, k) \in 0..1 /\ (Len(a) = (1 + Stars(d.text, j, k)) + 1 \/ Len(a) = 1 + Stars(d.text, j, k))
            BY <1>6, ArgsFacts
        <3> HIDE DEF a
        <3> QED
            BY <3>1
    <2>3. v = SubSeq(a, 0 + 1, Len(a))
        BY <1>3 DEF Rest
    <2> HIDE DEF a, A
    <2>4. Head(v) = a[0 + 1] /\ Tail(v) = SubSeq(a, (0 + 1) + 1, Len(a))
        <3>1. 0 \in Nat
            OBVIOUS
        <3> QED
            BY <2>1, <2>2, <2>3, <3>1, RestFacts
    <2> QED
        BY <2>4 DEF Rest, a
<1>9. s = d.width
    BY <1>6, <1>8
<1>10. AfterWidth(d, i, j, o + 1, IF s < 0 THEN f \cup {"-"} ELSE f,
                  IF s < 0 THEN 0 - s ELSE s, p, Tail(v))
    <2>1. (IF s < 0 THEN f \cup {"-"} ELSE f) = WidthFlags(d)
        BY <1>7, <1>9 DEF WidthFlags
    <2>2. (IF s < 0 THEN 0 - s ELSE s) = StandardWidth(d)
        BY <1>9 DEF StandardWidth
    <2> HIDE DEF s
    <2> QED
        BY <1>3, <1>4, <1>6, <1>8, <2>1, <2>2 DEF AfterWidth
<1> QED
    BY <1>10 DEF Parsed

\* The dot of the precision is read.
LEMMA DotStep ==
    ASSUME NEW d, NEW i, NEW j, NEW k, NEW l, Written(d, i, j, k, l),
           NEW m \in {"flags", "width", "star"}, NEW o, NEW f, NEW w, NEW p, NEW v,
           Parsed(d, i, j, k, l, m, o, f, w, p, v), d.text[o] = "."
    PROVE  Parsed(d, i, j, k, l, "dot", o + 1, f \cup {"prec"}, w, p, v)
PROOF
<1>1. i \in Nat /\ j \in Nat /\ k \in Nat /\ l \in Nat /\ i <= j /\ j <= k /\ k <= l
    BY WrittenFacts
<1>2. d.text[o] \notin {"*", "%"} \cup Lengths \cup Takes \cup Flags \cup Decimal
    BY Classes
<1>3. o = j + 1
    BY <1>2, PastWidth
<1>4. AfterWidth(d, i, j, o, f, w, p, v)
    BY <1>3, WidthEnd
<1>5. j < k
    <2> SUFFICES ASSUME ~(j < k) PROVE FALSE
        OBVIOUS
    <2>2. ~(k < l) /\ o = k + 1
        BY <1>1, <1>2, <1>3, Behind
    <2>3. o = l + 1
        BY <1>1, <2>2
    <2> QED
        BY <1>2, <2>3, Behind
<1>6. f \cup {"prec"} = PrecisionFlags(d, j, k)
    BY <1>4, <1>5 DEF AfterWidth, PrecisionFlags
<1>7. o + 1 = j + 2
    BY <1>1, <1>3
<1>8. AtDot(d, i, j, k, o + 1, f \cup {"prec"}, w, p, v)
    BY <1>4, <1>5, <1>6, <1>7 DEF AfterWidth, AtDot
<1> QED
    BY <1>8 DEF Parsed

\* A digit of the precision is read.
LEMMA PrecisionDigitStep ==
    ASSUME NEW d, NEW i, NEW j, NEW k, NEW l, Written(d, i, j, k, l),
           NEW m \in {"dot", "precision"}, NEW o, NEW f, NEW w, NEW p, NEW v,
           Parsed(d, i, j, k, l, m, o, f, w, p, v), _is_digit(d.text[o])
    PROVE  Parsed(d, i, j, k, l, "precision", o + 1, f, w, _atoi(p, d.text[o]), v)
PROOF
<1>1. i \in Nat /\ j \in Nat /\ k \in Nat /\ l \in Nat /\ i <= j /\ j <= k /\ k <= l
    BY WrittenFacts
<1>2. d.text[o] \notin {"*", ".", "%"} \cup Lengths \cup Takes
    BY Classes DEF _is_digit
<1>3. o # k + 1
    <2> SUFFICES ASSUME o = k + 1 PROVE FALSE
        OBVIOUS
    <2>2. ~(k < l)
        BY <1>1, <1>2, Behind
    <2>3. o = l + 1
        BY <1>1, <2>2
    <2> QED
        BY <1>2, <2>3, Behind
<1>4. /\ o \in j + 2 .. k /\ f = PrecisionFlags(d, j, k) /\ w = StandardWidth(d)
      /\ v = Rest(d, Stars(d.text, i, j))
    <2>1. CASE m = "dot"
        <3>1. /\ o = j + 2 /\ j < k /\ f = PrecisionFlags(d, j, k) /\ w = StandardWidth(d)
              /\ v = Rest(d, Stars(d.text, i, j))
            BY <2>1 DEF Parsed, AtDot
        <3> QED
            BY <1>1, <1>3, <3>1
    <2>2. CASE m = "precision"
        <3>1. /\ o \in j + 3 .. k + 1 /\ f = PrecisionFlags(d, j, k) /\ w = StandardWidth(d)
              /\ v = Rest(d, Stars(d.text, i, j))
            BY <2>2 DEF Parsed, AtPrecision
        <3> QED
            BY <1>1, <1>3, <3>1
    <2> QED
        BY <2>1, <2>2
<1> DEFINE a == j + 1
<1>5. /\ \A x \in j + 2 .. k : _is_digit(d.text[x])
      /\ d.prec = Spelled(d.text, a, k)[k] /\ d.prec < 2^IntBits
    <2>1. j # k /\ (o = k \/ k # j + 2)
        BY <1>1, <1>4
    <2> QED
        BY <1>2, <2>1, PrecisionCases
<1>6. a \in Nat /\ a <= k /\ a + 1 = j + 2
    BY <1>1, <1>4
<1>7. p = Spelled(d.text, a, k)[o - 1]
    <2>1. CASE m = "dot"
        <3>1. o = j + 2 /\ p = 0
            BY <2>1 DEF Parsed, AtDot
        <3>2. o - 1 = a
            BY <1>1, <3>1
        <3>3. \A x \in a + 1 .. k : _is_digit(d.text[x])
            BY <1>5, <1>6
        <3> HIDE DEF a
        <3>4. Spelled(d.text, a, k)[a] = 0
            BY <1>1, <1>6, <3>3, SpelledFacts
        <3> QED
            BY <3>1, <3>2, <3>4
    <2>2. CASE m = "precision"
        BY <2>2 DEF Parsed, AtPrecision
    <2> QED
        BY <2>1, <2>2
<1>8. _atoi(Spelled(d.text, a, k)[o - 1], d.text[o]) = Spelled(d.text, a, k)[o]
    <2> DEFINE t == d.text
    <2>1. IntBits \in Nat \ {0}
        BY WrittenFacts
    <2>2. Number(t, a, k) < 2^IntBits /\ \A x \in a + 1 .. k : _is_digit(t[x])
        BY <1>5, <1>6 DEF Number
    <2>3. o \in a + 1 .. k
        BY <1>4, <1>6
    <2> HIDE DEF t, a
    <2>4. _atoi(Spelled(t, a, k)[o - 1], t[o]) = Spelled(t, a, k)[o]
        BY <1>1, <1>6, <2>1, <2>2, <2>3, AtoiFacts
    <2> QED
        BY <2>4 DEF t
<1>9. (o + 1) - 1 = o /\ o + 1 \in j + 3 .. k + 1
    BY <1>1, <1>4
<1>10. AtPrecision(d, i, j, k, o + 1, f, w, _atoi(p, d.text[o]), v)
    BY <1>4, <1>7, <1>8, <1>9 DEF AtPrecision
<1> QED
    BY <1>10 DEF Parsed

\* What is left of the arguments.
LEMMA TakeArgument ==
    ASSUME NEW d, NEW i, NEW j, NEW k, NEW l, Written(d, i, j, k, l), NEW n \in Nat,
           n < Len(d.args)
    PROVE  Head(Rest(d, n)) = d.args[n + 1] /\ Tail(Rest(d, n)) = Rest(d, n + 1)
PROOF
<1> DEFINE a == d.args
           A == [n : Int, s : Seq(STRING)]
<1>1. a \in Seq(A) /\ n < Len(a)
    BY DEF Written, Typed
<1> HIDE DEF a, A
<1> DEFINE r == SubSeq(a, n + 1, Len(a))
<1>2. Head(r) = a[n + 1] /\ Tail(r) = SubSeq(a, (n + 1) + 1, Len(a))
    BY <1>1, RestFacts
<1> QED
    BY <1>2 DEF Rest, a

\* The precision is taken from an argument.
LEMMA PrecisionStarStep ==
    ASSUME NEW d, NEW i, NEW j, NEW k, NEW l, Written(d, i, j, k, l),
           NEW o, NEW f, NEW w, NEW p, NEW v,
           Parsed(d, i, j, k, l, "dot", o, f, w, p, v), d.text[o] = "*"
    PROVE  Parsed(d, i, j, k, l, "precision_star", o + 1, f, w,
                  StarPrecision(Signed(Head(v).n, IntBits)), Tail(v))
PROOF
<1> DEFINE s == Stars(d.text, i, j)
           q == Signed(Head(v).n, IntBits)
<1>1. i \in Nat /\ j \in Nat /\ k \in Nat /\ l \in Nat /\ i <= j /\ j <= k /\ k <= l
    BY WrittenFacts
<1>2. d.text[o] \notin {".", "%"} \cup Lengths \cup Takes \cup Flags \cup Decimal
    BY Classes
<1>3. /\ o = j + 2 /\ j < k /\ f = PrecisionFlags(d, j, k) /\ w = StandardWidth(d) /\ p = 0
      /\ v = Rest(d, s)
    BY DEF Parsed, AtDot
<1>4. k # j + 1
    <2> SUFFICES ASSUME k = j + 1 PROVE FALSE
        OBVIOUS
    <2>1. o = k + 1
        BY <1>1, <1>3
    <2>2. ~(k < l)
        BY <1>2, <2>1, Behind
    <2>3. o = l + 1
        BY <1>1, <2>1, <2>2
    <2> QED
        BY <1>2, <2>3, Behind
<1>5. /\ k = j + 2 /\ Stars(d.text, j, k) = 1
      /\ d.prec = IF Signed(d.args[s + 1].n, IntBits) < 0 THEN -1
                  ELSE Signed(d.args[s + 1].n, IntBits)
    <2>1. j # k /\ o \in j + 2 .. k
        BY <1>1, <1>3, <1>4
    <2> QED
        BY <1>2, <2>1, PrecisionCases DEF _is_digit
<1>6. s \in Nat /\ s < Len(d.args) /\ s + 1 \in 1 .. Len(d.args)
    <2>1. s \in 0..1 /\ (Len(d.args) = (s + 1) + 1 \/ Len(d.args) = s + 1)
        BY <1>5, ArgsFacts
    <2> HIDE DEF s
    <2> QED
        BY <2>1
<1>7. Head(v) = d.args[s + 1] /\ Tail(v) = Rest(d, s + 1)
    <2> HIDE DEF s
    <2> QED
        BY <1>3, <1>6, TakeArgument
<1>8. q \in Int
    <2>1. d.args[s + 1].n \in Int
        BY <1>6, ArgsFacts
    <2>2. IntBits \in Nat \ {0}
        BY WrittenFacts
    <2> QED
        BY <1>7, <2>1, <2>2, SignedFacts
<1>9. d.prec = IF q < 0 THEN -1 ELSE q
    BY <1>5, <1>7
<1> HIDE DEF q
<1>10. StarPrecision(q) = ReadPrecision(d)
    BY <1>8, <1>9 DEF StarPrecision, ReadPrecision
<1>11. AfterPrecision(d, i, j, k, o + 1, f, w, StarPrecision(q), Tail(v))
    <2>1. o + 1 = k + 1
        BY <1>3, <1>5
    <2> QED
        BY <1>3, <1>5, <1>7, <1>10, <2>1 DEF AfterPrecision
<1> QED
    BY <1>11 DEF Parsed, q

LengthRead(c, twice) ==
    CASE c = "l" -> {"long"} \cup (IF twice THEN {"longlong"} ELSE {})
      [] c = "h" -> {"short"} \cup (IF twice THEN {"char"} ELSE {})
      [] c = "j" -> {"longlong"}
      [] OTHER -> {"long"}

\* One or two letters of the length are read.
LEMMA LengthStep ==
    ASSUME NEW d, NEW i, NEW j, NEW k, NEW l, Written(d, i, j, k, l),
           NEW m \in DOMAIN Accepts, NEW o, NEW f, NEW w, NEW p, NEW v,
           Parsed(d, i, j, k, l, m, o, f, w, p, v),
           d.text[o] \in Accepts[m], d.text[o] \in Lengths
    PROVE  LET twice == d.text[o] \in {"l", "h"} /\ d.text[o + 1] = d.text[o]
           IN  /\ o + 1 \in 1 .. l + 1
               /\ Parsed(d, i, j, k, l, "length", IF twice THEN o + 2 ELSE o + 1,
                         f \cup LengthRead(d.text[o], twice), w, p, v)
PROOF
<1> DEFINE c == d.text[o]
           twice == c \in {"l", "h"} /\ d.text[o + 1] = c
           oo == IF twice THEN o + 2 ELSE o + 1
<1>1. k \in Nat /\ l \in Nat /\ k <= l
    BY WrittenFacts
<1>2. m \in {"flags", "width", "star", "dot", "precision", "precision_star"}
    BY DEF Accepts
<1>3. c \notin {"*", ".", "%"} \cup Flags \cup Takes \cup Decimal
    BY Classes
<1>4. o = k + 1
    BY <1>2, <1>3, PastPrecision
<1>5. AfterPrecision(d, i, j, k, o, f, w, p, v)
    BY <1>2, <1>4, PrecisionEnd
<1>6. LengthPart(d, k, l) /\ k < l
    <2>1. LengthPart(d, k, l)
        BY DEF Written, Parts
    <2>2. k # l
        BY <1>3, <1>4, Behind
    <2> QED
        BY <1>1, <2>1, <2>2
<1>7. oo = l + 1 /\ LengthRead(c, twice) = LengthFlags(d.len)
    <2>1. CASE l = k + 1 /\ d.len = <<d.text[l]>>
        <3>1. ~twice
            <4>1. o + 1 = l + 1
                BY <1>1, <1>4, <2>1
            <4>2. d.text[o + 1] \in Takes \cup {"%"}
                BY <4>1, Behind
            <4> QED
                BY <1>3, <4>2
        <3>2. d.len = <<c>> /\ oo = l + 1
            BY <1>1, <1>4, <2>1, <3>1
        <3> HIDE DEF twice, c
        <3>3. c \in {"l", "h", "t", "j", "z"}
            BY DEF c, Lengths
        <3>4. CASE c = "l"
            BY <3>1, <3>2, <3>4 DEF LengthRead, LengthFlags
        <3>5. CASE c = "h"
            BY <3>1, <3>2, <3>5 DEF LengthRead, LengthFlags
        <3>6. CASE c = "j"
            BY <3>1, <3>2, <3>6 DEF LengthRead, LengthFlags
        <3>7. CASE c \in {"t", "z"}
            BY <3>1, <3>2, <3>7 DEF LengthRead, LengthFlags
        <3> QED
            BY <3>2, <3>3, <3>4, <3>5, <3>6, <3>7
    <2>2. CASE /\ l = k + 2 /\ d.text[l] \in {"l", "h"} /\ d.text[k + 1] = d.text[l]
               /\ d.len = <<d.text[l], d.text[l]>>
        <3>1. o + 1 = l
            BY <1>1, <1>4, <2>2
        <3>2. c = d.text[l]
            BY <1>4, <2>2
        <3>3. twice
            BY <2>2, <3>1, <3>2
        <3>4. d.len = <<c, c>> /\ oo = l + 1 /\ c \in {"l", "h"}
            BY <1>1, <1>4, <2>2, <3>2, <3>3
        <3> HIDE DEF twice, c
        <3>5. CASE c = "l"
            BY <3>3, <3>4, <3>5 DEF LengthRead, LengthFlags
        <3>6. CASE c = "h"
            BY <3>3, <3>4, <3>6 DEF LengthRead, LengthFlags
        <3> QED
            BY <3>4, <3>5, <3>6
    <2> QED
        BY <1>1, <1>6, <2>1, <2>2 DEF LengthPart
<1>8. o + 1 \in 1 .. l + 1
    BY <1>1, <1>4, <1>6
<1>9. AfterLength(d, i, j, k, l, oo, f \cup LengthRead(c, twice), w, p, v)
    <2> HIDE DEF c, twice, oo
    <2> QED
        BY <1>5, <1>7 DEF AfterPrecision, AfterLength
<1> QED
    BY <1>8, <1>9 DEF Parsed

\* The specifier finds its argument, and what the flags say is what was written.
LEMMA SpecifierStep ==
    ASSUME NEW d, NEW i, NEW j, NEW k, NEW l, Written(d, i, j, k, l),
           NEW o, NEW f, NEW w, NEW p, NEW v, AfterLength(d, i, j, k, l, o, f, w, p, v)
    PROVE  /\ o = l + 1 /\ d.text[o] = d.spec
           /\ d.spec \in Takes => Head(v) = d.value /\ Tail(v) = <<>>
           /\ d.spec \notin Takes => v = <<>>
PROOF
<1> DEFINE z == Stars(d.text, i, j) + Stars(d.text, j, k)
           a == d.args
           A == [n : Int, s : Seq(STRING)]
<1>1. o = l + 1 /\ v = Rest(d, z)
    BY DEF AfterLength
<1>2. /\ z \in 0..2 /\ d.spec = d.text[l + 1]
      /\ d.spec \in Takes => Len(a) = z + 1 /\ a[z + 1] = d.value
      /\ d.spec \notin Takes => Len(a) = z
    BY ArgsFacts
<1>3. a \in Seq(A)
    BY DEF Written, Typed
<1> HIDE DEF z, A
<1>4. \A n \in Nat : n = Len(a) => Rest(d, n) = <<>>
    <2> SUFFICES ASSUME NEW n \in Nat, n = Len(a) PROVE Rest(d, n) = <<>>
        OBVIOUS
    <2> HIDE DEF a
    <2>1. SubSeq(a, n + 1, Len(a)) = <<>>
        BY <1>3, RestFacts
    <2> QED
        BY <2>1 DEF Rest, a
<1>5. d.spec \in Takes => Head(v) = d.value /\ Tail(v) = <<>>
    <2> SUFFICES ASSUME d.spec \in Takes PROVE Head(v) = d.value /\ Tail(v) = <<>>
        OBVIOUS
    <2>1. z \in Nat /\ z < Len(d.args) /\ z + 1 \in Nat /\ z + 1 = Len(d.args)
        BY <1>2
    <2>2. Head(Rest(d, z)) = d.args[z + 1] /\ Tail(Rest(d, z)) = Rest(d, z + 1)
        BY <2>1, TakeArgument
    <2>3. Rest(d, z + 1) = <<>>
        BY <1>4, <2>1
    <2> QED
        BY <1>1, <1>2, <2>2, <2>3
<1>6. d.spec \notin Takes => v = <<>>
    BY <1>1, <1>2, <1>4
<1> QED
    BY <1>1, <1>2, <1>5, <1>6

-----------------------------------------------------------------------------
(* What the parser has read at the specifier, and where it is in the format.*)

\* At the specifier the parser has found out what the directive says.
LEMMA ReadsFacts ==
    ASSUME NEW d, NEW i, NEW j, NEW k, NEW l, Written(d, i, j, k, l), ~d.none,
           NEW o, NEW f, NEW v, AfterLength(d, i, j, k, l, o, f, width, precision, v)
    PROVE  Reads(d, f)
PROOF
<1> DEFINE P == PrecisionFlags(d, j, k)
           L == LengthFlags(d.len)
           Ls == {"long", "longlong", "short", "char"}
<1>1. f = P \cup L /\ width = StandardWidth(d) /\ precision = ReadPrecision(d)
    BY DEF AfterLength
<1>2. Described(d) /\ d.flags \subseteq Flags
    BY DescribedFacts
<1>3. L \subseteq Ls
      /\ ("long" \in L <=> d.len \in {<<"l">>, <<"l", "l">>, <<"t">>, <<"z">>})
      /\ ("longlong" \in L <=> d.len \in {<<"l", "l">>, <<"j">>})
      /\ ("short" \in L <=> d.len \in {<<"h">>, <<"h", "h">>})
      /\ ("char" \in L <=> d.len = <<"h", "h">>)
    <2>1. d.len \in {<<>>, <<"h">>, <<"h", "h">>, <<"l">>, <<"l", "l">>, <<"j">>, <<"t">>, <<"z">>}
        BY <1>2 DEF Described
    <2>2. CASE d.len = <<>>
        <3>1. L = {}
            BY <2>2 DEF LengthFlags
        <3> QED
            BY <2>2, <3>1
    <2>3. CASE d.len = <<"h">>
        <3>1. L = {"short"}
            BY <2>3 DEF LengthFlags
        <3> QED
            BY <2>3, <3>1
    <2>4. CASE d.len = <<"h", "h">>
        <3>1. L = {"short", "char"}
            BY <2>4 DEF LengthFlags
        <3> QED
            BY <2>4, <3>1
    <2>5. CASE d.len \in {<<"l">>, <<"t">>, <<"z">>}
        <3>1. L = {"long"}
            BY <2>5 DEF LengthFlags
        <3> QED
            BY <2>5, <3>1
    <2>6. CASE d.len = <<"l", "l">>
        <3>1. L = {"long", "longlong"}
            BY <2>6 DEF LengthFlags
        <3> QED
            BY <2>6, <3>1
    <2>7. CASE d.len = <<"j">>
        <3>1. L = {"longlong"}
            BY <2>7 DEF LengthFlags
        <3> QED
            BY <2>7, <3>1
    <2> QED
        BY <2>1, <2>2, <2>3, <2>4, <2>5, <2>6, <2>7
<1>4. \A c \in Flags : c \notin Ls \cup {"prec", "upper"}
    BY Spaces DEF Flags
<1>5. \A c \in {"0", "+", "-", "#", SPACE} : c \in Flags
    BY DEF Flags
<1>6. j < k <=> d.prec >= 0
    <2>1. j \in Nat /\ k \in Nat /\ d.prec \in Int
        BY <1>2, WrittenFacts DEF Described
    <2>2. CASE j = k /\ d.prec = -1
        BY <2>1, <2>2
    <2>3. CASE j < k /\ d.prec \in Nat
        BY <2>1, <2>3
    <2>4. CASE k = j + 2 /\ LET p == Signed(d.args[Stars(d.text, i, j) + 1].n, IntBits)
                            IN  d.none = (p < 0) /\ d.prec = IF p < 0 THEN -1 ELSE p
        <3> DEFINE p == Signed(d.args[Stars(d.text, i, j) + 1].n, IntBits)
        <3>1. d.none = (p < 0) /\ d.prec = IF p < 0 THEN -1 ELSE p
            BY <2>4
        <3>2. ~(p < 0)
            BY <3>1
        <3>3. d.prec = p
            BY <3>1, <3>2
        <3> HIDE DEF p
        <3>4. d.prec >= 0
            BY <2>1, <3>2, <3>3
        <3> QED
            BY <2>1, <2>4, <3>4
    <2> QED
        BY <2>2, <2>3, <2>4, PrecisionCases
<1>7. P = d.flags \cup (IF d.width < 0 THEN {"-"} ELSE {}) \cup (IF j < k THEN {"prec"} ELSE {})
    BY DEF PrecisionFlags, WidthFlags
<1> HIDE DEF P, L
<1>8. \A c \in Flags : c \in f <=> c \in d.flags \/ (c = "-" /\ d.width < 0)
    BY <1>1, <1>3, <1>4, <1>7
<1>9. "prec" \in f <=> d.prec >= 0
    <2>1. "prec" \notin L /\ "prec" \notin d.flags
        BY <1>2, <1>3, <1>4
    <2> QED
        BY <1>1, <1>6, <1>7, <2>1
<1>10. "upper" \notin f
    <2>1. "upper" \notin L /\ "upper" \notin d.flags
        BY <1>2, <1>3, <1>4
    <2> QED
        BY <1>1, <1>7, <2>1
<1>11. \A c \in Ls : c \in f <=> c \in L
    <2>1. \A c \in Ls : c \notin d.flags /\ c # "-" /\ c # "prec"
        BY <1>2, <1>4
    <2> QED
        BY <1>1, <1>7, <2>1
<1>12. SPACE # "-"
    BY Spaces
<1>13. /\ "-" \in f <=> "-" \in d.flags \/ d.width < 0
       /\ "0" \in f <=> "0" \in d.flags
       /\ "+" \in f <=> "+" \in d.flags
       /\ "#" \in f <=> "#" \in d.flags
       /\ SPACE \in f <=> SPACE \in d.flags
    BY <1>5, <1>8, <1>12
<1>14. /\ "long" \in f <=> "long" \in L
       /\ "longlong" \in f <=> "longlong" \in L
       /\ "short" \in f <=> "short" \in L
       /\ "char" \in f <=> "char" \in L
    BY <1>11
<1>15. /\ width = IF d.width < 0 THEN 0 - d.width ELSE d.width
       /\ precision = IF d.prec < 0 THEN 0 ELSE d.prec
    BY <1>1 DEF StandardWidth, ReadPrecision
<1> QED
    BY <1>3, <1>9, <1>10, <1>13, <1>14, <1>15 DEF Reads

Plain == STRING \ {"%", NUL}

\* A sequence over a set is one over a larger set.
LEMMA SeqMonotone == ASSUME NEW S, NEW T, S \subseteq T, NEW s \in Seq(S) PROVE s \in Seq(T)
PROOF
    OBVIOUS

\* A text of three parts, place by place.
LEMMA ThreeParts ==
    ASSUME NEW S, NEW B \in Seq(S), NEW T \in Seq(S), NEW A \in Seq(S)
    PROVE  LET b == Len(B)
               n == Len(T)
               a == Len(A)
               s == B \o T \o A
           IN  /\ s \in Seq(S) /\ b \in Nat /\ n \in Nat /\ a \in Nat /\ Len(s) = b + n + a
               /\ \A x \in 1 .. b : s[x] = B[x]
               /\ \A x \in 1 .. n : s[b + x] = T[x]
               /\ \A x \in 1 .. a : s[b + n + x] = A[x]
PROOF
<1> DEFINE b == Len(B)
           n == Len(T)
           a == Len(A)
           u == B \o T
           s == u \o A
<1>3. b \in Nat /\ n \in Nat /\ a \in Nat
    OBVIOUS
<1>4. u \in Seq(S) /\ Len(u) = b + n
      /\ \A x \in 1 .. b + n : u[x] = IF x <= b THEN B[x] ELSE T[x - b]
    BY ConcatProperties
<1> HIDE DEF u
<1>5. s \in Seq(S) /\ Len(s) = b + n + a
      /\ \A x \in 1 .. b + n + a : s[x] = IF x <= b + n THEN u[x] ELSE A[x - (b + n)]
    <2>1. /\ s \in Seq(S) /\ Len(s) = Len(u) + Len(A)
          /\ \A x \in 1 .. Len(u) + Len(A) : s[x] = IF x <= Len(u) THEN u[x] ELSE A[x - Len(u)]
        <3>1. u \in Seq(S)
            BY <1>4
        <3> QED
            BY <3>1, ConcatProperties
    <2> HIDE DEF s
    <2> QED
        BY <1>4, <2>1
<1> HIDE DEF s, b, n, a
<1>6. ASSUME NEW x \in 1 .. b PROVE s[x] = B[x]
    <2>1. x \in 1 .. b + n + a /\ x <= b + n /\ x \in 1 .. b + n
        BY <1>3
    <2> QED
        BY <1>4, <1>5, <2>1
<1>7. ASSUME NEW x \in 1 .. n PROVE s[b + x] = T[x]
    <2>1. b + x \in 1 .. b + n + a /\ b + x <= b + n /\ b + x \in 1 .. b + n /\ ~(b + x <= b) /\ (b + x) - b = x
        BY <1>3
    <2>2. s[b + x] = u[b + x]
        BY <1>5, <2>1
    <2>3. u[b + x] = T[(b + x) - b]
        BY <1>4, <2>1
    <2> QED
        BY <2>1, <2>2, <2>3
<1>8. ASSUME NEW x \in 1 .. a PROVE s[b + n + x] = A[x]
    <2>1. b + n + x \in 1 .. b + n + a /\ ~(b + n + x <= b + n) /\ (b + n + x) - (b + n) = x
        BY <1>3
    <2>2. s[b + n + x] = A[(b + n + x) - (b + n)]
        BY <1>5, <2>1
    <2> QED
        BY <2>1, <2>2
<1>9. s \in Seq(S) /\ Len(s) = b + n + a
    BY <1>5
<1> QED
    BY <1>3, <1>6, <1>7, <1>8, <1>9 DEF s, u, b, n, a

\* The format, place by place.
LEMMA FormatFacts ==
    ASSUME NEW c \in Calls
    PROVE  LET b == Len(c.before)
               n == Len(c.directive.text)
               a == Len(c.after)
               s == c.before \o c.directive.text \o c.after
           IN  /\ b \in Nat /\ n \in Nat /\ a \in Nat /\ Len(s) = b + n + a
               /\ c.before \in Seq(Plain) /\ c.after \in Seq(Plain)
               /\ \A x \in 1 .. b : s[x] = c.before[x]
               /\ \A x \in 1 .. n : s[b + x] = c.directive.text[x]
               /\ \A x \in 1 .. a : s[b + n + x] = c.after[x]
PROOF
<1> DEFINE B == c.before
           T == c.directive.text
           A == c.after
           S == STRING
<1>1. B \in Seq(Plain) /\ A \in Seq(Plain) /\ T \in Seq(S)
    BY WrittenAssumption DEF DirectiveAssumption, Plain
<1>2. B \in Seq(S) /\ A \in Seq(S)
    <2>1. Plain \subseteq S
        BY DEF Plain
    <2> HIDE DEF B, A, S
    <2> QED
        BY <1>1, <2>1, SeqMonotone
<1> HIDE DEF B, T, A, S
<1> DEFINE b == Len(B)
           n == Len(T)
           a == Len(A)
           s == B \o T \o A
<1>3. /\ b \in Nat /\ n \in Nat /\ a \in Nat /\ Len(s) = b + n + a
      /\ \A x \in 1 .. b : s[x] = B[x]
      /\ \A x \in 1 .. n : s[b + x] = T[x]
      /\ \A x \in 1 .. a : s[b + n + x] = A[x]
    <2>1. B \in Seq(S) /\ T \in Seq(S) /\ A \in Seq(S)
        BY <1>1, <1>2
    <2> QED
        BY <2>1, ThreeParts
<1> QED
    BY <1>1, <1>3 DEF B, T, A

-----------------------------------------------------------------------------
(* The invariant of the parser. *)

Offset == pos - Len(call.before)

FlagNames == Flags \cup {"prec", "long", "longlong", "short", "char"}

InText ==
    /\ flags \subseteq FlagNames
    /\ width \in 0 .. 2^IntBits - 1 /\ precision \in 0 .. 2^IntBits - 1
    /\ \/ mode = "text" /\ pos \in 1 .. Len(call.before) + 1 /\ va = call.directive.args
       \/ /\ pos \in Len(call.before) + Len(call.directive.text) + 1 .. Len(format) + 1
          /\ va = <<>>
          /\ mode = "done" => pos = Len(format) + 1

ParserInv ==
    /\ call \in Calls /\ pos \in Nat
    /\ mode \in DOMAIN Accepts \cup {"text", "done"}
    /\ mode \in {"text", "done"} => InText
    /\ mode \in DOMAIN Accepts =>
           \E i, j, k, l \in DOMAIN call.directive.text :
               /\ Parts(call.directive, i, j, k, l)
               /\ Parsed(call.directive, i, j, k, l, mode, Offset, flags, width, precision, va)

\* The parts of a directive.
LEMMA Modes ==
    DOMAIN Accepts = {"flags", "width", "star", "dot", "precision", "precision_star", "length"}
PROOF
    BY DEF Accepts

\* *format, by the part of the format it is in.
LEMMA CharFacts ==
    ASSUME call \in Calls, pos \in Nat
    PROVE  LET b == Len(call.before)
               n == Len(call.directive.text)
           IN  /\ b \in Nat /\ n \in Nat /\ Len(format) \in Nat
               /\ Len(format) = b + n + Len(call.after) /\ Len(call.after) \in Nat
               /\ pos \in 1 .. b => Char = call.before[pos] /\ Char \notin {"%", NUL}
               /\ Offset \in 1 .. n => Char = call.directive.text[Offset]
               /\ pos \in b + n + 1 .. Len(format) =>
                      Char = call.after[pos - (b + n)] /\ Char \notin {"%", NUL}
               /\ pos = Len(format) + 1 => Char = NUL
PROOF
<1> DEFINE b == Len(call.before)
           n == Len(call.directive.text)
           a == Len(call.after)
           s == call.before \o call.directive.text \o call.after
           B == call.before
           A == call.after
           T == call.directive.text
<1>1. /\ b \in Nat /\ n \in Nat /\ a \in Nat /\ Len(s) = b + n + a
      /\ B \in Seq(Plain) /\ A \in Seq(Plain)
      /\ \A x \in 1 .. b : s[x] = B[x]
      /\ \A x \in 1 .. n : s[b + x] = T[x]
      /\ \A x \in 1 .. a : s[b + n + x] = A[x]
    BY FormatFacts
<1>2. s = format
    BY DEF format
<1>3. Char = IF pos <= Len(s) THEN s[pos] ELSE NUL
    BY <1>2 DEF Char
<1>4. \A c \in Plain : c \notin {"%", NUL}
    BY DEF Plain
<1>5. (\A x \in 1 .. b : B[x] \in Plain) /\ (\A x \in 1 .. a : A[x] \in Plain)
    <2>1. B \in Seq(Plain) /\ A \in Seq(Plain) /\ b = Len(B) /\ a = Len(A)
        BY <1>1
    <2> HIDE DEF B, A, b, a
    <2> QED
        BY <2>1
<1> HIDE DEF b, n, a, s, B, A, T
<1>6. ASSUME pos \in 1 .. b PROVE Char = B[pos] /\ Char \notin {"%", NUL}
    <2>1. pos <= Len(s)
        BY <1>1, <1>6
    <2>2. Char = B[pos]
        BY <1>1, <1>3, <1>6, <2>1
    <2> QED
        BY <1>4, <1>5, <1>6, <2>2
<1>7. ASSUME Offset \in 1 .. n PROVE Char = T[Offset]
    <2>1. pos = b + Offset /\ pos <= Len(s)
        BY <1>1, <1>7 DEF Offset, b
    <2>2. s[b + Offset] = T[Offset]
        BY <1>1, <1>7
    <2> QED
        BY <1>3, <2>1, <2>2
<1>8. ASSUME pos \in b + n + 1 .. Len(s) PROVE Char = A[pos - (b + n)] /\ Char \notin {"%", NUL}
    <2> DEFINE x == pos - (b + n)
    <2>1. x \in 1 .. a /\ pos = b + n + x /\ pos <= Len(s)
        BY <1>1, <1>8
    <2> HIDE DEF x
    <2>2. s[b + n + x] = A[x] /\ A[x] \in Plain
        BY <1>1, <1>5, <2>1
    <2>3. Char = A[x]
        BY <1>3, <2>1, <2>2
    <2> QED
        BY <1>4, <2>2, <2>3 DEF x
<1>9. pos = Len(s) + 1 => Char = NUL
    BY <1>1, <1>3
<1>10. Len(s) \in Nat
    BY <1>1
<1> QED
    BY <1>1, <1>2, <1>6, <1>7, <1>8, <1>9, <1>10 DEF b, n, a, B, A, T

\* Every call has a directive that is written as it should be.
LEMMA CallWritten ==
    ASSUME call \in Calls
    PROVE  LET d == call.directive
           IN  /\ \E i, j, k, l \in DOMAIN d.text : Parts(d, i, j, k, l)
               /\ \A i, j, k, l \in DOMAIN d.text : Parts(d, i, j, k, l) => Written(d, i, j, k, l)
PROOF
    BY WrittenAssumption DEF DirectiveAssumption, Written, Typed

\* The parser is behind the percent sign, and no further than the specifier.
LEMMA OffsetRange ==
    ASSUME NEW d, NEW i, NEW j, NEW k, NEW l, Written(d, i, j, k, l),
           NEW m \in DOMAIN Accepts, NEW o, NEW f, NEW w, NEW p, NEW v,
           Parsed(d, i, j, k, l, m, o, f, w, p, v)
    PROVE  o \in 2 .. l + 1
PROOF
<1>1. /\ i \in Nat /\ j \in Nat /\ k \in Nat /\ l \in Nat
      /\ 1 <= i /\ i <= j /\ j <= k /\ k <= l
    BY WrittenFacts
<1>2. CASE m = "flags"
    BY <1>1, <1>2 DEF Parsed, AtFlags
<1>3. CASE m = "width"
    BY <1>1, <1>3 DEF Parsed, AtWidth
<1>4. CASE m = "star"
    BY <1>1, <1>4 DEF Parsed, AfterWidth
<1>5. CASE m = "dot"
    BY <1>1, <1>5 DEF Parsed, AtDot
<1>6. CASE m = "precision"
    BY <1>1, <1>6 DEF Parsed, AtPrecision
<1>7. CASE m = "precision_star"
    BY <1>1, <1>7 DEF Parsed, AfterPrecision
<1>8. CASE m = "length"
    BY <1>1, <1>8 DEF Parsed, AfterLength
<1> QED
    BY <1>2, <1>3, <1>4, <1>5, <1>6, <1>7, <1>8, Modes

\* Where the parser is inside a directive.
LEMMA InDirective ==
    ASSUME ParserInv, mode \in DOMAIN Accepts
    PROVE  \E i, j, k, l \in DOMAIN call.directive.text :
               /\ Written(call.directive, i, j, k, l)
               /\ Parsed(call.directive, i, j, k, l, mode, Offset, flags, width, precision, va)
               /\ Offset \in 2 .. l + 1 /\ l \in Nat /\ Len(call.directive.text) = l + 1
               /\ Char = call.directive.text[Offset]
PROOF
<1> DEFINE d == call.directive
<1>1. call \in Calls /\ pos \in Nat
    BY DEF ParserInv
<1>2. PICK i, j, k, l \in DOMAIN d.text :
          Parts(d, i, j, k, l) /\ Parsed(d, i, j, k, l, mode, Offset, flags, width, precision, va)
    BY DEF ParserInv
<1>3. Written(d, i, j, k, l)
    BY <1>1, <1>2, CallWritten
<1> HIDE DEF d
<1>4. Offset \in 2 .. l + 1
    BY <1>2, <1>3, OffsetRange
<1>5. l \in Nat /\ Len(d.text) = l + 1
    BY <1>3, WrittenFacts
<1>6. Offset \in 1 .. Len(d.text)
    BY <1>4, <1>5
<1>7. Char = d.text[Offset]
    BY <1>1, <1>6, CharFacts DEF d
<1> QED
    BY <1>2, <1>3, <1>4, <1>5, <1>7 DEF d

\* The invariant of the parser goes on from the same parts.
LEMMA Carries ==
    ASSUME call \in Calls, call' = call, pos' \in Nat, mode' \in DOMAIN Accepts,
           NEW i \in DOMAIN call.directive.text, NEW j \in DOMAIN call.directive.text,
           NEW k \in DOMAIN call.directive.text, NEW l \in DOMAIN call.directive.text,
           Parts(call.directive, i, j, k, l),
           Parsed(call.directive, i, j, k, l, mode', pos' - Len(call.before),
                  flags', width', precision', va')
    PROVE  ParserInv'
PROOF
<1>1. mode' \notin {"text", "done"}
    BY Modes
<1>2. Offset' = pos' - Len(call.before)
    BY DEF Offset
<1>3. Parsed(call.directive, i, j, k, l, mode, Offset, flags, width, precision, va)'
    BY <1>2
<1>4. Parts(call.directive, i, j, k, l)'
    OBVIOUS
<1>5. i \in DOMAIN call'.directive.text /\ j \in DOMAIN call'.directive.text
      /\ k \in DOMAIN call'.directive.text /\ l \in DOMAIN call'.directive.text
    OBVIOUS
<1>6. (DOMAIN Accepts)' = DOMAIN Accepts
    BY DEF Accepts, Lengths, Flags, Decimal, Lower, SPACE
<1> QED
    BY <1>1, <1>3, <1>4, <1>5, <1>6 DEF ParserInv

\* The offset moves with the parser.
LEMMA NextOffset ==
    ASSUME call \in Calls, pos \in Nat, NEW n \in Nat
    PROVE  (pos + n) - Len(call.before) = Offset + n /\ pos + n \in Nat
PROOF
<1> DEFINE b == Len(call.before)
<1>1. b \in Nat
    BY FormatFacts
<1>2. Offset = pos - b
    BY DEF Offset
<1> HIDE DEF b
<1>3. (pos + n) - b = Offset + n
    BY <1>1, <1>2
<1>4. pos + n \in Nat
    OBVIOUS
<1> QED
    BY <1>3, <1>4 DEF b

\* Each action of the parser keeps its invariant: the flags...
LEMMA FlagKeeps == ASSUME ParserInv, Flag PROVE ParserInv'
PROOF
<1> DEFINE d == call.directive
<1>1. /\ mode = "flags" /\ mode' = mode /\ call' = call /\ pos' = pos + 1
      /\ flags' = flags \cup {Char} /\ width' = width /\ precision' = precision /\ va' = va
      /\ Char \in Flags
    BY DEF Flag, Reading
<1>2. mode \in DOMAIN Accepts /\ call \in Calls /\ pos \in Nat
    BY <1>1, Modes DEF ParserInv
<1>3. PICK i, j, k, l \in DOMAIN d.text :
          /\ Written(d, i, j, k, l) /\ Parsed(d, i, j, k, l, mode, Offset, flags, width, precision, va)
          /\ Char = d.text[Offset]
    BY <1>2, InDirective
<1> HIDE DEF d
<1>4. Parsed(d, i, j, k, l, "flags", Offset + 1, flags \cup {Char}, width, precision, va)
    BY <1>1, <1>3, FlagStep
<1>5. pos' - Len(call.before) = Offset + 1 /\ pos' \in Nat
    BY <1>1, <1>2, NextOffset
<1>6. Parsed(d, i, j, k, l, mode', pos' - Len(call.before), flags', width', precision', va')
    BY <1>1, <1>4, <1>5
<1> QED
    BY <1>1, <1>2, <1>3, <1>5, <1>6, Carries DEF d, Written

\* ... the width...
LEMMA WidthDigitKeeps == ASSUME ParserInv, WidthDigit PROVE ParserInv'
PROOF
<1> DEFINE d == call.directive
<1>1. /\ mode \in {"flags", "width"} /\ mode' = "width" /\ call' = call /\ pos' = pos + 1
      /\ width' = _atoi(width, Char) /\ flags' = flags /\ precision' = precision /\ va' = va
      /\ _is_digit(Char) /\ (mode = "flags" => Char \notin Flags)
    BY DEF WidthDigit, Reading
<1>2. mode \in DOMAIN Accepts /\ call \in Calls /\ pos \in Nat /\ mode' \in DOMAIN Accepts
    BY <1>1, Modes DEF ParserInv
<1>3. PICK i, j, k, l \in DOMAIN d.text :
          /\ Written(d, i, j, k, l) /\ Parsed(d, i, j, k, l, mode, Offset, flags, width, precision, va)
          /\ Char = d.text[Offset]
    BY <1>2, InDirective
<1> HIDE DEF d
<1>4. Parsed(d, i, j, k, l, "width", Offset + 1, flags, _atoi(width, Char), precision, va)
    BY <1>1, <1>3, WidthDigitStep
<1>5. pos' - Len(call.before) = Offset + 1 /\ pos' \in Nat
    BY <1>1, <1>2, NextOffset
<1>6. Parsed(d, i, j, k, l, mode', pos' - Len(call.before), flags', width', precision', va')
    BY <1>1, <1>4, <1>5
<1> QED
    BY <1>1, <1>2, <1>3, <1>5, <1>6, Carries DEF d, Written

\* ... the width of an argument...
LEMMA WidthStarKeeps == ASSUME ParserInv, WidthStar PROVE ParserInv'
PROOF
<1> DEFINE d == call.directive
           w == Signed(Head(va).n, IntBits)
           ff == IF w < 0 THEN flags \cup {"-"} ELSE flags
           ww == IF w < 0 THEN 0 - w ELSE w
<1>1. /\ mode = "flags" /\ mode' = "star" /\ call' = call /\ pos' = pos + 1
      /\ width' = ww /\ flags' = ff /\ precision' = precision /\ va' = Tail(va)
      /\ Char = "*"
    BY DEF WidthStar, Reading
<1>2. mode \in DOMAIN Accepts /\ call \in Calls /\ pos \in Nat /\ mode' \in DOMAIN Accepts
    BY <1>1, Modes DEF ParserInv
<1>3. PICK i, j, k, l \in DOMAIN d.text :
          /\ Written(d, i, j, k, l) /\ Parsed(d, i, j, k, l, mode, Offset, flags, width, precision, va)
          /\ Char = d.text[Offset]
    BY <1>2, InDirective
<1> HIDE DEF d
<1>4. Parsed(d, i, j, k, l, "star", Offset + 1, ff, ww, precision, Tail(va))
    BY <1>1, <1>3, WidthStarStep
<1> HIDE DEF w, ff, ww
<1>5. pos' - Len(call.before) = Offset + 1 /\ pos' \in Nat
    BY <1>1, <1>2, NextOffset
<1>6. Parsed(d, i, j, k, l, mode', pos' - Len(call.before), flags', width', precision', va')
    BY <1>1, <1>4, <1>5
<1> QED
    BY <1>1, <1>2, <1>3, <1>5, <1>6, Carries DEF d, Written

\* ... the dot...
LEMMA DotKeeps == ASSUME ParserInv, Dot PROVE ParserInv'
PROOF
<1> DEFINE d == call.directive
<1>1. /\ mode \in {"flags", "width", "star"} /\ mode' = "dot" /\ call' = call /\ pos' = pos + 1
      /\ width' = width /\ flags' = flags \cup {"prec"} /\ precision' = precision /\ va' = va
      /\ Char = "."
    BY DEF Dot, Reading
<1>2. mode \in DOMAIN Accepts /\ call \in Calls /\ pos \in Nat /\ mode' \in DOMAIN Accepts
    BY <1>1, Modes DEF ParserInv
<1>3. PICK i, j, k, l \in DOMAIN d.text :
          /\ Written(d, i, j, k, l) /\ Parsed(d, i, j, k, l, mode, Offset, flags, width, precision, va)
          /\ Char = d.text[Offset]
    BY <1>2, InDirective
<1> HIDE DEF d
<1>4. Parsed(d, i, j, k, l, "dot", Offset + 1, flags \cup {"prec"}, width, precision, va)
    BY <1>1, <1>3, DotStep
<1>5. pos' - Len(call.before) = Offset + 1 /\ pos' \in Nat
    BY <1>1, <1>2, NextOffset
<1>6. Parsed(d, i, j, k, l, mode', pos' - Len(call.before), flags', width', precision', va')
    BY <1>1, <1>4, <1>5
<1> QED
    BY <1>1, <1>2, <1>3, <1>5, <1>6, Carries DEF d, Written

\* ... the precision...
LEMMA PrecisionDigitKeeps == ASSUME ParserInv, PrecisionDigit PROVE ParserInv'
PROOF
<1> DEFINE d == call.directive
<1>1. /\ mode \in {"dot", "precision"} /\ mode' = "precision" /\ call' = call /\ pos' = pos + 1
      /\ precision' = _atoi(precision, Char) /\ flags' = flags /\ width' = width /\ va' = va
      /\ _is_digit(Char)
    BY DEF PrecisionDigit, Reading
<1>2. mode \in DOMAIN Accepts /\ call \in Calls /\ pos \in Nat /\ mode' \in DOMAIN Accepts
    BY <1>1, Modes DEF ParserInv
<1>3. PICK i, j, k, l \in DOMAIN d.text :
          /\ Written(d, i, j, k, l) /\ Parsed(d, i, j, k, l, mode, Offset, flags, width, precision, va)
          /\ Char = d.text[Offset]
    BY <1>2, InDirective
<1> HIDE DEF d
<1>4. Parsed(d, i, j, k, l, "precision", Offset + 1, flags, width, _atoi(precision, Char), va)
    BY <1>1, <1>3, PrecisionDigitStep
<1>5. pos' - Len(call.before) = Offset + 1 /\ pos' \in Nat
    BY <1>1, <1>2, NextOffset
<1>6. Parsed(d, i, j, k, l, mode', pos' - Len(call.before), flags', width', precision', va')
    BY <1>1, <1>4, <1>5
<1> QED
    BY <1>1, <1>2, <1>3, <1>5, <1>6, Carries DEF d, Written

\* ... the precision of an argument...
LEMMA PrecisionStarKeeps == ASSUME ParserInv, PrecisionStar PROVE ParserInv'
PROOF
<1> DEFINE d == call.directive
           pp == StarPrecision(Signed(Head(va).n, IntBits))
<1>1. /\ mode = "dot" /\ mode' = "precision_star" /\ call' = call /\ pos' = pos + 1
      /\ precision' = pp /\ flags' = flags /\ width' = width /\ va' = Tail(va)
      /\ Char = "*"
    BY DEF PrecisionStar, Reading
<1>2. mode \in DOMAIN Accepts /\ call \in Calls /\ pos \in Nat /\ mode' \in DOMAIN Accepts
    BY <1>1, Modes DEF ParserInv
<1>3. PICK i, j, k, l \in DOMAIN d.text :
          /\ Written(d, i, j, k, l) /\ Parsed(d, i, j, k, l, mode, Offset, flags, width, precision, va)
          /\ Char = d.text[Offset]
    BY <1>2, InDirective
<1> HIDE DEF d
<1>4. Parsed(d, i, j, k, l, "precision_star", Offset + 1, flags, width, pp, Tail(va))
    BY <1>1, <1>3, PrecisionStarStep
<1> HIDE DEF pp
<1>5. pos' - Len(call.before) = Offset + 1 /\ pos' \in Nat
    BY <1>1, <1>2, NextOffset
<1>6. Parsed(d, i, j, k, l, mode', pos' - Len(call.before), flags', width', precision', va')
    BY <1>1, <1>4, <1>5
<1> QED
    BY <1>1, <1>2, <1>3, <1>5, <1>6, Carries DEF d, Written

\* ... the length.
LEMMA LengthKeeps == ASSUME ParserInv, Length PROVE ParserInv'
PROOF
<1> DEFINE d == call.directive
           twice == Char \in {"l", "h"} /\ pos < Len(format) /\ format[pos + 1] = Char
<1>1. /\ mode \in DOMAIN Accepts /\ mode' = "length" /\ call' = call
      /\ pos' = IF twice THEN pos + 2 ELSE pos + 1
      /\ flags' = flags \cup LengthRead(Char, twice)
      /\ precision' = precision /\ width' = width /\ va' = va
      /\ Char \in Lengths /\ Char \in Accepts[mode]
    BY DEF Length, Reading, LengthRead
<1>2. call \in Calls /\ pos \in Nat /\ mode' \in DOMAIN Accepts
    BY <1>1, Modes DEF ParserInv
<1>3. PICK i, j, k, l \in DOMAIN d.text :
          /\ Written(d, i, j, k, l) /\ Parsed(d, i, j, k, l, mode, Offset, flags, width, precision, va)
          /\ Char = d.text[Offset] /\ Offset \in 2 .. l + 1 /\ l \in Nat /\ Len(d.text) = l + 1
    BY <1>1, InDirective
<1> DEFINE again == Char \in {"l", "h"} /\ d.text[Offset + 1] = Char
<1>4. /\ Offset + 1 \in 1 .. l + 1
      /\ Parsed(d, i, j, k, l, "length", IF again THEN Offset + 2 ELSE Offset + 1,
                flags \cup LengthRead(Char, again), width, precision, va)
    <2> HIDE DEF d
    <2> QED
        BY <1>1, <1>3, LengthStep
<1>5. twice = again
    <2> DEFINE b == Len(call.before)
    <2>1. /\ b \in Nat /\ Len(format) = b + Len(d.text) + Len(call.after) /\ Len(call.after) \in Nat
          /\ \A x \in 1 .. Len(d.text) : format[b + x] = d.text[x]
        BY <1>2, FormatFacts DEF format
    <2>2. Offset + 1 \in 1 .. Len(d.text)
        BY <1>3, <1>4
    <2> DEFINE o == Offset + 1
    <2>3. b + o = pos + 1 /\ pos < Len(format)
        <3>1. Offset = pos - b
            BY DEF Offset
        <3> DEFINE u == Len(format)
                   n == Len(d.text)
                   a == Len(call.after)
                   y == Offset
        <3>2. /\ b \in Nat /\ u = b + n + a /\ a \in Nat /\ y = pos - b /\ y + 1 \in 1 .. n
              /\ pos \in Nat /\ n = l + 1 /\ l \in Nat
            BY <1>2, <1>3, <2>1, <2>2, <3>1
        <3> HIDE DEF b, u, n, a, y
        <3>3. b + (y + 1) = pos + 1 /\ pos < u
            BY <3>2
        <3> QED
            BY <3>3 DEF u, y
    <2>4. format[b + o] = d.text[o]
        <3> HIDE DEF o, b, d
        <3> QED
            BY <2>1, <2>2 DEF o
    <2> HIDE DEF b, d
    <2> QED
        BY <2>3, <2>4
<1>6. pos' - Len(call.before) = (IF again THEN Offset + 2 ELSE Offset + 1) /\ pos' \in Nat
    <2> HIDE DEF again, twice
    <2> QED
        BY <1>1, <1>2, <1>5, NextOffset
<1> HIDE DEF again, twice, d
<1>7. Parsed(d, i, j, k, l, mode', pos' - Len(call.before), flags', width', precision', va')
    BY <1>1, <1>4, <1>5, <1>6
<1> QED
    BY <1>1, <1>2, <1>3, <1>6, <1>7, Carries DEF d, Written

\* All that the parser finds out is in range.
LEMMA RangeFacts ==
    ASSUME NEW d, NEW i, NEW j, NEW k, NEW l, Written(d, i, j, k, l),
           NEW m \in DOMAIN Accepts, NEW o, NEW f, NEW w, NEW p, NEW v,
           Parsed(d, i, j, k, l, m, o, f, w, p, v)
    PROVE  f \subseteq FlagNames /\ w \in 0 .. 2^IntBits - 1 /\ p \in 0 .. 2^IntBits - 1
PROOF
<1> DEFINE T == 2^IntBits
<1>1. T \in Nat \ {0} /\ 0 \in 0 .. T - 1
    <2>1. T \in Nat \ {0}
        BY WrittenFacts, PowerOfTwo
    <2> HIDE DEF T
    <2> QED
        BY <2>1
<1>2. /\ StandardWidth(d) \in 0 .. T - 1 /\ ReadPrecision(d) \in 0 .. T - 1
      /\ d.flags \subseteq Flags
    BY DescribedFacts
<1>3. i \in Nat /\ j \in Nat /\ k \in Nat /\ i <= j /\ j <= k
    BY WrittenFacts
<1>4. "-" \in Flags /\ Flags \subseteq FlagNames /\ {"prec", "long", "longlong", "short", "char"} \subseteq FlagNames
    BY DEF Flags, FlagNames
<1>5. WidthFlags(d) \subseteq FlagNames /\ PrecisionFlags(d, j, k) \subseteq FlagNames
    BY <1>2, <1>4 DEF WidthFlags, PrecisionFlags
<1>6. LengthFlags(d.len) \subseteq FlagNames
    <2>1. d.len \in {<<>>, <<"h">>, <<"h", "h">>, <<"l">>, <<"l", "l">>, <<"j">>, <<"t">>, <<"z">>}
        BY DescribedFacts DEF Described
    <2>2. CASE d.len = <<>>
        BY <2>2 DEF LengthFlags
    <2>3. CASE d.len = <<"h">>
        BY <1>4, <2>3 DEF LengthFlags
    <2>4. CASE d.len = <<"h", "h">>
        BY <1>4, <2>4 DEF LengthFlags
    <2>5. CASE d.len \in {<<"l">>, <<"t">>, <<"z">>}
        BY <1>4, <2>5 DEF LengthFlags
    <2>6. CASE d.len = <<"l", "l">>
        BY <1>4, <2>6 DEF LengthFlags
    <2>7. CASE d.len = <<"j">>
        BY <1>4, <2>7 DEF LengthFlags
    <2> QED
        BY <2>1, <2>2, <2>3, <2>4, <2>5, <2>6, <2>7
<1> HIDE DEF T
<1>7. CASE m = "flags"
    <2>1. o \in 2 .. i + 1 /\ f = {d.text[x] : x \in 2 .. o - 1} /\ w = 0 /\ p = 0
        BY <1>7 DEF Parsed, AtFlags
    <2>2. \A x \in 2 .. o - 1 : x \in 2 .. i
        BY <1>3, <2>1
    <2>3. f \subseteq Flags
        BY <2>1, <2>2, Behind
    <2> QED
        BY <1>1, <1>4, <2>1, <2>3 DEF T
<1>8. CASE m = "width"
    <2>1. /\ o \in i + 2 .. j + 1 /\ f = d.flags /\ _is_digit(d.text[o - 1])
          /\ w = Spelled(d.text, i, j)[o - 1] /\ p = 0
        BY <1>8 DEF Parsed, AtWidth
    <2>2. o - 1 \in i .. j /\ (j = i + 1 => o - 1 = j)
        BY <1>3, <2>1
    <2>3. d.text[o - 1] # "*"
        BY <2>1, Classes DEF _is_digit
    <2>4. /\ \A x \in i + 1 .. j : _is_digit(d.text[x])
          /\ d.width = Spelled(d.text, i, j)[j] /\ d.width \in Nat /\ d.width < T
        BY <2>2, <2>3, WidthCases DEF T
    <2>5. \A x \in i .. j : Spelled(d.text, i, j)[x] \in Nat /\ Spelled(d.text, i, j)[x] <= Number(d.text, i, j)
        BY <1>3, <2>4, SpelledFacts
    <2>6. w \in Nat /\ w <= d.width
        BY <2>1, <2>2, <2>4, <2>5 DEF Number
    <2>7. w \in 0 .. T - 1
        BY <1>1, <2>4, <2>6
    <2> QED
        BY <1>1, <1>2, <1>4, <2>1, <2>7 DEF T
<1>9. CASE m = "star"
    BY <1>1, <1>2, <1>5, <1>9 DEF Parsed, AfterWidth, T
<1>10. CASE m = "dot"
    BY <1>1, <1>2, <1>5, <1>10 DEF Parsed, AtDot, T
<1>11. CASE m = "precision"
    <2>1. /\ o \in j + 3 .. k + 1 /\ f = PrecisionFlags(d, j, k) /\ _is_digit(d.text[o - 1])
          /\ w = StandardWidth(d) /\ p = Spelled(d.text, j + 1, k)[o - 1]
        BY <1>11 DEF Parsed, AtPrecision
    <2> DEFINE a == j + 1
    <2>2. o - 1 \in a .. k /\ (k = j + 2 => o - 1 = k) /\ j # k /\ a \in Nat /\ a <= k /\ a + 1 = j + 2
        BY <1>3, <2>1
    <2>3. d.text[o - 1] # "*"
        BY <2>1, Classes DEF _is_digit
    <2>4. /\ \A x \in a + 1 .. k : _is_digit(d.text[x])
          /\ d.prec = Spelled(d.text, a, k)[k] /\ d.prec \in Nat /\ d.prec < T
        BY <2>2, <2>3, PrecisionCases DEF T
    <2> HIDE DEF a
    <2>5. \A x \in a .. k : Spelled(d.text, a, k)[x] \in Nat /\ Spelled(d.text, a, k)[x] <= Number(d.text, a, k)
        BY <1>3, <2>2, <2>4, SpelledFacts
    <2>6. p \in Nat /\ p <= d.prec
        BY <2>1, <2>2, <2>4, <2>5 DEF Number, a
    <2>7. p \in 0 .. T - 1
        BY <1>1, <2>4, <2>6
    <2> QED
        BY <1>2, <1>5, <2>1, <2>7 DEF T
<1>12. CASE m = "precision_star"
    BY <1>2, <1>5, <1>12 DEF Parsed, AfterPrecision, T
<1>13. CASE m = "length"
    BY <1>2, <1>5, <1>6, <1>13 DEF Parsed, AfterLength, T
<1> QED
    BY <1>7, <1>8, <1>9, <1>10, <1>11, <1>12, <1>13, Modes

\* The specifier ends the directive: all arguments are taken.
LEMMA SpecifierFacts ==
    ASSUME ParserInv, Specifier
    PROVE  LET d == call.directive
               b == Len(call.before)
               n == Len(d.text)
           IN  /\ Char = d.spec /\ b \in Nat /\ n \in Nat /\ n >= 2
               /\ mode \in DOMAIN Accepts /\ pos = b + n /\ va' = <<>>
               /\ d.spec \in Takes => Head(va) = d.value
               /\ ~d.none => Reads(d, flags)
               /\ Described(d)
               /\ flags \subseteq FlagNames /\ width \in 0 .. 2^IntBits - 1
               /\ precision \in 0 .. 2^IntBits - 1
PROOF
<1> DEFINE d == call.directive
           b == Len(call.before)
           n == Len(d.text)
<1>1. /\ mode # "text" /\ mode # "done" /\ Char \notin Accepts[mode]
      /\ va' = IF Char \in Takes THEN Tail(va) ELSE va
    BY DEF Specifier
<1>2. mode \in DOMAIN Accepts /\ call \in Calls /\ pos \in Nat
    BY <1>1 DEF ParserInv
<1>3. PICK i, j, k, l \in DOMAIN d.text :
          /\ Written(d, i, j, k, l) /\ Parsed(d, i, j, k, l, mode, Offset, flags, width, precision, va)
          /\ Char = d.text[Offset] /\ Offset \in 2 .. l + 1 /\ l \in Nat /\ n = l + 1
    BY <1>2, InDirective
<1>4. AfterLength(d, i, j, k, l, Offset, flags, width, precision, va)
    <2> HIDE DEF d
    <2> QED
        BY <1>1, <1>2, <1>3, LengthEnd
<1>5. /\ Offset = l + 1 /\ Char = d.spec
      /\ d.spec \in Takes => Head(va) = d.value /\ Tail(va) = <<>>
      /\ d.spec \notin Takes => va = <<>>
    <2> HIDE DEF d
    <2> QED
        BY <1>3, <1>4, SpecifierStep
<1>6. va' = <<>>
    BY <1>1, <1>5
<1>7. b \in Nat /\ n \in Nat /\ n >= 2 /\ pos = b + n
    <2>1. b \in Nat /\ Offset = pos - b
        BY <1>2, CharFacts DEF Offset
    <2> HIDE DEF b, n
    <2> QED
        BY <1>2, <1>3, <1>5, <2>1
<1>8. Described(d)
    <2> HIDE DEF d
    <2> QED
        BY <1>3, DescribedFacts
<1>9. ~d.none => Reads(d, flags)
    <2> HIDE DEF d
    <2> QED
        BY <1>3, <1>4, ReadsFacts
<1>10. flags \subseteq FlagNames /\ width \in 0 .. 2^IntBits - 1 /\ precision \in 0 .. 2^IntBits - 1
    <2> HIDE DEF d
    <2> QED
        BY <1>2, <1>3, RangeFacts
<1> QED
    BY <1>2, <1>5, <1>6, <1>7, <1>8, <1>9, <1>10

\* Behind the specifier the parser is in the text after the directive.
LEMMA SpecifierKeeps == ASSUME ParserInv, Specifier PROVE ParserInv'
PROOF
<1> DEFINE b == Len(call.before)
           n == Len(call.directive.text)
           u == Len(format)
<1>1. /\ b \in Nat /\ n \in Nat /\ pos = b + n /\ va' = <<>>
      /\ flags \subseteq FlagNames /\ width \in 0 .. 2^IntBits - 1
      /\ precision \in 0 .. 2^IntBits - 1
    BY SpecifierFacts
<1>2. /\ call' = call /\ pos' = pos + 1 /\ mode' = "text"
      /\ flags' = flags /\ width' = width /\ precision' = precision
    BY DEF Specifier
<1>3. call \in Calls /\ pos \in Nat
    BY DEF ParserInv
<1>4. u = b + n + Len(call.after) /\ Len(call.after) \in Nat
    BY <1>3, CharFacts
<1> DEFINE a == Len(call.after)
<1>5. pos' \in b + n + 1 .. u + 1 /\ pos' \in Nat
    <2> HIDE DEF b, n, u, a
    <2>1. u = b + n + a /\ a \in Nat
        BY <1>4 DEF a
    <2> QED
        BY <1>1, <1>2, <2>1
<1>6. format' = format
    BY <1>2 DEF format
<1>7. InText'
    BY <1>1, <1>2, <1>5, <1>6 DEF InText, FlagNames
<1>8. mode' \notin DOMAIN Accepts
    BY <1>2, Modes
<1> QED
    BY <1>2, <1>3, <1>5, <1>7, <1>8 DEF ParserInv, Accepts

\* In the text, a percent sign is the directive's and NUL is the end.
LEMMA TextFacts ==
    ASSUME ParserInv, mode = "text"
    PROVE  LET b == Len(call.before)
               n == Len(call.directive.text)
               u == Len(format)
           IN  /\ call \in Calls /\ pos \in Nat /\ b \in Nat /\ n \in Nat /\ n >= 2
               /\ Len(call.after) \in Nat /\ u = b + n + Len(call.after) /\ InText
               /\ Char \notin {"%", NUL} => \/ pos \in 1 .. b /\ va = call.directive.args
                                            \/ pos \in b + n + 1 .. u /\ va = <<>>
               /\ Char = "%" => pos = b + 1 /\ va = call.directive.args
               /\ Char = NUL => pos = u + 1 /\ va = <<>>
PROOF
<1> DEFINE d == call.directive
           b == Len(call.before)
           n == Len(call.directive.text)
           u == Len(format)
           a == Len(call.after)
<1>1. call \in Calls /\ pos \in Nat /\ InText
    BY DEF ParserInv
<1>2. /\ b \in Nat /\ n \in Nat /\ u \in Nat /\ u = b + n + a /\ a \in Nat
      /\ pos \in 1 .. b => Char \notin {"%", NUL}
      /\ Offset \in 1 .. n => Char = d.text[Offset]
      /\ pos \in b + n + 1 .. u => Char \notin {"%", NUL}
      /\ pos = u + 1 => Char = NUL
    BY <1>1, CharFacts
<1>3. n >= 2 /\ d.text[1] = "%"
    <2>1. PICK i, j, k, l \in DOMAIN d.text : Written(d, i, j, k, l)
        BY <1>1, CallWritten
    <2> HIDE DEF d
    <2>2. d.text[1] = "%"
        BY <2>1, Behind
    <2>3. 1 <= l /\ l \in Nat /\ Len(d.text) = l + 1
        <3>1. /\ i \in Nat /\ j \in Nat /\ k \in Nat /\ l \in Nat
              /\ 1 <= i /\ i <= j /\ j <= k /\ k <= l /\ Len(d.text) = l + 1
            BY <2>1, WrittenFacts
        <3> QED
            BY <3>1
    <2>4. Len(d.text) >= 2
        BY <2>3
    <2> QED
        BY <2>2, <2>4 DEF d
<1>4. pos = b + 1 => Char = "%"
    <2>1. pos = b + 1 => Offset = 1 /\ Offset \in 1 .. n
        <3>1. Offset = pos - b
            BY DEF Offset
        <3> HIDE DEF b, n
        <3> QED
            BY <1>1, <1>2, <1>3, <3>1
    <2> QED
        BY <1>2, <1>3, <2>1
<1>5. "%" # NUL
    BY Classes
<1>6. \/ pos \in 1 .. b + 1 /\ va = d.args
      \/ pos \in b + n + 1 .. u + 1 /\ va = <<>>
    BY <1>1 DEF InText
<1> HIDE DEF b, n, u, a
<1>7. pos \in 1 .. b + 1 => pos \in 1 .. b \/ pos = b + 1
    BY <1>2
<1>8. pos \in b + n + 1 .. u + 1 => pos \in b + n + 1 .. u \/ pos = u + 1
    BY <1>2
<1>9. /\ Char \notin {"%", NUL} => \/ pos \in 1 .. b /\ va = d.args
                                   \/ pos \in b + n + 1 .. u /\ va = <<>>
      /\ Char = "%" => pos = b + 1 /\ va = d.args
      /\ Char = NUL => pos = u + 1 /\ va = <<>>
    BY <1>2, <1>4, <1>5, <1>6, <1>7, <1>8
<1> QED
    BY <1>1, <1>2, <1>3, <1>9 DEF b, n, u, a

\* A character of the text.
LEMMA TextKeeps == ASSUME ParserInv, Text PROVE ParserInv'
PROOF
<1> DEFINE b == Len(call.before)
           n == Len(call.directive.text)
           u == Len(format)
<1>1. /\ mode = "text" /\ mode' = mode /\ Char \notin {"%", NUL} /\ pos' = pos + 1
      /\ call' = call /\ flags' = flags /\ width' = width /\ precision' = precision /\ va' = va
    BY DEF Text
<1>2. /\ call \in Calls /\ pos \in Nat /\ b \in Nat /\ n \in Nat /\ InText
      /\ \/ pos \in 1 .. b /\ va = call.directive.args
         \/ pos \in b + n + 1 .. u /\ va = <<>>
    BY <1>1, TextFacts
<1>3. format' = format
    BY <1>1 DEF format
<1>4. u \in Nat
    BY <1>2, CharFacts
<1>5. /\ pos \in 1 .. b => pos' \in 1 .. b + 1
      /\ pos \in b + n + 1 .. u => pos' \in b + n + 1 .. u + 1
      /\ pos' \in Nat
    <2> HIDE DEF b, n, u
    <2> QED
        BY <1>1, <1>2, <1>4
<1>6. InText'
    BY <1>1, <1>2, <1>3, <1>5 DEF InText, FlagNames
<1>7. mode' \notin DOMAIN Accepts
    BY <1>1, Modes
<1> QED
    BY <1>1, <1>2, <1>5, <1>6, <1>7 DEF ParserInv, Accepts

\* The directive begins.
LEMMA PercentKeeps == ASSUME ParserInv, Percent PROVE ParserInv'
PROOF
<1> DEFINE d == call.directive
           b == Len(call.before)
<1>1. /\ mode = "text" /\ mode' = "flags" /\ Char = "%" /\ pos' = pos + 1
      /\ call' = call /\ flags' = {} /\ width' = 0 /\ precision' = 0 /\ va' = va
    BY DEF Percent
<1>2. call \in Calls /\ pos \in Nat /\ pos = b + 1 /\ va = d.args /\ b \in Nat
    BY <1>1, TextFacts
<1>3. PICK i, j, k, l \in DOMAIN d.text : Parts(d, i, j, k, l) /\ Written(d, i, j, k, l)
    BY <1>2, CallWritten
<1> HIDE DEF d
<1>4. i \in Nat /\ 1 <= i
    BY <1>3, WrittenFacts
<1>5. pos' - b = 2 /\ pos' \in Nat
    <2> HIDE DEF b
    <2> QED
        BY <1>1, <1>2
<1>6. va = Rest(d, 0)
    <2> DEFINE e == d.args
               A == [n : Int, s : Seq(STRING)]
    <2>1. e \in Seq(A)
        BY <1>3 DEF Written, Typed
    <2>2. 0 \in Nat
        OBVIOUS
    <2> HIDE DEF e, A
    <2>3. SubSeq(e, 0 + 1, Len(e)) = e
        BY <2>1, <2>2, RestFacts
    <2> QED
        BY <1>2, <2>3 DEF Rest, e
<1>7. AtFlags(d, i, 2, {}, 0, 0, va)
    <2>1. 2 \in 2 .. i + 1 /\ 2 .. 2 - 1 = {}
        BY <1>4
    <2> QED
        BY <1>6, <2>1 DEF AtFlags
<1>8. Parsed(d, i, j, k, l, "flags", 2, {}, 0, 0, va)
    BY <1>7 DEF Parsed
<1>9. Parsed(d, i, j, k, l, mode', pos' - Len(call.before), flags', width', precision', va')
    BY <1>1, <1>5, <1>8
<1>10. mode' \in DOMAIN Accepts
    BY <1>1, Modes
<1> QED
    BY <1>1, <1>2, <1>3, <1>5, <1>9, <1>10, Carries DEF d

\* The format ends.
LEMMA TerminateKeeps == ASSUME ParserInv, Terminate PROVE ParserInv'
PROOF
<1> DEFINE b == Len(call.before)
           n == Len(call.directive.text)
           u == Len(format)
<1>1. /\ mode = "text" /\ mode' = "done" /\ Char = NUL /\ pos' = pos
      /\ call' = call /\ flags' = flags /\ width' = width /\ precision' = precision /\ va' = va
    BY DEF Terminate
<1>2. /\ call \in Calls /\ pos \in Nat /\ b \in Nat /\ n \in Nat /\ InText
      /\ Len(call.after) \in Nat /\ u = b + n + Len(call.after)
      /\ pos = u + 1 /\ va = <<>>
    BY <1>1, TextFacts
<1>3. format' = format
    BY <1>1 DEF format
<1>4. pos \in b + n + 1 .. u + 1
    <2> DEFINE a == Len(call.after)
    <2>1. u = b + n + a /\ a \in Nat /\ b \in Nat /\ n \in Nat /\ pos = u + 1
        BY <1>2
    <2> HIDE DEF b, n, u, a
    <2> QED
        BY <2>1
<1>5. InText'
    BY <1>1, <1>2, <1>3, <1>4 DEF InText, FlagNames
<1>6. mode' \notin DOMAIN Accepts
    BY <1>1, Modes
<1> QED
    BY <1>1, <1>2, <1>5, <1>6 DEF ParserInv, Accepts

\* out() and the uart leave the parser alone.
LEMMA ParserUnchanged ==
    ASSUME ParserInv, UNCHANGED <<call, pos, mode, flags, width, precision, va>>
    PROVE  ParserInv'
PROOF
<1>1. InText => InText'
    BY DEF InText, FlagNames, format
<1>2. Offset' = Offset
    BY DEF Offset
<1> QED
    BY <1>1, <1>2 DEF ParserInv, Accepts

\* The parser begins at the first character.
LEMMA ParserInit == ASSUME Init PROVE ParserInv
PROOF
<1> DEFINE T == 2^IntBits
<1>1. /\ call \in Calls /\ va = call.directive.args /\ pos = 1 /\ mode = "text"
      /\ flags = {} /\ width = 0 /\ precision = 0
    BY DEF Init
<1>2. 0 \in 0 .. T - 1
    <2>1. IntBits \in Nat
        BY PrintfAssumption DEF CallAssumption
    <2>2. T \in Nat \ {0}
        BY <2>1, PowerOfTwo
    <2> HIDE DEF T
    <2> QED
        BY <2>2
<1>3. pos \in 1 .. Len(call.before) + 1
    <2> DEFINE b == Len(call.before)
    <2>1. b \in Nat
        BY <1>1, FormatFacts
    <2> HIDE DEF b
    <2>2. pos \in 1 .. b + 1
        BY <1>1, <2>1
    <2> QED
        BY <2>2 DEF b
<1>4. InText
    BY <1>1, <1>2, <1>3 DEF InText
<1>5. mode \notin DOMAIN Accepts
    BY <1>1, Modes
<1> QED
    BY <1>1, <1>4, <1>5 DEF ParserInv

\* Every step keeps the invariant of the parser.
LEMMA ParserNext == ASSUME ParserInv, [Next]_vars PROVE ParserInv'
PROOF
<1>1. CASE Text
    BY <1>1, TextKeeps
<1>2. CASE Percent
    BY <1>2, PercentKeeps
<1>3. CASE Flag
    BY <1>3, FlagKeeps
<1>4. CASE WidthDigit
    BY <1>4, WidthDigitKeeps
<1>5. CASE WidthStar
    BY <1>5, WidthStarKeeps
<1>6. CASE Dot
    BY <1>6, DotKeeps
<1>7. CASE PrecisionDigit
    BY <1>7, PrecisionDigitKeeps
<1>8. CASE PrecisionStar
    BY <1>8, PrecisionStarKeeps
<1>9. CASE Length
    BY <1>9, LengthKeeps
<1>10. CASE Specifier
    BY <1>10, SpecifierKeeps
<1>11. CASE Out
    BY <1>11, ParserUnchanged DEF Out
<1>12. CASE Terminate
    BY <1>12, TerminateKeeps
<1>13. CASE Transmit
    BY <1>13, ParserUnchanged DEF Transmit
<1>14. CASE UNCHANGED vars
    BY <1>14, ParserUnchanged DEF vars
<1> QED
    BY <1>1, <1>2, <1>3, <1>4, <1>5, <1>6, <1>7, <1>8, <1>9, <1>10, <1>11, <1>12, <1>13, <1>14
       DEF Next, _vsnprintf

-----------------------------------------------------------------------------
(* The buffer: snprintf stores nothing past its size. *)

\* What a sequence holds.
Held(s) == {s[i] : i \in DOMAIN s}

\* Up to the terminator the buffer is as long as the text, or full.
BufferInv ==
    /\ call \in Calls /\ idx \in Nat /\ buffer \in Seq(Held(buffer))
    /\ mode = "done" => pending = <<>>
    /\ mode # "done" /\ call.sink = "buffer" => Len(buffer) = Atmost(idx, call.maxlen)
    /\ SnprintfContract

\* The size of a buffer is a size_t, so one less than it does not wrap.
LEMMA MaxlenFacts ==
    ASSUME NEW c \in Calls
    PROVE  c.maxlen \in Nat /\ (c.maxlen > 0 => (c.maxlen - 1) % 2^IntBits = c.maxlen - 1)
PROOF
<1> DEFINE m == c.maxlen
           k == 2^IntBits
<1>1. m \in 0 .. k - 1
    BY PrintfAssumption DEF CallAssumption
<1>2. k \in Int
    BY PrintfAssumption DEF CallAssumption
<1> HIDE DEF m, k
<1>3. m \in Nat /\ k \in Nat \ {0}
    BY <1>1, <1>2
<1>4. m > 0 => m - 1 \in 0 .. k - 1
    BY <1>1, <1>2
<1>5. m > 0 => (m - 1) % k = m - 1
    BY <1>3, <1>4
<1> QED
    BY <1>3, <1>5 DEF m, k

\* A character more in a sequence.
LEMMA AppendFacts ==
    ASSUME NEW s, s \in Seq(Held(s)), NEW c
    PROVE  /\ Append(s, c) \in Seq(Held(Append(s, c)))
           /\ Len(Append(s, c)) = Len(s) + 1
           /\ Append(s, c)[Len(s) + 1] = c
PROOF
<1> DEFINE T == Held(s) \cup {c}
           a == Append(s, c)
<1>1. s \in Seq(T)
    BY DEF Held
<1> HIDE DEF T
<1>2. c \in T
    BY DEF T
<1>3. a \in Seq(T) /\ Len(a) = Len(s) + 1 /\ a[Len(s) + 1] = c
    BY <1>1, <1>2
<1>4. a \in Seq(Held(a))
    BY <1>3 DEF Held
<1> QED
    BY <1>3, <1>4

\* A terminator behind the first n characters.
LEMMA TerminateFacts ==
    ASSUME NEW s, s \in Seq(Held(s)), NEW n \in Nat, n <= Len(s), NEW c
    PROVE  LET t == SubSeq(s, 1, n) \o <<c>>
           IN  t \in Seq(Held(t)) /\ Len(t) = n + 1 /\ t[n + 1] = c
PROOF
<1> DEFINE T == Held(s) \cup {c}
           t == SubSeq(s, 1, n) \o <<c>>
<1>1. s \in Seq(T)
    BY DEF Held
<1> HIDE DEF T
<1>2. <<c>> \in Seq(T) /\ Len(<<c>>) = 1 /\ <<c>>[1] = c
    BY DEF T
<1>3. SubSeq(s, 1, n) \in Seq(T) /\ Len(SubSeq(s, 1, n)) = n
    BY <1>1
<1> DEFINE a == SubSeq(s, 1, n)
           b == <<c>>
<1> HIDE DEF a, b
<1>4. a \o b \in Seq(T) /\ Len(a \o b) = n + 1 /\ (a \o b)[n + 1] = c
    BY <1>2, <1>3 DEF a, b
<1>5. t \in Seq(T) /\ Len(t) = n + 1 /\ t[n + 1] = c
    BY <1>4 DEF a, b
<1> HIDE DEF t
<1>6. t \in Seq(Held(t))
    BY <1>5 DEF Held
<1> QED
    BY <1>5, <1>6 DEF t

\* The parser touches neither the buffer nor the count of its characters.
LEMMA ParserStep ==
    ASSUME BufferInv, mode # "done", mode' # "done", UNCHANGED <<call, idx, buffer>>
    PROVE  BufferInv'
PROOF
    BY DEF BufferInv, SnprintfContract, Held

\* out() stores a character only where the buffer has room.
LEMMA OutStep == ASSUME BufferInv, Out PROVE BufferInv'
PROOF
<1> DEFINE c == Head(pending)
<1>1. /\ pending # <<>> /\ idx' = idx + 1 /\ call' = call /\ mode' = mode
      /\ buffer' = IF call.sink = "buffer" /\ _out_buffer(idx) THEN Append(buffer, c) ELSE buffer
    BY DEF Out
<1>2. /\ mode # "done" /\ call \in Calls /\ idx \in Nat /\ buffer \in Seq(Held(buffer))
      /\ call.sink = "buffer" => Len(buffer) = Atmost(idx, call.maxlen)
    BY <1>1 DEF BufferInv
<1> HIDE DEF c
<1> DEFINE m == call.maxlen
<1>3. m \in Nat
    BY <1>2, MaxlenFacts
<1>4. CASE call.sink = "buffer" /\ idx < m
    <2>1. buffer' = Append(buffer, c)
        BY <1>1, <1>4 DEF _out_buffer
    <2>2. buffer' \in Seq(Held(buffer')) /\ Len(buffer') = Len(buffer) + 1
        BY <1>2, <2>1, AppendFacts
    <2> HIDE DEF m
    <2>3. Len(buffer') = Atmost(idx + 1, m) /\ Len(buffer') <= m
        BY <1>2, <1>3, <1>4, <2>2 DEF Atmost, m
    <2> QED
        <3>1. /\ mode' # "done" /\ Len(buffer') = Atmost(idx', call'.maxlen)
              /\ Len(buffer') <= call'.maxlen
            BY <1>1, <1>2, <2>3 DEF m
        <3>2. call' \in Calls /\ idx' \in Nat
            BY <1>1, <1>2
        <3>3. buffer' \in Seq(Held(buffer)')
            BY <2>2 DEF Held
        <3> QED
            BY <3>1, <3>2, <3>3 DEF BufferInv, SnprintfContract
<1>5. CASE ~(call.sink = "buffer" /\ idx < m)
    <2>1. buffer' = buffer
        BY <1>1, <1>5 DEF _out_buffer
    <2>2. call.sink = "buffer" => Len(buffer) = Atmost(idx + 1, m) /\ Len(buffer) <= m
        <3> HIDE DEF m
        <3> QED
            BY <1>2, <1>3, <1>5 DEF Atmost, m
    <2> QED
        BY <1>1, <1>2, <2>1, <2>2 DEF BufferInv, SnprintfContract, Held, m
<1> QED
    BY <1>4, <1>5

\* The terminator goes behind the text, or over its last character.
LEMMA TerminateStep == ASSUME BufferInv, Terminate PROVE BufferInv'
PROOF
<1>1. /\ pending = <<>> /\ pending' = pending /\ mode = "text" /\ mode' = "done"
      /\ idx' = idx /\ call' = call
      /\ buffer' = IF call.sink = "buffer" /\ _out_buffer(Ending)
                   THEN SubSeq(buffer, 1, Ending) \o <<NUL>> ELSE buffer
    BY DEF Terminate
<1>2. /\ call \in Calls /\ idx \in Nat /\ buffer \in Seq(Held(buffer))
      /\ call.sink = "buffer" => Len(buffer) = Atmost(idx, call.maxlen)
    BY <1>1 DEF BufferInv
<1> DEFINE m == call.maxlen
           e == Ending
<1>3. m \in Nat /\ (m > 0 => (m - 1) % 2^IntBits = m - 1)
    BY <1>2, MaxlenFacts
<1>4. m > 0 => e = IF idx < m THEN idx ELSE m - 1
    BY <1>3 DEF Ending
<1>5. CASE call.sink # "buffer"
    BY <1>1, <1>2, <1>5 DEF BufferInv, SnprintfContract, Held
<1>6. CASE call.sink = "buffer" /\ m = 0
    <2>1. Len(buffer) = 0
        <3> HIDE DEF m
        <3> QED
            BY <1>2, <1>6 DEF Atmost, m
    <2>2. e = (m - 1) % 2^IntBits
        BY <1>2, <1>6 DEF Ending
    <2>3. ~_out_buffer(e)
        <3> DEFINE k == 2^IntBits
        <3>1. k \in Int /\ 0 \in 0 .. k - 1
            BY <1>2, <1>6, PrintfAssumption DEF CallAssumption
        <3> HIDE DEF k
        <3>2. (0 - 1) % k \in 0 .. k - 1
            BY <3>1
        <3>3. e = (0 - 1) % k
            BY <1>6, <2>2 DEF k
        <3> HIDE DEF e
        <3>4. ~(e < 0)
            BY <3>1, <3>2, <3>3
        <3> QED
            BY <1>6, <3>4 DEF _out_buffer
    <2>4. buffer' = buffer
        BY <1>1, <2>3
    <2> QED
        <3>0. call'.maxlen = 0 /\ Len(buffer') = 0
            BY <1>1, <1>6, <2>1, <2>4
        <3>1. ~(call'.maxlen > 0) /\ Len(buffer') <= call'.maxlen
            BY <3>0
        <3>2. /\ call' \in Calls /\ idx' \in Nat /\ buffer' \in Seq(Held(buffer)')
              /\ pending' = <<>> /\ mode' = "done"
            BY <1>1, <1>2, <2>4 DEF Held
        <3> QED
            BY <3>1, <3>2 DEF BufferInv, SnprintfContract
<1>7. CASE call.sink = "buffer" /\ m > 0
    <2> HIDE DEF m, e
    <2>1. e \in Nat /\ e < m /\ e <= Len(buffer) /\ e + 1 = Atmost(idx + 1, m)
        BY <1>2, <1>3, <1>4, <1>7 DEF Atmost, m
    <2>2. buffer' = SubSeq(buffer, 1, e) \o <<NUL>>
        BY <1>1, <1>7, <2>1 DEF _out_buffer, m, e
    <2>3. buffer' \in Seq(Held(buffer')) /\ Len(buffer') = e + 1 /\ buffer'[e + 1] = NUL
        BY <1>2, <2>1, <2>2, TerminateFacts
    <2>4. Len(buffer') <= m
        BY <1>3, <2>1, <2>3
    <2> QED
        <3>1. (mode = "done")' /\ Len(buffer') = Atmost(idx' + 1, call'.maxlen)
                  /\ buffer'[Len(buffer')] = NUL /\ Len(buffer') <= call'.maxlen
            BY <1>1, <2>1, <2>3, <2>4 DEF m
        <3>2. call' \in Calls /\ idx' \in Nat /\ buffer' \in Seq(Held(buffer)') /\ pending' = <<>>
            BY <1>1, <1>2, <2>3 DEF Held
        <3> QED
            BY <3>1, <3>2 DEF BufferInv, SnprintfContract
<1> QED
    BY <1>3, <1>5, <1>6, <1>7

\* printf.h:81: vsnprintf_ returns a value equal to or larger than count when
\* the text was truncated, and stores nothing behind the buffer.
THEOREM SnprintfTheorem == Spec => []SnprintfContract
PROOF
<1>1. Init => BufferInv
    <2> SUFFICES ASSUME Init PROVE BufferInv
        OBVIOUS
    <2>1. call \in Calls /\ mode = "text" /\ idx = 0 /\ buffer = <<>> /\ Len(buffer) = 0
        BY DEF Init
    <2>2. call.maxlen \in Nat
        BY <2>1, MaxlenFacts
    <2>3. Len(buffer) <= call.maxlen /\ Len(buffer) = Atmost(idx, call.maxlen)
        BY <2>1, <2>2 DEF Atmost
    <2>4. buffer \in Seq(Held(buffer))
        BY <2>1
    <2> QED
        BY <2>1, <2>3, <2>4 DEF BufferInv, SnprintfContract
<1>2. BufferInv /\ [Next]_vars => BufferInv'
    <2> SUFFICES ASSUME BufferInv, [Next]_vars PROVE BufferInv'
        OBVIOUS
    <2>1. CASE Text \/ Percent
        BY <2>1, ParserStep DEF Text, Percent
    <2>2. CASE Flag \/ WidthDigit \/ WidthStar \/ Dot \/ PrecisionDigit \/ PrecisionStar \/ Length
        <3>1. \E parts : Reading(parts) /\ "done" \notin parts
            BY <2>2 DEF Flag, WidthDigit, WidthStar, Dot, PrecisionDigit, PrecisionStar, Length,
                        Accepts
        <3>2. mode # "done" /\ UNCHANGED <<call, idx, buffer>>
            BY <3>1 DEF Reading
        <3>3. mode' # "done"
            BY <2>2, <3>2 DEF Flag, WidthDigit, WidthStar, Dot, PrecisionDigit, PrecisionStar,
                              Length
        <3> QED
            BY <3>2, <3>3, ParserStep
    <2>3. CASE Specifier
        BY <2>3, ParserStep DEF Specifier
    <2>4. CASE Out
        BY <2>4, OutStep
    <2>5. CASE Terminate
        BY <2>5, TerminateStep
    <2>6. CASE Transmit \/ UNCHANGED vars
        <3>1. UNCHANGED <<call, mode, pending, idx, buffer>>
            BY <2>6 DEF Transmit, vars
        <3> QED
            BY <3>1 DEF BufferInv, SnprintfContract, Held
    <2> QED
        BY <2>1, <2>2, <2>3, <2>4, <2>5, <2>6 DEF Next, _vsnprintf
<1>3. BufferInv => SnprintfContract
    BY DEF BufferInv
<1> QED
    BY <1>1, <1>2, <1>3, PTL DEF Spec

-----------------------------------------------------------------------------
(* The queue of the uart, and the type invariant. *)

QueueInv ==
    /\ idx \in Nat
    /\ fifo \in Seq(Held(fifo)) /\ wire \in Seq(Held(wire))
    /\ Len(fifo) <= FIFO
    /\ call.sink # "char" => fifo = <<>>
    /\ mode # "text" => pending = <<>>

\* A character less in a sequence.
LEMMA TailFacts ==
    ASSUME NEW s, s \in Seq(Held(s)), s # <<>>
    PROVE  Tail(s) \in Seq(Held(Tail(s))) /\ Len(Tail(s)) = Len(s) - 1 /\ Len(s) \in Nat
PROOF
<1> DEFINE S == Held(s)
           t == Tail(s)
<1> HIDE DEF S
<1>1. s \in Seq(S)
    BY DEF S
<1>2. t \in Seq(S) /\ Len(t) = Len(s) - 1
    BY <1>1
<1> HIDE DEF t
<1>3. t \in Seq(Held(t))
    BY <1>2 DEF Held
<1> QED
    BY <1>1, <1>2, <1>3 DEF t

\* The queue has room for a character.
LEMMA FifoSize == FIFO \in Nat \ {0}
PROOF
    BY PrintfAssumption DEF CallAssumption

\* uart_write_char waits for room.
LEMMA QueueOut == ASSUME QueueInv, Out PROVE QueueInv'
PROOF
<1> DEFINE c == Head(pending)
<1>1. /\ pending # <<>> /\ idx' = idx + 1 /\ call' = call /\ mode' = mode
      /\ wire' = IF call.sink = "function" /\ c # NUL THEN Append(wire, c) ELSE wire
      /\ IF call.sink = "char" /\ c # NUL THEN Len(fifo) < FIFO /\ fifo' = Append(fifo, c)
         ELSE fifo' = fifo
    BY DEF Out, uart_write_char
<1>2. /\ mode = "text" /\ idx \in Nat /\ fifo \in Seq(Held(fifo)) /\ wire \in Seq(Held(wire))
      /\ Len(fifo) <= FIFO /\ (call.sink # "char" => fifo = <<>>)
    BY <1>1 DEF QueueInv
<1> HIDE DEF c
<1>3. wire' \in Seq(Held(wire'))
    BY <1>1, <1>2, AppendFacts
<1>4. fifo' \in Seq(Held(fifo')) /\ Len(fifo') <= FIFO
    <2>1. CASE call.sink = "char" /\ c # NUL
        <3>1. Len(fifo) < FIFO /\ fifo' = Append(fifo, c)
            BY <1>1, <2>1
        <3>2. fifo' \in Seq(Held(fifo')) /\ Len(fifo') = Len(fifo) + 1
            BY <1>2, <3>1, AppendFacts
        <3>3. Len(fifo) \in Nat
            BY <1>2
        <3> QED
            BY <3>1, <3>2, <3>3, FifoSize
    <2>2. CASE ~(call.sink = "char" /\ c # NUL)
        BY <1>1, <1>2, <2>2
    <2> QED
        BY <2>1, <2>2
<1>5. call'.sink # "char" => fifo' = <<>>
    BY <1>1, <1>2
<1>6. idx' \in Nat /\ mode' = "text"
    BY <1>1, <1>2
<1> QED
    BY <1>3, <1>4, <1>5, <1>6 DEF QueueInv, Held

\* The uart makes room.
LEMMA QueueTransmit == ASSUME QueueInv, Transmit PROVE QueueInv'
PROOF
<1>1. /\ fifo # <<>> /\ wire' = Append(wire, Head(fifo)) /\ fifo' = Tail(fifo)
      /\ UNCHANGED <<call, mode, pending, idx>>
    BY DEF Transmit
<1>2. /\ idx \in Nat /\ fifo \in Seq(Held(fifo)) /\ wire \in Seq(Held(wire))
      /\ Len(fifo) <= FIFO /\ call.sink = "char" /\ (mode # "text" => pending = <<>>)
    BY <1>1 DEF QueueInv
<1>3. wire' \in Seq(Held(wire'))
    BY <1>1, <1>2, AppendFacts
<1>4. fifo' \in Seq(Held(fifo')) /\ Len(fifo') = Len(fifo) - 1 /\ Len(fifo) \in Nat
    BY <1>1, <1>2, TailFacts
<1>5. Len(fifo') <= FIFO
    BY <1>2, <1>4, FifoSize
<1> QED
    BY <1>1, <1>2, <1>3, <1>4, <1>5 DEF QueueInv, Held

\* Every step keeps the queue in its size.
LEMMA QueueNext == ASSUME QueueInv, [Next]_vars PROVE QueueInv'
PROOF
<1>1. CASE Text
    BY <1>1 DEF Text, QueueInv, Held
<1>2. CASE Percent
    BY <1>2 DEF Percent, QueueInv, Held
<1>3. CASE Flag \/ WidthDigit \/ WidthStar \/ Dot \/ PrecisionDigit \/ PrecisionStar \/ Length
    <2>1. pending = <<>> /\ UNCHANGED <<call, pending, idx, fifo, wire>>
        BY <1>3 DEF Flag, WidthDigit, WidthStar, Dot, PrecisionDigit, PrecisionStar, Length, Reading
    <2> QED
        BY <2>1 DEF QueueInv, Held
<1>4. CASE Specifier
    BY <1>4 DEF Specifier, QueueInv, Held
<1>5. CASE Out
    BY <1>5, QueueOut
<1>6. CASE Terminate
    BY <1>6 DEF Terminate, QueueInv, Held
<1>7. CASE Transmit
    BY <1>7, QueueTransmit
<1>8. CASE UNCHANGED vars
    BY <1>8 DEF vars, QueueInv, Held
<1> QED
    BY <1>1, <1>2, <1>3, <1>4, <1>5, <1>6, <1>7, <1>8 DEF Next, _vsnprintf

\* The queue begins empty.
LEMMA QueueInit == ASSUME Init PROVE QueueInv
PROOF
<1>1. fifo = <<>> /\ wire = <<>> /\ pending = <<>> /\ idx = 0 /\ mode = "text"
    BY DEF Init
<1>2. Len(fifo) <= FIFO
    BY <1>1, FifoSize
<1> QED
    BY <1>1, <1>2 DEF QueueInv

\* The variables are in range.
LEMMA TypeFromInv == ASSUME ParserInv, QueueInv PROVE TypeOK
PROOF
<1> DEFINE b == Len(call.before)
           n == Len(call.directive.text)
           u == Len(format)
           a == Len(call.after)
<1>1. call \in Calls /\ pos \in Nat /\ mode \in DOMAIN Accepts \cup {"text", "done"}
    BY DEF ParserInv
<1>2. b \in Nat /\ n \in Nat /\ a \in Nat /\ u = b + n + a
    BY <1>1, CharFacts
<1>3. idx \in Nat /\ Len(fifo) <= FIFO
    BY DEF QueueInv
<1>4. CASE mode \in DOMAIN Accepts
    <2>1. PICK i, j, k, l \in DOMAIN call.directive.text :
              /\ Written(call.directive, i, j, k, l)
              /\ Parsed(call.directive, i, j, k, l, mode, Offset, flags, width, precision, va)
              /\ Offset \in 2 .. l + 1 /\ l \in Nat /\ n = l + 1
        BY <1>4, InDirective
    <2>2. /\ flags \subseteq FlagNames /\ width \in 0 .. 2^IntBits - 1
          /\ precision \in 0 .. 2^IntBits - 1
        BY <1>4, <2>1, RangeFacts
    <2>3. pos \in 1 .. u + 1
        <3>1. Offset = pos - b /\ b \in Nat /\ n \in Nat /\ a \in Nat /\ u = b + n + a
              /\ Offset \in 2 .. l + 1 /\ l \in Nat /\ n = l + 1 /\ pos \in Nat
            BY <1>1, <1>2, <2>1 DEF Offset
        <3> HIDE DEF b, n, u, a
        <3> QED
            BY <3>1
    <2>4. mode # "done"
        BY <1>4, Modes
    <2> QED
        BY <1>1, <1>3, <2>2, <2>3, <2>4 DEF TypeOK, FlagNames
<1>5. CASE mode \in {"text", "done"}
    <2>1. /\ flags \subseteq FlagNames /\ width \in 0 .. 2^IntBits - 1
          /\ precision \in 0 .. 2^IntBits - 1
          /\ \/ mode = "text" /\ pos \in 1 .. b + 1
             \/ pos \in b + n + 1 .. u + 1 /\ va = <<>>
        BY <1>5 DEF ParserInv, InText
    <2>2. pos \in 1 .. u + 1 /\ (mode = "done" => va = <<>>)
        <3>1. "text" # "done" /\ b \in Nat /\ n \in Nat /\ a \in Nat /\ u = b + n + a
            BY <1>2
        <3> HIDE DEF b, n, u, a
        <3>2. pos \in 1 .. u + 1
            BY <2>1, <3>1
        <3> QED
            BY <2>1, <3>2
    <2> QED
        BY <1>1, <1>3, <2>1, <2>2 DEF TypeOK, FlagNames
<1> QED
    BY <1>1, <1>4, <1>5

(***************************************************************************)
(* Whatever a call prints, the position of the parser, the flags, the      *)
(* width, the precision and the queue stay in range, and the arguments of  *)
(* the call suffice for what va_arg takes.                                 *)
(***************************************************************************)
THEOREM TypeTheorem == Spec => []TypeOK
PROOF
<1>1. Init => ParserInv /\ QueueInv
    BY ParserInit, QueueInit
<1>2. ParserInv /\ QueueInv /\ [Next]_vars => ParserInv' /\ QueueInv'
    BY ParserNext, QueueNext
<1>3. ParserInv /\ QueueInv => TypeOK
    BY TypeFromInv
<1> QED
    BY <1>1, <1>2, <1>3, PTL DEF Spec

-----------------------------------------------------------------------------
(* The texts that leave: the standard's is a sequence, and so is the whole.*)

\* A sequence is one over what it holds.
LEMMA HeldSeq == ASSUME NEW S, NEW s \in Seq(S) PROVE s \in Seq(Held(s)) /\ Held(s) \subseteq S
PROOF
    BY DEF Held

\* Two texts make a text.
LEMMA HeldConcat ==
    ASSUME NEW s, s \in Seq(Held(s)), NEW t, t \in Seq(Held(t))
    PROVE  s \o t \in Seq(Held(s \o t))
PROOF
<1> DEFINE S == Held(s) \cup Held(t)
<1>1. s \in Seq(S) /\ t \in Seq(S)
    <2>1. Held(s) \subseteq S /\ Held(t) \subseteq S
        OBVIOUS
    <2> HIDE DEF S
    <2> QED
        BY <2>1, SeqMonotone
<1> HIDE DEF S
<1>2. s \o t \in Seq(S)
    BY <1>1, ConcatProperties
<1> QED
    BY <1>2, HeldSeq

\* A character repeated is a text.
LEMMA HeldRepeat == ASSUME NEW c, NEW n \in Int PROVE Repeat(c, n) \in Seq(Held(Repeat(c, n)))
PROOF
<1>1. Repeat(c, n) \in Seq({c})
    BY RepeatFacts
<1> QED
    BY <1>1, HeldSeq

\* The text the standard asks for is a sequence.
LEMMA StandardSeq ==
    ASSUME NEW d, Described(d), Conforms(d)
    PROVE  Standard(d) \in Seq(Held(Standard(d)))
PROOF
<1> DEFINE W == StandardWidth(d)
           left == StandardLeft(d)
<1>1. W \in Int
    BY DEF StandardWidth, Described
<1>2. ASSUME NEW t, t \in Seq(Held(t))
      PROVE  Justified(t, W, left) \in Seq(Held(Justified(t, W, left)))
    <2> DEFINE r == Repeat(SPACE, W - Len(t))
    <2>1. W - Len(t) \in Int
        <3>1. Len(t) \in Nat
            BY <1>2
        <3> HIDE DEF W
        <3> QED
            BY <1>1, <3>1
    <2>2. r \in Seq(Held(r))
        <3> DEFINE m == W - Len(t)
        <3> HIDE DEF m
        <3>1. Repeat(SPACE, m) \in Seq(Held(Repeat(SPACE, m)))
            BY <2>1, HeldRepeat DEF m
        <3> QED
            BY <3>1 DEF m
    <2> HIDE DEF W, left
    <2>3. Justified(t, W, left) = IF left THEN t \o r ELSE r \o t
        BY DEF Justified
    <2> HIDE DEF r
    <2> QED
        BY <1>2, <2>2, <2>3, HeldConcat
<1>3. CASE d.spec = "%"
    <2>1. Standard(d) = <<"%">>
        BY <1>3 DEF Standard
    <2>2. <<"%">> \in Seq({"%"})
        OBVIOUS
    <2> QED
        BY <2>1, <2>2, HeldSeq
<1>4. CASE d.spec = "c"
    <2> DEFINE s == d.value.s
    <2>1. s \in Seq(STRING)
        BY <1>4 DEF Described, Takes
    <2>2. Standard(d) = Justified(s, W, left)
        BY <1>4 DEF Standard
    <2> HIDE DEF s, W, left
    <2>3. s \in Seq(Held(s))
        BY <2>1, HeldSeq
    <2> QED
        BY <1>2, <2>2, <2>3
<1>5. CASE d.spec = "s"
    <2> DEFINE s == d.value.s
               n == Atmost(d.prec, Len(s))
               t == IF d.prec < 0 THEN s ELSE SubSeq(s, 1, n)
    <2>1. s \in Seq(STRING) /\ d.prec \in Int
        BY <1>5 DEF Described, Takes
    <2>2. Standard(d) = Justified(t, W, left)
        BY <1>5 DEF Standard
    <2>3. n \in Int /\ n <= Len(s)
        <3>1. Len(s) \in Nat
            BY <2>1
        <3> HIDE DEF s
        <3> QED
            BY <2>1, <3>1 DEF Atmost
    <2> HIDE DEF s, W, left, n
    <2>4. SubSeq(s, 1, n) \in Seq(STRING)
        <3> DEFINE S == STRING
        <3>1. s \in Seq(S)
            BY <2>1
        <3> HIDE DEF S
        <3>2. \A x \in 1 .. n : s[x] \in S
            BY <2>3, <3>1
        <3>3. SubSeq(s, 1, n) \in Seq(S)
            BY <2>3, <3>2, SubSeqProperties
        <3> QED
            BY <3>3 DEF S
    <2>5. t \in Seq(Held(t))
        BY <2>1, <2>4, HeldSeq
    <2> HIDE DEF t
    <2> QED
        BY <1>2, <2>2, <2>5
<1>6. CASE d.spec \in IntegerSpecs
    <2> DEFINE sign == StandardSign(d)
               SD == StandardDigits(d)
               SZ == StandardZeros(d)
               Z == Repeat("0", SZ)
               text == sign \o Z \o SD
               n == StandardNumber(d)
    <2>1. Standard(d) = Justified(text, W, left)
        BY <1>6, StandardOfNumber DEF IntegerSpecs
    <2>2. sign \in Seq(Held(sign))
        <3> DEFINE S == {"-", "+", SPACE}
        <3>1. <<>> \in Seq(S) /\ \A c \in S : <<c>> \in Seq(S)
            OBVIOUS
        <3>2. "-" \in S /\ "+" \in S /\ SPACE \in S
            OBVIOUS
        <3> HIDE DEF S
        <3>3. sign \in Seq(S)
            <4> DEFINE F == {c \in {"+", SPACE} : c \in d.flags /\ d.spec \in {"d", "i"}}
            <4>1. /\ "+" \in F <=> "+" \in d.flags /\ d.spec \in {"d", "i"}
                  /\ SPACE \in F <=> SPACE \in d.flags /\ d.spec \in {"d", "i"}
                OBVIOUS
            <4> HIDE DEF F
            <4>2. Sign(n < 0, F) = sign
                BY <1>6, <4>1, StandardSignIs
            <4>3. Sign(n < 0, F) \in Seq({"-", "+", SPACE})
                BY SignFacts
            <4> QED
                BY <4>2, <4>3 DEF S
        <3> QED
            BY <3>3, HeldSeq
    <2>3. SD \in Seq(Held(SD))
        <3> DEFINE v == IF n < 0 THEN 0 - n ELSE n
                   g == IF d.spec = "X" THEN {"upper"} ELSE {}
                   letters == IF d.spec = "X" THEN Upper ELSE Lower
                   base == StandardBase(d)
                   N == Numeral(v, base, letters)
                   E == Digits(v, base, g)
        <3>1. n \in Int /\ n < 2^LongLongBits /\ 0 - n < 2^LongLongBits
            BY <1>6, NumberRange DEF IntegerSpecs, Takes
        <3>2. base \in 2..16
            BY <1>6, BaseFacts
        <3>3. letters = IF "upper" \in g THEN Upper ELSE Lower
            OBVIOUS
        <3>4. SD = IF d.prec = 0 /\ n = 0 THEN <<>> ELSE N
            BY DEF StandardDigits
        <3>5. v \in Nat /\ v < 2^LongLongBits
            <4> HIDE DEF n
            <4> QED
                BY <3>1
        <3> HIDE DEF v, g, letters, base
        <3>6. Reverse(E) = N /\ E \in Seq(Letters(g))
            BY <3>2, <3>3, <3>5, DigitsNumeral
        <3> HIDE DEF E
        <3>7. N \in Seq(Letters(g))
            BY <3>6, ReverseFacts
        <3>8. <<>> \in Seq(Letters(g))
            OBVIOUS
        <3> HIDE DEF N, SD
        <3>9. SD \in Seq(Letters(g))
            BY <3>4, <3>7, <3>8
        <3> QED
            BY <3>9, HeldSeq
    <2>4. Z \in Seq(Held(Z))
        <3>1. Len(sign) \in Nat /\ Len(SD) \in Nat /\ d.prec \in Int
            BY <2>2, <2>3 DEF Described
        <3>2. SZ = IF d.prec >= 0 THEN d.prec - Len(SD)
                   ELSE IF "0" \in d.flags /\ ~left THEN W - Len(sign) - Len(SD) ELSE 0
            BY DEF StandardZeros
        <3> HIDE DEF sign, SD, SZ, W, left
        <3>3. SZ \in Int
            BY <1>1, <3>1, <3>2
        <3> QED
            BY <3>3, HeldRepeat
    <2> HIDE DEF sign, SD, Z
    <2>5. sign \o Z \in Seq(Held(sign \o Z))
        BY <2>2, <2>4, HeldConcat
    <2>6. text \in Seq(Held(text))
        <3> DEFINE q == sign \o Z
        <3>1. q \in Seq(Held(q))
            BY <2>5
        <3> HIDE DEF q
        <3>2. q \o SD \in Seq(Held(q \o SD))
            BY <2>3, <3>1, HeldConcat
        <3> QED
            BY <3>2 DEF q
    <2> HIDE DEF text, W, left
    <2> QED
        BY <1>2, <2>1, <2>6
<1> QED
    BY <1>3, <1>4, <1>5, <1>6 DEF Described, Conforms, Takes, IntegerSpecs

\* The expected text, place by place.
LEMMA ExpectedFacts ==
    ASSUME call \in Calls, Standard(call.directive) \in Seq(Held(Standard(call.directive)))
    PROVE  LET b == Len(call.before)
               n == Len(Standard(call.directive))
               a == Len(call.after)
               s == Expected
           IN  /\ s \in Seq(Held(s)) /\ b \in Nat /\ n \in Nat /\ a \in Nat /\ Len(s) = b + n + a
               /\ \A x \in 1 .. b : s[x] = call.before[x]
               /\ \A x \in 1 .. n : s[b + x] = Standard(call.directive)[x]
               /\ \A x \in 1 .. a : s[b + n + x] = call.after[x]
PROOF
<1> DEFINE B == call.before
           T == Standard(call.directive)
           A == call.after
           S == Plain \cup Held(T)
<1>1. B \in Seq(Plain) /\ A \in Seq(Plain) /\ T \in Seq(Held(T))
    BY FormatFacts
<1> HIDE DEF T
<1>2. Plain \subseteq S /\ Held(T) \subseteq S
    OBVIOUS
<1> HIDE DEF B, A, S
<1>3. B \in Seq(S) /\ A \in Seq(S) /\ T \in Seq(S)
    BY <1>1, <1>2, SeqMonotone
<1> DEFINE b == Len(B)
           n == Len(T)
           a == Len(A)
           s == B \o T \o A
<1>4. /\ s \in Seq(S) /\ b \in Nat /\ n \in Nat /\ a \in Nat /\ Len(s) = b + n + a
      /\ \A x \in 1 .. b : s[x] = B[x]
      /\ \A x \in 1 .. n : s[b + x] = T[x]
      /\ \A x \in 1 .. a : s[b + n + x] = A[x]
    BY <1>3, ThreeParts
<1>5. s = Expected
    BY DEF Expected, B, T, A
<1> HIDE DEF s
<1>6. s \in Seq(Held(s))
    BY <1>4, HeldSeq
<1> QED
    BY <1>4, <1>5, <1>6 DEF B, T, A

\* The characters of a text from behind one place up to another.
LEMMA PartFacts ==
    ASSUME NEW S, NEW e \in Seq(S), NEW i \in Nat, NEW u \in Nat, i <= u, u <= Len(e)
    PROVE  /\ SubSeq(e, i + 1, u) = <<>> <=> i = u
           /\ i < u => Head(SubSeq(e, i + 1, u)) = e[i + 1]
                       /\ Tail(SubSeq(e, i + 1, u)) = SubSeq(e, (i + 1) + 1, u)
PROOF
<1> DEFINE n == Len(e)
<1>1. n \in Nat
    OBVIOUS
<1>2. CASE i = u
    <2>1. u < i + 1 /\ i + 1 \in Int /\ u \in Int
        BY <1>2
    <2>2. SubSeq(e, i + 1, u) = <<>>
        BY <2>1, SubSeqEmpty
    <2> QED
        BY <1>2, <2>2
<1>3. CASE i < u
    <2> DEFINE m == i + 1
    <2>1. m \in 1 .. Len(e) /\ u \in m .. Len(e) /\ m \in Int /\ u \in Int /\ m <= u
        BY <1>1, <1>3
    <2> HIDE DEF m
    <2>2. Head(SubSeq(e, m, u)) = e[m] /\ Tail(SubSeq(e, m, u)) = SubSeq(e, m + 1, u)
        BY <2>1, HeadTailOfSubSeq
    <2>3. \A x \in m .. u : e[x] \in S
        BY <2>1
    <2>4. Len(SubSeq(e, m, u)) = u - m + 1
        BY <2>1, <2>3, SubSeqProperties
    <2>5. Len(SubSeq(e, m, u)) # 0
        BY <2>1, <2>4
    <2>6. SubSeq(e, m, u) # <<>>
        <3> DEFINE q == SubSeq(e, m, u)
        <3>1. Len(q) # 0
            BY <2>5
        <3> HIDE DEF q
        <3>2. q # <<>>
            BY <3>1
        <3> QED
            BY <3>2 DEF q
    <2> QED
        BY <1>3, <2>2, <2>6 DEF m
<1> QED
    BY <1>2, <1>3

\* The part that is one character.
LEMMA PartOfOne ==
    ASSUME NEW S, NEW e \in Seq(S), NEW i \in Nat, i < Len(e)
    PROVE  SubSeq(e, i + 1, i + 1) = <<e[i + 1]>>
PROOF
<1> DEFINE m == i + 1
<1>1. m \in 1 .. Len(e) /\ m \in m .. Len(e) /\ m - 1 < m /\ m - 1 \in Int /\ m \in Int
    <2>1. Len(e) \in Nat
        OBVIOUS
    <2> QED
        BY <2>1
<1> HIDE DEF m
<1>2. SubSeq(e, m, m) = SubSeq(e, m, m - 1) \o <<e[m]>>
    BY <1>1, SubSeqRecursiveSecond
<1>3. SubSeq(e, m, m - 1) = <<>>
    BY <1>1, SubSeqEmpty
<1>4. <<e[m]>> \in Seq(S)
    BY <1>1
<1>5. <<>> \o <<e[m]>> = <<e[m]>>
    <2> DEFINE z == <<e[m]>>
    <2>1. z \in Seq(S)
        BY <1>4
    <2> HIDE DEF z
    <2>2. <<>> \o z = z
        BY <2>1, ConcatEmptySeq
    <2> QED
        BY <2>2 DEF z
<1>6. SubSeq(e, m, m) = <<e[m]>>
    BY <1>2, <1>3, <1>5
<1> QED
    BY <1>6 DEF m

\* A prefix and the next character.
LEMMA PrefixOfMore ==
    ASSUME NEW S, NEW e \in Seq(S), NEW i \in Nat, i < Len(e)
    PROVE  SubSeq(e, 1, i + 1) = Append(SubSeq(e, 1, i), e[i + 1])
PROOF
<1> DEFINE m == i + 1
           p == SubSeq(e, 1, i)
<1>1. m \in 1 .. Len(e) /\ 1 \in 1 .. Len(e) /\ m - 1 = i
    <2>1. Len(e) \in Nat
        OBVIOUS
    <2> QED
        BY <2>1
<1>2. \A x \in 1 .. i : e[x] \in S
    BY <1>1
<1>3. p \in Seq(S)
    BY <1>2, SubSeqProperties
<1> HIDE DEF m
<1>4. SubSeq(e, 1, m) = SubSeq(e, 1, m - 1) \o <<e[m]>>
    BY <1>1, SubSeqRecursiveSecond
<1>5. e[m] \in S
    BY <1>1
<1>6. SubSeq(e, 1, m) = p \o <<e[m]>>
    BY <1>1, <1>4
<1> HIDE DEF p
<1>7. Append(p, e[m]) = p \o <<e[m]>>
    BY <1>3, <1>5, AppendIsConcat
<1> QED
    BY <1>6, <1>7 DEF p, m

\* The shorter of two prefixes.
LEMMA PrefixOfPrefix ==
    ASSUME NEW S, NEW e \in Seq(S), NEW x \in Nat, NEW y \in Nat, y <= x, x <= Len(e)
    PROVE  SubSeq(SubSeq(e, 1, x), 1, y) = SubSeq(e, 1, y)
PROOF
<1> DEFINE s == SubSeq(e, 1, x)
           t == SubSeq(s, 1, y)
           r == SubSeq(e, 1, y)
<1>1. (\A z \in 1 .. x : e[z] \in S) /\ (\A z \in 1 .. y : e[z] \in S)
    <2>1. Len(e) \in Nat /\ \A z \in 1 .. Len(e) : e[z] \in S
        OBVIOUS
    <2> QED
        BY <2>1
<1>2. s \in Seq(S) /\ Len(s) = x /\ \A z \in 1 .. x : s[z] = e[z]
    <2>1. /\ s \in Seq(S) /\ Len(s) = IF 1 <= x THEN (x - 1) + 1 ELSE 0
          /\ \A z \in 1 .. (x - 1) + 1 : s[z] = e[(1 + z) - 1]
        BY <1>1, SubSeqProperties
    <2> HIDE DEF s
    <2> QED
        BY <2>1
<1>3. r \in Seq(S) /\ Len(r) = y /\ \A z \in 1 .. y : r[z] = e[z]
    <2>1. /\ r \in Seq(S) /\ Len(r) = IF 1 <= y THEN (y - 1) + 1 ELSE 0
          /\ \A z \in 1 .. (y - 1) + 1 : r[z] = e[(1 + z) - 1]
        BY <1>1, SubSeqProperties
    <2> HIDE DEF r
    <2> QED
        BY <2>1
<1> HIDE DEF s, r
<1>4. t \in Seq(S) /\ Len(t) = y /\ \A z \in 1 .. y : t[z] = s[z]
    <2>1. \A z \in 1 .. y : s[z] \in S
        BY <1>1, <1>2
    <2>2. /\ t \in Seq(S) /\ Len(t) = IF 1 <= y THEN (y - 1) + 1 ELSE 0
          /\ \A z \in 1 .. (y - 1) + 1 : t[z] = s[(1 + z) - 1]
        BY <2>1, SubSeqProperties
    <2> HIDE DEF t
    <2> QED
        BY <2>2
<1> HIDE DEF t
<1>5. \A z \in 1 .. y : t[z] = r[z]
    BY <1>2, <1>3, <1>4
<1>6. t = r
    BY <1>3, <1>4, <1>5, SeqEqual
<1> QED
    BY <1>6 DEF t, s, r

\* The terminator aside, the buffer holds the text that was in front of it.
LEMMA FrontOfTerminated ==
    ASSUME NEW S, NEW p \in Seq(S), NEW c PROVE Front(p \o <<c>>) = p
PROOF
<1> DEFINE R == S \cup {c}
           z == <<c>>
           t == p \o z
           f == SubSeq(t, 1, Len(t) - 1)
<1>1. p \in Seq(R) /\ z \in Seq(R) /\ Len(z) = 1
    <2>1. S \subseteq R /\ c \in R
        OBVIOUS
    <2> HIDE DEF R
    <2> QED
        BY <2>1, SeqMonotone
<1>2. f = Front(p \o <<c>>)
    BY DEF Front
<1> HIDE DEF R, z
<1>3. t \in Seq(R) /\ Len(t) = Len(p) + 1 /\ \A x \in 1 .. Len(p) : t[x] = p[x]
    <2>1. /\ t \in Seq(R) /\ Len(t) = Len(p) + Len(z)
          /\ \A x \in 1 .. Len(p) + Len(z) : t[x] = IF x <= Len(p) THEN p[x] ELSE z[x - Len(p)]
        BY <1>1, ConcatProperties
    <2>2. Len(p) \in Nat
        OBVIOUS
    <2> HIDE DEF t
    <2> QED
        BY <1>1, <2>1, <2>2
<1> HIDE DEF t
<1>4. Len(p) \in Nat
    OBVIOUS
<1>5. f \in Seq(R) /\ Len(f) = Len(p) /\ \A x \in 1 .. Len(p) : f[x] = t[x]
    <2> DEFINE n == Len(p)
    <2>1. f = SubSeq(t, 1, n) /\ n \in Nat
        BY <1>3, <1>4
    <2>2. \A x \in 1 .. n : t[x] \in R
        BY <1>3, <1>4
    <2> HIDE DEF n, f
    <2>3. /\ f \in Seq(R) /\ Len(f) = IF 1 <= n THEN (n - 1) + 1 ELSE 0
          /\ \A x \in 1 .. (n - 1) + 1 : f[x] = t[(1 + x) - 1]
        BY <2>1, <2>2, SubSeqProperties
    <2>4. Len(f) = n /\ \A x \in 1 .. n : f[x] = t[x]
        BY <2>1, <2>3
    <2> QED
        BY <2>3, <2>4 DEF n
<1> HIDE DEF f
<1>6. \A x \in 1 .. Len(f) : f[x] = p[x]
    BY <1>3, <1>5
<1>7. f = p
    BY <1>1, <1>5, <1>6, SeqEqual
<1> QED
    BY <1>2, <1>7

\* Queued behind what was sent, or sent from the head of the queue.
LEMMA QueuedBehind ==
    ASSUME NEW w, w \in Seq(Held(w)), NEW q, q \in Seq(Held(q)), NEW c
    PROVE  /\ w \o Append(q, c) = Append(w \o q, c)
           /\ Append(w, c) \o <<>> = Append(w \o <<>>, c)
           /\ q # <<>> => Append(w, Head(q)) \o Tail(q) = w \o q
PROOF
<1> DEFINE S == Held(w) \cup Held(q) \cup {c}
<1>1. w \in Seq(S) /\ q \in Seq(S) /\ c \in S
    <2>1. Held(w) \subseteq S /\ Held(q) \subseteq S /\ c \in S
        OBVIOUS
    <2> HIDE DEF S
    <2> QED
        BY <2>1, SeqMonotone
<1> HIDE DEF S
<1> DEFINE z == <<c>>
<1>2. z \in Seq(S)
    BY <1>1
<1>3. w \o q \in Seq(S)
    BY <1>1, ConcatProperties
<1>4. Append(q, c) = q \o z
    BY <1>1, AppendIsConcat
<1>5. Append(w \o q, c) = (w \o q) \o z
    <2> DEFINE v == w \o q
    <2> HIDE DEF v
    <2>1. v \in Seq(S)
        BY <1>3 DEF v
    <2>2. Append(v, c) = v \o z
        BY <1>1, <2>1, AppendIsConcat
    <2> QED
        BY <2>2 DEF v
<1>6. (w \o q) \o z = w \o (q \o z)
    <2> HIDE DEF z
    <2> QED
        BY <1>1, <1>2, Associative
<1>7. w \o Append(q, c) = Append(w \o q, c)
    BY <1>4, <1>5, <1>6
<1>8. Append(w, c) \o <<>> = Append(w \o <<>>, c)
    <2>1. w \o <<>> = w
        BY <1>1, ConcatEmptySeq
    <2> DEFINE v == Append(w, c)
    <2>2. v \in Seq(S)
        BY <1>1
    <2> HIDE DEF v
    <2>3. v \o <<>> = v
        BY <2>2, ConcatEmptySeq
    <2> QED
        BY <2>1, <2>3 DEF v
<1>9. ASSUME q # <<>> PROVE Append(w, Head(q)) \o Tail(q) = w \o q
    <2> DEFINE h == <<Head(q)>>
               t == Tail(q)
    <2>1. Head(q) \in S /\ t \in Seq(S)
        BY <1>1, <1>9, HeadTailProperties
    <2>2. h \in Seq(S)
        BY <2>1
    <2>3. Append(w, Head(q)) = w \o h
        BY <1>1, <2>1, AppendIsConcat
    <2>4. q = h \o t
        <3>1. Len(q) \in Nat /\ Len(q) >= 1
            BY <1>1, <1>9
        <3>2. 1 \in 1 .. Len(q) /\ Len(q) \in 1 .. Len(q)
            BY <3>1
        <3>3. SubSeq(q, 1, Len(q)) = <<q[1]>> \o SubSeq(q, 1 + 1, Len(q))
            BY <1>1, <3>2, SubSeqRecursiveFirst
        <3>4. SubSeq(q, 1, Len(q)) = q
            BY <1>1, SubSeqFull
        <3>5. t = SubSeq(q, 2, Len(q)) /\ 1 + 1 = 2
            BY <1>1, <1>9, TailIsSubSeq
        <3>6. Head(q) = q[1]
            BY <1>1, <1>9
        <3> QED
            BY <3>3, <3>4, <3>5, <3>6
    <2> HIDE DEF h, t
    <2>5. (w \o h) \o t = w \o (h \o t)
        <3>1. w \in Seq(S) /\ h \in Seq(S) /\ t \in Seq(S)
            BY <1>1, <2>1, <2>2
        <3> QED
            BY <3>1, Associative, SMTT(30)
    <2> QED
        BY <2>3, <2>4, <2>5 DEF t
<1> QED
    BY <1>7, <1>8, <1>9

-----------------------------------------------------------------------------
(* The output.  Of the expected text as much is due as the parser has passed,*)
(* and what is due and has not left yet is pending.                        *)

\* How many characters of the expected text are due when the parser is at p.
Due(c, m, p) ==
    LET b == Len(c.before)
    IN  IF m \notin {"text", "done"} THEN b
        ELSE IF p <= b + 1 THEN p - 1
        ELSE Len(Standard(c.directive)) + ((p - Len(c.directive.text)) - 1)

\* What the buffer of a call holds of a text of which i characters have left.
Stored(e, i, c, m, buf) ==
    c.sink = "buffer" =>
        IF m # "done" THEN buf = SubSeq(e, 1, Atmost(i, c.maxlen))
        ELSE c.maxlen > 0 => Front(buf) = SubSeq(e, 1, Atmost(i, c.maxlen - 1))

\* Of the text e, u characters are due, i have left and p is between them.
Delivered(e, u, i, p, c, m, buf, w, q) ==
    /\ i \in 0 .. u /\ u \in 0 .. Len(e)
    /\ p = SubSeq(e, i + 1, u)
    /\ Stored(e, i, c, m, buf)
    /\ c.sink \in {"char", "function"} => w \o q = Dropping(e)[i]

OutputInv ==
    Conforming => Delivered(Expected, Due(call, mode, pos), idx, pending, call, mode,
                            buffer, wire, fifo)

\* The text that is expected is a sequence.
LEMMA ExpectedSeq ==
    ASSUME ParserInv, Conforming
    PROVE  LET b == Len(call.before)
               n == Len(Standard(call.directive))
               a == Len(call.after)
               s == Expected
           IN  /\ Standard(call.directive) \in Seq(Held(Standard(call.directive)))
               /\ s \in Seq(Held(s)) /\ b \in Nat /\ n \in Nat /\ a \in Nat /\ Len(s) = b + n + a
               /\ \A x \in 1 .. b : s[x] = call.before[x]
               /\ \A x \in 1 .. n : s[b + x] = Standard(call.directive)[x]
               /\ \A x \in 1 .. a : s[b + n + x] = call.after[x]
PROOF
<1> DEFINE d == call.directive
<1>1. call \in Calls /\ Conforms(d)
    BY DEF ParserInv, Conforming
<1>2. PICK i, j, k, l \in DOMAIN d.text : Parts(d, i, j, k, l)
    BY <1>1, CallWritten
<1>3. Written(d, i, j, k, l)
    BY <1>1, <1>2, CallWritten
<1>4. Described(d)
    <2> HIDE DEF d
    <2> QED
        BY <1>3, DescribedFacts
<1>5. Standard(d) \in Seq(Held(Standard(d)))
    <2> HIDE DEF d
    <2> QED
        BY <1>1, <1>4, StandardSeq
<1> QED
    BY <1>1, <1>5, ExpectedFacts

\* What the parser adds is due next, when nothing is pending.
LEMMA DueNext ==
    ASSUME NEW S, NEW e \in Seq(S), NEW u \in Nat, NEW v \in Nat, u <= v, v <= Len(e),
           NEW i, NEW c, NEW m, NEW n, NEW buf, NEW old, NEW w, NEW q,
           Delivered(e, u, i, <<>>, c, m, old, w, q), Stored(e, i, c, n, buf)
    PROVE  Delivered(e, v, i, SubSeq(e, u + 1, v), c, n, buf, w, q)
PROOF
<1>1. i \in 0 .. u /\ u \in 0 .. Len(e) /\ SubSeq(e, i + 1, u) = <<>>
    BY DEF Delivered
<1>2. i = u
    <2>1. i \in Nat /\ i <= u /\ u <= Len(e)
        BY <1>1
    <2> QED
        BY <1>1, <2>1, PartFacts
<1>3. i \in 0 .. v /\ v \in 0 .. Len(e)
    BY <1>2
<1> QED
    BY <1>2, <1>3 DEF Delivered

\* out() takes a character of what is due.
LEMMA DueOut ==
    ASSUME NEW S, NEW e \in Seq(S), NEW u, NEW i, NEW p, NEW c, NEW m, NEW buf, NEW w, NEW q,
           p # <<>>, Delivered(e, u, i, p, c, m, buf, w, q)
    PROVE  /\ i \in Nat /\ u \in Nat /\ i < u /\ u <= Len(e) /\ i + 1 \in 1 .. Len(e)
           /\ Head(p) = e[i + 1] /\ Tail(p) = SubSeq(e, (i + 1) + 1, u)
PROOF
<1>1. i \in 0 .. u /\ u \in 0 .. Len(e) /\ p = SubSeq(e, i + 1, u)
    BY DEF Delivered
<1>2. i \in Nat /\ u \in Nat /\ i <= u /\ u <= Len(e)
    <2>1. Len(e) \in Nat
        OBVIOUS
    <2> QED
        BY <1>1, <2>1
<1>3. i # u
    BY <1>1, <1>2, PartFacts
<1>4. i < u /\ i + 1 \in 1 .. Len(e)
    <2>1. Len(e) \in Nat
        OBVIOUS
    <2> QED
        BY <1>2, <1>3, <2>1
<1> QED
    BY <1>1, <1>2, <1>4, PartFacts

\* What is due, by the part of the format.
LEMMA DueFacts ==
    ASSUME ParserInv, Conforming
    PROVE  LET b == Len(call.before)
               n == Len(call.directive.text)
               t == Len(Standard(call.directive))
               a == Len(call.after)
           IN  /\ b \in Nat /\ n \in Nat /\ n >= 2 /\ t \in Nat /\ a \in Nat
               /\ Len(Expected) = b + t + a /\ Len(format) = b + n + a
               /\ \A m \in DOMAIN Accepts, p \in Nat : Due(call, m, p) = b
               /\ \A m \in {"text", "done"}, p \in 1 .. b + 1 : Due(call, m, p) = p - 1
               /\ \A m \in {"text", "done"}, p \in Nat :
                      p >= b + n + 1 => Due(call, m, p) = t + ((p - n) - 1)
PROOF
<1> DEFINE b == Len(call.before)
           n == Len(call.directive.text)
           t == Len(Standard(call.directive))
           a == Len(call.after)
           d == call.directive
<1>1. t \in Nat /\ Len(Expected) = b + t + a
    BY ExpectedSeq
<1>2. call \in Calls /\ pos \in Nat
    BY DEF ParserInv
<1>3. b \in Nat /\ n \in Nat /\ a \in Nat /\ Len(format) = b + n + a
    BY <1>2, CharFacts
<1>4. n >= 2
    <2>1. PICK i, j, k, l \in DOMAIN d.text : Parts(d, i, j, k, l)
        BY <1>2, CallWritten
    <2>2. Written(d, i, j, k, l)
        BY <1>2, <2>1, CallWritten
    <2>3. l \in Nat /\ l >= 1 /\ Len(d.text) = l + 1
        <3> HIDE DEF d
        <3> QED
            BY <2>2, WrittenFacts
    <2> QED
        BY <2>3
<1>5. ASSUME NEW m, NEW p \in Nat
      PROVE  Due(call, m, p) = IF m \notin {"text", "done"} THEN b
                               ELSE IF p <= b + 1 THEN p - 1 ELSE t + ((p - n) - 1)
    BY DEF Due
<1>6. \A m \in DOMAIN Accepts : m \notin {"text", "done"}
    BY Modes
<1> HIDE DEF b, n, t, a
<1>7. ASSUME NEW m \in DOMAIN Accepts, NEW p \in Nat PROVE Due(call, m, p) = b
    BY <1>5, <1>6
<1>8. ASSUME NEW m \in {"text", "done"}, NEW p \in 1 .. b + 1 PROVE Due(call, m, p) = p - 1
    <2>1. p \in Nat /\ p <= b + 1
        BY <1>3
    <2> QED
        BY <1>5, <2>1
<1>9. ASSUME NEW m \in {"text", "done"}, NEW p \in Nat, p >= b + n + 1
      PROVE  Due(call, m, p) = t + ((p - n) - 1)
    <2>1. ~(p <= b + 1)
        BY <1>3, <1>4, <1>9
    <2> QED
        BY <1>5, <2>1
<1> QED
    BY <1>1, <1>3, <1>4, <1>7, <1>8, <1>9 DEF b, n, t, a

\* The text that is expected depends on the call only.
LEMMA SameCall ==
    ASSUME call' = call,
           ParserInv /\ Conforming =>
               Delivered(Expected, Due(call, mode', pos'), idx', pending', call, mode',
                         buffer', wire', fifo'),
           ParserInv
    PROVE  OutputInv'
PROOF
<1>1. Expected' = Expected /\ (Conforming' <=> Conforming)
    BY DEF Expected, Conforming
<1> QED
    BY <1>1 DEF OutputInv

\* A character of the format gives itself.
LEMMA OutputText == ASSUME ParserInv, OutputInv, Text PROVE OutputInv'
PROOF
<1>1. /\ pending = <<>> /\ mode = "text" /\ Char \notin {"%", NUL} /\ pending' = <<Char>>
      /\ pos' = pos + 1 /\ UNCHANGED <<call, mode, idx, buffer, fifo, wire>>
    BY DEF Text
<1>2. ASSUME Conforming
      PROVE  Delivered(Expected, Due(call, mode', pos'), idx', pending', call, mode', buffer', wire', fifo')
    <2> DEFINE b == Len(call.before)
               n == Len(call.directive.text)
               t == Len(Standard(call.directive))
               a == Len(call.after)
               e == Expected
               S == Held(e)
               u == Due(call, mode, pos)
               v == Due(call, mode', pos')
    <2>1. /\ e \in Seq(S) /\ b \in Nat /\ t \in Nat /\ a \in Nat /\ Len(e) = b + t + a
          /\ \A x \in 1 .. b : e[x] = call.before[x]
          /\ \A x \in 1 .. a : e[b + t + x] = call.after[x]
        BY <1>2, ExpectedSeq
    <2>2. /\ n \in Nat /\ n >= 2 /\ Len(format) = b + n + a
          /\ \A m \in {"text", "done"}, p \in 1 .. b + 1 : Due(call, m, p) = p - 1
          /\ \A m \in {"text", "done"}, p \in Nat : p >= b + n + 1 => Due(call, m, p) = t + ((p - n) - 1)
        BY <1>2, DueFacts
    <2>3. pos \in Nat /\ call \in Calls /\ (pos \in 1 .. b \/ pos \in b + n + 1 .. Len(format))
        BY <1>1, TextFacts
    <2>4. /\ pos \in 1 .. b => Char = call.before[pos]
          /\ pos \in b + n + 1 .. Len(format) => Char = call.after[pos - (b + n)]
        BY <2>3, CharFacts
    <2>5. mode \in {"text", "done"} /\ mode' \in {"text", "done"}
        BY <1>1
    <2>6. u \in Nat /\ v = u + 1 /\ v <= Len(e) /\ u < Len(e) /\ e[u + 1] = Char
        <3>1. CASE pos \in 1 .. b
            <4>1. pos \in 1 .. b + 1 /\ pos + 1 \in 1 .. b + 1
                BY <2>1, <3>1
            <4>2. u = pos - 1 /\ v = (pos + 1) - 1
                BY <1>1, <2>2, <2>5, <4>1
            <4> HIDE DEF u, v, b, n, t, a, e
            <4>3. u \in Nat /\ v = u + 1 /\ v <= Len(e) /\ u < Len(e) /\ u + 1 = pos
                BY <2>1, <3>1, <4>2
            <4> QED
                BY <2>1, <2>4, <3>1, <4>3
        <3>2. CASE pos \in b + n + 1 .. Len(format)
            <4>1. pos >= b + n + 1 /\ pos + 1 >= b + n + 1 /\ pos + 1 \in Nat
                <5> HIDE DEF b, n, a, t, e
                <5> QED
                    BY <2>1, <2>2, <2>3, <3>2
            <4>2. u = t + ((pos - n) - 1) /\ v = t + (((pos + 1) - n) - 1)
                BY <1>1, <2>2, <2>3, <2>5, <4>1
            <4> HIDE DEF u, v, b, n, t, a, e
            <4> DEFINE x == pos - (b + n)
            <4>3. x \in 1 .. a /\ u + 1 = b + t + x /\ u \in Nat /\ v = u + 1 /\ v <= Len(e) /\ u < Len(e)
                <5> DEFINE E == Len(e)
                <5>1. /\ pos \in b + n + 1 .. b + n + a /\ b \in Nat /\ n \in Nat /\ a \in Nat /\ t \in Nat
                      /\ E = b + t + a /\ u = t + ((pos - n) - 1) /\ v = t + (((pos + 1) - n) - 1)
                    BY <2>1, <2>2, <3>2, <4>2
                <5> HIDE DEF E
                <5>2. x \in 1 .. a /\ u + 1 = b + t + x /\ u \in Nat /\ v = u + 1 /\ v <= E /\ u < E
                    BY <5>1
                <5> QED
                    BY <5>2 DEF E
            <4>4. Char = call.after[x]
                BY <2>4, <3>2
            <4> HIDE DEF x
            <4>5. e[b + t + x] = call.after[x]
                BY <2>1, <4>3
            <4> QED
                BY <4>3, <4>4, <4>5
        <3> QED
            BY <2>3, <3>1, <3>2
    <2>7. Delivered(e, u, idx, <<>>, call, mode, buffer, wire, fifo)
        BY <1>1, <1>2 DEF OutputInv
    <2> HIDE DEF e, u, v
    <2>8. Stored(e, idx, call, mode, buffer)
        BY <2>7 DEF Delivered
    <2>9. pending' = SubSeq(e, u + 1, v)
        <3>1. SubSeq(e, u + 1, u + 1) = <<e[u + 1]>>
            BY <2>1, <2>6, PartOfOne
        <3> QED
            BY <1>1, <2>6, <3>1
    <2>10. u <= v /\ v \in Nat
        BY <2>6
    <2>11. Delivered(e, v, idx, SubSeq(e, u + 1, v), call, mode, buffer, wire, fifo)
        BY <2>1, <2>6, <2>7, <2>8, <2>10, DueNext
    <2>12. Delivered(e, v, idx', pending', call, mode', buffer', wire', fifo')
        BY <1>1, <2>9, <2>11
    <2> QED
        BY <2>12 DEF e, v
<1> QED
    BY <1>1, <1>2, SameCall

\* Reading the parts of a directive gives nothing.
LEMMA OutputReading ==
    ASSUME ParserInv, ParserInv', OutputInv, pending = <<>>, mode # "done", mode' \in DOMAIN Accepts,
           \/ mode \in DOMAIN Accepts
           \/ mode = "text" /\ pos = Len(call.before) + 1,
           UNCHANGED <<call, pending, idx, buffer, fifo, wire>>
    PROVE  OutputInv'
PROOF
<1>1. ASSUME Conforming
      PROVE  Delivered(Expected, Due(call, mode', pos'), idx', pending', call, mode', buffer', wire', fifo')
    <2> DEFINE b == Len(call.before)
               u == Due(call, mode, pos)
    <2>1. /\ b \in Nat
          /\ \A m \in DOMAIN Accepts, p \in Nat : Due(call, m, p) = b
          /\ \A m \in {"text", "done"}, p \in 1 .. b + 1 : Due(call, m, p) = p - 1
        BY <1>1, DueFacts
    <2>2. pos \in Nat /\ pos' \in Nat
        BY DEF ParserInv
    <2>3. Due(call, mode', pos') = b
        BY <2>1, <2>2
    <2>4. u = b
        <3>1. CASE mode \in DOMAIN Accepts
            BY <2>1, <2>2, <3>1
        <3>2. CASE mode = "text" /\ pos = b + 1
            <4>1. mode \in {"text", "done"} /\ pos \in 1 .. b + 1
                BY <2>1, <3>2
            <4>2. u = pos - 1
                BY <2>1, <4>1
            <4> HIDE DEF u, b
            <4> QED
                BY <2>1, <3>2, <4>2
        <3> QED
            BY <3>1, <3>2
    <2>5. Delivered(Expected, b, idx, pending, call, mode, buffer, wire, fifo)
        BY <1>1, <2>4 DEF OutputInv
    <2>6. mode' # "done"
        BY Modes
    <2>7. Delivered(Expected, b, idx, pending, call, mode', buffer, wire, fifo)
        BY <2>5, <2>6 DEF Delivered, Stored
    <2> QED
        BY <2>3, <2>7
<1> QED
    BY <1>1, SameCall

\* The specifier gives the text the standard asks for.
LEMMA OutputSpecifier == ASSUME ParserInv, OutputInv, Specifier PROVE OutputInv'
PROOF
<1>1. /\ pending = <<>> /\ mode # "done" /\ mode' = "text" /\ pos' = pos + 1
      /\ pending' = Converted(Char, IF Char \in Takes THEN Head(va) ELSE <<>>, flags)
      /\ UNCHANGED <<call, idx, buffer, fifo, wire>>
    BY DEF Specifier
<1>2. ASSUME Conforming
      PROVE  Delivered(Expected, Due(call, mode', pos'), idx', pending', call, mode', buffer', wire', fifo')
    <2> DEFINE d == call.directive
               b == Len(call.before)
               n == Len(call.directive.text)
               T == Standard(call.directive)
               t == Len(Standard(call.directive))
               a == Len(call.after)
               e == Expected
               S == Held(e)
               u == Due(call, mode, pos)
               v == Due(call, mode', pos')
    <2>1. /\ e \in Seq(S) /\ b \in Nat /\ t \in Nat /\ a \in Nat /\ Len(e) = b + t + a
          /\ T \in Seq(Held(T))
          /\ \A x \in 1 .. t : e[b + x] = T[x]
        BY <1>2, ExpectedSeq
    <2>2. /\ \A m \in DOMAIN Accepts, p \in Nat : Due(call, m, p) = b
          /\ \A m \in {"text", "done"}, p \in Nat : p >= b + n + 1 => Due(call, m, p) = t + ((p - n) - 1)
        BY <1>2, DueFacts
    <2>3. /\ Char = d.spec /\ n \in Nat /\ n >= 2 /\ mode \in DOMAIN Accepts /\ pos = b + n
          /\ d.spec \in Takes => Head(va) = d.value
          /\ ~d.none => Reads(d, flags)
          /\ Described(d)
        BY SpecifierFacts
    <2>4. pending' = T
        <3>1. Conforms(d) /\ ~d.none
            BY <1>2 DEF Conforming, Conforms
        <3>2. pending' = Converted(d.spec, IF d.spec \in Takes THEN d.value ELSE <<>>, flags)
            <4>1. CASE d.spec \in Takes
                BY <1>1, <2>3, <4>1
            <4>2. CASE d.spec \notin Takes
                BY <1>1, <2>3, <4>2
            <4> QED
                BY <4>1, <4>2
        <3>3. Reads(d, flags) /\ Described(d)
            BY <2>3, <3>1
        <3> HIDE DEF d
        <3>4. Converted(d.spec, IF d.spec \in Takes THEN d.value ELSE <<>>, flags) = Standard(d)
            BY <3>1, <3>3, ConvertsAsC
        <3> QED
            BY <3>2, <3>4 DEF d
    <2>5. u = b /\ v = b + t
        <3>1. pos \in Nat /\ pos' \in Nat /\ pos' = b + n + 1
            <4>1. pos = b + n /\ pos' = pos + 1 /\ b \in Nat /\ n \in Nat
                BY <1>1, <2>1, <2>3
            <4> HIDE DEF b, n
            <4> QED
                BY <4>1
        <3>2. u = b
            BY <2>2, <2>3, <3>1
        <3>3. mode' \in {"text", "done"} /\ pos' >= b + n + 1
            BY <1>1, <2>1, <2>3, <3>1
        <3>4. v = t + ((pos' - n) - 1)
            BY <2>2, <3>1, <3>3
        <3> HIDE DEF u, v, b, n, t
        <3> QED
            BY <2>1, <2>3, <3>1, <3>2, <3>4
    <2>6. T = SubSeq(e, b + 1, b + t)
        <3> DEFINE p == SubSeq(e, b + 1, b + t)
                   R == S \cup Held(T)
        <3>1. e \in Seq(R) /\ T \in Seq(R)
            <4>1. S \subseteq R /\ Held(T) \subseteq R
                OBVIOUS
            <4> HIDE DEF R, S, e, T
            <4> QED
                BY <2>1, <4>1, SeqMonotone
        <3>0. t = Len(T)
            OBVIOUS
        <3> HIDE DEF R, S, e, T, b, t, a
        <3>2. b + 1 \in Int /\ b + t \in Int /\ \A x \in b + 1 .. b + t : x \in 1 .. Len(e)
            BY <2>1
        <3>3. \A x \in b + 1 .. b + t : e[x] \in R
            BY <3>1, <3>2
        <3>4. /\ p \in Seq(R) /\ Len(p) = IF b + 1 <= b + t THEN ((b + t) - (b + 1)) + 1 ELSE 0
              /\ \A x \in 1 .. ((b + t) - (b + 1)) + 1 : p[x] = e[((b + 1) + x) - 1]
            BY <3>2, <3>3, SubSeqProperties
        <3> HIDE DEF p
        <3>5. Len(p) = t /\ \A x \in 1 .. t : p[x] = e[b + x]
            BY <2>1, <3>4
        <3>6. \A x \in 1 .. Len(T) : T[x] = p[x]
            BY <2>1, <3>0, <3>5
        <3>7. T = p
            BY <3>0, <3>1, <3>4, <3>5, <3>6, SeqEqual
        <3> QED
            BY <3>7 DEF p
    <2>7. Delivered(e, b, idx, <<>>, call, mode, buffer, wire, fifo)
        BY <1>1, <1>2, <2>5 DEF OutputInv
    <2>8. Stored(e, idx, call, mode', buffer)
        BY <1>1, <2>7 DEF Delivered, Stored
    <2> HIDE DEF e, u, v, t, T, a, b
    <2>9. b + t \in Nat /\ b <= b + t /\ b + t <= Len(e)
        BY <2>1
    <2>10. Delivered(e, b + t, idx, SubSeq(e, b + 1, b + t), call, mode', buffer, wire, fifo)
        <3> DEFINE x == b + t
        <3>1. x \in Nat /\ b <= x /\ x <= Len(e) /\ b \in Nat
            BY <2>1, <2>9
        <3> HIDE DEF x
        <3>2. Delivered(e, x, idx, SubSeq(e, b + 1, x), call, mode', buffer, wire, fifo)
            BY <2>1, <2>7, <2>8, <3>1, DueNext
        <3> QED
            BY <3>2 DEF x
    <2>11. Delivered(e, v, idx', pending', call, mode', buffer', wire', fifo')
        BY <1>1, <2>4, <2>5, <2>6, <2>10
    <2> QED
        BY <2>11 DEF e, v
<1> QED
    BY <1>1, <1>2, SameCall

\* A character leaves: to the buffer while there is room, to the queue, or to
\* the callback, NUL aside.
LEMMA OutputOut == ASSUME ParserInv, QueueInv, OutputInv, Out PROVE OutputInv'
PROOF
<1> DEFINE c == Head(pending)
<1>1. /\ pending # <<>> /\ idx' = idx + 1 /\ pending' = Tail(pending) /\ UNCHANGED <<call, mode, pos>>
      /\ buffer' = IF call.sink = "buffer" /\ idx < call.maxlen THEN Append(buffer, c) ELSE buffer
      /\ wire' = IF call.sink = "function" /\ c # NUL THEN Append(wire, c) ELSE wire
      /\ fifo' = IF call.sink = "char" /\ c # NUL THEN Append(fifo, c) ELSE fifo
    BY DEF Out, uart_write_char, _out_buffer
<1>2. /\ mode = "text" /\ fifo \in Seq(Held(fifo)) /\ wire \in Seq(Held(wire))
      /\ call.sink # "char" => fifo = <<>>
    BY <1>1 DEF QueueInv
<1>3. ASSUME Conforming
      PROVE  Delivered(Expected, Due(call, mode', pos'), idx', pending', call, mode', buffer', wire', fifo')
    <2> DEFINE e == Expected
               S == Held(e)
               u == Due(call, mode, pos)
               m == call.maxlen
               D == Dropping(e)
    <2>1. e \in Seq(S)
        BY <1>3, ExpectedSeq
    <2>2. m \in Nat
        BY MaxlenFacts DEF ParserInv
    <2>3. Delivered(e, u, idx, pending, call, mode, buffer, wire, fifo)
        BY <1>3 DEF OutputInv
    <2>4. Due(call, mode', pos') = u
        BY <1>1
    <2> HIDE DEF e, u, m
    <2>5. /\ idx \in Nat /\ u \in Nat /\ idx < u /\ u <= Len(e) /\ idx + 1 \in 1 .. Len(e)
          /\ c = e[idx + 1] /\ Tail(pending) = SubSeq(e, (idx + 1) + 1, u)
        BY <1>1, <2>1, <2>3, DueOut
    <2> HIDE DEF c
    <2>6. idx' \in 0 .. u /\ u \in 0 .. Len(e) /\ pending' = SubSeq(e, idx' + 1, u)
        BY <1>1, <2>5
    <2>7. Stored(e, idx', call, mode', buffer')
        <3>1. SUFFICES ASSUME call.sink = "buffer"
                       PROVE  buffer' = SubSeq(e, 1, Atmost(idx', m))
            BY <1>1, <1>2 DEF Stored, m
        <3>2. buffer = SubSeq(e, 1, Atmost(idx, m))
            BY <1>2, <2>3, <3>1 DEF Delivered, Stored, m
        <3>3. CASE idx < m
            <4>1. buffer' = Append(buffer, c)
                BY <1>1, <3>1, <3>3 DEF m
            <4>2. Atmost(idx, m) = idx /\ Atmost(idx + 1, m) = idx + 1 /\ idx < Len(e)
                BY <2>1, <2>2, <2>5, <3>3 DEF Atmost
            <4>3. SubSeq(e, 1, idx + 1) = Append(SubSeq(e, 1, idx), e[idx + 1])
                BY <2>1, <2>5, <4>2, PrefixOfMore
            <4> QED
                BY <1>1, <2>5, <3>2, <4>1, <4>2, <4>3
        <3>4. CASE ~(idx < m)
            <4>1. buffer' = buffer
                BY <1>1, <3>4 DEF m
            <4>2. Atmost(idx, m) = m /\ Atmost(idx + 1, m) = m
                BY <2>2, <2>5, <3>4 DEF Atmost
            <4> QED
                BY <1>1, <3>2, <4>1, <4>2
        <3> QED
            BY <3>3, <3>4
    <2>8. call.sink \in {"char", "function"} => wire' \o fifo' = D[idx']
        <3>1. SUFFICES ASSUME call.sink \in {"char", "function"} PROVE wire' \o fifo' = D[idx']
            OBVIOUS
        <3>2. wire \o fifo = D[idx]
            BY <2>3, <3>1 DEF Delivered
        <3>3. D[idx + 1] = IF c = NUL THEN D[idx] ELSE Append(D[idx], c)
            <4> DEFINE k == idx + 1
            <4>1. k \in 1 .. Len(e) /\ k - 1 = idx /\ c = e[k]
                BY <2>5
            <4> HIDE DEF k
            <4>2. D[k] = IF e[k] = NUL THEN D[k - 1] ELSE Append(D[k - 1], e[k])
                <5> HIDE DEF S
                <5> QED
                    BY <2>1, <4>1, DroppingFacts
            <4>3. D[k] = IF c = NUL THEN D[idx] ELSE Append(D[idx], c)
                BY <4>1, <4>2
            <4> QED
                BY <4>3 DEF k
        <3> HIDE DEF D
        <3>4. CASE c = NUL
            <4>1. wire' = wire /\ fifo' = fifo
                BY <1>1, <3>4
            <4> QED
                BY <1>1, <3>2, <3>3, <3>4, <4>1
        <3>5. CASE c # NUL /\ call.sink = "char"
            <4>1. wire' = wire /\ fifo' = Append(fifo, c)
                BY <1>1, <3>5
            <4>2. wire \o Append(fifo, c) = Append(wire \o fifo, c)
                BY <1>2, QueuedBehind
            <4> QED
                BY <1>1, <3>2, <3>3, <3>5, <4>1, <4>2
        <3>6. CASE c # NUL /\ call.sink = "function"
            <4>1. wire' = Append(wire, c) /\ fifo' = fifo /\ fifo = <<>>
                BY <1>1, <1>2, <3>6
            <4>2. Append(wire, c) \o <<>> = Append(wire \o <<>>, c)
                BY <1>2, QueuedBehind
            <4> QED
                BY <1>1, <3>2, <3>3, <3>6, <4>1, <4>2
        <3> QED
            BY <3>1, <3>4, <3>5, <3>6
    <2>9. Delivered(e, u, idx', pending', call, mode', buffer', wire', fifo')
        BY <2>6, <2>7, <2>8 DEF Delivered
    <2> QED
        BY <2>4, <2>9 DEF e
<1> QED
    BY <1>1, <1>3, SameCall

\* The uart sends what is at the head of its queue.
LEMMA OutputTransmit == ASSUME ParserInv, QueueInv, OutputInv, Transmit PROVE OutputInv'
PROOF
<1>1. /\ fifo # <<>> /\ wire' = Append(wire, Head(fifo)) /\ fifo' = Tail(fifo)
      /\ UNCHANGED <<call, mode, pos, pending, idx, buffer>>
    BY DEF Transmit
<1>2. fifo \in Seq(Held(fifo)) /\ wire \in Seq(Held(wire))
    BY DEF QueueInv
<1>3. Append(wire, Head(fifo)) \o Tail(fifo) = wire \o fifo
    BY <1>1, <1>2, QueuedBehind
<1>4. wire' \o fifo' = wire \o fifo
    BY <1>1, <1>3
<1>5. ASSUME Conforming
      PROVE  Delivered(Expected, Due(call, mode', pos'), idx', pending', call, mode', buffer', wire', fifo')
    BY <1>1, <1>4, <1>5 DEF OutputInv, Delivered
<1> QED
    BY <1>1, <1>5, SameCall

\* The whole text is due at the end of the format, and the terminator goes
\* behind it, or over the last character the buffer has room for.
LEMMA OutputTerminate == ASSUME ParserInv, OutputInv, Terminate PROVE OutputInv'
PROOF
<1>1. /\ pending = <<>> /\ mode = "text" /\ Char = NUL /\ mode' = "done"
      /\ buffer' = IF call.sink = "buffer" /\ Ending < call.maxlen
                   THEN SubSeq(buffer, 1, Ending) \o <<NUL>> ELSE buffer
      /\ UNCHANGED <<call, pos, pending, idx, fifo, wire>>
    BY DEF Terminate, _out_buffer
<1>2. ASSUME Conforming
      PROVE  Delivered(Expected, Due(call, mode', pos'), idx', pending', call, mode', buffer', wire', fifo')
    <2> DEFINE e == Expected
               S == Held(e)
               u == Due(call, mode, pos)
               m == call.maxlen
    <2>1. e \in Seq(S)
        BY <1>2, ExpectedSeq
    <2>2. m \in Nat /\ (m > 0 => (m - 1) % 2^IntBits = m - 1)
        BY MaxlenFacts DEF ParserInv
    <2>3. Delivered(e, u, idx, pending, call, mode, buffer, wire, fifo)
        BY <1>2 DEF OutputInv
    <2>4. Due(call, mode', pos') = u
        BY <1>1 DEF Due
    <2> HIDE DEF e, u, m
    <2>5. idx \in Nat /\ idx <= Len(e)
        <3>1. idx \in 0 .. u /\ u \in 0 .. Len(e) /\ Len(e) \in Nat
            BY <2>1, <2>3 DEF Delivered
        <3> QED
            BY <3>1
    <2>6. Stored(e, idx, call, mode', buffer')
        <3>1. SUFFICES ASSUME call.sink = "buffer", m > 0
                       PROVE  Front(buffer') = SubSeq(e, 1, Atmost(idx, m - 1))
            BY <1>1 DEF Stored, m
        <3> DEFINE x == Atmost(idx, m)
                   y == Atmost(idx, m - 1)
        <3>2. buffer = SubSeq(e, 1, x)
            BY <1>1, <2>3, <3>1 DEF Delivered, Stored, m
        <3>3. Ending = y /\ y < m /\ x \in Nat /\ y \in Nat /\ y <= x /\ x <= Len(e)
            <4>1. Ending = IF idx < m THEN idx ELSE m - 1
                BY <2>2, <3>1 DEF Ending, m
            <4>2. Len(e) \in Nat
                BY <2>1
            <4> QED
                BY <2>2, <2>5, <3>1, <4>1, <4>2 DEF Atmost
        <3> HIDE DEF x, y
        <3>4. buffer' = SubSeq(SubSeq(e, 1, x), 1, y) \o <<NUL>>
            BY <1>1, <3>1, <3>2, <3>3 DEF m
        <3>5. SubSeq(SubSeq(e, 1, x), 1, y) = SubSeq(e, 1, y)
            BY <2>1, <3>3, PrefixOfPrefix
        <3> DEFINE p == SubSeq(e, 1, y)
        <3>6. p \in Seq(S)
            <4>1. \A z \in 1 .. y : z \in 1 .. Len(e)
                BY <2>1, <3>3
            <4>2. \A z \in 1 .. y : e[z] \in S
                <5> HIDE DEF S
                <5> QED
                    BY <2>1, <4>1
            <4> HIDE DEF S
            <4> QED
                BY <3>3, <4>2, SubSeqProperties
        <3>7. buffer' = p \o <<NUL>>
            BY <3>4, <3>5
        <3> HIDE DEF p, S
        <3>8. Front(p \o <<NUL>>) = p
            BY <3>6, FrontOfTerminated
        <3>9. Front(buffer') = p
            BY <3>7, <3>8
        <3> QED
            BY <3>9 DEF p, y
    <2>7. Delivered(e, u, idx', pending', call, mode', buffer', wire', fifo')
        BY <1>1, <2>3, <2>6 DEF Delivered
    <2> QED
        BY <2>4, <2>7 DEF e
<1> QED
    BY <1>1, <1>2, SameCall

\* At the beginning nothing is due.
LEMMA OutputInit == ASSUME Init PROVE OutputInv
PROOF
<1>1. /\ call \in Calls /\ pos = 1 /\ mode = "text" /\ pending = <<>> /\ idx = 0
      /\ buffer = <<>> /\ fifo = <<>> /\ wire = <<>>
    BY DEF Init
<1>2. SUFFICES ASSUME Conforming PROVE Delivered(Expected, Due(call, mode, pos), idx, pending, call, mode, buffer, wire, fifo)
    BY DEF OutputInv
<1> DEFINE e == Expected
           S == Held(e)
<1>3. e \in Seq(S)
    BY <1>2, ParserInit, ExpectedSeq
<1>4. Due(call, mode, pos) = 0
    <2>1. /\ Len(call.before) \in Nat
          /\ \A m \in {"text", "done"}, p \in 1 .. Len(call.before) + 1 : Due(call, m, p) = p - 1
        BY <1>2, ParserInit, DueFacts
    <2>2. pos \in 1 .. Len(call.before) + 1 /\ mode \in {"text", "done"} /\ pos - 1 = 0
        BY <1>1, <2>1
    <2> QED
        BY <2>1, <2>2
<1>5. call.maxlen \in Nat
    BY <1>1, MaxlenFacts
<1> HIDE DEF e
<1>6. SubSeq(e, 1, 0) = <<>> /\ Len(e) \in Nat
    BY <1>3, SubSeqEmpty
<1>7. Dropping(e)[0] = <<>>
    <2> HIDE DEF S
    <2> QED
        BY <1>3, DroppingFacts
<1>8. wire \o fifo = <<>>
    BY <1>1
<1>9. Stored(e, 0, call, mode, buffer)
    <2>1. Atmost(0, call.maxlen) = 0
        BY <1>5 DEF Atmost
    <2> QED
        BY <1>1, <1>6, <2>1 DEF Stored
<1>10. Delivered(e, 0, 0, <<>>, call, mode, buffer, wire, fifo)
    <2>1. 0 \in 0 .. 0 /\ 0 \in 0 .. Len(e) /\ 0 + 1 = 1
        BY <1>6
    <2> QED
        BY <1>6, <1>7, <1>8, <1>9, <2>1 DEF Delivered
<1> QED
    BY <1>1, <1>4, <1>10 DEF e

\* Every step keeps the output in step with the expected text.
LEMMA OutputNext ==
    ASSUME ParserInv, ParserInv', QueueInv, OutputInv, [Next]_vars PROVE OutputInv'
PROOF
<1>1. CASE Text
    BY <1>1, OutputText
<1>2. CASE Percent
    <2>1. /\ pending = <<>> /\ mode = "text" /\ Char = "%" /\ mode' = "flags"
          /\ UNCHANGED <<call, pending, idx, buffer, fifo, wire>>
        BY <1>2 DEF Percent
    <2>2. pos = Len(call.before) + 1
        BY <2>1, TextFacts
    <2>3. mode' \in DOMAIN Accepts
        BY <2>1, Modes
    <2> QED
        BY <2>1, <2>2, <2>3, OutputReading
<1>3. CASE Flag \/ WidthDigit \/ WidthStar \/ Dot \/ PrecisionDigit \/ PrecisionStar \/ Length
    <2>1. /\ pending = <<>> /\ mode \in DOMAIN Accepts
          /\ mode' \in {mode, "width", "star", "dot", "precision", "precision_star", "length"}
          /\ UNCHANGED <<call, pending, idx, buffer, fifo, wire>>
        <3>1. CASE Flag
            BY <3>1, Modes DEF Flag, Reading
        <3>2. CASE WidthDigit
            BY <3>2, Modes DEF WidthDigit, Reading
        <3>3. CASE WidthStar
            BY <3>3, Modes DEF WidthStar, Reading
        <3>4. CASE Dot
            BY <3>4, Modes DEF Dot, Reading
        <3>5. CASE PrecisionDigit
            BY <3>5, Modes DEF PrecisionDigit, Reading
        <3>6. CASE PrecisionStar
            BY <3>6, Modes DEF PrecisionStar, Reading
        <3>7. CASE Length
            BY <3>7, Modes DEF Length, Reading
        <3> QED
            BY <1>3, <3>1, <3>2, <3>3, <3>4, <3>5, <3>6, <3>7
    <2>2. mode' \in DOMAIN Accepts /\ mode # "done"
        BY <2>1, Modes
    <2> QED
        BY <2>1, <2>2, OutputReading
<1>4. CASE Specifier
    BY <1>4, OutputSpecifier
<1>5. CASE Out
    BY <1>5, OutputOut
<1>6. CASE Terminate
    BY <1>6, OutputTerminate
<1>7. CASE Transmit
    BY <1>7, OutputTransmit
<1>8. CASE UNCHANGED vars
    <2>1. UNCHANGED <<call, pos, mode, pending, idx, buffer, fifo, wire>>
        BY <1>8 DEF vars
    <2>2. Conforming => Delivered(Expected, Due(call, mode', pos'), idx', pending', call, mode', buffer', wire', fifo')
        BY <2>1 DEF OutputInv
    <2> QED
        BY <2>1, <2>2, SameCall
<1> QED
    BY <1>1, <1>2, <1>3, <1>4, <1>5, <1>6, <1>7, <1>8 DEF Next, _vsnprintf

\* At the end nothing is pending, so all of the expected text has left.
LEMMA FormatsFromInv == ASSUME ParserInv, QueueInv, OutputInv PROVE FormatsAsC
PROOF
<1>1. SUFFICES ASSUME mode = "done", Conforming
               PROVE  /\ idx = Len(Expected)
                      /\ call.sink = "buffer" /\ call.maxlen > 0 =>
                             Front(buffer) = SubSeq(Expected, 1, Atmost(idx, call.maxlen - 1))
                      /\ call.sink \in {"char", "function"} => wire \o fifo = Visible(Expected)
    BY DEF FormatsAsC
<1> DEFINE e == Expected
           S == Held(e)
           b == Len(call.before)
           n == Len(call.directive.text)
           t == Len(Standard(call.directive))
           a == Len(call.after)
           u == Due(call, mode, pos)
<1>2. /\ b \in Nat /\ n \in Nat /\ t \in Nat /\ a \in Nat
      /\ Len(e) = b + t + a /\ Len(format) = b + n + a
      /\ \A m \in {"text", "done"}, p \in Nat : p >= b + n + 1 => Due(call, m, p) = t + ((p - n) - 1)
    BY <1>1, DueFacts
<1>3. pos = Len(format) + 1
    <2>1. "done" # "text" /\ mode \in {"text", "done"}
        BY <1>1
    <2> QED
        BY <1>1, <2>1 DEF ParserInv, InText
<1>4. pending = <<>>
    BY <1>1 DEF QueueInv
<1>5. Delivered(e, u, idx, <<>>, call, mode, buffer, wire, fifo)
    BY <1>1, <1>4 DEF OutputInv
<1>6. e \in Seq(S)
    BY <1>1, ExpectedSeq
<1>7. u = Len(e)
    <2>1. pos = (b + n + a) + 1
        BY <1>2, <1>3
    <2>2. pos \in Nat /\ pos >= b + n + 1
        <3> HIDE DEF b, n, a, t, e
        <3> QED
            BY <1>2, <2>1
    <2>3. u = t + ((pos - n) - 1)
        BY <1>1, <1>2, <2>2
    <2> HIDE DEF b, n, a, t, e, u
    <2> QED
        BY <1>2, <2>1, <2>3
<1> HIDE DEF e, u
<1>8. idx = Len(e)
    <2>1. idx \in 0 .. u /\ u \in 0 .. Len(e) /\ SubSeq(e, idx + 1, u) = <<>> /\ Len(e) \in Nat
        BY <1>5, <1>6 DEF Delivered
    <2>2. idx \in Nat /\ u \in Nat /\ idx <= u /\ u <= Len(e)
        BY <2>1
    <2> HIDE DEF S
    <2>3. idx = u
        BY <1>6, <2>1, <2>2, PartFacts
    <2> QED
        BY <1>7, <2>3
<1>9. call.sink \in {"char", "function"} => wire \o fifo = Visible(e)
    BY <1>5, <1>8 DEF Delivered, Visible
<1>10. call.sink = "buffer" /\ call.maxlen > 0 =>
           Front(buffer) = SubSeq(e, 1, Atmost(idx, call.maxlen - 1))
    BY <1>1, <1>5 DEF Delivered, Stored
<1> QED
    BY <1>8, <1>9, <1>10 DEF e

(***************************************************************************)
(* At the end of a call the returned length and the characters that left,  *)
(* to the buffer, the uart or the callback, are those of the text the C    *)
(* standard defines: for every call, every argument and every width of the *)
(* types, the exceptions of Conforms aside.                                *)
(***************************************************************************)
THEOREM FormatsTheorem == Spec => []FormatsAsC
PROOF
<1> DEFINE Inv == ParserInv /\ QueueInv /\ OutputInv
<1>1. Init => Inv
    BY ParserInit, QueueInit, OutputInit
<1>2. Inv /\ [Next]_vars => Inv'
    BY ParserNext, QueueNext, OutputNext
<1>3. Inv => FormatsAsC
    BY FormatsFromInv
<1> QED
    BY <1>1, <1>2, <1>3, PTL DEF Spec
=============================================================================
