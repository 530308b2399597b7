--------------------------- MODULE InductionRules ---------------------------
(***************************************************************************)
(* Induction, for proofs about recursive functions and about the loops     *)
(* that the models write as folds.  An instance of this module gives what  *)
(* one pass makes and what is to hold after it; "c" is what surrounds the  *)
(* loop.                                                                   *)
(***************************************************************************)
EXTENDS Integers, Sequences, TLAPS

CONSTANTS
    Pass(_, _, _),  \* Pass(c, done, x): the result so far after the element x
    Inv(_, _, _)    \* Inv(c, i, done): what holds of it after i passes

LOCAL WF == INSTANCE WellFoundedInduction

-----------------------------------------------------------------------------
(* A set of numbers has a least one.                                       *)

LEMMA LeastOfNats ==
    ASSUME NEW T, T \subseteq Nat, T # {}
    PROVE  \E m \in T : \A n \in T : m <= n
<1> DEFINE R == WF!OpToRel(<, Nat)
<1>1. WF!IsWellFoundedOn(R, Nat)
  BY WF!NatLessThanWellFounded
<1>2. R = {ss \in Nat \X Nat : ss[1] < ss[2]}
  BY DEF WF!OpToRel
<1> HIDE DEF R
<1>3. PICK x \in T : \A y \in T : ~ (<<y, x>> \in R)
  BY <1>1, WF!WFMin
<1>4. \A y \in T : ~ (y < x)
  BY <1>2, <1>3
<1>5. \A y \in T : x <= y
  <2>1. TAKE y \in T
  <2>2. x \in Nat /\ y \in Nat /\ ~ (y < x)
    BY <1>4
  <2>3. QED
    BY <2>2
<1>6. QED
  BY <1>5

(* What holds at 0 and is passed on holds of all numbers.                  *)
LEMMA Induction ==
    ASSUME NEW c, NEW x, Inv(c, 0, x), \A n \in Nat : Inv(c, n, x) => Inv(c, n + 1, x)
    PROVE  \A n \in Nat : Inv(c, n, x)
<1> DEFINE T == {k \in Nat : ~Inv(c, k, x)}
<1>1. SUFFICES ASSUME T # {} PROVE FALSE
  OBVIOUS
<1>2. PICK k \in T : \A j \in T : k <= j
  BY <1>1, LeastOfNats
<1>3. k \in Nat /\ ~Inv(c, k, x)
  OBVIOUS
<1>4. k - 1 \in Nat /\ (k - 1) + 1 = k /\ ~(k <= k - 1)
  BY <1>3
<1>5. Inv(c, k - 1, x)
  BY <1>2, <1>4
<1>6. QED
  BY <1>3, <1>4, <1>5

-----------------------------------------------------------------------------
(* A function defined by recursion over the numbers.                       *)

Recursive(c, base, f) == f = [n \in Nat |-> IF n = 0 THEN base ELSE Pass(c, f[n - 1], n)]

(* f has its values up to n.                                               *)
UpTo(c, base, f, n) ==
    f[0] = base /\ \A i \in 1..n : f[i] = Pass(c, f[i - 1], i)

SomeUpTo(c, base, n) == \E f : UpTo(c, base, f, n)

LEMMA ValuesExist ==
    ASSUME NEW c, NEW base, NEW n \in Nat
    PROVE  SomeUpTo(c, base, n)
<1> DEFINE T == {k \in Nat : ~SomeUpTo(c, base, k)}
<1>1. SUFFICES ASSUME T # {} PROVE FALSE
  OBVIOUS
<1>2. PICK k \in T : \A j \in T : k <= j
  BY <1>1, LeastOfNats
<1>3. k \in Nat /\ ~SomeUpTo(c, base, k)
  OBVIOUS
<1>4. CASE k = 0
  <2> DEFINE f == [i \in {0} |-> base]
  <2>1. UpTo(c, base, f, 0)
    BY DEF UpTo
  <2>2. QED
    BY <1>3, <1>4, <2>1 DEF SomeUpTo
<1>5. CASE k > 0
  <2>1. k - 1 \in Nat /\ k - 1 \notin T
    BY <1>2, <1>3, <1>5
  <2>2. PICK g : UpTo(c, base, g, k - 1)
    BY <2>1 DEF SomeUpTo
  <2> HIDE DEF T
  <2> DEFINE f == [i \in 0..k |-> IF i = k THEN Pass(c, g[k - 1], k) ELSE g[i]]
  <2>3. f[0] = g[0]
    BY <1>3, <1>5
  <2>4. ASSUME NEW i \in 1..k
        PROVE  f[i] = Pass(c, f[i - 1], i)
    <3>1. i \in 0..k /\ i - 1 \in 0..k /\ i - 1 # k
      BY <1>3
    <3>2. CASE i = k
      BY <3>1, <3>2
    <3>3. CASE i # k
      <4>1. i \in 1..(k - 1)
        BY <1>3, <3>3
      <4>2. QED
        BY <2>2, <3>1, <3>3, <4>1 DEF UpTo
    <3>4. QED
      BY <3>2, <3>3
  <2> HIDE DEF f
  <2>5. UpTo(c, base, f, k)
    BY <2>2, <2>3, <2>4 DEF UpTo
  <2>6. QED
    BY <1>3, <2>5 DEF SomeUpTo
<1>6. QED
  BY <1>3, <1>4, <1>5

LEMMA ValuesAgree ==
    ASSUME NEW c, NEW base, NEW n \in Nat, NEW m \in Nat, NEW f, NEW g,
           UpTo(c, base, f, n), UpTo(c, base, g, m), NEW i \in Nat, i <= n, i <= m
    PROVE  f[i] = g[i]
<1> DEFINE T == {k \in Nat : k <= n /\ k <= m /\ f[k] # g[k]}
<1>1. SUFFICES ASSUME T # {} PROVE FALSE
  OBVIOUS
<1>2. PICK k \in T : \A j \in T : k <= j
  BY <1>1, LeastOfNats
<1>3. k \in Nat /\ k <= n /\ k <= m /\ f[k] # g[k]
  OBVIOUS
<1>4. k # 0
  BY <1>3 DEF UpTo
<1>5. k - 1 \in Nat /\ k - 1 <= n /\ k - 1 <= m /\ k \in 1..n /\ k \in 1..m /\ ~(k <= k - 1)
  BY <1>3, <1>4
<1>6. f[k - 1] = g[k - 1]
  BY <1>2, <1>5
<1>7. QED
  BY <1>3, <1>5, <1>6 DEF UpTo

(* There is a function with the values of all of them.                     *)
LEMMA RecursionExists ==
    ASSUME NEW c, NEW base
    PROVE  \E f : Recursive(c, base, f)
<1> DEFINE P(n) == CHOOSE f : UpTo(c, base, f, n)
           t == [n \in Nat |-> P(n)[n]]
<1>1. \A n \in Nat : UpTo(c, base, P(n), n)
  BY ValuesExist DEF SomeUpTo
<1> HIDE DEF P
<1>2. ASSUME NEW n \in Nat
      PROVE  t[n] = IF n = 0 THEN base ELSE Pass(c, t[n - 1], n)
  <2>1. CASE n = 0
    BY <1>1, <2>1 DEF UpTo
  <2>2. CASE n # 0
    <3>1. n - 1 \in Nat /\ n \in 1..n /\ n - 1 <= n /\ n - 1 <= n - 1
      BY <2>2
    <3>2. P(n)[n] = Pass(c, P(n)[n - 1], n)
      BY <1>1, <3>1 DEF UpTo
    <3>3. P(n)[n - 1] = P(n - 1)[n - 1]
      BY <1>1, <3>1, ValuesAgree
    <3>4. QED
      BY <2>2, <3>1, <3>2, <3>3
  <2>3. QED
    BY <2>1, <2>2
<1>3. t = [n \in Nat |-> t[n]]
  OBVIOUS
<1> HIDE DEF t
<1>4. Recursive(c, base, t)
  BY <1>2, <1>3 DEF Recursive
<1>5. QED
  BY <1>4

-----------------------------------------------------------------------------
(* A loop over a sequence.                                                 *)

(* The last of some places.                                                *)
Highest(s) == CHOOSE x \in s : \A y \in s : x >= y

LEMMA LastPlace ==
    ASSUME NEW n \in Nat, NEW s \in SUBSET (1..n), s # {}
    PROVE  Highest(s) \in s /\ \A j \in s : j <= Highest(s)
<1> DEFINE T == {n - i : i \in s}
<1>1. T \subseteq Nat /\ T # {}
  <2>1. \A i \in s : n - i \in Nat
    OBVIOUS
  <2>2. QED
    BY <2>1
<1> HIDE DEF T
<1>2. PICK m \in T : \A k \in T : m <= k
  BY <1>1, LeastOfNats
<1>3. PICK i \in s : m = n - i
  BY <1>2 DEF T
<1>4. \A j \in s : n - j \in T
  BY DEF T
<1>5. \A j \in s : n - i <= n - j
  BY <1>2, <1>3, <1>4
<1>6. \A j \in s : i \in Nat /\ j \in Nat
  OBVIOUS
<1>7. \A j \in s : i >= j
  BY <1>5, <1>6
<1>8. Highest(s) \in s /\ \A j \in s : Highest(s) >= j
  BY <1>7 DEF Highest
<1>9. QED
  BY <1>6, <1>8

(***************************************************************************)
(* The function by which a fold reads the elements at the places S: the    *)
(* last of them after the others.                                          *)
(***************************************************************************)
Reads(c, base, s, f, S) ==
    f = [t \in SUBSET S |->
            IF t = {} THEN base ELSE Pass(c, f[t \ {Highest(t)}], s[Highest(t)])]

Loop(c, base, s) == (CHOOSE f : Reads(c, base, s, f, DOMAIN s))[DOMAIN s]

HasReading(c, base, s, S) == \E f : Reads(c, base, s, f, S)

(* There is one for all places of a sequence: it reads the last element    *)
(* after what another one reads of the places before it.                   *)
LEMMA ReadingsExist ==
    ASSUME NEW n \in Nat, NEW c, NEW base, NEW s
    PROVE  HasReading(c, base, s, 1..n)
<1> DEFINE T == {k \in Nat : ~HasReading(c, base, s, 1..k)}
<1>1. SUFFICES ASSUME T # {} PROVE FALSE
  OBVIOUS
<1>2. PICK k \in T : \A j \in T : k <= j
  BY <1>1, LeastOfNats
<1>3. /\ k \in Nat /\ ~HasReading(c, base, s, 1..k)
      /\ \A j \in Nat : j < k => HasReading(c, base, s, 1..j)
  <2>1. \A j \in Nat : j < k => j \notin T
    BY <1>2
  <2>2. QED
    BY <2>1
<1> HIDE DEF T
<1>4. PICK g : k > 0 => Reads(c, base, s, g, 1..(k - 1))
  <2>1. k > 0 => HasReading(c, base, s, 1..(k - 1))
    BY <1>3
  <2>2. QED
    BY <2>1 DEF HasReading
<1> DEFINE f == [t \in SUBSET (1..k) |->
                   IF t = {} THEN base ELSE Pass(c, g[t \ {Highest(t)}], s[Highest(t)])]
<1>5. ASSUME NEW t \in SUBSET (1..k), t # {}
      PROVE  f[t \ {Highest(t)}] = g[t \ {Highest(t)}]
  <2> DEFINE u == t \ {Highest(t)}
  <2>1. Highest(t) \in t /\ \A j \in t : j <= Highest(t)
    BY <1>3, <1>5, LastPlace
  <2>2. k > 0 /\ u \in SUBSET (1..k) /\ u \in SUBSET (1..(k - 1))
    <3>1. Highest(t) \in 1..k
      BY <2>1
    <3>2. \A j \in u : j \in 1..k /\ j <= Highest(t) /\ j # Highest(t)
      BY <2>1
    <3>3. \A j \in u : j \in 1..(k - 1)
      BY <1>3, <3>1, <3>2
    <3>4. k > 0
      BY <1>3, <3>1
    <3> HIDE DEF u
    <3>5. QED
      BY <3>2, <3>3, <3>4
  <2> HIDE DEF u
  <2>3. g[u] = IF u = {} THEN base ELSE Pass(c, g[u \ {Highest(u)}], s[Highest(u)])
    BY <1>4, <2>2 DEF Reads
  <2>4. f[u] = IF u = {} THEN base ELSE Pass(c, g[u \ {Highest(u)}], s[Highest(u)])
    BY <2>2
  <2> HIDE DEF f
  <2>5. QED
    BY <2>3, <2>4 DEF u
<1>6. ASSUME NEW t \in SUBSET (1..k)
      PROVE  f[t] = IF t = {} THEN base ELSE Pass(c, f[t \ {Highest(t)}], s[Highest(t)])
  BY <1>5
<1>7. f = [t \in SUBSET (1..k) |-> f[t]]
  OBVIOUS
<1> HIDE DEF f
<1>8. Reads(c, base, s, f, 1..k)
  BY <1>6, <1>7 DEF Reads
<1>9. QED
  BY <1>3, <1>8 DEF HasReading

(* What holds before the first pass and is kept by each holds at the end.  *)
LEMMA LoopRule ==
    ASSUME NEW c, NEW base, NEW s, NEW n \in Nat, DOMAIN s = 1..n,
           Inv(c, 0, base),
           \A i \in 1..n : \A done : Inv(c, i - 1, done) => Inv(c, i, Pass(c, done, s[i]))
    PROVE  Inv(c, n, Loop(c, base, s))
<1> DEFINE f == CHOOSE g : Reads(c, base, s, g, 1..n)
           T == {k \in Nat : k <= n /\ ~Inv(c, k, f[1..k])}
<1>1. Reads(c, base, s, f, 1..n)
  <2>1. HasReading(c, base, s, 1..n)
    BY ReadingsExist
  <2>2. QED
    BY <2>1 DEF HasReading
<1>2. Loop(c, base, s) = f[1..n]
  BY DEF Loop
<1> HIDE DEF f
<1>3. SUFFICES ASSUME T # {} PROVE FALSE
  BY <1>2
<1>4. PICK k \in T : \A j \in T : k <= j
  BY <1>3, LeastOfNats
<1>5. k \in Nat /\ k <= n /\ ~Inv(c, k, f[1..k])
  OBVIOUS
<1>6. \A t \in SUBSET (1..n) :
        f[t] = IF t = {} THEN base ELSE Pass(c, f[t \ {Highest(t)}], s[Highest(t)])
  BY <1>1 DEF Reads
<1>7. 1..k \in SUBSET (1..n)
  BY <1>5
<1>8. 1..k # {} /\ k > 0
  <2>1. f[{}] = base
    BY <1>6
  <2>2. k = 0 => 1..k = {}
    OBVIOUS
  <2>3. k # 0
    BY <1>5, <2>1, <2>2
  <2>4. QED
    BY <1>5, <2>3
<1>9. Highest(1..k) = k
  <2>1. Highest(1..k) \in 1..k /\ \A j \in 1..k : j <= Highest(1..k)
    BY <1>5, <1>8, LastPlace
  <2>2. QED
    BY <1>5, <1>8, <2>1
<1>10. (1..k) \ {k} = 1..(k - 1)
  BY <1>5, <1>8
<1>11. f[1..k] = Pass(c, f[1..(k - 1)], s[k])
  BY <1>6, <1>7, <1>8, <1>9, <1>10
<1>12. Inv(c, k - 1, f[1..(k - 1)])
  <2>1. k - 1 \in Nat /\ k - 1 <= n /\ ~(k <= k - 1)
    BY <1>5, <1>8
  <2>2. k - 1 \notin T
    BY <1>4, <2>1
  <2>3. QED
    BY <2>1, <2>2
<1> HIDE DEF T
<1>13. k \in 1..n
  BY <1>5, <1>8
<1>14. QED
  BY <1>5, <1>11, <1>12, <1>13
=============================================================================
