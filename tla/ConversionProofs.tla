-------------------------- MODULE ConversionProofs --------------------------
(***************************************************************************)
(* Lemmas about Conversions: powers of ten, and that a number as it is     *)
(* written stands for its text.                                            *)
(***************************************************************************)
EXTENDS Conversions, TLAPS

TimesTen(c, done, n) == 10 * done
IsPower(c, k, x) == TenTo[k] \in Nat
AddsUp(a, k, x) == TenTo[a + k] = TenTo[a] * TenTo[k]

Powers == INSTANCE InductionRules WITH Pass <- TimesTen, Inv <- IsPower
Sums == INSTANCE InductionRules WITH Pass <- TimesTen, Inv <- AddsUp

LEMMA TenToDef == TenTo = [n \in Nat |-> IF n = 0 THEN 1 ELSE 10 * TenTo[n - 1]]
<1>1. \E f : f = [n \in Nat |-> IF n = 0 THEN 1 ELSE 10 * f[n - 1]]
  BY Powers!RecursionExists DEF Powers!Recursive, TimesTen
<1>2. QED
  BY <1>1 DEF TenTo

LEMMA TenToNone == TenTo[0] = 1
  BY TenToDef

LEMMA TenToNext ==
    ASSUME NEW n \in Nat
    PROVE  TenTo[n + 1] = 10 * TenTo[n]
<1>1. n + 1 \in Nat /\ n + 1 # 0 /\ (n + 1) - 1 = n
  OBVIOUS
<1>2. TenTo[n + 1] = IF n + 1 = 0 THEN 1 ELSE 10 * TenTo[(n + 1) - 1]
  BY <1>1, TenToDef
<1>3. QED
  BY <1>1, <1>2

LEMMA TenToType == \A n \in Nat : TenTo[n] \in Nat
<1>1. IsPower(0, 0, 0)
  BY TenToNone DEF IsPower
<1>2. \A n \in Nat : IsPower(0, n, 0) => IsPower(0, n + 1, 0)
  BY TenToNext DEF IsPower
<1>3. \A n \in Nat : IsPower(0, n, 0)
  BY <1>1, <1>2, Powers!Induction
<1>4. QED
  BY <1>3 DEF IsPower

LEMMA TenToSum ==
    ASSUME NEW a \in Nat, NEW b \in Nat
    PROVE  TenTo[a + b] = TenTo[a] * TenTo[b]
<1>1. AddsUp(a, 0, 0)
  BY TenToType, TenToNone DEF AddsUp
<1>2. ASSUME NEW n \in Nat, AddsUp(a, n, 0)
      PROVE  AddsUp(a, n + 1, 0)
  <2>1. a + (n + 1) = (a + n) + 1 /\ a + n \in Nat
    OBVIOUS
  <2>2. TenTo[a + (n + 1)] = 10 * (TenTo[a] * TenTo[n])
    BY <1>2, <2>1, TenToNext DEF AddsUp
  <2>3. TenTo[a] \in Nat /\ TenTo[n] \in Nat
    BY TenToType
  <2>4. 10 * (TenTo[a] * TenTo[n]) = TenTo[a] * (10 * TenTo[n])
    BY <2>3
  <2>5. QED
    BY <2>2, <2>4, TenToNext DEF AddsUp
<1>3. \A n \in Nat : AddsUp(a, n, 0)
  BY <1>1, <1>2, Sums!Induction
<1>4. QED
  BY <1>3 DEF AddsUp

-----------------------------------------------------------------------------
(* A text without a point stands for its integer, one with a point for all *)
(* its digits with as many decimals as it has, or more.                    *)

LEMMA PlainDenotes ==
    ASSUME NEW t, IsText(t), t.form # "point"
    PROVE  Denotes(Number(t.int, 0), t)
<1>1. t.places = 0 /\ t.dec = 0 /\ t.int \in Nat
  BY DEF IsText, Text
<1>2. QED
  BY <1>1, TenToNone DEF Denotes, Digits, Number

LEMMA DigitsDenote ==
    ASSUME NEW t
    PROVE  Denotes(Number(Digits(t), t.places), t)
  BY DEF Denotes, Number

LEMMA MoreDigitsDenote ==
    ASSUME NEW t, IsText(t), NEW n \in Nat
    PROVE  Denotes(Number(Digits(t) * TenTo[n], n + t.places), t)
<1>1. t.int \in Nat /\ t.dec \in Nat /\ t.places \in Nat
  BY DEF IsText, Text
<1>2. TenTo[n + t.places] = TenTo[n] * TenTo[t.places]
  BY <1>1, TenToSum
<1>3. TenTo[n] \in Nat /\ TenTo[t.places] \in Nat
  BY <1>1, TenToType
<1>4. Digits(t) \in Nat
  BY <1>1, <1>3 DEF Digits
<1>5. (Digits(t) * TenTo[n]) * TenTo[t.places] = Digits(t) * (TenTo[n] * TenTo[t.places])
  BY <1>3, <1>4
<1>6. QED
  BY <1>2, <1>5 DEF Denotes, Number

LEMMA NoDecimalsDenote ==
    ASSUME NEW t, IsText(t), t.dec = 0
    PROVE  Denotes(Number(t.int, 0), t)
<1>1. TenTo[t.places] \in Nat /\ t.int \in Nat
  BY TenToType DEF IsText, Text
<1>2. Digits(t) = t.int * TenTo[t.places]
  BY <1>1 DEF Digits
<1>3. QED
  BY <1>1, <1>2, TenToNone DEF Denotes, Number
=============================================================================
