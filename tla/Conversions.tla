---------------------------- MODULE Conversions ----------------------------
(***************************************************************************)
(* The numbers the worker reads from text: gettIntAndExp                   *)
(* (api/delegations.go) for shares and balances, getCoin                   *)
(* (api/mapper/bank.go) for the amounts in logs.  Both give an integer and *)
(* an exponent.                                                            *)
(***************************************************************************)
EXTENDS Integers, Sequences

(* A number as the node writes it: without a point; with one point and     *)
(* "places" digits after it, whose value is dec; with several points; not  *)
(* a number.  Amounts on a chain are not negative.                         *)
Plain(i) == [form |-> "plain", int |-> i, dec |-> 0, places |-> 0]
Point(i, d, n) == [form |-> "point", int |-> i, dec |-> d, places |-> n]
Points == [form |-> "points", int |-> 0, dec |-> 0, places |-> 0]
Words == [form |-> "words", int |-> 0, dec |-> 0, places |-> 0]

Text == [form : {"plain", "point", "points", "words"}, int : Nat, dec : Nat, places : Nat]

TenTo[n \in Nat] == IF n = 0 THEN 1 ELSE 10 * TenTo[n - 1]

IsText(t) ==
    /\ t \in Text
    /\ t.form = "point" => t.places > 0 /\ t.dec < TenTo[t.places]
    /\ t.form # "point" => t.dec = 0 /\ t.places = 0

Number(n, e) == [numeric |-> n, exp |-> e]

Digits(t) == t.int * TenTo[t.places] + t.dec

\* Seeded fault: leading zeros after the point are not counted.
IntAndExpNoZeros(t) ==
    IF t.form = "plain" \/ t.dec = 0 THEN Number(t.int, 0)
    ELSE LET n == CHOOSE k \in 1..t.places : TenTo[k - 1] <= t.dec /\ t.dec < TenTo[k]
         IN Number(t.int * TenTo[n] + t.dec, n)

(* gettIntAndExp: zeros after the point are dropped with the exponent.     *)
GettsInt(t) == t.form \in {"plain", "point"}
IntAndExp(t) ==
    IF t.form = "plain" \/ t.dec = 0 THEN Number(t.int, 0)
    ELSE Number(Digits(t), t.places)

(* getCoin: text that is not a number reads as 0; SetString's failure is   *)
(* not looked at.                                                          *)
GetsCoin(t) == t.form # "points"
Coin(t) ==
    CASE t.form = "point" -> Number(Digits(t), t.places)
      [] t.form = "plain" -> Number(t.int, 0)
      [] OTHER -> Number(0, 0)

(* The number n stands for the text t: numeric / 10^exp = int.dec          *)
Denotes(n, t) == n.numeric * TenTo[t.places] = Digits(t) * TenTo[n.exp]
=============================================================================
