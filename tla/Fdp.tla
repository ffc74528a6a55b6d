---------------------------------- MODULE Fdp ----------------------------------
(***************************************************************************)
(* Decimal floating point (math/fdp.c, fdp.h): a sign, a mantissa, and an  *)
(* exponent of four bits and a sign bit of its own.  junk is what a result *)
(* holds, and an exponent is, where nothing sets it.                       *)
(*                                                                         *)
(* A sum scales the number with the lower exponent, and away from the      *)
(* other one; its exponent is then overwritten by how far the mantissa was *)
(* shrunk, which a product and a quotient forget.  Neither of those has a  *)
(* sign.  So only products are the number they should be.                  *)
(***************************************************************************)
EXTENDS Integers, Sequences, FiniteSetsExt, Folds

CONSTANT MantissaBits \* 26

EXTEND_VAL == 5
Limit == 2^MantissaBits \div 10
Faulted == [end |-> "fault"]
Endless == [end |-> "endless"]
IsNumber(n) == "mant" \in DOMAIN n

(* The exponent as a char, -128 and more where the sign bit is set.        *)
ExpChar(n) == IF n.enega THEN n.exp - 128 ELSE n.exp
CharExp(n, char) == [n EXCEPT !.exp = char % 16, !.enega = char % 256 >= 128]

Shrink(mid) == mid \div 10^Min({k \in 0 .. 9 : mid \div 10^k <= Limit})
OrderSub(n) == IF n.mant > Limit THEN n ELSE [CharExp(n, ExpChar(n) - 1) EXCEPT !.mant = @ * 10]
OrderInc(n) == [CharExp(n, ExpChar(n) + 1) EXCEPT !.mant = @ \div 10]
Extend(n, times) == FoldSet(LAMBDA k, m : OrderSub(m), n, 1 .. times)
Powd(n) == 10^n

(* The loop that takes zeros off has no end for a mantissa of 0.           *)
Simplify(n) ==
  IF ~IsNumber(n) THEN n
  ELSE IF n.mant = 0 THEN Endless
  ELSE LET zeros == Max({k \in 0 .. 9 : n.mant % 10^k = 0})
       IN  [CharExp(n, ExpChar(n) + zeros) EXCEPT !.mant = @ \div 10^zeros]

(* A result whose mantissa was shrunk to this, with its exponent.          *)
Rounded(mid, result) ==
  IF Shrink(mid) = 0 THEN Faulted
  ELSE [result EXCEPT !.mant = Shrink(mid), !.exp = (mid \div Shrink(mid)) % 16]

AddSimple(a, b, junk) ==
  LET ea == ExpChar(a)
      eb == ExpChar(b)
      x == IF ea < eb THEN Extend(a, eb - ea) ELSE a
      y == IF eb < ea THEN Extend(b, ea - eb) ELSE b
      result == CharExp(junk, IF ea = eb THEN ExpChar(junk) ELSE Max({ea, eb}))
  IN  Simplify(CASE x.neg = y.neg -> Rounded(x.mant + y.mant, [result EXCEPT !.neg = x.neg])
                 [] x.mant >= y.mant -> Rounded(x.mant - y.mant, [result EXCEPT !.neg = x.neg])
                 [] OTHER -> Rounded(y.mant - x.mant, [result EXCEPT !.neg = y.neg]))
Add(a, b, junk) == IF 0 \in {a.mant, b.mant} THEN Endless ELSE AddSimple(Simplify(a), Simplify(b), junk)
Sub(a, b, junk) == Add(a, [b EXCEPT !.neg = ~@], junk)

Times(a, b, junk) ==
  Simplify(CharExp(Rounded(a.mant * b.mant, junk), ExpChar(a) + ExpChar(b)))
Mul(a, b, junk) == IF 0 \in {a.mant, b.mant} THEN Endless ELSE Times(Simplify(a), Simplify(b), junk)

Over(a, b, junk) ==
  LET result == IF b.mant = 0 THEN Faulted ELSE Rounded(a.mant \div b.mant, junk)
  IN  IF result = Faulted THEN Faulted ELSE Simplify(CharExp(result, ExpChar(a) - ExpChar(b)))
Div(a, b, junk) == Over(Extend(a, EXTEND_VAL), Extend(b, EXTEND_VAL), junk)

-----------------------------------------------------------------------------
Numbers == [neg : {FALSE}, enega : {FALSE}, exp : 0 .. 3, mant : 1 .. 30]
Junks == [neg : BOOLEAN, enega : {TRUE}, exp : {9}, mant : {5}]
Meant(n) == n.mant * 10^n.exp

(* A product that needs no more than the mantissa is exact, and has none   *)
(* of its zeros left (fdp.c:84-113).                                       *)
ASSUME ProductsExact ==
  \A a, b \in Numbers, junk \in Junks :
    LET c == Mul(a, b, junk)
    IN  Meant(c) = Meant(a) * Meant(b) /\ c.mant % 10 # 0
(* A step down is undone by a step up, except from the exponent 0.         *)
ASSUME OrdersUndone ==
  \A a \in Numbers : IF a.exp = 0 THEN ExpChar(OrderSub(a)) = -113 ELSE OrderInc(OrderSub(a)) = a
(* A sum does not depend on the order; nothing less itself has no end that *)
(* is a number, and any other sum of two whole numbers comes out tenfold.  *)
ASSUME SumsMisread ==
  \A a, b \in {n \in Numbers : n.exp = 0}, junk \in [neg : BOOLEAN, enega : {FALSE}, exp : {9}, mant : {5}] :
    /\ Add(a, b, junk) = Add(b, a, junk)
    /\ Sub(a, a, junk) = Faulted
    /\ a.mant % 10 # 0 /\ b.mant % 10 # 0 => Meant(Add(a, b, junk)) = 10 * (a.mant + b.mant)
(* A quotient of exponents that fall behind one another is too small to be *)
(* a number: 1 / 3 faults.                                                 *)
ASSUME QuotientsWhole ==
  \A a, b \in {n \in Numbers : n.exp = 0}, junk \in Junks :
    LET c == Div(a, b, junk)
    IN  IF a.mant < b.mant THEN c = Faulted ELSE Meant(c) = a.mant \div b.mant
=============================================================================
