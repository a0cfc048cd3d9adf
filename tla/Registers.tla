----------------------------- MODULE Registers -----------------------------
(***************************************************************************)
(* A thread's registers as `print' and `set' see them (src/process.rs,     *)
(* AlignedContext): integers, the x87 stack as floats, and the MMX names   *)
(* of the same stack. Doubles keep the code's fields: a sign, an exponent  *)
(* of Gap values with bias Bias, a fraction of Fraction values; an x87     *)
(* register holds an explicit integer bit and an exponent of bias ExtBias. *)
(* The code has Fraction = 2^52, Bias = 1023 and ExtBias = 16383.          *)
(***************************************************************************)
EXTENDS Arith

CONSTANTS
  Fraction,   \* values of the fraction field of a double
  Bias,       \* exponent bias of a double
  ExtBias     \* exponent bias of an x87 register

\* Values of the two exponent fields.
Gap == 2 * Bias + 2
ExtGap == 2 * ExtBias + 2
IntegerBit == Gap * Fraction

ASSUME FormatAssumption ==
  /\ Fraction \in Nat \ {0} /\ Bias \in Nat \ {0} /\ ExtBias \in Nat /\ ExtBias > Bias
  /\ Word = 2 * IntegerBit
  /\ Bits <= Bias /\ \E p \in 0 .. Bits : Fraction = 2^p

F64 == [sign : {0, 1}, exp : 0 .. Gap - 1, man : 0 .. Fraction - 1]
Zero(sign) == [sign |-> sign, exp |-> 0, man |-> 0]
Infinity(sign) == [sign |-> sign, exp |-> Gap - 1, man |-> 0]
NaN == [sign |-> 0, exp |-> Gap - 1, man |-> Fraction \div 2]
IsNaN(f) == f.exp = Gap - 1 /\ f.man # 0
Negated(f) == [f EXCEPT !.sign = 1 - @]
\* Doubles without the subnormal ones, whose encoding is approximate.
Exact == {f \in F64 : f.exp = 0 => f.man = 0}

from_bits(u) == [sign |-> u \div IntegerBit, exp |-> (u \div Fraction) % Gap, man |-> u % Fraction]
to_bits(f) == f.sign * IntegerBit + f.exp * Fraction + f.man

\* `as i64': toward zero, saturating, NaN to 0.
truncate(f) ==
  LET e == f.exp - Bias
      n == ((Fraction + f.man) * 2^e) \div Fraction
  IN  IF IsNaN(f) \/ e < 0 THEN 0
      ELSE IF e >= Bits - 1 THEN (IF f.sign = 1 THEN -Half ELSE Half - 1)
      ELSE IF f.sign = 1 THEN -n ELSE n

\* `as f64': to nearest, ties to even.
widen(n) ==
  LET a == AbsVal(n)
      e == CHOOSE k \in 0 .. Bits : 2^k <= a /\ a < 2^(k + 1)
      unit == 2^e \div Fraction
      q == a \div unit
      r == 2 * (a % unit)
      rounded == q + (IF r > unit \/ (r = unit /\ q % 2 = 1) THEN 1 ELSE 0)
      Make(exp, man) == [sign |-> IF n < 0 THEN 1 ELSE 0, exp |-> exp + Bias, man |-> man]
  IN  IF a = 0 THEN Zero(0)
      ELSE IF 2^e <= Fraction THEN Make(e, (a - 2^e) * (Fraction \div 2^e))
      ELSE IF rounded = 2 * Fraction THEN Make(e + 1, 0) ELSE Make(e, rounded - Fraction)

\* Exponents a double has not: the product with powi overflows, or vanishes.
\* (The subnormal results just below the range are taken as zero.)
OutOfRange(sign, mantissa, exp) ==
  IF exp < 1 THEN Zero(sign) ELSE IF mantissa = 0 THEN NaN ELSE Infinity(sign)

decode_x87_extended(mantissa, high) ==
  LET sign == (high \div ExtGap) % 2
      exponent == high % ExtGap
      exp == (exponent - ExtBias) + Bias
  IN  IF exponent = 0 /\ mantissa = 0 THEN Zero(sign)
      ELSE IF exponent = ExtGap - 1
      THEN IF mantissa = IntegerBit THEN Infinity(sign) ELSE NaN
      ELSE IF exp \notin 1 .. Gap - 2 THEN OutOfRange(sign, mantissa, exp)
      ELSE [sign |-> sign, exp |-> exp, man |-> ((2 * mantissa) % Word) \div (2 * Gap)]

\* Of an Exact double.
encode_x87_extended(f) ==
  LET Ext(low, exponent) == [low |-> low, high |-> f.sign * ExtGap + exponent]
  IN  IF f.exp = 0 /\ f.man = 0 THEN Ext(0, 0)
      ELSE IF f.exp = Gap - 1
      THEN Ext(IntegerBit + (IF f.man = 0 THEN 0 ELSE f.man * Gap), ExtGap - 1)
      ELSE Ext(IntegerBit + f.man * Gap, (f.exp - Bias + ExtBias) % ExtGap)

(***************************************************************************)
(* Values of the evaluator, and registers by name.                         *)
(***************************************************************************)
IntValue(n) == [kind |-> "Int", n |-> n]
FloatValue(f) == [kind |-> "Float", f |-> f]
as_i64(v) == IF v.kind = "Int" THEN v.n ELSE truncate(v.f)
as_f64(v) == IF v.kind = "Int" THEN widen(v.n) ELSE v.f

\* Names are matched as strings; these are the numbered families.
St == [st0 |-> 0, st1 |-> 1]
Mm == [mm0 |-> 0, mm1 |-> 1]
NoRegister == [kind |-> "None"]

\* `wide' are the 64-bit registers and the halves of XMM, `narrow' eflags and mxcsr.
register(regs, name) ==
  CASE name \in DOMAIN St ->
         LET r == regs.fp[St[name]] IN FloatValue(decode_x87_extended(r.low, r.high))
    [] name \in DOMAIN Mm -> IntValue(i64(regs.fp[Mm[name]].low))
    [] name \in DOMAIN regs.wide -> IntValue(i64(regs.wide[name]))
    [] name \in DOMAIN regs.narrow -> IntValue(regs.narrow[name])
    [] OTHER -> NoRegister

Known(regs, name) == register(regs, name) # NoRegister

\* Every integer register taken for one of 64 bits.
write_wide(regs, name, v) ==
  IF name \in DOMAIN regs.narrow THEN [regs EXCEPT !.narrow[name] = u64(as_i64(v))] ELSE regs

write_register(regs, name, v) ==
  CASE name \in DOMAIN St -> [regs EXCEPT !.fp[St[name]] = encode_x87_extended(as_f64(v))]
    [] name \in DOMAIN Mm -> [regs EXCEPT !.fp[Mm[name]].low = u64(as_i64(v))]
    [] name \in DOMAIN regs.wide -> [regs EXCEPT !.wide[name] = u64(as_i64(v))]
    [] name \in DOMAIN regs.narrow -> [regs EXCEPT !.narrow[name] = as_i64(v) % Values[4]]
=============================================================================
