-------------------------- MODULE Registers_proofs --------------------------
(***************************************************************************)
(* The operators and conversions of Arith and Registers, for every size of *)
(* a byte, of a word and of the fields of a float: the operators are C's,  *)
(* doubles keep their bits and integers go through them unchanged, and     *)
(* what `set' puts in a register is what `print' then shows.               *)
(***************************************************************************)
EXTENDS Registers, FiniteSetTheorems, WellFoundedInduction, TLAPS

-----------------------------------------------------------------------------
(* Quotients and remainders.                                               *)

\* A quotient and a remainder in range are those of \div and %.
LEMMA DivMod ==
  ASSUME NEW b \in Nat \ {0}, NEW q \in Int, NEW r \in 0 .. b - 1
  PROVE  (q * b + r) \div b = q /\ (q * b + r) % b = r
<1> DEFINE n == q * b + r
           d == n \div b
           m == n % b
<1>1. n \in Int
  OBVIOUS
<1>2. d \in Int /\ m \in 0 .. b - 1 /\ n = b * d + m
  BY <1>1, Z3
<1>3. b * (q - d) = m - r
  BY <1>2, Z3
<1>4. q - d = 0
  <2>1. ~ q - d >= 1
    BY <1>2, <1>3, Z3
  <2>2. ~ q - d <= -1
    BY <1>2, <1>3, Z3
  <2>3. QED
    BY <1>2, <2>1, <2>2
<1>5. QED
  BY <1>2, <1>3, <1>4

\* What \div and % give.
LEMMA Divided ==
  ASSUME NEW a \in Int, NEW b \in Nat \ {0}
  PROVE  a \div b \in Int /\ a % b \in 0 .. b - 1 /\ a = b * (a \div b) + (a % b)
  BY Z3

\* Signs in a product.
LEMMA Negative ==
  ASSUME NEW a \in Int, NEW b \in Int
  PROVE  (-a) * b = -(a * b) /\ (-a) * (-b) = a * b
  BY Z3

\* A word is even, and has more than two values.
LEMMA WordSize == Word \in Nat \ {0} /\ Half \in Nat \ {0, 1} /\ Word = 2 * Half
<1>1. Bias \in Nat \ {0} /\ Fraction \in Nat \ {0} /\ Word = 2 * IntegerBit
  BY FormatAssumption DEF FormatAssumption
<1>2. Gap \in Nat \ {0, 1}
  BY <1>1 DEF Gap
<1>3. IntegerBit \in Nat \ {0, 1}
  BY <1>1, <1>2, Z3 DEF IntegerBit
<1>4. Half = IntegerBit
  BY <1>1, <1>3 DEF Half
<1>5. QED
  BY <1>1, <1>3, <1>4

\* i64 is the value of a word with these bits, and u64 its bits.
LEMMA Wrapped ==
  ASSUME NEW n \in Int
  PROVE  /\ i64(n) \in I64 /\ u64(n) \in U64
         /\ i64(u64(n)) = i64(n)
         /\ n \in I64 => i64(n) = n
<1>1. n % Word \in 0 .. Word - 1
  BY WordSize
<1>2. (n % Word) % Word = n % Word
  BY <1>1, WordSize, DivMod
<1>3. i64(n) = IF n % Word < Half THEN n % Word ELSE (n % Word) - Word
  BY DEF i64, Wrap, Half
<1>4. i64(u64(n)) = i64(n)
  BY <1>2 DEF i64, u64, Wrap
<1>5. i64(n) \in I64 /\ u64(n) \in U64
  BY <1>1, <1>3, WordSize DEF I64, U64, u64
<1>6. ASSUME n \in I64
      PROVE  i64(n) = n
  <2>1. n \in -Half .. Half - 1
    BY <1>6 DEF I64
  <2>2. CASE n >= 0
    <3>1. n % Word = n
      BY <2>1, <2>2, WordSize
    <3>2. QED
      BY <1>3, <2>1, <3>1, WordSize
  <2>3. CASE n < 0
    <3>1. n + Word \in 0 .. Word - 1 /\ n = -1 * Word + (n + Word)
      BY <2>1, <2>3, WordSize
    <3>2. n % Word = n + Word
      BY <3>1, WordSize, DivMod
    <3>3. QED
      BY <1>3, <2>1, <3>2, WordSize
  <2>4. QED
    BY <2>1, <2>2, <2>3, WordSize
<1>7. QED
  BY <1>4, <1>5, <1>6

\* Division and remainder of the evaluator (eval.rs:673-698) are those of C: the quotient is
\* the one toward zero, so that the remainder is smaller than the divisor and has the sign of
\* the dividend.
THEOREM QuotientTowardZero ==
  ASSUME NEW l \in Int, NEW r \in Int, r # 0
  PROVE  /\ l = r * Quot(l, r) + Rem(l, r)
         /\ AbsVal(Rem(l, r)) < AbsVal(r)
         /\ Rem(l, r) # 0 => (Rem(l, r) < 0 <=> l < 0)
<1>1. PICK a \in Nat, b \in Nat \ {0} : a = AbsVal(l) /\ b = AbsVal(r)
  BY DEF AbsVal
<1>2. PICK q \in Int, m \in 0 .. b - 1 : q = a \div b /\ m = a % b /\ a = b * q + m
  BY Divided
<1>3. Quot(l, r) = (IF (l < 0) <=> (r < 0) THEN q ELSE -q)
  BY <1>1, <1>2 DEF Quot
<1>4. PICK k \in Int : k = b * q
  BY <1>1, <1>2, Z3
<1>5. r * Quot(l, r) = IF l < 0 THEN -k ELSE k
  <2>1. CASE r < 0
    <3>1. b = -r
      BY <1>1, <2>1 DEF AbsVal
    <3>2. r = -b /\ -b \in Int
      BY <3>1
    <3>3. (-b) * q = -(b * q) /\ (-b) * (-q) = b * q
      BY Negative
    <3>4. QED
      BY <1>3, <1>4, <2>1, <3>2, <3>3
  <2>2. CASE r > 0
    <3>1. b = r
      BY <1>1, <2>2 DEF AbsVal
    <3>2. r * q = k /\ r * (-q) = -k
      BY <1>2, <1>4, <3>1, Z3
    <3>3. QED
      BY <1>3, <2>2, <3>2
  <2>3. QED
    BY <2>1, <2>2
<1>6. l = IF l < 0 THEN -a ELSE a
  BY <1>1 DEF AbsVal
<1>7. Rem(l, r) = IF l < 0 THEN -m ELSE m
  BY <1>2, <1>4, <1>5, <1>6 DEF Rem
<1>8. r * Quot(l, r) + Rem(l, r) = l
  BY <1>4, <1>5 DEF Rem
<1>9. QED
  BY <1>1, <1>2, <1>6, <1>7, <1>8 DEF AbsVal
-----------------------------------------------------------------------------
(* Floats.                                                                 *)

\* The sizes of the fields.
LEMMA Fields ==
  /\ Fraction \in Nat \ {0} /\ Bias \in Nat \ {0} /\ ExtBias \in Nat /\ ExtBias > Bias
  /\ Gap \in Nat \ {0} /\ Gap = 2 * Bias + 2
  /\ ExtGap \in Nat \ {0} /\ ExtGap = 2 * ExtBias + 2
  /\ IntegerBit \in Nat \ {0} /\ Word = 2 * IntegerBit
<1>1. Gap \in Nat \ {0} /\ Fraction \in Nat \ {0}
  BY FormatAssumption DEF FormatAssumption, Gap
<1>2. IntegerBit \in Nat \ {0}
  BY <1>1, Z3 DEF IntegerBit
<1>3. QED
  BY <1>1, <1>2, FormatAssumption DEF FormatAssumption, Gap, ExtGap

\* Two fields, one above the other, fit in the product of their sizes.
LEMMA Packed ==
  ASSUME NEW m \in Nat \ {0}, NEW n \in Nat \ {0}, NEW i \in 0 .. m - 1, NEW j \in 0 .. n - 1
  PROVE  i * n + j \in 0 .. m * n - 1
<1>1. i * n \in Nat /\ m * n \in Nat
  BY Z3
<1>2. i * n + n <= m * n
  <2>1. i + 1 <= m /\ i + 1 \in Nat
    OBVIOUS
  <2>2. (i + 1) * n <= m * n
    BY <2>1, Z3
  <2>3. (i + 1) * n = i * n + n
    BY Z3
  <2>4. QED
    BY <2>2, <2>3
<1>3. QED
  BY <1>1, <1>2

\* The sign is the bit above the others.
LEMMA Signed ==
  ASSUME NEW n \in Nat \ {0}, NEW sign \in {0, 1}, NEW low \in 0 .. n - 1
  PROVE  /\ sign * n + low \in 0 .. 2 * n - 1
         /\ (sign * n + low) \div n = sign /\ (sign * n + low) % n = low
<1>1. sign \in Int /\ sign * n = IF sign = 1 THEN n ELSE 0
  OBVIOUS
<1>2. QED
  BY <1>1, DivMod

\* A double in memory (eval.rs:497, debugger.rs:1963-1993) is read back as it was written,
\* infinities and NaNs included.
THEOREM DoublesKeepTheirBits ==
  ASSUME NEW f \in F64
  PROVE  to_bits(f) \in U64 /\ from_bits(to_bits(f)) = f
<1>1. PICK sign \in {0, 1}, exp \in 0 .. Gap - 1, man \in 0 .. Fraction - 1 :
        f = [sign |-> sign, exp |-> exp, man |-> man]
  BY DEF F64
<1>2. PICK low \in 0 .. IntegerBit - 1 : low = exp * Fraction + man
  BY Fields, Packed DEF IntegerBit
<1>3. PICK h \in Int : h = sign * Gap + exp /\ h % Gap = exp
  BY Fields, Signed
<1>4. PICK u \in 0 .. Word - 1 : u = sign * IntegerBit + low /\ u \div IntegerBit = sign
  BY Fields, Signed
<1>5. u = h * Fraction + man
  <2>1. CASE sign = 0
    BY <1>2, <1>3, <1>4, <2>1, Fields
  <2>2. CASE sign = 1
    <3>1. h * Fraction = IntegerBit + exp * Fraction
      BY <1>3, <2>2, Fields, Z3 DEF IntegerBit
    <3>2. QED
      BY <1>2, <1>4, <2>2, <3>1, Fields, Z3
  <2>3. QED
    BY <2>1, <2>2
<1>6. u \div Fraction = h /\ u % Fraction = man
  BY <1>5, Fields, DivMod
<1>7. to_bits(f) = u
  <2>1. exp * Fraction \in Int /\ sign * IntegerBit \in Int
    BY Fields, Z3
  <2>2. sign * IntegerBit + exp * Fraction + man = sign * IntegerBit + (exp * Fraction + man)
    BY <2>1
  <2>3. QED
    BY <1>1, <1>2, <1>4, <2>2 DEF to_bits
<1>8. QED
  BY <1>1, <1>3, <1>4, <1>6, <1>7 DEF from_bits, U64

\* The x87 stack holds every double that is not subnormal: what encode_x87_extended
\* (process.rs:306-333) makes of one, decode_x87_extended (process.rs:269-299) gives back, the
\* signs of zeros and the infinities included. A NaN comes back as the NaN.
THEOREM DoublesSurviveTheStack ==
  ASSUME NEW f \in Exact, NEW r, r = encode_x87_extended(f)
  PROVE  decode_x87_extended(r.low, r.high) = IF IsNaN(f) THEN NaN ELSE f
<1>1. PICK sign \in {0, 1}, exp \in 0 .. Gap - 1, man \in 0 .. Fraction - 1 :
        f = [sign |-> sign, exp |-> exp, man |-> man] /\ (exp = 0 => man = 0)
  BY DEF Exact, F64
<1>2. \A e \in 0 .. ExtGap - 1 : LET high == sign * ExtGap + e
                                  IN  (high \div ExtGap) % 2 = sign /\ high % ExtGap = e
  BY Fields, Signed
<1>3. PICK g \in Nat : g = man * Gap
  BY Fields, Z3
<1>4. CASE exp = 0
  <2>1. r.low = 0 /\ r.high = sign * ExtGap + 0
    BY <1>1, <1>4 DEF encode_x87_extended
  <2>2. 0 \in 0 .. ExtGap - 1
    BY Fields
  <2>3. decode_x87_extended(0, sign * ExtGap + 0) = Zero(sign)
    BY <1>2, <2>2 DEF decode_x87_extended
  <2>4. f = Zero(sign) /\ ~IsNaN(f)
    BY <1>1, <1>4, Fields DEF Zero, IsNaN
  <2>5. QED
    BY <2>1, <2>3, <2>4
<1>5. CASE exp = Gap - 1
  <2>1. IntegerBit + (IF man = 0 THEN 0 ELSE man * Gap) = IntegerBit + g
    BY <1>3, Fields
  <2>2. exp # 0 /\ ExtGap - 1 \in 0 .. ExtGap - 1 /\ ExtGap - 1 # 0
    BY <1>5, Fields
  <2>3. r.low = IntegerBit + g /\ r.high = sign * ExtGap + (ExtGap - 1)
    BY <1>1, <1>5, <2>1, <2>2 DEF encode_x87_extended
  <2>4. IntegerBit + g = IntegerBit <=> man = 0
    BY <1>3, Fields, Z3
  <2>5. decode_x87_extended(IntegerBit + g, sign * ExtGap + (ExtGap - 1))
          = IF man = 0 THEN Infinity(sign) ELSE NaN
    BY <1>2, <2>2, <2>4 DEF decode_x87_extended
  <2>6. QED
    BY <1>1, <1>5, <2>3, <2>5 DEF Infinity, IsNaN
<1>6. CASE exp \in 1 .. Gap - 2
  <2>1. PICK e \in 1 .. ExtGap - 2 : e = exp - Bias + ExtBias /\ e % ExtGap = e
    BY <1>6, Fields
  <2>2. e \in 0 .. ExtGap - 1 /\ e # 0 /\ e # ExtGap - 1 /\ exp # 0 /\ exp # Gap - 1
    BY <1>6, <2>1, Fields
  <2>3. r.low = IntegerBit + g /\ r.high = sign * ExtGap + e
    BY <1>1, <1>3, <2>1, <2>2 DEF encode_x87_extended
  <2>4. (2 * (IntegerBit + g)) % Word = 2 * g
    <3>1. man * Gap + 0 \in 0 .. Fraction * Gap - 1
      BY Fields, Packed
    <3>2. Fraction * Gap = IntegerBit
      BY Fields, Z3 DEF IntegerBit
    <3>3. 2 * g \in 0 .. Word - 1 /\ 2 * (IntegerBit + g) = 1 * Word + 2 * g
      BY <1>3, <3>1, <3>2, Fields
    <3>4. QED
      BY <3>3, Fields, DivMod
  <2>5. (2 * g) \div (2 * Gap) = man
    <3>1. PICK two \in Nat \ {0} : two = 2 * Gap
      BY Fields
    <3>2. 2 * g = man * two + 0
      BY <1>3, <3>1, Fields, Z3
    <3>3. QED
      BY <3>1, <3>2, DivMod
  <2>6. (e - ExtBias) + Bias = exp
    BY <2>1, Fields
  <2>7. decode_x87_extended(IntegerBit + g, sign * ExtGap + e) = f
    BY <1>1, <1>2, <1>6, <2>2, <2>4, <2>5, <2>6 DEF decode_x87_extended
  <2>8. QED
    BY <1>1, <2>2, <2>3, <2>7 DEF IsNaN
<1>7. QED
  BY <1>4, <1>5, <1>6, Fields
-----------------------------------------------------------------------------
(* Registers by name.                                                      *)

\* What `set' writes to a register `print' then shows (process.rs:163-261, debugger.rs:2012-2028):
\* a double in st(i) unless it is subnormal or a NaN, any 64-bit integer in a general register,
\* in half of an XMM one or in mm(i), and its low 32 bits in a register that has only those.
THEOREM SetReadsBack ==
  ASSUME NEW regs,
         regs = [fp |-> regs.fp, wide |-> regs.wide, narrow |-> regs.narrow],
         regs.fp \in [0 .. 1 -> [low : U64, high : Int]],
         regs.wide \in [DOMAIN regs.wide -> U64],
         regs.narrow \in [DOMAIN regs.narrow -> Int],
         DOMAIN regs.wide \cap (DOMAIN St \cup DOMAIN Mm) = {},
         DOMAIN regs.narrow \cap (DOMAIN St \cup DOMAIN Mm \cup DOMAIN regs.wide) = {}
  PROVE  /\ \A name \in DOMAIN St, f \in Exact :
              ~IsNaN(f) => register(write_register(regs, name, FloatValue(f)), name) = FloatValue(f)
         /\ \A name \in DOMAIN Mm \cup DOMAIN regs.wide, n \in I64 :
              register(write_register(regs, name, IntValue(n)), name) = IntValue(n)
         /\ \A name \in DOMAIN regs.narrow, n \in I64 :
              register(write_register(regs, name, IntValue(n)), name) = IntValue(n % Values[4])
<1>1. /\ DOMAIN St \cap DOMAIN Mm = {}
      /\ \A name \in DOMAIN St : St[name] \in 0 .. 1
      /\ \A name \in DOMAIN Mm : Mm[name] \in 0 .. 1
  BY DEF St, Mm
<1>2. ASSUME NEW name \in DOMAIN St, NEW f \in Exact, ~IsNaN(f)
      PROVE  register(write_register(regs, name, FloatValue(f)), name) = FloatValue(f)
  <2>1. as_f64(FloatValue(f)) = f
    BY DEF as_f64, FloatValue
  <2>2. PICK r : r = encode_x87_extended(f)
    OBVIOUS
  <2>3. PICK new : new = [regs EXCEPT !.fp[St[name]] = r]
    OBVIOUS
  <2>. name \notin DOMAIN Mm /\ name \notin DOMAIN regs.wide /\ name \notin DOMAIN regs.narrow
    BY <1>1
  <2>4. write_register(regs, name, FloatValue(f)) = new
    BY <2>1, <2>2, <2>3 DEF write_register
  <2>5. new.fp[St[name]] = r /\ new.wide = regs.wide /\ new.narrow = regs.narrow
    BY <1>1, <2>3
  <2>6. register(new, name) = FloatValue(decode_x87_extended(r.low, r.high))
    BY <2>5 DEF register
  <2>7. QED
    BY <1>2, <2>2, <2>4, <2>6, DoublesSurviveTheStack
<1>3. ASSUME NEW n \in I64
      PROVE  n \in Int /\ as_i64(IntValue(n)) = n /\ i64(u64(n)) = n
  <2>1. n \in Int
    BY WordSize DEF I64
  <2>2. QED
    BY <2>1, Wrapped DEF as_i64, IntValue
<1>4. ASSUME NEW name \in DOMAIN Mm, NEW n \in I64
      PROVE  register(write_register(regs, name, IntValue(n)), name) = IntValue(n)
  <2>1. name \notin DOMAIN St /\ name \notin DOMAIN regs.wide /\ name \notin DOMAIN regs.narrow
    BY <1>1
  <2>2. PICK new : new = [regs EXCEPT !.fp[Mm[name]].low = u64(n)]
    OBVIOUS
  <2>3. write_register(regs, name, IntValue(n)) = new
    BY <1>3, <2>1, <2>2 DEF write_register
  <2>4. new.fp[Mm[name]].low = u64(n) /\ new.wide = regs.wide /\ new.narrow = regs.narrow
    BY <1>1, <2>2
  <2>5. register(new, name) = IntValue(i64(new.fp[Mm[name]].low))
    BY <2>1, <2>4 DEF register
  <2>6. QED
    BY <1>3, <2>3, <2>4, <2>5
<1>5. ASSUME NEW name \in DOMAIN regs.wide, NEW n \in I64
      PROVE  register(write_register(regs, name, IntValue(n)), name) = IntValue(n)
  <2>1. name \notin DOMAIN St /\ name \notin DOMAIN Mm /\ name \notin DOMAIN regs.narrow
    BY <1>5
  <2>2. PICK new : new = [regs EXCEPT !.wide[name] = u64(n)]
    OBVIOUS
  <2>3. write_register(regs, name, IntValue(n)) = new
    BY <1>3, <2>1, <2>2 DEF write_register
  <2>4. name \in DOMAIN new.wide /\ new.wide[name] = u64(n) /\ new.narrow = regs.narrow
    BY <1>5, <2>2
  <2>5. register(new, name) = IntValue(i64(new.wide[name]))
    BY <2>1, <2>4 DEF register
  <2>6. QED
    BY <1>3, <2>3, <2>4, <2>5
<1>6. ASSUME NEW name \in DOMAIN regs.narrow, NEW n \in I64
      PROVE  register(write_register(regs, name, IntValue(n)), name) = IntValue(n % Values[4])
  <2>1. name \notin DOMAIN St /\ name \notin DOMAIN Mm /\ name \notin DOMAIN regs.wide
    BY <1>6
  <2>2. PICK new : new = [regs EXCEPT !.narrow[name] = n % Values[4]]
    OBVIOUS
  <2>3. write_register(regs, name, IntValue(n)) = new
    BY <1>3, <2>1, <2>2 DEF write_register
  <2>4. name \in DOMAIN new.narrow /\ new.narrow[name] = n % Values[4] /\ new.wide = regs.wide
    BY <1>6, <2>2
  <2>5. register(new, name) = IntValue(new.narrow[name])
    BY <2>1, <2>4 DEF register
  <2>6. QED
    BY <2>3, <2>4, <2>5
<1>7. QED
  BY <1>2, <1>4, <1>5, <1>6
-----------------------------------------------------------------------------
(* Powers of two and congruence, for shifts and bits.                      *)

\* What PowersAssumption gives.
LEMMA Powers ==
  /\ Bits \in Nat \ {0} /\ 2^0 = 1 /\ 2^1 = 2 /\ 2^Bits = Word
  /\ \A k \in 0 .. Bits : 2^k \in Nat \ {0}
  /\ \A j \in 0 .. Bits, k \in 0 .. Bits : j + k <= Bits => 2^(j + k) = 2^j * 2^k
<1>1. 2^0 = 1 /\ 2^1 = 2
  BY Z3
<1>2. Bits \in Nat /\ 2^Bits = Word
  BY BitsAssumption DEF BitsAssumption
<1>3. Bits # 0
  <2>1. ASSUME Bits = 0
        PROVE  FALSE
    <3>1. 2^Bits = 2^0
      BY <2>1, Zenon
    <3>2. Word = 1
      BY <1>1, <1>2, <3>1, Zenon
    <3>3. QED
      BY <3>2, WordSize
  <2>2. QED
    BY <2>1
<1>4. QED
  BY <1>1, <1>2, <1>3, PowersAssumption DEF PowersAssumption

\* The next power is twice this one.
LEMMA NextPower ==
  ASSUME NEW k \in 0 .. Bits - 1
  PROVE  2^(k + 1) = 2 * 2^k
<1>1. k \in 0 .. Bits /\ 1 \in 0 .. Bits /\ k + 1 <= Bits
  BY Powers
<1>2. 2^(k + 1) = 2^k * 2^1
  BY <1>1, Powers
<1>3. QED
  BY <1>1, <1>2, Powers

\* Powers grow.
LEMMA PowersGrow ==
  ASSUME NEW j \in 0 .. Bits, NEW k \in j .. Bits
  PROVE  2^j <= 2^k
<1>1. PICK d \in 0 .. Bits : k = j + d
  <2>1. k - j \in 0 .. Bits /\ k = j + (k - j)
    BY Powers
  <2>2. QED
    BY <2>1
<1>2. 2^k = 2^j * 2^d
  BY <1>1, Powers
<1>3. 2^j \in Nat \ {0} /\ 2^d \in Nat \ {0}
  BY Powers
<1>4. \A a \in Nat \ {0}, b \in Nat \ {0} : a <= a * b
  BY Z3
<1>5. QED
  BY <1>2, <1>3, <1>4

\* A smaller power has a smaller exponent.
LEMMA PowersStrict ==
  ASSUME NEW j \in 0 .. Bits, NEW k \in 0 .. Bits, 2^j <= 2^k
  PROVE  j <= k
<1>1. ASSUME k < j
      PROVE  FALSE
  <2>1. k + 1 \in 0 .. Bits /\ j \in (k + 1) .. Bits /\ k \in 0 .. Bits - 1
    BY <1>1, Powers
  <2>2. 2^(k + 1) <= 2^j /\ 2^(k + 1) = 2 * 2^k /\ 2^k \in Nat \ {0}
    BY <2>1, PowersGrow, NextPower, Powers
  <2>3. 2^j \in Nat
    BY Powers
  <2>4. QED
    BY <2>2, <2>3
<1>2. QED
  BY <1>1

\* Congruence modulo the word.
LEMMA Congruent ==
  ASSUME NEW a \in Int, NEW b \in Int
  PROVE  Same(a, b) <=> \E k \in Int : a - b = k * Word
<1>1. ASSUME NEW k \in Int, a - b = k * Word
      PROVE  Same(a, b)
  <2>1. 0 \in 0 .. Word - 1 /\ Word \in Nat \ {0}
    BY WordSize
  <2>2. (k * Word + 0) % Word = 0
    BY <2>1, DivMod, Zenon
  <2>3. k * Word + 0 = k * Word
    BY <2>1, Z3
  <2>4. QED
    BY <1>1, <2>2, <2>3, Zenon DEF Same
<1>2. ASSUME Same(a, b)
      PROVE  \E k \in Int : a - b = k * Word
  <2>1. PICK d \in Int : d = a - b
    OBVIOUS
  <2>2. Word \in Nat \ {0} /\ d % Word = 0
    BY <1>2, <2>1, WordSize DEF Same
  <2>3. d \div Word \in Int /\ d = Word * (d \div Word) + (d % Word)
    BY <2>2, Divided
  <2>4. PICK k \in Int : d = Word * k + 0
    BY <2>2, <2>3
  <2>5. d = k * Word
    BY <2>2, <2>4, Z3
  <2>6. QED
    BY <2>1, <2>5
<1>3. QED
  BY <1>1, <1>2

\* Wrapping keeps the number modulo the word, and so does taking its bits.
LEMMA WrapIsSame ==
  ASSUME NEW n \in Int
  PROVE  Same(i64(n), n) /\ Same(u64(n), n)
<1>1. PICK k \in Int, m \in 0 .. Word - 1 : m = n % Word /\ n = Word * k + m
  <2>1. Word \in Nat \ {0}
    BY WordSize
  <2>2. n \div Word \in Int /\ n % Word \in 0 .. Word - 1 /\ n = Word * (n \div Word) + (n % Word)
    BY <2>1, Divided, Zenon
  <2>3. QED
    BY <2>2, Zenon
<1>2. u64(n) = m
  BY <1>1 DEF u64
<1>3. i64(n) = m \/ i64(n) = m - Word
  BY <1>1, Zenon DEF i64, Wrap
<1>4. Word * k \in Int /\ Word * k = k * Word /\ (-k) * Word = -(k * Word) /\ (-k - 1) * Word = -(k * Word) - Word
  BY WordSize, Z3
<1>5. u64(n) - n = (-k) * Word
  BY <1>1, <1>2, <1>4, WordSize
<1>6. i64(n) - n = (-k) * Word \/ i64(n) - n = (-k - 1) * Word
  BY <1>1, <1>2, <1>3, <1>4, WordSize
<1>7. i64(n) \in Int /\ u64(n) \in Int /\ -k \in Int /\ -k - 1 \in Int
  BY <1>2, <1>3, WordSize
<1>8. QED
  BY <1>5, <1>6, <1>7, Congruent

\* Congruence is an equivalence that sums keep.
LEMMA SameIsCongruence ==
  ASSUME NEW a \in Int, NEW b \in Int, Same(a, b)
  PROVE  /\ Same(b, a)
         /\ \A x \in Int : Same(b, x) => Same(a, x)
         /\ \A x \in Int, y \in Int : Same(x, y) => Same(a + x, b + y)
         /\ \A x \in Int, y \in Int : Same(x, y) => Same(a - x, b - y)
<1>1. PICK k \in Int : a - b = k * Word
  BY Congruent
<1>2. \A m \in Int : /\ k * Word \in Int /\ m * Word \in Int /\ (-k) * Word = -(k * Word)
                     /\ (k + m) * Word = k * Word + m * Word /\ (k - m) * Word = k * Word - m * Word
  BY WordSize, Z3
<1>3. Same(b, a)
  <2>1. b - a = (-k) * Word
    BY <1>1, <1>2
  <2>2. QED
    BY <2>1, Congruent
<1>4. ASSUME NEW x \in Int, Same(b, x)
      PROVE  Same(a, x)
  <2>1. PICK m \in Int : b - x = m * Word
    BY <1>4, Congruent
  <2>2. a - x = (k + m) * Word
    BY <1>1, <1>2, <2>1
  <2>3. QED
    BY <2>2, Congruent
<1>5. ASSUME NEW x \in Int, NEW y \in Int, Same(x, y)
      PROVE  Same(a + x, b + y) /\ Same(a - x, b - y)
  <2>1. PICK m \in Int : x - y = m * Word
    BY <1>5, Congruent
  <2>2. (a + x) - (b + y) = (k + m) * Word /\ (a - x) - (b - y) = (k - m) * Word
    BY <1>1, <1>2, <2>1
  <2>3. a + x \in Int /\ b + y \in Int /\ a - x \in Int /\ b - y \in Int /\ k + m \in Int /\ k - m \in Int
    OBVIOUS
  <2>4. QED
    BY <2>2, <2>3, Congruent
<1>6. QED
  BY <1>3, <1>4, <1>5

\* A set of naturals has a least element, which stands for induction in what follows.
LEMMA LeastExists ==
  ASSUME NEW S \in SUBSET Nat, S # {}
  PROVE  \E x \in S : \A y \in S : x <= y
<1> DEFINE upto == {0 .. n : n \in S}
<1>1. upto \subseteq FiniteSubsetsOf(Nat) /\ upto # {}
  <2>1. ASSUME NEW n \in S
        PROVE  0 .. n \in FiniteSubsetsOf(Nat)
    BY FS_Interval DEF FiniteSubsetsOf
  <2>2. QED
    BY <2>1
<1>2. PICK least \in upto : \A b \in upto : ~(<<b, least>> \in StrictSubsetOrdering(Nat))
  BY <1>1, FS_StrictSubsetOrderingWellFounded, WFMin
<1>3. PICK x \in S : least = 0 .. x
  OBVIOUS
<1>4. ASSUME NEW y \in S, y < x
      PROVE  FALSE
  <2>1. 0 .. y \in upto /\ 0 .. y \subseteq 0 .. x /\ 0 .. y # 0 .. x /\ 0 .. x \subseteq Nat
    BY <1>4
  <2>2. QED
    BY <1>2, <1>3, <2>1 DEF StrictSubsetOrdering
<1>5. QED
  BY <1>4

-----------------------------------------------------------------------------
(* Numbers as sets of bits.                                                *)

\* What the bit k adds to a sum.
BitValue(S, k) == IF k \in S THEN 2^k ELSE 0
\* f sums the bits of S below each number up to n.
SumsTo(f, S, n) == f = [k \in 0 .. n |-> IF k = 0 THEN 0 ELSE f[k - 1] + BitValue(S, k - 1)]

\* The recursion of SumBelow has a solution.
LEMMA SumsExist ==
  ASSUME NEW S
  PROVE  \E f : SumsTo(f, S, Bits)
<1> DEFINE bad == {n \in 0 .. Bits : ~\E f : SumsTo(f, S, n)}
<1>1. ASSUME bad # {}
      PROVE  FALSE
  <2>a. bad \in SUBSET Nat
    BY Powers
  <2> HIDE DEF bad
  <2>1. PICK n \in bad : \A m \in bad : n <= m
    BY <1>1, <2>a, LeastExists
  <2> USE DEF bad
  <2>2. CASE n = 0
    <3> DEFINE f == [k \in 0 .. 0 |-> 0]
    <3>1. SumsTo(f, S, 0)
      BY DEF SumsTo
    <3>2. QED
      BY <2>2, <3>1
  <2>3. CASE n # 0
    <3>1. n - 1 \in 0 .. Bits /\ n - 1 \notin bad /\ n \in Nat
      BY <2>1, <2>3, Powers
    <3>2. PICK f : SumsTo(f, S, n - 1)
      BY <3>1
    <3> DEFINE g == [k \in 0 .. n |-> IF k = n THEN f[n - 1] + BitValue(S, n - 1) ELSE f[k]]
    <3>3. \A k \in 0 .. n - 1 : f[k] = IF k = 0 THEN 0 ELSE f[k - 1] + BitValue(S, k - 1)
      BY <3>2 DEF SumsTo
    <3>4. \A k \in 0 .. n : g[k] = IF k = 0 THEN 0 ELSE g[k - 1] + BitValue(S, k - 1)
      <4>1. TAKE k \in 0 .. n
      <4>2. CASE k = n
        <5>1. n - 1 \in 0 .. n /\ n - 1 # n
          BY <3>1, <2>3
        <5>2. g[n - 1] = f[n - 1] /\ g[n] = f[n - 1] + BitValue(S, n - 1)
          BY <5>1, <3>1
        <5>3. QED
          BY <2>3, <4>2, <5>2
      <4>3. CASE k # n
        <5>1. k \in 0 .. n - 1 /\ (k # 0 => k - 1 \in 0 .. n /\ k - 1 # n)
          BY <3>1, <4>3
        <5>2. g[k] = f[k] /\ (k # 0 => g[k - 1] = f[k - 1])
          BY <4>3, <5>1
        <5>3. QED
          BY <3>3, <5>1, <5>2
      <4>4. QED
        BY <4>2, <4>3
    <3>5. g = [k \in 0 .. n |-> g[k]]
      OBVIOUS
    <3>6. SumsTo(g, S, n)
      BY <3>4, <3>5 DEF SumsTo
    <3>7. QED
      BY <3>6
  <2>4. QED
    BY <2>2, <2>3
<1>2. Bits \in 0 .. Bits
  BY Powers
<1>3. QED
  BY <1>1, <1>2

\* The sums that SumBelow gives, bit by bit.
LEMMA BitByBit ==
  ASSUME NEW S
  PROVE  /\ SumBelow(S)[0] = 0
         /\ \A k \in 0 .. Bits - 1 : SumBelow(S)[k + 1] = SumBelow(S)[k] + BitValue(S, k)
<1>1. PICK f : SumsTo(f, S, Bits)
  BY SumsExist
<1>2. SumsTo(SumBelow(S), S, Bits)
  BY <1>1 DEF SumsTo, SumBelow, BitValue
<1>3. \A k \in 0 .. Bits : SumBelow(S)[k]
        = IF k = 0 THEN 0 ELSE SumBelow(S)[k - 1] + BitValue(S, k - 1)
  BY <1>2 DEF SumsTo
<1>4. 0 \in 0 .. Bits /\ \A k \in 0 .. Bits - 1 : k + 1 \in 0 .. Bits /\ k + 1 # 0 /\ (k + 1) - 1 = k
  BY Powers
<1>5. QED
  BY <1>3, <1>4

-----------------------------------------------------------------------------
(* Integers as doubles and back.                                           *)

\* The highest bit of a number.
LEMMA HighestBit ==
  ASSUME NEW a \in 1 .. Word - 1
  PROVE  \E k \in 0 .. Bits - 1 : 2^k <= a /\ a < 2^(k + 1)
<1> DEFINE above == {k \in 0 .. Bits : a < 2^k}
<1>1. above \in SUBSET Nat /\ above # {} /\ 0 \notin above
  BY Powers
<1> HIDE DEF above
<1>2. PICK n \in above : \A m \in above : n <= m
  BY <1>1, LeastExists
<1> USE DEF above
<1>3. n - 1 \in 0 .. Bits - 1 /\ n - 1 \notin above /\ (n - 1) + 1 = n /\ n - 1 \in 0 .. Bits
  BY <1>1, <1>2, Powers
<1>4. 2^(n - 1) <= a
  BY <1>3, Powers
<1>5. QED
  BY <1>2, <1>3, <1>4

\* The exponent that widen chooses is the only one.
LEMMA ChosenExponent ==
  ASSUME NEW a \in 1 .. Word - 1
  PROVE  LET e == CHOOSE k \in 0 .. Bits : 2^k <= a /\ a < 2^(k + 1)
         IN  e \in 0 .. Bits - 1 /\ 2^e <= a /\ a < 2 * 2^e
<1> DEFINE Is(k) == 2^k <= a /\ a < 2^(k + 1)
           e == CHOOSE k \in 0 .. Bits : Is(k)
<1>1. \E k \in 0 .. Bits : Is(k)
  BY HighestBit, Powers
<1>2. e \in 0 .. Bits /\ Is(e)
  BY <1>1
<1> HIDE DEF e
<1>3. e # Bits
  <2>1. ASSUME e = Bits
        PROVE  FALSE
    <3>1. 2^Bits <= a
      BY <1>2, <2>1, Zenon
    <3>2. QED
      BY <3>1, Powers
  <2>2. QED
    BY <2>1
<1>4. e \in 0 .. Bits - 1
  BY <1>2, <1>3, Powers
<1>5. 2^(e + 1) = 2 * 2^e
  BY <1>4, NextPower
<1>6. e \in 0 .. Bits - 1 /\ 2^e <= a /\ a < 2 * 2^e
  BY <1>2, <1>4, <1>5
<1>7. QED
  BY <1>6 DEF e

\* The double nearest to an i64 (`as f64', eval.rs:500-505) is a finite one, and never subnormal.
LEMMA WidenedIsExact ==
  ASSUME NEW n \in I64
  PROVE  widen(n) \in Exact /\ ~IsNaN(widen(n))
<1>1. PICK a \in 0 .. Half : a = AbsVal(n)
  BY WordSize DEF I64, AbsVal
<1>2. PICK p \in 0 .. Bits : Fraction = 2^p
  BY FormatAssumption DEF FormatAssumption
<1>3. PICK sign \in {0, 1} : sign = IF n < 0 THEN 1 ELSE 0
  OBVIOUS
<1>4. ASSUME NEW exp \in Bias .. Bits + Bias, NEW man \in 0 .. Fraction - 1,
             NEW f, f = [sign |-> sign, exp |-> exp, man |-> man]
      PROVE  f \in Exact /\ ~IsNaN(f)
  <2>1. Bits <= Bias /\ Bits \in Nat
    BY FormatAssumption, Powers DEF FormatAssumption
  <2>2. exp \in 0 .. Gap - 1 /\ exp # 0 /\ exp # Gap - 1
    BY <1>4, <2>1, Fields
  <2>3. QED
    BY <1>4, <2>2 DEF Exact, F64, IsNaN
<1>5. CASE a = 0
  <2>1. widen(n) = Zero(0)
    BY <1>1, <1>5 DEF widen
  <2>2. Zero(0) \in Exact /\ ~IsNaN(Zero(0))
    BY Fields DEF Zero, Exact, F64, IsNaN
  <2>3. QED
    BY <2>1, <2>2
<1>6. CASE a # 0
  <2> DEFINE e == CHOOSE k \in 0 .. Bits : 2^k <= a /\ a < 2^(k + 1)
             unit == 2^e \div Fraction
             q == a \div unit
             r == 2 * (a % unit)
             up == IF r > unit \/ (r = unit /\ q % 2 = 1) THEN 1 ELSE 0
             rounded == q + up
  <2>1. a \in 1 .. Word - 1
    BY <1>6, WordSize
  <2>2. e \in 0 .. Bits - 1 /\ 2^e <= a /\ a < 2 * 2^e
    BY <2>1, ChosenExponent
  <2>3. widen(n) = IF 2^e <= Fraction
                   THEN [sign |-> sign, exp |-> e + Bias, man |-> (a - 2^e) * (Fraction \div 2^e)]
                   ELSE IF rounded = 2 * Fraction
                   THEN [sign |-> sign, exp |-> (e + 1) + Bias, man |-> 0]
                   ELSE [sign |-> sign, exp |-> e + Bias, man |-> rounded - Fraction]
    BY <1>1, <1>3, <1>6, Zenon DEF widen
  <2>4. e + Bias \in Bias .. Bits + Bias /\ (e + 1) + Bias \in Bias .. Bits + Bias
    BY <2>2, Fields, Powers
  <2> HIDE DEF e
  <2>5. CASE 2^e <= Fraction
    <3>1. (a - 2^e) * (Fraction \div 2^e) \in 0 .. Fraction - 1
      <4>1. e <= p
        <5>1. 2^e <= 2^p
          BY <1>2, <2>5, Zenon
        <5>2. e \in 0 .. Bits
          BY <2>2, Powers
        <5>3. QED
          BY <1>2, <5>1, <5>2, PowersStrict
      <4>2. PICK m \in Nat \ {0}, d \in Nat \ {0} : m = 2^e /\ d = 2^(p - e) /\ Fraction = m * d
        BY <1>2, <2>2, <4>1, Powers
      <4>3. Fraction \div m = d
        <5>1. 0 \in 0 .. m - 1 /\ d * m + 0 = m * d
          BY Z3
        <5>2. QED
          BY <4>2, <5>1, DivMod
      <4>4. PICK b \in 0 .. m - 1 : b = a - m
        BY <2>2, <4>2
      <4>5. b * d + 0 \in 0 .. m * d - 1
        BY Packed
      <4>6. QED
        BY <4>2, <4>3, <4>4, <4>5, Z3
    <3>2. QED
      BY <1>4, <2>3, <2>4, <2>5, <3>1
  <2>6. CASE ~ 2^e <= Fraction
    <3>1. rounded \in Fraction .. 2 * Fraction
      <4>1. p <= e
        <5>1. ASSUME e < p
              PROVE  FALSE
          <6>1. e \in 0 .. Bits /\ p \in e .. Bits
            BY <1>2, <2>2, <5>1, Powers
          <6>2. 2^e <= 2^p
            BY <6>1, PowersGrow
          <6>3. QED
            BY <1>2, <2>6, <6>2, Zenon
        <5>2. QED
          BY <1>2, <2>2, <5>1, Powers
      <4>2. PICK m \in Nat \ {0}, d \in Nat \ {0} : m = 2^e /\ d = 2^(e - p) /\ m = Fraction * d
        BY <1>2, <2>2, <4>1, Powers
      <4>3. unit = d
        <5>1. 0 \in 0 .. Fraction - 1 /\ d * Fraction + 0 = m
          BY <4>2, Fields, Z3
        <5>2. QED
          BY <4>2, <5>1, Fields, DivMod
      <4>4. PICK k \in Int, b \in 0 .. d - 1 : k = a \div d /\ b = a % d /\ a = d * k + b
        <5>1. a \in Int
          OBVIOUS
        <5>2. QED
          BY <5>1, Divided, Zenon
      <4>5. ~ k < Fraction
        <5>1. ASSUME k + 1 <= Fraction
              PROVE  FALSE
          <6>1. d * (k + 1) <= d * Fraction
            BY <4>4, <5>1, Fields, Z3
          <6>2. d * (k + 1) = d * k + d /\ d * Fraction = m
            <7>1. \A x \in Int : \A y \in Int : x * (y + 1) = x * y + x
              BY Z3
            <7>2. \A x \in Int : \A y \in Int : x * y = y * x
              BY Z3
            <7>3. d \in Int /\ Fraction \in Int
              BY Fields
            <7>4. QED
              BY <4>2, <4>4, <7>1, <7>2, <7>3, Zenon
          <6>3. d * k \in Int
            BY <4>4, Z3
          <6>4. QED
            BY <2>2, <4>2, <4>4, <6>1, <6>2, <6>3
        <5>2. QED
          BY <4>4, <5>1, Fields
      <4>6. ~ k >= 2 * Fraction
        <5>1. ASSUME 2 * Fraction <= k
              PROVE  FALSE
          <6>1. d * (2 * Fraction) <= d * k
            BY <4>4, <5>1, Fields, Z3
          <6>2. d * (2 * Fraction) = 2 * m
            BY <4>2, Fields, Z3
          <6>3. d * k \in Int
            BY <4>4, Z3
          <6>4. QED
            BY <2>2, <4>2, <4>4, <6>1, <6>2, <6>3
        <5>2. QED
          BY <4>4, <5>1, Fields
      <4>7. up \in {0, 1}
        OBVIOUS
      <4>8. QED
        BY <4>3, <4>4, <4>5, <4>6, <4>7, Fields
    <3>2. 0 \in 0 .. Fraction - 1 /\ (rounded # 2 * Fraction => rounded - Fraction \in 0 .. Fraction - 1)
      BY <3>1, Fields
    <3> HIDE DEF rounded
    <3>3. QED
      BY <1>4, <2>3, <2>4, <2>6, <3>2
  <2>7. QED
    BY <2>5, <2>6
<1>7. QED
  BY <1>5, <1>6

\* `as i64' of any double (eval.rs:493-498) is in range: it saturates.
LEMMA TruncatedFits ==
  ASSUME NEW f \in F64
  PROVE  truncate(f) \in I64
<1>1. f.exp \in 0 .. Gap - 1 /\ f.man \in 0 .. Fraction - 1
  BY DEF F64
<1>2. PICK e \in Int : e = f.exp - Bias
  BY <1>1, Fields
<1>3. -Half \in I64 /\ Half - 1 \in I64 /\ 0 \in I64
  BY WordSize DEF I64
<1>4. CASE IsNaN(f) \/ e < 0 \/ e >= Bits - 1
  BY <1>2, <1>3, <1>4 DEF truncate
<1>5. CASE ~(IsNaN(f) \/ e < 0 \/ e >= Bits - 1)
  <2>1. e \in 0 .. Bits - 2 /\ e + 1 \in 0 .. Bits /\ Bits - 1 \in (e + 1) .. Bits /\ e \in 0 .. Bits - 1
    BY <1>2, <1>5, Powers
  <2>2. PICK m \in Nat \ {0} : m = 2^e
    BY <2>1, Powers
  <2>3. 2 * m <= Half
    <3>1. 2^(e + 1) = 2 * m /\ 2^(e + 1) <= 2^(Bits - 1)
      BY <2>1, <2>2, NextPower, PowersGrow
    <3>2. 2^((Bits - 1) + 1) = 2 * 2^(Bits - 1)
      BY <2>1, NextPower, Powers
    <3>3. (Bits - 1) + 1 = Bits /\ 2^(Bits - 1) \in Nat
      BY <2>1, Powers
    <3>4. Word = 2 * 2^(Bits - 1)
      BY <3>2, <3>3, Powers, Zenon
    <3>5. QED
      BY <3>1, <3>3, <3>4, WordSize, <2>2
  <2>4. PICK t \in Nat : t = (Fraction + f.man) * m
    BY <1>1, Fields, Z3
  <2>5. t < Fraction * (2 * m)
    BY <1>1, <2>4, Fields, Z3
  <2>6. PICK k \in Int, b \in 0 .. Fraction - 1 : k = t \div Fraction /\ t = Fraction * k + b
    <3>1. t \in Int /\ Fraction \in Nat \ {0}
      BY Fields
    <3>2. QED
      BY <3>1, Divided, Zenon
  <2>7. k < 2 * m /\ k >= 0
    <3>1. \A x \in Int, y \in Int, z \in Nat \ {0} : x <= y => z * x <= z * y
      BY Z3
    <3>2. ~ 2 * m <= k
      BY <2>5, <2>6, <3>1, Fields
    <3>3. ~ k <= -1
      <4>1. ASSUME k <= -1
            PROVE  FALSE
        <5>1. Fraction * k <= Fraction * (-1) /\ Fraction * (-1) = -Fraction /\ Fraction * k \in Int
          BY <3>1, <4>1, Fields, Z3
        <5>2. QED
          BY <2>6, <5>1, Fields
      <4>2. QED
        BY <4>1
    <3>4. QED
      BY <3>2, <3>3, <2>6
  <2>8. truncate(f) = IF f.sign = 1 THEN -k ELSE k
    BY <1>2, <1>5, <2>2, <2>4, <2>6 DEF truncate
  <2>9. QED
    <3>1. k \in -Half .. Half - 1 /\ -k \in -Half .. Half - 1
      BY <2>2, <2>3, <2>6, <2>7, WordSize
    <3>2. QED
      BY <2>8, <3>1 DEF I64
<1>6. QED
  BY <1>4, <1>5

\* An integer of up to as many bits as a double holds comes back from one: `set' of such an
\* integer on a double or an st register, read back as an integer, is that integer
\* (eval.rs:493-505).
THEOREM IntegersThroughDoubles ==
  ASSUME NEW n \in I64, AbsVal(n) < 2 * Fraction
  PROVE  truncate(widen(n)) = n
<1>1. PICK a \in 0 .. Half : a = AbsVal(n)
  BY WordSize DEF I64, AbsVal
<1>2. PICK p \in 0 .. Bits : Fraction = 2^p
  BY FormatAssumption DEF FormatAssumption
<1>3. CASE a = 0
  <2>1. widen(n) = Zero(0) /\ n = 0
    BY <1>1, <1>3, WordSize DEF widen, AbsVal, I64
  <2>2. Zero(0).exp - Bias < 0
    BY Fields DEF Zero
  <2>3. QED
    BY <2>1, <2>2 DEF truncate
<1>4. CASE a # 0
  <2> DEFINE e == CHOOSE k \in 0 .. Bits : 2^k <= a /\ a < 2^(k + 1)
  <2>1. a \in 1 .. Word - 1
    BY <1>4, WordSize
  <2>2. e \in 0 .. Bits - 1 /\ 2^e <= a /\ a < 2 * 2^e
    BY <2>1, ChosenExponent
  <2>3. 2^e <= Fraction => widen(n) = [sign |-> IF n < 0 THEN 1 ELSE 0, exp |-> e + Bias,
                                       man |-> (a - 2^e) * (Fraction \div 2^e)]
    BY <1>1, <1>4, Zenon DEF widen
  <2> HIDE DEF e
  <2>4. e <= p /\ 2^e <= Fraction
    <3>1. ASSUME p < e
          PROVE  FALSE
      <4>1. p \in 0 .. Bits - 1 /\ p + 1 \in 0 .. Bits /\ e \in (p + 1) .. Bits
        BY <1>2, <2>2, <3>1, Powers
      <4>2. 2^(p + 1) = 2 * 2^p /\ 2^(p + 1) <= 2^e
        BY <4>1, NextPower, PowersGrow
      <4>3. 2 * Fraction <= 2^e
        BY <1>2, <4>2, Zenon
      <4>4. 2^e \in Nat
        BY <2>2, Powers
      <4>5. QED
        BY <1>1, <2>2, <4>3, <4>4, Fields
    <3>2. e <= p
      BY <1>2, <2>2, <3>1, Powers
    <3>3. p \in e .. Bits /\ e \in 0 .. Bits
      BY <1>2, <2>2, <3>2, Powers
    <3>4. QED
      BY <1>2, <3>2, <3>3, PowersGrow, Zenon
  <2>5. PICK m \in Nat \ {0}, d \in Nat \ {0} : m = 2^e /\ d = 2^(p - e) /\ Fraction = m * d
    BY <1>2, <2>2, <2>4, Powers
  <2>6. Fraction \div m = d
    <3>1. 0 \in 0 .. m - 1 /\ d * m + 0 = m * d
      BY Z3
    <3>2. QED
      BY <2>5, <3>1, DivMod
  <2>7. PICK man \in Int : man = (a - m) * d
    BY Z3
  <2>8. widen(n).sign = (IF n < 0 THEN 1 ELSE 0) /\ widen(n).exp = e + Bias /\ widen(n).man = man
    BY <2>3, <2>4, <2>5, <2>6, <2>7
  <2>9. Fraction + man = a * d
    <3>1. (a - m) * d = a * d - m * d
      BY Z3
    <3>2. a * d \in Int
      BY Z3
    <3>3. QED
      BY <2>5, <2>7, <3>1, <3>2, Fields
  <2>10. ((Fraction + man) * m) \div Fraction = a
    <3>1. (a * d) * m = a * (m * d)
      BY Z3
    <3>2. 0 \in 0 .. Fraction - 1 /\ a * Fraction + 0 = a * Fraction
      BY Fields, Z3
    <3>3. (a * Fraction + 0) \div Fraction = a
      BY <3>2, Fields, DivMod
    <3>4. (Fraction + man) * m = a * Fraction + 0
      BY <2>5, <2>9, <3>1, <3>2, Zenon
    <3>5. QED
      BY <3>3, <3>4, Zenon
  <2>11. ~IsNaN(widen(n))
    BY WidenedIsExact
  <2>12. widen(n).exp - Bias = e /\ ~ e < 0
    BY <2>2, <2>8, Fields
  <2>13. CASE e >= Bits - 1
    <3>1. e = Bits - 1
      BY <2>2, <2>13, Powers
    <3>2. 2^((Bits - 1) + 1) = 2 * 2^(Bits - 1)
      BY <2>2, <3>1, NextPower, Powers
    <3>a. (Bits - 1) + 1 = Bits
      BY Powers
    <3>3. (Bits - 1) + 1 = Bits /\ 2^(Bits - 1) = m
      BY <2>5, <3>1, <3>a, Zenon
    <3>4. Word = 2 * m
      BY <3>2, <3>3, Powers, Zenon
    <3>5. a = Half
      BY <2>2, <2>5, <3>4, WordSize
    <3>6. n = -Half /\ n < 0
      BY <1>1, <3>5, WordSize DEF AbsVal, I64
    <3>7. QED
      BY <2>8, <2>11, <2>12, <2>13, <3>6, Zenon DEF truncate
  <2>14. CASE ~ e >= Bits - 1
    <3>1. truncate(widen(n)) = IF widen(n).sign = 1 THEN -a ELSE a
      BY <2>5, <2>8, <2>10, <2>11, <2>12, <2>14, Zenon DEF truncate
    <3>2. QED
      BY <1>1, <2>8, <3>1, WordSize DEF AbsVal, I64
  <2>15. QED
    BY <2>13, <2>14
<1>5. QED
  BY <1>3, <1>4
-----------------------------------------------------------------------------
(* The operators of the evaluator are C's.                                 *)

\* Sums grow as bits are added, below the next power.
LEMMA SumsAreBounded ==
  ASSUME NEW S, NEW n \in 0 .. Bits
  PROVE  SumBelow(S)[n] \in 0 .. 2^n - 1
<1> DEFINE sum == SumBelow(S)
           bad == {k \in 0 .. Bits : sum[k] \notin 0 .. 2^k - 1}
<1>1. ASSUME bad # {}
      PROVE  FALSE
  <2>a. bad \in SUBSET Nat
    BY Powers
  <2> HIDE DEF bad
  <2>1. PICK k \in bad : \A j \in bad : k <= j
    BY <1>1, <2>a, LeastExists
  <2> USE DEF bad
  <2>2. CASE k = 0
    <3>1. sum[0] = 0 /\ 2^0 = 1
      BY BitByBit, Powers
    <3>2. QED
      BY <2>1, <2>2, <3>1
  <2>3. CASE k # 0
    <3>1. PICK j \in 0 .. Bits - 1 : k = j + 1 /\ j \notin bad /\ j \in 0 .. Bits
      <4>1. k - 1 \in 0 .. Bits - 1 /\ k = (k - 1) + 1 /\ k - 1 \in 0 .. Bits /\ k - 1 \notin bad
        BY <2>1, <2>3, Powers
      <4>2. QED
        BY <4>1
    <3>2. sum[j] \in 0 .. 2^j - 1
      BY <3>1
    <3>3. sum[j + 1] = sum[j] + BitValue(S, j) /\ 2^(j + 1) = 2 * 2^j /\ 2^j \in Nat \ {0}
      BY <3>1, BitByBit, NextPower, Powers
    <3>4. BitValue(S, j) = 2^j \/ BitValue(S, j) = 0
      BY Zenon DEF BitValue
    <3>5. sum[j + 1] \in 0 .. 2^(j + 1) - 1
      <4>1. PICK p \in Nat \ {0} : p = 2^j
        BY <3>3
      <4>2. QED
        BY <3>2, <3>3, <3>4, <4>1
    <3>6. QED
      BY <2>1, <3>1, <3>5, Zenon
  <2>4. QED
    BY <2>2, <2>3
<1>2. n \notin bad
  BY <1>1
<1>3. QED
  BY <1>2

\* A number below a word is the sum of its bits.
LEMMA SumOfBits ==
  ASSUME NEW l \in Int
  PROVE  SumBelow(BitsOf(l))[Bits] = u64(l)
<1> DEFINE S == BitsOf(l)
           sum == SumBelow(S)
           bad == {k \in 0 .. Bits : sum[k] # u64(l) % 2^k}
<1>1. PICK u \in 0 .. Word - 1 : u = u64(l) /\ u \in Int
  BY Wrapped, WordSize DEF U64
<1>2. ASSUME bad # {}
      PROVE  FALSE
  <2>a. bad \in SUBSET Nat
    BY Powers
  <2> HIDE DEF bad
  <2>1. PICK k \in bad : \A j \in bad : k <= j
    BY <1>2, <2>a, LeastExists
  <2> USE DEF bad
  <2>2. CASE k = 0
    <3>1. sum[0] = 0 /\ 2^0 = 1 /\ u % 1 = 0
      BY <1>1, BitByBit, Powers
    <3>2. QED
      BY <1>1, <2>1, <2>2, <3>1
  <2>3. CASE k # 0
    <3>1. PICK j \in 0 .. Bits - 1 : k = j + 1 /\ j \notin bad /\ j \in 0 .. Bits
      <4>1. k - 1 \in 0 .. Bits - 1 /\ k = (k - 1) + 1 /\ k - 1 \in 0 .. Bits /\ k - 1 \notin bad
        BY <2>1, <2>3, Powers
      <4>2. QED
        BY <4>1
    <3>2. PICK p \in Nat \ {0} : p = 2^j /\ 2^(j + 1) = 2 * p
      BY <3>1, NextPower, Powers
    <3>3. sum[j] = u % p
      BY <1>1, <3>1, <3>2
    <3>4. PICK q \in Int, r \in 0 .. p - 1 : q = u \div p /\ r = u % p /\ u = p * q + r
      BY <1>1, Divided, Zenon
    <3>5. PICK h \in Int, d \in 0 .. 1 : d = q % 2 /\ q = 2 * h + d
      <4>1. PICK two \in Nat \ {0} : two = 2
        OBVIOUS
      <4>2. q \div two \in Int /\ q % two \in 0 .. two - 1 /\ q = two * (q \div two) + (q % two)
        BY <3>4, Divided, Zenon
      <4>3. q \div 2 \in Int /\ q % 2 \in 0 .. 2 - 1 /\ q = 2 * (q \div 2) + (q % 2)
        BY <4>1, <4>2, Zenon
      <4>4. q % 2 \in 0 .. 1
        BY <4>3
      <4>5. QED
        BY <4>3, <4>4, Zenon
    <3>6. BitValue(S, j) = d * p
      <4>1. j \in S <=> d = 1
        BY <1>1, <3>1, <3>2, <3>4, <3>5, Zenon DEF BitsOf
      <4>2. QED
        BY <3>2, <3>5, <4>1 DEF BitValue
    <3>7. sum[j + 1] = r + d * p
      BY <3>1, <3>3, <3>4, <3>6, BitByBit
    <3>8. u = h * (2 * p) + (r + d * p) /\ r + d * p \in 0 .. 2 * p - 1
      <4>1. p * (2 * h + d) = h * (2 * p) + d * p /\ d * p \in Int /\ h * (2 * p) \in Int
        BY Z3
      <4>2. p * q = h * (2 * p) + d * p
        BY <3>5, <4>1, Zenon
      <4>3. d * p = IF d = 1 THEN p ELSE 0
        OBVIOUS
      <4>4. QED
        BY <3>4, <4>1, <4>2, <4>3
    <3>9. u % (2 * p) = r + d * p
      <4>1. PICK b \in Nat \ {0} : b = 2 * p
        BY <3>2
      <4>2. PICK low \in 0 .. b - 1 : low = r + d * p
        BY <3>8, <4>1
      <4>3. u = h * b + low
        BY <3>8, <4>1, <4>2, Zenon
      <4>4. QED
        BY <4>1, <4>2, <4>3, DivMod, Zenon
    <3>10. sum[k] = u % 2^k
      BY <3>1, <3>2, <3>7, <3>9, Zenon
    <3>11. QED
      BY <1>1, <2>1, <3>10, Zenon
  <2>4. QED
    BY <2>2, <2>3
<1>3. Bits \in 0 .. Bits /\ Bits \notin bad
  BY <1>2, Powers
<1>4. sum[Bits] = u % Word
  BY <1>1, <1>3, Powers, Zenon
<1>5. u % Word = u
  BY <1>1, WordSize
<1>6. QED
  BY <1>1, <1>4, <1>5

\* Of two sets of bits, what both have counts twice in the sum of the two, and the rest once.
AddUp(A, B, n) ==
  /\ SumBelow(A \cap B)[n] + SumBelow(A \cup B)[n] = SumBelow(A)[n] + SumBelow(B)[n]
  /\ SumBelow((A \cup B) \ (A \cap B))[n] + 2 * SumBelow(A \cap B)[n]
       = SumBelow(A)[n] + SumBelow(B)[n]
LEMMA SumsTogether ==
  ASSUME NEW A, NEW B, NEW n \in 0 .. Bits
  PROVE  AddUp(A, B, n)
<1> DEFINE X == (A \cup B) \ (A \cap B)
           a == SumBelow(A)
           b == SumBelow(B)
           and == SumBelow(A \cap B)
           or == SumBelow(A \cup B)
           xor == SumBelow(X)
           Holds(k) == and[k] + or[k] = a[k] + b[k] /\ xor[k] + 2 * and[k] = a[k] + b[k]
           bad == {k \in 0 .. Bits : ~Holds(k)}
<1>1. ASSUME bad # {}
      PROVE  FALSE
  <2>a. bad \in SUBSET Nat
    BY Powers
  <2> HIDE DEF bad
  <2>1. PICK k \in bad : \A j \in bad : k <= j
    BY <1>1, <2>a, LeastExists
  <2> USE DEF bad
  <2>2. CASE k = 0
    <3>1. a[0] = 0 /\ b[0] = 0 /\ and[0] = 0 /\ or[0] = 0 /\ xor[0] = 0
      BY BitByBit, Zenon
    <3>2. Holds(0)
      BY <3>1
    <3>3. QED
      BY <2>1, <2>2, <3>2
  <2>3. CASE k # 0
    <3>1. PICK j \in 0 .. Bits - 1 : k = j + 1 /\ j \notin bad /\ j \in 0 .. Bits
      <4>1. k \in 0 .. Bits
        BY <2>1, Zenon
      <4>2. k - 1 \in 0 .. Bits - 1 /\ k = (k - 1) + 1 /\ k - 1 \in 0 .. Bits /\ ~ k <= k - 1
        BY <2>3, <4>1, Powers
      <4>3. k - 1 \notin bad
        BY <2>1, <4>2, Zenon
      <4>4. QED
        BY <4>2, <4>3, Zenon
    <3>2. Holds(j)
      BY <3>1
    <3>3. PICK p \in Nat \ {0} : p = 2^j
      BY <3>1, Powers
    <3>4. /\ a[j + 1] = a[j] + BitValue(A, j) /\ b[j + 1] = b[j] + BitValue(B, j)
          /\ and[j + 1] = and[j] + BitValue(A \cap B, j) /\ or[j + 1] = or[j] + BitValue(A \cup B, j)
          /\ xor[j + 1] = xor[j] + BitValue(X, j)
      BY <3>1, BitByBit, Zenon
    <3>5. /\ BitValue(A, j) = IF j \in A THEN p ELSE 0
          /\ BitValue(B, j) = IF j \in B THEN p ELSE 0
          /\ BitValue(A \cap B, j) = IF j \in A /\ j \in B THEN p ELSE 0
          /\ BitValue(A \cup B, j) = IF j \in A \/ j \in B THEN p ELSE 0
          /\ BitValue(X, j) = IF j \in A <=> j \in B THEN 0 ELSE p
      BY <3>3 DEF BitValue
    <3>6. a[j] \in Int /\ b[j] \in Int /\ and[j] \in Int /\ or[j] \in Int /\ xor[j] \in Int
      <4>1. \A S : SumBelow(S)[j] \in 0 .. 2^j - 1
        BY <3>1, SumsAreBounded, Zenon
      <4>2. \A S : SumBelow(S)[j] \in 0 .. p - 1
        BY <3>3, <4>1, Zenon
      <4>3. \A v \in 0 .. p - 1 : v \in Int
        OBVIOUS
      <4>4. QED
        BY <4>2, <4>3, Zenon
    <3>7. PICK ia, ib, iu, iv, iw \in Int :
            /\ ia = BitValue(A, j) /\ ib = BitValue(B, j) /\ iu = BitValue(A \cap B, j)
            /\ iv = BitValue(A \cup B, j) /\ iw = BitValue(X, j)
            /\ iu + iv = ia + ib /\ iw + 2 * iu = ia + ib
      BY <3>5
    <3>8. PICK x, y, u, v, w \in Int :
            x = a[j] /\ y = b[j] /\ u = and[j] /\ v = or[j] /\ w = xor[j]
      BY <3>6, Zenon
    <3>9. u + v = x + y /\ w + 2 * u = x + y
      BY <3>2, <3>8, Zenon
    <3>10. /\ a[j + 1] = x + ia /\ b[j + 1] = y + ib /\ and[j + 1] = u + iu /\ or[j + 1] = v + iv
           /\ xor[j + 1] = w + iw
      BY <3>4, <3>7, <3>8, Zenon
    <3>11. (u + iu) + (v + iv) = (x + ia) + (y + ib) /\ (w + iw) + 2 * (u + iu) = (x + ia) + (y + ib)
      BY <3>7, <3>9
    <3>12. Holds(j + 1)
      BY <3>10, <3>11, Zenon
    <3>13. QED
      BY <2>1, <3>1, <3>12, Zenon
  <2>4. QED
    BY <2>2, <2>3
<1>2. n \notin bad
  BY <1>1
<1>3. QED
  BY <1>2 DEF AddUp

\* A sum is what its lower bits give, and a multiple of the power above them.
LEMMA SumAbove ==
  ASSUME NEW S, NEW k \in 0 .. Bits, NEW n \in k .. Bits
  PROVE  \E m \in Int : SumBelow(S)[n] = SumBelow(S)[k] + m * 2^k
<1> DEFINE sum == SumBelow(S)
           Holds(i) == \E m \in Int : sum[i] = sum[k] + m * 2^k
           bad == {i \in k .. Bits : ~Holds(i)}
<1>1. PICK p \in Nat \ {0} : p = 2^k
  BY Powers
<1>2. \A i \in 0 .. Bits : sum[i] \in Int
  <2>1. \A i \in 0 .. Bits : sum[i] \in 0 .. 2^i - 1
    BY SumsAreBounded, Zenon
  <2>2. ASSUME NEW i \in 0 .. Bits
        PROVE  sum[i] \in Int
    <3>1. PICK q \in Nat \ {0} : q = 2^i
      BY Powers
    <3>2. sum[i] \in 0 .. q - 1
      BY <2>1, <3>1, Zenon
    <3>3. \A v \in 0 .. q - 1 : v \in Int
      OBVIOUS
    <3>4. QED
      BY <3>2, <3>3, Zenon
  <2>3. QED
    BY <2>2
<1>3. ASSUME bad # {}
      PROVE  FALSE
  <2>a. bad \in SUBSET Nat
    BY Powers
  <2> HIDE DEF bad
  <2>1. PICK i \in bad : \A j \in bad : i <= j
    BY <1>3, <2>a, LeastExists
  <2> USE DEF bad
  <2>2. i \in k .. Bits /\ ~Holds(i)
    BY <2>1, Zenon
  <2>3. CASE i = k
    <3>1. PICK z \in Int : z = sum[k]
      BY <1>2, Zenon
    <3>2. z = z + 0 * p /\ 0 \in Int
      BY <3>1
    <3>3. sum[k] = sum[k] + 0 * 2^k
      BY <1>1, <3>1, <3>2, Zenon
    <3>4. QED
      BY <2>2, <2>3, <3>2, <3>3, Zenon
  <2>4. CASE i # k
    <3>1. PICK j \in k .. Bits - 1 : i = j + 1 /\ ~ i <= j
      <4>1. i - 1 \in k .. Bits - 1 /\ i = (i - 1) + 1 /\ ~ i <= i - 1
        BY <2>2, <2>4, Powers
      <4>2. QED
        BY <4>1, Zenon
    <3>2. j \in k .. Bits /\ j \in 0 .. Bits - 1 /\ j - k \in 0 .. Bits /\ k + (j - k) = j /\ j <= Bits
      BY <3>1, Powers
    <3>3. Holds(j)
      BY <2>1, <3>1, <3>2, Zenon
    <3>4. PICK m \in Int : sum[j] = sum[k] + m * p
      BY <1>1, <3>3, Zenon
    <3>5. PICK d \in Nat \ {0} : 2^j = p * d
      <4>1. 2^(k + (j - k)) = 2^k * 2^(j - k) /\ 2^(j - k) \in Nat \ {0}
        BY <3>2, Powers
      <4>2. 2^j = p * 2^(j - k)
        BY <1>1, <3>2, <4>1, Zenon
      <4>3. QED
        BY <4>1, <4>2, Zenon
    <3>6. PICK e \in Int : BitValue(S, j) = e * p
      <4>1. d * p = p * d /\ 0 * p = 0 /\ d \in Int /\ 0 \in Int
        BY Z3
      <4>2. BitValue(S, j) = d * p \/ BitValue(S, j) = 0 * p
        BY <3>5, <4>1, Zenon DEF BitValue
      <4>3. QED
        BY <4>1, <4>2, Zenon
    <3>7. PICK z \in Int : z = sum[k]
      BY <1>2, Zenon
    <3>8. sum[j + 1] = (z + m * p) + e * p
      BY <3>2, <3>4, <3>6, <3>7, BitByBit, Zenon
    <3>9. (z + m * p) + e * p = z + (m + e) * p /\ m + e \in Int
      BY Z3
    <3>10. sum[i] = sum[k] + (m + e) * 2^k
      BY <1>1, <3>1, <3>7, <3>8, <3>9, Zenon
    <3>11. QED
      BY <2>2, <3>9, <3>10, Zenon
  <2>5. QED
    BY <2>3, <2>4
<1>4. n \notin bad
  BY <1>3
<1>5. QED
  BY <1>4

\* The word made of a set of bits is its sum.
LEMMA FromBitsIsSum ==
  ASSUME NEW S
  PROVE  /\ SumBelow(S)[Bits] \in 0 .. Word - 1
         /\ FromBits(S) \in I64 /\ u64(FromBits(S)) = SumBelow(S)[Bits]
<1>1. PICK s \in 0 .. Word - 1 : s = SumBelow(S)[Bits]
  <2>1. Bits \in 0 .. Bits
    BY Powers
  <2>2. SumBelow(S)[Bits] \in 0 .. 2^Bits - 1
    BY <2>1, SumsAreBounded, Zenon
  <2>3. QED
    BY <2>2, Powers, Zenon
<1>2. PICK n \in I64 : n = i64(s) /\ FromBits(S) = n
  <2>1. s \in Int
    BY <1>1, WordSize
  <2>2. QED
    BY <1>1, <2>1, Wrapped, Zenon DEF FromBits
<1>3. s % Word = s
  BY <1>1, WordSize
<1>4. n = s \/ n = s - Word
  BY <1>2, <1>3, Zenon DEF i64, Wrap
<1>5. n = 0 * Word + s \/ n = (-1) * Word + s
  BY <1>1, <1>4, WordSize
<1>6. n % Word = s
  <2>1. Word \in Nat \ {0} /\ 0 \in Int /\ -1 \in Int
    BY WordSize
  <2>2. (0 * Word + s) % Word = s /\ ((-1) * Word + s) % Word = s
    BY <2>1, DivMod, Zenon
  <2>3. QED
    BY <1>5, <2>2, Zenon
<1>7. QED
  BY <1>1, <1>2, <1>6 DEF u64

\* The word made of a set of bits has those bits.
LEMMA BitsOfWord ==
  ASSUME NEW S \in SUBSET (0 .. Bits - 1)
  PROVE  BitsOf(FromBits(S)) = S
<1> DEFINE sum == SumBelow(S)
<1>1. PICK s \in 0 .. Word - 1 : s = sum[Bits]
  BY FromBitsIsSum, Zenon
<1>2. u64(FromBits(S)) = s
  BY <1>1, FromBitsIsSum, Zenon
<1>3. ASSUME NEW k \in 0 .. Bits - 1
      PROVE  (s \div 2^k) % 2 = 1 <=> k \in S
  <2>1. k \in 0 .. Bits /\ k + 1 \in 0 .. Bits /\ Bits \in (k + 1) .. Bits
    BY Powers
  <2>2. PICK p \in Nat \ {0} : p = 2^k /\ 2^(k + 1) = 2 * p
    BY <2>1, NextPower, Powers
  <2>3. PICK m \in Int : s = sum[k + 1] + m * (2 * p)
    <3>1. \E m \in Int : sum[Bits] = sum[k + 1] + m * 2^(k + 1)
      BY <2>1, SumAbove, Zenon
    <3>2. QED
      BY <1>1, <2>2, <3>1, Zenon
  <2>4. PICK r \in 0 .. p - 1 : r = sum[k]
    BY <2>1, <2>2, SumsAreBounded, Zenon
  <2>5. PICK d \in 0 .. 1 : (d = 1 <=> k \in S) /\ BitValue(S, k) = d * p
    <3>1. 1 * p = p /\ 0 * p = 0 /\ 0 \in 0 .. 1 /\ 1 \in 0 .. 1 /\ 0 # 1
      OBVIOUS
    <3>2. CASE k \in S
      BY <2>2, <3>1, <3>2, Zenon DEF BitValue
    <3>3. CASE k \notin S
      BY <3>1, <3>3, Zenon DEF BitValue
    <3>4. QED
      BY <3>2, <3>3
  <2>6. sum[k + 1] = r + d * p
    BY <2>4, <2>5, BitByBit, Zenon
  <2>7. s = (2 * m + d) * p + r /\ 2 * m + d \in Int
    <3>1. (r + d * p) + m * (2 * p) = (2 * m + d) * p + r /\ 2 * m + d \in Int
      BY Z3
    <3>2. QED
      BY <2>3, <2>6, <3>1, Zenon
  <2>8. s \div p = 2 * m + d
    BY <2>7, DivMod, Zenon
  <2>9. (2 * m + d) % 2 = d
    <3>1. PICK two \in Nat \ {0} : two = 2
      OBVIOUS
    <3>2. d \in 0 .. two - 1 /\ 2 * m + d = m * two + d
      BY <3>1
    <3>3. (m * two + d) % two = d
      BY <3>2, DivMod, Zenon
    <3>4. QED
      BY <3>1, <3>2, <3>3, Zenon
  <2>10. (s \div 2^k) % 2 = d
    BY <2>2, <2>8, <2>9, Zenon
  <2>11. QED
    BY <2>5, <2>10, Zenon
<1>4. BitsOf(FromBits(S)) = {k \in 0 .. Bits - 1 : (s \div 2^k) % 2 = 1}
  BY <1>2, Zenon DEF BitsOf
<1>5. QED
  BY <1>3, <1>4, Zenon

\* A set of bits sums to no more than a larger one.
LEMMA MoreBitsMore ==
  ASSUME NEW A, NEW B \in SUBSET A
  PROVE  SumBelow(B)[Bits] <= SumBelow(A)[Bits]
<1> DEFINE C == A \ B
<1>1. Bits \in 0 .. Bits /\ B \cap C = {} /\ B \cup C = A /\ (B \cup C) \ (B \cap C) = A
  BY Powers
<1>2. /\ SumBelow({})[Bits] + SumBelow(A)[Bits] = SumBelow(B)[Bits] + SumBelow(C)[Bits]
      /\ SumBelow(A)[Bits] + 2 * SumBelow({})[Bits] = SumBelow(B)[Bits] + SumBelow(C)[Bits]
  <2>1. AddUp(B, C, Bits)
    BY <1>1, SumsTogether, Zenon
  <2>2. QED
    BY <1>1, <2>1 DEF AddUp
<1>3. PICK a, b, c, none \in 0 .. Word - 1 :
        /\ a = SumBelow(A)[Bits] /\ b = SumBelow(B)[Bits]
        /\ c = SumBelow(C)[Bits] /\ none = SumBelow({})[Bits]
  BY FromBitsIsSum, Zenon
<1>4. none + a = b + c /\ a + 2 * none = b + c
  BY <1>2, <1>3, Zenon
<1>5. b <= a
  BY <1>4, WordSize
<1>6. QED
  BY <1>3, <1>5, Zenon

\* The bits of the words that & | and ^ make.
WordsAddUp(l, r, and, or, xor) ==
  /\ and \in I64 /\ or \in I64 /\ xor \in I64
  /\ u64(and) + u64(or) = u64(l) + u64(r) /\ u64(xor) + 2 * u64(and) = u64(l) + u64(r)
  /\ u64(and) <= u64(l) /\ u64(l) <= u64(or)
LEMMA BitwiseWords ==
  ASSUME NEW l \in I64, NEW r \in I64,
         NEW and, and = eval_binary("&", l, r).value,
         NEW or, or = eval_binary("|", l, r).value,
         NEW xor, xor = eval_binary("^", l, r).value
  PROVE  WordsAddUp(l, r, and, or, xor)
<1> DEFINE L == BitsOf(l)
           R == BitsOf(r)
<1>1. and = FromBits(L \cap R) /\ or = FromBits(L \cup R) /\ xor = FromBits((L \cup R) \ (L \cap R))
  BY DEF eval_binary, Bitwise, eval_bitwise, Done
<1>2. /\ and \in I64 /\ or \in I64 /\ xor \in I64
      /\ u64(and) = SumBelow(L \cap R)[Bits] /\ u64(or) = SumBelow(L \cup R)[Bits]
      /\ u64(xor) = SumBelow((L \cup R) \ (L \cap R))[Bits]
  BY <1>1, FromBitsIsSum, Zenon
<1>3. u64(l) = SumBelow(L)[Bits] /\ u64(r) = SumBelow(R)[Bits]
  <2>1. l \in Int /\ r \in Int
    BY WordSize DEF I64
  <2>2. QED
    BY <2>1, SumOfBits, Zenon
<1>4. Bits \in 0 .. Bits /\ L \cap R \in SUBSET L /\ L \in SUBSET (L \cup R)
  BY Powers
<1>5. SumBelow(L \cap R)[Bits] <= SumBelow(L)[Bits] /\ SumBelow(L)[Bits] <= SumBelow(L \cup R)[Bits]
  BY <1>4, MoreBitsMore, Zenon
<1>6. AddUp(L, R, Bits)
  BY <1>4, SumsTogether, Zenon
<1>7. QED
  BY <1>2, <1>3, <1>5, <1>6, Zenon DEF AddUp, WordsAddUp

\* & | and ^ of the evaluator (eval.rs:629-644) work on every bit by itself: the bits of the
\* value are those of both operands, of either, of exactly one.
THEOREM BitwiseIsPerBit ==
  ASSUME NEW l \in I64, NEW r \in I64, NEW op \in {"&", "|", "^"}, NEW k \in 0 .. Bits - 1
  PROVE  k \in BitsOf(eval_binary(op, l, r).value)
           <=> CASE op = "&" -> k \in BitsOf(l) /\ k \in BitsOf(r)
                 [] op = "|" -> k \in BitsOf(l) \/ k \in BitsOf(r)
                 [] op = "^" -> ~(k \in BitsOf(l) <=> k \in BitsOf(r))
<1> DEFINE L == BitsOf(l)
           R == BitsOf(r)
<1>1. L \in SUBSET (0 .. Bits - 1) /\ R \in SUBSET (0 .. Bits - 1)
  BY Zenon DEF BitsOf
<1>2. /\ BitsOf(FromBits(L \cap R)) = L \cap R
      /\ BitsOf(FromBits(L \cup R)) = L \cup R
      /\ BitsOf(FromBits((L \cup R) \ (L \cap R))) = (L \cup R) \ (L \cap R)
  <2>1. /\ L \cap R \in SUBSET (0 .. Bits - 1) /\ L \cup R \in SUBSET (0 .. Bits - 1)
        /\ (L \cup R) \ (L \cap R) \in SUBSET (0 .. Bits - 1)
    BY <1>1, Zenon
  <2>2. QED
    BY <2>1, BitsOfWord, Zenon
<1> HIDE DEF L, R
<1>3. CASE op = "&"
  <2>1. eval_binary("&", l, r).value = FromBits(L \cap R)
    BY DEF eval_binary, Bitwise, eval_bitwise, Done, L, R
  <2>2. k \in BitsOf(eval_binary("&", l, r).value) <=> k \in L /\ k \in R
    BY <1>2, <2>1, Zenon
  <2>3. QED
    BY <1>3, <2>2 DEF L, R
<1>4. CASE op = "|"
  <2>1. eval_binary("|", l, r).value = FromBits(L \cup R)
    BY DEF eval_binary, Bitwise, eval_bitwise, Done, L, R
  <2>2. k \in BitsOf(eval_binary("|", l, r).value) <=> k \in L \/ k \in R
    BY <1>2, <2>1, Zenon
  <2>3. QED
    BY <1>4, <2>2 DEF L, R
<1>5. CASE op = "^"
  <2>1. eval_binary("^", l, r).value = FromBits((L \cup R) \ (L \cap R))
    BY DEF eval_binary, Bitwise, eval_bitwise, Done, L, R
  <2>2. k \in BitsOf(eval_binary("^", l, r).value) <=> ~(k \in L <=> k \in R)
    BY <1>2, <2>1, Zenon
  <2>3. QED
    BY <1>5, <2>2 DEF L, R
<1>6. QED
  BY <1>3, <1>4, <1>5

\* What is left of the word after a quotient: C's pair, the least integer by -1 wrapping.
LEMMA QuotientIsC ==
  ASSUME NEW l \in I64, NEW r \in I64, r # 0,
         NEW q, q = eval_binary("/", l, r).value, NEW rem, rem = eval_binary("%", l, r).value
  PROVE  q \in I64 /\ rem \in I64 /\ IsQuotient(l, r, q, rem)
<1>1. PICK h \in Nat \ {0, 1} : h = Half /\ Word = 2 * h /\ I64 = -h .. h - 1
  BY WordSize DEF I64
<1>2. l \in -h .. h - 1 /\ r \in -h .. h - 1 /\ l \in Int /\ r \in Int
  BY <1>1
<1>3. PICK a \in 0 .. h, b \in 1 .. h : a = AbsVal(l) /\ b = AbsVal(r)
  BY <1>2 DEF AbsVal
<1>4. PICK k \in Int, m \in 0 .. b - 1 : k = a \div b /\ a = b * k + m
  <2>1. a \in Int /\ b \in Nat \ {0}
    OBVIOUS
  <2>2. a \div b \in Int /\ a % b \in 0 .. b - 1 /\ a = b * (a \div b) + (a % b)
    BY <2>1, Divided, Zenon
  <2>3. QED
    BY <2>2, Zenon
<1>5. k \in 0 .. a
  <2>1. ~ k <= -1
    <3>1. ASSUME k <= -1
          PROVE  FALSE
      <4>1. b * k <= -b
        BY <3>1, Z3
      <4>2. b * k \in Int
        BY Z3
      <4>3. QED
        BY <1>4, <4>1, <4>2
    <3>2. QED
      BY <3>1
  <2>2. k >= 0 => k <= b * k
    BY Z3
  <2>3. b * k \in Int
    BY Z3
  <2>4. QED
    BY <1>4, <2>1, <2>2, <2>3
<1>6. PICK Q \in Int : Q = Quot(l, r) /\ Q = IF (l < 0) <=> (r < 0) THEN k ELSE -k
  <2>1. Quot(l, r) = IF (l < 0) <=> (r < 0) THEN k ELSE -k
    BY <1>3, <1>4 DEF Quot
  <2>2. Quot(l, r) \in Int
    BY <2>1
  <2>3. QED
    BY <2>1, <2>2, Zenon
<1>7. PICK R \in Int : R = Rem(l, r) /\ AbsVal(R) < b /\ (R # 0 => (R < 0 <=> l < 0)) /\ l = r * Q + R
  <2>1. r * Q \in Int
    BY <1>2, Z3
  <2>2. Rem(l, r) \in Int
    BY <1>2, <1>6, <2>1 DEF Rem
  <2>3. /\ l = r * Quot(l, r) + Rem(l, r) /\ AbsVal(Rem(l, r)) < AbsVal(r)
        /\ Rem(l, r) # 0 => (Rem(l, r) < 0 <=> l < 0)
    BY <1>2, QuotientTowardZero
  <2>4. QED
    BY <1>3, <1>6, <2>2, <2>3, Zenon
<1>8. rem = R
  <2>1. R \in I64
    BY <1>1, <1>7 DEF AbsVal
  <2>2. i64(R) = R
    BY <2>1, Wrapped
  <2>3. rem = i64(R)
    BY <1>7 DEF eval_binary, Bitwise, eval_integer, Done
  <2>4. QED
    BY <2>2, <2>3
<1>9. q = i64(Q)
  BY <1>6 DEF eval_binary, Bitwise, eval_integer, Done
<1>10. \/ q = Q /\ Q \in I64
       \/ q = -h /\ Q = h
  <2>1. Q \in -h .. h
    BY <1>5, <1>6
  <2>2. CASE Q \in I64
    BY <1>9, <2>2, Wrapped
  <2>3. CASE Q \notin I64
    <3>1. Q = h
      BY <1>1, <2>1, <2>3
    <3>2. Q % Word = h
      BY <1>1, <3>1
    <3>3. i64(Q) = h - Word
      <4>1. i64(Q) = IF h < Half THEN h ELSE h - Word
        BY <3>2, Zenon DEF i64, Wrap, Half
      <4>2. QED
        BY <1>1, <4>1
    <3>4. QED
      BY <1>1, <1>9, <3>1, <3>3
  <2>4. QED
    BY <2>2, <2>3
<1>11. q \in I64 /\ q \in Int /\ R \in I64
  BY <1>1, <1>7, <1>10 DEF AbsVal
<1>12. Same(q * r + R, l)
  <2>1. r * Q = Q * r /\ Q * r \in Int /\ q * r \in Int /\ 0 * Word = 0
    BY <1>1, <1>2, <1>11, Z3
  <2>2. \E z \in Int : q * r - Q * r = z * Word
    <3>1. CASE q = Q
      <4>1. q * r = Q * r
        BY <3>1, Zenon
      <4>2. q * r - Q * r = 0 * Word /\ 0 \in Int
        BY <2>1, <4>1
      <4>3. QED
        BY <4>2, Zenon
    <3>2. CASE q = -h /\ Q = h
      <4>1. (-h) * r - h * r = (-r) * (2 * h) /\ -r \in Int
        BY <1>2, Z3
      <4>2. QED
        BY <1>1, <3>2, <4>1, Zenon
    <3>3. QED
      BY <1>10, <3>1, <3>2
  <2>3. PICK z \in Int : q * r - Q * r = z * Word
    BY <2>2
  <2>4. PICK y \in Int : y = z * Word
    BY <1>1, Z3
  <2>5. (q * r + R) - l = y /\ q * r + R \in Int
    BY <1>7, <2>1, <2>3, <2>4
  <2>6. QED
    BY <1>2, <2>4, <2>5, Congruent, Zenon
<1>13. q \in {0, -Half} \/ (q < 0 <=> ~(l < 0 <=> r < 0))
  BY <1>1, <1>5, <1>6, <1>10
<1>14. QED
  BY <1>3, <1>7, <1>8, <1>11, <1>12, <1>13, Zenon DEF IsQuotient

\* A shift is a product or a quotient by a power.
LEMMA ShiftIsC ==
  ASSUME NEW l \in I64, NEW r \in I64
  PROVE  /\ eval_binary("<<", l, r).value \in I64
         /\ Same(eval_binary("<<", l, r).value, l * 2^(r % Bits))
         /\ eval_binary(">>", l, r).value \in I64
         /\ LET m == 2^(r % Bits)
                v == eval_binary(">>", l, r).value
            IN  v * m <= l /\ l - v * m < m
<1>1. PICK h \in Nat \ {0, 1} : h = Half /\ I64 = -h .. h - 1 /\ l \in Int /\ r \in Int
  BY WordSize DEF I64
<1>2. r % Bits \in 0 .. Bits
  BY <1>1, Powers
<1>3. PICK m \in Nat \ {0} : m = 2^(r % Bits)
  BY <1>2, Powers
<1>4. eval_binary("<<", l, r).value = i64(l * m) /\ eval_binary(">>", l, r).value = l \div m
  BY <1>3 DEF eval_binary, Bitwise, eval_bitwise, Done
<1>5. l * m \in Int
  BY <1>1, Z3
<1>6. i64(l * m) \in I64 /\ Same(i64(l * m), l * m)
  BY <1>5, Wrapped, WrapIsSame
<1>7. PICK v \in Int, b \in 0 .. m - 1 : v = l \div m /\ l = m * v + b
  <2>1. l \div m \in Int /\ l % m \in 0 .. m - 1 /\ l = m * (l \div m) + (l % m)
    BY <1>1, Divided, Zenon
  <2>2. QED
    BY <2>1, Zenon
<1>8. m * v = v * m /\ v * m \in Int
  BY Z3
<1>9. v * m <= l /\ l - v * m < m
  BY <1>1, <1>7, <1>8
<1>10. v \in I64
  <2>1. v >= 0 => v <= v * m
    BY Z3
  <2>2. v <= -1 => v * m <= v
    BY Z3
  <2>3. ~ v <= -h - 1
    <3>1. ASSUME v <= -h - 1
          PROVE  FALSE
      <4>1. v * m <= (-h - 1) * m /\ (-h - 1) * m = -(h * m) - m /\ h * m \in Int /\ h <= h * m
        BY <3>1, Z3
      <4>2. QED
        BY <1>1, <1>7, <1>8, <4>1
    <3>2. QED
      BY <3>1
  <2>4. QED
    BY <1>1, <1>8, <1>9, <2>1, <2>3
<1>11. QED
  BY <1>3, <1>4, <1>6, <1>7, <1>9, <1>10, Zenon

\* The binary operators of the evaluator (eval.rs:629-698) are those of C on 64 bits for every
\* pair of operands on which they do not fail, and they fail for a division by zero alone.
THEOREM OperatorsAreC ==
  ASSUME NEW l \in I64, NEW r \in I64,
         NEW op \in {"+", "-", "*", "/", "%", "==", "!=", "<", ">", "<=", ">="} \cup Bitwise
  PROVE  LET Of(o) == eval_binary(o, l, r).value
         IN  IF eval_binary(op, l, r).ok THEN IsBinary(op, l, r, Of(op), Of)
             ELSE op \in {"/", "%"} /\ r = 0
<1> DEFINE Of(o) == eval_binary(o, l, r).value
           v == Of(op)
           Correct == IF eval_binary(op, l, r).ok THEN IsBinary(op, l, r, v, Of)
                      ELSE op \in {"/", "%"} /\ r = 0
<1>1. l \in Int /\ r \in Int /\ l + r \in Int /\ l - r \in Int /\ l * r \in Int
  <2>1. l \in Int /\ r \in Int
    BY WordSize DEF I64
  <2>2. QED
    BY <2>1, Z3
<1>a. \A n \in I64 : n \in Int /\ u64(n) \in Int /\ Same(u64(n), n)
  <2>1. \A n \in I64 : n \in Int
    BY WordSize DEF I64
  <2>2. \A n \in U64 : n \in Int
    BY WordSize DEF U64
  <2>3. QED
    BY <2>1, <2>2, Wrapped, WrapIsSame, Zenon
<1>2. \A n \in Int : i64(n) \in I64 /\ Same(i64(n), n)
  BY Wrapped, WrapIsSame
<1>3. ASSUME NEW o \in {"+", "-", "*"}
      PROVE  Of(o) \in I64 /\ Same(Of(o), CASE o = "+" -> l + r [] o = "-" -> l - r [] o = "*" -> l * r)
  <2>1. Of("+") = i64(l + r) /\ Of("-") = i64(l - r) /\ Of("*") = i64(l * r)
    BY DEF eval_binary, Bitwise, eval_integer, Done
  <2>2. /\ i64(l + r) \in I64 /\ Same(i64(l + r), l + r)
        /\ i64(l - r) \in I64 /\ Same(i64(l - r), l - r)
        /\ i64(l * r) \in I64 /\ Same(i64(l * r), l * r)
    BY <1>1, <1>2, Zenon
  <2> HIDE DEF Of
  <2>3. QED
    BY <2>1, <2>2
<1>4. CASE op = "+"
  BY <1>3, <1>4 DEF IsBinary, eval_binary, Bitwise, eval_integer, Done
<1>5. CASE op = "-"
  BY <1>3, <1>5 DEF IsBinary, eval_binary, Bitwise, eval_integer, Done
<1>6. CASE op = "*"
  BY <1>3, <1>6 DEF IsBinary, eval_binary, Bitwise, eval_integer, Done
<1>7. CASE op \in {"/", "%"} /\ r = 0
  <2>1. ~eval_binary("/", l, r).ok /\ ~eval_binary("%", l, r).ok
    <3>1. eval_binary("/", l, r) = Refuse("division by zero") /\ eval_binary("%", l, r) = Refuse("division by zero")
      BY <1>7 DEF eval_binary, Bitwise, eval_integer
    <3>2. QED
      <4>1. \A why : ~Refuse(why).ok
        BY DEF Refuse
      <4>2. QED
        BY <3>1, <4>1, Zenon
  <2>2. QED
    BY <1>7, <2>1, Zenon
<1>8. CASE op \in {"/", "%"} /\ r # 0
  <2>1. Of("/") \in I64 /\ Of("%") \in I64 /\ IsQuotient(l, r, Of("/"), Of("%"))
    BY <1>8, QuotientIsC
  <2>2. IsBinary(op, l, r, v, Of)
    BY <1>8, <2>1 DEF IsBinary
  <2>3. eval_binary("/", l, r).ok /\ eval_binary("%", l, r).ok
    BY <1>8 DEF eval_binary, Bitwise, eval_integer, Done
  <2>4. QED
    BY <1>8, <2>2, <2>3, Zenon
<1>9. CASE op \in {"&", "|", "^"}
  <2>1. PICK and, or, xor : and = Of("&") /\ or = Of("|") /\ xor = Of("^")
    OBVIOUS
  <2>2. /\ and \in I64 /\ or \in I64 /\ xor \in I64
        /\ u64(and) + u64(or) = u64(l) + u64(r) /\ u64(xor) + 2 * u64(and) = u64(l) + u64(r)
        /\ u64(and) <= u64(l) /\ u64(l) <= u64(or)
    <3>1. WordsAddUp(l, r, and, or, xor)
      BY <2>1, BitwiseWords
    <3>2. QED
      BY <3>1, Zenon DEF WordsAddUp
  <2>3. Same(and + or, l + r) /\ Same(xor + 2 * and, l + r)
    <3>1. PICK x \in Int, y \in Int, a \in Int, o \in Int, z \in Int :
            x = u64(l) /\ y = u64(r) /\ a = u64(and) /\ o = u64(or) /\ z = u64(xor)
      BY <1>a, <2>2, Zenon
    <3>2. /\ and \in Int /\ or \in Int /\ xor \in Int
          /\ Same(x, l) /\ Same(y, r) /\ Same(a, and) /\ Same(o, or) /\ Same(z, xor)
      BY <1>a, <2>2, <3>1, Zenon
    <3>3. Same(and, a) /\ Same(or, o) /\ Same(xor, z)
      BY <3>2, SameIsCongruence, Zenon
    <3>4. Same(x + y, l + r) /\ Same(and + or, a + o) /\ Same(and + and, a + a)
      BY <1>1, <3>2, <3>3, SameIsCongruence, Zenon
    <3>5. and + or \in Int /\ a + o \in Int /\ and + and \in Int /\ a + a \in Int
          /\ xor + (and + and) \in Int /\ z + (a + a) \in Int
      BY <3>2
    <3>6. Same(xor + (and + and), z + (a + a))
      BY <3>3, <3>4, <3>5, <3>2, SameIsCongruence, Zenon
    <3>7. a + o = x + y /\ z + 2 * a = x + y
      BY <2>2, <3>1, Zenon
    <3>8. z + (a + a) = x + y /\ xor + (and + and) = xor + 2 * and
      BY <3>2, <3>7
    <3>9. Same(and + or, x + y) /\ Same(xor + 2 * and, x + y)
      BY <3>4, <3>6, <3>7, <3>8, Zenon
    <3>10. x + y \in Int /\ xor + 2 * and \in Int
      BY <3>2
    <3>11. \A u \in Int, w \in Int : Same(u, x + y) => Same(u, l + r)
      BY <1>1, <3>4, <3>10, SameIsCongruence
    <3>12. QED
      BY <3>5, <3>9, <3>10, <3>11, Zenon
  <2>4. v \in I64 /\ IsBits(op, l, r, v, and, or)
    BY <1>9, <2>1, <2>2, <2>3 DEF IsBits
  <2>5. eval_binary(op, l, r).ok
    BY <1>9 DEF eval_binary, Bitwise, eval_bitwise, Done
  <2>6. IsBinary(op, l, r, v, Of)
    BY <1>9, <2>1, <2>4 DEF IsBinary
  <2>7. QED
    BY <2>5, <2>6
<1>10. CASE op = "<<"
  <2>1. Of("<<") \in I64 /\ Same(Of("<<"), l * 2^(r % Bits)) /\ eval_binary("<<", l, r).ok
    BY ShiftIsC DEF eval_binary, Bitwise, eval_bitwise, Done
  <2>2. QED
    BY <1>10, <2>1 DEF IsBinary
<1>11. CASE op = ">>"
  <2>1. eval_binary(">>", l, r).ok
    BY DEF eval_binary, Bitwise, eval_bitwise, Done
  <2>2. QED
    BY <1>11, <2>1, ShiftIsC DEF IsBinary
<1>12. CASE op \in {"==", "!=", "<", ">", "<=", ">="}
  <2>1. /\ Of("==") = (IF l = r THEN 1 ELSE 0) /\ Of("!=") = (IF l # r THEN 1 ELSE 0)
        /\ Of("<") = (IF l < r THEN 1 ELSE 0) /\ Of(">") = (IF l > r THEN 1 ELSE 0)
        /\ Of("<=") = (IF l <= r THEN 1 ELSE 0) /\ Of(">=") = (IF l >= r THEN 1 ELSE 0)
    BY DEF eval_binary, Bitwise, eval_integer, Truth, Done
  <2>2. /\ eval_binary("==", l, r).ok /\ eval_binary("!=", l, r).ok
        /\ eval_binary("<", l, r).ok /\ eval_binary(">", l, r).ok
        /\ eval_binary("<=", l, r).ok /\ eval_binary(">=", l, r).ok
    BY DEF eval_binary, Bitwise, eval_integer, Truth, Done
  <2>3. eval_binary(op, l, r).ok
    BY <1>12, <2>2, Zenon
  <2>4. 0 \in I64 /\ 1 \in I64
    BY WordSize DEF I64
  <2> HIDE DEF Of
  <2>5. v \in {0, 1} /\ (v = 1 <=> op \in CASE l < r -> {"<", "<=", "!="}
                                        [] l > r -> {">", ">=", "!="}
                                        [] l = r -> {"<=", ">=", "=="})
    <3>1. CASE l < r
      BY <1>1, <1>12, <2>1, <3>1
    <3>2. CASE l > r
      BY <1>1, <1>12, <2>1, <3>2
    <3>3. CASE l = r
      BY <1>1, <1>12, <2>1, <3>3
    <3>4. QED
      BY <1>1, <3>1, <3>2, <3>3
  <2>6. IsBinary(op, l, r, v, Of)
    BY <1>12, <2>4, <2>5 DEF IsBinary
  <2>7. QED
    BY <2>3, <2>6, Zenon DEF Of
<1>13. QED
  BY <1>4, <1>5, <1>6, <1>7, <1>8, <1>9, <1>10, <1>11, <1>12, Zenon DEF Bitwise
=============================================================================
