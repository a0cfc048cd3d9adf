--------------------------- MODULE Prompt_proofs ---------------------------
(***************************************************************************)
(* What the prompt does to the debuggee, for every debuggee, line table,   *)
(* width and format, and for every evaluator that hands back a location    *)
(* and a value of their Rust types (EvaluatorTyped): `set' changes the     *)
(* object it names and nothing else, breakpoints land where they belong    *)
(* and leave the program's bytes on record, and disassemble shows those    *)
(* bytes unless a breakpoint lies below the view.                          *)
(***************************************************************************)
EXTENDS Prompt, LineTable_proofs, Registers_proofs

-----------------------------------------------------------------------------
(* Types.                                                                  *)

Space == [DOMAIN Fresh.memory -> 0 .. Byte - 1]
X87 == [low : U64, high : 0 .. 2 * ExtGap - 1]
RegisterFile == [wide : [DOMAIN Fresh.regs.wide -> U64],
                 narrow : [DOMAIN Fresh.regs.narrow -> 0 .. Values[4] - 1],
                 fp : [0 .. 1 -> X87]]
Context == [memory : Space, regs : RegisterFile]

\* eval.rs, Location and Value: an object in memory, of 8 bytes if it is a double, or a register.
IsPlace(loc) == /\ loc.address \in U64 /\ loc.size \in Nat \ {0} /\ loc.kind \in {"Int", "Float"}
                /\ loc.kind = "Float" => loc.size >= 8
IsLocation(loc) == (loc.at = "memory" /\ IsPlace(loc)) \/ loc.at = "register"
IsValue(v) == (v.kind = "Int" /\ v.n \in I64) \/ (v.kind = "Float" /\ v.f \in F64)

\* What set_expr hands to the write is what Rust's types say, in each of these debuggees.
EvaluatorTyped(contexts) ==
  \A ctx \in contexts, text \in Assignments :
    LET plan == Plan(text, ctx)
    IN  plan.ok => IsLocation(plan.value.loc) /\ IsValue(plan.value.v)

Names == DOMAIN Fresh.regs.wide \cup DOMAIN Fresh.regs.narrow \cup DOMAIN St \cup DOMAIN Mm

-----------------------------------------------------------------------------
(* Bytes.                                                                  *)

\* The widths in bytes are powers of a byte.
LEMMA ByteSizes ==
  /\ Byte \in Nat \ {0} /\ Byte >= 2
  /\ \A k \in 1 .. 8 : Values[k] \in Nat \ {0}
  /\ Values[1] = Byte /\ Values[8] = Word
  /\ \A k \in 1 .. 7 : Values[k + 1] = Values[k] * Byte
<1>1. Byte \in Nat \ {0} /\ Byte >= 2
  BY ByteAssumption DEF ByteAssumption
<1>2. \A a \in Nat \ {0}, b \in Nat \ {0} : a * b \in Nat \ {0}
  BY Z3
<1>3. \A x \in Nat \ {0}, y \in Nat \ {0}, z \in Nat \ {0} : (x * y) * z = x * (y * z)
  BY Z3
<1>4. PICK two \in Nat \ {0} : two = Byte * Byte
  BY <1>1, <1>2
<1>5. PICK four \in Nat \ {0} : four = two * two
  BY <1>2
<1>6. Values = <<Byte, two, two * Byte, four, four * Byte, four * two, (four * two) * Byte, four * four>>
  BY <1>4, <1>5, Zenon DEF Values
<1>7. /\ Values[1] = Byte /\ Values[2] = two /\ Values[3] = two * Byte /\ Values[4] = four
      /\ Values[5] = four * Byte /\ Values[6] = four * two /\ Values[7] = (four * two) * Byte
      /\ Values[8] = four * four
  BY <1>6
<1>8. \A k \in 1 .. 8 : k = 1 \/ k = 2 \/ k = 3 \/ k = 4 \/ k = 5 \/ k = 6 \/ k = 7 \/ k = 8
  OBVIOUS
<1>9. four * two \in Nat \ {0}
  BY <1>2
<1>10. \A k \in 1 .. 8 : Values[k] \in Nat \ {0}
  <2>1. /\ Values[1] \in Nat \ {0} /\ Values[2] \in Nat \ {0} /\ Values[3] \in Nat \ {0}
        /\ Values[4] \in Nat \ {0} /\ Values[5] \in Nat \ {0} /\ Values[6] \in Nat \ {0}
        /\ Values[7] \in Nat \ {0} /\ Values[8] \in Nat \ {0}
    BY <1>1, <1>2, <1>7, <1>9
  <2>2. QED
    BY <1>8, <2>1, Zenon
<1>11. Values[4] = Values[3] * Byte
  BY <1>1, <1>3, <1>4, <1>5, <1>7
<1>12. Values[6] = Values[5] * Byte
  BY <1>1, <1>3, <1>4, <1>7
<1>13. Values[8] = Values[7] * Byte
  BY <1>1, <1>3, <1>4, <1>5, <1>7, <1>9
<1>14. \A k \in 1 .. 7 : Values[k + 1] = Values[k] * Byte
  <2>1. TAKE k \in 1 .. 7
  <2>2. k = 1 \/ k = 2 \/ k = 3 \/ k = 4 \/ k = 5 \/ k = 6 \/ k = 7
    OBVIOUS
  <2>4. /\ Values[1 + 1] = Values[1] * Byte /\ Values[2 + 1] = Values[2] * Byte
        /\ Values[3 + 1] = Values[3] * Byte /\ Values[4 + 1] = Values[4] * Byte
        /\ Values[5 + 1] = Values[5] * Byte /\ Values[6 + 1] = Values[6] * Byte
        /\ Values[7 + 1] = Values[7] * Byte
    BY <1>4, <1>7, <1>11, <1>12, <1>13
  <2>5. QED
    BY <2>2, <2>4, Zenon
<1>15. QED
  BY <1>1, <1>7, <1>10, <1>14 DEF Word

\* A word is a whole number of objects of each width.
LEMMA WidthsDivide ==
  ASSUME NEW k \in 1 .. 8
  PROVE  \E d \in Nat \ {0} : Word = Values[k] * d
<1> DEFINE Divides(j) == \E d \in Nat \ {0} : Word = Values[j] * d
<1>1. Divides(8)
  BY ByteSizes, Z3
<1>2. ASSUME NEW j \in 1 .. 7, Divides(j + 1)
      PROVE  Divides(j)
  <2>1. PICK d \in Nat \ {0} : Word = Values[j + 1] * d
    BY <1>2
  <2>2. PICK v \in Nat \ {0} : v = Values[j] /\ Values[j + 1] = v * Byte
    BY ByteSizes
  <2>3. PICK m \in Nat \ {0} : m = Byte * d
    BY ByteSizes, Z3
  <2>4. (v * Byte) * d = v * (Byte * d)
    BY ByteSizes, Z3
  <2>5. QED
    BY <2>1, <2>2, <2>3, <2>4
<1> HIDE DEF Divides
<1>3. Divides(7)
  BY <1>1, <1>2
<1>4. Divides(6)
  BY <1>2, <1>3
<1>5. Divides(5)
  BY <1>2, <1>4
<1>6. Divides(4)
  BY <1>2, <1>5
<1>7. Divides(3)
  BY <1>2, <1>6
<1>8. Divides(2)
  BY <1>2, <1>7
<1>9. Divides(1)
  BY <1>2, <1>8
<1>10. k = 1 \/ k = 2 \/ k = 3 \/ k = 4 \/ k = 5 \/ k = 6 \/ k = 7 \/ k = 8
  OBVIOUS
<1>11. Divides(k)
  BY <1>1, <1>3, <1>4, <1>5, <1>6, <1>7, <1>8, <1>9, <1>10, Zenon
<1>12. QED
  BY <1>11 DEF Divides

\* One more byte of a number.
LEMMA NextByte ==
  ASSUME NEW raw \in Nat, NEW m \in Nat \ {0}
  PROVE  raw % (m * Byte) = (raw % m) + ((raw \div m) % Byte) * m
<1>1. PICK q \in Int, r \in 0 .. m - 1 : q = raw \div m /\ r = raw % m /\ raw = m * q + r
  BY Divided, raw \in Int, Zenon
<1>2. PICK h \in Int, d \in 0 .. Byte - 1 : d = q % Byte /\ q = Byte * h + d
  <2>1. Byte \in Nat \ {0}
    BY ByteSizes
  <2>2. QED
    BY <2>1, Divided, Zenon
<1>3. PICK b \in Nat \ {0} : b = m * Byte
  BY ByteSizes, Z3
<1>4. PICK low \in 0 .. b - 1 : low = d * m + r
  <2>1. d * m + r \in 0 .. Byte * m - 1
    BY ByteSizes, Packed
  <2>2. Byte * m = b
    BY <1>3, ByteSizes, Z3
  <2>3. QED
    BY <2>1, <2>2
<1>5. raw = h * b + low
  <2>1. m * (Byte * h + d) = h * (m * Byte) + d * m
    BY ByteSizes, Z3
  <2>2. d * m \in Int /\ h * b \in Int
    BY Z3
  <2>3. m * q = h * b + d * m
    BY <1>2, <1>3, <2>1, Zenon
  <2>4. raw = (h * b + d * m) + r
    BY <1>1, <2>3, Zenon
  <2>5. QED
    BY <1>4, <2>2, <2>4
<1>6. raw % b = low
  BY <1>5, DivMod
<1>7. low = r + d * m
  BY <1>4, Z3
<1>8. QED
  BY <1>1, <1>2, <1>3, <1>6, <1>7, Zenon

\* The bytes of a number and what they add up to.
LEMMA BytesAddUp ==
  ASSUME NEW raw \in Nat
  PROVE  /\ \A k \in 0 .. 7 : ByteAt(raw, k) \in 0 .. Byte - 1
         /\ raw % Values[1] = ByteAt(raw, 0)
         /\ \A k \in 1 .. 7 : raw % Values[k + 1] = (raw % Values[k]) + ByteAt(raw, k) * Values[k]
<1>1. \A k \in 1 .. 7 : Values[k] \in Nat \ {0} /\ Values[k + 1] = Values[k] * Byte
  BY ByteSizes
<1>2. \A k \in 1 .. 7 : ByteAt(raw, k) = (raw \div Values[k]) % Byte
  BY DEF ByteAt
<1>3. \A k \in 0 .. 7 : ByteAt(raw, k) \in 0 .. Byte - 1
  <2>1. TAKE k \in 0 .. 7
  <2>2. PICK n \in Int : ByteAt(raw, k) = n % Byte
    <3>1. CASE k = 0
      BY <3>1 DEF ByteAt
    <3>2. CASE k # 0
      <4>1. k \in 1 .. 7 /\ raw \in Int
        BY <3>2
      <4>2. raw \div Values[k] \in Int
        BY <1>1, <4>1, Divided
      <4>3. QED
        BY <1>2, <4>1, <4>2
    <3>3. QED
      BY <3>1, <3>2
  <2>3. QED
    BY <2>2, ByteSizes, Divided
<1>4. raw % Values[1] = ByteAt(raw, 0)
  BY ByteSizes DEF ByteAt
<1>5. \A k \in 1 .. 7 : raw % Values[k + 1] = (raw % Values[k]) + ByteAt(raw, k) * Values[k]
  BY <1>1, <1>2, NextByte
<1>6. QED
  BY <1>3, <1>4, <1>5

-----------------------------------------------------------------------------
(* Writing an object and reading it back.                                  *)

Stored(memory_, loc, raw) ==
  [a \in DOMAIN memory_ |-> IF a \in Bytes(loc) THEN ByteAt(raw, a - loc.address) ELSE memory_[a]]

\* The bytes of an object, and those of what is written.
LEMMA ObjectWritten ==
  ASSUME NEW m \in Space, NEW loc, IsPlace(loc), NEW raw \in Nat
  PROVE  /\ Width(loc) \in 1 .. 8 /\ loc.address \in Nat
         /\ Bytes(loc) \subseteq loc.address .. loc.address + loc.size - 1
         /\ \A k \in 0 .. Width(loc) - 1 : loc.address + k \in Bytes(loc) /\ (loc.address + k) - loc.address = k
         /\ Stored(m, loc, raw) \in Space
         /\ \A a \in DOMAIN m : a \notin Bytes(loc) => Stored(m, loc, raw)[a] = m[a]
<1>1. loc.address \in Nat /\ loc.size \in Nat \ {0}
  BY WordSize DEF IsPlace, U64
<1>2. Width(loc) \in 1 .. 8 /\ Width(loc) <= loc.size
  BY <1>1 DEF Width
<1>3. Bytes(loc) \subseteq loc.address .. loc.address + loc.size - 1
  BY <1>1, <1>2 DEF Bytes
<1>4. \A k \in 0 .. Width(loc) - 1 : loc.address + k \in Bytes(loc) /\ (loc.address + k) - loc.address = k
  BY <1>1, <1>2 DEF Bytes
<1>5. ASSUME NEW a \in DOMAIN Fresh.memory
      PROVE  (IF a \in Bytes(loc) THEN ByteAt(raw, a - loc.address) ELSE m[a]) \in 0 .. Byte - 1
  <2>1. CASE a \in Bytes(loc)
    <3>1. a - loc.address \in 0 .. 7
      BY <1>1, <1>2, <2>1 DEF Bytes
    <3>2. QED
      BY <2>1, <3>1, BytesAddUp
  <2>2. CASE a \notin Bytes(loc)
    BY <2>2 DEF Space
  <2>3. QED
    BY <2>1, <2>2
<1>6. DOMAIN m = DOMAIN Fresh.memory
  BY DEF Space
<1>7. Stored(m, loc, raw) \in Space
  BY <1>5, <1>6 DEF Stored, Space
<1>8. QED
  BY <1>1, <1>2, <1>3, <1>4, <1>7 DEF Stored

\* What is read of an object just written is what was written, modulo its width.
LEMMA ReadsBack ==
  ASSUME NEW m \in Space, NEW loc, IsPlace(loc), NEW raw \in Nat, Bytes(loc) \subseteq DOMAIN m
  PROVE  read_raw(Stored(m, loc, raw), loc) = raw % Values[Width(loc)]
<1> DEFINE new == Stored(m, loc, raw)
           w == Width(loc)
           D(k) == ByteAt(raw, k)
           B(k) == IF k < w THEN new[loc.address + k] ELSE 0
           R(k) == raw % Values[k]
<1>1. w \in 1 .. 8
  BY ObjectWritten
<1>2. \A k \in 0 .. 7 : B(k) = IF k < w THEN D(k) ELSE 0
  <2>1. TAKE k \in 0 .. 7
  <2>2. CASE k < w
    <3>1. k \in 0 .. w - 1
      BY <1>1, <2>2
    <3>2. loc.address + k \in Bytes(loc) /\ (loc.address + k) - loc.address = k
      BY <3>1, ObjectWritten
    <3>3. new[loc.address + k] = ByteAt(raw, (loc.address + k) - loc.address)
      BY <3>2 DEF Stored
    <3>4. QED
      BY <2>2, <3>2, <3>3
  <2>3. QED
    BY <2>2
<1>3. /\ \A k \in 0 .. 7 : D(k) \in Int
      /\ R(1) = D(0)
      /\ \A k \in 1 .. 7 : R(k + 1) = R(k) + D(k) * Values[k]
  BY BytesAddUp
<1>4. \A k \in 1 .. 7 : Values[k] \in Nat
  BY ByteSizes
<1>5. read_raw(new, loc) = B(0) + B(1) * Values[1] + B(2) * Values[2] + B(3) * Values[3]
        + B(4) * Values[4] + B(5) * Values[5] + B(6) * Values[6] + B(7) * Values[7]
  BY DEF read_raw
<1>6. \A k \in 1 .. 7 : D(k) * Values[k] \in Int
  <2>1. \A x \in Int, y \in Nat : x * y \in Int
    BY Z3
  <2>2. QED
    BY <1>3, <1>4, <2>1
<1>7. \A k \in 1 .. 7 : B(k) * Values[k] = IF k < w THEN D(k) * Values[k] ELSE 0
  <2>1. TAKE k \in 1 .. 7
  <2>2. CASE k < w
    BY <1>2, <2>2
  <2>3. CASE ~ k < w
    <3>1. B(k) = 0 /\ Values[k] \in Nat
      BY <1>4, <2>3
    <3>2. 0 * Values[k] = 0
      BY <3>1, Z3
    <3>3. QED
      BY <2>3, <3>1, <3>2, Zenon
  <2>4. QED
    BY <2>2, <2>3
<1>8. R(1) \in Int
  BY <1>3
<1> DEFINE P(k) == D(k) * Values[k]
           Q(k) == B(k) * Values[k]
<1>9. /\ R(2) = R(1) + P(1) /\ R(3) = R(2) + P(2) /\ R(4) = R(3) + P(3) /\ R(5) = R(4) + P(4)
      /\ R(6) = R(5) + P(5) /\ R(7) = R(6) + P(6) /\ R(8) = R(7) + P(7)
  BY <1>3
<1>10. B(0) = R(1)
  BY <1>1, <1>2, <1>3
<1>11. /\ P(1) \in Int /\ P(2) \in Int /\ P(3) \in Int /\ P(4) \in Int
       /\ P(5) \in Int /\ P(6) \in Int /\ P(7) \in Int
  BY <1>6
<1>12. /\ Q(1) = (IF 1 < w THEN P(1) ELSE 0) /\ Q(2) = (IF 2 < w THEN P(2) ELSE 0)
       /\ Q(3) = (IF 3 < w THEN P(3) ELSE 0) /\ Q(4) = (IF 4 < w THEN P(4) ELSE 0)
       /\ Q(5) = (IF 5 < w THEN P(5) ELSE 0) /\ Q(6) = (IF 6 < w THEN P(6) ELSE 0)
       /\ Q(7) = (IF 7 < w THEN P(7) ELSE 0)
  BY <1>7
<1>13. read_raw(new, loc) = B(0) + Q(1) + Q(2) + Q(3) + Q(4) + Q(5) + Q(6) + Q(7)
  BY <1>5
<1> HIDE DEF P, Q, R, B, D, new, w
<1>14. w = 1 \/ w = 2 \/ w = 3 \/ w = 4 \/ w = 5 \/ w = 6 \/ w = 7 \/ w = 8
  BY <1>1
<1>15. read_raw(new, loc) = R(w)
  BY <1>8, <1>9, <1>10, <1>11, <1>12, <1>13, <1>14
<1>16. QED
  BY <1>15 DEF R, new, w

\* The widths are even.
LEMMA WidthsAreEven ==
  ASSUME NEW k \in 1 .. 8
  PROVE  \E h \in Nat : Values[k] = 2 * h
<1>1. PICK h \in Nat : Byte = 2 * h
  <2>1. Byte \in Int /\ 2 \in Nat \ {0} /\ Byte % 2 = 0 /\ Byte >= 2
    BY ByteAssumption DEF ByteAssumption
  <2>2. Byte = 2 * (Byte \div 2) + 0 /\ Byte \div 2 \in Int
    BY <2>1, Divided
  <2>3. Byte \div 2 \in Nat
    BY <2>1, <2>2
  <2>4. QED
    BY <2>2, <2>3
<1>2. CASE k = 1
  BY <1>1, <1>2, ByteSizes
<1>3. CASE k # 1
  <2>1. k - 1 \in 1 .. 7 /\ (k - 1) + 1 = k /\ k - 1 \in 1 .. 8
    BY <1>3
  <2>2. PICK v \in Nat \ {0} : v = Values[k - 1] /\ Values[k] = v * Byte
    BY <2>1, ByteSizes
  <2>3. v * (2 * h) = 2 * (v * h) /\ v * h \in Nat
    BY Z3
  <2>4. QED
    BY <1>1, <2>2, <2>3, Zenon
<1>4. QED
  BY <1>2, <1>3

\* What sign_extend (debugger.rs:1882-1889) makes of the low bytes of an i64 is congruent to it,
\* and in the range of a C integer of that size.
LEMMA SignExtended ==
  ASSUME NEW n \in I64, NEW size \in Nat \ {0}, NEW w \in 1 .. 8, w = IF size < 8 THEN size ELSE 8,
         NEW b, b = sign_extend(u64(n) % Values[w], size)
  PROVE  /\ b \in Int
         /\ (n - b) % Values[w] = 0
         /\ size \in {1, 2, 4, 8} => 2 * b \in -Values[size] .. Values[size] - 1
<1>1. PICK V \in Nat \ {0}, h \in Nat : V = Values[w] /\ V = 2 * h
  BY ByteSizes, WidthsAreEven
<1>2. PICK d \in Nat \ {0} : Word = V * d
  BY <1>1, WidthsDivide
<1>3. n \in Int /\ Word \in Nat \ {0}
  BY WordSize DEF I64
<1>4. PICK k \in Int, u \in 0 .. Word - 1 : u = u64(n) /\ n = Word * k + u
  BY <1>3, Divided, Zenon DEF u64
<1>5. PICK q \in Int, x \in 0 .. V - 1 : x = u % V /\ u = V * q + x
  <2>1. u \in Int
    BY <1>3
  <2>2. QED
    BY <2>1, Divided, Zenon
<1>6. PICK c1 \in Int : c1 = d * k + q
  BY Z3
<1>7. n = V * c1 + x
  <2>1. (V * d) * k = V * (d * k)
    BY <1>2, Z3
  <2>2. V * (d * k + q) = V * (d * k) + V * q
    BY Z3
  <2>3. n = V * (d * k) + (V * q + x)
    BY <1>2, <1>4, <1>5, <2>1, Zenon
  <2>4. V * (d * k) \in Int /\ V * q \in Int
    BY Z3
  <2>5. QED
    BY <1>6, <2>2, <2>3, <2>4
<1>8. b = x \/ b = x - V \/ b = x - V * d
  <2>1. CASE size \in {1, 2, 4}
    <3>1. w = size
      BY <2>1
    <3>2. b = Wrap(x, V)
      BY <1>1, <1>4, <1>5, <2>1, <3>1 DEF sign_extend
    <3>3. x % V = x
      BY DivMod, 0 \in Int, x = 0 * V + x
    <3>4. QED
      BY <3>2, <3>3 DEF Wrap
  <2>2. CASE size \notin {1, 2, 4}
    <3>1. b = i64(x)
      BY <1>1, <1>4, <1>5, <2>2 DEF sign_extend
    <3>2. V <= Word
      BY <1>2, Z3
    <3>3. x \in 0 .. Word - 1 /\ x = 0 * Word + x
      BY <1>3, <3>2
    <3>4. x % Word = x
      BY <1>3, <3>3, DivMod
    <3>5. QED
      BY <1>2, <3>1, <3>4 DEF i64, Wrap
  <2>3. QED
    BY <2>1, <2>2
<1>9. \E c2 \in Int : n - b = c2 * V + 0
  <2>1. V * c1 \in Int /\ V * d \in Int /\ V * c1 = c1 * V
    BY Z3
  <2>2. (c1 + 1) * V = V * c1 + V /\ (c1 + d) * V = V * c1 + V * d
    BY Z3
  <2>3. c1 + 1 \in Int /\ c1 + d \in Int
    OBVIOUS
  <2>4. CASE b = x
    BY <1>7, <2>1, <2>4
  <2>5. CASE b = x - V
    <3>1. n - b = (c1 + 1) * V + 0
      BY <1>7, <2>1, <2>2, <2>5
    <3>2. QED
      BY <2>3, <3>1
  <2>6. CASE b = x - V * d
    <3>1. n - b = (c1 + d) * V + 0
      BY <1>7, <2>1, <2>2, <2>6
    <3>2. QED
      BY <2>3, <3>1
  <2>7. QED
    BY <1>8, <2>4, <2>5, <2>6
<1>10. (n - b) % V = 0
  BY <1>9, DivMod, 0 \in 0 .. V - 1
<1>11. b \in Int
  BY <1>2, <1>3, <1>8
<1>12. ASSUME size \in {1, 2, 4}
       PROVE  2 * b \in -V .. V - 1
  <2>1. w = size
    BY <1>12
  <2>2. b = Wrap(x, V)
    BY <1>1, <1>4, <1>5, <1>12, <2>1 DEF sign_extend
  <2>3. x % V = x
    BY DivMod, 0 \in Int, x = 0 * V + x
  <2>4. V \div 2 = h
    BY <1>1
  <2>5. b = IF x < h THEN x ELSE x - V
    BY <2>2, <2>3, <2>4 DEF Wrap
  <2>6. QED
    BY <1>1, <2>5
<1>13. ASSUME size = 8
       PROVE  2 * b \in -V .. V - 1
  <2>1. V = Word
    BY <1>1, <1>13, ByteSizes
  <2>2. b = i64(x)
    <3>1. size \notin {1, 2, 4}
      BY <1>13
    <3>2. QED
      BY <1>1, <1>4, <1>5, <3>1 DEF sign_extend
  <2>3. b \in I64
    BY <2>2, Wrapped
  <2>4. QED
    BY <2>1, <2>3, WordSize DEF I64
<1>14. QED
  <2>1. size \in {1, 2, 4, 8} => Values[size] = V
    <3>1. size \in {1, 2, 4, 8} => w = size
      OBVIOUS
    <3>2. QED
      BY <1>1, <3>1, Zenon
  <2>2. size \in {1, 2, 4, 8} => 2 * b \in -Values[size] .. Values[size] - 1
    BY <1>12, <1>13, <2>1
  <2>3. QED
    BY <1>1, <1>10, <1>11, <2>2

\* Integers and doubles as they are written.
LEMMA ValuesFit ==
  ASSUME NEW v, IsValue(v)
  PROVE  as_i64(v) \in I64 /\ as_f64(v) \in F64
<1>1. CASE v.kind = "Int" /\ v.n \in I64
  <2>1. as_i64(v) = v.n /\ as_f64(v) = widen(v.n)
    BY <1>1 DEF as_i64, as_f64
  <2>2. QED
    BY <1>1, <2>1, WidenedIsExact DEF Exact
<1>2. CASE v.kind = "Float" /\ v.f \in F64
  <2>1. as_i64(v) = truncate(v.f) /\ as_f64(v) = v.f
    BY <1>2 DEF as_i64, as_f64
  <2>2. QED
    BY <1>2, <2>1, TruncatedFits
<1>3. QED
  BY <1>1, <1>2 DEF IsValue

\* Reading the object gives the value, as its kind and its size allow.
ReadsAs(ctx, loc, v) ==
  LET read == read_typed(ctx, loc)
      back == read.value
  IN  /\ read.ok
      /\ IF loc.kind = "Float" THEN back.f = as_f64(v)
         ELSE /\ (as_i64(v) - back.n) % Values[Width(loc)] = 0
              /\ loc.size \in {1, 2, 4, 8} =>
                   2 * back.n \in -Values[loc.size] .. Values[loc.size] - 1

\* The object has changed to the value, and nothing else has.
ObjectSet(m, loc, v, ctx) ==
  /\ ctx.memory \in Space
  /\ \A a \in DOMAIN m : a \notin loc.address .. loc.address + loc.size - 1 => ctx.memory[a] = m[a]
  /\ Bytes(loc) \subseteq DOMAIN m => ReadsAs(ctx, loc, v)

\* `set' on an object in memory, and reading it back.
LEMMA MemoryIsExact ==
  ASSUME NEW m \in Space, NEW loc, IsPlace(loc), NEW v, IsValue(v), NEW ctx,
         ctx.memory = write_typed(m, loc, v)
  PROVE  ObjectSet(m, loc, v, ctx)
<1>1. as_i64(v) \in I64 /\ as_f64(v) \in F64
  BY ValuesFit
<1>2. PICK raw \in U64 : raw = IF loc.kind = "Float" THEN to_bits(as_f64(v)) ELSE u64(as_i64(v))
  <2>1. as_i64(v) \in Int
    BY <1>1, WordSize DEF I64
  <2>2. QED
    BY <1>1, <2>1, DoublesKeepTheirBits, Wrapped
<1>3. raw \in Nat /\ raw \in 0 .. Word - 1
  BY WordSize DEF U64
<1>4. ctx.memory = Stored(m, loc, raw)
  BY <1>2 DEF write_typed, Stored
<1>5. ctx.memory \in Space /\ DOMAIN ctx.memory = DOMAIN m
  BY <1>3, <1>4, ObjectWritten DEF Space
<1>6. \A a \in DOMAIN m : a \notin loc.address .. loc.address + loc.size - 1 => ctx.memory[a] = m[a]
  BY <1>3, <1>4, ObjectWritten
<1>7. ASSUME Bytes(loc) \subseteq DOMAIN m
      PROVE  ReadsAs(ctx, loc, v)
  <2>1. PICK x : x = read_raw(ctx.memory, loc) /\ x = raw % Values[Width(loc)]
    BY <1>3, <1>4, <1>7, ReadsBack
  <2>2. Width(loc) \in 1 .. 8 /\ Width(loc) = (IF loc.size < 8 THEN loc.size ELSE 8) /\ loc.size \in Nat \ {0}
    BY <1>3, ObjectWritten DEF Width, IsPlace
  <2>3. CASE loc.kind = "Float"
    <3>1. Width(loc) = 8
      BY <2>2, <2>3 DEF IsPlace
    <3>2. x = raw
      <4>1. Values[8] = Word /\ Word \in Nat \ {0} /\ raw = 0 * Word + raw /\ 0 \in Int
        BY <1>3, ByteSizes, WordSize
      <4>2. raw % Word = raw
        BY <1>3, <4>1, DivMod
      <4>3. QED
        BY <2>1, <3>1, <4>1, <4>2
    <3>3. from_bits(raw) = as_f64(v)
      BY <1>1, <1>2, <2>3, DoublesKeepTheirBits
    <3>4. read_typed(ctx, loc) = Done(FloatValue(from_bits(raw)))
      BY <1>5, <1>7, <2>1, <2>3, <3>2 DEF read_typed
    <3>5. QED
      BY <2>3, <3>3, <3>4 DEF Done, FloatValue, ReadsAs
  <2>4. CASE loc.kind # "Float"
    <3>1. PICK b : b = sign_extend(x, loc.size)
      OBVIOUS
    <3>2. read_typed(ctx, loc) = Done(IntValue(b))
      BY <1>5, <1>7, <2>1, <2>4, <3>1 DEF read_typed
    <3>3. read_typed(ctx, loc).ok /\ read_typed(ctx, loc).value.n = b
      BY <3>2 DEF Done, IntValue
    <3>4. x = u64(as_i64(v)) % Values[Width(loc)]
      BY <1>2, <2>1, <2>4
    <3>5. /\ (as_i64(v) - b) % Values[Width(loc)] = 0
          /\ loc.size \in {1, 2, 4, 8} => 2 * b \in -Values[loc.size] .. Values[loc.size] - 1
      BY <1>1, <2>2, <3>1, <3>4, SignExtended
    <3>6. QED
      BY <2>4, <3>3, <3>5 DEF ReadsAs
  <2>5. QED
    BY <2>3, <2>4
<1>8. QED
  BY <1>5, <1>6, <1>7 DEF ObjectSet

-----------------------------------------------------------------------------
(* Writing a register and reading it back.                                 *)

\* What an x87 register is given is in its 80 bits.
LEMMA EncodedFits ==
  ASSUME NEW f \in F64
  PROVE  encode_x87_extended(f) \in X87
<1>1. PICK sign \in {0, 1}, exp \in 0 .. Gap - 1, man \in 0 .. Fraction - 1 :
        f = [sign |-> sign, exp |-> exp, man |-> man]
  BY DEF F64
<1>2. PICK g \in 0 .. IntegerBit - 1 : g = man * Gap /\ (man = 0 => g = 0)
  <2>1. 0 \in 0 .. Gap - 1 /\ man * Gap \in Int
    BY Fields, Z3
  <2>2. man * Gap + 0 \in 0 .. Fraction * Gap - 1
    BY <2>1, Fields, Packed
  <2>3. Fraction * Gap = IntegerBit
    BY Fields, Z3 DEF IntegerBit
  <2>4. man = 0 => man * Gap = 0
    BY Fields, Z3
  <2>5. QED
    BY <2>1, <2>2, <2>3, <2>4
<1>3. \A e \in 0 .. ExtGap - 1 : sign * ExtGap + e \in 0 .. 2 * ExtGap - 1
  BY Fields, Signed
<1>4. /\ 0 \in U64 /\ IntegerBit + g \in U64 /\ IntegerBit + 0 \in U64
      /\ 0 \in 0 .. ExtGap - 1 /\ ExtGap - 1 \in 0 .. ExtGap - 1
  BY Fields DEF U64
<1>5. (exp - Bias + ExtBias) % ExtGap \in 0 .. ExtGap - 1
  <2>1. exp - Bias + ExtBias \in Int /\ ExtGap \in Nat \ {0}
    BY Fields
  <2>2. QED
    BY <2>1, Divided
<1>6. \A low \in U64, e \in 0 .. ExtGap - 1 : [low |-> low, high |-> sign * ExtGap + e] \in X87
  BY <1>3 DEF X87
<1>7. encode_x87_extended(f) =
        IF exp = 0 /\ man = 0 THEN [low |-> 0, high |-> sign * ExtGap + 0]
        ELSE IF exp = Gap - 1
        THEN [low |-> IntegerBit + (IF man = 0 THEN 0 ELSE man * Gap), high |-> sign * ExtGap + (ExtGap - 1)]
        ELSE [low |-> IntegerBit + man * Gap, high |-> sign * ExtGap + ((exp - Bias + ExtBias) % ExtGap)]
  BY <1>1 DEF encode_x87_extended
<1>8. IntegerBit + (IF man = 0 THEN 0 ELSE man * Gap) \in U64 /\ IntegerBit + man * Gap \in U64
  BY <1>2, <1>4
<1>9. QED
  BY <1>4, <1>5, <1>6, <1>7, <1>8

\* What the names of registers mean.
LEMMA RegistersNamed ==
  /\ DOMAIN St \cap DOMAIN Mm = {}
  /\ \A n \in DOMAIN St : St[n] \in 0 .. 1
  /\ \A n \in DOMAIN Mm : Mm[n] \in 0 .. 1
  /\ DOMAIN Fresh.regs.wide \cap DOMAIN Fresh.regs.narrow = {}
  /\ (DOMAIN Fresh.regs.wide \cup DOMAIN Fresh.regs.narrow) \cap (DOMAIN St \cup DOMAIN Mm) = {}
  BY FreshAssumption DEF FreshAssumption, St, Mm

\* What each name shows.
LEMMA RegisterShown ==
  ASSUME NEW r \in RegisterFile
  PROVE  /\ \A n \in DOMAIN St :
              register(r, n) = FloatValue(decode_x87_extended(r.fp[St[n]].low, r.fp[St[n]].high))
         /\ \A n \in DOMAIN Mm : register(r, n) = IntValue(i64(r.fp[Mm[n]].low))
         /\ \A n \in DOMAIN Fresh.regs.wide : register(r, n) = IntValue(i64(r.wide[n]))
         /\ \A n \in DOMAIN Fresh.regs.narrow : register(r, n) = IntValue(r.narrow[n])
         /\ \A n : Known(r, n) => n \in Names
<1>1. DOMAIN r.wide = DOMAIN Fresh.regs.wide /\ DOMAIN r.narrow = DOMAIN Fresh.regs.narrow
  BY DEF RegisterFile
<1>2. \A n \in DOMAIN St :
        register(r, n) = FloatValue(decode_x87_extended(r.fp[St[n]].low, r.fp[St[n]].high))
  <2>1. TAKE n \in DOMAIN St
  <2>2. n \notin DOMAIN Mm /\ n \notin DOMAIN r.wide /\ n \notin DOMAIN r.narrow
    BY <1>1, RegistersNamed
  <2>3. QED
    BY <2>2 DEF register
<1>3. \A n \in DOMAIN Mm : register(r, n) = IntValue(i64(r.fp[Mm[n]].low))
  <2>1. TAKE n \in DOMAIN Mm
  <2>2. n \notin DOMAIN St /\ n \notin DOMAIN r.wide /\ n \notin DOMAIN r.narrow
    BY <1>1, RegistersNamed
  <2>3. QED
    BY <2>2 DEF register
<1>4. \A n \in DOMAIN Fresh.regs.wide : register(r, n) = IntValue(i64(r.wide[n]))
  <2>1. TAKE n \in DOMAIN Fresh.regs.wide
  <2>2. n \in DOMAIN r.wide /\ n \notin DOMAIN St /\ n \notin DOMAIN Mm /\ n \notin DOMAIN r.narrow
    BY <1>1, RegistersNamed
  <2>3. QED
    BY <2>2 DEF register
<1>5. \A n \in DOMAIN Fresh.regs.narrow : register(r, n) = IntValue(r.narrow[n])
  <2>1. TAKE n \in DOMAIN Fresh.regs.narrow
  <2>2. n \in DOMAIN r.narrow /\ n \notin DOMAIN St /\ n \notin DOMAIN Mm /\ n \notin DOMAIN r.wide
    BY <1>1, RegistersNamed
  <2>3. QED
    BY <2>2 DEF register
<1>6. ASSUME NEW n, n \notin Names
      PROVE  ~Known(r, n)
  <2>1. n \notin DOMAIN St /\ n \notin DOMAIN Mm /\ n \notin DOMAIN r.wide /\ n \notin DOMAIN r.narrow
    BY <1>1, <1>6 DEF Names
  <2>2. QED
    BY <2>1 DEF register, Known
<1>7. QED
  BY <1>2, <1>3, <1>4, <1>5, <1>6

\* Nothing but the registers of these parts changes what a name shows.
LEMMA RegistersApart ==
  ASSUME NEW r \in RegisterFile, NEW new \in RegisterFile, NEW name \in Names,
         \/ /\ name \in DOMAIN St \cup DOMAIN Mm
            /\ new.wide = r.wide /\ new.narrow = r.narrow
            /\ \A i \in 0 .. 1 : i # (IF name \in DOMAIN St THEN St[name] ELSE Mm[name]) => new.fp[i] = r.fp[i]
         \/ /\ name \in DOMAIN Fresh.regs.wide
            /\ new.fp = r.fp /\ new.narrow = r.narrow
            /\ \A n \in DOMAIN Fresh.regs.wide : n # name => new.wide[n] = r.wide[n]
         \/ /\ name \in DOMAIN Fresh.regs.narrow
            /\ new.fp = r.fp /\ new.wide = r.wide
            /\ \A n \in DOMAIN Fresh.regs.narrow : n # name => new.narrow[n] = r.narrow[n]
  PROVE  \A n \in Names : SameRegister(n, name) \/ register(new, n) = register(r, n)
<1>1. SUFFICES ASSUME NEW n \in Names, ~SameRegister(n, name)
               PROVE  register(new, n) = register(r, n)
  OBVIOUS
<1>2. n # name
  BY <1>1 DEF SameRegister
<1>3. CASE n \in DOMAIN St
  <2>1. new.fp[St[n]] = r.fp[St[n]]
    <3>1. CASE name \in DOMAIN St
      <4>1. St[n] # St[name]
        BY <1>2, <1>3, <3>1 DEF St
      <4>2. QED
        BY <1>3, <3>1, <4>1, RegistersNamed
    <3>2. CASE name \in DOMAIN Mm
      <4>1. St[n] # Mm[name]
        BY <1>1, <1>3, <3>2 DEF SameRegister
      <4>2. QED
        BY <1>3, <3>2, <4>1, RegistersNamed
    <3>3. CASE name \notin DOMAIN St \cup DOMAIN Mm
      BY <3>3
    <3>4. QED
      BY <3>1, <3>2, <3>3
  <2>2. QED
    BY <1>3, <2>1, RegisterShown
<1>4. CASE n \in DOMAIN Mm
  <2>1. new.fp[Mm[n]] = r.fp[Mm[n]]
    <3>1. CASE name \in DOMAIN Mm
      <4>1. Mm[n] # Mm[name]
        BY <1>2, <1>4, <3>1 DEF Mm
      <4>2. QED
        BY <1>4, <3>1, <4>1, RegistersNamed
    <3>2. CASE name \in DOMAIN St
      <4>1. Mm[n] # St[name]
        BY <1>1, <1>4, <3>2 DEF SameRegister
      <4>2. QED
        BY <1>4, <3>2, <4>1, RegistersNamed
    <3>3. CASE name \notin DOMAIN St \cup DOMAIN Mm
      BY <3>3
    <3>4. QED
      BY <3>1, <3>2, <3>3
  <2>2. QED
    BY <1>4, <2>1, RegisterShown
<1>5. CASE n \in DOMAIN Fresh.regs.wide
  <2>1. new.wide[n] = r.wide[n]
    BY <1>2, <1>5, RegistersNamed
  <2>2. QED
    BY <1>5, <2>1, RegisterShown
<1>6. CASE n \in DOMAIN Fresh.regs.narrow
  <2>1. new.narrow[n] = r.narrow[n]
    BY <1>2, <1>6, RegistersNamed
  <2>2. QED
    BY <1>6, <2>1, RegisterShown
<1>7. QED
  BY <1>3, <1>4, <1>5, <1>6 DEF Names

\* The register holds the value.
HoldsIn(r, name, v) ==
  IF name \in DOMAIN St THEN HeldAs(as_f64(v), register(r, name))
  ELSE register(r, name) = IntValue(IF name \in DOMAIN Fresh.regs.narrow
                                    THEN as_i64(v) % Values[4] ELSE as_i64(v))

\* The register holds the value, and every other shows what it did.
RegisterSet(r, name, v, new) ==
  /\ new \in RegisterFile
  /\ HoldsIn(new, name, v)
  /\ \A n \in Names : SameRegister(n, name) \/ register(new, n) = register(r, n)

\* `set' on a register, and reading it back.
LEMMA RegisterIsExact ==
  ASSUME NEW r \in RegisterFile, NEW name \in Names, NEW v, IsValue(v),
         NEW new, new = write_register(r, name, v)
  PROVE  RegisterSet(r, name, v, new)
<1>1. as_i64(v) \in I64 /\ as_f64(v) \in F64
  BY ValuesFit
<1>2. as_i64(v) \in Int /\ u64(as_i64(v)) \in U64 /\ i64(u64(as_i64(v))) = as_i64(v)
  <2>1. as_i64(v) \in Int
    BY <1>1, WordSize DEF I64
  <2>2. QED
    BY <1>1, <2>1, Wrapped
<1>3. /\ DOMAIN r.wide = DOMAIN Fresh.regs.wide /\ DOMAIN r.narrow = DOMAIN Fresh.regs.narrow
      /\ r.fp \in [0 .. 1 -> X87] /\ r = [wide |-> r.wide, narrow |-> r.narrow, fp |-> r.fp]
  BY DEF RegisterFile
<1>4. CASE name \in DOMAIN St
  <2>1. PICK x \in X87 : x = encode_x87_extended(as_f64(v))
    BY <1>1, EncodedFits
  <2>2. name \notin DOMAIN Fresh.regs.wide /\ name \notin DOMAIN Fresh.regs.narrow /\ St[name] \in 0 .. 1
    BY <1>4, RegistersNamed
  <2>3. new = [r EXCEPT !.fp[St[name]] = x]
    <3>1. name \notin DOMAIN Mm /\ name \notin DOMAIN r.wide /\ name \notin DOMAIN r.narrow
      BY <1>3, <1>4, <2>2, RegistersNamed
    <3>2. QED
      BY <1>4, <2>1, <3>1 DEF write_register
  <2>4. /\ new.wide = r.wide /\ new.narrow = r.narrow /\ new.fp[St[name]] = x
        /\ \A i \in 0 .. 1 : i # St[name] => new.fp[i] = r.fp[i]
    BY <1>3, <2>2, <2>3
  <2>5. new \in RegisterFile
    BY <2>2, <2>3 DEF RegisterFile
  <2>6. register(new, name) = FloatValue(decode_x87_extended(x.low, x.high))
    BY <1>4, <2>4, <2>5, RegisterShown
  <2>7. HeldAs(as_f64(v), register(new, name))
    BY <2>1, <2>6, DoublesSurviveTheStack DEF HeldAs
  <2>8. \A n \in Names : SameRegister(n, name) \/ register(new, n) = register(r, n)
    BY <1>4, <2>4, <2>5, RegistersApart
  <2>9. QED
    BY <1>4, <2>5, <2>7, <2>8 DEF HoldsIn, RegisterSet
<1>5. CASE name \in DOMAIN Mm
  <2>1. PICK u \in U64 : u = u64(as_i64(v))
    BY <1>2
  <2>2. /\ name \notin DOMAIN St /\ name \notin DOMAIN Fresh.regs.wide
        /\ name \notin DOMAIN Fresh.regs.narrow /\ Mm[name] \in 0 .. 1
    BY <1>5, RegistersNamed
  <2>3. new = [r EXCEPT !.fp[Mm[name]].low = u]
    <3>1. name \notin DOMAIN r.wide /\ name \notin DOMAIN r.narrow
      BY <1>3, <2>2
    <3>2. QED
      BY <1>5, <2>1, <2>2, <3>1 DEF write_register
  <2>4. /\ new.wide = r.wide /\ new.narrow = r.narrow /\ new.fp[Mm[name]].low = u
        /\ \A i \in 0 .. 1 : i # Mm[name] => new.fp[i] = r.fp[i]
    BY <1>3, <2>2, <2>3
  <2>5. new \in RegisterFile
    <3>1. r.fp[Mm[name]] \in X87
      BY <1>3, <2>2
    <3>2. [r.fp[Mm[name]] EXCEPT !.low = u] \in X87
      BY <3>1 DEF X87
    <3>3. new = [r EXCEPT !.fp = [r.fp EXCEPT ![Mm[name]] = [r.fp[Mm[name]] EXCEPT !.low = u]]]
      BY <2>3
    <3>4. [r.fp EXCEPT ![Mm[name]] = [r.fp[Mm[name]] EXCEPT !.low = u]] \in [0 .. 1 -> X87]
      BY <1>3, <2>2, <3>2
    <3>5. QED
      BY <3>3, <3>4 DEF RegisterFile
  <2>6. register(new, name) = IntValue(as_i64(v))
    BY <1>2, <1>5, <2>1, <2>4, <2>5, RegisterShown
  <2>7. \A n \in Names : SameRegister(n, name) \/ register(new, n) = register(r, n)
    BY <1>5, <2>2, <2>4, <2>5, RegistersApart
  <2>8. QED
    BY <2>2, <2>5, <2>6, <2>7 DEF HoldsIn, RegisterSet
<1>6. CASE name \in DOMAIN Fresh.regs.wide
  <2>1. PICK u \in U64 : u = u64(as_i64(v))
    BY <1>2
  <2>2. /\ name \notin DOMAIN St /\ name \notin DOMAIN Mm
        /\ name \notin DOMAIN Fresh.regs.narrow /\ name \in DOMAIN r.wide
    BY <1>3, <1>6, RegistersNamed
  <2>3. new = [r EXCEPT !.wide[name] = u]
    <3>1. name \notin DOMAIN r.narrow
      BY <1>3, <2>2
    <3>2. QED
      BY <2>1, <2>2, <3>1 DEF write_register
  <2>4. /\ new.fp = r.fp /\ new.narrow = r.narrow /\ new.wide[name] = u
        /\ \A n \in DOMAIN Fresh.regs.wide : n # name => new.wide[n] = r.wide[n]
    BY <1>3, <2>2, <2>3
  <2>5. new \in RegisterFile
    BY <2>2, <2>3 DEF RegisterFile
  <2>6. register(new, name) = IntValue(as_i64(v))
    BY <1>2, <1>6, <2>1, <2>4, <2>5, RegisterShown
  <2>7. \A n \in Names : SameRegister(n, name) \/ register(new, n) = register(r, n)
    BY <1>6, <2>4, <2>5, RegistersApart
  <2>8. QED
    BY <2>2, <2>5, <2>6, <2>7 DEF HoldsIn, RegisterSet
<1>7. CASE name \in DOMAIN Fresh.regs.narrow
  <2>1. PICK u \in 0 .. Values[4] - 1 : u = as_i64(v) % Values[4]
    <3>1. Values[4] \in Nat \ {0}
      BY ByteSizes
    <3>2. QED
      BY <1>2, <3>1, Divided
  <2>2. /\ name \notin DOMAIN St /\ name \notin DOMAIN Mm
        /\ name \notin DOMAIN r.wide /\ name \in DOMAIN r.narrow
    BY <1>3, <1>7, RegistersNamed
  <2>3. new = [r EXCEPT !.narrow[name] = u]
    BY <2>1, <2>2 DEF write_register
  <2>4. /\ new.fp = r.fp /\ new.wide = r.wide /\ new.narrow[name] = u
        /\ \A n \in DOMAIN Fresh.regs.narrow : n # name => new.narrow[n] = r.narrow[n]
    BY <1>3, <2>2, <2>3
  <2>5. new \in RegisterFile
    BY <2>2, <2>3 DEF RegisterFile
  <2>6. register(new, name) = IntValue(as_i64(v) % Values[4])
    BY <1>7, <2>1, <2>4, <2>5, RegisterShown
  <2>7. \A n \in Names : SameRegister(n, name) \/ register(new, n) = register(r, n)
    BY <1>7, <2>4, <2>5, RegistersApart
  <2>8. QED
    BY <1>7, <2>2, <2>5, <2>6, <2>7 DEF HoldsIn, RegisterSet
<1>8. QED
  BY <1>4, <1>5, <1>6, <1>7 DEF Names

-----------------------------------------------------------------------------
(* The prompt.                                                             *)

Typed ==
  /\ process \in BOOLEAN
  /\ memory \in Space /\ regs \in RegisterFile
  /\ next_id \in Nat
  /\ breakpoints \subseteq
       [id : 1 .. next_id, address : DOMAIN Fresh.memory, original_byte : 0 .. Byte - 1]

\* What a `set' that is accepted writes.
LEMMA Assigned ==
  ASSUME EvaluatorTyped(Context), Typed, NEW text \in Assignments, set(text)
  PROVE  /\ memory' \in Space /\ regs' \in RegisterFile
         /\ UNCHANGED <<process, breakpoints, next_id>>
         /\ answer'.cmd = "set"
         /\ answer'.ok =>
              /\ IsValue(answer'.v)
              /\ \/ /\ answer'.loc.at = "memory" /\ IsPlace(answer'.loc)
                    /\ Bytes(answer'.loc) \subseteq DOMAIN memory
                    /\ memory' = write_typed(memory, answer'.loc, answer'.v) /\ regs' = regs
                 \/ /\ answer'.loc.at = "register" /\ answer'.loc.name \in Names
                    /\ memory' = memory /\ regs' = write_register(regs, answer'.loc.name, answer'.v)
<1> DEFINE plan == Plan(text, c)
<1>1. c \in Context
  BY DEF Typed, Context, c
<1>2. plan.ok => IsLocation(plan.value.loc) /\ IsValue(plan.value.v)
  BY <1>1 DEF EvaluatorTyped
<1>3. Perform(plan) /\ UNCHANGED <<process, breakpoints, next_id>>
  BY DEF set
<1> HIDE DEF plan
<1>4. CASE plan.ok /\ Writable(plan.value.loc)
  <2>1. PICK loc, v : loc = plan.value.loc /\ v = plan.value.v
    OBVIOUS
  <2>2. Write(loc, v) /\ IsLocation(loc) /\ IsValue(v) /\ Writable(loc)
    BY <1>2, <1>3, <1>4, <2>1 DEF Perform
  <2>3. answer'.cmd = "set" /\ answer'.ok /\ answer'.loc = loc /\ answer'.v = v
    BY <2>2 DEF Write
  <2>4. CASE loc.at = "memory"
    <3>1. IsPlace(loc) /\ Bytes(loc) \subseteq DOMAIN memory
      BY <2>2, <2>4 DEF IsLocation, Writable
    <3>2. memory' = write_typed(memory, loc, v) /\ regs' = regs
      BY <2>2, <2>4 DEF Write
    <3>3. memory' \in Space
      <4>1. PICK ctx : ctx = [memory |-> memory', regs |-> regs']
        OBVIOUS
      <4>2. ctx.memory = write_typed(memory, loc, v) /\ ctx.memory = memory'
        BY <3>2, <4>1
      <4>3. memory \in Space
        BY DEF Typed
      <4>4. ObjectSet(memory, loc, v, ctx)
        BY <2>2, <3>1, <4>2, <4>3, MemoryIsExact, Zenon
      <4>5. QED
        BY <4>2, <4>4 DEF ObjectSet
    <3>4. QED
      BY <1>3, <2>2, <2>3, <2>4, <3>1, <3>2, <3>3 DEF Typed
  <2>5. CASE loc.at = "register"
    <3>1. loc.name \in Names
      BY <2>2, <2>5, RegisterShown DEF Writable, Typed
    <3>2. memory' = memory /\ regs' = write_register(regs, loc.name, v)
      BY <2>2, <2>5 DEF Write
    <3>3. regs' \in RegisterFile
      BY <2>2, <3>1, <3>2, RegisterIsExact DEF Typed, RegisterSet
    <3>4. QED
      BY <1>3, <2>2, <2>3, <2>5, <3>1, <3>2, <3>3 DEF Typed
  <2>6. QED
    BY <2>2, <2>4, <2>5 DEF IsLocation
<1>5. CASE ~(plan.ok /\ Writable(plan.value.loc))
  <2>1. UNCHANGED <<memory, regs>> /\ answer' = [cmd |-> "set", ok |-> FALSE]
    BY <1>3, <1>5 DEF Perform
  <2>2. QED
    BY <1>3, <2>1 DEF Typed
<1>6. QED
  BY <1>4, <1>5

\* A breakpoint that is set is where its target settles, in memory.
LEMMA SetAt ==
  ASSUME NEW target, set_breakpoint(target)
  PROVE  LET a == resolve_target_address(target)
         IN  /\ a \in DOMAIN memory /\ BreakpointAt(a) = {}
             /\ breakpoints' = breakpoints \cup {[id |-> next_id + 1, address |-> a, original_byte |-> memory[a]]}
             /\ memory' = [memory EXCEPT ![a] = Int3]
             /\ next_id' = next_id + 1
             /\ answer' = [cmd |-> "break", target |-> target, address |-> a]
             /\ UNCHANGED <<process, regs>>
<1>1. PICK at : at = Settled(target) /\ at.ok
  BY Zenon DEF set_breakpoint
<1>2. /\ resolve_target_address(target) \in DOMAIN memory
      /\ Settled(target) = Done(resolve_target_address(target))
  <2>1. at # Refuse("cannot resolve")
    <3>1. Refuse("cannot resolve").ok = FALSE
      BY DEF Refuse
    <3>2. QED
      BY <1>1, <3>1, Zenon
  <2>2. QED
    BY <1>1, <2>1, Zenon DEF Settled
<1>3. Settled(target).value = resolve_target_address(target)
  <2>1. PICK a : a = resolve_target_address(target)
    OBVIOUS
  <2>2. Done(a).value = a
    BY DEF Done
  <2>3. QED
    BY <1>2, <2>1, <2>2, Zenon
<1>4. QED
  BY <1>2, <1>3, Zenon DEF set_breakpoint

LEMMA TypedStep ==
  ASSUME EvaluatorTyped(Context), Typed, [Next]_vars
  PROVE  Typed'
<1>1. CASE read_line
  BY <1>1 DEF read_line, Typed
<1>2. CASE run
  BY <1>2 DEF run, Typed
<1>3. CASE Show
  BY <1>3 DEF Show, print_expr, Typed, debuggee
<1>4. ASSUME NEW text \in Assignments, set(text)
      PROVE  Typed'
  BY <1>4, Assigned DEF Typed
<1>5. ASSUME NEW option, NEW value, set_print(option, value)
      PROVE  Typed'
  <2>1. UNCHANGED <<debuggee, breakpoints, next_id>>
    BY <1>5, Zenon DEF set_print
  <2>2. QED
    BY <2>1 DEF Typed, debuggee
<1>6. ASSUME NEW target, set_breakpoint(target)
      PROVE  Typed'
  <2>1. PICK a \in DOMAIN memory :
          /\ breakpoints' = breakpoints \cup {[id |-> next_id + 1, address |-> a, original_byte |-> memory[a]]}
          /\ memory' = [memory EXCEPT ![a] = Int3]
          /\ next_id' = next_id + 1
          /\ UNCHANGED <<process, regs>>
    BY <1>6, SetAt
  <2>2. memory[a] \in 0 .. Byte - 1 /\ a \in DOMAIN Fresh.memory
    BY <2>1 DEF Typed, Space
  <2>3. memory' \in Space
    BY <2>1, Int3Assumption DEF Typed, Space, Int3Assumption
  <2>4. [id |-> next_id + 1, address |-> a, original_byte |-> memory[a]]
          \in [id : 1 .. next_id + 1, address : DOMAIN Fresh.memory, original_byte : 0 .. Byte - 1]
    BY <2>2 DEF Typed
  <2>5. breakpoints \subseteq
          [id : 1 .. next_id + 1, address : DOMAIN Fresh.memory, original_byte : 0 .. Byte - 1]
    BY DEF Typed
  <2>6. QED
    BY <2>1, <2>3, <2>4, <2>5 DEF Typed
<1>7. ASSUME NEW b, delete(b)
      PROVE  Typed'
  <2>1. b \in breakpoints /\ b.address \in DOMAIN memory /\ b.original_byte \in 0 .. Byte - 1
    BY <1>7 DEF delete, Typed, Space
  <2>2. memory' \in Space
    BY <1>7, <2>1 DEF delete, Typed, Space
  <2>3. QED
    BY <1>7, <2>2 DEF delete, Typed
<1>8. ASSUME NEW target, NEW count, disassemble(target, count)
      PROVE  Typed'
  BY <1>8 DEF disassemble, Typed, debuggee
<1>9. CASE UNCHANGED vars
  BY <1>9 DEF vars, Typed
<1>10. QED
  BY <1>1, <1>2, <1>3, <1>4, <1>5, <1>6, <1>7, <1>8, <1>9 DEF Next

LEMMA TypedStart ==
  ASSUME Init
  PROVE  Typed
<1>1. Fresh.memory \in Space
  BY FreshAssumption DEF FreshAssumption, Space
<1>2. Fresh.regs \in RegisterFile
  BY FreshAssumption DEF FreshAssumption, RegisterFile, X87
<1>3. QED
  BY <1>1, <1>2 DEF Init, Typed

LEMMA TypedIsTypeOK ==
  ASSUME Typed
  PROVE  TypeOK
<1>1. DOMAIN memory = DOMAIN Fresh.memory /\ memory \in [DOMAIN Fresh.memory -> 0 .. Byte - 1]
  BY DEF Typed, Space
<1>2. /\ DOMAIN regs.wide = DOMAIN Fresh.regs.wide /\ Range(regs.wide) \subseteq U64
      /\ DOMAIN regs.narrow = DOMAIN Fresh.regs.narrow /\ Range(regs.narrow) \subseteq 0 .. Values[4] - 1
      /\ \A r \in Range(regs.fp) : r.low \in U64 /\ r.high \in 0 .. 2 * ExtGap - 1
  BY DEF Typed, RegisterFile, X87, Range
<1>3. \A b \in breakpoints : b.id \in 1 .. next_id /\ b.original_byte \in 0 .. Byte - 1
  BY DEF Typed
<1>4. QED
  BY <1>1, <1>2, <1>3 DEF Typed, TypeOK

\* For every debuggee, and every evaluator that keeps its types, memory stays bytes, registers
\* stay in their widths and what breakpoints saved are bytes (debugger.rs:576-595, 1247-1299).
THEOREM TypeCorrect ==
  ASSUME EvaluatorTyped(Context)
  PROVE  Spec => []TypeOK
<1>1. Init => Typed
  BY TypedStart
<1>2. Typed /\ [Next]_vars => Typed'
  BY TypedStep
<1>3. Typed => TypeOK
  BY TypedIsTypeOK
<1>4. QED
  BY <1>1, <1>2, <1>3, PTL DEF Spec

LEMMA SetStepIsExact ==
  ASSUME EvaluatorTyped(Context), Typed, [Next]_vars
  PROVE  [Exactly]_vars
<1>1. CASE UNCHANGED vars
  BY <1>1
<1>2. CASE read_line
  <2>1. answer'.cmd # "set"
    BY <1>2 DEF read_line, Idle
  <2>2. QED
    BY <2>1, Zenon DEF Exactly
<1>3. CASE run
  <2>1. answer'.cmd # "set"
    BY <1>3 DEF run
  <2>2. QED
    BY <2>1, Zenon DEF Exactly
<1>4. CASE Show
  <2>1. answer'.cmd # "set"
    BY <1>4 DEF Show, print_expr
  <2>2. QED
    BY <2>1, Zenon DEF Exactly
<1>5. ASSUME NEW text \in Assignments, set(text)
      PROVE  Exactly
  <2>1. CASE ~answer'.ok
    BY <2>1, Zenon DEF Exactly
  <2>2. CASE answer'.ok
    <3> DEFINE loc == answer'.loc
               v == answer'.v
               ctx == [memory |-> memory', regs |-> regs']
    <3>1. memory \in Space /\ regs \in RegisterFile
      BY DEF Typed
    <3>2. /\ IsValue(v)
          /\ \/ /\ loc.at = "memory" /\ IsPlace(loc) /\ Bytes(loc) \subseteq DOMAIN memory
                /\ memory' = write_typed(memory, loc, v) /\ regs' = regs
             \/ /\ loc.at = "register" /\ loc.name \in Names
                /\ memory' = memory /\ regs' = write_register(regs, loc.name, v)
      BY <1>5, <2>2, Assigned, Zenon
    <3>3. CASE loc.at = "memory"
      <4>1. /\ IsPlace(loc) /\ Bytes(loc) \subseteq DOMAIN memory
            /\ memory' = write_typed(memory, loc, v) /\ regs' = regs
        BY <3>2, <3>3
      <4>2. ctx.memory = memory' /\ ctx.memory = write_typed(memory, loc, v)
        BY <4>1
      <4>3. ObjectSet(memory, loc, v, ctx)
        <5> HIDE DEF loc, v, ctx
        <5>1. QED
          BY <3>1, <3>2, <4>1, <4>2, MemoryIsExact, Zenon
      <4>4. \A a \in DOMAIN memory : a \notin loc.address .. loc.address + loc.size - 1 => memory'[a] = memory[a]
        BY <4>2, <4>3, Zenon DEF ObjectSet
      <4>5. QED
        BY <3>3, <4>1, <4>3, <4>4, Zenon DEF Exactly, ObjectSet, ReadsAs
    <3>4. CASE loc.at # "memory"
      <4>1. loc.name \in Names /\ memory' = memory /\ regs' = write_register(regs, loc.name, v)
        BY <3>2, <3>4
      <4>2. RegisterSet(regs, loc.name, v, regs')
        <5> HIDE DEF loc, v
        <5>1. QED
          BY <3>1, <3>2, <4>1, RegisterIsExact, Zenon
      <4>3. DOMAIN regs.narrow = DOMAIN Fresh.regs.narrow /\ RegisterNames = Names
        BY DEF Typed, RegisterFile, RegisterNames, Names
      <4>4. QED
        BY <3>4, <4>1, <4>2, <4>3, Zenon DEF Exactly, RegisterSet, HoldsIn
    <3>5. QED
      BY <3>3, <3>4, Zenon
  <2>3. QED
    BY <2>1, <2>2
<1>6. ASSUME NEW option, NEW value, set_print(option, value)
      PROVE  Exactly
  <2>1. answer' = [cmd |-> "set_print"]
    BY <1>6, Zenon DEF set_print
  <2>2. answer'.cmd # "set"
    BY <2>1
  <2>3. QED
    BY <2>2, Zenon DEF Exactly
<1>7. ASSUME NEW target, set_breakpoint(target)
      PROVE  Exactly
  <2>1. answer'.cmd # "set"
    BY <1>7, SetAt
  <2>2. QED
    BY <2>1, Zenon DEF Exactly
<1>8. ASSUME NEW b, delete(b)
      PROVE  Exactly
  <2>1. answer'.cmd # "set"
    BY <1>8 DEF delete
  <2>2. QED
    BY <2>1, Zenon DEF Exactly
<1>9. ASSUME NEW target, NEW count, disassemble(target, count)
      PROVE  Exactly
  <2>1. answer'.cmd # "set"
    BY <1>9 DEF disassemble
  <2>2. QED
    BY <2>1, Zenon DEF Exactly
<1>10. QED
  BY <1>1, <1>2, <1>3, <1>4, <1>5, <1>6, <1>7, <1>8, <1>9 DEF Next

\* For every debuggee, width and format, and every evaluator that keeps its types, an accepted
\* `set' changes the object it names and nothing else, and reading that object gives the value
\* (debugger.rs:1247-1299, 1963-1993; process.rs:163-333).
THEOREM AssignmentsAreExact ==
  ASSUME EvaluatorTyped(Context)
  PROVE  Spec => SetIsExact
<1>1. Init => Typed
  BY TypedStart
<1>2. Typed /\ [Next]_vars => Typed'
  BY TypedStep
<1>3. Typed /\ [Next]_vars => [Exactly]_vars
  BY SetStepIsExact
<1>4. QED
  BY <1>1, <1>2, <1>3, PTL DEF Spec, SetIsExact

-----------------------------------------------------------------------------
(* Breakpoints.                                                            *)

\* Breakpoints are in memory, and no two at one address.
Placed ==
  /\ DOMAIN memory = DOMAIN Fresh.memory
  /\ \A b \in breakpoints : b.address \in DOMAIN Fresh.memory
  /\ \A a, b \in breakpoints : a.address = b.address => a = b

\* What a step leaves alone, by the command it answers.
Rests == UNCHANGED <<memory, breakpoints>>

\* The steps of the prompt as the breakpoints see them.
LEMMA StepKinds ==
  ASSUME [Next]_vars
  PROVE  \/ UNCHANGED vars
         \/ Rests /\ answer'.cmd \in {"none", "run", "print", "set_print"}
         \/ /\ DOMAIN memory' = DOMAIN memory /\ UNCHANGED breakpoints
            /\ answer'.cmd = "set"
         \/ \E target \in Targets : set_breakpoint(target)
         \/ \E b \in breakpoints : delete(b)
         \/ \E target \in Targets, count \in 1 .. 2 : disassemble(target, count)
<1>1. CASE read_line
  BY <1>1 DEF read_line, Idle, Rests
<1>2. CASE run
  BY <1>2 DEF run, Rests
<1>3. CASE Show
  <2>1. PICK text, fmt : print_expr(text, fmt)
    BY <1>3 DEF Show
  <2>2. Rests
    BY <2>1, Zenon DEF print_expr, debuggee, Rests
  <2>3. answer'.cmd = "print"
    BY <2>1 DEF print_expr
  <2>4. QED
    BY <2>2, <2>3
<1>4. ASSUME NEW text \in Assignments, set(text)
      PROVE  DOMAIN memory' = DOMAIN memory /\ UNCHANGED breakpoints /\ answer'.cmd = "set"
  <2> DEFINE plan == Plan(text, c)
  <2>1. Perform(plan) /\ UNCHANGED breakpoints
    BY <1>4 DEF set
  <2> HIDE DEF plan
  <2>2. CASE plan.ok /\ Writable(plan.value.loc)
    <3>1. PICK loc, v : Write(loc, v)
      BY <2>1, <2>2 DEF Perform
    <3>2. memory' = write_typed(memory, loc, v) \/ memory' = memory
      BY <3>1, Zenon DEF Write
    <3>3. DOMAIN memory' = DOMAIN memory
      BY <3>2 DEF write_typed
    <3>4. answer'.cmd = "set"
      BY <3>1 DEF Write
    <3>5. QED
      BY <2>1, <3>3, <3>4
  <2>3. CASE ~(plan.ok /\ Writable(plan.value.loc))
    <3>1. memory' = memory /\ answer' = [cmd |-> "set", ok |-> FALSE]
      BY <2>1, <2>3 DEF Perform
    <3>2. QED
      BY <2>1, <3>1
  <2>4. QED
    BY <2>2, <2>3
<1>5. ASSUME NEW option, NEW value, set_print(option, value)
      PROVE  Rests /\ answer'.cmd = "set_print"
  <2>1. Rests /\ answer' = [cmd |-> "set_print"]
    BY <1>5, Zenon DEF set_print, debuggee, Rests
  <2>2. QED
    BY <2>1
<1>6. QED
  BY <1>1, <1>2, <1>3, <1>4, <1>5, Zenon DEF Next

LEMMA PlacedStep ==
  ASSUME Placed, [Next]_vars
  PROVE  Placed'
<1>1. CASE UNCHANGED vars
  BY <1>1 DEF vars, Placed
<1>2. CASE DOMAIN memory' = DOMAIN memory /\ UNCHANGED breakpoints
  BY <1>2 DEF Placed
<1>3. ASSUME NEW target, set_breakpoint(target)
      PROVE  Placed'
  <2>1. PICK a \in DOMAIN memory :
          /\ BreakpointAt(a) = {}
          /\ breakpoints' = breakpoints \cup {[id |-> next_id + 1, address |-> a, original_byte |-> memory[a]]}
          /\ memory' = [memory EXCEPT ![a] = Int3]
    BY <1>3, SetAt
  <2>2. PICK new : /\ new.address = a /\ breakpoints' = breakpoints \cup {new}
    BY <2>1
  <2>3. \A b \in breakpoints : b.address # a
    BY <2>1 DEF BreakpointAt
  <2>4. DOMAIN memory' = DOMAIN memory
    BY <2>1
  <2>5. QED
    BY <2>2, <2>3, <2>4 DEF Placed
<1>4. ASSUME NEW b \in breakpoints, delete(b)
      PROVE  Placed'
  BY <1>4 DEF delete, Placed
<1>5. ASSUME NEW target, NEW count, disassemble(target, count)
      PROVE  Placed'
  BY <1>5 DEF disassemble, debuggee, Placed
<1>6. QED
  BY <1>1, <1>2, <1>3, <1>4, <1>5, StepKinds DEF Rests

LEMMA PlacedStart ==
  ASSUME Init
  PROVE  Placed
  BY DEF Init, Placed

LEMMA LandsStep ==
  ASSUME Table, GuessIsInside, Targets \subseteq Target, Placed, BreakpointsLandInside, [Next]_vars
  PROVE  BreakpointsLandInside'
<1>1. CASE UNCHANGED vars
  BY <1>1 DEF vars, BreakpointsLandInside
<1>2. CASE answer'.cmd # "break"
  BY <1>2, Zenon DEF BreakpointsLandInside
<1>3. ASSUME NEW target \in Targets, set_breakpoint(target)
      PROVE  BreakpointsLandInside'
  <2>1. PICK a : /\ a = resolve_target_address(target) /\ a \in DOMAIN memory
                 /\ answer' = [cmd |-> "break", target |-> target, address |-> a]
    BY <1>3, SetAt
  <2>2. a \in Nat
    BY <2>1, FreshAssumption DEF FreshAssumption, Placed
  <2>3. a # NotFound
    BY <2>2 DEF NotFound
  <2>4. target \in Target
    OBVIOUS
  <2>5. LandsInside(target, a)
    BY <2>1, <2>3, <2>4, ResolvedTargetsLand, Zenon
  <2>6. answer'.target = target /\ answer'.address = a
    BY <2>1
  <2>7. QED
    BY <2>5, <2>6, Zenon DEF BreakpointsLandInside
<1>4. ASSUME NEW b, delete(b)
      PROVE  answer'.cmd # "break"
  BY <1>4 DEF delete
<1>5. ASSUME NEW target, NEW count, disassemble(target, count)
      PROVE  answer'.cmd # "break"
  BY <1>5 DEF disassemble
<1>6. QED
  BY <1>1, <1>2, <1>3, <1>4, <1>5, StepKinds

\* For every line table and every debuggee, each breakpoint that is set on a function, a line or
\* an address is where LandsInside allows, whatever was typed before (debugger.rs:551-595,
\* symbols.rs:345-455), as long as no function begins where the guess for another one reaches.
THEOREM BreakpointsLand ==
  ASSUME Table, GuessIsInside, Targets \subseteq Target
  PROVE  Spec => []BreakpointsLandInside
<1>1. Init => Placed /\ BreakpointsLandInside
  <2>1. Init => answer.cmd # "break"
    BY DEF Init
  <2>2. QED
    BY PlacedStart, <2>1, Zenon DEF BreakpointsLandInside
<1>2. Placed /\ BreakpointsLandInside /\ [Next]_vars => (Placed /\ BreakpointsLandInside)'
  BY PlacedStep, LandsStep
<1>3. QED
  BY <1>1, <1>2, PTL DEF Spec

\* The byte of the program at an address.
LEMMA ProgramByte ==
  ASSUME Placed
  PROVE  /\ \A b \in breakpoints : Program(b.address) = b.original_byte
         /\ \A a : BreakpointAt(a) = {} => Program(a) = memory[a]
         /\ \A a, b \in breakpoints : a.address = b.address => a = b
<1>1. ASSUME NEW b \in breakpoints
      PROVE  Program(b.address) = b.original_byte
  <2>1. BreakpointAt(b.address) = {b}
    BY DEF Placed, BreakpointAt
  <2>2. (CHOOSE x \in {b} : TRUE) = b
    OBVIOUS
  <2>3. {b} # {}
    OBVIOUS
  <2>4. QED
    BY <2>1, <2>2, <2>3, Zenon DEF Program
<1>2. ASSUME NEW a, BreakpointAt(a) = {}
      PROVE  Program(a) = memory[a]
  BY <1>2, Zenon DEF Program
<1>3. QED
  BY <1>1, <1>2 DEF Placed

\* It depends on the breakpoints there and on memory.
LEMMA SameByte ==
  ASSUME NEW a, BreakpointAt(a)' = BreakpointAt(a), memory'[a] = memory[a]
  PROVE  Program(a)' = Program(a)
<1> DEFINE One(S) == (CHOOSE b \in S : TRUE).original_byte
<1>1. CASE BreakpointAt(a) = {}
  <2>1. BreakpointAt(a)' = {}
    BY <1>1
  <2>2. Program(a) = memory[a]
    BY <1>1, Zenon DEF Program
  <2>3. Program(a)' = memory'[a]
    BY <2>1, Zenon DEF Program
  <2>4. QED
    BY <2>2, <2>3
<1>2. CASE BreakpointAt(a) # {}
  <2>1. PICK S : S = BreakpointAt(a) /\ BreakpointAt(a)' = S /\ S # {}
    BY <1>2
  <2>2. Program(a) = One(BreakpointAt(a))
    BY <1>2, Zenon DEF Program
  <2>3. Program(a)' = One(BreakpointAt(a)')
    BY <2>1, Zenon DEF Program
  <2> HIDE DEF One
  <2>4. QED
    BY <2>1, <2>2, <2>3, Zenon
<1>3. QED
  BY <1>1, <1>2

\* Setting and deleting breakpoints changes bytes of memory, and no byte of the program.
SameProgram == answer'.cmd # "set" => \A a \in DOMAIN memory : Program(a)' = Program(a)
ProgramUntouched == [][SameProgram]_vars

LEMMA ProgramStep ==
  ASSUME Placed, [Next]_vars
  PROVE  [SameProgram]_vars
<1>1. CASE Rests
  <2>1. \A a : BreakpointAt(a)' = BreakpointAt(a) /\ memory'[a] = memory[a]
    BY <1>1 DEF BreakpointAt, Rests
  <2>2. \A a : Program(a)' = Program(a)
    BY <2>1, SameByte
  <2>3. QED
    BY <2>2, Zenon DEF SameProgram
<1>2. CASE answer'.cmd = "set"
  BY <1>2, Zenon DEF SameProgram
<1>3. ASSUME NEW target, set_breakpoint(target)
      PROVE  SameProgram
  <2>1. PICK at \in DOMAIN memory :
          /\ BreakpointAt(at) = {}
          /\ breakpoints' = breakpoints \cup {[id |-> next_id + 1, address |-> at, original_byte |-> memory[at]]}
          /\ memory' = [memory EXCEPT ![at] = Int3]
    BY <1>3, SetAt
  <2>2. PICK new : /\ new.address = at /\ new.original_byte = memory[at]
                   /\ breakpoints' = breakpoints \cup {new}
    BY <2>1
  <2>3. ASSUME NEW a \in DOMAIN memory
        PROVE  Program(a)' = Program(a)
    <3>1. CASE a = at
      <4>1. BreakpointAt(a)' = {new}
        BY <2>1, <2>2, <3>1 DEF BreakpointAt
      <4>2. (CHOOSE x \in {new} : TRUE) = new /\ {new} # {}
        OBVIOUS
      <4>3. Program(a)' = memory[at]
        BY <2>2, <4>1, <4>2, Zenon DEF Program
      <4>4. Program(a) = memory[at]
        BY <2>1, <3>1, Zenon DEF Program
      <4>5. QED
        BY <4>3, <4>4
    <3>2. CASE a # at
      <4>1. BreakpointAt(a)' = BreakpointAt(a)
        BY <2>2, <3>2 DEF BreakpointAt
      <4>2. memory'[a] = memory[a]
        BY <2>1, <3>2
      <4>3. QED
        BY <4>1, <4>2, SameByte
    <3>3. QED
      BY <3>1, <3>2
  <2>4. QED
    BY <2>3, Zenon DEF SameProgram
<1>4. ASSUME NEW b \in breakpoints, delete(b)
      PROVE  SameProgram
  <2>1. breakpoints' = breakpoints \ {b} /\ memory' = [memory EXCEPT ![b.address] = b.original_byte]
    BY <1>4, Zenon DEF delete
  <2>2. ASSUME NEW a \in DOMAIN memory
        PROVE  Program(a)' = Program(a)
    <3>1. CASE a = b.address
      <4>1. BreakpointAt(a)' = {}
        BY <2>1, <3>1, ProgramByte DEF BreakpointAt
      <4>2. memory'[a] = b.original_byte
        BY <2>1, <3>1
      <4>3. Program(a)' = b.original_byte
        BY <4>1, <4>2, Zenon DEF Program
      <4>4. Program(a) = b.original_byte
        BY <3>1, ProgramByte
      <4>5. QED
        BY <4>3, <4>4
    <3>2. CASE a # b.address
      <4>1. BreakpointAt(a)' = BreakpointAt(a)
        BY <2>1, <3>2 DEF BreakpointAt
      <4>2. memory'[a] = memory[a]
        BY <2>1, <3>2
      <4>3. QED
        BY <4>1, <4>2, SameByte
    <3>3. QED
      BY <3>1, <3>2
  <2>3. QED
    BY <2>2, Zenon DEF SameProgram
<1>5. ASSUME NEW target, NEW count, disassemble(target, count)
      PROVE  Rests
  BY <1>5, Zenon DEF disassemble, debuggee, Rests
<1>6. QED
  BY <1>1, <1>2, <1>3, <1>4, <1>5, StepKinds, Zenon

\* Breakpoints come and go without changing the program: the byte under each is kept on record
\* and is back when the breakpoint goes, whatever is typed in between; only `set' changes the
\* program (debugger.rs:194-208, 576-595; breakpoint.rs:36-68).
THEOREM BreakpointsKeepTheProgram == Spec => ProgramUntouched
<1>1. Init => Placed
  BY PlacedStart
<1>2. Placed /\ [Next]_vars => Placed'
  BY PlacedStep
<1>3. Placed /\ [Next]_vars => [SameProgram]_vars
  BY ProgramStep
<1>4. QED
  BY <1>1, <1>2, <1>3, PTL DEF Spec, ProgramUntouched

\* What disassemble shows is the program, if no breakpoint lies below the view.
ShowsProgramAbove ==
  (answer.cmd = "disassemble" /\ \A b \in breakpoints : b.address >= answer.address) =>
    \A k \in DOMAIN answer.view : answer.view[k] = Program(answer.address + k)

LEMMA ShowsStep ==
  ASSUME Placed, ShowsProgramAbove, [Next]_vars
  PROVE  ShowsProgramAbove'
<1>1. CASE UNCHANGED vars
  <2>1. answer' = answer /\ breakpoints' = breakpoints /\ memory' = memory
    BY <1>1 DEF vars
  <2>2. \A a : BreakpointAt(a)' = BreakpointAt(a)
    BY <2>1 DEF BreakpointAt
  <2>3. \A a : Program(a)' = Program(a)
    BY <2>1, <2>2, SameByte
  <2>4. QED
    BY <2>1, <2>3, Zenon DEF ShowsProgramAbove
<1>2. CASE answer'.cmd # "disassemble"
  BY <1>2, Zenon DEF ShowsProgramAbove
<1>3. ASSUME NEW target, NEW count, disassemble(target, count)
      PROVE  ShowsProgramAbove'
  <2>1. PICK at : at = Settled(target) /\ at.ok
    BY <1>3, Zenon DEF disassemble
  <2>2. at.value \in DOMAIN memory
    <3>1. at # Refuse("cannot resolve")
      <4>1. Refuse("cannot resolve").ok = FALSE
        BY DEF Refuse
      <4>2. QED
        BY <2>1, <4>1, Zenon
    <3>2. PICK a \in DOMAIN memory : at = Done(a)
      BY <2>1, <3>1, Zenon DEF Settled
    <3>3. QED
      BY <3>2 DEF Done
  <2>3. PICK a, n, view :
          /\ a \in Nat /\ view \in Views(a, n)
          /\ answer' = [cmd |-> "disassemble", address |-> a, view |-> view] /\ Rests
    <3>1. at.value \in Nat
      BY <2>2, FreshAssumption DEF FreshAssumption, Placed
    <3>2. QED
      BY <1>3, <2>1, <3>1, Zenon DEF disassemble, debuggee, Rests
  <2>4. SUFFICES ASSUME \A b \in breakpoints : b.address >= a, NEW k \in DOMAIN view
                 PROVE  view[k] = Program(a + k)'
    BY <2>3 DEF ShowsProgramAbove, Rests
  <2>5. Program(a + k)' = Program(a + k)
    <3>1. BreakpointAt(a + k)' = BreakpointAt(a + k) /\ memory'[a + k] = memory[a + k]
      BY <2>3 DEF BreakpointAt, Rests
    <3>2. QED
      BY <3>1, SameByte
  <2> DEFINE over == {b \in breakpoints : Offset(b, a) = k}
             seen == IF over = {} THEN {memory[a + k]} ELSE {b.original_byte : b \in over}
  <2>6. k \in 0 .. n - 1 /\ view[k] \in seen
    <3>1. /\ view \in [0 .. n - 1 -> 0 .. Byte - 1]
          /\ \A j \in 0 .. n - 1 :
               view[j] \in IF {b \in breakpoints : Offset(b, a) = j} = {} THEN {memory[a + j]}
                           ELSE {b.original_byte : b \in {x \in breakpoints : Offset(x, a) = j}}
      BY <2>3, Zenon DEF Views
    <3>2. k \in 0 .. n - 1
      BY <2>4, <3>1
    <3>3. QED
      BY <3>1, <3>2, Zenon
  <2>7. over = BreakpointAt(a + k)
    <3>1. ASSUME NEW b \in breakpoints
          PROVE  Offset(b, a) = k <=> b.address = a + k
      <4>1. b.address \in Nat /\ b.address >= a /\ k \in Int
        BY <2>4, <2>6, FreshAssumption DEF FreshAssumption, Placed
      <4>2. ~ b.address < a
        BY <2>3, <4>1
      <4>3. Offset(b, a) = b.address - a
        BY <4>2, Zenon DEF Offset
      <4>4. QED
        BY <2>3, <4>1, <4>3
    <3>2. QED
      BY <3>1 DEF BreakpointAt
  <2>8. CASE over = {}
    <3>1. view[k] = memory[a + k]
      BY <2>6, <2>8
    <3>2. Program(a + k) = memory[a + k]
      BY <2>7, <2>8, Zenon DEF Program
    <3>3. QED
      BY <2>5, <3>1, <3>2
  <2>9. CASE over # {}
    <3>1. PICK b \in over : view[k] = b.original_byte
      BY <2>6, <2>9
    <3>2. b \in breakpoints /\ b.address = a + k
      BY <2>7, <3>1 DEF BreakpointAt
    <3>3. Program(a + k) = b.original_byte
      BY <3>2, ProgramByte
    <3>4. QED
      BY <2>5, <3>1, <3>3
  <2>10. QED
    BY <2>8, <2>9
<1>4. ASSUME NEW target, set_breakpoint(target)
      PROVE  answer'.cmd # "disassemble"
  BY <1>4, SetAt
<1>5. ASSUME NEW b, delete(b)
      PROVE  answer'.cmd # "disassemble"
  BY <1>5 DEF delete
<1>6. QED
  BY <1>1, <1>2, <1>3, <1>4, <1>5, StepKinds

\* disassemble takes its breakpoints out of what it shows (debugger.rs:1076-1088), unless one
\* lies below the first address: the case the run Disassemble exhibits is the only one.
THEOREM DisassemblyIsTrueAbove == Spec => []ShowsProgramAbove
<1>1. Init => Placed /\ ShowsProgramAbove
  <2>1. Init => answer.cmd # "disassemble"
    BY DEF Init
  <2>2. QED
    BY PlacedStart, <2>1, Zenon DEF ShowsProgramAbove
<1>2. Placed /\ ShowsProgramAbove /\ [Next]_vars => (Placed /\ ShowsProgramAbove)'
  BY PlacedStep, ShowsStep
<1>3. QED
  BY <1>1, <1>2, PTL DEF Spec
=============================================================================
