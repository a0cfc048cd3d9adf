------------------------------ MODULE Objects ------------------------------
(***************************************************************************)
(* Typed access to the memory of the debuggee (src/debugger.rs, read_typed *)
(* and write_typed): an object has an address, a size and a kind, and at   *)
(* most 8 bytes of it are read or written.                                 *)
(***************************************************************************)
EXTENDS Registers

Width(loc) == IF loc.size < 8 THEN loc.size ELSE 8
Bytes(loc) == loc.address .. loc.address + Width(loc) - 1
ByteAt(raw, k) == (IF k = 0 THEN raw ELSE raw \div Values[k]) % Byte

\* from_le_bytes of a buffer of 8 bytes, zero beyond the object.
read_raw(memory, loc) ==
  LET B(k) == IF k < Width(loc) THEN memory[loc.address + k] ELSE 0
  IN  B(0) + B(1) * Values[1] + B(2) * Values[2] + B(3) * Values[3]
        + B(4) * Values[4] + B(5) * Values[5] + B(6) * Values[6] + B(7) * Values[7]

\* (A double is 8 bytes here; `float' is not modelled.)
read_typed(c, loc) ==
  IF ~ Bytes(loc) \subseteq DOMAIN c.memory THEN Refuse("cannot read memory")
  ELSE IF loc.kind = "Float" THEN Done(FloatValue(from_bits(read_raw(c.memory, loc))))
  ELSE Done(IntValue(sign_extend(read_raw(c.memory, loc), loc.size)))

\* Writing a whole word whatever the size of the object.
write_word(memory, loc, v) ==
  [a \in DOMAIN memory |->
     IF a \in loc.address .. loc.address + 7 THEN ByteAt(u64(as_i64(v)), a - loc.address) ELSE memory[a]]

write_typed(memory, loc, v) ==
  LET raw == IF loc.kind = "Float" THEN to_bits(as_f64(v)) ELSE u64(as_i64(v))
  IN  [a \in DOMAIN memory |-> IF a \in Bytes(loc) THEN ByteAt(raw, a - loc.address) ELSE memory[a]]
=============================================================================
