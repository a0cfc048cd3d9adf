------------------------------ MODULE Printing ------------------------------
(***************************************************************************)
(* How values are shown (src/debugger.rs, format_print_expr to             *)
(* read_c_string) under the `set print' settings s. A text is a structure: *)
(* what two texts have in common as strings they have in common here.      *)
(***************************************************************************)
EXTENDS Expressions
LOCAL INSTANCE SequencesExt
LOCAL INSTANCE FiniteSetsExt

Formats == {"x", "d", "u", "o", "t", "c", "f", "a", "z"}

\* `set print pretty' spells out the type.
with_type_prefix(s, ty, text) == IF s.pretty THEN [type |-> ty, text |-> text] ELSE text

\* Bytes up to a NUL, max_len or what cannot be read; nothing if not one byte can be.
read_c_string(memory, address, max_len) ==
  LET Is(k) == address + k \in DOMAIN memory /\ memory[address + k] # 0
      n == CHOOSE k \in 0 .. max_len : (k = max_len \/ ~Is(k)) /\ \A j \in 0 .. k - 1 : Is(j)
  IN  [some |-> address \in DOMAIN memory, bytes |-> [k \in 1 .. n |-> memory[address + k - 1]]]

is_char_type(t) == Tag(t) = "Base" /\ Types[t].kind = "Int" /\ Types[t].size = 1
StringLimit(s) == Max({1, Min({s.elements, 4096})})

\* `z' pads to the digits of the object; `c' adds the character; the others differ in the base.
format_value_with_spec(v, fmt, size) ==
  LET n == as_i64(v)
  IN  CASE fmt = "d" -> [fmt |-> fmt, n |-> n]
        [] fmt = "c" -> [fmt |-> fmt, n |-> n, char |-> n % Byte]
        [] fmt = "f" -> [fmt |-> fmt, f |-> as_f64(v)]
        [] fmt = "z" -> [fmt |-> fmt, u |-> u64(n), digits |-> 2 * (IF size > 8 THEN 8 ELSE size)]
        [] OTHER -> [fmt |-> fmt, u |-> u64(n)]

NoLocation == [at |-> "none"]

\* A pointer to char brings its string, another one its symbol.
format_scalar(s, c, v, loc, fmt) ==
  LET typed == loc.at = "memory" /\ loc.ty # NoType
      pointer == v.kind = "Int" /\ typed /\ Tag(loc.ty) = "Pointer"
      string == read_c_string(c.memory, u64(v.n), StringLimit(s))
      IsString == pointer /\ v.n # 0 /\ is_char_type(Types[loc.ty].of) /\ string.some
  IN  IF fmt # "none"
      THEN format_value_with_spec(v, fmt, IF loc.at = "memory" THEN loc.size ELSE 4)
      ELSE IF IsString THEN [v |-> v, string |-> string.bytes]
      ELSE IF pointer THEN [v |-> v, symbol |-> s.address]
      ELSE [v |-> v]

IsAggregate(t) == Tag(t) \in {"UDT", "Array"}

\* The longest run of equal texts from i on.
RunLength(texts, i) ==
  Max({n \in 1 .. Len(texts) - i + 1 : \A k \in 1 .. n : texts[i + k - 1] = texts[i]})

Once(text) == [text |-> text, times |-> 1]

RECURSIVE collapse(_, _, _, _), collapse_marking_first(_, _, _, _)
\* A run that is taken for one element when it is stepped over.
collapse_marking_first(s, texts, i, parts) ==
  LET run == IF s.repeats = Unlimited THEN 1 ELSE RunLength(texts, i)
      more == IF run >= s.repeats THEN <<[text |-> texts[i], times |-> run, repeats |-> TRUE]>>
              ELSE [k \in 1 .. run |-> Once(texts[i])]
  IN  IF i > Len(texts) THEN [parts |-> parts, truncated |-> FALSE]
      ELSE IF Len(parts) >= s.elements THEN [parts |-> parts, truncated |-> TRUE]
      ELSE collapse_marking_first(s, texts, i + 1, parts \o more)

\* The loop of format_array over the texts of the elements. The limit is looked at before a
\* run, not inside it; a run shorter than `repeats' goes out whole.
collapse(s, texts, i, parts) ==
  LET run == IF s.repeats = Unlimited THEN 1 ELSE RunLength(texts, i)
      more == IF run >= s.repeats THEN <<[text |-> texts[i], times |-> run, repeats |-> TRUE]>>
              ELSE [k \in 1 .. run |-> Once(texts[i])]
  IN  IF i > Len(texts) THEN [parts |-> parts, truncated |-> FALSE]
      ELSE IF Len(parts) >= s.elements THEN [parts |-> parts, truncated |-> TRUE]
      ELSE collapse(s, texts, i + run, parts \o more)

RECURSIVE format_field(_, _, _, _, _)

ElementTexts(s, c, ty, address, fmt) ==
  LET size == Max({TypeSize(Types[ty].of), 1})
  IN  [i \in 1 .. Types[ty].count |-> format_field(s, c, Types[ty].of, address + (i - 1) * size, fmt)]

format_array(s, c, ty, address, fmt) == collapse(s, ElementTexts(s, c, ty, address, fmt), 1, <<>>)

\* Members in the order of declaration; the layout of `pretty' is left out.
format_struct(s, c, ty, address, fmt) ==
  [m \in Types[ty].members |->
     with_type_prefix(s, m.type, format_field(s, c, m.type, address + m.offset, fmt))]

format_aggregate(s, c, ty, address, fmt) ==
  IF Tag(ty) = "UDT" THEN format_struct(s, c, ty, address, fmt) ELSE format_array(s, c, ty, address, fmt)

format_field(s, c, ty, address, fmt) ==
  LET loc == Memory(address, type_meta(ty))
      v == read_typed(c, loc)
  IN  IF IsAggregate(ty) THEN format_aggregate(s, c, ty, address, fmt)
      ELSE IF v.ok THEN format_scalar(s, c, v.value, loc, fmt) ELSE [unreadable |-> TRUE]

\* An aggregate is shown by its members, anything else by its value.
format_evaluated(s, c, loc, v, fmt) ==
  LET ty == type_at(loc)
      Prefixed(text) == Done(IF ty = NoType THEN text ELSE with_type_prefix(s, ty, text))
  IN  IF IsAggregate(ty) THEN Prefixed(format_aggregate(s, c, ty, loc.value.address, fmt))
      ELSE IF v.ok THEN Prefixed(format_scalar(s, c, v.value, IF loc.ok THEN loc.value ELSE NoLocation, fmt))
      ELSE v

format_print_expr(s, e, c, fmt) == format_evaluated(s, c, eval_location(e, c), eval(e, c), fmt)

\* print/s: a pointer's value, an array's own address, or the value itself as the address.
string_address(e, loc, c) ==
  IF Tag(type_at(loc)) = "Array" THEN Done(loc.value.address)
  ELSE Bind(IF loc.ok /\ loc.value.at = "memory" THEN read_typed(c, loc.value) ELSE eval(e, c),
            LAMBDA v : Done(AddressOf(v)))

print_string(s, e, c) ==
  Bind(string_address(e, eval_location(e, c), c), LAMBDA address :
    Done([address |-> address, string |-> read_c_string(c.memory, address, StringLimit(s))]))
=============================================================================
