----------------------------- MODULE LineTable -----------------------------
(***************************************************************************)
(* From what the user names to an address (src/symbols.rs, resolve_* and   *)
(* skip_prologue; src/debugger.rs, resolve_target_address). A path is the   *)
(* sequence of its components.                                             *)
(***************************************************************************)
EXTENDS Integers, SequencesExt

CONSTANTS
  Lines,      \* the line table as dbghelp enumerates it: a sequence of [file, line, address]
  Functions,  \* name -> [entry, size], size 0 when unknown
  Reach       \* how far skip_prologue looks when the size is unknown (0x1000)

NotFound == -1

\* A query is the end of a path. (Case and the two separators are folded.)
file_matches(candidate, query) == IsSuffix(query, candidate)

\* Sorted by line, and in the order of the table within a line: the line, or the next that has code.
resolve_by_file_line(file, line) ==
  LET known == {i \in DOMAIN Lines : file_matches(Lines[i].file, file) /\ Lines[i].line >= line}
      next == {i \in known : \A j \in known : Lines[i].line <= Lines[j].line}
  IN  IF known = {} THEN NotFound ELSE Lines[Min(next)].address

\* The entry dbghelp finds for an address: the nearest at or before it.
LineAt(address) ==
  LET before == {i \in DOMAIN Lines : Lines[i].address <= address}
  IN  IF before = {} THEN 0
      ELSE CHOOSE i \in before : \A j \in before : Lines[j].address <= Lines[i].address

\* A search that does not stop at the end of the function.
skip_unbounded(entry, size) ==
  LET after == {l \in Range(Lines) : l.address > entry}
  IN  IF after = {} THEN entry ELSE Min({l.address : l \in after})

\* The first line entry of the file inside the function, or the entry itself.
skip_prologue(entry, size) ==
  LET limit == entry + (IF size > 0 THEN size ELSE Reach)
      inside == {l \in Range(Lines) : /\ entry < l.address /\ l.address < limit
                                      /\ file_matches(l.file, Lines[LineAt(entry)].file)}
  IN  IF LineAt(entry) = 0 \/ inside = {} THEN entry ELSE Min({l.address : l \in inside})

resolve_function_entry(name) ==
  IF name \in DOMAIN Functions THEN skip_prologue(Functions[name].entry, Functions[name].size)
  ELSE NotFound

\* "test.c:4", "0x1234" or "1234", "add": tried in this order.
resolve_target_address(target) ==
  CASE target.is = "line" -> resolve_by_file_line(target.file, target.line)
    [] target.is = "address" -> target.address
    [] target.is = "function" -> resolve_function_entry(target.name)

\* A breakpoint on a function belongs inside it, at its entry or where a line begins; one on a
\* line belongs where code of that line begins, or of the next line of the file that has any.
\* A function of unknown size ends before the next function begins, however far Reach goes.
LandsInside(target, address) ==
  LET here == {l \in Range(Lines) : l.address = address}
      later == {l \in Range(Lines) : file_matches(l.file, target.file) /\ l.line >= target.line}
      f == Functions[target.name]
      between == {g \in Range(Functions) : f.entry < g.entry /\ g.entry <= address}
  IN  /\ target.is = "function" =>
           /\ f.entry <= address
           /\ IF f.size > 0 THEN address < f.entry + f.size ELSE between = {}
           /\ address = f.entry \/ here # {}
      /\ target.is = "line" => \E l \in here \cap later : \A k \in later : l.line <= k.line
=============================================================================
