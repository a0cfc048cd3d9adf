------------------------- MODULE LineTable_proofs -------------------------
(***************************************************************************)
(* Where break puts a breakpoint, for every line table.                    *)
(***************************************************************************)
EXTENDS LineTable, FiniteSetTheorems, WellFoundedInduction, TLAPS

\* A set of naturals has a least element, which Min picks.
LEMMA LeastOfNaturals ==
  ASSUME NEW S \in SUBSET Nat, S # {}
  PROVE  Min(S) \in S /\ \A y \in S : Min(S) <= y
<1> DEFINE below == {0 .. n : n \in S}
<1>1. below \subseteq FiniteSubsetsOf(Nat) /\ below # {}
  <2>1. ASSUME NEW n \in S PROVE 0 .. n \in FiniteSubsetsOf(Nat)
    BY FS_Interval DEF FiniteSubsetsOf
  <2> QED
    BY <2>1
<1>2. PICK b \in below : \A c \in below : ~(<<c, b>> \in StrictSubsetOrdering(Nat))
  BY <1>1, FS_StrictSubsetOrderingWellFounded, WFMin
<1>3. PICK x \in S : b = 0 .. x
  OBVIOUS
<1>4. ASSUME NEW y \in S PROVE x <= y
  <2>1. CASE y < x
    <3>1. 0 .. y \in below /\ 0 .. y \subseteq 0 .. x /\ 0 .. y # 0 .. x /\ 0 .. x \subseteq Nat
      BY <2>1
    <3> QED
      BY <1>2, <1>3, <3>1 DEF StrictSubsetOrdering
  <2> QED
    BY <2>1
<1> QED
  BY <1>4 DEF Min

-----------------------------------------------------------------------------

\* A line table and functions as dbghelp reports them.
Entry == [file : Seq(STRING), line : Nat, address : Nat]
Function == [entry : Nat, size : Nat]
Table ==
  /\ Lines \in Seq(Entry)
  /\ \A name \in DOMAIN Functions : Functions[name] \in Function
  /\ Reach \in Nat \ {0}

\* No function begins where skip_prologue still looks after one of unknown size.
GuessIsInside ==
  \A f, g \in Range(Functions) : f.size = 0 => g.entry \notin f.entry + 1 .. f.entry + Reach - 1

\* What the user may name.
Target ==
  [is : {"line"}, file : Seq(STRING), line : Nat] \cup [is : {"address"}, address : Nat]
    \cup [is : {"function"}, name : STRING]

LEMMA Entries ==
  ASSUME Table
  PROVE  /\ \A i \in DOMAIN Lines :
              i \in Nat /\ Lines[i].line \in Nat /\ Lines[i].address \in Nat
         /\ \A l \in Range(Lines) : l.line \in Nat /\ l.address \in Nat
<1>1. ASSUME NEW i \in DOMAIN Lines
      PROVE  i \in Nat /\ Lines[i].line \in Nat /\ Lines[i].address \in Nat
  <2>1. i \in Nat /\ Lines[i] \in Entry
    BY DEF Table
  <2> QED
    BY <2>1 DEF Entry
<1> QED
  BY <1>1 DEF Range

-----------------------------------------------------------------------------
(* file:line.                                                              *)

\* Where code of the file begins at line n or later.
Later(file, n) == {i \in DOMAIN Lines : file_matches(Lines[i].file, file) /\ Lines[i].line >= n}

\* Sorting and the two searches find the nearest line that has code.
LEMMA LineResolved ==
  ASSUME Table, NEW file, NEW n \in Nat, resolve_by_file_line(file, n) # NotFound
  PROVE  \E i \in Later(file, n) :
           /\ resolve_by_file_line(file, n) = Lines[i].address
           /\ \A j \in Later(file, n) : Lines[i].line <= Lines[j].line
<1> DEFINE known == Later(file, n)
           next == {i \in known : \A j \in known : Lines[i].line <= Lines[j].line}
           lines == {Lines[i].line : i \in known}
<1>1. known \subseteq DOMAIN Lines /\ known # {}
  BY DEF resolve_by_file_line, Later
<1>2. lines \in SUBSET Nat /\ lines # {}
  BY <1>1, Entries
<1>3. Min(lines) \in lines /\ \A m \in lines : Min(lines) <= m
  BY <1>2, LeastOfNaturals
<1>4. PICK i \in known : Lines[i].line = Min(lines)
  BY <1>3
<1>5. i \in next /\ next \in SUBSET Nat
  BY <1>1, <1>3, <1>4, Entries
<1>6. Min(next) \in next
  BY <1>5, LeastOfNaturals
<1>7. resolve_by_file_line(file, n) = Lines[Min(next)].address
  BY <1>1 DEF resolve_by_file_line, Later
<1> QED
  BY <1>6, <1>7

-----------------------------------------------------------------------------
(* A function's name.                                                      *)

\* Skipping the prologue does not leave the function.
LEMMA PrologueSkipped ==
  ASSUME Table, NEW f \in Function
  PROVE  LET a == skip_prologue(f.entry, f.size)
             size == IF f.size > 0 THEN f.size ELSE Reach
         IN  /\ a \in f.entry .. f.entry + size - 1
             /\ a = f.entry \/ \E l \in Range(Lines) : l.address = a
<1> DEFINE size == IF f.size > 0 THEN f.size ELSE Reach
           inside == {l \in Range(Lines) :
                        /\ f.entry < l.address /\ l.address < f.entry + size
                        /\ file_matches(l.file, Lines[LineAt(f.entry)].file)}
           addresses == {l.address : l \in inside}
           a == skip_prologue(f.entry, f.size)
<1>1. f.entry \in Nat /\ size \in Nat \ {0}
  BY DEF Function, Table
<1>2. a = IF LineAt(f.entry) = 0 \/ inside = {} THEN f.entry ELSE Min(addresses)
  BY DEF skip_prologue
<1>3. inside # {} => addresses \in SUBSET Nat /\ addresses # {}
  BY Entries
<1>4. inside # {} => Min(addresses) \in addresses
  BY <1>3, LeastOfNaturals
<1>5. CASE a = f.entry
  BY <1>1, <1>5
<1>6. CASE a \in addresses
  <2>1. PICK l \in Range(Lines) : a = l.address /\ f.entry < l.address /\ l.address < f.entry + size
    BY <1>6
  <2>2. l.address \in Nat
    BY Entries
  <2> HIDE DEF a, size
  <2>3. a \in f.entry .. f.entry + size - 1
    BY <1>1, <2>1, <2>2
  <2> QED
    BY <2>1, <2>3 DEF a, size
<1> QED
  BY <1>2, <1>4, <1>5, <1>6

-----------------------------------------------------------------------------
\* Whatever line table and functions dbghelp reports, a target that resolves does so to where
\* a breakpoint on it belongs: resolve_target_address never leaves the function or the line, if
\* no other function begins within Reach of one whose size is unknown.
THEOREM ResolvedTargetsLand ==
  ASSUME Table, GuessIsInside, NEW target \in Target, resolve_target_address(target) # NotFound
  PROVE  LandsInside(target, resolve_target_address(target))
<1> DEFINE address == resolve_target_address(target)
<1>1. CASE target.is = "line"
  <2>1. target.line \in Nat /\ address = resolve_by_file_line(target.file, target.line)
    BY <1>1 DEF Target, resolve_target_address
  <2>2. PICK i \in Later(target.file, target.line) :
          /\ address = Lines[i].address
          /\ \A j \in Later(target.file, target.line) : Lines[i].line <= Lines[j].line
    BY <2>1, LineResolved
  <2> DEFINE later == {l \in Range(Lines) : file_matches(l.file, target.file) /\ l.line >= target.line}
  <2>3. Lines[i] \in later /\ Lines[i].address = address
    BY <2>2 DEF Later, Range
  <2>4. \A k \in later : Lines[i].line <= k.line
    BY <2>2 DEF Later, Range
  <2> HIDE DEF address
  <2> QED
    BY <1>1, <2>3, <2>4 DEF LandsInside, address
<1>2. CASE target.is = "function"
  <2> DEFINE f == Functions[target.name]
  <2>1. target.name \in DOMAIN Functions /\ address = skip_prologue(f.entry, f.size)
    BY <1>2 DEF resolve_target_address, resolve_function_entry
  <2>2. f \in Function /\ f \in Range(Functions)
    BY <2>1 DEF Table, Range
  <2>3. f.entry \in Nat /\ f.size \in Nat /\ Reach \in Nat
    BY <2>2 DEF Function, Table
  <2>4. /\ address \in f.entry .. f.entry + (IF f.size > 0 THEN f.size ELSE Reach) - 1
        /\ address = f.entry \/ \E l \in Range(Lines) : l.address = address
    BY <2>1, <2>2, PrologueSkipped
  <2> HIDE DEF address, f
  <2>5. ASSUME f.size = 0, NEW g \in Range(Functions)
        PROVE  ~(f.entry < g.entry /\ g.entry <= address)
    <3>1. g.entry \in Nat
      BY DEF Table, Function, Range
    <3>2. g.entry \notin f.entry + 1 .. f.entry + Reach - 1
      BY <2>2, <2>5 DEF GuessIsInside
    <3> QED
      BY <2>3, <2>4, <2>5, <3>1, <3>2
  <2>6. f.entry <= address /\ (f.size > 0 => address < f.entry + f.size)
    BY <2>3, <2>4
  <2> QED
    BY <1>2, <2>3, <2>4, <2>5, <2>6 DEF LandsInside, address, f
<1>3. CASE target.is = "address"
  BY <1>3 DEF LandsInside
<1> QED
  BY <1>1, <1>2, <1>3 DEF Target
=============================================================================
