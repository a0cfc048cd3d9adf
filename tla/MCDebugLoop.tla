----------------------------- MODULE MCDebugLoop -----------------------------
(***************************************************************************)
(* A small debuggee for DebugLoop: one loop that calls an allocator.       *)
(*                                                                         *)
(*   attach   the loader's own INT3, the first stop of every session       *)
(*   call     a call to malloc             (line 1)                        *)
(*   malloc   its entry, then body, tail, which returns to ret            *)
(*   ret      the return site of the call  (line 1)                        *)
(*   last     the next statement           (line 2), which goes on to      *)
(*            call, or through free to call                                *)
(***************************************************************************)
EXTENDS DebugLoop, TLC

CONSTANTS main, worker, handler, child, attach, call, malloc, body, tail, ret, last, free,
          root, other, b1

MCAddr == {attach, call, malloc, body, tail, ret, last, free}
MCFlow == [a \in MCAddr |->
             CASE a = attach -> {call}
               [] a = call   -> {malloc}
               [] a = malloc -> {body}
               [] a = body   -> {tail}
               [] a = tail   -> {ret}
               [] a = ret    -> {last}
               [] a = last   -> {call, free}
               [] a = free   -> {call}]
MCFall == [a \in {call} |-> ret]
MCLine == [a \in MCAddr |-> CASE a \in {call, ret} -> 1
                              [] a = last -> 2
                              [] OTHER -> None]
MCReturnSites == [a \in MCAddr |->
                    IF a \in {malloc, body, tail} THEN {ret}
                    ELSE IF a = free THEN {call} ELSE {}]
\* The same loop without the allocator, for runs with several threads.
ShortAddr == {attach, call, last}
ShortFlow == [a \in ShortAddr |-> IF a = call THEN {last} ELSE {call}]
NoReturn == [a \in ShortAddr |-> {}]
NoFall == [a \in {} |-> None]
MCHookKind == (malloc :> "alloc") @@ (free :> "free")
FreeOnly == free :> "free"
MCProcOf == [t \in Thread |-> IF t = child THEN other ELSE root]
NoHooks == [a \in {} |-> "alloc"]
=============================================================================
