---------------------------- MODULE MCHookInstall ----------------------------
(***************************************************************************)
(* Small instances of HookInstall for TLC: fork and write share a page     *)
(* with open, close lies on a page of its own, exit on a sealed one.       *)
(***************************************************************************)
EXTENDS HookInstall

Functions == {"open", "fork", "write", "close", "exit"}

CodePages == {"A", "B", "S"}

Layout == [f \in Functions |-> CASE f = "close" -> "B" [] f = "exit" -> "S"
                                 [] OTHER -> "A"]

(* The two ends of what four instructions relocate to.                     *)
Lengths == [f \in Functions |-> IF f = "fork" THEN 112 ELSE 16]

(* close is asked for twice, exit twice on its sealed page.                *)
AllHooks == <<"open", "fork", "exit", "close", "exit", "write", "close">>
TwoHooks   == <<"open", "write">>
=============================================================================
