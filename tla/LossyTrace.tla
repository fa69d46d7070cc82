------------------------------ MODULE LossyTrace ------------------------------
(***************************************************************************)
(* What the event pipeline promises of the events it accepts: one bounded  *)
(* first-in first-out line per queue, each event written once, in the      *)
(* order in which its thread pushed it.  An event may be refused (nothing  *)
(* happens), and everything still waiting may be lost when the process     *)
(* ends; nothing is duplicated, reordered or invented.                     *)
(***************************************************************************)
EXTENDS Naturals, Sequences

CONSTANTS Lines, Capacity, Item, Nothing

VARIABLES
  pending,     \* pending[q]: accepted on q, not yet written
  written      \* the last item written, with its line

Init ==
  /\ pending = [q \in Lines |-> <<>>]
  /\ written = Nothing

Accept(q, e) ==
  /\ Len(pending[q]) < Capacity
  /\ pending' = [pending EXCEPT ![q] = Append(@, e)]
  /\ UNCHANGED written

Write(q) ==
  /\ pending[q] # <<>>
  /\ written' = [q |-> q, rec |-> pending[q][1]]
  /\ pending' = [pending EXCEPT ![q] = SubSeq(@, 2, Len(@))]

Next == \E q \in Lines : Write(q) \/ \E e \in Item : Accept(q, e)

Spec == Init /\ [][Next]_<<pending, written>>
=============================================================================
