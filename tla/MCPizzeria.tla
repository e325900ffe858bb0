----------------------------- MODULE MCPizzeria -----------------------------
(* Pizzeria on a small instance: processes of one kind are interchangeable. *)
EXTENDS Pizzeria, TLC

SameKind == Permutations(Cooks) \cup Permutations(Deliverers)
===============================================================================
