----------------------------- MODULE MCNamedPipe -----------------------------
(* Instances of NamedPipe: producers p1, p2 and p3 with rows that are not in  *)
(* the order in which they start, as in test1 and test3 of lab5/zad3/main.c.  *)
EXTENDS NamedPipe
CONSTANTS p1, p2, p3
MCRow == [p \in Producers |-> CASE p = p1 -> 3 [] p = p2 -> 1 [] OTHER -> 2]
MCMessages == [p \in Producers |-> IF p = p1 THEN 2 ELSE 1]
==============================================================================
