------------------------------ MODULE PizzaLine ------------------------------
(***************************************************************************)
(* What the pizzeria of lab7 promises: the oven and the table are bounded  *)
(* first-in first-out queues, every cook and every deliverer moves one     *)
(* pizza at a time, and each move is one indivisible step.  No shared      *)
(* memory, no indices, no semaphores.                                      *)
(***************************************************************************)
EXTENDS Naturals, Sequences

CONSTANTS Cooks, Deliverers, ArrSize, Pizzas, NoPizza

VARIABLES hand,       \* hand[w]: the pizza worker w carries, or NoPizza
          stage,      \* stage[w]: how far the worker's current pizza is
          inOven,     \* the pizzas in the oven, oldest first
          onTable     \* the pizzas on the table, oldest first

vars == <<hand, stage, inOven, onTable>>

Workers == Cooks \cup Deliverers

Init ==
    /\ hand = [w \in Workers |-> NoPizza]
    /\ stage = [w \in Workers |-> "idle"]
    /\ inOven = <<>>
    /\ onTable = <<>>

\* Worker w goes from stage s to stage t and then carries x.
Move(w, s, t, x) ==
    /\ stage[w] = s
    /\ stage' = [stage EXCEPT ![w] = t]
    /\ hand' = [hand EXCEPT ![w] = x]

Prepare(c) ==
    /\ \E x \in Pizzas : Move(c, "idle", "raw", x)
    /\ UNCHANGED <<inOven, onTable>>

PutInOven(c) ==
    /\ Len(inOven) < ArrSize
    /\ Move(c, "raw", "baking", NoPizza)
    /\ inOven' = Append(inOven, hand[c])
    /\ UNCHANGED onTable

\* The cook takes the oldest pizza, which another cook may have put there.
TakeFromOven(c) ==
    /\ inOven # <<>>
    /\ Move(c, "baking", "baked", Head(inOven))
    /\ inOven' = Tail(inOven)
    /\ UNCHANGED onTable

PutOnTable(c) ==
    /\ Len(onTable) < ArrSize
    /\ Move(c, "baked", "idle", NoPizza)
    /\ onTable' = Append(onTable, hand[c])
    /\ UNCHANGED inOven

TakeFromTable(d) ==
    /\ onTable # <<>>
    /\ Move(d, "idle", "baked", Head(onTable))
    /\ onTable' = Tail(onTable)
    /\ UNCHANGED inOven

Deliver(d) ==
    /\ Move(d, "baked", "idle", NoPizza)
    /\ UNCHANGED <<inOven, onTable>>

Cook(c) ==
    Prepare(c) \/ PutInOven(c) \/ TakeFromOven(c) \/ PutOnTable(c)

Deliverer(d) == TakeFromTable(d) \/ Deliver(d)

Next == (\E c \in Cooks : Cook(c)) \/ (\E d \in Deliverers : Deliverer(d))

Spec == Init /\ [][Next]_vars
===============================================================================
