--------------------------------- MODULE Arr ---------------------------------
(***************************************************************************)
(* The circular array of the pizzeria (struct arr of lab7's helper.h) and  *)
(* the two functions that work on it.  The oven and the table are two such *)
(* arrays in shared memory.  Each function is cut in two, at the point     *)
(* where another process could see the array half updated.                 *)
(***************************************************************************)
EXTENDS Integers, Sequences

CONSTANTS ArrSize,    \* number of places in an array (ARR_SIZE)
          Pizzas,     \* the kinds of pizza a cook may choose
          NoPizza     \* the contents of a place nothing was ever stored in

ASSUME ArrSizeAssumption == ArrSize \in Nat \ {0}
ASSUME NoPizzaAssumption == NoPizza \notin Pizzas

Places == 0 .. ArrSize - 1

Arrs == [array : [Places -> Pizzas \cup {NoPizza}],
         count : Int, first : Places, last : Places]

EmptyArr == [array |-> [i \in Places |-> NoPizza],
             count |-> 0, first |-> 0, last |-> 0]

\* What the program means an array to hold, oldest pizza first.
Contents(a) == [i \in 1 .. a.count |-> a.array[(a.first + i - 1) % ArrSize]]

-------------------------------------------------------------------------------
(* add_to_arr: the pizza is written, then the indices move. *)

StoreLast(a, x) == [a EXCEPT !.array = [@ EXCEPT ![a.last] = x]]

AdvanceLast(a) ==
    [a EXCEPT !.last = (@ + 1) % ArrSize, !.count = @ + 1]

(* remove_from_arr: the pizza is read, then the indices move. *)

FirstOf(a) == a.array[a.first]

AdvanceFirst(a) ==
    [a EXCEPT !.first = (@ + 1) % ArrSize, !.count = @ - 1]
===============================================================================
