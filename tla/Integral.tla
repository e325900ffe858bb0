------------------------------- MODULE Integral -------------------------------
(* lab3/zad2: the integral from 0 to 1 as a sum of strips of one width, which *)
(* main divides among child processes.  A child writes its sum to a file,     *)
(* main reads the files.  A sum is the bag of the strips in it; the width is  *)
(* a fraction, since only the rounding of a double is left out.               *)
EXTENDS Integers, FiniteSets

CONSTANTS
    Widths,         \* of a strip: pairs <<numerator, denominator>>
    MaxChildren     \* bound: children to start

IntegralAssumption ==
    /\ \A w \in Widths : w \in Nat \X Nat /\ 0 < w[1] /\ w[1] <= w[2]
    /\ MaxChildren \in Nat \ {0}

VARIABLES
    width, n,       \* the arguments
    i,              \* main's loop
    files,          \* w1.txt, ...: the strips in it, or Missing, or Stale
    failed,         \* history: children that have not written their file
    status          \* of main

vars == <<width, n, i, files, failed, status>>

Missing == {-1}
Stale == {-2}

(* The files of an earlier run may be there: only the tests remove them.      *)
Init ==
    /\ width \in Widths /\ n \in 1 .. MaxChildren
    /\ i = 0 /\ failed = {} /\ status = "divides"
    /\ \E old \in {Missing, Stale} : files = [k \in 1 .. n |-> old]

rectangles == width[2] \div width[1]

(* Not in the code: the division is rounded down.                             *)
BlockSizeDown == rectangles \div n

block_size == (rectangles \div n) + (IF rectangles % n > 0 THEN 1 ELSE 0)
block_start == i * block_size

(* The last block goes to one more strip, which is what the division of 1 by  *)
(* the width leaves over.                                                     *)
block_end ==
    LET end == (i + 1) * block_size
    IN  IF end = rectangles THEN end + 1 ELSE end

(* The loop of a child: it ends at the first strip that does not fit below 1. *)
Strips ==
    {k \in block_start .. block_end - 1 :
        block_start * width[1] < width[2] /\ k * width[1] <= width[2]}

Child ==
    /\ status = "divides" /\ i < n
    /\ i' = i + 1
    /\ files' = [files EXCEPT ![i + 1] = Strips]
    /\ UNCHANGED <<width, n, failed, status>>

(* fork or fopen fails: main goes on, since it only waits for the child.      *)
ChildFails ==
    /\ status = "divides" /\ i < n
    /\ i' = i + 1
    /\ failed' = failed \cup {i + 1}
    /\ UNCHANGED <<width, n, files, status>>

(* sum_results for all files; main ends with an error at one that is missing. *)
SumResults ==
    /\ status = "divides" /\ i = n
    /\ status' = IF \E k \in 1 .. n : files[k] = Missing THEN "error" ELSE "printed"
    /\ UNCHANGED <<width, n, i, files, failed>>

Next == Child \/ ChildFails \/ SumResults
Spec == Init /\ [][Next]_vars

-----------------------------------------------------------------------------
(* The result has every whole strip once.  What is left over between the last *)
(* and 1 it has once, but twice when a block of another child than the last   *)
(* ends where the whole strips do: the next one takes it again.  A strip can  *)
(* only be missing when a child has failed and an old file stands in for its. *)
StripsAreCounted ==
    LET Times(k) == Cardinality({child \in 1 .. n : k \in files[child]})
        IsLeft == rectangles * width[1] < width[2]
        Again == \E child \in 1 .. n - 1 : child * block_size = rectangles
    IN  status = "printed" =>
            \/ \E child \in failed : files[child] = Stale
            \/ /\ \A k \in 0 .. rectangles - 1 : Times(k) = 1
               /\ IsLeft => Times(rectangles) = IF Again THEN 2 ELSE 1
               /\ failed = {}
===============================================================================
