------------------------------ MODULE Integrals ------------------------------
(* Integral and what it promises, under names that can stand beside those of  *)
(* another program.                                                           *)
CONSTANTS Widths, MaxChildren
VARIABLES width, n, i, files, failed, status

Strips == INSTANCE Integral

(* The integral has every whole strip once, and what is left over once or, if *)
(* a block of another child than the last ends there, twice; unless an old    *)
(* file stands in for that of a child that has failed (lab3/zad2).            *)
StripsAreCounted == Strips!StripsAreCounted
===============================================================================
