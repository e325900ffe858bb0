------------------------------ MODULE Searches -------------------------------
(* Search and what it promises, under names that can stand beside those of    *)
(* another program.                                                           *)
CONSTANTS Dirs, Root, Parent, Above, TextFiles, Place, Characters, Contents,
          Patterns, Depths
VARIABLES tty, content, pattern, depth, process, printed, missed

Tree == INSTANCE Search WITH Files <- TextFiles

(* A file in reach that no failing call has kept from being read comes out    *)
(* exactly if the pattern is in it, and once on a terminal (lab3/zad3).       *)
FoundIsPrinted == Tree!FoundIsPrinted
==============================================================================
