----------------------------- MODULE StartAndEnd -----------------------------
(* Launch, of both kinds, and what it promises, under names that can stand    *)
(* beside those of another program.                                           *)
CONSTANTS Mains, Staff
VARIABLES kind, owner, proc

Shop == INSTANCE Launch WITH Kinds <- {"sysv", "posix"}

(* Pizzerias that start and end past each other keep to their own objects and *)
(* leave none behind (main.c of lab7).                                        *)
OwnObjects == Shop!OwnObjects /\ Shop!NothingLeftBehind
===============================================================================
