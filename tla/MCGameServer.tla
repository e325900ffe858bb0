---------------------------- MODULE MCGameServer ----------------------------
(* Instances of GameServer: ann, bob and cyd have names of their own, ann2 is *)
(* started with the name of ann.                                              *)
EXTENDS GameServer
CONSTANTS ann, ann2, bob, cyd, na, nb, nc
MCName == [x \in Clients |-> CASE x = bob -> nb [] x = cyd -> nc [] OTHER -> na]
==============================================================================
