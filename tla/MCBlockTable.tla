---------------------------- MODULE MCBlockTable ----------------------------
(* BlockTable with a file and small sizes, for what the option -r promises.  *)
EXTENDS BlockTable

NoLengths == <<>>
==============================================================================
