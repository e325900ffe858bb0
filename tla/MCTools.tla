------------------------------- MODULE MCTools -------------------------------
(* The programs that compute something and end, on small instances: each      *)
(* behaviour is of one of them, program, and leaves the others' variables.    *)
EXTENDS Negative, Integrals, Blocks, Searches, FiniteSetsExt, TLC

VARIABLE program

strips == <<width, n, i, files, failed, status>>
blocks == <<tableCreated, table, table_size, heap, temp, loop, option, options,
            tableStatus>>
search == <<tty, content, pattern, depth, process, printed, missed>>
toolVars == <<program, vars, strips, blocks, search>>

-----------------------------------------------------------------------------
(* Every width a / b up to 23 parts: the division leaves nothing, a little,   *)
(* or more than half a strip, and blocks of children end before, at and       *)
(* behind the last whole strip.                                               *)
AllWidths == {w \in (1 .. 7) \X (1 .. 23) : w[1] <= w[2]}

(* Negative numbers, sizes beyond the memory, ranges that begin before or end *)
(* behind the table or lack a number, and names that are empty or of no file. *)
SmallSizes == -1 .. 3
SmallRanges == {<<>>, <<1>>} \cup ({-1, 1, 2} \X (-1 .. 2))
NameLists == {<<"a">>, <<"none">>, <<"a", "none">>, <<"">>, <<"a", "">>}
NameLength(name) == CASE name = "a" -> 1 [] name = "none" -> 4 [] name = "" -> 0
ListLength == [names \in NameLists |->
                  MapThenSumSet(LAMBDA k : NameLength(names[k]), DOMAIN names)]

(* Two directories in the root, a third in one of them, a file in three of    *)
(* them; the pattern also begins where its first character stands twice.      *)
SmallDirs == {"d0", "d1", "d2", "d3"}
SmallParent == "d1" :> "d0" @@ "d2" :> "d1" @@ "d3" :> "d0"
SmallAbove == "d0" :> {} @@ "d1" :> {"d0"} @@ "d2" :> {"d0", "d1"} @@ "d3" :> {"d0"}
SmallFiles == {"f0", "f1", "f2"}
SmallPlace == "f0" :> "d0" @@ "f1" :> "d1" @@ "f2" :> "d2"
SmallContents == {<<"x", "x", "y">>, <<"x">>}
SmallPatterns == {<<"x", "y">>, <<>>}
SmallDepths == 0 .. 2

ASSUME ToolsAssumption ==
    Strips!IntegralAssumption /\ Lib!BlockTableAssumption /\ Tree!SearchAssumption

-----------------------------------------------------------------------------
NoNegative ==
    /\ mode = "none" /\ num_threads = 0 /\ input_image = <<>> /\ output_image = <<>>
    /\ todo = <<>> /\ created = 0 /\ joined = 0 /\ saved = FALSE
NoStrips ==
    /\ width = 0 /\ n = 0 /\ i = 0 /\ files = <<>> /\ failed = {} /\ status = "none"
NoBlocks ==
    /\ tableCreated = FALSE /\ table = <<>> /\ table_size = 0 /\ heap = {}
    /\ temp = "none" /\ loop = <<>> /\ option = <<>> /\ options = 0 /\ tableStatus = "none"
NoSearch ==
    /\ tty = FALSE /\ content = <<>> /\ pattern = <<>> /\ depth = 0
    /\ process = [d \in Dirs |-> [at |-> "idle"]] /\ printed = <<>>
    /\ missed = {}

ToolsInit ==
    \/ program = "negative" /\ Init /\ NoStrips /\ NoBlocks /\ NoSearch
    \/ program = "integral" /\ Strips!Init /\ NoNegative /\ NoBlocks /\ NoSearch
    \/ program = "blocks" /\ Lib!Init /\ NoNegative /\ NoStrips /\ NoSearch
    \/ program = "search" /\ Tree!Init /\ NoNegative /\ NoStrips /\ NoBlocks

ToolsNext ==
    \/ program = "negative" /\ Next /\ UNCHANGED <<program, strips, blocks, search>>
    \/ program = "integral" /\ Strips!Next /\ UNCHANGED <<program, vars, blocks, search>>
    \/ program = "blocks" /\ Lib!Next /\ UNCHANGED <<program, vars, strips, search>>
    \/ program = "search" /\ Tree!Next /\ UNCHANGED <<program, vars, strips, blocks>>

ToolsSpec == ToolsInit /\ [][ToolsNext]_toolVars
===============================================================================
