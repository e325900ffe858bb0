----------------------------- MODULE MCProcesses -----------------------------
(* The programs that wait for other processes, on small instances: each       *)
(* behaviour is of one of them, program; the others have ended, so that none  *)
(* of their actions is enabled.                                               *)
EXTENDS Signals, StartAndEnd, Pipelines

VARIABLES
    program,
    \* LineTools
    tool, text, buffer_size, c, position, output, res, done,
    \* Pizzeria
    sem, oven, table, pizza, pc

shell == <<script, pipes, processes, screen>>
launch == <<kind, owner, proc>>
lineTools == <<tool, text, buffer_size, c, position, output, res, done>>
kitchen == <<sem, oven, table, pizza, pc>>
processesVars == <<program, vars, shell, launch, lineTools, kitchen>>

-----------------------------------------------------------------------------
(* Two lines of one or two commands, or one line of three: a command finds    *)
(* the descriptors that one before it, and the line before, have left.        *)
PipelinesTo(k) == UNION {[1 .. j -> {"gen", "big", "copy", "typo"}] : j \in 1 .. k}
SmallScripts == [1 .. 2 -> PipelinesTo(2)] \cup [1 .. 1 -> PipelinesTo(3)]

(* A pizzeria with two workers, and another one that takes the same keys and  *)
(* names before, after or at the same time.                                   *)
WorkersOf == [m \in 1 .. 2 |-> IF m = 1 THEN 2 ELSE 0]

(* All texts of at most five characters, in buffers none, some and all of      *)
(* their lines fit.                                                           *)
SmallTexts == UNION {[1 .. k -> {"x", "blank", "newline"}] : k \in 0 .. 5}
Tools == INSTANCE LineTools WITH Texts <- SmallTexts, Sizes <- 0 .. 4

(* Two cooks and two deliverers compete for one place in the oven and on the  *)
(* table.                                                                     *)
Kitchen == INSTANCE Pizzeria WITH
    Cooks <- {"cook1", "cook2"}, Deliverers <- {"deliverer1", "deliverer2"},
    ArrSize <- 1, Pizzas <- {"pizza"}, NoPizza <- "none", n <- pizza

ASSUME ProcessesAssumption ==
    /\ TheShell!ShellAssumption /\ Shop!LaunchAssumption
    /\ Tools!LineToolsAssumption

-----------------------------------------------------------------------------
NoSignals ==
    /\ protocol = "none" /\ mode = "none" /\ n = 0
    /\ pending = [p \in Processes |-> [s \in Kinds |-> <<>>]]
    /\ stack = [p \in Processes |-> <<Frame("ended", {}, 0)>>]
    /\ sent = 0 /\ answered = 0 /\ counter = [p \in Processes |-> 0]
    /\ known = FALSE /\ early = FALSE
NoShell == script = <<>> /\ pipes = <<>> /\ processes = <<>> /\ screen = <<>>
NoLaunch ==
    /\ kind = "sysv" /\ owner = [x \in 1 .. 3 |-> 0]
    /\ proc = [p \in Shop!Procs |-> Shop!Process("ended")]
NoTool ==
    /\ tool = "none" /\ text = <<>> /\ buffer_size = 0 /\ c = "x" /\ position = 0
    /\ output = <<>> /\ res = [chars |-> 0, lines |-> 0] /\ done = TRUE
NoKitchen ==
    /\ sem = [s \in Kitchen!Semaphores |-> 0]
    /\ oven = Kitchen!EmptyArr /\ table = Kitchen!EmptyArr
    /\ pizza = [p \in Kitchen!Workers |-> "none"]
    /\ pc = [p \in Kitchen!Workers |-> "off"]

ProcessesInit ==
    \/ program = "signals" /\ Init /\ NoShell /\ NoLaunch /\ NoTool /\ NoKitchen
    \/ program = "shell" /\ TheShell!Init /\ NoSignals /\ NoLaunch /\ NoTool /\ NoKitchen
    \/ program = "launch" /\ Shop!Init /\ NoSignals /\ NoShell /\ NoTool /\ NoKitchen
    \/ program = "tools" /\ Tools!Init /\ NoSignals /\ NoShell /\ NoLaunch /\ NoKitchen
    \/ program = "kitchen" /\ Kitchen!Init /\ NoSignals /\ NoShell /\ NoLaunch /\ NoTool

ProcessesNext ==
    \/ Next /\ UNCHANGED <<program, shell, launch, lineTools, kitchen>>
    \/ TheShell!Next /\ UNCHANGED <<program, vars, launch, lineTools, kitchen>>
    \/ Shop!Next /\ UNCHANGED <<program, vars, shell, lineTools, kitchen>>
    \/ Tools!Next /\ UNCHANGED <<program, vars, shell, launch, kitchen>>
    \/ Kitchen!Next /\ UNCHANGED <<program, vars, shell, launch, lineTools>>

ProcessesSpec ==
    /\ ProcessesInit /\ [][ProcessesNext]_processesVars
    /\ Fairness /\ TheShell!Fairness /\ Shop!Fairness /\ Tools!Fairness
    /\ Kitchen!Fairness

-----------------------------------------------------------------------------
(* The terminal shows what the pipelines make, in their order (Shell).        *)
PrintsResult == program = "shell" => TheShell!PrintsResult

(* The shell comes to the end of a script it can run (Shell).                 *)
ShellEnds == program = "shell" => TheShell!ShellEnds

(* The workers end with the pizzerias, but for those main did not know of     *)
(* (Launch).                                                                  *)
WorkersEnd == program = "launch" => Shop!WorkersEnd

(* The copy has the lines that are not empty, the counts are right, wherever  *)
(* the chunks cut the lines (LineTools).                                      *)
ResultIsRight == program = "tools" => Tools!ResultIsRight

(* The tools end, but for the count of a file with a long line (LineTools).   *)
ToolEnds == program = "tools" => Tools!ToolEnds

(* With one place in oven and on table every cook and deliverer goes on       *)
(* (Pizzeria).                                                                *)
NobodyStarves == program = "kitchen" => Kitchen!NobodyStarves
==============================================================================
