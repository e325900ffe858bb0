-------------------------------- MODULE Shell --------------------------------
(* The shell of lab5/zad1.  It starts a command of a pipeline, waits for it,  *)
(* then starts the next, and prints what the last has left in its pipe.       *)
(*                                                                            *)
(* Since every process waits for its only child, one process runs at a time:  *)
(* processes is a stack.  A child whose execvp fails is not stopped: it goes  *)
(* on in the loop of its parent, as a second shell that writes to a pipe.     *)
(* A descriptor table says what each number stands for, since the shell uses  *)
(* numbers of closed descriptors again.                                       *)
EXTENDS Naturals, Sequences, FiniteSets, SequencesExt, FiniteSetsExt

CONSTANTS
    Scripts,        \* the inputs: sequences of lines, a line is a pipeline
    PipeSize,       \* what a pipe holds
    MaxFd           \* bound: largest descriptor

(* What the commands of a script do: "gen" writes one unit of text, "big"     *)
(* more than a pipe holds, "copy" what it reads; "typo" does not exist.       *)
Commands == {"gen", "big", "copy", "typo"}

ShellAssumption ==
    /\ \A s \in Scripts : \A i \in DOMAIN s : s[i] \in Seq(Commands) \ {<<>>}
    /\ PipeSize \in Nat \ {0} /\ MaxFd \in Nat

VARIABLES
    script,         \* the input file and the commands it names
    pipes,          \* the contents of every pipe made so far
    processes,      \* the stack of processes, the running one on top
    screen          \* what has come out on the terminal

vars == <<script, pipes, processes, screen>>

(* A unit of text is the number of the line whose command wrote it.           *)
Announced == 0

Closed == [pipe |-> 0, end |-> "closed"]
Terminal == [pipe |-> 0, end |-> "terminal"]
InputFile == [pipe |-> 0, end |-> "file"]

Process(fds) == [at |-> "line", line |-> 1, k |-> 1, prev |-> <<0, 0>>,
                 current |-> <<0, 0>>, left |-> 0, fds |-> fds]

Init ==
    /\ script \in Scripts
    /\ pipes = <<>>
    /\ processes = <<Process([f \in 0 .. MaxFd |->
           IF f < 3 THEN Terminal ELSE IF f = 3 THEN InputFile ELSE Closed])>>
    /\ screen = <<>>

-----------------------------------------------------------------------------
(* Descriptors.                                                               *)

Nobody == [at |-> "ended"]
p == IF processes = <<>> THEN Nobody ELSE Last(processes)
Set(new) == processes' = [processes EXCEPT ![Len(processes)] = new]
Exit == processes' = Front(processes)

(* pipe(): the two lowest numbers that are free, the first for reading.  A    *)
(* process that has no two left would go beyond the bound.                    *)
Free(fds) == {f \in DOMAIN fds : fds[f] = Closed}
HasTwoFree(fds) == \E a, b \in Free(fds) : a # b
TwoFree(fds) == <<Min(Free(fds)), Min(Free(fds) \ {Min(Free(fds))})>>

Dup2(fds, from, to) ==
    IF fds[from] = Closed THEN fds ELSE [fds EXCEPT ![to] = fds[from]]
Close(fds, f) == [fds EXCEPT ![f] = Closed]

HasWriter(pipe) ==
    \E i \in DOMAIN processes, f \in 0 .. MaxFd :
        processes[i].fds[f] = [pipe |-> pipe, end |-> "write"]

(* What a process writes goes to the terminal, or into a pipe with room.      *)
CanWrite(end) == end.end # "terminal" => Len(pipes[end.pipe]) < PipeSize
Put(end, unit, contents) ==
    IF end.end = "terminal"
    THEN screen' = Append(screen, unit) /\ pipes' = contents
    ELSE pipes' = [contents EXCEPT ![end.pipe] = Append(@, unit)] /\ UNCHANGED screen

-----------------------------------------------------------------------------
(* The shell, and the children that have become one.                          *)

Line == script[p.line]

(* execute begins: it announces the line, makes a pipe and closes it: prev_fd *)
(* keeps the numbers.  At the end of the file the process exits.              *)
StartLine ==
    /\ p.at = "line" /\ p.line <= Len(script) /\ HasTwoFree(p.fds)
    /\ CanWrite(p.fds[1]) /\ Put(p.fds[1], Announced, pipes)
    /\ Set([p EXCEPT !.at = "component", !.k = 1, !.prev = TwoFree(p.fds)])
    /\ UNCHANGED script

EndOfFile ==
    /\ p.at = "line" /\ p.line > Len(script) /\ Exit
    /\ UNCHANGED <<script, pipes, screen>>

Fork ==
    /\ p.at = "component" /\ p.k <= Len(Line) /\ HasTwoFree(p.fds)
    /\ LET two == TwoFree(p.fds)
           new == Len(pipes) + 1
           parent == [p EXCEPT !.at = "wait", !.current = two,
                               !.fds[two[1]] = [pipe |-> new, end |-> "read"],
                               !.fds[two[2]] = [pipe |-> new, end |-> "write"]]
       IN  processes' = Append(Front(processes), parent)
                            \o <<[parent EXCEPT !.at = "exec"]>>
    /\ pipes' = Append(pipes, <<>>)
    /\ UNCHANGED <<script, screen>>

(* The child's descriptors and execvp, after which it runs the command.  When *)
(* that fails it goes on behind the if, at the wait for a child it has not.   *)
Exec ==
    /\ p.at = "exec"
    /\ LET stdin == Dup2(p.fds, p.prev[1], 0)
           stdout == Dup2(stdin, p.current[2], 1)
           fds == Close(Close(stdout, p.prev[2]), p.current[1])
           command == Line[p.k]
       IN  Set([p EXCEPT !.fds = fds,
                  !.at = IF command = "typo" THEN "wait" ELSE command,
                  !.left = IF command = "big" THEN PipeSize + 1 ELSE 1])
    /\ UNCHANGED <<script, pipes, screen>>

(* Not in the code: the shell keeps the end it would write to.                *)
ReapKeepsEnd ==
    /\ p.at = "wait"
    /\ Set([p EXCEPT !.at = "component", !.k = @ + 1, !.prev = p.current])
    /\ UNCHANGED <<script, pipes, screen>>

(* Not in the code: the next command reads the old pipe.                      *)
ReapKeepsPrev ==
    /\ p.at = "wait"
    /\ Set([p EXCEPT !.at = "component", !.k = @ + 1,
                     !.fds = Close(@, p.current[2])])
    /\ UNCHANGED <<script, pipes, screen>>

Reap ==
    /\ p.at = "wait"
    /\ Set([p EXCEPT !.at = "component", !.k = @ + 1, !.prev = p.current,
                     !.fds = Close(@, p.current[2])])
    /\ UNCHANGED <<script, pipes, screen>>

EndPipeline ==
    /\ p.at = "component" /\ p.k > Len(Line)
    /\ Set([p EXCEPT !.at = "print"])
    /\ UNCHANGED <<script, pipes, screen>>

(* The loop that prints: it ends at an error or at the end of the pipe, that  *)
(* is, when nobody has it open for writing.                                   *)
PrintUnit ==
    LET from == p.fds[p.current[1]]
    IN  /\ p.at = "print" /\ from # Closed /\ pipes[from.pipe] # <<>>
        /\ CanWrite(p.fds[1])
        /\ Put(p.fds[1], Head(pipes[from.pipe]),
               [pipes EXCEPT ![from.pipe] = Tail(@)])
        /\ UNCHANGED <<script, processes>>

(* Not in the code: the end to read from stays open.                          *)
EndOfPrintKeeps ==
    LET from == p.fds[p.current[1]]
    IN  /\ p.at = "print"
        /\ from # Closed => pipes[from.pipe] = <<>> /\ ~HasWriter(from.pipe)
        /\ Set([p EXCEPT !.at = "line", !.line = @ + 1])
        /\ UNCHANGED <<script, pipes, screen>>

EndOfPrint ==
    LET from == p.fds[p.current[1]]
    IN  /\ p.at = "print"
        /\ from # Closed => pipes[from.pipe] = <<>> /\ ~HasWriter(from.pipe)
        /\ Set([p EXCEPT !.at = "line", !.line = @ + 1,
                         !.fds = Close(@, p.current[1])])
        /\ UNCHANGED <<script, pipes, screen>>

-----------------------------------------------------------------------------
(* The commands.                                                              *)

Generate ==
    /\ p.at \in {"gen", "big"} /\ p.left > 0 /\ CanWrite(p.fds[1])
    /\ Put(p.fds[1], p.line, pipes)
    /\ Set([p EXCEPT !.left = @ - 1])
    /\ UNCHANGED script

Generated ==
    /\ p.at \in {"gen", "big"} /\ p.left = 0 /\ Exit
    /\ UNCHANGED <<script, pipes, screen>>

Copy ==
    LET from == p.fds[0].pipe
    IN  /\ p.at = "copy" /\ pipes[from] # <<>> /\ CanWrite(p.fds[1])
        /\ Put(p.fds[1], Head(pipes[from]), [pipes EXCEPT ![from] = Tail(@)])
        /\ UNCHANGED <<script, processes>>

Copied ==
    /\ p.at = "copy" /\ pipes[p.fds[0].pipe] = <<>> /\ ~HasWriter(p.fds[0].pipe)
    /\ Exit
    /\ UNCHANGED <<script, pipes, screen>>

Next ==
    \/ StartLine \/ EndOfFile \/ Fork \/ Exec \/ Reap \/ EndPipeline
    \/ PrintUnit \/ EndOfPrint \/ Generate \/ Generated \/ Copy \/ Copied

Spec == Init /\ [][Next]_vars

(* The process on top of the stack is the one that can run.                   *)
Fairness == WF_vars(Next)
FairSpec == Spec /\ Fairness

-----------------------------------------------------------------------------
(* Properties.                                                                *)

(* What a line prints: nothing the last command does not write or pass on.    *)
Units(i, command) == [u \in 1 .. (IF command = "big" THEN PipeSize + 1 ELSE 1) |-> i]
Result(i) ==
    LET line == script[i]
        writers == {k \in DOMAIN line : line[k] # "copy"}
    IN  IF writers = {} THEN <<>> ELSE Units(i, line[Max(writers)])
Printed(i) == <<Announced>> \o Result(i)

PrintedBefore(i) == FlattenSeq([j \in 1 .. i - 1 |-> Printed(j)])

HasTypo(i) == "typo" \in ToSet(script[i])
NoTypoBefore(i) == \A j \in 1 .. i - 1 : ~HasTypo(j)
Shell == processes[1]

(* Up to the first line with a name that does not exist the terminal shows    *)
(* each line and what the last of its commands makes of the outputs of the    *)
(* others, complete when the next line begins.  execute builds that from      *)
(* descriptor numbers it has closed and uses again.  After a line with such a *)
(* name lines may come twice, from the second shell and from the first, but   *)
(* none is left out or broken by another.                                     *)
PrintsResult ==
    processes # <<>> =>
        /\ Shell.line <= Len(script) /\ NoTypoBefore(Shell.line + 1)
               => IsPrefix(screen, PrintedBefore(Shell.line + 1))
        /\ Shell.at = "line" /\ NoTypoBefore(Shell.line)
               => screen = PrintedBefore(Shell.line)
        /\ \A i \in 1 .. Shell.line - 1 :
               ~HasTypo(i) => \E a, b \in 1 .. Len(screen) : SubSeq(screen, a, b) = Printed(i)

(* The outputs that a command passes on to the next, in the first lines.      *)
PassedOn(lines) == UNION {{i} \X (1 .. Len(script[i]) - 1) : i \in 1 .. lines}

(* Of a pipeline of n commands the shell keeps n - 1 descriptors open for     *)
(* ever, but only ends to read from: had it kept an end to write to, a later  *)
(* command would wait for the end of its input.                               *)
OnlyReadEndsLeak ==
    processes # <<>> /\ Shell.at = "line" =>
        LET kept == {f \in 4 .. MaxFd : Shell.fds[f] # Closed}
        IN  /\ \A f \in kept : Shell.fds[f].end = "read"
            /\ Cardinality(kept) = Cardinality(PassedOn(Shell.line - 1))

(* The shell comes to the end of its script unless a pipeline begins with a   *)
(* command that reads (it gets the pipe it writes to as its input), a command *)
(* writes more than a pipe holds (nobody reads before it ends), or a name     *)
(* that does not exist is not the last of all.                                *)
Ends ==
    \A i \in DOMAIN script :
        /\ script[i][1] # "copy" /\ "big" \notin ToSet(script[i])
        /\ \A k \in DOMAIN script[i] :
               script[i][k] = "typo" => i = Len(script) /\ k = Len(script[i])
ShellEnds == Ends => <>(processes = <<>>)
==============================================================================
