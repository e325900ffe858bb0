-------------------------------- MODULE Search --------------------------------
(* lab3/zad3: a search for a pattern in the text files of a directory tree.   *)
(* A process reads one directory and forks a child for each directory in it,  *)
(* without waiting for any.  What printf has put in the buffer of stdout is   *)
(* copied by fork; only on a terminal the buffer is written at each newline.  *)
EXTENDS Naturals, Sequences, FiniteSets, FiniteSetsExt

CONSTANTS
    Dirs, Root,     \* the directories, and the one to search
    Parent,         \* Parent[d]: the directory that d is in, for all but Root
    Above,          \* Above[d]: that one, the one it is in, and so on to Root
    Files,          \* the text files
    Place,          \* Place[f]: the directory that f is in
    Characters,
    Contents,       \* what may be in a file: sequences of characters
    Patterns,       \* the patterns to search for
    Depths          \* the third argument

SearchAssumption ==
    /\ IsFiniteSet(Dirs) /\ Root \in Dirs /\ Parent \in [Dirs \ {Root} -> Dirs]
    /\ Above \in [Dirs -> SUBSET Dirs] /\ Above[Root] = {}
    /\ \A d \in Dirs \ {Root} : Above[d] = Above[Parent[d]] \cup {Parent[d]}
    /\ \A d \in Dirs : d \notin Above[d]
    /\ Place \in [Files -> Dirs] /\ Files \cap Dirs = {}
    /\ Contents \cup Patterns \subseteq Seq(Characters)
    /\ Depths \subseteq Nat

VARIABLES
    tty,            \* whether stdout is a terminal
    content,        \* content[f]: what is in file f
    pattern, depth, \* the arguments
    process,        \* process[d]: the process that reads directory d
    printed,        \* printed[f]: how many times f has come out
    missed          \* the entries a call that failed has kept from being read

arguments == <<tty, content, pattern, depth>>
vars == <<arguments, process, printed, missed>>

NoLines == [f \in Files |-> 0]

(* A process: where it is, the entries readdir has still to return, the depth *)
(* left, the file it checks and how far, and its buffer of stdout.            *)
Entries(d) == {e \in Dirs \ {Root} : Parent[e] = d} \cup {f \in Files : Place[f] = d}
Reader(at, d, left, buffer) ==
    [at |-> at, left |-> left, file |-> d, position |-> 0, buffer |-> buffer,
     entries |-> Entries(d)]

Init ==
    /\ tty \in BOOLEAN /\ content \in [Files -> Contents]
    /\ pattern \in Patterns /\ depth \in Depths
    /\ process = [d \in Dirs |->
           Reader(IF d = Root THEN "reads" ELSE "none", d, depth, NoLines)]
    /\ printed = NoLines
    /\ missed = {}

-----------------------------------------------------------------------------
(* traverse                                                                   *)

Misses(d, lost) ==
    /\ process' = [process EXCEPT ![d].entries = @ \ lost]
    /\ missed' = missed \cup lost
    /\ UNCHANGED <<arguments, printed>>

(* opendir, before the first entry is read: the process comes to its end.     *)
OpenDirectoryFails(d) ==
    /\ process[d].at = "reads" /\ process[d].entries = Entries(d)
    /\ Misses(d, Entries(d))

SkipEntry(d, e) ==
    /\ process[d].at = "reads" /\ e \in process[d].entries \cap Dirs
    /\ process[d].left = 0
    /\ process' = [process EXCEPT ![d].entries = @ \ {e}]
    /\ UNCHANGED <<arguments, printed, missed>>

EnterDirectory(d, e) ==
    /\ process[d].at = "reads" /\ e \in process[d].entries \cap Dirs
    /\ process[d].left > 0
    /\ process' = [process EXCEPT
           ![d].entries = @ \ {e},
           ![e] = Reader("reads", e, process[d].left - 1, process[d].buffer)]
    /\ UNCHANGED <<arguments, printed, missed>>

(* fork returns -1, which is taken for the parent's return.                   *)
ForkFails(d, e) ==
    /\ process[d].at = "reads" /\ e \in process[d].entries \cap Dirs
    /\ process[d].left > 0
    /\ Misses(d, {e})

(* popen of is_text_file or fopen of check_file: error ends the process, with *)
(* entries it has not read yet.                                               *)
OpenFileFails(d, f) ==
    /\ process[d].at = "reads" /\ f \in process[d].entries \cap Files
    /\ Misses(d, process[d].entries)

OpenFile(d, f) ==
    /\ process[d].at = "reads" /\ f \in process[d].entries \cap Files
    /\ process' = [process EXCEPT ![d].entries = @ \ {f}, ![d].at = "checks",
                                  ![d].file = f, ![d].position = 0]
    /\ UNCHANGED <<arguments, printed, missed>>

(* check_file: fread of as many characters as the pattern has, and if they    *)
(* differ from it back to one behind where they began.                        *)
Window(d) ==
    LET text == content[process[d].file]
        from == process[d].position
    IN  SubSeq(text, from + 1, Min({from + Len(pattern), Len(text)}))

(* Not in the code: the file is read in pieces as long as the pattern.        *)
StepPattern == Len(pattern)

Step == 1

NextWindow(d) ==
    /\ process[d].at = "checks"
    /\ Len(Window(d)) = Len(pattern) /\ Window(d) # pattern
    /\ process' = [process EXCEPT ![d].position = @ + Step]
    /\ UNCHANGED <<arguments, printed, missed>>

NotFound(d) ==
    /\ process[d].at = "checks" /\ Len(Window(d)) < Len(pattern)
    /\ process' = [process EXCEPT ![d].at = "reads"]
    /\ UNCHANGED <<arguments, printed, missed>>

Found(d) ==
    LET f == process[d].file
        with == [process[d].buffer EXCEPT ![f] = @ + 1]
    IN  /\ process[d].at = "checks" /\ Window(d) = pattern
        /\ IF tty THEN printed' = [printed EXCEPT ![f] = @ + 1] ELSE UNCHANGED printed
        /\ process' = [process EXCEPT ![d].at = "reads",
                                      ![d].buffer = IF tty THEN @ ELSE with]
        /\ UNCHANGED <<arguments, missed>>

(* exit writes what is in the buffer.                                         *)
Exit(d) ==
    /\ process[d].at = "reads" /\ process[d].entries = {}
    /\ process' = [process EXCEPT ![d].at = "ended"]
    /\ printed' = [f \in Files |-> printed[f] + process[d].buffer[f]]
    /\ UNCHANGED <<arguments, missed>>

Next ==
    \E d \in Dirs :
        \/ OpenDirectoryFails(d)
        \/ \E e \in Dirs : EnterDirectory(d, e) \/ SkipEntry(d, e) \/ ForkFails(d, e)
        \/ \E f \in Files : OpenFile(d, f) \/ OpenFileFails(d, f)
        \/ NextWindow(d) \/ NotFound(d) \/ Found(d) \/ Exit(d)

Spec == Init /\ [][Next]_vars

-----------------------------------------------------------------------------
(* Properties.                                                                *)

IsInReach(d) == Cardinality(Above[d]) <= depth

HasPattern(f) ==
    \E i \in 0 .. Len(content[f]) - Len(pattern) :
        pattern = SubSeq(content[f], i + 1, i + Len(pattern))

(* A file can be read if no call has failed on the way to it.                 *)
IsMissed(f) == missed \cap ({f, Place[f]} \cup Above[Place[f]]) # {}

(* When all processes have ended each file down to the given depth that has   *)
(* the pattern, and that no opendir, fork, popen or fopen that failed has     *)
(* kept from being read, has come out, and no other: once on a terminal,      *)
(* otherwise once and again for any process forked below its directory with   *)
(* the line in its copy of the buffer.                                        *)
FoundIsPrinted ==
    (\A d \in Dirs : process[d].at \in {"none", "ended"}) =>
        \A f \in Files :
            LET Below == {d \in Dirs : IsInReach(d) /\ Place[f] \in Above[d]}
            IN  IF IsInReach(Place[f]) /\ HasPattern(f) /\ ~IsMissed(f)
                THEN printed[f] \in 1 .. 1 + (IF tty THEN 0 ELSE Cardinality(Below))
                ELSE printed[f] = 0
===============================================================================
