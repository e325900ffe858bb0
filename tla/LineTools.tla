------------------------------ MODULE LineTools ------------------------------
(* The line tools of lab2: zad1 copies a file without its empty lines, zad2   *)
(* counts a character and the lines that have it, each with read() in chunks  *)
(* (main_sys.c) and with the C library (main_lib.c).  A step is one pass of   *)
(* the loop that reads.  A chunk may end inside a line: the program goes back *)
(* to where that line begins.                                                 *)
EXTENDS Integers, Sequences, FiniteSets, FiniteSetsExt, SequencesExt

CONSTANTS
    Texts,          \* the input files: sequences of characters
    Sizes           \* buffer sizes

LineToolsAssumption == Sizes \subseteq Nat

Newline == "newline"
Blank == "blank"

VARIABLES
    tool,           \* "remove" and "remove_lib" (zad1), "count" (zad2)
    text,           \* the input file
    buffer_size,    \* an argument in zad1, a constant in zad2
    c,              \* the character to count
    position,       \* how far the file is read
    output,         \* the output file of zad1
    res,            \* the result of zad2
    done

arguments == <<tool, text, buffer_size, c>>
vars == <<arguments, position, output, res, done>>

Init ==
    /\ tool \in {"remove", "remove_lib", "count"}
    /\ text \in Texts /\ buffer_size \in Sizes
    /\ c \in {"x", Newline}
    /\ tool # "count" => c = "x"
    /\ tool = "remove_lib" => buffer_size = 0
    /\ tool = "count" => buffer_size > 0
    /\ position = 0 /\ output = <<>> /\ res = [chars |-> 0, lines |-> 0]
    /\ done = FALSE

-----------------------------------------------------------------------------
(* What read returns, and the buffer, where a short chunk gets a newline.     *)
Read == SubSeq(text, position + 1, Min({position + buffer_size, Len(text)}))

(* Not in the code: no newline is added.                                      *)
BufferAsRead == Read

Buffer == IF Len(Read) < buffer_size THEN Append(Read, Newline) ELSE Read

EndOfFile ==
    /\ ~done /\ done' = TRUE
    /\ CASE tool = "remove_lib" -> position = Len(text)
         [] OTHER -> Read = <<>>
    /\ UNCHANGED <<arguments, position, output, res>>

IsBlank(line) == ToSet(line) \subseteq {Blank, Newline}

(* The line at position to its newline or the end of the file: main_lib.c     *)
(* goes from line to line, main_sys.c does when no line ends in the buffer.   *)
CopyLine ==
    LET ends == {i \in position + 1 .. Len(text) : text[i] = Newline} \cup {Len(text)}
        line == SubSeq(text, position + 1, Min(ends))
    IN  /\ output' = IF IsBlank(line) THEN output ELSE output \o line
        /\ position' = Min(ends)

RemoveLib ==
    /\ tool = "remove_lib" /\ position < Len(text)
    /\ CopyLine
    /\ UNCHANGED <<arguments, res, done>>

(* Not in the code: an empty line is not passed over.                         *)
CopiedAfterEmpty(b) ==
    FoldLeft(LAMBDA s, i :
        CASE b[i] # Newline -> [s EXCEPT !.empty = @ /\ b[i] = Blank]
          [] OTHER -> [p |-> IF s.empty THEN s.p ELSE i, empty |-> TRUE,
                       out |-> IF s.empty THEN s.out ELSE s.out \o SubSeq(b, s.p + 1, i)],
        [p |-> 0, empty |-> TRUE, out |-> <<>>], [i \in DOMAIN b |-> i])

(* buffer_remove_empty: p is where the line under way begins, out the buffer  *)
(* to be written.                                                             *)
Copied(b) ==
    FoldLeft(LAMBDA s, i :
        CASE b[i] # Newline -> [s EXCEPT !.empty = @ /\ b[i] = Blank]
          [] OTHER -> [p |-> i, empty |-> TRUE,
                       out |-> IF s.empty THEN s.out ELSE s.out \o SubSeq(b, s.p + 1, i)],
        [p |-> 0, empty |-> TRUE, out |-> <<>>], [i \in DOMAIN b |-> i])

(* lseek: it fails, and changes nothing, before the beginning of the file.    *)
GoBack(p) ==
    LET to == position + Len(Read) + p - Len(Buffer)
    IN  position' = IF to < 0 THEN position + Len(Read) ELSE to

BufferRemove ==
    LET s == Copied(Buffer)
    IN  /\ tool = "remove" /\ Read # <<>>
        /\ IF s.p = 0 THEN CopyLine
           ELSE output' = output \o s.out /\ GoBack(s.p)
        /\ UNCHANGED <<arguments, res, done>>

(* count_char.  The comparison with c comes first: a newline that is to be    *)
(* counted ends no line.                                                      *)
Counted(b) ==
    FoldLeft(LAMBDA s, i :
        CASE b[i] = c -> [s EXCEPT !.here = @ + 1]
          [] b[i] # c /\ b[i] = Newline ->
                [p |-> i, here |-> 0, chars |-> s.chars + s.here,
                 lines |-> s.lines + (IF s.here > 0 THEN 1 ELSE 0)]
          [] OTHER -> s,
        [p |-> 0, here |-> 0, chars |-> res.chars, lines |-> res.lines],
        [i \in DOMAIN b |-> i])

CountPass ==
    LET s == Counted(Buffer)
    IN  /\ tool = "count" /\ Read # <<>>
        /\ res' = [chars |-> s.chars, lines |-> s.lines]
        /\ GoBack(s.p)
        /\ UNCHANGED <<arguments, output, done>>

Next == EndOfFile \/ RemoveLib \/ BufferRemove \/ CountPass

Spec == Init /\ [][Next]_vars
Fairness == WF_vars(Next)
FairSpec == Spec /\ Fairness

-----------------------------------------------------------------------------
(* Properties.                                                                *)

(* The characters of i's line, without the newline.                           *)
LineAt(i) ==
    {j \in DOMAIN text : /\ text[j] # Newline
                         /\ \A k \in Min({i, j}) .. Max({i, j}) - 1 : text[k] # Newline}

(* The characters of lines that are not blank, in their order.                *)
NotBlank ==
    LET Kept(i) == \E j \in LineAt(i) : text[j] # Blank
    IN  FoldLeft(LAMBDA s, i : IF Kept(i) THEN Append(s, text[i]) ELSE s,
                 <<>>, [i \in DOMAIN text |-> i])

Occurrences == {i \in DOMAIN text : text[i] = c}

(* Every line, with its newline or the end of the file, fits the buffer.      *)
LinesFit == \A i \in DOMAIN text : Cardinality(LineAt(i)) < buffer_size

(* The copy has exactly the lines with something in them, however the chunks  *)
(* cut them, but may get a last newline that the input has not.  The counts   *)
(* are right if the character is no newline: those are not counted at all.    *)
ResultIsRight ==
    done =>
        CASE tool = "remove_lib" -> output = NotBlank
          [] tool = "remove" -> buffer_size > 0 => output \in {NotBlank, Append(NotBlank, Newline)}
          [] tool = "count" ->
                res = IF c = Newline THEN [chars |-> 0, lines |-> 0]
                      ELSE [chars |-> Cardinality(Occurrences),
                            lines |-> Cardinality({LineAt(i) : i \in Occurrences})]

(* The copy always ends, and so does the count when all lines fit the buffer: *)
(* a line that does not sends the program back to where it was, for ever.     *)
ToolEnds == (tool = "count" => LinesFit /\ c # Newline) => <>done
===============================================================================
