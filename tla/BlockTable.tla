------------------------------ MODULE BlockTable ------------------------------
(* The library of lab1 (lib.c, the same in zad1, zad2 and zad3) and the       *)
(* program around it: main.c, and main_dynamic.c, which loads the library.    *)
(* The table has pointers to blocks on the heap; an option of the command     *)
(* line saves the file "temp" in a block, or removes blocks.                  *)
(*                                                                            *)
(* A size_t is a number modulo Word: arguments are ints, and -1 becomes the   *)
(* largest.  A loop of an option is one step per call.  Timers are left out.  *)
EXTENDS Integers, Sequences, FiniteSets, FiniteSetsExt, SequencesExt, Functions

CONSTANTS
    Sizes,          \* arguments of create_table and save_block_n_times
    Ranges,         \* arguments of remove_m_blocks: <<m, index>> or fewer
    FileLists,      \* arguments of wc_files: names between commas, "" for none
    Files,          \* the files that exist
    Length,         \* Length[names]: length of all names in a list together
    Word,           \* bound: the number of values of size_t
    MaxTable,       \* bound: the largest table calloc has memory for
    MaxOptions      \* bound: options of a command line

BlockTableAssumption ==
    /\ Sizes \subseteq Int /\ Ranges \subseteq Seq(Int)
    /\ \A names \in FileLists : Len(names) \in Nat /\ Length[names] \in Nat
    /\ MaxOptions \in Nat /\ MaxTable \in Nat /\ Word \in Nat /\ MaxTable < Word

VARIABLES
    created,        \* whether table points to anything
    table,          \* table[i]: the block there, or Null
    table_size,
    heap,           \* the blocks that are allocated
    temp,           \* the file "temp": "none", "empty" or "counts"
    loop,           \* the calls the last option has still to make
    option,         \* the last option
    options,        \* how many there were
    status          \* of the process

pointers == <<created, table, table_size, heap>>
vars == <<pointers, temp, loop, option, options, status>>

Null == 0
NoLoop == [call |-> "none", i |-> 0, end |-> 0]
size_t(n) == n % Word

(* temp may be there from an earlier run.                                     *)
Init ==
    /\ created = FALSE /\ table = <<>> /\ table_size = 0 /\ heap = {}
    /\ temp \in {"none", "counts"}
    /\ loop = NoLoop /\ option = <<"none">> /\ options = 0 /\ status = "running"

-----------------------------------------------------------------------------
(* Options without a loop.                                                    *)

Idle == status = "running" /\ loop = NoLoop
Crash == status' = "crashed"

(* getopt_long has the next option.                                           *)
Option(o) ==
    /\ Idle /\ options < MaxOptions
    /\ option' = o /\ options' = options + 1

(* A table that exists is kept.  calloc gives none for a size it has no       *)
(* memory for, but table_size is set.                                         *)
create_table(size) ==
    /\ Option(<<"create_table", size>>)
    /\ IF created THEN UNCHANGED pointers
       ELSE /\ table_size' = size_t(size)
            /\ created' = (table_size' <= MaxTable)
            /\ table' = IF created' THEN [i \in 0 .. table_size' - 1 |-> Null] ELSE <<>>
            /\ UNCHANGED heap
    /\ UNCHANGED <<temp, loop, status>>

(* wc_files counts the commas, strtok skips empty names: for each of those    *)
(* wc_to_temp finds a null pointer.  Its buffer is for the command: "wc", a   *)
(* blank and a name for each file, " > temp" and the final zero.              *)
(* wc says something but for a single file that does not exist.               *)
Names(names) == Length[names] + Len(names)
BufferSize(names) == 10 + Names(names)
CommandSize(names) == 2 + Names(names) + 7 + 1

wc_files(names) ==
    /\ Option(<<"wc_files", names>>)
    /\ IF "" \in ToSet(names) THEN Crash /\ UNCHANGED temp
       ELSE /\ temp' = IF Len(names) = 1 /\ names[1] \notin Files THEN "empty" ELSE "counts"
            /\ status' = IF CommandSize(names) > BufferSize(names) THEN "overflow"
                                                                  ELSE status
    /\ UNCHANGED <<pointers, loop>>

(* The code of this option prints it.                                         *)
remove_block(index) ==
    /\ Option(<<"remove_block", index>>)
    /\ UNCHANGED <<pointers, temp, loop, status>>

(* A table that could not be made has a size, but no entries to read.         *)
NoEntries == ~created /\ table_size > 0

print_table ==
    /\ Option(<<"print_table">>)
    /\ IF NoEntries THEN Crash ELSE UNCHANGED status
    /\ UNCHANGED <<pointers, temp, loop>>

WrongOption ==
    /\ Option(<<"wrong">>) /\ status' = "failed"
    /\ UNCHANGED <<pointers, temp, loop>>

(* The end of main: free_table.                                               *)
End ==
    /\ Idle
    /\ IF NoEntries THEN Crash /\ UNCHANGED heap
       ELSE /\ heap' = heap \ Range(table)
            /\ status' = "exited"
    /\ UNCHANGED <<created, table, table_size, temp, loop, option, options>>

-----------------------------------------------------------------------------
(* Options with a loop.                                                       *)

Loops(call, from, end) == loop' = [call |-> call, i |-> from, end |-> end]

save_block_n_times(n) ==
    /\ Option(<<"save_block", n>>) /\ Loops("save", 0, size_t(n))
    /\ UNCHANGED <<pointers, temp, status>>

(* atoi of what strtok has not found crashes.                                 *)
remove_m_blocks(range) ==
    /\ Option(<<"remove_m_blocks", range>>)
    /\ IF Len(range) < 2 THEN Crash /\ UNCHANGED loop
       ELSE /\ Loops("delete", size_t(range[2]), size_t(range[1] + range[2]))
            /\ UNCHANGED status
    /\ UNCHANGED <<pointers, temp>>

Calls(call) ==
    /\ status = "running" /\ loop.call = call /\ loop.i < loop.end
    /\ loop' = [loop EXCEPT !.i = size_t(@ + 1)]
    /\ UNCHANGED <<created, table_size, temp, option, options>>

EndLoop ==
    /\ status = "running" /\ loop # NoLoop /\ loop.i >= loop.end
    /\ loop' = NoLoop
    /\ UNCHANGED <<pointers, temp, option, options, status>>

(* The block goes to the first empty place; fopen gives a null pointer when   *)
(* there is no file.  An empty file makes a block of size 0.                  *)
Empty == {i \in DOMAIN table : table[i] = Null}
save_block ==
    /\ Calls("save")
    /\ CASE Empty = {} -> UNCHANGED <<table, heap, status>>
         [] Empty # {} /\ temp = "none" -> Crash /\ UNCHANGED <<table, heap>>
         [] OTHER -> LET block == Min(1 .. Cardinality(heap) + 1 \ heap)
                     IN  /\ table' = [table EXCEPT ![Min(Empty)] = block]
                         /\ heap' = heap \cup {block}
                         /\ UNCHANGED status

(* Not in the code: the entry keeps the pointer.                              *)
delete_block_keeps ==
    /\ Calls("delete")
    /\ heap' = IF loop.i \in DOMAIN table THEN heap \ {table[loop.i]} ELSE heap
    /\ UNCHANGED <<table, status>>

delete_block ==
    /\ Calls("delete")
    /\ IF loop.i \in DOMAIN table
       THEN /\ heap' = heap \ {table[loop.i]}
            /\ table' = [table EXCEPT ![loop.i] = Null]
       ELSE UNCHANGED <<table, heap>>
    /\ UNCHANGED status

Next ==
    \/ \E n \in Sizes : create_table(n) \/ save_block_n_times(n) \/ remove_block(n)
    \/ \E range \in Ranges : remove_m_blocks(range)
    \/ \E names \in FileLists : wc_files(names)
    \/ print_table \/ WrongOption \/ End
    \/ save_block \/ delete_block \/ EndLoop

Spec == Init /\ [][Next]_vars

-----------------------------------------------------------------------------
(* Properties.                                                                *)

(* Every allocated block is in one entry of the table and every entry is      *)
(* allocated: nothing is lost or freed twice, whatever sizes and ranges the   *)
(* options give, and at the end everything is freed.  No command is longer    *)
(* than its buffer.                                                           *)
HeapIsTable ==
    LET full == {i \in DOMAIN table : table[i] # Null}
    IN  /\ status \in {"running", "crashed", "failed"} =>
               heap = {table[i] : i \in full} /\ Cardinality(heap) = Cardinality(full)
        /\ status = "exited" => heap = {}
        /\ created => DOMAIN table = 0 .. table_size - 1
        /\ status # "overflow"

(* After the option --remove_block the block with that number is gone.        *)
RemoveRemoves ==
    \A i \in DOMAIN table : option = <<"remove_block", i>> => table[i] = Null
===============================================================================
