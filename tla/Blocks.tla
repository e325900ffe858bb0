-------------------------------- MODULE Blocks --------------------------------
(* BlockTable and what it promises, under names that can stand beside those   *)
(* of another program.                                                        *)
CONSTANTS Sizes, Ranges, FileLists, Files, Length, Word, MaxTable, MaxOptions
VARIABLES
    tableCreated, table, table_size, heap, temp, loop, option, options, tableStatus

Lib == INSTANCE BlockTable WITH created <- tableCreated, status <- tableStatus

(* The heap has the blocks of the table, whatever the options (lab1/zad2).    *)
HeapIsTable == Lib!HeapIsTable
===============================================================================
