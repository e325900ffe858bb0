------------------------------- MODULE RowFile -------------------------------
(* The output file of a consumer (lab5/zad3/consumer.c): a file whose rows    *)
(* collect the text of the producers, one row for each.  A file is a sequence *)
(* of cells: the text of one message is one cell, a newline is the cell NL.   *)
EXTENDS Naturals, Sequences, SequencesExt

NL == <<>>

Newlines(file) == {i \in DOMAIN file : file[i] = NL}
RowsEnded(file) == Cardinality(Newlines(file))

(* Where row number row of file ends: its newline.                            *)
RowEnd(file, row) ==
    CHOOSE i \in Newlines(file) :
        Cardinality({j \in Newlines(file) : j <= i}) = row

(* Not in the code: the newlines are counted from the row before.             *)
SaveRowTooFar(file, row, text) ==
    IF row = 0 THEN file
    ELSE IF row <= RowsEnded(file)
    THEN InsertAt(file, RowEnd(file, row), text)
    ELSE file \o [i \in 1 .. row - RowsEnded(file) |-> NL] \o <<text>>

(* save: the text goes to the end of its row; a file with too few rows gets   *)
(* the missing newlines first.  Row 0 is none.                                *)
Save(file, row, text) ==
    IF row = 0 THEN file
    ELSE IF row <= RowsEnded(file)
    THEN InsertAt(file, RowEnd(file, row), text)
    ELSE file \o [i \in 1 .. row - 1 - RowsEnded(file) |-> NL] \o <<text>>

(* A write of cells at the start of file: what lies beyond them stays.        *)
Overwrite(file, cells) ==
    cells \o SubSeq(file, Len(cells) + 1, Len(file))

(* What a reader finds in a row: the cells between two newlines.              *)
RowOf(file, row) ==
    LET isRow(i) == file[i] # NL
                    /\ Cardinality({j \in Newlines(file) : j < i}) = row - 1
        cells == {i \in DOMAIN file : isRow(i)}
    IN  [k \in 1 .. Cardinality(cells) |->
            file[CHOOSE i \in cells : Cardinality({j \in cells : j <= i}) = k]]

(* The file as a whole: row r holds exactly the texts want[r], in order.      *)
Holds(file, want) == \A row \in DOMAIN want : RowOf(file, row) = want[row]
==============================================================================
