-------------------------------- MODULE Board --------------------------------
(* The tic-tac-toe board of lab10/zad1/client.c and the functions that look   *)
(* at it.  A free cell is 0.                                                  *)
EXTENDS Integers, FiniteSets

O_SIGN == 1
X_SIGN == 2
DRAW == 3
Signs == {O_SIGN, X_SIGN}
Other(s) == 3 - s

Cells == 0 .. 8
init_board == [c \in Cells |-> 0]

(* The lines in the order in which check_win looks at them.                   *)
Lines == <<{0, 1, 2}, {0, 3, 6}, {3, 4, 5}, {1, 4, 7}, {6, 7, 8}, {2, 5, 8},
           {0, 4, 8}, {2, 4, 6}>>

IsLineOf(b, line, s) == \A c \in line : b[c] = s

(* check_win: whose line is the first one that is somebody's; 0 if none is.   *)
FullLines(b) == {k \in DOMAIN Lines : \E s \in Signs : IsLineOf(b, Lines[k], s)}
check_win(b) ==
    IF FullLines(b) = {} THEN 0
    ELSE LET first == CHOOSE k \in FullLines(b) : \A m \in FullLines(b) : k <= m
         IN  CHOOSE s \in Signs : IsLineOf(b, Lines[first], s)

(* Not in the code: a full board is a draw whatever is on it.                 *)
DrawsFirst(b) == IF \E c \in Cells : b[c] = 0 THEN check_win(b) ELSE DRAW

check_game_status(b) ==
    IF check_win(b) = 0 /\ \A c \in Cells : b[c] # 0 THEN DRAW ELSE check_win(b)

(* What the two functions are to find: three marks in a row, a column or a    *)
(* diagonal of the board seen as a square.                                    *)
CellAt(row, col) == 3 * row + col
HasThree(b, s) ==
    LET at(row, col) == b[CellAt(row, col)] = s
    IN  \/ \E r \in 0 .. 2 : \A k \in 0 .. 2 : at(r, k)
        \/ \E k \in 0 .. 2 : \A r \in 0 .. 2 : at(r, k)
        \/ \A r \in 0 .. 2 : at(r, r)
        \/ \A r \in 0 .. 2 : at(r, 2 - r)

MarksOn(b) == Cardinality({c \in Cells : b[c] # 0})
==============================================================================
