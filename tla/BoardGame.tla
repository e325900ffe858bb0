------------------------------ MODULE BoardGame ------------------------------
(* Tic-tac-toe as it is played on one board, and what lab10/zad1 promises its *)
(* two players: they move in turn, O first, until somebody has a line or the  *)
(* board is full, and then the result is announced.                           *)
EXTENDS Board

VARIABLES
    board,      \* the board
    next,       \* whose move it is
    result      \* 0 while the game is on

gameVars == <<board, next, result>>

GameInit == board = init_board /\ next = O_SIGN /\ result = 0

Play(c) ==
    /\ result = 0 /\ check_game_status(board) = 0
    /\ board[c] = 0
    /\ board' = [board EXCEPT ![c] = next]
    /\ next' = Other(next)
    /\ UNCHANGED result

Announce ==
    /\ result = 0 /\ check_game_status(board) # 0
    /\ result' = check_game_status(board)
    /\ UNCHANGED <<board, next>>

GameNext == Announce \/ \E c \in Cells : Play(c)

Game == GameInit /\ [][GameNext]_gameVars
==============================================================================
