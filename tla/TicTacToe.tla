------------------------------ MODULE TicTacToe ------------------------------
(* The game that two clients of lab10/zad1 play through the server.  Each     *)
(* client has a board of its own, a loop that reads the server's messages and *)
(* starts a thread for each move of the opponent, and that thread, which      *)
(* marks the opponent's move, looks whether the game is over, and if not asks *)
(* for the player's move and sends it.  The server passes messages on.        *)
EXTENDS Board, Sequences

VARIABLES
    boards,     \* the board of each client
    thread,     \* where the move thread of each client is
    x,          \* the move the thread is started with, in the loop's stack frame
    loop,       \* what the loop of each client is: "reads" or its verdict
    out,        \* messages from each client to the server
    in          \* messages from the server to each client

vars == <<boards, thread, x, loop, out, in>>

NoMove == -1
Move(c) == [type |-> "MOVE", data |-> c]
EndGame(status) == [type |-> "END_GAME", data |-> status]

(* game: the player with the sign O starts a move thread at once.             *)
Init ==
    /\ boards = [s \in Signs |-> init_board]
    /\ thread = [s \in Signs |-> IF s = O_SIGN THEN "marks" ELSE "none"]
    /\ x = [s \in Signs |-> NoMove]
    /\ loop = [s \in Signs |-> "reads"]
    /\ out = [s \in Signs |-> <<>>]
    /\ in = [s \in Signs |-> <<>>]

-----------------------------------------------------------------------------
(* move: the thread.                                                          *)

Goes(s, from, to) == thread[s] = from /\ thread' = [thread EXCEPT ![s] = to]

(* Not in the code: the opponent's move gets the player's own sign.           *)
MarksOwnSign(s) ==
    /\ Goes(s, "marks", "checks")
    /\ boards' = IF x[s] = NoMove THEN boards
                 ELSE [boards EXCEPT ![s][x[s]] = s]
    /\ UNCHANGED <<x, loop, out, in>>

MoveMarks(s) ==
    /\ Goes(s, "marks", "checks")
    /\ boards' = IF x[s] = NoMove THEN boards
                 ELSE [boards EXCEPT ![s][x[s]] = Other(s)]
    /\ UNCHANGED <<x, loop, out, in>>

MoveFindsGameOver(s) ==
    LET status == check_game_status(boards[s])
    IN  /\ Goes(s, "checks", "none")
        /\ status # 0
        /\ out' = [out EXCEPT ![s] = Append(@, EndGame(status))]
        /\ UNCHANGED <<boards, x, loop, in>>

(* Not in the code: the game goes on when it is over.                         *)
AsksAnyway(s) ==
    /\ Goes(s, "checks", "asks")
    /\ \E c \in Cells : boards[s][c] = 0
    /\ UNCHANGED <<boards, x, loop, out, in>>

MoveAsks(s) ==
    /\ Goes(s, "checks", "asks")
    /\ check_game_status(boards[s]) = 0
    /\ UNCHANGED <<boards, x, loop, out, in>>

(* The player is asked until the move is legal.                               *)
MoveIsMade(s) ==
    /\ Goes(s, "asks", "none")
    /\ \E c \in Cells :
        /\ boards[s][c] = 0
        /\ boards' = [boards EXCEPT ![s][c] = s]
        /\ out' = [out EXCEPT ![s] = Append(@, Move(c))]
    /\ UNCHANGED <<x, loop, in>>

-----------------------------------------------------------------------------
(* game: the loop.                                                            *)

Reads(s, type) ==
    /\ loop[s] = "reads" /\ in[s] # <<>> /\ Head(in[s]).type = type
    /\ in' = [in EXCEPT ![s] = Tail(@)]
    /\ UNCHANGED <<boards, out>>

LoopStartsMove(s) ==
    /\ Reads(s, "MOVE")
    /\ x' = [x EXCEPT ![s] = Head(in[s]).data]
    /\ thread' = [thread EXCEPT ![s] = "marks"]
    /\ UNCHANGED loop

(* end_game.                                                                  *)
LoopEndsGame(s) ==
    /\ Reads(s, "END_GAME")
    /\ loop' = [loop EXCEPT ![s] =
                  CASE Head(in[s]).data = DRAW -> "draw"
                    [] Head(in[s]).data = s -> "victory"
                    [] OTHER -> "defeat"]
    /\ UNCHANGED <<x, thread>>

-----------------------------------------------------------------------------
(* The server: move and game_end.                                             *)

ServerPassesMove(s) ==
    /\ out[s] # <<>> /\ Head(out[s]).type = "MOVE"
    /\ out' = [out EXCEPT ![s] = Tail(@)]
    /\ in' = [in EXCEPT ![Other(s)] = Append(@, Head(out[s]))]
    /\ UNCHANGED <<boards, thread, x, loop>>

(* Not in the code: the end of the game is told to the opponent only.         *)
PassesEndOn(s) ==
    /\ out[s] # <<>> /\ Head(out[s]).type = "END_GAME"
    /\ out' = [out EXCEPT ![s] = Tail(@)]
    /\ in' = [in EXCEPT ![Other(s)] = Append(@, Head(out[s]))]
    /\ UNCHANGED <<boards, thread, x, loop>>

ServerEndsGame(s) ==
    /\ out[s] # <<>> /\ Head(out[s]).type = "END_GAME"
    /\ out' = [out EXCEPT ![s] = Tail(@)]
    /\ in' = [t \in Signs |-> Append(in[t], Head(out[s]))]
    /\ UNCHANGED <<boards, thread, x, loop>>

-----------------------------------------------------------------------------
Step(s) ==
    \/ MoveMarks(s) \/ MoveFindsGameOver(s) \/ MoveAsks(s) \/ MoveIsMade(s)
    \/ LoopStartsMove(s) \/ LoopEndsGame(s)
    \/ ServerPassesMove(s) \/ ServerEndsGame(s)

Next == \E s \in Signs : Step(s)

Spec == Init /\ [][Next]_vars

(* The processes are scheduled, and a player who is asked makes a move.       *)
FairSpec == Spec /\ WF_vars(Next)

Finished == \A s \in Signs : loop[s] # "reads"

-----------------------------------------------------------------------------
TypeOK ==
    /\ boards \in [Signs -> [Cells -> {0} \cup Signs]]
    /\ thread \in [Signs -> {"none", "marks", "checks", "asks"}]
    /\ x \in [Signs -> Cells \cup {NoMove}]
    /\ loop \in [Signs -> {"reads", "victory", "defeat", "draw"}]
    /\ \A s \in Signs : Len(out[s]) <= 1 /\ Len(in[s]) <= 1

(* The moves one client has made and the other has not marked yet: those in   *)
(* messages, and the one its thread was started with.                         *)
MovesOf(q) == {q[k].data : k \in {k \in DOMAIN q : q[k].type = "MOVE"}}
Unseen(s) ==
    MovesOf(out[Other(s)]) \cup MovesOf(in[s])
    \cup (IF thread[s] = "marks" /\ x[s] # NoMove THEN {x[s]} ELSE {})

(* The two boards agree but for the moves that are under way, which are on a  *)
(* cell the opponent still sees empty.                                        *)
BoardsAgree ==
    /\ TypeOK
    /\ \A s \in Signs :
        /\ \A c \in Unseen(s) : boards[s][c] = 0 /\ boards[Other(s)][c] = Other(s)
        /\ \A c \in Cells \ (Unseen(s) \cup Unseen(Other(s))) :
               boards[s][c] = boards[Other(s)][c]

(* The two players are told the same result, and it is the one on the board.  *)
VerdictIsRight ==
    \A s \in Signs :
        /\ loop[s] = "victory" <=> loop[s] # "reads" /\ HasThree(boards[s], s)
        /\ loop[s] = "defeat" <=> loop[s] # "reads" /\ HasThree(boards[s], Other(s))
        /\ loop[s] = "draw" => \A c \in Cells : boards[s][c] # 0

(* Together the two clients play one game on one board: the board of whoever  *)
(* has seen more moves, announced once a client has found it over.            *)
Latest == IF MarksOn(boards[X_SIGN]) > MarksOn(boards[O_SIGN]) THEN X_SIGN ELSE O_SIGN
EndsIn(q) == \E k \in DOMAIN q : q[k].type = "END_GAME"
Announced == \E s \in Signs : EndsIn(out[s]) \/ EndsIn(in[s]) \/ loop[s] # "reads"

OneBoard == INSTANCE BoardGame WITH
    board <- boards[Latest],
    next <- IF MarksOn(boards[Latest]) % 2 = 0 THEN O_SIGN ELSE X_SIGN,
    result <- IF Announced THEN check_game_status(boards[Latest]) ELSE 0
PlaysTheGame == OneBoard!Game

(* Every game ends, with a verdict for both players.                          *)
GameEnds == <>Finished
==============================================================================
