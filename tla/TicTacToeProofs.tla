-------------------------- MODULE TicTacToeProofs --------------------------
(***************************************************************************)
(* Proofs about TicTacToe: the boards of the two clients agree, they tell  *)
(* the right result, and together they play the game of BoardGame.         *)
(***************************************************************************)
EXTENDS TicTacToe, FiniteSetTheorems, TLAPS

-------------------------------------------------------------------------------
(* The inductive invariant: one player has the right to move, and its       *)
(* opponent waits; when the game is over nobody has it.                      *)

Boards == [Cells -> {0} \cup Signs]

Silent(s) == out[s] = <<>> /\ in[s] = <<>>
Idle(s) == thread[s] = "none" /\ loop[s] = "reads"
Waits(s) == Idle(s) /\ Silent(s)

\* Where the move c of Other(s) is, before s marks it.
IsSent(s, c) == Idle(s) /\ Silent(s) /\ Idle(Other(s))
                /\ out[Other(s)] = <<Move(c)>> /\ in[Other(s)] = <<>>
Arrives(s, c) == Idle(s) /\ out[s] = <<>> /\ in[s] = <<Move(c)>> /\ Waits(Other(s))
Starts(s, c) == thread[s] = "marks" /\ x[s] = c /\ loop[s] = "reads" /\ Silent(s)
                /\ Waits(Other(s))
UnderWay(s, c) == IsSent(s, c) \/ Arrives(s, c) \/ Starts(s, c)

Turn(b) == IF MarksOn(b) % 2 = 0 THEN O_SIGN ELSE X_SIGN
GameIsOn(b) == check_game_status(b) = 0

\* Player s has to mark the opponent's move c.
Marks(s, c) ==
    /\ UnderWay(s, c)
    /\ c \in Cells /\ boards[s][c] = 0
    /\ boards[Other(s)] = [boards[s] EXCEPT ![c] = Other(s)]
    /\ GameIsOn(boards[s]) /\ Turn(boards[s]) = Other(s)

\* Player s has both boards equal, and looks at its own, or asks the player.
Thinks(s) ==
    /\ thread[s] \in {"checks", "asks"} \/ Starts(s, NoMove)
    /\ loop[s] = "reads" /\ Silent(s) /\ Waits(Other(s))
    /\ boards[s] = boards[Other(s)] /\ Turn(boards[s]) = s
    /\ ~HasThree(boards[s], s)
    /\ thread[s] = "asks" => GameIsOn(boards[s])

Verdict(s, status) == CASE status = DRAW -> "draw"
                        [] status = s -> "victory"
                        [] OTHER -> "defeat"

\* The result is on its way to the server, from s, or to the players.
Ending(s, status) == Idle(s) /\ out[s] = <<EndGame(status)>> /\ in[s] = <<>>
                     /\ Waits(Other(s))
Told(s, status) ==
    /\ thread[s] = "none" /\ out[s] = <<>>
    /\ \/ loop[s] = "reads" /\ in[s] = <<EndGame(status)>>
       \/ loop[s] = Verdict(s, status) /\ in[s] = <<>>
Over ==
    LET b == boards[O_SIGN]
        status == check_game_status(b)
    IN  /\ status # 0
        /\ boards[X_SIGN] = b
        /\ \E s \in Signs : ~HasThree(b, s)
        /\ \/ \E s \in Signs : Ending(s, status)
           \/ \A s \in Signs : Told(s, status)

Types ==
    /\ boards \in [Signs -> Boards]
    /\ thread \in [Signs -> {"none", "marks", "checks", "asks"}]
    /\ x \in [Signs -> Cells \cup {NoMove}]
    /\ loop \in [Signs -> {"reads", "victory", "defeat", "draw"}]
    /\ DOMAIN in = Signs /\ DOMAIN out = Signs

IInv ==
    /\ Types
    /\ Over \/ \E s \in Signs : Thinks(s) \/ \E c \in Cells : Marks(s, c)

-------------------------------------------------------------------------------
(* The board *)

\* The list of check_win, one line after another.
LEMMA LinesAre ==
    /\ DOMAIN Lines = 1 .. 8
    /\ Lines[1] = {0, 1, 2} /\ Lines[2] = {0, 3, 6} /\ Lines[3] = {3, 4, 5}
    /\ Lines[4] = {1, 4, 7} /\ Lines[5] = {6, 7, 8} /\ Lines[6] = {2, 5, 8}
    /\ Lines[7] = {0, 4, 8} /\ Lines[8] = {2, 4, 6}
BY DEF Lines

\* The eight sets of that list are the rows, columns and diagonals.
LEMMA LinesAreThree ==
    ASSUME NEW b, NEW s PROVE HasThree(b, s) <=> \E k \in 1 .. 8 : IsLineOf(b, Lines[k], s)
<1> DEFINE is(c) == b[c] = s
           three(i, j, k) == is(i) /\ is(j) /\ is(k)
<1> HIDE DEF is
<1>1. HasThree(b, s) <=>
        \/ three(0, 1, 2) \/ three(3, 4, 5) \/ three(6, 7, 8)
        \/ three(0, 3, 6) \/ three(1, 4, 7) \/ three(2, 5, 8)
        \/ three(0, 4, 8) \/ three(2, 4, 6)
  <2>1. \A r, k \in 0 .. 2 : CellAt(r, k) = 3 * r + k
    BY DEF CellAt
  <2>2. \A r \in 0 .. 2 : (\A k \in 0 .. 2 : b[CellAt(r, k)] = s)
                          <=> three(3 * r, 3 * r + 1, 3 * r + 2)
    BY <2>1 DEF is
  <2>3. \A k \in 0 .. 2 : (\A r \in 0 .. 2 : b[CellAt(r, k)] = s)
                          <=> three(k, 3 + k, 6 + k)
    BY <2>1 DEF is
  <2>4. (\A r \in 0 .. 2 : b[CellAt(r, r)] = s) <=> three(0, 4, 8)
    BY <2>1 DEF is
  <2>5. (\A r \in 0 .. 2 : b[CellAt(r, 2 - r)] = s) <=> three(2, 4, 6)
    BY <2>1 DEF is
  <2> HIDE DEF three
  <2>6. HasThree(b, s) <=>
          \/ \E r \in 0 .. 2 : three(3 * r, 3 * r + 1, 3 * r + 2)
          \/ \E k \in 0 .. 2 : three(k, 3 + k, 6 + k)
          \/ three(0, 4, 8) \/ three(2, 4, 6)
    BY <2>2, <2>3, <2>4, <2>5, ZenonT(40) DEF HasThree
  <2> QED
    BY <2>6
<1>2. (\E k \in 1 .. 8 : IsLineOf(b, Lines[k], s)) <=>
        \/ three(0, 1, 2) \/ three(3, 4, 5) \/ three(6, 7, 8)
        \/ three(0, 3, 6) \/ three(1, 4, 7) \/ three(2, 5, 8)
        \/ three(0, 4, 8) \/ three(2, 4, 6)
  <2>1. \A k \in 1 .. 8 : k \in {1, 2, 3, 4, 5, 6, 7, 8}
    OBVIOUS
  <2>2. \A i, j, k : IsLineOf(b, {i, j, k}, s) <=> three(i, j, k)
    BY Zenon DEF IsLineOf, is
  <2> HIDE DEF three
  <2> QED
    BY <2>1, <2>2, LinesAre
<1> QED
  BY <1>1, <1>2

\* check_win names somebody who has a line, and 0 only if nobody has one.
LEMMA WinnerHasThree ==
    ASSUME NEW b
    PROVE  /\ check_win(b) \in {0} \cup Signs
           /\ check_win(b) # 0 => HasThree(b, check_win(b))
           /\ check_win(b) = 0 => \A s \in Signs : ~HasThree(b, s)
<1>1. FullLines(b) \subseteq 1 .. 8
  BY LinesAre DEF FullLines
<1>2. FullLines(b) = {} <=> \A s \in Signs : ~HasThree(b, s)
  BY LinesAre, LinesAreThree DEF FullLines
<1>3. 0 \notin Signs
  BY DEF Signs, O_SIGN, X_SIGN
<1>4. CASE FullLines(b) = {}
  BY <1>2, <1>4 DEF check_win
<1>5. CASE FullLines(b) # {}
  <2> DEFINE first == CHOOSE k \in FullLines(b) : \A m \in FullLines(b) : k <= m
  <2>1. \E k \in FullLines(b) : \A m \in FullLines(b) : k <= m
    <3>1. 1 .. 8 = {1, 2, 3, 4, 5, 6, 7, 8}
      OBVIOUS
    <3> QED
      BY <1>1, <1>5, <3>1
  <2>2. first \in FullLines(b)
    BY <2>1
  <2>3. \E s \in Signs : IsLineOf(b, Lines[first], s)
    BY <2>2 DEF FullLines
  <2>4. check_win(b) = CHOOSE s \in Signs : IsLineOf(b, Lines[first], s)
    BY <1>5 DEF check_win
  <2> HIDE DEF first
  <2>5. check_win(b) \in Signs /\ IsLineOf(b, Lines[first], check_win(b))
    BY <2>3, <2>4
  <2>6. HasThree(b, check_win(b))
    BY <1>1, <2>2, <2>5, LinesAreThree
  <2> QED
    BY <1>3, <2>5, <2>6
<1> QED
  BY <1>4, <1>5

\* What the four values of check_game_status mean.
LEMMA StatusIs ==
    ASSUME NEW b \in Boards
    PROVE  /\ check_game_status(b) \in {0, DRAW} \cup Signs
           /\ check_game_status(b) \in Signs => HasThree(b, check_game_status(b))
           /\ check_game_status(b) \in {0, DRAW} => \A s \in Signs : ~HasThree(b, s)
           /\ check_game_status(b) = DRAW => \A c \in Cells : b[c] # 0
BY WinnerHasThree DEF check_game_status, Signs, O_SIGN, X_SIGN, DRAW

\* A mark gives no line to the other player.
LEMMA MarkHelpsNobodyElse ==
    ASSUME NEW b \in Boards, NEW c \in Cells, NEW s \in Signs, b[c] = 0, ~HasThree(b, s)
    PROVE  ~HasThree([b EXCEPT ![c] = Other(s)], s)
<1> DEFINE d == [b EXCEPT ![c] = Other(s)]
<1>1. \A k \in Cells : d[k] = s => b[k] = s
  BY DEF Boards, Other, Signs, O_SIGN, X_SIGN
<1>2. \A row, col \in 0 .. 2 : CellAt(row, col) \in Cells
  BY DEF CellAt, Cells
<1>3. \A r \in 0 .. 2 : r \in 0 .. 2 /\ 2 - r \in 0 .. 2
  OBVIOUS
<1> HIDE DEF d
<1>4. HasThree(d, s) => HasThree(b, s)
  BY <1>1, <1>2, <1>3 DEF HasThree
<1> QED
  BY <1>4 DEF d

\* A mark changes the turn.
LEMMA MarksAreCounted ==
    ASSUME NEW b \in Boards, NEW c \in Cells, NEW s \in Signs, b[c] = 0
    PROVE  /\ [b EXCEPT ![c] = s] \in Boards
           /\ MarksOn(b) \in Nat
           /\ MarksOn([b EXCEPT ![c] = s]) = MarksOn(b) + 1
           /\ Turn(b) \in Signs
           /\ Turn([b EXCEPT ![c] = s]) = Other(Turn(b))
<1> DEFINE d == [b EXCEPT ![c] = s]
           S == {k \in Cells : b[k] # 0}
           T == {k \in Cells : d[k] # 0}
<1>1. T = S \cup {c} /\ c \notin S
  BY DEF Boards, Signs, O_SIGN, X_SIGN
<1>2. IsFiniteSet(S)
  <2>1. \A m, n \in Int : IsFiniteSet(m .. n)
    BY FS_Interval
  <2> QED
    BY <2>1, FS_Subset DEF Cells
<1>3. Cardinality(S) \in Nat /\ Cardinality(T) = Cardinality(S) + 1
  BY <1>1, <1>2, FS_AddElement, FS_CardinalityType
<1>4. MarksOn(b) = Cardinality(S) /\ MarksOn(d) = Cardinality(T)
  BY DEF MarksOn
<1>5. d \in Boards
  BY DEF Boards
<1> HIDE DEF d, S, T
<1>6. Turn(b) \in Signs /\ Turn(d) = Other(Turn(b))
  BY <1>3, <1>4 DEF Turn, Other, Signs, O_SIGN, X_SIGN
<1> QED
  BY <1>3, <1>4, <1>5, <1>6 DEF d

-------------------------------------------------------------------------------
(* The invariant is inductive *)

\* There are two players.
LEMMA TwoPlayers ==
    \A s \in Signs : /\ Other(s) \in Signs /\ Other(s) # s /\ Other(Other(s)) = s
                     /\ \A t \in Signs : t = s \/ t = Other(s)
BY DEF Signs, Other, O_SIGN, X_SIGN

\* A queue with one message.
LEMMA OneMessage ==
    \A m : /\ <<m>> # <<>> /\ Append(<<>>, m) = <<m>>
           /\ Head(<<m>>) = m /\ Tail(<<m>>) = <<>>
OBVIOUS

\* A message is a move or the end of the game.
LEMMA MessagesDiffer ==
    /\ \A c : Move(c).type = "MOVE" /\ Move(c).data = c
    /\ \A v : EndGame(v).type = "END_GAME" /\ EndGame(v).data = v
    /\ NoMove \notin Cells
BY DEF Move, EndGame, NoMove, Cells

\* The game starts with the move of O, on empty boards.
LEMMA InitIInv == Init => IInv
<1> SUFFICES ASSUME Init PROVE Types /\ Thinks(O_SIGN)
  BY DEF IInv, Signs
<1>1. Types
  BY DEF Init, Types, init_board, Boards, NoMove
<1>2. init_board \in Boards /\ MarksOn(init_board) = 0
  <2>1. {c \in Cells : init_board[c] # 0} = {}
    BY DEF init_board
  <2> QED
    BY <2>1, FS_EmptySet DEF MarksOn, init_board, Boards
<1>3. ~HasThree(init_board, O_SIGN)
  <2>1. CellAt(0, 0) = 0
    BY DEF CellAt
  <2>2. \A r, k \in 0 .. 2 : CellAt(r, k) \in Cells
    BY DEF CellAt, Cells
  <2>3. \A c \in Cells : init_board[c] # O_SIGN
    BY DEF init_board, O_SIGN
  <2>4. 0 \in 0 .. 2 /\ 2 - 0 \in 0 .. 2
    OBVIOUS
  <2> QED
    BY <2>2, <2>3, <2>4 DEF HasThree
<1>4. Turn(init_board) = O_SIGN
  BY <1>2 DEF Turn
<1>5. Thinks(O_SIGN)
  BY <1>3, <1>4, TwoPlayers DEF Init, Thinks, Starts, Waits, Idle, Silent, Signs, O_SIGN, X_SIGN
<1> QED
  BY <1>1, <1>5

\* Who runs a move thread is the player who thinks or marks a move.
LEMMA ThreadHasTurn ==
    ASSUME IInv, NEW s \in Signs, thread[s] # "none"
    PROVE  Thinks(s) \/ \E c \in Cells : Marks(s, c) /\ Starts(s, c)
<1>1. ~Over
  BY TwoPlayers DEF Over, Ending, Told, Waits, Idle
<1>2. \A t \in Signs : Thinks(t) => t = s
  BY TwoPlayers DEF Thinks, Waits, Idle
<1>3. \A t \in Signs, c \in Cells : Marks(t, c) => t = s /\ Starts(t, c)
  BY TwoPlayers DEF Marks, UnderWay, IsSent, Arrives, Starts, Waits, Idle
<1> QED
  BY <1>1, <1>2, <1>3 DEF IInv

\* The thread marks the move under way, and has the turn.
LEMMA MoveMarksKeeps ==
    ASSUME IInv, NEW s \in Signs, MoveMarks(s) PROVE IInv'
<1> USE TwoPlayers DEF MoveMarks, Goes, Types, Starts, Silent, Waits, Idle
<1>1. Types'
  BY DEF IInv, Boards
<1>2. CASE Thinks(s)
  <2>1. Starts(s, NoMove)
    BY <1>2 DEF Thinks
  <2>2. Thinks(s)'
    BY <1>2, <2>1 DEF Thinks, IInv
  <2> QED
    BY <1>1, <2>2 DEF IInv
<1>3. ASSUME NEW c \in Cells, Marks(s, c), Starts(s, c) PROVE IInv'
  <2>1. boards[s] \in Boards
    BY DEF IInv
  <2>2. boards'[s] = boards[Other(s)] /\ boards'[Other(s)] = boards[Other(s)]
    BY <1>3, <2>1, MessagesDiffer DEF Marks, IInv
  <2>3. ~HasThree(boards'[s], s)
    BY <1>3, <2>1, <2>2, MarkHelpsNobodyElse, StatusIs DEF Marks, GameIsOn
  <2>4. Turn(boards'[s]) = s
    BY <1>3, <2>1, <2>2, MarksAreCounted DEF Marks
  <2>5. Thinks(s)'
    BY <1>3, <2>2, <2>3, <2>4 DEF Thinks, IInv
  <2> QED
    BY <1>1, <2>5 DEF IInv
<1> QED
  BY <1>2, <1>3, ThreadHasTurn

\* The end is found where there is a line or no free cell.
LEMMA MoveFindsGameOverKeeps ==
    ASSUME IInv, NEW s \in Signs, MoveFindsGameOver(s) PROVE IInv'
<1> USE TwoPlayers DEF MoveFindsGameOver, Goes, Types, Starts, Silent, Waits, Idle
<1>1. Types'
  BY DEF IInv
<1>2. Thinks(s)
  BY ThreadHasTurn
<1>3. Ending(s, check_game_status(boards[s]))'
  BY <1>2, OneMessage DEF Thinks, Ending, IInv
<1>4. boards[O_SIGN] = boards[s] /\ boards[X_SIGN] = boards[s]
  BY <1>2 DEF Thinks, Signs
<1>5. Over'
  BY <1>2, <1>3, <1>4 DEF Over, Thinks
<1> QED
  BY <1>1, <1>5 DEF IInv

\* The player is asked while the game is on.
LEMMA MoveAsksKeeps ==
    ASSUME IInv, NEW s \in Signs, MoveAsks(s) PROVE IInv'
<1> USE TwoPlayers DEF MoveAsks, Goes, Types, Starts, Silent, Waits, Idle
<1>1. Types'
  BY DEF IInv
<1>2. Thinks(s)
  BY ThreadHasTurn
<1>3. Thinks(s)'
  BY <1>2 DEF Thinks, IInv, GameIsOn
<1> QED
  BY <1>1, <1>3 DEF IInv

\* The move made is under way to the other player.
LEMMA MoveIsMadeKeeps ==
    ASSUME IInv, NEW s \in Signs, MoveIsMade(s) PROVE IInv'
<1> USE TwoPlayers DEF MoveIsMade, Goes, Types, Starts, Silent, Waits, Idle
<1>1. Types'
  BY DEF IInv, Boards
<1>2. Thinks(s)
  BY ThreadHasTurn
<1>3. PICK c \in Cells : /\ boards[s][c] = 0
                         /\ boards' = [boards EXCEPT ![s][c] = s]
                         /\ out' = [out EXCEPT ![s] = Append(@, Move(c))]
  OBVIOUS
<1>4. IsSent(Other(s), c)'
  BY <1>2, <1>3, OneMessage DEF Thinks, IsSent, IInv
<1>5. boards'[s] = [boards[s] EXCEPT ![c] = s] /\ boards'[Other(s)] = boards[s]
  BY <1>2, <1>3 DEF Thinks, IInv
<1>6. Marks(Other(s), c)'
  BY <1>2, <1>3, <1>4, <1>5 DEF Marks, UnderWay, Thinks, GameIsOn
<1> QED
  BY <1>1, <1>6 DEF IInv

\* A move message that waits to be read is the one that is under way.
LEMMA MoveIsUnderWay ==
    ASSUME IInv, NEW s \in Signs
    PROVE  /\ in[s] # <<>> /\ Head(in[s]).type = "MOVE"
                => \E c \in Cells : Marks(s, c) /\ Arrives(s, c)
           /\ out[s] # <<>> /\ Head(out[s]).type = "MOVE"
                => \E c \in Cells : Marks(Other(s), c) /\ IsSent(Other(s), c)
<1> USE TwoPlayers, OneMessage, MessagesDiffer
<1>1. Over => /\ in[s] # <<>> => Head(in[s]).type = "END_GAME"
              /\ out[s] # <<>> => Head(out[s]).type = "END_GAME"
  BY DEF Over, Ending, Told, Waits, Silent
<1>2. \A t \in Signs : Thinks(t) => in[s] = <<>> /\ out[s] = <<>>
  BY DEF Thinks, Waits, Silent
<1>3. \A t \in Signs, c \in Cells : Marks(t, c) =>
        /\ in[s] # <<>> => t = s /\ Arrives(s, c)
        /\ out[s] # <<>> => t = Other(s) /\ IsSent(t, c)
  BY DEF Marks, UnderWay, IsSent, Arrives, Starts, Waits, Silent
<1> QED
  BY <1>1, <1>2, <1>3 DEF IInv

\* The end of the game comes when it is over.
LEMMA EndIsOver ==
    ASSUME IInv, NEW s \in Signs
    PROVE  /\ in[s] # <<>> /\ Head(in[s]).type = "END_GAME"
                => Over /\ \A t \in Signs : Told(t, check_game_status(boards[O_SIGN]))
           /\ out[s] # <<>> /\ Head(out[s]).type = "END_GAME"
                => Over /\ Ending(s, check_game_status(boards[O_SIGN]))
<1> USE TwoPlayers, OneMessage, MessagesDiffer
<1>1. \A t \in Signs : Thinks(t) => in[s] = <<>> /\ out[s] = <<>>
  BY DEF Thinks, Waits, Silent
<1>2. \A t \in Signs, c \in Cells : Marks(t, c) =>
        /\ in[s] # <<>> => Head(in[s]).type = "MOVE"
        /\ out[s] # <<>> => Head(out[s]).type = "MOVE"
  BY DEF Marks, UnderWay, IsSent, Arrives, Starts, Waits, Silent
<1>3. Over => /\ in[s] # <<>> => \A t \in Signs : Told(t, check_game_status(boards[O_SIGN]))
              /\ out[s] # <<>> => Ending(s, check_game_status(boards[O_SIGN]))
  BY DEF Over, Ending, Told, Waits, Silent
<1> QED
  BY <1>1, <1>2, <1>3 DEF IInv

\* The loop starts the thread for the move it has read.
LEMMA LoopStartsMoveKeeps ==
    ASSUME IInv, NEW s \in Signs, LoopStartsMove(s) PROVE IInv'
<1> USE TwoPlayers DEF LoopStartsMove, Reads, Types, Silent, Waits, Idle
<1>1. PICK c \in Cells : Marks(s, c) /\ Arrives(s, c)
  BY MoveIsUnderWay
<1>2. Head(in[s]).data = c /\ Tail(in[s]) = <<>>
  BY <1>1, OneMessage, MessagesDiffer DEF Arrives
<1>3. Types'
  BY <1>2 DEF IInv
<1>4. Starts(s, c)'
  BY <1>1, <1>2 DEF Arrives, Starts, IInv
<1>5. Marks(s, c)'
  BY <1>1, <1>4 DEF Marks, UnderWay, GameIsOn
<1> QED
  BY <1>3, <1>5 DEF IInv

\* The loop ends with the verdict of the message.
LEMMA LoopEndsGameKeeps ==
    ASSUME IInv, NEW s \in Signs, LoopEndsGame(s) PROVE IInv'
<1> USE TwoPlayers DEF LoopEndsGame, Reads, Types
<1> DEFINE status == check_game_status(boards[O_SIGN])
<1>1. Over /\ \A t \in Signs : Told(t, status)
  BY EndIsOver
<1>2. in[s] = <<EndGame(status)>>
  BY <1>1 DEF Told
<1>3. Head(in[s]).data = status /\ Tail(in[s]) = <<>>
  BY <1>2, OneMessage, MessagesDiffer
<1>4. loop' = [loop EXCEPT ![s] = Verdict(s, status)]
  BY <1>3, Zenon DEF Verdict
<1>5. Verdict(s, status) \in {"victory", "defeat", "draw"}
  BY Zenon DEF Verdict
<1>6. Types'
  BY <1>4, <1>5 DEF IInv
<1> HIDE DEF status
<1>7. \A t \in Signs : Told(t, status)'
  BY ZenonT(60), <1>1, <1>3, <1>4 DEF Told, IInv, status
<1>8. Over'
  BY <1>1, <1>7 DEF Over, status
<1> QED
  BY <1>6, <1>8 DEF IInv

\* The server passes the move to the other player.
LEMMA ServerPassesMoveKeeps ==
    ASSUME IInv, NEW s \in Signs, ServerPassesMove(s) PROVE IInv'
<1> USE TwoPlayers DEF ServerPassesMove, Types, Silent, Waits, Idle
<1>1. PICK c \in Cells : Marks(Other(s), c) /\ IsSent(Other(s), c)
  BY MoveIsUnderWay
<1>2. Head(out[s]) = Move(c) /\ Tail(out[s]) = <<>> /\ in[Other(s)] = <<>>
  <2>1. out[s] = <<Move(c)>> /\ in[Other(s)] = <<>>
    BY <1>1 DEF IsSent
  <2> QED
    BY <2>1, OneMessage
<1>3. Types'
  BY DEF IInv
<1>4. Arrives(Other(s), c)'
  BY <1>1, <1>2, OneMessage DEF IsSent, Arrives, IInv
<1>5. Marks(Other(s), c)'
  BY <1>1, <1>4 DEF Marks, UnderWay, GameIsOn
<1> QED
  BY <1>3, <1>5 DEF IInv

\* The server tells both players the end.
LEMMA ServerEndsGameKeeps ==
    ASSUME IInv, NEW s \in Signs, ServerEndsGame(s) PROVE IInv'
<1> USE TwoPlayers DEF ServerEndsGame, Types, Silent, Waits, Idle
<1> DEFINE status == check_game_status(boards[O_SIGN])
<1>1. Over /\ Ending(s, status)
  BY EndIsOver
<1>2. Head(out[s]) = EndGame(status) /\ Tail(out[s]) = <<>>
  BY <1>1, OneMessage DEF Ending
<1>3. Types'
  BY DEF IInv
<1>4. \A t \in Signs : Told(t, status)'
  <2>1. \A t \in Signs : thread[t] = "none" /\ loop[t] = "reads" /\ in[t] = <<>>
    BY <1>1 DEF Ending
  <2>2. \A t \in Signs : out'[t] = <<>>
    BY <1>1, <1>2 DEF Ending, IInv
  <2>3. \A t \in Signs : in'[t] = <<EndGame(status)>>
    BY <1>2, <2>1, OneMessage
  <2> QED
    BY <2>1, <2>2, <2>3 DEF Told
<1>5. Over'
  BY <1>1, <1>4 DEF Over
<1> QED
  BY <1>3, <1>5 DEF IInv

\* Every step keeps the invariant.
LEMMA IInvKept == IInv /\ [Next]_vars => IInv'
<1> SUFFICES ASSUME IInv, [Next]_vars PROVE IInv'
  OBVIOUS
<1>1. ASSUME NEW s \in Signs, Step(s) PROVE IInv'
  BY <1>1, MoveMarksKeeps, MoveFindsGameOverKeeps, MoveAsksKeeps, MoveIsMadeKeeps,
     LoopStartsMoveKeeps, LoopEndsGameKeeps, ServerPassesMoveKeeps, ServerEndsGameKeeps DEF Step
<1>2. CASE UNCHANGED vars
  BY ZenonT(60), <1>2 DEF vars, IInv, Types, Over, Ending, Told, Thinks, Marks, UnderWay, IsSent,
       Arrives, Starts, Waits, Silent, Idle, GameIsOn
<1> QED
  BY <1>1, <1>2 DEF Next

\* The inductive invariant holds in every behaviour.
THEOREM Invariance == Spec => []IInv
BY InitIInv, IInvKept, PTL DEF Spec

-------------------------------------------------------------------------------
(* What follows from it *)

\* What MovesOf and EndsIn find in a queue with at most one message.
LEMMA QueueHolds ==
    /\ MovesOf(<<>>) = {} /\ ~EndsIn(<<>>) /\ Len(<<>>) <= 1
    /\ \A c : MovesOf(<<Move(c)>>) = {c} /\ ~EndsIn(<<Move(c)>>) /\ Len(<<Move(c)>>) <= 1
    /\ \A v : MovesOf(<<EndGame(v)>>) = {} /\ EndsIn(<<EndGame(v)>>) /\ Len(<<EndGame(v)>>) <= 1
<1>1. DOMAIN <<>> = {} /\ \A m : DOMAIN <<m>> = {1} /\ <<m>>[1] = m
  OBVIOUS
<1>2. \A m : (m.type = "MOVE" => MovesOf(<<m>>) = {m.data} /\ ~EndsIn(<<m>>))
             /\ (m.type = "END_GAME" => MovesOf(<<m>>) = {} /\ EndsIn(<<m>>))
  BY <1>1 DEF MovesOf, EndsIn
<1>3. MovesOf(<<>>) = {} /\ ~EndsIn(<<>>)
  BY <1>1 DEF MovesOf, EndsIn
<1>4. Len(<<>>) <= 1 /\ \A m : Len(<<m>>) <= 1
  OBVIOUS
<1> QED
  BY <1>2, <1>3, <1>4, MessagesDiffer

\* The two boards differ by the move under way at most (move, game).
THEOREM Agreement == Spec => []BoardsAgree
<1>1. IInv => BoardsAgree
  <2> SUFFICES ASSUME IInv PROVE BoardsAgree
    OBVIOUS
  <2> USE TwoPlayers, QueueHolds
  <2>1. ASSUME Over PROVE \A s \in Signs : Unseen(s) = {} /\ Len(out[s]) <= 1 /\ Len(in[s]) <= 1
    <3>1. \A s \in Signs : /\ thread[s] = "none"
                           /\ \E v : out[s] = <<>> \/ out[s] = <<EndGame(v)>>
                           /\ \E v : in[s] = <<>> \/ in[s] = <<EndGame(v)>>
      BY <2>1 DEF Over, Ending, Told, Waits, Idle, Silent
    <3>2. \A s \in Signs : /\ MovesOf(out[s]) = {} /\ MovesOf(in[s]) = {}
                           /\ Len(out[s]) <= 1 /\ Len(in[s]) <= 1
      BY <3>1
    <3> QED
      BY <3>1, <3>2 DEF Unseen
  <2>2. ASSUME NEW t \in Signs, Thinks(t)
        PROVE  \A s \in Signs : Unseen(s) = {} /\ Len(out[s]) <= 1 /\ Len(in[s]) <= 1
    BY <2>2 DEF Thinks, Starts, Waits, Idle, Silent, Unseen
  <2>3. ASSUME NEW t \in Signs, NEW c \in Cells, Marks(t, c)
        PROVE  /\ Unseen(t) = {c} /\ Unseen(Other(t)) = {}
               /\ \A s \in Signs : Len(out[s]) <= 1 /\ Len(in[s]) <= 1
    <3> USE <2>3 DEF Waits, Idle, Silent, Unseen
    <3>1. CASE IsSent(t, c)
      BY <3>1 DEF IsSent
    <3>2. CASE Arrives(t, c)
      BY <3>2 DEF Arrives
    <3>3. CASE Starts(t, c)
      BY <3>3, MessagesDiffer DEF Starts
    <3> QED
      BY <3>1, <3>2, <3>3 DEF Marks, UnderWay
  <2>4. TypeOK
    BY <2>1, <2>2, <2>3 DEF IInv, Types, TypeOK, Boards
  <2>5. CASE Over
    <3>1. \A s \in Signs : boards[s] = boards[Other(s)]
      BY <2>5 DEF Over, Signs
    <3> QED
      BY <2>1, <2>4, <2>5, <3>1 DEF BoardsAgree
  <2>6. ASSUME NEW t \in Signs, Thinks(t) PROVE BoardsAgree
    <3>1. \A s \in Signs : boards[s] = boards[Other(s)]
      BY <2>6 DEF Thinks
    <3> QED
      BY <2>2, <2>4, <2>6, <3>1 DEF BoardsAgree
  <2>7. ASSUME NEW t \in Signs, NEW c \in Cells, Marks(t, c) PROVE BoardsAgree
    <3>1. /\ boards[t][c] = 0 /\ boards[Other(t)][c] = Other(t)
          /\ \A k \in Cells \ {c} : boards[Other(t)][k] = boards[t][k]
      BY <2>7 DEF Marks, IInv, Types, Boards
    <3> QED
      BY <2>3, <2>4, <2>7, <3>1 DEF BoardsAgree
  <2> QED
    BY <2>5, <2>6, <2>7 DEF IInv
<1> QED
  BY <1>1, Invariance, PTL

\* Both players hear the result that is on the board (end_game).
THEOREM Verdicts == Spec => []VerdictIsRight
<1>1. IInv => VerdictIsRight
  <2> SUFFICES ASSUME IInv, NEW s \in Signs, loop[s] # "reads"
      PROVE  /\ loop[s] = "victory" <=> HasThree(boards[s], s)
             /\ loop[s] = "defeat" <=> HasThree(boards[s], Other(s))
             /\ loop[s] = "draw" => \A c \in Cells : boards[s][c] # 0
    BY Zenon DEF VerdictIsRight
  <2> USE TwoPlayers
  <2> DEFINE b == boards[O_SIGN]
             status == check_game_status(b)
  <2>1. Over /\ loop[s] = Verdict(s, status)
    BY DEF IInv, Over, Ending, Told, Thinks, Marks, UnderWay, IsSent, Arrives, Starts, Waits, Idle
  <2>2. boards[s] = b /\ b \in Boards
    BY <2>1 DEF Over, IInv, Types, Signs
  <2> HIDE DEF b
  <2>3. status # 0 /\ ~(HasThree(b, s) /\ HasThree(b, Other(s)))
    BY <2>1 DEF Over, b
  <2>4. status = DRAW \/ status = s \/ status = Other(s)
    BY <2>2, <2>3, StatusIs
  <2>5. DRAW # s /\ DRAW # Other(s)
    BY DEF DRAW, Signs, Other, O_SIGN, X_SIGN
  <2>6. CASE status = DRAW
    <3>1. loop[s] = "draw"
      BY <2>1, <2>5, <2>6, Zenon DEF Verdict
    <3> QED
      BY <2>2, <2>6, <3>1, StatusIs
  <2>7. CASE status = s
    <3>1. loop[s] = "victory"
      BY <2>1, <2>5, <2>7, Zenon DEF Verdict
    <3> QED
      BY <2>2, <2>3, <2>7, <3>1, StatusIs
  <2>8. CASE status = Other(s)
    <3>1. loop[s] = "defeat"
      BY <2>1, <2>5, <2>8, Zenon DEF Verdict
    <3> QED
      BY <2>2, <2>3, <2>8, <3>1, StatusIs
  <2> QED
    BY <2>4, <2>6, <2>7, <2>8
<1> QED
  BY <1>1, Invariance, PTL

-------------------------------------------------------------------------------
(* The two clients play one game *)

\* Which board is the latest one: either, when they are equal, and else the
\* board of the player who made the move under way.
LEMMA LatestIs ==
    ASSUME IInv
    PROVE  /\ boards[Latest] \in Boards
           /\ Over => boards[Latest] = boards[O_SIGN]
           /\ \A s \in Signs : Thinks(s) => boards[Latest] = boards[s]
           /\ \A s \in Signs, c \in Cells : Marks(s, c) => boards[Latest] = boards[Other(s)]
<1>1. Latest \in Signs
  BY DEF Latest, Signs
<1>2. Over => boards[Latest] = boards[O_SIGN]
  BY <1>1 DEF Over, Signs
<1>3. ASSUME NEW s \in Signs, Thinks(s) PROVE boards[Latest] = boards[s]
  BY <1>1, <1>3, TwoPlayers DEF Thinks
<1>4. ASSUME NEW s \in Signs, NEW c \in Cells, Marks(s, c)
      PROVE  boards[Latest] = boards[Other(s)]
  <2>1. MarksOn(boards[s]) \in Nat /\ MarksOn(boards[Other(s)]) = MarksOn(boards[s]) + 1
    BY <1>4, TwoPlayers, MarksAreCounted DEF Marks, IInv, Types
  <2>2. Latest = Other(s)
    BY <2>1 DEF Latest, Other, Signs, O_SIGN, X_SIGN
  <2> QED
    BY <2>2
<1> QED
  BY <1>1, <1>2, <1>3, <1>4 DEF IInv, Types

\* The result is announced exactly when the game is over.
LEMMA AnnouncedWhenOver == ASSUME IInv PROVE Announced <=> Over
<1> USE TwoPlayers, QueueHolds DEF Announced, Waits, Idle, Silent
<1>1. Over => Announced
  <2> SUFFICES ASSUME Over PROVE Announced
    OBVIOUS
  <2>1. ASSUME NEW s \in Signs, NEW v, Ending(s, v) PROVE Announced
    BY <2>1 DEF Ending
  <2>2. ASSUME NEW v, Told(O_SIGN, v) PROVE Announced
    <3>1. CASE in[O_SIGN] = <<EndGame(v)>>
      BY <3>1 DEF Signs
    <3>2. CASE loop[O_SIGN] = Verdict(O_SIGN, v)
      <4>1. Verdict(O_SIGN, v) \in {"victory", "defeat", "draw"}
        BY Zenon DEF Verdict
      <4> QED
        BY <3>2, <4>1 DEF Signs
    <3> QED
      BY <2>2, <3>1, <3>2 DEF Told
  <2> QED
    BY <2>1, <2>2 DEF Over, Signs
<1>2. ASSUME NEW s \in Signs, Thinks(s) PROVE ~Announced
  BY <1>2 DEF Thinks, Starts
<1>3. ASSUME NEW s \in Signs, NEW c \in Cells, Marks(s, c) PROVE ~Announced
  <2>1. \A t \in Signs : /\ loop[t] = "reads"
                         /\ out[t] \in {<<>>, <<Move(c)>>} /\ in[t] \in {<<>>, <<Move(c)>>}
    BY <1>3 DEF Marks, UnderWay, IsSent, Arrives, Starts
  <2> QED
    BY <2>1
<1> QED
  BY <1>1, <1>2, <1>3 DEF IInv

\* The board, the turn and the result of the game the clients play together.
board == boards[Latest]
result == IF Announced THEN check_game_status(board) ELSE 0

\* BoardGame looks at its board with the same functions.
LEMMA SameFunctions ==
    /\ OneBoard!init_board = init_board /\ OneBoard!O_SIGN = O_SIGN /\ OneBoard!Cells = Cells
    /\ \A s : OneBoard!Other(s) = Other(s)
    /\ \A b : OneBoard!check_game_status(b) = check_game_status(b)
<1> USE DEF OneBoard!Signs, OneBoard!O_SIGN, OneBoard!X_SIGN, OneBoard!DRAW, OneBoard!Cells,
        Signs, O_SIGN, X_SIGN, DRAW, Cells
<1>1. \A b : OneBoard!check_win(b) = check_win(b)
  BY Zenon DEF OneBoard!check_win, OneBoard!FullLines, OneBoard!IsLineOf, OneBoard!Lines,
         check_win, FullLines, IsLineOf, Lines
<1>2. \A b : OneBoard!check_game_status(b) = check_game_status(b)
  BY <1>1, Zenon DEF OneBoard!check_game_status, check_game_status
<1>3. OneBoard!init_board = init_board /\ \A s : OneBoard!Other(s) = Other(s)
  BY DEF OneBoard!init_board, init_board, OneBoard!Other, Other
<1> QED
  BY <1>2, <1>3

\* The steps of that game, as steps of this one.
LEMMA GameIs ==
    /\ board = init_board /\ Turn(board) = O_SIGN /\ result = 0 => OneBoard!GameInit
    /\ board' = board /\ result' = result => UNCHANGED OneBoard!gameVars
    /\ result = 0 /\ check_game_status(board) # 0
         /\ result' = check_game_status(board) /\ board' = board
       => OneBoard!Announce
    /\ \A c \in Cells :
         result = 0 /\ check_game_status(board) = 0 /\ board[c] = 0
         /\ board' = [board EXCEPT ![c] = Turn(board)]
         /\ Turn(board') = Other(Turn(board))
         /\ result' = result
       => OneBoard!Play(c)
BY SameFunctions
   DEF OneBoard!GameInit, OneBoard!gameVars, OneBoard!Announce, OneBoard!Play,
       board, result, Turn

\* The players start with the game.
LEMMA StartsGame == Init => OneBoard!GameInit
<1> SUFFICES ASSUME Init PROVE OneBoard!GameInit
  OBVIOUS
<1>1. board = init_board
  BY DEF board, Latest, Init, Signs
<1>2. MarksOn(init_board) = 0
  <2>1. {c \in Cells : init_board[c] # 0} = {}
    BY DEF init_board
  <2> QED
    BY <2>1, FS_EmptySet DEF MarksOn
<1>3. ~Announced
  BY QueueHolds DEF Init, Announced
<1> QED
  BY <1>1, <1>2, <1>3, GameIs DEF result, Turn

\* A step that leaves the latest board and the announcement is a stutter.
LEMMA Stutters ==
    ASSUME board' = board, Announced' <=> Announced PROVE UNCHANGED OneBoard!gameVars
<1>1. result' = result
  BY DEF result
<1> QED
  BY <1>1, GameIs

\* The end of the game that is on its way stays announced, a move does not end it.
LEMMA MessagesPass ==
    ASSUME IInv, NEW s \in Signs,
           LoopStartsMove(s) \/ LoopEndsGame(s) \/ ServerPassesMove(s) \/ ServerEndsGame(s)
    PROVE  UNCHANGED OneBoard!gameVars
<1> USE TwoPlayers, QueueHolds DEF IInv, Types
<1>1. board' = board
  BY DEF board, Latest, LoopStartsMove, LoopEndsGame, ServerPassesMove, ServerEndsGame, Reads
<1>2. CASE LoopStartsMove(s)
  <2>1. PICK c \in Cells : in[s] = <<Move(c)>>
    BY <1>2, MoveIsUnderWay DEF LoopStartsMove, Reads, Arrives
  <2>2. ~EndsIn(in[s]) /\ ~EndsIn(Tail(in[s]))
    <3>1. Tail(in[s]) = <<>>
      BY <2>1, OneMessage
    <3> QED
      BY <2>1, <3>1
  <2>3. \A t \in Signs : EndsIn(in'[t]) <=> EndsIn(in[t])
    BY <1>2, <2>2 DEF LoopStartsMove, Reads
  <2>4. Announced' <=> Announced
    BY <1>2, <2>3 DEF LoopStartsMove, Reads, Announced
  <2> QED
    BY <1>1, <2>4, Stutters
<1>3. CASE LoopEndsGame(s)
  <2>1. Announced
    BY <1>3, EndIsOver, AnnouncedWhenOver DEF LoopEndsGame, Reads
  <2>2. loop'[s] # "reads"
    <3>1. \A v : Verdict(s, v) \in {"victory", "defeat", "draw"}
      BY Zenon DEF Verdict
    <3>2. loop' = [loop EXCEPT ![s] = Verdict(s, Head(in[s]).data)]
      BY <1>3, Zenon DEF LoopEndsGame, Verdict
    <3> QED
      BY <3>1, <3>2
  <2>3. Announced'
    BY <2>2 DEF Announced
  <2> QED
    BY <1>1, <2>1, <2>3, Stutters
<1>4. CASE ServerPassesMove(s)
  <2>1. PICK c \in Cells : IsSent(Other(s), c)
    BY <1>4, MoveIsUnderWay DEF ServerPassesMove
  <2>2. out[s] = <<Move(c)>> /\ in[Other(s)] = <<>>
    BY <2>1 DEF IsSent, Silent
  <2>3. out'[s] = <<>> /\ in'[Other(s)] = <<Move(c)>>
    BY <1>4, <2>2, OneMessage DEF ServerPassesMove
  <2>4. \A t \in Signs : (EndsIn(in'[t]) <=> EndsIn(in[t])) /\ (EndsIn(out'[t]) <=> EndsIn(out[t]))
    BY <1>4, <2>2, <2>3 DEF ServerPassesMove
  <2>5. Announced' <=> Announced
    BY <1>4, <2>4 DEF ServerPassesMove, Announced
  <2> QED
    BY <1>1, <2>5, Stutters
<1>5. CASE ServerEndsGame(s)
  <2>1. Over /\ Ending(s, check_game_status(boards[O_SIGN]))
    BY <1>5, EndIsOver DEF ServerEndsGame
  <2>2. out[s] = <<EndGame(check_game_status(boards[O_SIGN]))>> /\ in[s] = <<>>
    BY <2>1 DEF Ending
  <2>3. in'[s] = <<EndGame(check_game_status(boards[O_SIGN]))>>
    BY <1>5, <2>2, OneMessage DEF ServerEndsGame
  <2>4. Announced /\ Announced'
    BY ZenonT(60), <2>1, <2>3, AnnouncedWhenOver DEF Announced
  <2> QED
    BY <1>1, <2>4, Stutters
<1> QED
  BY <1>2, <1>3, <1>4, <1>5

\* The thread plays, announces, or catches up with the other board.
LEMMA ThreadPlays ==
    ASSUME IInv, NEW s \in Signs,
           MoveMarks(s) \/ MoveFindsGameOver(s) \/ MoveAsks(s) \/ MoveIsMade(s)
    PROVE  OneBoard!GameNext \/ UNCHANGED OneBoard!gameVars
<1> USE TwoPlayers, QueueHolds DEF IInv, Types, Goes
<1>1. CASE MoveMarks(s)
  <2>1. board' = board
    <3>1. CASE Thinks(s)
      BY <1>1, <3>1 DEF MoveMarks, Thinks, Starts, board, Latest
    <3>2. ASSUME NEW c \in Cells, Marks(s, c), Starts(s, c) PROVE board' = board
      <4>1. \A t \in Signs : boards'[t] = boards[Other(s)]
        BY <1>1, <3>2, MessagesDiffer DEF MoveMarks, Marks, Starts, Boards
      <4>2. Latest' \in Signs
        BY DEF Latest, Signs
      <4> QED
        BY <3>2, <4>1, <4>2, LatestIs DEF board
    <3> QED
      BY <1>1, <3>1, <3>2, ThreadHasTurn DEF MoveMarks
  <2>2. Announced' <=> Announced
    BY <1>1 DEF MoveMarks, Announced
  <2> QED
    BY <2>1, <2>2, Stutters
<1>2. CASE MoveFindsGameOver(s)
  <2>1. Thinks(s) /\ ~Announced
    BY <1>2, ThreadHasTurn, AnnouncedWhenOver
       DEF MoveFindsGameOver, Starts, Over, Ending, Told, Waits, Idle
  <2>2. board = boards[s] /\ board' = board
    BY <1>2, <2>1, LatestIs DEF MoveFindsGameOver, board, Latest
  <2>3. out'[s] = <<EndGame(check_game_status(boards[s]))>>
    BY <1>2, <2>1, OneMessage DEF MoveFindsGameOver, Thinks, Silent
  <2>4. Announced'
    BY <2>3 DEF Announced
  <2>5. result = 0 /\ result' = check_game_status(board)
    BY <2>1, <2>2, <2>4 DEF result
  <2>6. OneBoard!Announce
    BY <1>2, <2>2, <2>5, GameIs DEF MoveFindsGameOver
  <2> QED
    BY <2>6 DEF OneBoard!GameNext
<1>3. CASE MoveAsks(s)
  <2>1. board' = board /\ (Announced' <=> Announced)
    BY <1>3 DEF MoveAsks, board, Latest, Announced
  <2> QED
    BY <2>1, Stutters
<1>4. CASE MoveIsMade(s)
  <2>1. Thinks(s) /\ ~Announced
    BY <1>4, ThreadHasTurn, AnnouncedWhenOver
       DEF MoveIsMade, Starts, Over, Ending, Told, Waits, Idle
  <2>2. PICK c \in Cells : /\ boards[s][c] = 0
                           /\ boards' = [boards EXCEPT ![s][c] = s]
                           /\ out' = [out EXCEPT ![s] = Append(@, Move(c))]
    BY <1>4 DEF MoveIsMade
  <2>3. board = boards[s] /\ boards[Other(s)] = boards[s] /\ boards[s] \in Boards
    BY <2>1, LatestIs DEF board, Thinks
  <2>4. boards'[s] = [boards[s] EXCEPT ![c] = s] /\ boards'[Other(s)] = boards[s]
    BY <2>2, <2>3
  <2>5. Latest' = s
    <3>1. /\ MarksOn(boards[s]) \in Nat
          /\ MarksOn([boards[s] EXCEPT ![c] = s]) = MarksOn(boards[s]) + 1
      <4> DEFINE b == boards[s]
      <4>1. b \in Boards /\ b[c] = 0
        BY <2>2, <2>3
      <4> HIDE DEF b
      <4>2. MarksOn(b) \in Nat /\ MarksOn([b EXCEPT ![c] = s]) = MarksOn(b) + 1
        BY <4>1, MarksAreCounted
      <4> QED
        BY <4>2 DEF b
    <3>2. MarksOn(boards'[s]) > MarksOn(boards'[Other(s)])
      BY <2>4, <3>1
    <3>3. ~(MarksOn(boards'[Other(s)]) > MarksOn(boards'[s]))
      BY <2>4, <3>1
    <3> QED
      BY <3>2, <3>3, Zenon DEF Latest, Signs
  <2>6. board' = [board EXCEPT ![c] = s]
    BY <2>3, <2>4, <2>5 DEF board
  <2>7. Turn(board) = s /\ Turn(board') = Other(s)
    BY <2>1, <2>2, <2>3, <2>6, MarksAreCounted DEF Thinks
  <2>8. ~Announced'
    <3>1. out'[s] = <<Move(c)>>
      BY <2>1, <2>2, OneMessage DEF Thinks, Silent
    <3>2. \A t \in Signs : EndsIn(out'[t]) => EndsIn(out[t])
      BY <2>2, <3>1
    <3> QED
      BY <1>4, <2>1, <3>2 DEF Announced, MoveIsMade
  <2>9. result = 0 /\ result' = 0 /\ check_game_status(board) = 0
    BY <1>4, <2>1, <2>3, <2>8 DEF result, Thinks, MoveIsMade, GameIsOn
  <2>10. OneBoard!Play(c)
    BY <2>2, <2>3, <2>6, <2>7, <2>9, GameIs
  <2> QED
    BY <2>10 DEF OneBoard!GameNext, OneBoard!Cells, Cells
<1> QED
  BY <1>1, <1>2, <1>3, <1>4

\* Whatever the two clients do through the server, it is a game of tic-tac-toe
\* on one board: nobody moves out of turn, on a marked cell, or after the end.
THEOREM Refinement == Spec => PlaysTheGame
<1>1. IInv /\ [Next]_vars => [OneBoard!GameNext]_OneBoard!gameVars
  <2> SUFFICES ASSUME IInv, [Next]_vars
      PROVE  OneBoard!GameNext \/ UNCHANGED OneBoard!gameVars
    OBVIOUS
  <2>1. ASSUME NEW s \in Signs, Step(s)
        PROVE  OneBoard!GameNext \/ UNCHANGED OneBoard!gameVars
    BY <2>1, ThreadPlays, MessagesPass DEF Step
  <2>2. CASE UNCHANGED vars
    <3>1. board' = board /\ (Announced' <=> Announced)
      BY <2>2 DEF vars, board, Latest, Announced
    <3> QED
      BY <3>1, Stutters
  <2> QED
    BY <2>1, <2>2 DEF Next
<1> QED
  BY <1>1, StartsGame, Invariance, PTL DEF Spec, PlaysTheGame, OneBoard!Game
=============================================================================
