------------------------------ MODULE GameServer ------------------------------
(* The tic-tac-toe server and its clients (lab10/zad1).  The main thread of   *)
(* server.c takes one connection at a time from poll and handles its message  *)
(* under clients_mutex; a second thread pings the players every ten seconds   *)
(* and removes those that did not answer.  When a connection ends, the main   *)
(* thread calls remove_client WITHOUT the mutex, so its steps, and those of   *)
(* the ping thread, are actions of their own here.                            *)
(*                                                                            *)
(* A client is its two threads of client.c: the loop that reads the server's  *)
(* messages and the thread that makes a move (turn).  What is played is left  *)
(* to the module TicTacToe.                                                   *)
EXTENDS Integers, Sequences, FiniteSets

CONSTANTS
    Clients,        \* the client processes; each connects once
    MAX_CLIENTS,    \* slots of the server's table
    Name,           \* the name each client is started with
    NoName,         \* the empty name
    NoClient,       \* a descriptor that is not open
    MaxMoves,       \* bound: moves a client makes
    Quitters,       \* clients that may be interrupted at any time
    Hangers,        \* clients that may stop responding
    CalmPing        \* TRUE: the ten seconds between two rounds of pings are
                    \* enough to answer them

ASSUME GameServerAssumption ==
    /\ IsFiniteSet(Clients) /\ NoClient \notin Clients
    /\ MAX_CLIENTS \in Nat \ {0}
    /\ NoName \notin {Name[c] : c \in Clients}
    /\ MaxMoves \in Nat /\ CalmPing \in BOOLEAN

VARIABLES
    slots,      \* clients[]: fd, name, opponent and active of each slot
    fds,        \* the client at the other end of each open descriptor
    backlog,    \* connections that are not accepted yet
    pc,         \* where the threads of the server are: main and ping
    polled,     \* the descriptors main has given to poll
    fd,         \* main: the descriptor poll_get_fd returned
    msg,        \* main: the parsed contents of its receive buffer
    rem,        \* for each thread, fd, i and j of its call of remove_client
    round,      \* ping: its loop counter
    mutex,      \* clients_mutex is held by the ping thread
    cl,         \* where each client is
    turn,       \* clients whose move thread is running
    moves,      \* moves each client has made
    inbox,      \* what the server has sent to each client
    outbox,     \* what each client has sent to the server
    link        \* how the server sees the end of each client's connection

server == <<slots, fds, backlog, pc, polled, fd, msg, rem, round, mutex>>
client == <<cl, turn, moves, outbox, link>>
vars == <<server, client, inbox>>

Slots == 0 .. MAX_CLIENTS - 1
Fds == 0 .. Cardinality(Clients) - 1
Threads == {"main", "ping"}
FreeSlot == [fd |-> -1, name |-> NoName, opponent |-> -1, active |-> -1]
NoCall == [fd |-> -1, i |-> -1, j |-> -1]
NotPolled == [i \in Slots |-> -1]
NoMsg == [type |-> "none", name |-> NoName]

Init ==
    /\ slots = [i \in Slots |-> FreeSlot]
    /\ fds = [f \in Fds |-> NoClient]
    /\ backlog = {}
    /\ pc = [main |-> "poll", ping |-> "sleep"]
    /\ polled = NotPolled
    /\ fd = -1
    /\ msg = NoMsg
    /\ rem = [t \in Threads |-> NoCall]
    /\ round = 0
    /\ mutex = FALSE
    /\ cl = [c \in Clients |-> "off"]
    /\ turn = {}
    /\ moves = [c \in Clients |-> 0]
    /\ inbox = [c \in Clients |-> <<>>]
    /\ outbox = [c \in Clients |-> <<>>]
    /\ link = [c \in Clients |-> "none"]

-----------------------------------------------------------------------------
(* Descriptors and messages.                                                  *)

IsOpen(f) == f \in Fds /\ fds[f] # NoClient
Registered == {i \in Slots : slots[i].fd # -1}
Named(n) == {i \in Registered : slots[i].name = n}
Least(S) == CHOOSE x \in S : \A y \in S : x <= y
Goto(t, from, to) == pc[t] = from /\ pc' = [pc EXCEPT ![t] = to]

(* send_message: nothing happens when the descriptor is not open, or when     *)
(* the client has gone.                                                       *)
send_message(box, f, type) ==
    IF IsOpen(f) /\ link[fds[f]] = "open"
    THEN [box EXCEPT ![fds[f]] = Append(@, type)]
    ELSE box

close(f) == IF IsOpen(f) THEN [fds EXCEPT ![f] = NoClient] ELSE fds

-----------------------------------------------------------------------------
(* remove_client, called by thread t; after it the thread is at next.         *)

RemoveFinds(t, next) ==
    LET found == {i \in Slots : slots[i].fd = rem[t].fd}
    IN  /\ Goto(t, "remove", IF found = {} THEN next ELSE "opponent")
        /\ rem' = IF found = {} THEN rem
                  ELSE [rem EXCEPT ![t].i = Least(found)]
        /\ UNCHANGED <<slots, fds, inbox>>

RemoveReadsOpponent(t) ==
    LET j == slots[rem[t].i].opponent
    IN  /\ Goto(t, "opponent", IF j # -1 THEN "notify" ELSE "close")
        /\ rem' = [rem EXCEPT ![t].j = j]
        /\ UNCHANGED <<slots, fds, inbox>>

(* Not in the code: the opponent is not told.                                 *)
RemoveNotifiesNobody(t) ==
    /\ Goto(t, "notify", "close_opponent")
    /\ UNCHANGED <<slots, fds, rem, inbox>>

RemoveNotifies(t) ==
    /\ Goto(t, "notify", "close_opponent")
    /\ inbox' = send_message(inbox, slots[rem[t].j].fd, "OPPONENT_DISCONNECTED")
    /\ UNCHANGED <<slots, fds, rem>>

(* close and clearing of one slot: its descriptor first, the rest after it.   *)
RemoveCloses(t, who, from, to) ==
    /\ Goto(t, from, to)
    /\ fds' = close(slots[who].fd)
    /\ slots' = [slots EXCEPT ![who].fd = -1]
    /\ UNCHANGED <<rem, inbox>>
RemoveClears(t, who, from, to) ==
    /\ Goto(t, from, to)
    /\ slots' = [slots EXCEPT ![who] = [FreeSlot EXCEPT !.fd = slots[who].fd]]
    /\ rem' = IF who = rem[t].i THEN [rem EXCEPT ![t] = NoCall] ELSE rem
    /\ UNCHANGED <<fds, inbox>>

(* Not in the code: the opponent of who has left keeps its slot.              *)
RemoveKeepsOpponent(t, next) ==
    \/ RemoveFinds(t, next)
    \/ RemoveReadsOpponent(t)
    \/ Goto(t, "notify", "close") /\ UNCHANGED <<slots, fds, rem, inbox>>
    \/ RemoveCloses(t, rem[t].i, "close", "clear")
    \/ RemoveClears(t, rem[t].i, "clear", next)

remove_client(t, next) ==
    \/ RemoveFinds(t, next)
    \/ RemoveReadsOpponent(t)
    \/ RemoveNotifies(t)
    \/ RemoveCloses(t, rem[t].j, "close_opponent", "clear_opponent")
    \/ RemoveClears(t, rem[t].j, "clear_opponent", "close")
    \/ RemoveCloses(t, rem[t].i, "close", "clear")
    \/ RemoveClears(t, rem[t].i, "clear", next)

Removing(t) == pc[t] \in {"remove", "opponent", "notify", "close_opponent",
                          "clear_opponent", "close", "clear"}

-----------------------------------------------------------------------------
(* The main thread: poll_get_fd.                                              *)

mainVars == <<polled, fd, msg>>
pingVars == <<round, mutex>>

MainCollects ==
    /\ Goto("main", "poll", "polling")
    /\ ~mutex
    /\ polled' = [i \in Slots |-> slots[i].fd]
    /\ UNCHANGED <<slots, fds, backlog, fd, msg, rem, pingVars, client, inbox>>

Ready(f) == IsOpen(f) /\ (outbox[fds[f]] # <<>> \/ link[fds[f]] # "open")
ReadySlots == {i \in Slots : Ready(polled[i])}

(* The listening sockets come first.                                          *)
PollAccepts ==
    /\ Goto("main", "polling", "recv")
    /\ \E c \in backlog :
        /\ backlog' = backlog \ {c}
        /\ LET f == Least({g \in Fds : fds[g] = NoClient})
           IN  fd' = f /\ fds' = [fds EXCEPT ![f] = c]
    /\ polled' = NotPolled
    /\ UNCHANGED <<slots, msg, rem, pingVars, client, inbox>>

PollPicks ==
    /\ Goto("main", "polling", "recv")
    /\ backlog = {} /\ ReadySlots # {}
    /\ fd' = polled[Least(ReadySlots)]
    /\ polled' = NotPolled
    /\ UNCHANGED <<slots, fds, backlog, msg, rem, pingVars, client, inbox>>

(* The ping thread has closed a descriptor that is being polled: poll reports *)
(* an event that is not POLLIN.                                               *)
PollFails ==
    /\ Goto("main", "polling", "recv")
    /\ backlog = {} /\ ReadySlots = {}
    /\ \E i \in Slots : polled[i] # -1 /\ ~IsOpen(polled[i])
    /\ fd' = -1
    /\ polled' = NotPolled
    /\ UNCHANGED <<slots, fds, backlog, msg, rem, pingVars, client, inbox>>

(* server_loop: recv.                                                         *)
RecvMessage ==
    /\ Goto("main", "recv", "dispatch")
    /\ IsOpen(fd) /\ outbox[fds[fd]] # <<>>
    /\ msg' = [type |-> Head(outbox[fds[fd]]), name |-> Name[fds[fd]]]
    /\ outbox' = [outbox EXCEPT ![fds[fd]] = Tail(@)]
    /\ UNCHANGED <<slots, fds, backlog, polled, fd, rem, pingVars,
                   cl, turn, moves, link, inbox>>

RecvEof ==
    /\ Goto("main", "recv", "remove")
    /\ IsOpen(fd) /\ outbox[fds[fd]] = <<>> /\ link[fds[fd]] = "eof"
    /\ rem' = [rem EXCEPT !["main"].fd = fd]
    /\ UNCHANGED <<slots, fds, backlog, mainVars, pingVars, client, inbox>>

(* recv returns -1, which is not looked at: what strtok finds in the buffer   *)
(* is the type of the message before and no name.                             *)
RecvError ==
    /\ Goto("main", "recv", "dispatch")
    /\ \/ ~IsOpen(fd) /\ UNCHANGED link
       \/ /\ IsOpen(fd) /\ outbox[fds[fd]] = <<>> /\ link[fds[fd]] = "reset"
          /\ link' = [link EXCEPT ![fds[fd]] = "eof"]
    /\ msg' = [msg EXCEPT !.name = NoName]
    /\ UNCHANGED <<slots, fds, backlog, polled, fd, rem, pingVars,
                   cl, turn, moves, outbox, inbox>>

MainRemoves ==
    /\ remove_client("main", "poll")
    /\ UNCHANGED <<backlog, mainVars, pingVars, client>>

-----------------------------------------------------------------------------
(* The main thread: the handlers, under clients_mutex.                        *)

Handles(types) ==
    /\ Goto("main", "dispatch", "poll")
    /\ ~mutex
    /\ msg.type \in types
    /\ msg.name # NoName \/ (Registered = {} /\ msg.type # "ADD_CLIENT")
    /\ UNCHANGED <<fds, backlog, mainVars, pingVars, rem, client>>

Occupied(i, opponent, active) ==
    [fd |-> fd, name |-> msg.name, opponent |-> opponent, active |-> active]

(* Not in the code: a client that waits is pinged.                            *)
AddsActive ==
    LET i == Least(Slots \ Registered)
    IN  /\ Handles({"ADD_CLIENT"})
        /\ Registered # Slots /\ i % 2 = 0
        /\ slots' = [slots EXCEPT ![i] = Occupied(i, -1, 1)]
        /\ inbox' = send_message(inbox, fd, "NO_OPPONENT")

(* The first free slot: an even one starts a pair, an odd one completes it.   *)
add_client ==
    LET free == Slots \ Registered
        i == Least(free)
    IN  /\ Handles({"ADD_CLIENT"})
        /\ \/ /\ Named(msg.name) # {}
              /\ inbox' = send_message(inbox, fd, "EXISTING_NAME")
              /\ UNCHANGED slots
           \/ /\ Named(msg.name) = {} /\ free = {}
              /\ inbox' = send_message(inbox, fd, "FULL_SERVER")
              /\ UNCHANGED slots
           \/ /\ Named(msg.name) = {} /\ free # {} /\ i % 2 = 0
              /\ slots' = [slots EXCEPT ![i].fd = fd, ![i].name = msg.name]
              /\ inbox' = send_message(inbox, fd, "NO_OPPONENT")
           \/ /\ Named(msg.name) = {} /\ free # {} /\ i % 2 = 1
              /\ slots' = [slots EXCEPT ![i] = Occupied(i, i - 1, 1),
                                        ![i - 1].opponent = i,
                                        ![i - 1].active = 1]
              /\ inbox' = send_message(send_message(inbox, fd, "START_GAME_O"),
                                       slots[i - 1].fd, "START_GAME_X")

(* Not in the code: the answer of a player counts for its opponent.           *)
PongMarksOpponent ==
    /\ Handles({"PONG"})
    /\ slots' = [i \in Slots |-> IF \E k \in Named(msg.name) : slots[k].opponent = i
                                 THEN [slots[i] EXCEPT !.active = 1]
                                 ELSE slots[i]]
    /\ UNCHANGED inbox

pong ==
    /\ Handles({"PONG"})
    /\ slots' = [i \in Slots |-> IF i \in Named(msg.name)
                                 THEN [slots[i] EXCEPT !.active = 1]
                                 ELSE slots[i]]
    /\ UNCHANGED inbox

(* move and game_end look for the first slot with the name.                   *)
OpponentOf(n) == slots[Least(Named(n))].opponent

(* Not in the code: the move is sent to both, as game_end does.               *)
MoveToBoth ==
    /\ Handles({"MOVE"})
    /\ inbox' = IF Named(msg.name) = {} THEN inbox
                ELSE send_message(send_message(inbox, fd, "MOVE"),
                                  slots[OpponentOf(msg.name)].fd, "MOVE")
    /\ UNCHANGED slots

move ==
    /\ Handles({"MOVE"})
    /\ inbox' = IF Named(msg.name) = {} THEN inbox
                ELSE send_message(inbox, slots[OpponentOf(msg.name)].fd, "MOVE")
    /\ UNCHANGED slots

game_end ==
    /\ Handles({"END_GAME"})
    /\ inbox' = IF Named(msg.name) = {} THEN inbox
                ELSE send_message(send_message(inbox,
                         slots[Least(Named(msg.name))].fd, "END_GAME"),
                         slots[OpponentOf(msg.name)].fd, "END_GAME")
    /\ UNCHANGED slots

(* strcmp or strcpy of the name that is not there.                            *)
ServerCrashes ==
    /\ Goto("main", "dispatch", "crashed")
    /\ ~mutex
    /\ msg.name = NoName /\ (Registered # {} \/ msg.type = "ADD_CLIENT")
    /\ UNCHANGED <<slots, fds, backlog, mainVars, pingVars, rem, client, inbox>>

Main ==
    \/ MainCollects \/ PollAccepts \/ PollPicks \/ PollFails
    \/ RecvMessage \/ RecvEof \/ RecvError \/ MainRemoves
    \/ add_client \/ pong \/ move \/ game_end \/ ServerCrashes

-----------------------------------------------------------------------------
(* The ping thread.                                                           *)

InFlight(c) ==
    \/ cl[c] \in {"listening", "playing"}
       /\ \E k \in DOMAIN inbox[c] : inbox[c][k] = "PING"
    \/ \E k \in DOMAIN outbox[c] : outbox[c][k] = "PONG"
    \/ pc.main = "dispatch" /\ msg = [type |-> "PONG", name |-> Name[c]]

Calm == \A c \in Clients : ~InFlight(c)

PingStarts ==
    /\ Goto("ping", "sleep", "visit")
    /\ ~mutex
    /\ CalmPing => Calm
    /\ mutex' = TRUE
    /\ round' = 0
    /\ UNCHANGED <<slots, fds, backlog, mainVars, rem, client, inbox>>

(* Not in the code: a client that did not answer is left alone.               *)
PingLosesNobody ==
    /\ Goto("ping", "visit",
            IF slots[round].fd # -1 /\ slots[round].active = 1
            THEN "mark" ELSE "next")
    /\ UNCHANGED <<slots, fds, backlog, mainVars, rem, pingVars, client, inbox>>

PingVisits ==
    LET s == slots[round]
    IN  /\ Goto("ping", "visit",
                CASE s.fd # -1 /\ s.active = 1 -> "mark"
                  [] s.fd # -1 /\ s.active = 0 -> "call"
                  [] OTHER -> "next")
        /\ UNCHANGED <<slots, fds, backlog, mainVars, rem, pingVars, client, inbox>>

PingMarks ==
    /\ Goto("ping", "mark", "send")
    /\ slots' = [slots EXCEPT ![round].active = 0]
    /\ UNCHANGED <<fds, backlog, mainVars, rem, pingVars, client, inbox>>

PingSends ==
    /\ Goto("ping", "send", "next")
    /\ inbox' = send_message(inbox, slots[round].fd, "PING")
    /\ UNCHANGED <<slots, fds, backlog, mainVars, rem, pingVars, client>>

PingLosesClient ==
    /\ Goto("ping", "call", "remove")
    /\ rem' = [rem EXCEPT !["ping"].fd = slots[round].fd]
    /\ UNCHANGED <<slots, fds, backlog, mainVars, pingVars, client, inbox>>

PingRemoves ==
    /\ remove_client("ping", "next")
    /\ UNCHANGED <<backlog, mainVars, pingVars, client>>

PingGoesOn ==
    LET last == round = MAX_CLIENTS - 1
    IN  /\ Goto("ping", "next", IF last THEN "sleep" ELSE "visit")
        /\ round' = IF last THEN 0 ELSE round + 1
        /\ mutex' = ~last
        /\ UNCHANGED <<slots, fds, backlog, mainVars, rem, client, inbox>>

Ping ==
    /\ pc.main # "crashed"
    /\ \/ PingStarts \/ PingVisits \/ PingMarks \/ PingSends
       \/ PingLosesClient \/ PingRemoves \/ PingGoesOn

-----------------------------------------------------------------------------
(* The clients.                                                               *)

clientRest == <<slots, fds, backlog, pc, mainVars, rem, pingVars>>

(* main: connect and the request to be added.                                 *)
ClientStarts(c) ==
    /\ cl[c] = "off" /\ pc.main # "crashed"
    /\ cl' = [cl EXCEPT ![c] = "listening"]
    /\ link' = [link EXCEPT ![c] = "open"]
    /\ outbox' = [outbox EXCEPT ![c] = <<"ADD_CLIENT">>]
    /\ backlog' = backlog \cup {c}
    /\ UNCHANGED <<slots, fds, pc, mainVars, rem, pingVars, turn, moves, inbox>>

(* The process ends; what it has not read makes the server see a reset        *)
(* instead of the end of the connection.                                      *)
Exit(c, unread) ==
    /\ cl' = [cl EXCEPT ![c] = "gone"]
    /\ turn' = turn \ {c}
    /\ link' = [link EXCEPT ![c] = IF unread = <<>> THEN "eof" ELSE "reset"]
    /\ inbox' = [inbox EXCEPT ![c] = <<>>]
    /\ UNCHANGED <<moves, outbox>>

Receives(c, where, types) ==
    /\ cl[c] = where /\ inbox[c] # <<>> /\ Head(inbox[c]) \in types
    /\ UNCHANGED clientRest
Taken(c) == inbox' = [inbox EXCEPT ![c] = Tail(@)]

(* listen_for_game_start.                                                     *)
ClientWaits(c) ==
    /\ Receives(c, "listening", {"NO_OPPONENT"})
    /\ Taken(c)
    /\ UNCHANGED client

ClientPlays(c) ==
    /\ Receives(c, "listening", {"START_GAME_O", "START_GAME_X"})
    /\ Taken(c)
    /\ cl' = [cl EXCEPT ![c] = "playing"]
    /\ turn' = IF Head(inbox[c]) = "START_GAME_O" THEN turn \cup {c} ELSE turn
    /\ UNCHANGED <<moves, outbox, link>>

ClientGivesUp(c) ==
    /\ Receives(c, "listening", {"EXISTING_NAME", "FULL_SERVER", "MOVE", "PING",
                                 "OPPONENT_DISCONNECTED", "END_GAME"})
    /\ Exit(c, Tail(inbox[c]))

(* game: the loop that reads messages.                                        *)
ClientGetsMove(c) ==
    /\ Receives(c, "playing", {"MOVE"})
    /\ Taken(c)
    /\ turn' = turn \cup {c}
    /\ UNCHANGED <<cl, moves, outbox, link>>

ClientGetsPing(c) ==
    /\ Receives(c, "playing", {"PING"})
    /\ Taken(c)
    /\ outbox' = [outbox EXCEPT ![c] = Append(@, "PONG")]
    /\ UNCHANGED <<cl, turn, moves, link>>

ClientEnds(c) ==
    /\ Receives(c, "playing", {"OPPONENT_DISCONNECTED", "END_GAME"})
    /\ Exit(c, Tail(inbox[c]))

(* move: the thread finds the game over, or makes a move.                     *)
ClientMoves(c) ==
    /\ cl[c] = "playing" /\ c \in turn /\ moves[c] < MaxMoves
    /\ outbox' = [outbox EXCEPT ![c] = Append(@, "MOVE")]
    /\ moves' = [moves EXCEPT ![c] = @ + 1]
    /\ turn' = turn \ {c}
    /\ UNCHANGED <<cl, link, inbox, clientRest>>

ClientFindsGameOver(c) ==
    /\ cl[c] = "playing" /\ c \in turn /\ moves[c] > 0
    /\ outbox' = [outbox EXCEPT ![c] = Append(@, "END_GAME")]
    /\ turn' = turn \ {c}
    /\ UNCHANGED <<cl, moves, link, inbox, clientRest>>

(* The server has closed the connection, or is gone.                          *)
ServerLeft(c) ==
    \/ pc.main = "crashed"
    \/ c \notin backlog /\ \A f \in Fds : fds[f] # c

(* recv returns 0, which is not looked at: the client crashes on the missing  *)
(* data of the message before, or reads that message for ever.                *)
ClientLosesServer(c) ==
    /\ cl[c] \in {"listening", "playing"} /\ inbox[c] = <<>> /\ ServerLeft(c)
    /\ \/ Exit(c, <<>>)
       \/ /\ cl' = [cl EXCEPT ![c] = "spins"]
          /\ turn' = turn \ {c}
          /\ UNCHANGED <<moves, outbox, link, inbox>>
    /\ UNCHANGED clientRest

ClientQuits(c) ==
    /\ c \in Quitters /\ cl[c] \in {"listening", "playing"}
    /\ Exit(c, inbox[c])
    /\ UNCHANGED clientRest

ClientHangs(c) ==
    /\ c \in Hangers /\ cl[c] \in {"listening", "playing"}
    /\ cl' = [cl EXCEPT ![c] = "hung"]
    /\ turn' = turn \ {c}
    /\ UNCHANGED <<moves, outbox, link, inbox, clientRest>>

Client(c) ==
    \/ ClientStarts(c) \/ ClientWaits(c) \/ ClientPlays(c) \/ ClientGivesUp(c)
    \/ ClientGetsMove(c) \/ ClientGetsPing(c) \/ ClientEnds(c)
    \/ ClientMoves(c) \/ ClientFindsGameOver(c)
    \/ ClientLosesServer(c) \/ ClientQuits(c) \/ ClientHangs(c)

-----------------------------------------------------------------------------
Next == Main \/ Ping \/ \E c \in Clients : Client(c)

Spec == Init /\ [][Next]_vars

(* The threads of the server are scheduled, and clients_mutex is granted to   *)
(* a thread that keeps asking for it.                                         *)
FairSpec == Spec /\ SF_vars(Main) /\ SF_vars(Ping)

-----------------------------------------------------------------------------
Live(c) == cl[c] \in {"listening", "playing"}
Quiet == ~Removing("main") /\ ~Removing("ping")

TypeOK ==
    /\ slots \in [Slots -> [fd : {-1} \cup Fds,
                            name : {NoName} \cup {Name[c] : c \in Clients},
                            opponent : {-1} \cup Slots, active : {-1, 0, 1}]]
    /\ fds \in [Fds -> Clients \cup {NoClient}]
    /\ backlog \subseteq Clients
    /\ fd \in {-1} \cup Fds
    /\ round \in Slots /\ mutex \in BOOLEAN
    /\ cl \in [Clients -> {"off", "listening", "playing", "gone", "spins", "hung"}]
    /\ \A c \in Clients : moves[c] \in 0 .. MaxMoves
    /\ \A c \in Clients : Cardinality({k \in DOMAIN inbox[c] : inbox[c][k] = "PING"}) <= 1

(* The table between two removals: the slots 2k and 2k+1 are either free, or  *)
(* hold a client that waits in the even one, or two clients that are each     *)
(* other's opponents.                                                         *)
Paired ==
    Quiet => \A i \in Slots : i % 2 = 0 =>
        LET pair == {i, i + 1} \cap Slots
        IN  \/ /\ pair \cap Registered \subseteq {i}
               /\ \A k \in pair : slots[k].opponent = -1
            \/ /\ {i, i + 1} \subseteq Registered
               /\ slots[i].opponent = i + 1 /\ slots[i + 1].opponent = i

(* A slot keeps the descriptor of its own client's open connection, and no    *)
(* name is there twice: no message of a client can be taken for another's,    *)
(* also when a descriptor number is used again.                               *)
OwnConnection ==
    Quiet => \A i \in Registered :
        /\ IsOpen(slots[i].fd) /\ Name[fds[slots[i].fd]] = slots[i].name
        /\ \A k \in Registered \ {i} : slots[k].fd # slots[i].fd
                                       /\ slots[k].name # slots[i].name

(* A client that has not started its game never gets a message that makes     *)
(* listen_for_game_start give up: the start comes before any ping or move.    *)
StartComesFirst ==
    \A c \in Clients : cl[c] = "listening" => \A k \in DOMAIN inbox[c] :
        inbox[c][k] \in {"MOVE", "PING", "END_GAME"} =>
            \E m \in 1 .. k - 1 : inbox[c][m] \in {"START_GAME_O", "START_GAME_X"}

(* The right to move in a pair is in one place only: a running move thread,   *)
(* or a message on its way to start one or to end the game.                   *)
Tokens(c) ==
    (IF c \in turn THEN {<<c, "turn">>} ELSE {})
    \cup {<<c, "in", k>> : k \in {k \in DOMAIN inbox[c] :
                                  inbox[c][k] \in {"MOVE", "START_GAME_O"}}}
    \cup {<<c, "out", k>> : k \in {k \in DOMAIN outbox[c] :
                                   outbox[c][k] \in {"MOVE", "END_GAME"}}}
    \cup (IF pc.main = "dispatch" /\ msg.name = Name[c]
             /\ msg.type \in {"MOVE", "END_GAME"}
          THEN {<<c, "server">>} ELSE {})
OneMove ==
    \A i \in Registered : slots[i].opponent \in Registered =>
        LET c == fds[slots[i].fd]
            d == fds[slots[slots[i].opponent].fd]
        IN  Quiet => Cardinality(Tokens(c) \cup Tokens(d)) <= 1

(* When move or game_end looks up the opponent of a registered client, there  *)
(* is one: opponent is never used as an index while it is -1.                 *)
MoveHasOpponent ==
    pc.main = "dispatch" /\ msg.type \in {"MOVE", "END_GAME"} /\ ~mutex
        /\ Named(msg.name) # {} => OpponentOf(msg.name) \in Registered

(* However main and the ping thread remove clients past each other, the table *)
(* is the one all handlers rely on: clients are paired, each with its own     *)
(* connection, and a move has somebody to go to.                              *)
TableIsSound == TypeOK /\ Paired /\ OwnConnection /\ MoveHasOpponent

(* The ping thread gives up no player that still answers, also while main     *)
(* frees the slots of others.  A client that waits for its opponent is not    *)
(* safe: its slot may keep the mark of a player that main removed as the ping *)
(* thread marked it.                                                          *)
LiveIsKept ==
    pc.ping = "call" =>
        LET f == slots[round].fd
        IN  IsOpen(f) /\ Live(fds[f]) => slots[round].opponent = -1

(* A player whose connection the server closes has been told why.             *)
PlayerIsTold ==
    \A c \in Clients : cl[c] = "playing" /\ pc.main # "crashed" /\ ServerLeft(c) =>
        \E k \in DOMAIN inbox[c] : inbox[c][k] \in {"OPPONENT_DISCONNECTED", "END_GAME"}

(* A player that stops responding does not keep its pair of slots.            *)
HungIsNoticed ==
    \A c \in Clients :
        (cl[c] = "hung" /\ \E i \in Registered : slots[i].name = Name[c]
                                                 /\ slots[i].opponent # -1)
        ~> (Named(Name[c]) = {} \/ pc.main = "crashed")
==============================================================================
