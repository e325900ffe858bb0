-------------------------- MODULE GameServerProofs --------------------------
(***************************************************************************)
(* Proofs about GameServer: the server's table stays sound, for any number *)
(* of clients and slots, with names used twice, and however the main and   *)
(* the ping thread remove clients past each other.  When the ten seconds   *)
(* between two rounds of pings are enough to answer them (CalmPing), the   *)
(* ping thread removes no player who still answers, and a player whose     *)
(* connection the server closes is told why.  Of two opponents one at most *)
(* has the right to move, with pings at any moment.                        *)
(***************************************************************************)
EXTENDS GameServer, FiniteSetTheorems, WellFoundedInduction, TLAPS

-------------------------------------------------------------------------------
(* The inductive invariant *)

RemovalSteps == {"opponent", "notify", "close_opponent", "clear_opponent", "close", "clear"}
MainSteps == {"poll", "polling", "recv", "dispatch", "crashed", "remove"} \cup RemovalSteps
PingSteps == {"sleep", "visit", "mark", "send", "call", "next", "remove"} \cup RemovalSteps

Starts == {"START_GAME_O", "START_GAME_X"}
GameNews == Starts \cup {"PING", "MOVE"}
Plays == {"MOVE", "END_GAME", "PONG"}
Orders == {"ADD_CLIENT"} \cup Plays
News == Starts \cup {"NO_OPPONENT", "EXISTING_NAME", "FULL_SERVER", "MOVE", "PING",
                     "OPPONENT_DISCONNECTED", "END_GAME"}
Has(q, types) == \E k \in DOMAIN q : q[k] \in types
Once(q, type) == \A k, m \in DOMAIN q : q[k] = type /\ q[m] = type => k = m
StartIsFirst(q) ==
    \A k \in DOMAIN q : q[k] \in {"MOVE", "PING", "END_GAME"} =>
        \E m \in 1 .. k - 1 : q[m] \in Starts

\* Where the threads are; the ping thread has the mutex except when it sleeps.
Places ==
    /\ pc \in [{"main", "ping"} -> MainSteps \cup PingSteps]
    /\ pc.main \in MainSteps /\ pc.ping \in PingSteps
    /\ mutex \in BOOLEAN /\ (mutex <=> pc.ping # "sleep")
    /\ round \in Slots

Names == {NoName} \cup {Name[c] : c \in Clients}
Slot == [fd : {-1} \cup Fds, name : Names, opponent : {-1} \cup Slots, active : {-1, 0, 1}]
Call == [fd : {-1} \cup Fds, i : {-1} \cup Slots, j : {-1} \cup Slots]
Message == [type : {"none"} \cup Orders, name : Names]

TableType == slots \in [Slots -> Slot]
CallType == rem \in [Threads -> Call]
MessageType == msg \in Message
SocketTypes ==
    /\ fds \in [Fds -> Clients \cup {NoClient}]
    /\ backlog \in SUBSET Clients
    /\ polled \in [Slots -> {-1} \cup Fds]
    /\ fd \in {-1} \cup Fds
ClientTypes ==
    /\ cl \in [Clients -> {"off", "listening", "playing", "gone", "spins", "hung"}]
    /\ moves \in [Clients -> 0 .. MaxMoves]
    /\ link \in [Clients -> {"none", "open", "eof", "reset"}]
QueueTypes ==
    /\ inbox \in [Clients -> Seq(News)]
    /\ outbox \in [Clients -> Seq(Orders)]
Types == TableType /\ CallType /\ MessageType /\ SocketTypes /\ ClientTypes /\ QueueTypes

\* A client that cannot have sent or got anything of a game.
NotStarted(c) ==
    /\ cl[c] # "playing"
    /\ ~Has(inbox[c], GameNews)
    /\ ~Has(outbox[c], Plays)

Connected(c) == \E f \in Fds : fds[f] = c

\* Each client has one connection, and asks to be added when it is made.
Connections ==
    /\ \A f, g \in Fds : fds[f] = fds[g] /\ fds[f] # NoClient => f = g
    /\ \A c \in Clients : cl[c] = "off" =>
         ~Connected(c) /\ c \notin backlog /\ NotStarted(c)
    /\ \A c \in backlog :
         ~Connected(c) /\ NotStarted(c) /\ outbox[c] = <<"ADD_CLIENT">>

\* A slot has the open descriptor of its own client, also while others are
\* removed.
Owned ==
    \A i \in Slots : slots[i].fd # -1 =>
        /\ fds[slots[i].fd] # NoClient
        /\ Name[fds[slots[i].fd]] = slots[i].name
        /\ \A k \in Slots : slots[k].fd # -1 /\ k # i =>
              slots[k].fd # slots[i].fd /\ slots[k].name # slots[i].name

\* Who waits for an opponent has not started, and has sent its order already.
Waiting ==
    \A i \in Slots : slots[i].fd # -1 =>
        /\ ~Has(outbox[fds[slots[i].fd]], {"ADD_CLIENT"})
        /\ slots[i].opponent = -1 => NotStarted(fds[slots[i].fd])

InTable(f) == \E i \in Slots : slots[i].fd = f

\* What main knows of the descriptor it handles.
Handling ==
    /\ pc.main = "polling" => \A i \in Slots : IsOpen(polled[i]) => InTable(polled[i])
    /\ pc.main = "recv" /\ IsOpen(fd) /\ ~InTable(fd) =>
         NotStarted(fds[fd]) /\ outbox[fds[fd]] = <<"ADD_CLIENT">>
    /\ pc.main = "dispatch" /\ msg.name # NoName =>
         IF msg.type = "ADD_CLIENT"
         THEN /\ IsOpen(fd) /\ ~InTable(fd)
              /\ Name[fds[fd]] = msg.name
              /\ NotStarted(fds[fd]) /\ outbox[fds[fd]] = <<>>
         ELSE /\ msg.type \in Plays
              /\ \A i \in Slots : slots[i].fd # -1 /\ slots[i].name = msg.name =>
                   slots[i].fd = fd /\ slots[i].opponent # -1

Partner(i) == IF i % 2 = 0 THEN i + 1 ELSE i - 1

\* Which slots a call of remove_client has still to clear, and to close.
WillClear(t) ==
    CASE pc[t] \in {"notify", "close_opponent", "clear_opponent"} -> {rem[t].i, rem[t].j}
      [] pc[t] \in {"opponent", "close", "clear"} -> {rem[t].i}
      [] OTHER -> {}
WillClose(t) ==
    CASE pc[t] \in {"notify", "close_opponent"} -> {rem[t].i, rem[t].j}
      [] pc[t] \in {"opponent", "clear_opponent", "close"} -> {rem[t].i}
      [] OTHER -> {}

PairedSlot(k) ==
    /\ slots[k].fd # -1
    /\ slots[Partner(k)].fd # -1 /\ slots[Partner(k)].opponent = k
Doomed(k) ==
    /\ \E t \in Threads : k \in WillClear(t)
    /\ slots[k].fd # -1 => \E t \in Threads : k \in WillClose(t)

\* A slot with an opponent is one of a pair, or will be free when the calls of
\* remove_client have ended; an odd slot is not taken by one who waits.
Pairs ==
    \A k \in Slots :
        /\ slots[k].opponent # -1 =>
             /\ slots[k].opponent = Partner(k) /\ Partner(k) \in Slots
             /\ PairedSlot(k) \/ Doomed(k)
        /\ slots[k].opponent = -1 =>
             /\ slots[k].fd # -1 => k % 2 = 0
             /\ slots[k].active # 1

\* How far a call of remove_client has come with its two slots.
Removals ==
    \A t \in Threads :
        /\ pc[t] \in RemovalSteps => rem[t].i \in Slots
        /\ pc[t] \in {"notify", "close_opponent", "clear_opponent"} =>
             rem[t].j \in Slots /\ rem[t].j = Partner(rem[t].i)
        /\ pc[t] = "clear_opponent" => slots[rem[t].j].fd = -1
        /\ pc[t] = "close" =>
             slots[rem[t].i].opponent = -1 \/ slots[Partner(rem[t].i)].fd = -1
        /\ pc[t] = "clear" => slots[rem[t].i].fd = -1

\* A client is pinged again only after its answer has come.
Answering(c) == pc.main = "dispatch" /\ msg.type = "PONG" /\ msg.name # NoName
                /\ IsOpen(fd) /\ fds[fd] = c
Pinged(c) == Has(inbox[c], {"PING"}) \/ Has(outbox[c], {"PONG"}) \/ Answering(c)
Pings ==
    /\ \A c \in Clients :
         /\ Once(inbox[c], "PING") /\ Once(outbox[c], "PONG")
         /\ Has(inbox[c], {"PING"}) => ~Has(outbox[c], {"PONG"}) /\ ~Answering(c)
         /\ Has(outbox[c], {"PONG"}) => ~Answering(c)
    /\ \A i \in Slots : slots[i].fd # -1 =>
         /\ slots[i].active # 0 => ~Pinged(fds[slots[i].fd])
         /\ pc.ping = "mark" /\ i = round => slots[i].active = 1
         /\ pc.ping = "send" /\ i = round =>
              ~Pinged(fds[slots[i].fd]) /\ slots[i].active = 0 /\ slots[i].opponent # -1

\* Who has an opponent but has not started yet will find a start.
Starting ==
    /\ \A c \in Clients : cl[c] \in {"off", "listening"} => StartIsFirst(inbox[c])
    /\ \A i \in Slots : slots[i].fd # -1 /\ slots[i].opponent # -1 =>
          LET c == fds[slots[i].fd]
          IN  cl[c] = "listening" /\ link[c] = "open" => Has(inbox[c], Starts)

IInv == /\ Places /\ Types /\ Connections /\ Owned /\ Waiting /\ Handling
        /\ Pairs /\ Removals /\ Pings /\ Starting

-------------------------------------------------------------------------------
(* Sets of numbers, descriptors and queues *)

\* The first of some slots or descriptors is one of them.
LEMMA LeastIs == ASSUME NEW S \in SUBSET Nat, S # {}
                 PROVE  Least(S) \in S /\ \A k \in S : Least(S) <= k
<1>1. \E k \in S : \A m \in S : ~(<<m, k>> \in OpToRel(<, Nat))
  BY WFMin, NatLessThanWellFounded, Zenon
<1>2. \A k, m \in Nat : <<m, k>> \in OpToRel(<, Nat) <=> m < k
  BY DEF OpToRel
<1>3. \E k \in S : \A m \in S : ~(m < k)
  BY <1>1, <1>2, Zenon
<1>4. \A k, m \in Nat : ~(m < k) <=> k <= m
  OBVIOUS
<1>5. \E k \in S : \A m \in S : k <= m
  BY <1>3, <1>4, Zenon
<1> QED
  BY <1>5 DEF Least

\* Slots, descriptors and no descriptor are different.
LEMMA Numbers ==
    /\ Slots \in SUBSET Nat /\ Fds \in SUBSET Nat
    /\ -1 \notin Slots /\ -1 \notin Fds /\ 0 \in Slots /\ MAX_CLIENTS \in Nat \ {0}
    /\ \A i \in Slots : i \in Nat /\ i < MAX_CLIENTS
    /\ IsFiniteSet(Fds) /\ Cardinality(Fds) = Cardinality(Clients)
<1>1. Cardinality(Clients) \in Nat
  BY GameServerAssumption, FS_CardinalityType
<1>2. \A n \in Nat : IsFiniteSet(0 .. n - 1) /\ Cardinality(0 .. n - 1) = n
  <2> SUFFICES ASSUME NEW n \in Nat
      PROVE  IsFiniteSet(0 .. n - 1) /\ Cardinality(0 .. n - 1) = n
    OBVIOUS
  <2> QED
    BY FS_Interval
<1> QED
  BY <1>1, <1>2, GameServerAssumption DEF Slots, Fds

\* There is a descriptor for each connection that is accepted.
LEMMA FreeDescriptor ==
    ASSUME SocketTypes, Connections, NEW c \in backlog
    PROVE  LET f == Least({g \in Fds : fds[g] = NoClient})
           IN  f \in Fds /\ fds[f] = NoClient
<1> DEFINE free == {g \in Fds : fds[g] = NoClient}
<1>1. free # {}
  <2> SUFFICES ASSUME free = {} PROVE FALSE
    OBVIOUS
  <2>1. c \in Clients /\ IsFiniteSet(Clients \ {c})
        /\ Cardinality(Clients \ {c}) = Cardinality(Clients) - 1
    BY GameServerAssumption, FS_RemoveElement DEF SocketTypes
  <2>2. Cardinality(Clients) \in Nat
    BY GameServerAssumption, FS_CardinalityType
  <2>3. fds \in [Fds -> Clients \ {c}]
    BY DEF SocketTypes, Connections, Connected
  <2>4. \E f, g \in Fds : f # g /\ fds[f] = fds[g]
    <3>1. Cardinality(Clients \ {c}) < Cardinality(Fds)
      BY <2>1, <2>2, Numbers
    <3> QED
      <4> DEFINE T == Clients \ {c}
      <4>1. IsFiniteSet(Fds) /\ IsFiniteSet(T) /\ Cardinality(T) < Cardinality(Fds)
        BY <2>1, <3>1, Numbers
      <4>2. fds \in [Fds -> T]
        BY <2>3
      <4> HIDE DEF T
      <4> QED
        BY <4>1, <4>2, FS_PigeonHole
  <2> QED
    BY <2>3, <2>4, GameServerAssumption DEF Connections
<1>2. free \in SUBSET Nat
  BY Numbers
<1> QED
  BY <1>1, <1>2, LeastIs

\* What Has says of a queue that grows at its end or loses its head.
LEMMA HasQueue ==
    ASSUME NEW S, NEW q \in Seq(S), NEW T
    PROVE  /\ \A m : Has(Append(q, m), T) <=> Has(q, T) \/ m \in T
           /\ q # <<>> => /\ Has(q, T) <=> Head(q) \in T \/ Has(Tail(q), T)
           /\ ~Has(<<>>, T)
<1>1. \A m : Has(Append(q, m), T) <=> Has(q, T) \/ m \in T
  <2> SUFFICES ASSUME NEW m PROVE Has(Append(q, m), T) <=> Has(q, T) \/ m \in T
    OBVIOUS
  <2>1. /\ DOMAIN Append(q, m) = 1 .. Len(q) + 1 /\ DOMAIN q = 1 .. Len(q) /\ Len(q) \in Nat
        /\ Append(q, m)[Len(q) + 1] = m
        /\ \A k \in 1 .. Len(q) : Append(q, m)[k] = q[k]
    OBVIOUS
  <2>2. \A k : k \in 1 .. Len(q) + 1 <=> k \in 1 .. Len(q) \/ k = Len(q) + 1
    BY <2>1
  <2> HIDE <2>1
  <2> DEFINE r == Append(q, m)
  <2>3. (\E k \in DOMAIN r : r[k] \in T) <=> (\E k \in DOMAIN q : q[k] \in T) \/ m \in T
    BY <2>1, <2>2, Zenon
  <2> QED
    BY <2>3, Zenon DEF Has
<1>2. ASSUME q # <<>> PROVE Has(q, T) <=> Head(q) \in T \/ Has(Tail(q), T)
  <2>1. /\ DOMAIN q = 1 .. Len(q) /\ Len(q) \in Nat \ {0} /\ Head(q) = q[1]
        /\ DOMAIN Tail(q) = 1 .. Len(q) - 1
        /\ \A k \in 1 .. Len(q) - 1 : Tail(q)[k] = q[k + 1]
    BY <1>2
  <2>2. \A k \in DOMAIN q : k = 1 \/ (k - 1 \in DOMAIN Tail(q) /\ Tail(q)[k - 1] = q[k])
    BY <2>1
  <2>3. \A k \in DOMAIN Tail(q) : k + 1 \in DOMAIN q /\ Tail(q)[k] = q[k + 1]
    BY <2>1
  <2>4. 1 \in DOMAIN q
    BY <2>1
  <2> QED
    BY <2>1, <2>2, <2>3, <2>4, Zenon DEF Has
<1>3. ~Has(<<>>, T)
  <2>1. DOMAIN <<>> = {}
    OBVIOUS
  <2> QED
    BY <2>1, Zenon DEF Has
<1> QED
  BY <1>1, <1>2, <1>3

\* A queue that loses messages, and what its first message says of it.
LEMMA Loses ==
    ASSUME NEW S, NEW q \in Seq(S), NEW T, NEW r,
           r = q \/ r = <<>> \/ (q # <<>> /\ r = Tail(q)), ~Has(q, T)
    PROVE  ~Has(r, T)
<1>1. ~Has(<<>>, T) /\ (q # <<>> => ~Has(Tail(q), T))
  BY HasQueue
<1> QED
  BY <1>1, Zenon

\* A queue that begins with an order of kind T has an order of kind T.
LEMMA FirstIs ==
    ASSUME NEW S, NEW q \in Seq(S), q # <<>>, NEW T, Head(q) \in T
    PROVE  Has(q, T)
BY HasQueue

\* A queue with one order.
LEMMA OneOrder ==
    /\ \A m, T : Has(<<m>>, T) <=> m \in T
    /\ \A m : <<m>> # <<>> /\ Head(<<m>>) = m /\ Tail(<<m>>) = <<>>
<1>1. \A m : DOMAIN <<m>> = {1} /\ <<m>>[1] = m
  OBVIOUS
<1>2. \A m, T : Has(<<m>>, T) <=> m \in T
  BY <1>1, Zenon DEF Has
<1>3. \A m : <<m>> # <<>> /\ Head(<<m>>) = m /\ Tail(<<m>>) = <<>>
  OBVIOUS
<1> QED
  BY <1>2, <1>3

-------------------------------------------------------------------------------
(* The steps of remove_client, called by either thread. *)

After(t) == IF t = "main" THEN "poll" ELSE "next"
ClosesOpponent(t) == RemoveCloses(t, rem[t].j, "close_opponent", "clear_opponent")
ClearsOpponent(t) == RemoveClears(t, rem[t].j, "clear_opponent", "close")
ClosesSlot(t) == RemoveCloses(t, rem[t].i, "close", "clear")
ClearsSlot(t) == RemoveClears(t, rem[t].i, "clear", After(t))
Removes(t) ==
    /\ UNCHANGED <<backlog, mainVars, pingVars, client>>
    /\ \/ RemoveFinds(t, After(t)) \/ RemoveReadsOpponent(t) \/ RemoveNotifies(t)
       \/ ClosesOpponent(t) \/ ClearsOpponent(t) \/ ClosesSlot(t) \/ ClearsSlot(t)

\* Next, with the steps of remove_client taken together.
LEMMA StepsAre ==
    ASSUME [Next]_vars
    PROVE  \/ MainCollects \/ PollAccepts \/ PollPicks \/ PollFails
           \/ RecvMessage \/ RecvEof \/ RecvError
           \/ add_client \/ pong \/ move \/ game_end \/ ServerCrashes
           \/ PingStarts \/ PingVisits \/ PingMarks \/ PingSends \/ PingLosesClient \/ PingGoesOn
           \/ \E t \in Threads : Removes(t)
           \/ \E c \in Clients : Client(c)
           \/ UNCHANGED vars
BY Zenon DEF Next, Main, Ping, MainRemoves, PingRemoves, remove_client, Removes, After, Threads,
       ClosesOpponent, ClearsOpponent, ClosesSlot, ClearsSlot

\* The threads keep to their own steps, and the ping thread to the mutex.
LEMMA PlacesKept == ASSUME Places, [Next]_vars PROVE Places'
<1> USE Numbers DEF Places, MainSteps, PingSteps, RemovalSteps, Goto, mainVars, pingVars, client, Slots, Threads
<1>1. CASE MainCollects
  BY <1>1 DEF MainCollects
<1>2. CASE PollAccepts
  BY <1>2 DEF PollAccepts
<1>3. CASE PollPicks
  BY <1>3 DEF PollPicks
<1>4. CASE PollFails
  BY <1>4 DEF PollFails
<1>5. CASE RecvMessage
  BY <1>5 DEF RecvMessage
<1>6. CASE RecvEof
  BY <1>6 DEF RecvEof
<1>7. CASE RecvError
  BY <1>7 DEF RecvError
<1>8. CASE add_client
  BY <1>8 DEF add_client, Handles, Occupied
<1>9. CASE pong
  BY <1>9 DEF pong, Handles
<1>10. CASE move
  BY <1>10 DEF move, Handles
<1>11. CASE game_end
  BY <1>11 DEF game_end, Handles
<1>12. CASE ServerCrashes
  BY <1>12 DEF ServerCrashes
<1>13. CASE PingStarts
  BY <1>13 DEF PingStarts
<1>14. CASE PingVisits
  BY <1>14 DEF PingVisits
<1>15. CASE PingMarks
  BY <1>15 DEF PingMarks
<1>16. CASE PingSends
  BY <1>16 DEF PingSends
<1>17. CASE PingLosesClient
  BY <1>17 DEF PingLosesClient
<1>18. CASE PingGoesOn
  <2>1. CASE round = MAX_CLIENTS - 1
    BY <1>18, <2>1 DEF PingGoesOn
  <2>2. CASE round # MAX_CLIENTS - 1
    <3>1. round + 1 \in Slots
      BY <2>2
    <3>2. mutex' = TRUE /\ round' = round + 1 /\ pc' = [pc EXCEPT !["ping"] = "visit"]
      BY <1>18, <2>2 DEF PingGoesOn
    <3> QED
      BY <3>1, <3>2
  <2> QED
    BY <2>1, <2>2
<1>19. ASSUME NEW t \in Threads, Removes(t) PROVE Places'
  <2> USE <1>19 DEF Removes, After, mainVars, pingVars, client
  <2>1. CASE RemoveFinds(t, After(t))
    BY <2>1 DEF RemoveFinds
  <2>2. CASE RemoveReadsOpponent(t)
    BY <2>2 DEF RemoveReadsOpponent
  <2>3. CASE RemoveNotifies(t)
    BY <2>3 DEF RemoveNotifies
  <2>4. CASE ClosesOpponent(t)
    BY <2>4 DEF ClosesOpponent, RemoveCloses
  <2>5. CASE ClearsOpponent(t)
    BY <2>5 DEF ClearsOpponent, RemoveClears
  <2>6. CASE ClosesSlot(t)
    BY <2>6 DEF ClosesSlot, RemoveCloses
  <2>7. CASE ClearsSlot(t)
    BY <2>7 DEF ClearsSlot, RemoveClears
  <2> QED
    BY <2>1, <2>2, <2>3, <2>4, <2>5, <2>6, <2>7
<1>20. ASSUME NEW c \in Clients, Client(c) PROVE Places'
  BY <1>20 DEF Client, clientRest, ClientStarts, ClientWaits, ClientPlays, ClientGivesUp, ClientGetsMove, ClientGetsPing, ClientEnds, ClientMoves, ClientFindsGameOver, ClientLosesServer, ClientQuits, ClientHangs, Receives, Taken, Exit
<1>21. CASE UNCHANGED vars
  BY <1>21 DEF vars, server
<1> QED
  BY StepsAre, <1>1, <1>2, <1>3, <1>4, <1>5, <1>6, <1>7, <1>8, <1>9, <1>10, <1>11, <1>12, <1>13, <1>14, <1>15, <1>16, <1>17, <1>18, <1>19, <1>20, <1>21

\* What send_message does to the inboxes.
LEMMA SendIs ==
    ASSUME SocketTypes, NEW box \in [Clients -> Seq(News)], NEW f, NEW type \in News
    PROVE  /\ send_message(box, f, type) \in [Clients -> Seq(News)]
           /\ \A c \in Clients :
                \/ send_message(box, f, type)[c] = box[c]
                \/ /\ IsOpen(f) /\ fds[f] = c
                   /\ send_message(box, f, type)[c] = Append(box[c], type)
           /\ \A c \in Clients : IsOpen(f) /\ fds[f] = c /\ link[c] = "open" =>
                send_message(box, f, type)[c] = Append(box[c], type)
<1>1. CASE IsOpen(f) /\ link[fds[f]] = "open"
  <2>1. fds[f] \in Clients
    BY <1>1 DEF IsOpen, SocketTypes
  <2>2. send_message(box, f, type) = [box EXCEPT ![fds[f]] = Append(@, type)]
    BY <1>1 DEF send_message
  <2> QED
    BY <1>1, <2>1, <2>2
<1>2. CASE ~(IsOpen(f) /\ link[fds[f]] = "open")
  BY <1>2 DEF send_message
<1> QED
  BY <1>1, <1>2

\* The fields of a slot, of a call of remove_client and of a message.
LEMMA Fields ==
    /\ \A s \in Slot :
         /\ s.fd \in {-1} \cup Fds /\ s.name \in Names
         /\ s.opponent \in {-1} \cup Slots /\ s.active \in {-1, 0, 1}
         /\ \A v \in {-1} \cup Fds : [s EXCEPT !.fd = v] \in Slot
         /\ \A v \in {-1, 0, 1} : [s EXCEPT !.active = v] \in Slot
         /\ \A n \in Names : [s EXCEPT !.name = n] \in Slot
         /\ \A j \in Slots : [s EXCEPT !.opponent = j] \in Slot
         /\ [FreeSlot EXCEPT !.fd = s.fd] \in Slot
    /\ FreeSlot \in Slot /\ NoCall \in Call
    /\ \A r \in Call :
         /\ r.fd \in {-1} \cup Fds /\ r.i \in {-1} \cup Slots /\ r.j \in {-1} \cup Slots
         /\ \A v \in {-1} \cup Fds : [r EXCEPT !.fd = v] \in Call
         /\ \A v \in {-1} \cup Slots : [r EXCEPT !.i = v] \in Call /\ [r EXCEPT !.j = v] \in Call
    /\ \A m \in Message :
         /\ m.type \in {"none"} \cup Orders /\ m.name \in Names
         /\ [m EXCEPT !.name = NoName] \in Message
BY DEF Slot, Call, Message, FreeSlot, NoCall, Names

\* The three things add_client does with a request: it refuses it, lets the
\* client wait in an even slot, or pairs it with the one before.
Adds == /\ pc.main = "dispatch" /\ pc' = [pc EXCEPT !["main"] = "poll"] /\ ~mutex
        /\ msg.type = "ADD_CLIENT" /\ msg.name # NoName
        /\ UNCHANGED <<fds, backlog, mainVars, pingVars, rem, client>>
Refuses(type) == slots' = slots /\ inbox' = send_message(inbox, fd, type)
Free(i) == /\ slots[i].fd = -1
           /\ \A k \in Slots : slots[k].fd # -1 => slots[k].name # msg.name
LetsWait(i) == /\ Free(i) /\ i % 2 = 0
               /\ slots' = [slots EXCEPT ![i].fd = fd, ![i].name = msg.name]
               /\ inbox' = send_message(inbox, fd, "NO_OPPONENT")
PairsWith(i) == /\ Free(i) /\ i % 2 = 1 /\ i - 1 \in Slots /\ slots[i - 1].fd # -1
                /\ slots' = [slots EXCEPT ![i] = Occupied(i, i - 1, 1),
                                          ![i - 1].opponent = i, ![i - 1].active = 1]
                /\ inbox' = send_message(send_message(inbox, fd, "START_GAME_O"),
                                         slots[i - 1].fd, "START_GAME_X")
\* What add_client does to the table: it refuses, lets the client wait, or
\* pairs it, always in the least free slot.
LEMMA AddIs ==
    ASSUME add_client
    PROVE  /\ Adds
           /\ \/ \E type \in {"EXISTING_NAME", "FULL_SERVER"} : Refuses(type)
              \/ \E i \in Slots : LetsWait(i) \/ PairsWith(i)
<1> DEFINE free == Slots \ Registered
           i == Least(free)
<1>1. Adds
  BY DEF add_client, Handles, Adds, Goto
<1>2. free \in SUBSET Nat /\ \A k \in Slots : k \in free <=> slots[k].fd = -1
  BY Numbers DEF Registered
<1>3. ASSUME free # {} PROVE i \in Slots /\ slots[i].fd = -1 /\ \A k \in free : i <= k
  BY <1>2, <1>3, LeastIs
<1>4. Named(msg.name) = {} <=> \A k \in Slots : slots[k].fd # -1 => slots[k].name # msg.name
  BY DEF Named, Registered
<1> HIDE DEF free, i
<1>5. ASSUME free # {}, i % 2 = 1 PROVE i - 1 \in Slots /\ slots[i - 1].fd # -1
  <2>1. i \in Nat /\ i # 0
    <3>1. \A n \in Nat : n % 2 = 1 => n # 0
      OBVIOUS
    <3> QED
      BY <1>3, <1>5, <3>1, Numbers
  <2>2. i - 1 \in Slots
    BY <1>3, <1>5, <2>1, Numbers DEF Slots
  <2>3. i - 1 \notin free
    BY <1>3, <1>5, <2>1
  <2> QED
    BY <1>2, <2>2, <2>3
<1>6. \/ \E type \in {"EXISTING_NAME", "FULL_SERVER"} : Refuses(type)
      \/ /\ Named(msg.name) = {} /\ free # {} /\ i % 2 = 0
         /\ slots' = [slots EXCEPT ![i].fd = fd, ![i].name = msg.name]
         /\ inbox' = send_message(inbox, fd, "NO_OPPONENT")
      \/ /\ Named(msg.name) = {} /\ free # {} /\ i % 2 = 1
         /\ slots' = [slots EXCEPT ![i] = Occupied(i, i - 1, 1),
                                   ![i - 1].opponent = i, ![i - 1].active = 1]
         /\ inbox' = send_message(send_message(inbox, fd, "START_GAME_O"),
                                  slots[i - 1].fd, "START_GAME_X")
  BY Zenon DEF add_client, Refuses, free, i
<1>7. ASSUME Named(msg.name) = {}, free # {} PROVE Free(i) /\ i \in Slots
  BY <1>3, <1>4, <1>7 DEF Free
<1> QED
  BY <1>1, <1>5, <1>6, <1>7, Zenon DEF LetsWait, PairsWith

\* The descriptors and slots of the calls of remove_client exist.
LEMMA CallTypeKept == ASSUME Places, TableType, SocketTypes, CallType, Removals, [Next]_vars PROVE CallType'
<1> USE Numbers, Fields DEF CallType, TableType, Goto, mainVars, pingVars, client, Threads
<1>1. CASE MainCollects
  BY <1>1 DEF MainCollects
<1>2. CASE PollAccepts
  BY <1>2 DEF PollAccepts
<1>3. CASE PollPicks
  BY <1>3 DEF PollPicks
<1>4. CASE PollFails
  BY <1>4 DEF PollFails
<1>5. CASE RecvMessage
  BY <1>5 DEF RecvMessage
<1>6. CASE RecvEof
  BY <1>6 DEF RecvEof, SocketTypes, IsOpen
<1>7. CASE RecvError
  BY <1>7 DEF RecvError
<1>8. CASE add_client
  BY <1>8 DEF add_client, Handles, Occupied
<1>9. CASE pong
  BY <1>9 DEF pong, Handles
<1>10. CASE move
  BY <1>10 DEF move, Handles
<1>11. CASE game_end
  BY <1>11 DEF game_end, Handles
<1>12. CASE ServerCrashes
  BY <1>12 DEF ServerCrashes
<1>13. CASE PingStarts
  BY <1>13 DEF PingStarts
<1>14. CASE PingVisits
  BY <1>14 DEF PingVisits
<1>15. CASE PingMarks
  BY <1>15 DEF PingMarks
<1>16. CASE PingSends
  BY <1>16 DEF PingSends
<1>17. CASE PingLosesClient
  BY <1>17 DEF PingLosesClient, Places
<1>18. CASE PingGoesOn
  BY <1>18 DEF PingGoesOn
<1>19. ASSUME NEW t \in Threads, Removes(t) PROVE CallType'
  <2> USE <1>19 DEF Removes, After, mainVars, pingVars, client
  <2>1. CASE RemoveFinds(t, After(t))
    <3> DEFINE found == {i \in Slots : slots[i].fd = rem[t].fd}
    <3>1. found # {} => Least(found) \in Slots
      BY Numbers, LeastIs
    <3> QED
      BY <2>1, <3>1 DEF RemoveFinds
  <2>2. CASE RemoveReadsOpponent(t)
    BY <2>2 DEF RemoveReadsOpponent, Removals, RemovalSteps
  <2>3. CASE RemoveNotifies(t)
    BY <2>3 DEF RemoveNotifies
  <2>4. CASE ClosesOpponent(t)
    BY <2>4 DEF ClosesOpponent, RemoveCloses
  <2>5. CASE ClearsOpponent(t)
    BY <2>5 DEF ClearsOpponent, RemoveClears
  <2>6. CASE ClosesSlot(t)
    BY <2>6 DEF ClosesSlot, RemoveCloses
  <2>7. CASE ClearsSlot(t)
    BY <2>7 DEF ClearsSlot, RemoveClears
  <2> QED
    BY <2>1, <2>2, <2>3, <2>4, <2>5, <2>6, <2>7
<1>20. ASSUME NEW c \in Clients, Client(c) PROVE CallType'
  BY <1>20 DEF Client, clientRest, mainVars, pingVars, client, ClientStarts, ClientWaits, ClientPlays, ClientGivesUp, ClientGetsMove, ClientGetsPing, ClientEnds, ClientMoves, ClientFindsGameOver, ClientLosesServer, ClientQuits, ClientHangs, Receives, Taken, Exit
<1>21. CASE UNCHANGED vars
  BY <1>21 DEF vars, server, client
<1> QED
  BY StepsAre, <1>1, <1>2, <1>3, <1>4, <1>5, <1>6, <1>7, <1>8, <1>9, <1>10, <1>11, <1>12, <1>13, <1>14, <1>15, <1>16, <1>17, <1>18, <1>19, <1>20, <1>21

\* Main has a message of a client.
LEMMA MessageTypeKept == ASSUME SocketTypes, QueueTypes, MessageType, [Next]_vars PROVE MessageType'
<1> USE Fields DEF MessageType, mainVars, pingVars, client
<1>1. CASE MainCollects
  BY <1>1 DEF MainCollects
<1>2. CASE PollAccepts
  BY <1>2 DEF PollAccepts
<1>3. CASE PollPicks
  BY <1>3 DEF PollPicks
<1>4. CASE PollFails
  BY <1>4 DEF PollFails
<1>5. CASE RecvMessage
  <2>1. fds[fd] \in Clients
    BY <1>5 DEF RecvMessage, IsOpen, SocketTypes
  <2>2. Head(outbox[fds[fd]]) \in Orders
    BY <1>5, <2>1 DEF RecvMessage, QueueTypes
  <2> QED
    BY <1>5, <2>1, <2>2 DEF RecvMessage, Message, Names
<1>6. CASE RecvEof
  BY <1>6 DEF RecvEof
<1>7. CASE RecvError
  BY <1>7 DEF RecvError
<1>8. CASE add_client
  BY <1>8 DEF add_client, Handles, Occupied
<1>9. CASE pong
  BY <1>9 DEF pong, Handles
<1>10. CASE move
  BY <1>10 DEF move, Handles
<1>11. CASE game_end
  BY <1>11 DEF game_end, Handles
<1>12. CASE ServerCrashes
  BY <1>12 DEF ServerCrashes
<1>13. CASE PingStarts
  BY <1>13 DEF PingStarts
<1>14. CASE PingVisits
  BY <1>14 DEF PingVisits
<1>15. CASE PingMarks
  BY <1>15 DEF PingMarks
<1>16. CASE PingSends
  BY <1>16 DEF PingSends
<1>17. CASE PingLosesClient
  BY <1>17 DEF PingLosesClient
<1>18. CASE PingGoesOn
  BY <1>18 DEF PingGoesOn
<1>19. ASSUME NEW t \in Threads, Removes(t) PROVE MessageType'
  BY <1>19 DEF Removes, mainVars, RemoveFinds, RemoveReadsOpponent, RemoveNotifies, ClosesOpponent, ClearsOpponent, ClosesSlot, ClearsSlot, RemoveCloses, RemoveClears
<1>20. ASSUME NEW c \in Clients, Client(c) PROVE MessageType'
  BY <1>20 DEF Client, clientRest, mainVars, pingVars, client, ClientStarts, ClientWaits, ClientPlays, ClientGivesUp, ClientGetsMove, ClientGetsPing, ClientEnds, ClientMoves, ClientFindsGameOver, ClientLosesServer, ClientQuits, ClientHangs, Receives, Taken, Exit
<1>21. CASE UNCHANGED vars
  BY <1>21 DEF vars, server, client
<1> QED
  BY StepsAre, <1>1, <1>2, <1>3, <1>4, <1>5, <1>6, <1>7, <1>8, <1>9, <1>10, <1>11, <1>12, <1>13, <1>14, <1>15, <1>16, <1>17, <1>18, <1>19, <1>20, <1>21

\* A descriptor is open or not, and exists.
LEMMA SocketTypesKept == ASSUME TableType, SocketTypes, Connections, [Next]_vars PROVE SocketTypes'
<1> USE Numbers DEF SocketTypes, mainVars, pingVars, client
<1>1. CASE MainCollects
  BY <1>1, Fields DEF MainCollects, TableType
<1>2. CASE PollAccepts
  <2>1. PICK c \in backlog :
          LET f == Least({g \in Fds : fds[g] = NoClient})
          IN  fd' = f /\ fds' = [fds EXCEPT ![f] = c] /\ backlog' = backlog \ {c}
    BY <1>2 DEF PollAccepts
  <2>2. NotPolled \in [Slots -> {-1} \cup Fds]
    BY DEF NotPolled
  <2> QED
    BY <1>2, <2>1, <2>2, FreeDescriptor DEF PollAccepts
<1>3. CASE PollPicks
  <2>1. Least(ReadySlots) \in Slots
    BY <1>3, LeastIs DEF PollPicks, ReadySlots
  <2> QED
    BY <1>3, <2>1 DEF PollPicks, NotPolled
<1>4. CASE PollFails
  BY <1>4 DEF PollFails, NotPolled
<1>5. CASE RecvMessage
  BY <1>5 DEF RecvMessage
<1>6. CASE RecvEof
  BY <1>6 DEF RecvEof
<1>7. CASE RecvError
  BY <1>7 DEF RecvError
<1>8. CASE add_client
  BY <1>8 DEF add_client, Handles, Occupied
<1>9. CASE pong
  BY <1>9 DEF pong, Handles
<1>10. CASE move
  BY <1>10 DEF move, Handles
<1>11. CASE game_end
  BY <1>11 DEF game_end, Handles
<1>12. CASE ServerCrashes
  BY <1>12 DEF ServerCrashes
<1>13. CASE PingStarts
  BY <1>13 DEF PingStarts
<1>14. CASE PingVisits
  BY <1>14 DEF PingVisits
<1>15. CASE PingMarks
  BY <1>15 DEF PingMarks
<1>16. CASE PingSends
  BY <1>16 DEF PingSends
<1>17. CASE PingLosesClient
  BY <1>17 DEF PingLosesClient
<1>18. CASE PingGoesOn
  BY <1>18 DEF PingGoesOn
<1>19. ASSUME NEW t \in Threads, Removes(t) PROVE SocketTypes'
  <2> USE <1>19 DEF Removes, After, mainVars, pingVars, client
  <2>1. CASE RemoveFinds(t, After(t))
    BY <2>1 DEF RemoveFinds
  <2>2. CASE RemoveReadsOpponent(t)
    BY <2>2 DEF RemoveReadsOpponent
  <2>3. CASE RemoveNotifies(t)
    BY <2>3 DEF RemoveNotifies
  <2>4. CASE ClosesOpponent(t)
    BY <2>4 DEF ClosesOpponent, RemoveCloses, close
  <2>5. CASE ClearsOpponent(t)
    BY <2>5 DEF ClearsOpponent, RemoveClears
  <2>6. CASE ClosesSlot(t)
    BY <2>6 DEF ClosesSlot, RemoveCloses, close
  <2>7. CASE ClearsSlot(t)
    BY <2>7 DEF ClearsSlot, RemoveClears
  <2> QED
    BY <2>1, <2>2, <2>3, <2>4, <2>5, <2>6, <2>7
<1>20. ASSUME NEW c \in Clients, Client(c) PROVE SocketTypes'
  BY <1>20 DEF Client, clientRest, mainVars, pingVars, client, ClientStarts, ClientWaits, ClientPlays, ClientGivesUp, ClientGetsMove, ClientGetsPing, ClientEnds, ClientMoves, ClientFindsGameOver, ClientLosesServer, ClientQuits, ClientHangs, Receives, Taken, Exit
<1>21. CASE UNCHANGED vars
  BY <1>21 DEF vars, server, client
<1> QED
  BY StepsAre, <1>1, <1>2, <1>3, <1>4, <1>5, <1>6, <1>7, <1>8, <1>9, <1>10, <1>11, <1>12, <1>13, <1>14, <1>15, <1>16, <1>17, <1>18, <1>19, <1>20, <1>21

\* A client is in one of its states.
LEMMA ClientTypesKept == ASSUME SocketTypes, ClientTypes, [Next]_vars PROVE ClientTypes'
<1> USE GameServerAssumption DEF ClientTypes, mainVars, pingVars, client
<1>1. CASE MainCollects
  BY <1>1 DEF MainCollects
<1>2. CASE PollAccepts
  BY <1>2 DEF PollAccepts
<1>3. CASE PollPicks
  BY <1>3 DEF PollPicks
<1>4. CASE PollFails
  BY <1>4 DEF PollFails
<1>5. CASE RecvMessage
  BY <1>5 DEF RecvMessage
<1>6. CASE RecvEof
  BY <1>6 DEF RecvEof
<1>7. CASE RecvError
  BY <1>7 DEF RecvError, IsOpen, SocketTypes
<1>8. CASE add_client
  BY <1>8 DEF add_client, Handles, Occupied
<1>9. CASE pong
  BY <1>9 DEF pong, Handles
<1>10. CASE move
  BY <1>10 DEF move, Handles
<1>11. CASE game_end
  BY <1>11 DEF game_end, Handles
<1>12. CASE ServerCrashes
  BY <1>12 DEF ServerCrashes
<1>13. CASE PingStarts
  BY <1>13 DEF PingStarts
<1>14. CASE PingVisits
  BY <1>14 DEF PingVisits
<1>15. CASE PingMarks
  BY <1>15 DEF PingMarks
<1>16. CASE PingSends
  BY <1>16 DEF PingSends
<1>17. CASE PingLosesClient
  BY <1>17 DEF PingLosesClient
<1>18. CASE PingGoesOn
  BY <1>18 DEF PingGoesOn
<1>19. ASSUME NEW t \in Threads, Removes(t) PROVE ClientTypes'
  BY <1>19 DEF Removes
<1>20. ASSUME NEW c \in Clients, Client(c) PROVE ClientTypes'
  <2> USE <1>20 DEF clientRest, mainVars, pingVars, client
  <2>1. CASE ClientStarts(c)
    BY <2>1 DEF ClientStarts
  <2>2. CASE ClientWaits(c)
    BY <2>2 DEF ClientWaits, Receives, Taken
  <2>3. CASE ClientPlays(c)
    BY <2>3 DEF ClientPlays, Receives, Taken
  <2>4. CASE ClientGivesUp(c)
    BY <2>4 DEF ClientGivesUp, Receives, Exit
  <2>5. CASE ClientGetsMove(c)
    BY <2>5 DEF ClientGetsMove, Receives, Taken
  <2>6. CASE ClientGetsPing(c)
    BY <2>6 DEF ClientGetsPing, Receives, Taken
  <2>7. CASE ClientEnds(c)
    BY <2>7 DEF ClientEnds, Receives, Exit
  <2>8. CASE ClientMoves(c)
    BY <2>8 DEF ClientMoves
  <2>9. CASE ClientFindsGameOver(c)
    BY <2>9 DEF ClientFindsGameOver
  <2>10. CASE ClientLosesServer(c)
    BY <2>10 DEF ClientLosesServer, Exit
  <2>11. CASE ClientQuits(c)
    BY <2>11 DEF ClientQuits, Exit
  <2>12. CASE ClientHangs(c)
    BY <2>12 DEF ClientHangs
  <2> QED
    BY <2>1, <2>2, <2>3, <2>4, <2>5, <2>6, <2>7, <2>8, <2>9, <2>10, <2>11, <2>12 DEF Client
<1>21. CASE UNCHANGED vars
  BY <1>21 DEF vars, server, client
<1> QED
  BY StepsAre, <1>1, <1>2, <1>3, <1>4, <1>5, <1>6, <1>7, <1>8, <1>9, <1>10, <1>11, <1>12, <1>13, <1>14, <1>15, <1>16, <1>17, <1>18, <1>19, <1>20, <1>21

\* The queues have messages of the two protocols.
LEMMA QueueTypesKept == ASSUME SocketTypes, ClientTypes, QueueTypes, [Next]_vars PROVE QueueTypes'
<1> USE DEF QueueTypes, mainVars, pingVars, client
<1>1. CASE MainCollects
  BY <1>1 DEF MainCollects
<1>2. CASE PollAccepts
  BY <1>2 DEF PollAccepts
<1>3. CASE PollPicks
  BY <1>3 DEF PollPicks
<1>4. CASE PollFails
  BY <1>4 DEF PollFails
<1>5. CASE RecvMessage
  <2>1. fds[fd] \in Clients
    BY <1>5 DEF RecvMessage, IsOpen, SocketTypes
  <2>2. Tail(outbox[fds[fd]]) \in Seq(Orders)
    BY <1>5, <2>1 DEF RecvMessage
  <2> QED
    BY <1>5, <2>1, <2>2 DEF RecvMessage
<1>6. CASE RecvEof
  BY <1>6 DEF RecvEof
<1>7. CASE RecvError
  BY <1>7 DEF RecvError
<1>8. CASE add_client
  <2>1. ASSUME NEW type \in {"EXISTING_NAME", "FULL_SERVER"}, Refuses(type) PROVE QueueTypes'
    <3>1. type \in News
      BY DEF News
    <3> QED
      BY <1>8, <2>1, <3>1, AddIs, SendIs DEF Refuses, Adds
  <2>2. CASE \E i \in Slots : LetsWait(i)
    BY <1>8, <2>2, AddIs, SendIs DEF LetsWait, News, Adds
  <2>3. ASSUME NEW i \in Slots, PairsWith(i) PROVE QueueTypes'
    <3>1. send_message(inbox, fd, "START_GAME_O") \in [Clients -> Seq(News)]
      BY SendIs DEF News, Starts
    <3>2. inbox' \in [Clients -> Seq(News)]
      BY <2>3, <3>1, SendIs DEF PairsWith, News, Starts
    <3> QED
      BY <1>8, <3>2, AddIs DEF Adds
  <2> QED
    BY <1>8, <2>1, <2>2, <2>3, AddIs
<1>9. CASE pong
  BY <1>9 DEF pong, Handles
<1>10. CASE move
  BY <1>10, SendIs DEF move, Handles, News
<1>11. CASE game_end
  BY <1>11, SendIs DEF game_end, Handles, News
<1>12. CASE ServerCrashes
  BY <1>12 DEF ServerCrashes
<1>13. CASE PingStarts
  BY <1>13 DEF PingStarts
<1>14. CASE PingVisits
  BY <1>14 DEF PingVisits
<1>15. CASE PingMarks
  BY <1>15 DEF PingMarks
<1>16. CASE PingSends
  BY <1>16, SendIs DEF PingSends, News
<1>17. CASE PingLosesClient
  BY <1>17 DEF PingLosesClient
<1>18. CASE PingGoesOn
  BY <1>18 DEF PingGoesOn
<1>19. ASSUME NEW t \in Threads, Removes(t) PROVE QueueTypes'
  <2> USE <1>19 DEF Removes, After, mainVars, pingVars, client
  <2>1. CASE RemoveFinds(t, After(t))
    BY <2>1 DEF RemoveFinds
  <2>2. CASE RemoveReadsOpponent(t)
    BY <2>2 DEF RemoveReadsOpponent
  <2>3. CASE RemoveNotifies(t)
    BY <2>3, SendIs DEF RemoveNotifies, News
  <2>4. CASE ClosesOpponent(t)
    BY <2>4 DEF ClosesOpponent, RemoveCloses
  <2>5. CASE ClearsOpponent(t)
    BY <2>5 DEF ClearsOpponent, RemoveClears
  <2>6. CASE ClosesSlot(t)
    BY <2>6 DEF ClosesSlot, RemoveCloses
  <2>7. CASE ClearsSlot(t)
    BY <2>7 DEF ClearsSlot, RemoveClears
  <2> QED
    BY <2>1, <2>2, <2>3, <2>4, <2>5, <2>6, <2>7
<1>20. ASSUME NEW c \in Clients, Client(c) PROVE QueueTypes'
  <2> USE <1>20 DEF clientRest, mainVars, pingVars, client
  <2>1. CASE ClientStarts(c)
    BY <2>1 DEF ClientStarts, Orders
  <2>2. CASE ClientWaits(c)
    BY <2>2 DEF ClientWaits, Receives, Taken
  <2>3. CASE ClientPlays(c)
    BY <2>3 DEF ClientPlays, Receives, Taken
  <2>4. CASE ClientGivesUp(c)
    BY <2>4 DEF ClientGivesUp, Receives, Exit
  <2>5. CASE ClientGetsMove(c)
    BY <2>5 DEF ClientGetsMove, Receives, Taken
  <2>6. CASE ClientGetsPing(c)
    BY <2>6 DEF ClientGetsPing, Receives, Taken, Orders, Plays
  <2>7. CASE ClientEnds(c)
    BY <2>7 DEF ClientEnds, Receives, Exit
  <2>8. CASE ClientMoves(c)
    BY <2>8 DEF ClientMoves, Orders, Plays
  <2>9. CASE ClientFindsGameOver(c)
    BY <2>9 DEF ClientFindsGameOver, Orders, Plays
  <2>10. CASE ClientLosesServer(c)
    BY <2>10 DEF ClientLosesServer, Exit
  <2>11. CASE ClientQuits(c)
    BY <2>11 DEF ClientQuits, Exit
  <2>12. CASE ClientHangs(c)
    BY <2>12 DEF ClientHangs
  <2> QED
    BY <2>1, <2>2, <2>3, <2>4, <2>5, <2>6, <2>7, <2>8, <2>9, <2>10, <2>11, <2>12 DEF Client
<1>21. CASE UNCHANGED vars
  BY <1>21 DEF vars, server, client
<1> QED
  BY StepsAre, <1>1, <1>2, <1>3, <1>4, <1>5, <1>6, <1>7, <1>8, <1>9, <1>10, <1>11, <1>12, <1>13, <1>14, <1>15, <1>16, <1>17, <1>18, <1>19, <1>20, <1>21

\* Every slot is a slot.
LEMMA TableTypeKept == ASSUME Places, TableType, SocketTypes, MessageType, Removals, [Next]_vars PROVE TableType'
<1> USE Numbers, Fields DEF TableType, mainVars, pingVars, client
<1>1. CASE MainCollects
  BY <1>1 DEF MainCollects
<1>2. CASE PollAccepts
  BY <1>2 DEF PollAccepts
<1>3. CASE PollPicks
  BY <1>3 DEF PollPicks
<1>4. CASE PollFails
  BY <1>4 DEF PollFails
<1>5. CASE RecvMessage
  BY <1>5 DEF RecvMessage
<1>6. CASE RecvEof
  BY <1>6 DEF RecvEof
<1>7. CASE RecvError
  BY <1>7 DEF RecvError
<1>8. CASE add_client
  <2>1. fd \in {-1} \cup Fds /\ msg.name \in Names
    BY DEF SocketTypes, MessageType
  <2>2. CASE \E type \in {"EXISTING_NAME", "FULL_SERVER"} : Refuses(type)
    BY <2>2 DEF Refuses
  <2>3. ASSUME NEW i \in Slots, LetsWait(i) PROVE TableType'
    BY <2>1, <2>3 DEF LetsWait
  <2>4. ASSUME NEW i \in Slots, PairsWith(i) PROVE TableType'
    <3>1. Occupied(i, i - 1, 1) \in Slot
      BY <2>1, <2>4 DEF PairsWith, Occupied, Slot
    <3> QED
      BY <2>1, <2>4, <3>1 DEF PairsWith
  <2> QED
    BY <1>8, <2>2, <2>3, <2>4, AddIs
<1>9. CASE pong
  <2>1. \A i \in Slots : slots'[i] \in Slot
    BY <1>9 DEF pong
  <2>2. slots' = [i \in Slots |-> slots'[i]]
    BY <1>9 DEF pong
  <2> QED
    BY <2>1, <2>2
<1>10. CASE move
  BY <1>10 DEF move, Handles
<1>11. CASE game_end
  BY <1>11 DEF game_end, Handles
<1>12. CASE ServerCrashes
  BY <1>12 DEF ServerCrashes
<1>13. CASE PingStarts
  BY <1>13 DEF PingStarts
<1>14. CASE PingVisits
  BY <1>14 DEF PingVisits
<1>15. CASE PingMarks
  BY <1>15 DEF PingMarks, Places
<1>16. CASE PingSends
  BY <1>16 DEF PingSends
<1>17. CASE PingLosesClient
  BY <1>17 DEF PingLosesClient
<1>18. CASE PingGoesOn
  BY <1>18 DEF PingGoesOn
<1>19. ASSUME NEW t \in Threads, Removes(t) PROVE TableType'
  <2> USE <1>19 DEF Removes, After, mainVars, pingVars, client
  <2>1. CASE RemoveFinds(t, After(t))
    BY <2>1 DEF RemoveFinds
  <2>2. CASE RemoveReadsOpponent(t)
    BY <2>2 DEF RemoveReadsOpponent
  <2>3. CASE RemoveNotifies(t)
    BY <2>3 DEF RemoveNotifies
  <2>4. CASE ClosesOpponent(t)
    BY <2>4 DEF ClosesOpponent, RemoveCloses, Removals, RemovalSteps
  <2>5. CASE ClearsOpponent(t)
    BY <2>5 DEF ClearsOpponent, RemoveClears, Removals, RemovalSteps
  <2>6. CASE ClosesSlot(t)
    BY <2>6 DEF ClosesSlot, RemoveCloses, Removals, RemovalSteps
  <2>7. CASE ClearsSlot(t)
    BY <2>7 DEF ClearsSlot, RemoveClears, Removals, RemovalSteps
  <2> QED
    BY <2>1, <2>2, <2>3, <2>4, <2>5, <2>6, <2>7
<1>20. ASSUME NEW c \in Clients, Client(c) PROVE TableType'
  BY <1>20 DEF Client, clientRest, mainVars, pingVars, client, ClientStarts, ClientWaits, ClientPlays, ClientGivesUp, ClientGetsMove, ClientGetsPing, ClientEnds, ClientMoves, ClientFindsGameOver, ClientLosesServer, ClientQuits, ClientHangs, Receives, Taken, Exit
<1>21. CASE UNCHANGED vars
  BY <1>21 DEF vars, server, client
<1> QED
  BY StepsAre, <1>1, <1>2, <1>3, <1>4, <1>5, <1>6, <1>7, <1>8, <1>9, <1>10, <1>11, <1>12, <1>13, <1>14, <1>15, <1>16, <1>17, <1>18, <1>19, <1>20, <1>21

\* What the table is after a slot is paired, taken by one who waits, marked,
\* closed or cleared, and after an answer.
LEMMA PairsIs ==
    ASSUME TableType, NEW i \in Slots, PairsWith(i)
    PROVE  /\ slots'[i].fd = fd /\ slots'[i].name = msg.name
           /\ slots'[i].opponent = i - 1 /\ slots'[i].active = 1
           /\ slots'[i - 1].fd = slots[i - 1].fd /\ slots'[i - 1].name = slots[i - 1].name
           /\ slots'[i - 1].opponent = i /\ slots'[i - 1].active = 1
           /\ \A k \in Slots \ {i, i - 1} : slots'[k] = slots[k]
<1>1. i - 1 # i /\ i - 1 \in Slots
  BY Numbers DEF PairsWith
<1>2. Occupied(i, i - 1, 1).fd = fd /\ Occupied(i, i - 1, 1).name = msg.name
      /\ Occupied(i, i - 1, 1).opponent = i - 1 /\ Occupied(i, i - 1, 1).active = 1
  BY DEF Occupied
<1>3. slots' = [slots EXCEPT ![i] = Occupied(i, i - 1, 1), ![i - 1].opponent = i, ![i - 1].active = 1]
  BY DEF PairsWith
<1> DEFINE j == i - 1
           o == Occupied(i, i - 1, 1)
<1> HIDE DEF j, o
<1>4. slots' = [slots EXCEPT ![i] = o, ![j].opponent = i, ![j].active = 1]
  BY <1>3 DEF j, o
<1>5. j \in Slots /\ j # i /\ slots \in [Slots -> Slot]
  BY <1>1 DEF j, TableType
<1>6. slots'[i] = o /\ slots'[j] = [[slots[j] EXCEPT !.opponent = i] EXCEPT !.active = 1]
      /\ \A k \in Slots \ {i, j} : slots'[k] = slots[k]
  BY <1>4, <1>5
<1>7. slots[j] \in Slot
  BY <1>5
<1>8. slots'[j].fd = slots[j].fd /\ slots'[j].name = slots[j].name
      /\ slots'[j].opponent = i /\ slots'[j].active = 1
  BY <1>6, <1>7 DEF Slot
<1> QED
  BY <1>2, <1>6, <1>8 DEF j, o

\* A client that waits: its slot has its descriptor and name, nothing else
\* of the table changes.
LEMMA WaitsIs ==
    ASSUME TableType, NEW i \in Slots, LetsWait(i)
    PROVE  /\ slots'[i].fd = fd /\ slots'[i].name = msg.name
           /\ slots'[i].opponent = slots[i].opponent /\ slots'[i].active = slots[i].active
           /\ \A k \in Slots \ {i} : slots'[k] = slots[k]
<1>1. slots'[i] = [[slots[i] EXCEPT !.fd = fd] EXCEPT !.name = msg.name]
      /\ \A k \in Slots \ {i} : slots'[k] = slots[k]
  BY DEF LetsWait, TableType
<1>2. slots[i] \in Slot
  BY DEF TableType
<1> QED
  BY <1>1, <1>2 DEF Slot

Answers(k) == slots[k].fd # -1 /\ slots[k].name = msg.name
\* PONG sets active in the slots with the name of the message.
LEMMA PongIs ==
    ASSUME TableType, pong, NEW k \in Slots
    PROVE  /\ slots'[k].fd = slots[k].fd /\ slots'[k].name = slots[k].name
           /\ slots'[k].opponent = slots[k].opponent
           /\ slots'[k].active = IF Answers(k) THEN 1 ELSE slots[k].active
<1>1. slots'[k] = IF k \in Named(msg.name) THEN [slots[k] EXCEPT !.active = 1] ELSE slots[k]
  BY DEF pong
<1>2. k \in Named(msg.name) <=> Answers(k)
  BY DEF Named, Registered, Answers
<1>3. slots[k] \in Slot
  BY DEF TableType
<1> QED
  BY <1>1, <1>2, <1>3 DEF Slot

\* The ping loop clears active in one slot.
LEMMA MarksIs ==
    ASSUME TableType, Places, PingMarks, NEW k \in Slots
    PROVE  /\ slots'[k].fd = slots[k].fd /\ slots'[k].name = slots[k].name
           /\ slots'[k].opponent = slots[k].opponent
           /\ slots'[k].active = IF k = round THEN 0 ELSE slots[k].active
<1>1. slots'[k] = IF k = round THEN [slots[k] EXCEPT !.active = 0] ELSE slots[k]
  BY DEF PingMarks, TableType, Places
<1>2. slots[k] \in Slot
  BY DEF TableType
<1> QED
  BY <1>1, <1>2 DEF Slot

Same(k) == slots'[k] = slots[k]
Closed(i) == /\ slots'[i].fd = -1 /\ slots'[i].name = slots[i].name
             /\ slots'[i].opponent = slots[i].opponent /\ slots'[i].active = slots[i].active
             /\ \A k \in Slots \ {i} : Same(k)
             /\ fds' = close(slots[i].fd)
Cleared(i) == /\ slots'[i].fd = slots[i].fd /\ slots'[i].name = NoName
              /\ slots'[i].opponent = -1 /\ slots'[i].active = -1
              /\ \A k \in Slots \ {i} : Same(k)
              /\ fds' = fds
\* The close of remove_client takes the descriptor out of one slot.
LEMMA ClosesIs ==
    ASSUME TableType, NEW t, NEW i \in Slots, NEW from, NEW to, RemoveCloses(t, i, from, to)
    PROVE  Closed(i)
<1>1. slots'[i] = [slots[i] EXCEPT !.fd = -1] /\ \A k \in Slots \ {i} : slots'[k] = slots[k]
  BY DEF RemoveCloses, TableType
<1>2. slots[i] \in Slot
  BY DEF TableType
<1> QED
  BY <1>1, <1>2 DEF Slot, RemoveCloses, Closed, Same

\* The end of remove_client clears one slot but for its descriptor.
LEMMA ClearsIs ==
    ASSUME TableType, NEW t, NEW i \in Slots, NEW from, NEW to, RemoveClears(t, i, from, to)
    PROVE  Cleared(i)
<1>1. slots'[i] = [FreeSlot EXCEPT !.fd = slots[i].fd] /\ \A k \in Slots \ {i} : slots'[k] = slots[k]
  BY DEF RemoveClears, TableType
<1> QED
  BY <1>1 DEF FreeSlot, RemoveClears, Cleared, Same

\* A step of remove_client closes or clears a slot, or leaves the table alone.
LEMMA RemovesAre ==
    ASSUME TableType, Removals, NEW t \in Threads, Removes(t)
    PROVE  /\ \/ slots' = slots /\ fds' = fds
              \/ ClosesOpponent(t) /\ rem[t].j \in Slots /\ Closed(rem[t].j)
              \/ ClearsOpponent(t) /\ rem[t].j \in Slots /\ Cleared(rem[t].j)
              \/ ClosesSlot(t) /\ rem[t].i \in Slots /\ Closed(rem[t].i)
              \/ ClearsSlot(t) /\ rem[t].i \in Slots /\ Cleared(rem[t].i)
           /\ UNCHANGED <<backlog, polled, fd, msg, round, mutex, cl, turn, moves, outbox, link>>
           /\ Removing(t)
<1>1. /\ RemoveFinds(t, After(t)) \/ RemoveReadsOpponent(t) \/ RemoveNotifies(t) => slots' = slots /\ fds' = fds
      /\ ClosesOpponent(t) => rem[t].j \in Slots /\ Closed(rem[t].j)
      /\ ClearsOpponent(t) => rem[t].j \in Slots /\ Cleared(rem[t].j)
      /\ ClosesSlot(t) => rem[t].i \in Slots /\ Closed(rem[t].i)
      /\ ClearsSlot(t) => rem[t].i \in Slots /\ Cleared(rem[t].i)
  <2>1. RemoveFinds(t, After(t)) \/ RemoveReadsOpponent(t) \/ RemoveNotifies(t) => slots' = slots /\ fds' = fds
    BY DEF RemoveFinds, RemoveReadsOpponent, RemoveNotifies
  <2>2. ASSUME ClosesOpponent(t) PROVE rem[t].j \in Slots /\ Closed(rem[t].j)
    <3>1. rem[t].j \in Slots
      BY <2>2 DEF ClosesOpponent, RemoveCloses, Goto, Removals
    <3> QED
      BY <2>2, <3>1, ClosesIs DEF ClosesOpponent
  <2>3. ASSUME ClearsOpponent(t) PROVE rem[t].j \in Slots /\ Cleared(rem[t].j)
    <3>1. rem[t].j \in Slots
      BY <2>3 DEF ClearsOpponent, RemoveClears, Goto, Removals
    <3> QED
      BY <2>3, <3>1, ClearsIs DEF ClearsOpponent
  <2>4. ASSUME ClosesSlot(t) PROVE rem[t].i \in Slots /\ Closed(rem[t].i)
    <3>1. rem[t].i \in Slots
      BY <2>4 DEF ClosesSlot, RemoveCloses, Goto, Removals, RemovalSteps
    <3> QED
      BY <2>4, <3>1, ClosesIs DEF ClosesSlot
  <2>5. ASSUME ClearsSlot(t) PROVE rem[t].i \in Slots /\ Cleared(rem[t].i)
    <3>1. rem[t].i \in Slots
      BY <2>5 DEF ClearsSlot, RemoveClears, Goto, Removals, RemovalSteps
    <3> QED
      BY <2>5, <3>1, ClearsIs DEF ClearsSlot
  <2> QED
    BY <2>1, <2>2, <2>3, <2>4, <2>5
<1>2. UNCHANGED <<backlog, polled, fd, msg, round, mutex, cl, turn, moves, outbox, link>>
  BY DEF Removes, mainVars, pingVars, client
<1>3. Removing(t)
  BY DEF Removes, Removing, RemoveFinds, RemoveReadsOpponent, RemoveNotifies, ClosesOpponent, ClearsOpponent,
         ClosesSlot, ClearsSlot, RemoveCloses, RemoveClears, Goto
<1> QED
  BY <1>1, <1>2, <1>3 DEF Removes

\* What close does to the descriptors.
LEMMA CloseIs ==
    ASSUME SocketTypes, NEW f \in {-1} \cup Fds
    PROVE  /\ f \in Fds => close(f)[f] = NoClient
           /\ \A g \in Fds \ {f} : close(f)[g] = fds[g]
BY Numbers DEF close, IsOpen, SocketTypes

\* A message reaches only who is connected, and news of a game only who has a slot.
LEMMA SentTo ==
    ASSUME SocketTypes, NEW box \in [Clients -> Seq(News)], NEW f, NEW type \in News, NEW c \in Clients
    PROVE  /\ ~(IsOpen(f) /\ fds[f] = c) => send_message(box, f, type)[c] = box[c]
           /\ \A T : type \notin T => (Has(send_message(box, f, type)[c], T) <=> Has(box[c], T))
<1>1. ~(IsOpen(f) /\ fds[f] = c) => send_message(box, f, type)[c] = box[c]
  BY SendIs
<1>3. send_message(box, f, type)[c] = box[c] \/ send_message(box, f, type)[c] = Append(box[c], type)
  <2>1. \A d \in Clients :
          \/ send_message(box, f, type)[d] = box[d]
          \/ /\ IsOpen(f) /\ fds[f] = d
             /\ send_message(box, f, type)[d] = Append(box[d], type)
    BY SendIs
  <2> QED
    BY <2>1
<1>2. ASSUME NEW T, type \notin T PROVE Has(send_message(box, f, type)[c], T) <=> Has(box[c], T)
  <2>1. box[c] \in Seq(News)
    OBVIOUS
  <2>2. Has(Append(box[c], type), T) <=> Has(box[c], T)
    BY <1>2, <2>1, HasQueue
  <2>3. send_message(box, f, type)[c] = box[c] \/ send_message(box, f, type)[c] = Append(box[c], type)
    BY <1>3
  <2> QED
    BY <2>2, <2>3, Zenon
<1> QED
  BY <1>1, <1>2, Zenon

\* Who may be told something of a game.
Told(c) == /\ \/ PingSends /\ IsOpen(slots[round].fd) /\ fds[slots[round].fd] = c
              \/ /\ move /\ Named(msg.name) # {}
                 /\ \E f \in {slots[OpponentOf(msg.name)].fd} : IsOpen(f) /\ fds[f] = c
              \/ \E i \in Slots : Adds /\ PairsWith(i) /\ \E f \in {fd, slots[i - 1].fd} : IsOpen(f) /\ fds[f] = c

\* Who is told nothing of a game has not started after the step either.
LEMMA NotStartedKept == ASSUME SocketTypes, ClientTypes, QueueTypes, NEW c \in Clients, NotStarted(c), ~Told(c), [Next]_vars PROVE NotStarted(c)'
<1> USE DEF ClientTypes, QueueTypes, NotStarted, mainVars, pingVars, client
<1>1. CASE MainCollects
  BY <1>1 DEF MainCollects
<1>2. CASE PollAccepts
  BY <1>2 DEF PollAccepts
<1>3. CASE PollPicks
  BY <1>3 DEF PollPicks
<1>4. CASE PollFails
  BY <1>4 DEF PollFails
<1>5. CASE RecvMessage
  <2>1. outbox'[c] = outbox[c] \/ (outbox[c] # <<>> /\ outbox'[c] = Tail(outbox[c]))
    BY <1>5 DEF RecvMessage
  <2>2. outbox[c] \in Seq(Orders)
    OBVIOUS
  <2>3. ~Has(outbox'[c], Plays)
    BY <2>1, <2>2, Loses
  <2> QED
    BY <1>5, <2>3 DEF RecvMessage
<1>6. CASE RecvEof
  BY <1>6 DEF RecvEof
<1>7. CASE RecvError
  BY <1>7 DEF RecvError, IsOpen
<1>8. CASE add_client
  <2>1. ASSUME NEW type \in {"EXISTING_NAME", "FULL_SERVER"}, Refuses(type) PROVE NotStarted(c)'
    <3>1. type \in News /\ type \notin GameNews
      BY DEF News, GameNews, Starts
    <3> QED
      BY <1>8, <2>1, <3>1, AddIs, SentTo DEF Refuses, Adds
  <2>2. ASSUME NEW i \in Slots, LetsWait(i) PROVE NotStarted(c)'
    <3>1. "NO_OPPONENT" \in News /\ "NO_OPPONENT" \notin GameNews
      BY DEF News, GameNews, Starts
    <3> QED
      BY <1>8, <2>2, <3>1, AddIs, SentTo DEF LetsWait, Adds
  <2>3. ASSUME NEW i \in Slots, PairsWith(i) PROVE NotStarted(c)'
    <3>1. {"START_GAME_O", "START_GAME_X"} \in SUBSET News
      BY DEF News, Starts
    <3>2. Adds /\ \A f \in {fd, slots[i - 1].fd} : ~(IsOpen(f) /\ fds[f] = c)
      BY <1>8, <2>3, AddIs DEF Told
    <3> DEFINE b == send_message(inbox, fd, "START_GAME_O")
    <3>3. b \in [Clients -> Seq(News)] /\ b[c] = inbox[c]
      <4>1. inbox \in [Clients -> Seq(News)] /\ "START_GAME_O" \in News /\ ~(IsOpen(fd) /\ fds[fd] = c)
        BY <3>1, <3>2
      <4>2. b \in [Clients -> Seq(News)]
        BY <4>1, SendIs, Zenon
      <4>3. b[c] = inbox[c]
        BY <4>1, SentTo, Zenon
      <4> QED
        BY <4>2, <4>3
    <3> DEFINE g == slots[i - 1].fd
    <3>4. inbox' = send_message(b, g, "START_GAME_X")
      BY <2>3 DEF PairsWith
    <3> HIDE DEF b
    <3>5. inbox'[c] = inbox[c]
      <4>1. "START_GAME_X" \in News /\ ~(IsOpen(g) /\ fds[g] = c)
        BY <3>1, <3>2
      <4> HIDE DEF g
      <4> QED
        BY <4>1, <3>3, <3>4, SentTo, Zenon
    <3> QED
      BY <3>2, <3>5 DEF Adds
  <2> QED
    BY <1>8, <2>1, <2>2, <2>3, AddIs
<1>9. CASE pong
  BY <1>9 DEF pong, Handles
<1>10. CASE move
  <2>1. "MOVE" \in News
    BY DEF News
  <2> QED
    BY <1>10, <2>1, SentTo DEF move, Handles, Told
<1>11. CASE game_end
  <2>1. "END_GAME" \in News /\ "END_GAME" \notin GameNews
    BY DEF News, GameNews, Starts
  <2>2. \A f : send_message(inbox, f, "END_GAME") \in [Clients -> Seq(News)]
    BY <2>1, SendIs
  <2> QED
    BY <1>11, <2>1, <2>2, SentTo DEF game_end, Handles
<1>12. CASE ServerCrashes
  BY <1>12 DEF ServerCrashes
<1>13. CASE PingStarts
  BY <1>13 DEF PingStarts
<1>14. CASE PingVisits
  BY <1>14 DEF PingVisits
<1>15. CASE PingMarks
  BY <1>15 DEF PingMarks
<1>16. CASE PingSends
  <2>1. "PING" \in News
    BY DEF News
  <2> QED
    BY <1>16, <2>1, SentTo DEF PingSends, Told
<1>17. CASE PingLosesClient
  BY <1>17 DEF PingLosesClient
<1>18. CASE PingGoesOn
  BY <1>18 DEF PingGoesOn
<1>19. ASSUME NEW t \in Threads, Removes(t) PROVE NotStarted(c)'
  <2> USE <1>19 DEF Removes, After, mainVars, pingVars, client
  <2>1. CASE RemoveFinds(t, After(t))
    BY <2>1 DEF RemoveFinds
  <2>2. CASE RemoveReadsOpponent(t)
    BY <2>2 DEF RemoveReadsOpponent
  <2>3. CASE RemoveNotifies(t)
    <3>1. "OPPONENT_DISCONNECTED" \in News /\ "OPPONENT_DISCONNECTED" \notin GameNews
      BY DEF News, GameNews, Starts
    <3> QED
      BY <2>3, <3>1, SentTo DEF RemoveNotifies
  <2>4. CASE ClosesOpponent(t)
    BY <2>4 DEF ClosesOpponent, RemoveCloses
  <2>5. CASE ClearsOpponent(t)
    BY <2>5 DEF ClearsOpponent, RemoveClears
  <2>6. CASE ClosesSlot(t)
    BY <2>6 DEF ClosesSlot, RemoveCloses
  <2>7. CASE ClearsSlot(t)
    BY <2>7 DEF ClearsSlot, RemoveClears
  <2> QED
    BY <2>1, <2>2, <2>3, <2>4, <2>5, <2>6, <2>7
<1>20. ASSUME NEW d \in Clients, Client(d) PROVE NotStarted(c)'
  <2> USE <1>20 DEF clientRest, mainVars, pingVars, client
  <2>1. CASE ClientStarts(d)
    <3>1. "ADD_CLIENT" \notin Plays
      BY DEF Plays
    <3> QED
      BY <2>1, <3>1, OneOrder DEF ClientStarts
  <2>2. CASE ClientWaits(d)
    <3>1. inbox'[c] = inbox[c] \/ (c = d /\ inbox[c] # <<>> /\ inbox'[c] = Tail(inbox[c]))
      BY <2>2 DEF ClientWaits, Receives, Taken
    <3>2. inbox[c] \in Seq(News)
      OBVIOUS
    <3>3. ~Has(inbox'[c], GameNews)
      BY <3>1, <3>2, Loses
    <3>4. c = d => Has(inbox[c], GameNews) \/ cl'[c] = cl[c]
      <4>1. inbox[d] \in Seq(News) /\ (Head(inbox[d]) \in GameNews /\ inbox[d] # <<>> => Has(inbox[d], GameNews))
        BY FirstIs
      <4> QED
        BY <2>2, <4>1 DEF ClientWaits, Receives, GameNews, Starts
    <3> QED
      BY <2>2, <3>3, <3>4 DEF ClientWaits, Receives, Taken
  <2>3. CASE ClientPlays(d)
    <3>1. inbox'[c] = inbox[c] \/ (c = d /\ inbox[c] # <<>> /\ inbox'[c] = Tail(inbox[c]))
      BY <2>3 DEF ClientPlays, Receives, Taken
    <3>2. inbox[c] \in Seq(News)
      OBVIOUS
    <3>3. ~Has(inbox'[c], GameNews)
      BY <3>1, <3>2, Loses
    <3>4. c = d => Has(inbox[c], GameNews) \/ cl'[c] = cl[c]
      <4>1. inbox[d] \in Seq(News) /\ (Head(inbox[d]) \in GameNews /\ inbox[d] # <<>> => Has(inbox[d], GameNews))
        BY FirstIs
      <4> QED
        BY <2>3, <4>1 DEF ClientPlays, Receives, GameNews, Starts
    <3> QED
      BY <2>3, <3>3, <3>4 DEF ClientPlays, Receives, Taken
  <2>4. CASE ClientGivesUp(d)
    <3>1. inbox'[c] = inbox[c] \/ inbox'[c] = <<>>
      BY <2>4 DEF ClientGivesUp, Exit
    <3>2. ~Has(inbox'[c], GameNews)
      BY <3>1, Loses
    <3> QED
      BY <2>4, <3>2 DEF ClientGivesUp, Receives, Exit
  <2>5. CASE ClientGetsMove(d)
    <3>1. inbox'[c] = inbox[c] \/ (c = d /\ inbox[c] # <<>> /\ inbox'[c] = Tail(inbox[c]))
      BY <2>5 DEF ClientGetsMove, Receives, Taken
    <3>2. inbox[c] \in Seq(News)
      OBVIOUS
    <3>3. ~Has(inbox'[c], GameNews)
      BY <3>1, <3>2, Loses
    <3>4. c = d => Has(inbox[c], GameNews) \/ cl'[c] = cl[c]
      <4>1. inbox[d] \in Seq(News) /\ (Head(inbox[d]) \in GameNews /\ inbox[d] # <<>> => Has(inbox[d], GameNews))
        BY FirstIs
      <4> QED
        BY <2>5, <4>1 DEF ClientGetsMove, Receives, GameNews, Starts
    <3> QED
      BY <2>5, <3>3, <3>4 DEF ClientGetsMove, Receives, Taken
  <2>6. CASE ClientGetsPing(d)
    BY <2>6 DEF ClientGetsPing, Receives, Taken
  <2>7. CASE ClientEnds(d)
    <3>1. inbox'[c] = inbox[c] \/ inbox'[c] = <<>>
      BY <2>7 DEF ClientEnds, Exit
    <3>2. ~Has(inbox'[c], GameNews)
      BY <3>1, Loses
    <3> QED
      BY <2>7, <3>2 DEF ClientEnds, Receives, Exit
  <2>8. CASE ClientMoves(d)
    BY <2>8 DEF ClientMoves
  <2>9. CASE ClientFindsGameOver(d)
    BY <2>9 DEF ClientFindsGameOver
  <2>10. CASE ClientLosesServer(d)
    <3>1. inbox'[c] = inbox[c] \/ inbox'[c] = <<>>
      BY <2>10 DEF ClientLosesServer, Exit
    <3>2. ~Has(inbox'[c], GameNews)
      BY <3>1, Loses
    <3> QED
      BY <2>10, <3>2 DEF ClientLosesServer, Receives, Exit
  <2>11. CASE ClientQuits(d)
    <3>1. inbox'[c] = inbox[c] \/ inbox'[c] = <<>>
      BY <2>11 DEF ClientQuits, Exit
    <3>2. ~Has(inbox'[c], GameNews)
      BY <3>1, Loses
    <3> QED
      BY <2>11, <3>2 DEF ClientQuits, Receives, Exit
  <2>12. CASE ClientHangs(d)
    BY <2>12 DEF ClientHangs
  <2> QED
    BY <2>1, <2>2, <2>3, <2>4, <2>5, <2>6, <2>7, <2>8, <2>9, <2>10, <2>11, <2>12 DEF Client
<1>21. CASE UNCHANGED vars
  BY <1>21 DEF vars, server, client
<1> QED
  BY StepsAre, <1>1, <1>2, <1>3, <1>4, <1>5, <1>6, <1>7, <1>8, <1>9, <1>10, <1>11, <1>12, <1>13, <1>14, <1>15, <1>16, <1>17, <1>18, <1>19, <1>20, <1>21

\* An outbox grows when its client plays or starts, and loses a message to main.
LEMMA OutboxIs ==
    ASSUME SocketTypes, QueueTypes, NEW c \in Clients, [Next]_vars
    PROVE  \/ outbox'[c] = outbox[c]
           \/ RecvMessage /\ IsOpen(fd) /\ fds[fd] = c
              /\ outbox[c] # <<>> /\ outbox'[c] = Tail(outbox[c])
           \/ ClientStarts(c) /\ outbox'[c] = <<"ADD_CLIENT">>
           \/ cl[c] = "playing"
              /\ \E m \in Plays : outbox'[c] = Append(outbox[c], m) /\ (m = "PONG" => ClientGetsPing(c))
<1> USE DEF QueueTypes, mainVars, pingVars, client
<1>1. CASE RecvMessage
  BY <1>1 DEF RecvMessage
<1>2. ASSUME NEW d \in Clients, ClientStarts(d) \/ ClientGetsPing(d) \/ ClientMoves(d) \/ ClientFindsGameOver(d)
      PROVE  \/ outbox'[c] = outbox[c]
             \/ ClientStarts(c) /\ outbox'[c] = <<"ADD_CLIENT">>
             \/ cl[c] = "playing"
                /\ \E m \in Plays : outbox'[c] = Append(outbox[c], m) /\ (m = "PONG" => ClientGetsPing(c))
  BY <1>2 DEF ClientStarts, ClientGetsPing, ClientMoves, ClientFindsGameOver, Receives, Plays
<1>3. ASSUME NEW d \in Clients, Client(d) PROVE outbox' = outbox \/ ClientStarts(d) \/ ClientGetsPing(d)
                                               \/ ClientMoves(d) \/ ClientFindsGameOver(d)
  BY <1>3 DEF Client, ClientWaits, ClientPlays, ClientGivesUp, ClientGetsMove, ClientEnds, ClientLosesServer,
              ClientQuits, ClientHangs, Exit
<1>4. \/ outbox' = outbox \/ RecvMessage \/ \E d \in Clients : Client(d)
  BY StepsAre DEF MainCollects, PollAccepts, PollPicks, PollFails, RecvEof, RecvError, add_client, pong, move,
       game_end, ServerCrashes, PingStarts, PingVisits, PingMarks, PingSends, PingLosesClient, PingGoesOn,
       Removes, vars, Handles
<1> QED
  BY <1>1, <1>2, <1>3, <1>4

\* Each client has one connection at most, and one order in the backlog.
LEMMA ConnectionsKept ==
    ASSUME TableType, SocketTypes, ClientTypes, QueueTypes, Connections, Removals, [Next]_vars
    PROVE  Connections'
<1> USE DEF SocketTypes
<1>a. \A c \in Clients : NotStarted(c) /\ ~Connected(c) => NotStarted(c)'
  <2>1. \A c \in Clients : ~Connected(c) => ~Told(c)
    BY DEF Connected, Told, IsOpen
  <2> QED
    BY <2>1, NotStartedKept
<1>b. \A c \in Clients : ~Connected(c) /\ cl[c] # "playing" => outbox'[c] = outbox[c] \/ ClientStarts(c)
  BY OutboxIs DEF Connected, IsOpen
<1>c. \A c \in Clients : cl'[c] = "off" => cl[c] = "off" /\ ~ClientStarts(c)
  BY ZenonT(60), StepsAre DEF MainCollects, PollAccepts, PollPicks, PollFails, RecvMessage, RecvEof, RecvError, add_client, pong,
       move, game_end, ServerCrashes, PingStarts, PingVisits, PingMarks, PingSends, PingLosesClient, PingGoesOn,
       Removes, vars, Handles, client, ClientTypes, Client, ClientStarts, ClientWaits, ClientPlays, ClientGivesUp, ClientGetsMove, ClientGetsPing, ClientEnds, ClientMoves, ClientFindsGameOver, ClientLosesServer, ClientQuits, ClientHangs, Receives, Taken, Exit
<1>d. \/ fds' = fds /\ backlog' = backlog
      \/ fds' = fds /\ \E c \in Clients : ClientStarts(c) /\ backlog' = backlog \cup {c}
      \/ \E c \in backlog, f \in Fds : fds[f] = NoClient /\ fds' = [fds EXCEPT ![f] = c] /\ backlog' = backlog \ {c}
      \/ backlog' = backlog /\ \E i \in Slots : fds' = close(slots[i].fd)
  <2>1. ASSUME PollAccepts
        PROVE  \E c \in backlog, f \in Fds : fds[f] = NoClient /\ fds' = [fds EXCEPT ![f] = c] /\ backlog' = backlog \ {c}
    BY <2>1, FreeDescriptor DEF PollAccepts
  <2>2. ASSUME NEW t \in Threads, Removes(t)
        PROVE  backlog' = backlog /\ (fds' = fds \/ \E i \in Slots : fds' = close(slots[i].fd))
    BY <2>2, RemovesAre DEF Closed, Cleared
  <2>3. ASSUME NEW c \in Clients, Client(c)
        PROVE  \/ fds' = fds /\ backlog' = backlog
               \/ fds' = fds /\ ClientStarts(c) /\ backlog' = backlog \cup {c}
    BY <2>3, Zenon DEF Client, ClientStarts, ClientWaits, ClientPlays, ClientGivesUp, ClientGetsMove, ClientGetsPing, ClientEnds, ClientMoves, ClientFindsGameOver, ClientLosesServer, ClientQuits, ClientHangs, Receives, clientRest
  <2>4. \/ fds' = fds /\ backlog' = backlog
        \/ PollAccepts
        \/ \E t \in Threads : Removes(t)
        \/ \E c \in Clients : Client(c)
    BY StepsAre, Zenon DEF MainCollects, PollPicks, PollFails, RecvMessage, RecvEof, RecvError, add_client, pong,
       move, game_end, ServerCrashes, PingStarts, PingVisits, PingMarks, PingSends, PingLosesClient, PingGoesOn,
       vars, server, Handles
  <2> QED
    BY <2>1, <2>2, <2>3, <2>4
<1>e. \A c \in backlog : NotStarted(c)' /\ ~ClientStarts(c) /\ outbox'[c] = <<"ADD_CLIENT">>
  <2> SUFFICES ASSUME NEW c \in backlog PROVE NotStarted(c)' /\ ~ClientStarts(c) /\ outbox'[c] = <<"ADD_CLIENT">>
    OBVIOUS
  <2>1. c \in Clients /\ NotStarted(c) /\ ~Connected(c) /\ outbox[c] = <<"ADD_CLIENT">> /\ cl[c] # "off"
    BY DEF Connections
  <2>2. ~ClientStarts(c)
    BY <2>1 DEF ClientStarts
  <2> QED
    BY <2>1, <2>2, <1>a, <1>b DEF NotStarted
<1>f. \A c \in Clients : cl'[c] = "off" => NotStarted(c)' /\ ~Connected(c) /\ c \notin backlog /\ ~ClientStarts(c)
  BY <1>a, <1>c DEF Connections
<1>g. \A c \in Clients : ClientStarts(c) => ~Connected(c) /\ NotStarted(c)' /\ outbox'[c] = <<"ADD_CLIENT">>
  <2> SUFFICES ASSUME NEW c \in Clients, ClientStarts(c)
      PROVE ~Connected(c) /\ NotStarted(c)' /\ outbox'[c] = <<"ADD_CLIENT">>
    OBVIOUS
  <2>1. cl[c] = "off" /\ outbox'[c] = <<"ADD_CLIENT">>
    BY DEF ClientStarts, QueueTypes
  <2> QED
    BY <2>1, <1>a DEF Connections
<1>h. \A c, d \in Clients : ClientStarts(d) => cl'[d] # "off"
  BY <1>c
<1> HIDE DEF SocketTypes
<1>1. CASE fds' = fds /\ backlog' = backlog
  BY <1>1, <1>e, <1>f DEF Connections, Connected
<1>2. ASSUME NEW c \in Clients, fds' = fds, ClientStarts(c), backlog' = backlog \cup {c} PROVE Connections'
  BY <1>2, <1>e, <1>f, <1>g DEF Connections, Connected
<1>3. ASSUME NEW c \in backlog, NEW f \in Fds, fds[f] = NoClient, fds' = [fds EXCEPT ![f] = c], backlog' = backlog \ {c}
      PROVE  Connections'
  <2>1. \A g \in Fds : fds'[g] = IF g = f THEN c ELSE fds[g]
    BY <1>3 DEF SocketTypes
  <2>2. \A d \in Clients \ {c} : ~Connected(d) => ~Connected(d)'
    BY <2>1 DEF Connected
  <2>3. ~Connected(c)
    BY DEF Connections
  <2>4. \A g, h \in Fds : fds'[g] = fds'[h] /\ fds'[g] # NoClient => g = h
    BY <2>1, <2>3 DEF Connections, Connected
  <2>5. \A d \in Clients : cl'[d] = "off" => d # c
    BY <1>f
  <2>6. \A d \in backlog' : d \in backlog /\ d # c /\ d \in Clients /\ ~Connected(d)
    BY <1>3 DEF Connections, SocketTypes
  <2> QED
    BY <1>3, <2>2, <2>4, <2>5, <2>6, <1>e, <1>f DEF Connections
<1>4. ASSUME NEW i \in Slots, backlog' = backlog, fds' = close(slots[i].fd) PROVE Connections'
  <2>1. \A g \in Fds : fds'[g] = fds[g] \/ fds'[g] = NoClient
    BY <1>4, CloseIs, Fields DEF TableType
  <2>2. \A d \in Clients : ~Connected(d) => ~Connected(d)'
    BY <2>1, GameServerAssumption DEF Connected
  <2>3. \A g, h \in Fds : fds'[g] = fds'[h] /\ fds'[g] # NoClient => g = h
    BY <2>1 DEF Connections
  <2>4. \A d \in backlog : d \in Clients
    BY DEF SocketTypes
  <2> QED
    BY <1>4, <2>2, <2>3, <2>4, <1>e, <1>f DEF Connections
<1> QED
  BY <1>1, <1>2, <1>3, <1>4, <1>d

\* The steps that change the table or the descriptors.
LEMMA TableIs ==
    ASSUME TableType, SocketTypes, Connections, Removals, [Next]_vars
    PROVE  \/ slots' = slots /\ fds' = fds
           \/ /\ slots' = slots /\ PollAccepts
              /\ \E c \in backlog, f \in Fds : fds[f] = NoClient /\ fds' = [fds EXCEPT ![f] = c]
           \/ Adds /\ fds' = fds /\ \E i \in Slots : LetsWait(i)
           \/ Adds /\ fds' = fds /\ \E i \in Slots : PairsWith(i)
           \/ pong /\ fds' = fds
           \/ PingMarks /\ fds' = fds
           \/ \E t \in Threads : ClosesOpponent(t) /\ rem[t].j \in Slots /\ Closed(rem[t].j)
           \/ \E t \in Threads : ClearsOpponent(t) /\ rem[t].j \in Slots /\ Cleared(rem[t].j)
           \/ \E t \in Threads : ClosesSlot(t) /\ rem[t].i \in Slots /\ Closed(rem[t].i)
           \/ \E t \in Threads : ClearsSlot(t) /\ rem[t].i \in Slots /\ Cleared(rem[t].i)
<1>1. ASSUME PollAccepts
      PROVE  slots' = slots /\ \E c \in backlog, f \in Fds : fds[f] = NoClient /\ fds' = [fds EXCEPT ![f] = c]
  BY <1>1, FreeDescriptor DEF PollAccepts
<1>2. ASSUME add_client
      PROVE  \/ slots' = slots /\ fds' = fds
             \/ Adds /\ fds' = fds /\ \E i \in Slots : LetsWait(i)
             \/ Adds /\ fds' = fds /\ \E i \in Slots : PairsWith(i)
  BY <1>2, AddIs, Zenon DEF Adds, Refuses
<1>3. ASSUME NEW c \in Clients, Client(c) PROVE slots' = slots /\ fds' = fds
  BY <1>3, Zenon DEF Client, ClientStarts, ClientWaits, ClientPlays, ClientGivesUp, ClientGetsMove, ClientGetsPing, ClientEnds, ClientMoves, ClientFindsGameOver, ClientLosesServer, ClientQuits, ClientHangs, Receives, clientRest
<1>4. \/ slots' = slots /\ fds' = fds
      \/ PollAccepts
      \/ add_client
      \/ pong /\ fds' = fds
      \/ PingMarks /\ fds' = fds
      \/ \E t \in Threads : Removes(t)
      \/ \E c \in Clients : Client(c)
  BY StepsAre, Zenon DEF MainCollects, PollPicks, PollFails, RecvMessage, RecvEof, RecvError, pong,
     move, game_end, ServerCrashes, PingStarts, PingVisits, PingMarks, PingSends, PingLosesClient, PingGoesOn,
     vars, server, Handles
<1> QED
  BY <1>1, <1>2, <1>3, <1>4, RemovesAre, Zenon

\* Every slot keeps the connection and the name of its own client.
LEMMA OwnedKept ==
    ASSUME TableType, SocketTypes, MessageType, Places, Connections, Owned, Handling, Removals, [Next]_vars
    PROVE  Owned'
<1>0. \A i \in Slots : slots[i].fd \in {-1} \cup Fds
  BY Fields DEF TableType
<1>1. CASE slots' = slots /\ fds' = fds
  BY <1>1 DEF Owned
<1>2. ASSUME slots' = slots, NEW c \in backlog, NEW f \in Fds, fds[f] = NoClient, fds' = [fds EXCEPT ![f] = c]
      PROVE  Owned'
  <2>1. \A g \in Fds \ {f} : fds'[g] = fds[g]
    BY <1>2 DEF SocketTypes
  <2>2. \A i \in Slots : slots[i].fd # -1 => slots[i].fd \in Fds \ {f}
    BY <1>0, <1>2 DEF Owned
  <2> QED
    BY <1>2, <2>1, <2>2 DEF Owned
<1>3. ASSUME Adds PROVE IsOpen(fd) /\ fds[fd] # NoClient /\ Name[fds[fd]] = msg.name /\ fd # -1
                        /\ \A k \in Slots : slots[k].fd # fd
  BY <1>3, Numbers DEF Adds, Handling, IsOpen, InTable
<1>4. ASSUME Adds, fds' = fds, NEW i \in Slots, LetsWait(i) PROVE Owned'
  <2>1. \A k \in Slots : slots[k].fd # -1 => k # i /\ slots[k].name # msg.name
    BY <1>4 DEF LetsWait, Free
  <2>2. /\ slots'[i].fd = fd /\ slots'[i].name = msg.name
        /\ \A k \in Slots \ {i} : slots'[k].fd = slots[k].fd /\ slots'[k].name = slots[k].name
    BY <1>4, WaitsIs
  <2> QED
    BY <1>3, <1>4, <2>1, <2>2 DEF Owned
<1>5. ASSUME Adds, fds' = fds, NEW i \in Slots, PairsWith(i) PROVE Owned'
  <2>1. \A k \in Slots : slots[k].fd # -1 => k # i /\ slots[k].name # msg.name
    BY <1>5 DEF PairsWith, Free
  <2>2. /\ slots'[i].fd = fd /\ slots'[i].name = msg.name
        /\ \A k \in Slots \ {i} : slots'[k].fd = slots[k].fd /\ slots'[k].name = slots[k].name
    BY <1>5, PairsIs
  <2> QED
    BY <1>3, <1>5, <2>1, <2>2 DEF Owned
<1>6. CASE (pong \/ PingMarks) /\ fds' = fds
  <2>1. \A k \in Slots : slots'[k].fd = slots[k].fd /\ slots'[k].name = slots[k].name
    BY <1>6, PongIs, MarksIs
  <2> QED
    BY <1>6, <2>1 DEF Owned
<1>7. ASSUME NEW i \in Slots, Closed(i) PROVE Owned'
  <2>1. /\ slots'[i].fd = -1
        /\ \A k \in Slots \ {i} : slots'[k].fd = slots[k].fd /\ slots'[k].name = slots[k].name
    BY <1>7 DEF Closed, Same
  <2>2. \A f \in Fds \ {slots[i].fd} : fds'[f] = fds[f]
    BY <1>0, <1>7, CloseIs DEF Closed
  <2>3. \A k \in Slots \ {i} : slots[k].fd # -1 => slots[k].fd \in Fds \ {slots[i].fd}
    BY <1>0 DEF Owned
  <2> QED
    BY <2>1, <2>2, <2>3 DEF Owned
<1>8. ASSUME NEW i \in Slots, Cleared(i), slots[i].fd = -1 PROVE Owned'
  <2>1. /\ slots'[i].fd = -1 /\ fds' = fds
        /\ \A k \in Slots \ {i} : slots'[k].fd = slots[k].fd /\ slots'[k].name = slots[k].name
    BY <1>8 DEF Cleared, Same
  <2> QED
    BY <2>1 DEF Owned
<1>9. \A t \in Threads : /\ ClearsOpponent(t) => slots[rem[t].j].fd = -1
                         /\ ClearsSlot(t) => slots[rem[t].i].fd = -1
  BY DEF Removals, ClearsOpponent, ClearsSlot, RemoveClears, Goto
<1> QED
  BY TableIs, <1>1, <1>2, <1>4, <1>5, <1>6, <1>7, <1>8, <1>9

\* A slot that is taken after a step keeps its client, or was taken by it.
LEMMA StaysIs ==
    ASSUME TableType, SocketTypes, Connections, Owned, Removals, [Next]_vars, NEW k \in Slots, slots'[k].fd # -1
    PROVE  \/ /\ slots[k].fd # -1 /\ slots[k].fd \in Fds
              /\ slots'[k].fd = slots[k].fd /\ fds'[slots[k].fd] = fds[slots[k].fd]
              /\ slots'[k].name = slots[k].name
              /\ \/ slots'[k].opponent = slots[k].opponent
                 \/ k + 1 \in Slots /\ Adds /\ PairsWith(k + 1)
           \/ Adds /\ fds' = fds /\ LetsWait(k)
           \/ Adds /\ fds' = fds /\ PairsWith(k)
<1>0. \A i \in Slots : slots[i].fd \in {-1} \cup Fds
  BY Fields DEF TableType
<1> DEFINE Stays ==
       /\ slots[k].fd # -1 /\ slots[k].fd \in Fds
       /\ slots'[k].fd = slots[k].fd /\ fds'[slots[k].fd] = fds[slots[k].fd]
       /\ slots'[k].name = slots[k].name
       /\ \/ slots'[k].opponent = slots[k].opponent
          \/ k + 1 \in Slots /\ Adds /\ PairsWith(k + 1)
<1>1. CASE slots' = slots /\ fds' = fds
  BY <1>0, <1>1
<1>2. ASSUME slots' = slots, NEW c \in backlog, NEW f \in Fds, fds[f] = NoClient, fds' = [fds EXCEPT ![f] = c]
      PROVE  Stays
  <2>1. slots[k].fd \in Fds /\ slots[k].fd # f
    BY <1>0, <1>2 DEF Owned
  <2> QED
    BY <1>0, <1>2, <2>1 DEF SocketTypes
<1>4. ASSUME Adds, fds' = fds, NEW i \in Slots, LetsWait(i) PROVE Stays \/ LetsWait(k)
  <2>1. CASE i = k
    BY <1>4, <2>1
  <2>2. CASE i # k
    BY <1>0, <1>4, <2>2, WaitsIs
  <2> QED
    BY <2>1, <2>2
<1>5. ASSUME Adds, fds' = fds, NEW i \in Slots, PairsWith(i) PROVE Stays \/ PairsWith(k)
  <2>1. CASE i = k
    BY <1>5, <2>1
  <2>2. CASE k = i - 1
    <3>1. k + 1 = i
      BY <2>2, Numbers
    <3> QED
      BY <1>0, <1>5, <2>2, <3>1, PairsIs
  <2>3. CASE i # k /\ k # i - 1
    BY <1>0, <1>5, <2>3, PairsIs
  <2> QED
    BY <2>1, <2>2, <2>3
<1>6. CASE (pong \/ PingMarks) /\ fds' = fds
  <2>1. \/ pong
        \/ PingMarks
    BY <1>6
  <2>2. CASE pong
    BY <1>0, <1>6, <2>2, PongIs
  <2>3. CASE PingMarks
    <3>1. slots'[k] = IF k = round THEN [slots[k] EXCEPT !.active = 0] ELSE slots[k]
      BY <2>3 DEF PingMarks, TableType
    <3>2. slots[k] \in Slot
      BY DEF TableType
    <3>3. slots'[k].fd = slots[k].fd /\ slots'[k].name = slots[k].name /\ slots'[k].opponent = slots[k].opponent
      BY <3>1, <3>2 DEF Slot
    <3> QED
      BY <1>0, <1>6, <3>3
  <2> QED
    BY <2>1, <2>2, <2>3
<1>7. ASSUME NEW i \in Slots, Closed(i) PROVE Stays
  <2>1. k # i /\ slots'[k] = slots[k]
    BY <1>7 DEF Closed, Same
  <2>2. slots[k].fd \in Fds \ {slots[i].fd}
    BY <1>0, <2>1 DEF Owned
  <2>3. fds'[slots[k].fd] = fds[slots[k].fd]
    BY <1>0, <1>7, <2>2, CloseIs DEF Closed
  <2> QED
    BY <2>1, <2>2, <2>3
<1>8. ASSUME NEW i \in Slots, Cleared(i), slots[i].fd = -1 PROVE Stays
  BY <1>0, <1>8 DEF Cleared, Same
<1>9. \A t \in Threads : /\ ClearsOpponent(t) => slots[rem[t].j].fd = -1
                         /\ ClearsSlot(t) => slots[rem[t].i].fd = -1
  BY DEF Removals, ClearsOpponent, ClearsSlot, RemoveClears, Goto
<1> HIDE DEF Stays
<1>10. \/ Stays
       \/ Adds /\ fds' = fds /\ LetsWait(k)
       \/ Adds /\ fds' = fds /\ PairsWith(k)
  <2>1. CASE slots' = slots /\ fds' = fds
    BY <1>1, <2>1 DEF Stays
  <2> QED
    BY TableIs, <2>1, <1>2, <1>4, <1>5, <1>6, <1>7, <1>8, <1>9 DEF Stays
<1> QED
  BY <1>10 DEF Stays

\* Where main is, and what it has, changes by its own steps only.
LEMMA MainIs ==
    ASSUME Places, [Next]_vars
    PROVE  \/ pc'["main"] = pc["main"] /\ UNCHANGED <<polled, fd, msg>>
              /\ ~PollAccepts /\ ~RecvMessage /\ ~Adds
           \/ MainCollects \/ PollAccepts \/ PollPicks \/ PollFails \/ RecvMessage \/ RecvError
           \/ pc'["main"] \in {"poll", "remove", "crashed"} \cup RemovalSteps
<1> USE DEF Places, Goto, mainVars, pingVars
<1>1. ASSUME RecvEof \/ add_client \/ pong \/ move \/ game_end \/ ServerCrashes
      PROVE  pc'["main"] \in {"poll", "remove", "crashed"}
  BY <1>1 DEF RecvEof, add_client, pong, move, game_end, ServerCrashes, Handles
<1>2. ASSUME PingStarts \/ PingVisits \/ PingMarks \/ PingSends \/ PingLosesClient \/ PingGoesOn
      PROVE  pc'["main"] = pc["main"] /\ UNCHANGED <<polled, fd, msg>>
  BY <1>2 DEF PingStarts, PingVisits, PingMarks, PingSends, PingLosesClient, PingGoesOn
<1>3. ASSUME NEW t \in Threads, Removes(t)
      PROVE  /\ t = "ping" => pc'["main"] = pc["main"] /\ UNCHANGED <<polled, fd, msg>>
             /\ t = "main" => pc'["main"] \in {"poll"} \cup RemovalSteps
  BY <1>3 DEF Removes, After, RemoveFinds, RemoveReadsOpponent, RemoveNotifies, ClosesOpponent, ClearsOpponent,
              ClosesSlot, ClearsSlot, RemoveCloses, RemoveClears, RemovalSteps, Threads
<1>4. ASSUME NEW c \in Clients, Client(c) PROVE pc' = pc /\ UNCHANGED <<polled, fd, msg>>
  BY <1>4, Zenon DEF Client, ClientStarts, ClientWaits, ClientPlays, ClientGivesUp, ClientGetsMove, ClientGetsPing, ClientEnds, ClientMoves, ClientFindsGameOver, ClientLosesServer, ClientQuits, ClientHangs, Receives, clientRest
<1>5. ASSUME UNCHANGED vars PROVE pc' = pc /\ UNCHANGED <<polled, fd, msg>>
  BY <1>5 DEF vars, server
<1>6. pc'["main"] = pc["main"] => ~PollAccepts /\ ~RecvMessage /\ ~Adds
  BY DEF PollAccepts, RecvMessage, Adds
<1> HIDE DEF Places, Goto
<1> QED
  BY StepsAre, <1>1, <1>2, <1>3, <1>4, <1>5, <1>6 DEF Threads

\* The two clients of a move, when main looks for them.
LEMMA OpponentIs ==
    ASSUME Places, TableType, SocketTypes, Owned, Handling, Pairs,
           pc.main = "dispatch", ~mutex, msg.type # "ADD_CLIENT", Named(msg.name) # {}
    PROVE  LET n == Least(Named(msg.name))
               j == slots[n].opponent
           IN  /\ n \in Slots /\ slots[n].fd # -1 /\ slots[n].opponent # -1
               /\ j \in Slots /\ slots[j].fd # -1 /\ slots[j].opponent = n
<1> DEFINE n == Least(Named(msg.name))
           j == slots[n].opponent
<1>1. n \in Slots /\ slots[n].fd # -1 /\ slots[n].name = msg.name
  <2>1. Named(msg.name) \in SUBSET Nat
    BY Numbers DEF Named, Registered
  <2>2. n \in Named(msg.name)
    BY <2>1, LeastIs
  <2> QED
    BY <2>2 DEF Named, Registered
<1> HIDE DEF n
<1>2. msg.name # NoName
  <2>1. slots[n].fd \in Fds
    BY <1>1, Fields DEF TableType
  <2>2. fds[slots[n].fd] \in Clients /\ Name[fds[slots[n].fd]] = msg.name
    BY <1>1, <2>1 DEF Owned, SocketTypes
  <2> QED
    BY <2>2, GameServerAssumption
<1>3. slots[n].opponent # -1
  BY <1>1, <1>2 DEF Handling
<1>4. pc["ping"] = "sleep"
  BY DEF Places
<1>5. ~Doomed(n)
  <2>1. \A t \in Threads : pc[t] \in {"dispatch", "sleep"}
    BY <1>4 DEF Threads
  <2>2. \A t \in Threads : WillClear(t) = {}
    BY <2>1, Zenon DEF WillClear
  <2> QED
    BY <2>2 DEF Doomed
<1>6. slots[n].opponent = Partner(n) /\ Partner(n) \in Slots /\ PairedSlot(n)
  BY <1>1, <1>3, <1>5 DEF Pairs
<1>7. slots[Partner(n)].fd # -1 /\ slots[Partner(n)].opponent = n
  BY <1>6 DEF PairedSlot
<1> QED
  BY <1>1, <1>3, <1>6, <1>7 DEF n

\* Who is in the table is told of a game only when it has an opponent, and who
\* is not in the table is not told of it.
LEMMA TellsPlayers ==
    ASSUME Places, TableType, SocketTypes, Connections, Owned, Handling, Pairs, Pings,
           NEW f \in Fds, fds[f] # NoClient, Told(fds[f])
    PROVE  \E i \in Slots :
             \/ slots[i].fd = f /\ (PingSends \/ move) /\ slots[i].opponent # -1
             \/ slots[i].fd = f /\ i + 1 \in Slots /\ Adds /\ PairsWith(i + 1)
             \/ f = fd /\ Adds /\ PairsWith(i)
<1>0. \A i \in Slots : slots[i].fd \in {-1} \cup Fds
  BY Fields DEF TableType
<1>1. \A g : IsOpen(g) /\ fds[g] = fds[f] => g = f
  BY DEF IsOpen, Connections
<1>2. CASE PingSends /\ IsOpen(slots[round].fd) /\ fds[slots[round].fd] = fds[f]
  <2>1. slots[round].fd = f /\ pc.ping = "send"
    BY <1>1, <1>2 DEF PingSends, Goto
  <2> QED
    BY <1>2, <2>1, Numbers DEF Pings, Places
<1>3. ASSUME NEW i \in Slots, Adds, PairsWith(i), NEW g \in {fd, slots[i - 1].fd}, IsOpen(g), fds[g] = fds[f]
      PROVE  \E j \in Slots :
             \/ slots[j].fd = f /\ j + 1 \in Slots /\ Adds /\ PairsWith(j + 1)
             \/ f = fd /\ Adds /\ PairsWith(j)
  <2>1. i - 1 \in Slots /\ (i - 1) + 1 = i
    BY <1>3, Numbers DEF PairsWith
  <2> QED
    BY <1>1, <1>3, <2>1
<1>4. CASE /\ move /\ Named(msg.name) # {}
           /\ \E g \in {slots[OpponentOf(msg.name)].fd} : IsOpen(g) /\ fds[g] = fds[f]
  <2>1. pc.main = "dispatch" /\ ~mutex /\ msg.type = "MOVE"
    BY <1>4 DEF move, Handles, Goto
  <2> DEFINE j == OpponentOf(msg.name)
  <2>2. j \in Slots /\ slots[j].opponent # -1
    <3>1. Least(Named(msg.name)) # -1 /\ msg.type # "ADD_CLIENT"
      BY <1>4, <2>1, OpponentIs, Numbers
    <3> QED
      BY <1>4, <2>1, <3>1, OpponentIs, Zenon DEF OpponentOf
  <2> HIDE DEF j
  <2>3. slots[j].fd = f
    BY <1>1, <1>4 DEF j
  <2> QED
    BY <1>4, <2>2, <2>3
<1> QED
  BY <1>2, <1>3, <1>4 DEF Told

\* Who waits has not started, after the step too.
LEMMA WaitingKept ==
    ASSUME Places, TableType, SocketTypes, MessageType, ClientTypes, QueueTypes,
           Connections, Owned, Waiting, Handling, Pairs, Pings, Removals, [Next]_vars
    PROVE  Waiting'
<1> DEFINE HasNotStarted(c) == cl'[c] # "playing" /\ ~Has(inbox'[c], GameNews) /\ ~Has(outbox'[c], Plays)
<1> SUFFICES ASSUME NEW i \in Slots, slots'[i].fd # -1
             PROVE  /\ ~Has(outbox'[fds'[slots'[i].fd]], {"ADD_CLIENT"})
                    /\ slots'[i].opponent = -1 => HasNotStarted(fds'[slots'[i].fd])
  BY DEF Waiting, NotStarted
<1>0. \A k \in Slots : slots[k].fd \in {-1} \cup Fds
  BY Fields DEF TableType
<1>1. ASSUME Adds PROVE fd \in Fds /\ fds[fd] \in Clients /\ ~InTable(fd)
                        /\ NotStarted(fds[fd]) /\ outbox[fds[fd]] = <<>> /\ outbox' = outbox /\ cl' = cl
  BY <1>1 DEF Adds, Handling, IsOpen, SocketTypes, client
<1>5. ~Has(<<>>, {"ADD_CLIENT"})
  <2>1. <<>> \in Seq(Orders)
    OBVIOUS
  <2> QED
    BY <2>1, HasQueue
<1>2. CASE Adds /\ fds' = fds /\ LetsWait(i)
  <2>1. slots'[i].fd = fd
    BY <1>2, WaitsIs
  <2>2. ~Has(outbox'[fds[fd]], {"ADD_CLIENT"})
    BY <1>1, <1>2, <1>5
  <2> DEFINE c == fds[fd]
  <2>3. inbox' = send_message(inbox, fd, "NO_OPPONENT") /\ inbox \in [Clients -> Seq(News)] /\ "NO_OPPONENT" \in News
        /\ "NO_OPPONENT" \notin GameNews
    BY <1>2 DEF LetsWait, QueueTypes, News, GameNews, Starts
  <2>4. c \in Clients
    BY <1>1, <1>2
  <2>5. Has(inbox'[c], GameNews) <=> Has(inbox[c], GameNews)
    <3> HIDE DEF c
    <3>1. \A T : "NO_OPPONENT" \notin T => (Has(send_message(inbox, fd, "NO_OPPONENT")[c], T) <=> Has(inbox[c], T))
      BY <2>3, <2>4, SentTo
    <3> QED
      BY <2>3, <3>1, Zenon
  <2>6. NotStarted(c) /\ cl' = cl /\ outbox' = outbox
    BY <1>1, <1>2
  <2>7. /\ cl'[c] # "playing" /\ ~Has(inbox'[c], GameNews) /\ ~Has(outbox'[c], Plays)
    BY <2>5, <2>6 DEF NotStarted
  <2>8. fds'[slots'[i].fd] = fds[fd]
    BY <1>2, <2>1
  <2> QED
    BY <2>2, <2>7, <2>8
<1>3. CASE Adds /\ fds' = fds /\ PairsWith(i)
  <2>1. slots'[i].fd = fd /\ slots'[i].opponent = i - 1 /\ i - 1 # -1
    BY <1>3, PairsIs, Numbers DEF PairsWith
  <2>2. ~Has(outbox'[fds[fd]], {"ADD_CLIENT"})
    BY <1>1, <1>3, <1>5
  <2> QED
    BY <1>3, <2>1, <2>2
<1>4. ASSUME slots[i].fd # -1, slots[i].fd \in Fds,
             slots'[i].fd = slots[i].fd, fds'[slots[i].fd] = fds[slots[i].fd],
             slots'[i].opponent = slots[i].opponent \/ (i + 1 \in Slots /\ Adds /\ PairsWith(i + 1))
      PROVE  /\ ~Has(outbox'[fds'[slots'[i].fd]], {"ADD_CLIENT"})
             /\ slots'[i].opponent = -1 => HasNotStarted(fds'[slots'[i].fd])
  <2> DEFINE c == fds[slots[i].fd]
  <2>1. c \in Clients /\ c # NoClient /\ Connected(c) /\ ~Has(outbox[c], {"ADD_CLIENT"})
    BY <1>4 DEF Owned, SocketTypes, Connected, Waiting
  <2>2. ~Has(outbox'[c], {"ADD_CLIENT"})
    <3> HIDE DEF c
    <3>1. ~ClientStarts(c)
      BY <2>1 DEF Connections, ClientStarts
    <3>2. outbox[c] \in Seq(Orders)
      BY <2>1 DEF QueueTypes
    <3>3. ASSUME NEW m \in Plays PROVE ~Has(Append(outbox[c], m), {"ADD_CLIENT"})
      <4>1. m \notin {"ADD_CLIENT"}
        BY DEF Plays
      <4> QED
        BY <2>1, <3>2, <4>1, HasQueue
    <3>4. outbox[c] # <<>> => ~Has(Tail(outbox[c]), {"ADD_CLIENT"})
      BY <2>1, <3>2, Loses
    <3> QED
      BY <2>1, <3>1, <3>3, <3>4, OutboxIs, Zenon
  <2>3. ASSUME slots'[i].opponent = -1 PROVE NotStarted(c) /\ ~Told(c)
    <3>1. ~(i + 1 \in Slots /\ Adds /\ PairsWith(i + 1))
      <4> SUFFICES ASSUME i + 1 \in Slots, Adds, PairsWith(i + 1) PROVE FALSE
        OBVIOUS
      <4>1. (i + 1) - 1 = i /\ i + 1 # -1
        BY Numbers
      <4> QED
        BY <2>3, <4>1, PairsIs
    <3>2. NotStarted(c)
      BY <1>4, <2>3, <3>1 DEF Waiting
    <3>3. ~Told(c)
      <4> SUFFICES ASSUME Told(c) PROVE FALSE
        OBVIOUS
      <4>1. PICK k \in Slots :
             \/ slots[k].fd = slots[i].fd /\ (PingSends \/ move) /\ slots[k].opponent # -1
             \/ slots[k].fd = slots[i].fd /\ k + 1 \in Slots /\ Adds /\ PairsWith(k + 1)
             \/ slots[i].fd = fd /\ Adds /\ PairsWith(k)
        BY <1>4, <2>1, TellsPlayers
      <4>2. slots[i].fd # fd \/ ~Adds
        BY <1>1 DEF InTable
      <4>3. slots[k].fd = slots[i].fd => k = i
        BY <1>4 DEF Owned
      <4> QED
        BY <1>4, <2>3, <3>1, <4>1, <4>2, <4>3 DEF PingSends, move
    <3> QED
      BY <3>2, <3>3
  <2>4. ASSUME slots'[i].opponent = -1
        PROVE  cl'[c] # "playing" /\ ~Has(inbox'[c], GameNews) /\ ~Has(outbox'[c], Plays)
    <3>1. c \in Clients /\ NotStarted(c) /\ ~Told(c)
      BY <2>1, <2>3, <2>4
    <3> HIDE DEF c
    <3>2. \A d \in Clients : NotStarted(d) /\ ~Told(d) => cl'[d] # "playing" /\ ~Has(inbox'[d], GameNews) /\ ~Has(outbox'[d], Plays)
      BY NotStartedKept DEF NotStarted
    <3> QED
      BY <3>1, <3>2
  <2> QED
    BY <1>4, <2>2, <2>4 DEF NotStarted
<1> QED
  BY <1>2, <1>3, <1>4, StaysIs

\* What stays open while nothing is accepted or added stays in the table.
LEMMA StillOpen ==
    ASSUME TableType, SocketTypes, Connections, Removals, [Next]_vars, ~PollAccepts, ~Adds,
           NEW f \in Fds, fds'[f] # NoClient
    PROVE  fds'[f] = fds[f] /\ (InTable(f) => InTable(f)')
<1>0. \A i \in Slots : slots[i].fd \in {-1} \cup Fds
  BY Fields DEF TableType
<1> SUFFICES fds'[f] = fds[f] /\ \A k \in Slots : slots[k].fd = f => slots'[k].fd = f
  BY DEF InTable
<1>1. ASSUME NEW i \in Slots, Closed(i) PROVE fds'[f] = fds[f] /\ \A k \in Slots : slots[k].fd = f => slots'[k].fd = f
  <2>1. slots[i].fd # f /\ fds'[f] = fds[f]
    BY <1>0, <1>1, CloseIs DEF Closed
  <2> QED
    BY <1>1, <2>1 DEF Closed, Same
<1>2. ASSUME NEW i \in Slots, Cleared(i) PROVE fds'[f] = fds[f] /\ \A k \in Slots : slots[k].fd = f => slots'[k].fd = f
  BY <1>2 DEF Cleared, Same
<1>3. pong => \A k \in Slots : slots'[k].fd = slots[k].fd
  BY PongIs
<1>4. PingMarks => \A k \in Slots : slots'[k].fd = slots[k].fd
  <2> SUFFICES ASSUME PingMarks, NEW k \in Slots PROVE slots'[k].fd = slots[k].fd
    OBVIOUS
  <2>1. slots'[k] = IF k = round THEN [slots[k] EXCEPT !.active = 0] ELSE slots[k]
    BY DEF PingMarks, TableType
  <2>2. slots[k] \in Slot
    BY DEF TableType
  <2> QED
    BY <2>1, <2>2 DEF Slot
<1> QED
  BY TableIs, <1>1, <1>2, <1>3, <1>4

\* A connection that is not in the table is told of no game.
LEMMA UnlistedKept ==
    ASSUME Places, TableType, SocketTypes, ClientTypes, QueueTypes, Connections, Owned, Handling, Pairs,
           Pings, Removals, [Next]_vars, ~Adds,
           NEW f \in Fds, fds[f] # NoClient, ~InTable(f), NotStarted(fds[f])
    PROVE  /\ fds'[f] = fds[f] /\ ~InTable(f)'
           /\ cl'[fds[f]] # "playing" /\ ~Has(inbox'[fds[f]], GameNews) /\ ~Has(outbox'[fds[f]], Plays)
           /\ \/ outbox'[fds[f]] = outbox[fds[f]]
              \/ RecvMessage /\ f = fd /\ outbox'[fds[f]] = Tail(outbox[fds[f]])
<1>0. \A i \in Slots : slots[i].fd \in {-1} \cup Fds
  BY Fields DEF TableType
<1>1. fds'[f] = fds[f]
  <2>1. ASSUME NEW i \in Slots, Closed(i) PROVE fds'[f] = fds[f]
    BY <1>0, <2>1, CloseIs DEF Closed, InTable
  <2>2. ASSUME NEW c \in backlog, NEW g \in Fds, fds[g] = NoClient, fds' = [fds EXCEPT ![g] = c] PROVE fds'[f] = fds[f]
    BY <2>2 DEF SocketTypes
  <2>3. \A i \in Slots : Cleared(i) => fds' = fds
    BY DEF Cleared
  <2> QED
    BY TableIs, <2>1, <2>2, <2>3
<1>2. ~InTable(f)'
  <2> SUFFICES ASSUME NEW k \in Slots, slots'[k].fd = f PROVE FALSE
    BY DEF InTable
  <2>1. slots'[k].fd # -1
    BY Numbers
  <2> QED
    BY <2>1, StaysIs DEF InTable
<1> DEFINE c == fds[f]
<1>3. c \in Clients /\ Connected(c) /\ NotStarted(c)
  BY DEF SocketTypes, Connected
<1>4. ~Told(c)
  <2> SUFFICES ASSUME Told(c) PROVE FALSE
    OBVIOUS
  <2> QED
    BY TellsPlayers DEF InTable
<1>5. \A g \in Fds : fds[g] = c => g = f
  BY DEF Connections
<1> HIDE DEF c
<1>6. cl'[c] # "playing" /\ ~Has(inbox'[c], GameNews) /\ ~Has(outbox'[c], Plays)
  <2>1. \A d \in Clients : NotStarted(d) /\ ~Told(d) => cl'[d] # "playing" /\ ~Has(inbox'[d], GameNews) /\ ~Has(outbox'[d], Plays)
    BY NotStartedKept DEF NotStarted
  <2> QED
    BY <1>3, <1>4, <2>1
<1>7. \/ outbox'[c] = outbox[c]
      \/ RecvMessage /\ f = fd /\ outbox'[c] = Tail(outbox[c])
  <2>1. ~ClientStarts(c)
    BY <1>3 DEF Connections, ClientStarts
  <2>2. cl[c] # "playing"
    BY <1>3 DEF NotStarted
  <2>3. IsOpen(fd) => fd \in Fds
    BY DEF IsOpen
  <2> QED
    BY <1>3, <1>5, <2>1, <2>2, <2>3, OutboxIs
<1> QED
  BY <1>1, <1>2, <1>6, <1>7 DEF c

\* What main has read of the table before it took the mutex is still true of it.
LEMMA HandlingKept ==
    ASSUME Places, TableType, SocketTypes, MessageType, ClientTypes, QueueTypes,
           Connections, Owned, Waiting, Handling, Pairs, Pings, Removals, [Next]_vars
    PROVE  Handling'
<1> DEFINE Open(f) == f \in Fds /\ fds'[f] # NoClient
           In(f) == \E i \in Slots : slots'[i].fd = f
           Fresh(c) == cl'[c] # "playing" /\ ~Has(inbox'[c], GameNews) /\ ~Has(outbox'[c], Plays)
           H1 == pc'["main"] = "polling" => \A i \in Slots : Open(polled'[i]) => In(polled'[i])
           H2 == pc'["main"] = "recv" /\ Open(fd') /\ ~In(fd') =>
                   Fresh(fds'[fd']) /\ outbox'[fds'[fd']] = <<"ADD_CLIENT">>
           H3 == pc'["main"] = "dispatch" /\ msg'.name # NoName =>
                   IF msg'.type = "ADD_CLIENT"
                   THEN /\ Open(fd') /\ ~In(fd')
                        /\ Name[fds'[fd']] = msg'.name
                        /\ Fresh(fds'[fd']) /\ outbox'[fds'[fd']] = <<>>
                   ELSE /\ msg'.type \in Plays
                        /\ \A i \in Slots : slots'[i].fd # -1 /\ slots'[i].name = msg'.name =>
                             slots'[i].fd = fd' /\ slots'[i].opponent # -1
<1> SUFFICES H1 /\ H2 /\ H3
  BY DEF Handling, IsOpen, InTable, NotStarted
<1>i. \A f : (InTable(f)' <=> In(f)) /\ (InTable(f) <=> \E i \in Slots : slots[i].fd = f)
  BY DEF InTable
<1>1. CASE pc'["main"] = pc["main"] /\ UNCHANGED <<polled, fd, msg>> /\ ~PollAccepts /\ ~RecvMessage /\ ~Adds
  <2>1. H1
    <3> SUFFICES ASSUME pc["main"] = "polling", NEW i \in Slots, Open(polled[i]) PROVE In(polled[i])
      BY <1>1
    <3>1. fds'[polled[i]] = fds[polled[i]] /\ (InTable(polled[i]) => InTable(polled[i])')
      BY <1>1, StillOpen
    <3>2. IsOpen(polled[i])
      BY <3>1 DEF IsOpen
    <3> QED
      BY <1>1, <1>i, <3>1, <3>2 DEF Handling
  <2>2. H2
    <3> SUFFICES ASSUME pc["main"] = "recv", Open(fd), ~In(fd)
                 PROVE  Fresh(fds'[fd]) /\ outbox'[fds'[fd]] = <<"ADD_CLIENT">>
      BY <1>1
    <3>1. fds'[fd] = fds[fd] /\ ~InTable(fd)
      BY <1>1, <1>i, StillOpen
    <3>2. IsOpen(fd)
      BY <3>1 DEF IsOpen
    <3>3. NotStarted(fds[fd]) /\ outbox[fds[fd]] = <<"ADD_CLIENT">>
      BY <3>1, <3>2 DEF Handling
    <3>4. Fresh(fds[fd]) /\ outbox'[fds[fd]] = outbox[fds[fd]]
      BY <1>1, <3>1, <3>2, <3>3, UnlistedKept DEF IsOpen
    <3> QED
      BY <3>1, <3>3, <3>4
  <2>3. H3
    <3> SUFFICES ASSUME pc["main"] = "dispatch", msg.name # NoName
                 PROVE  IF msg.type = "ADD_CLIENT"
                   THEN /\ Open(fd) /\ ~In(fd)
                        /\ Name[fds'[fd]] = msg.name
                        /\ Fresh(fds'[fd]) /\ outbox'[fds'[fd]] = <<>>
                   ELSE /\ msg.type \in Plays
                        /\ \A i \in Slots : slots'[i].fd # -1 /\ slots'[i].name = msg.name =>
                             slots'[i].fd = fd /\ slots'[i].opponent # -1
      BY <1>1
    <3>1. ASSUME msg.type = "ADD_CLIENT"
          PROVE  /\ Open(fd) /\ ~In(fd)
                 /\ Name[fds'[fd]] = msg.name
                 /\ Fresh(fds'[fd]) /\ outbox'[fds'[fd]] = <<>>
      <4>1. IsOpen(fd) /\ ~InTable(fd) /\ Name[fds[fd]] = msg.name /\ NotStarted(fds[fd]) /\ outbox[fds[fd]] = <<>>
        BY <3>1 DEF Handling
      <4>2. /\ fds'[fd] = fds[fd] /\ ~InTable(fd)' /\ Fresh(fds[fd]) /\ outbox'[fds[fd]] = outbox[fds[fd]]
        BY <1>1, <4>1, UnlistedKept DEF IsOpen
      <4> QED
        BY <1>1, <1>i, <4>1, <4>2 DEF IsOpen
    <3>2. ASSUME msg.type # "ADD_CLIENT"
          PROVE  /\ msg.type \in Plays
                 /\ \A i \in Slots : slots'[i].fd # -1 /\ slots'[i].name = msg.name =>
                      slots'[i].fd = fd /\ slots'[i].opponent # -1
      <4>1. msg.type \in Plays /\ \A i \in Slots : slots[i].fd # -1 /\ slots[i].name = msg.name =>
                      slots[i].fd = fd /\ slots[i].opponent # -1
        BY <3>2 DEF Handling
      <4> QED
        BY <1>1, <4>1, StaysIs
    <3> QED
      BY <3>1, <3>2
  <2> QED
    BY <2>1, <2>2, <2>3
<1> HIDE DEF Fresh, In, Open
<1>2. CASE MainCollects
  <2>1. pc'["main"] = "polling"
    BY <1>2 DEF MainCollects, Goto, Places
  <2>2. \A i \in Slots : In(polled'[i])
    BY <1>2 DEF MainCollects, In
  <2> QED
    BY <2>1, <2>2
<1>3. CASE PollAccepts
  <2>1. pc'["main"] = "recv"
    BY <1>3 DEF PollAccepts, Goto, Places
  <2>2. PICK c \in backlog : fd' \in Fds /\ fds' = [fds EXCEPT ![fd'] = c]
    BY <1>3, FreeDescriptor DEF PollAccepts
  <2>3. fds'[fd'] = c
    BY <2>2 DEF SocketTypes
  <2>4. NotStarted(c) /\ outbox[c] = <<"ADD_CLIENT">>
    BY DEF Connections
  <2>5. cl' = cl /\ inbox' = inbox /\ outbox' = outbox
    BY <1>3 DEF PollAccepts, client
  <2>6. Fresh(c)
    BY <2>4, <2>5 DEF Fresh, NotStarted
  <2> QED
    BY <2>1, <2>3, <2>4, <2>5, <2>6
<1>4. CASE PollPicks
  <2>1. pc'["main"] = "recv" /\ pc.main = "polling" /\ slots' = slots /\ fds' = fds
    BY <1>4 DEF PollPicks, Goto, Places
  <2>2. PICK i \in Slots : fd' = polled[i] /\ IsOpen(polled[i])
    <3>1. ReadySlots \in SUBSET Nat /\ ReadySlots # {}
      BY <1>4, Numbers DEF PollPicks, ReadySlots
    <3>2. Least(ReadySlots) \in ReadySlots
      BY <3>1, LeastIs
    <3> QED
      BY <1>4, <3>2 DEF PollPicks, ReadySlots, Ready
  <2>3. In(fd')
    BY <2>1, <2>2, <1>i DEF Handling, In
  <2> QED
    BY <2>1, <2>3
<1>5. CASE PollFails
  <2>1. pc'["main"] = "recv" /\ fd' = -1
    BY <1>5 DEF PollFails, Goto, Places
  <2> QED
    BY <2>1, Numbers DEF Open
<1>6. CASE RecvMessage
  <2> DEFINE c == fds[fd]
  <2>1. /\ pc'["main"] = "dispatch" /\ pc.main = "recv" /\ slots' = slots /\ fds' = fds /\ fd' = fd
        /\ IsOpen(fd) /\ outbox[c] # <<>> /\ cl' = cl /\ inbox' = inbox
        /\ msg' = [type |-> Head(outbox[c]), name |-> Name[c]]
        /\ outbox' = [outbox EXCEPT ![c] = Tail(@)]
    BY <1>6 DEF RecvMessage, Goto, Places
  <2>2. msg'.type = Head(outbox[c]) /\ msg'.name = Name[c]
    BY <2>1
  <2>3. fd \in Fds /\ c \in Clients /\ c # NoClient
    BY <2>1 DEF IsOpen, SocketTypes
  <2>4. outbox[c] \in Seq(Orders) /\ outbox'[c] = Tail(outbox[c])
    BY <2>1, <2>3 DEF QueueTypes
  <2>5. ASSUME ~InTable(fd)
        PROVE  msg'.type = "ADD_CLIENT" /\ Fresh(c) /\ outbox'[c] = <<>>
    <3>1. NotStarted(c) /\ outbox[c] = <<"ADD_CLIENT">>
      BY <2>1, <2>5 DEF Handling
    <3>2. msg'.type = "ADD_CLIENT" /\ outbox'[c] = <<>>
      BY <2>2, <2>4, <3>1, OneOrder
    <3>3. ~Adds
      BY <2>1 DEF Adds
    <3>4. cl'[c] # "playing" /\ ~Has(inbox'[c], GameNews) /\ ~Has(outbox'[c], Plays)
      BY <2>3, <2>5, <3>1, <3>3, UnlistedKept
    <3> QED
      BY <3>2, <3>4 DEF Fresh
  <2>6. ASSUME NEW i \in Slots, slots[i].fd = fd
        PROVE  /\ msg'.type \in Plays
               /\ \A k \in Slots : slots[k].fd # -1 /\ slots[k].name = msg'.name =>
                    slots[k].fd = fd /\ slots[k].opponent # -1
    <3>1. slots[i].fd # -1 /\ fds[slots[i].fd] = c /\ slots[i].name = Name[c]
      BY <2>3, <2>6, Numbers DEF Owned
    <3>2. ~Has(outbox[c], {"ADD_CLIENT"}) /\ (slots[i].opponent = -1 => ~Has(outbox[c], Plays))
      BY <3>1 DEF Waiting, NotStarted
    <3> HIDE DEF c
    <3>3. Head(outbox[c]) \in Orders
      BY <2>1, <2>4
    <3>4. Head(outbox[c]) # "ADD_CLIENT"
      BY <2>1, <2>4, <3>2, FirstIs
    <3>5. Head(outbox[c]) \in Plays
      BY <3>3, <3>4 DEF Orders
    <3>6. slots[i].opponent # -1
      BY <2>1, <2>4, <3>2, <3>5, FirstIs
    <3>7. \A k \in Slots : slots[k].fd # -1 /\ slots[k].name = Name[c] => k = i
      BY <3>1 DEF Owned
    <3> QED
      BY <2>2, <2>6, <3>5, <3>6, <3>7
  <2>7. "ADD_CLIENT" \notin Plays
    BY DEF Plays
  <2>8. CASE InTable(fd)
    BY <2>1, <2>6, <2>7, <2>8 DEF InTable
  <2>9. CASE ~InTable(fd)
    <3>1. Open(fd') /\ ~In(fd') /\ fds'[fd'] = c
      BY <2>1, <2>9, <1>i DEF Open, IsOpen, In
    <3> QED
      BY <2>1, <2>2, <2>5, <2>9, <3>1
  <2> QED
    BY <2>8, <2>9
<1>7. CASE RecvError
  <2>1. pc'["main"] = "dispatch" /\ msg' = [msg EXCEPT !.name = NoName]
    BY <1>7 DEF RecvError, Goto, Places
  <2>2. msg'.name = NoName
    BY <2>1 DEF MessageType, Message
  <2> QED
    BY <2>1, <2>2
<1>8. CASE pc'["main"] \in {"poll", "remove", "crashed"} \cup RemovalSteps
  BY <1>8 DEF RemovalSteps
<1> HIDE DEF H1, H2, H3
<1> QED
  BY MainIs, <1>1, <1>2, <1>3, <1>4, <1>5, <1>6, <1>7, <1>8

\* The two slots of a pair.
LEMMA PartnerIs ==
    ASSUME NEW i \in Nat
    PROVE  /\ Partner(i) \in Int /\ Partner(i) # i /\ Partner(Partner(i)) = i
           /\ i % 2 = 1 => Partner(i) = i - 1 /\ Partner(i - 1) = i
           /\ i % 2 = 0 => Partner(i) = i + 1
           /\ i % 2 \in {0, 1}
           /\ \A k \in Nat : Partner(k) = i => k = Partner(i)
BY DEF Partner

\* Nobody is being removed while a client is added.
LEMMA NoneRemoving ==
    ASSUME Places, Adds
    PROVE  \A t \in Threads : pc[t] \notin RemovalSteps /\ WillClear(t) = {} /\ WillClose(t) = {}
<1>1. pc["main"] = "dispatch" /\ pc["ping"] = "sleep"
  BY DEF Places, Adds
<1>2. \A t \in Threads : pc[t] \in {"dispatch", "sleep"}
  BY <1>1 DEF Threads
<1>3. \A t \in Threads : WillClear(t) = {} /\ WillClose(t) = {}
  BY <1>2, Zenon DEF WillClear, WillClose
<1> QED
  BY <1>2, <1>3 DEF RemovalSteps

\* How far a thread is with its call of remove_client changes by its own steps only.
LEMMA CallsAre ==
    ASSUME Places, CallType, [Next]_vars, NEW t \in Threads
    PROVE  \/ pc'[t] = pc[t] /\ rem'[t].i = rem[t].i /\ rem'[t].j = rem[t].j
           \/ pc[t] \notin RemovalSteps /\ pc'[t] \notin RemovalSteps
           \/ RemoveFinds(t, After(t)) /\ Removes(t)
           \/ RemoveReadsOpponent(t) /\ Removes(t)
           \/ RemoveNotifies(t) /\ Removes(t)
           \/ ClosesOpponent(t) /\ Removes(t)
           \/ ClearsOpponent(t) /\ Removes(t)
           \/ ClosesSlot(t) /\ Removes(t)
           \/ ClearsSlot(t) /\ Removes(t)
<1> USE DEF Places, Goto, RemovalSteps, Threads
<1>1. ASSUME \/ MainCollects \/ PollAccepts \/ PollPicks \/ PollFails \/ RecvMessage \/ RecvError
             \/ add_client \/ pong \/ move \/ game_end \/ ServerCrashes
      PROVE  /\ rem' = rem /\ pc'["ping"] = pc["ping"]
             /\ pc["main"] \notin RemovalSteps /\ pc'["main"] \notin RemovalSteps
  BY <1>1 DEF MainCollects, PollAccepts, PollPicks, PollFails, RecvMessage, RecvError,
              add_client, pong, move, game_end, ServerCrashes, Handles
<1>2. ASSUME RecvEof
      PROVE  /\ rem'["ping"] = rem["ping"] /\ pc'["ping"] = pc["ping"]
             /\ pc["main"] \notin RemovalSteps /\ pc'["main"] \notin RemovalSteps
  BY <1>2 DEF RecvEof, CallType
<1>3. ASSUME PingStarts \/ PingVisits \/ PingMarks \/ PingSends \/ PingGoesOn
      PROVE  /\ rem' = rem /\ pc'["main"] = pc["main"]
             /\ pc["ping"] \notin RemovalSteps /\ pc'["ping"] \notin RemovalSteps
  BY <1>3 DEF PingStarts, PingVisits, PingMarks, PingSends, PingGoesOn
<1>4. ASSUME PingLosesClient
      PROVE  /\ rem'["main"] = rem["main"] /\ pc'["main"] = pc["main"]
             /\ pc["ping"] \notin RemovalSteps /\ pc'["ping"] \notin RemovalSteps
  BY <1>4 DEF PingLosesClient, CallType
<1>5. ASSUME NEW c \in Clients, Client(c) PROVE pc' = pc /\ rem' = rem
  BY <1>5, Zenon DEF Client, ClientStarts, ClientWaits, ClientPlays, ClientGivesUp, ClientGetsMove, ClientGetsPing, ClientEnds, ClientMoves, ClientFindsGameOver, ClientLosesServer, ClientQuits, ClientHangs, Receives, clientRest
<1>6. ASSUME UNCHANGED vars PROVE pc' = pc /\ rem' = rem
  BY <1>6 DEF vars, server
<1>7. ASSUME NEW u \in Threads, u # t, Removes(u) PROVE pc'[t] = pc[t] /\ rem'[t] = rem[t]
  BY <1>7 DEF Removes, After, RemoveFinds, RemoveReadsOpponent, RemoveNotifies, ClosesOpponent, ClearsOpponent,
              ClosesSlot, ClearsSlot, RemoveCloses, RemoveClears, CallType
<1>8. Removes(t) => \/ RemoveFinds(t, After(t)) \/ RemoveReadsOpponent(t) \/ RemoveNotifies(t) \/ ClosesOpponent(t)
                    \/ ClearsOpponent(t) \/ ClosesSlot(t) \/ ClearsSlot(t)
  BY DEF Removes
<1>9. t = "main" \/ t = "ping"
  OBVIOUS
<1> HIDE DEF Places, Goto, RemovalSteps, Threads
<1> QED
  BY StepsAre, <1>1, <1>2, <1>3, <1>4, <1>5, <1>6, <1>7, <1>8, <1>9

\* What a thread has still to clear or close, it clears or closes itself.
LEMMA WillsAre ==
    ASSUME Places, CallType, Removals, [Next]_vars, NEW t \in Threads, NEW k \in Slots
    PROVE  /\ k \in WillClear(t) => \/ k \in WillClear(t)'
                                    \/ ClearsOpponent(t) /\ k = rem[t].j
                                    \/ ClearsSlot(t) /\ k = rem[t].i
           /\ k \in WillClose(t) => \/ k \in WillClose(t)'
                                    \/ ClosesOpponent(t) /\ k = rem[t].j
                                    \/ ClosesSlot(t) /\ k = rem[t].i
<1> DEFINE i == rem[t].i
           j == rem[t].j
<1>1. /\ pc[t] \in {"notify", "close_opponent", "clear_opponent"} => WillClear(t) = {i, j}
      /\ pc[t] \in {"opponent", "close", "clear"} => WillClear(t) = {i}
      /\ pc[t] \notin RemovalSteps => WillClear(t) = {}
      /\ pc[t] \in {"notify", "close_opponent"} => WillClose(t) = {i, j}
      /\ pc[t] \in {"opponent", "clear_opponent", "close"} => WillClose(t) = {i}
      /\ pc[t] \notin RemovalSteps \/ pc[t] = "clear" => WillClose(t) = {}
  BY DEF WillClear, WillClose, RemovalSteps
<1>2. /\ pc'[t] \in {"notify", "close_opponent", "clear_opponent"} => WillClear(t)' = {rem'[t].i, rem'[t].j}
      /\ pc'[t] \in {"opponent", "close", "clear"} => WillClear(t)' = {rem'[t].i}
      /\ pc'[t] \notin RemovalSteps => WillClear(t)' = {}
      /\ pc'[t] \in {"notify", "close_opponent"} => WillClose(t)' = {rem'[t].i, rem'[t].j}
      /\ pc'[t] \in {"opponent", "clear_opponent", "close"} => WillClose(t)' = {rem'[t].i}
      /\ pc'[t] \notin RemovalSteps \/ pc'[t] = "clear" => WillClose(t)' = {}
  BY DEF WillClear, WillClose, RemovalSteps
<1>3. CASE pc'[t] = pc[t] /\ rem'[t].i = rem[t].i /\ rem'[t].j = rem[t].j
  BY <1>1, <1>2, <1>3 DEF WillClear, WillClose
<1>4. CASE pc[t] \notin RemovalSteps /\ pc'[t] \notin RemovalSteps
  BY <1>1, <1>2, <1>4
<1>5. CASE RemoveFinds(t, After(t))
  <2>1. pc[t] = "remove"
    BY <1>5 DEF RemoveFinds, Goto
  <2> QED
    BY <1>1, <2>1 DEF RemovalSteps
<1>6. CASE RemoveReadsOpponent(t)
  <2>1. pc[t] = "opponent" /\ pc'[t] \in {"notify", "close"} /\ rem'[t].i = i
    BY <1>6 DEF RemoveReadsOpponent, Goto, CallType, Call, Places, Threads
  <2> QED
    BY <1>1, <1>2, <2>1
<1>7. CASE RemoveNotifies(t)
  <2>1. pc[t] = "notify" /\ pc'[t] = "close_opponent" /\ rem'[t] = rem[t]
    BY <1>7 DEF RemoveNotifies, Goto, Places, Threads
  <2> QED
    BY <1>1, <1>2, <2>1
<1>8. CASE ClosesOpponent(t)
  <2>1. pc[t] = "close_opponent" /\ pc'[t] = "clear_opponent" /\ rem'[t] = rem[t]
    BY <1>8 DEF ClosesOpponent, RemoveCloses, Goto, Places, Threads
  <2> QED
    BY <1>1, <1>2, <1>8, <2>1
<1>9. CASE ClearsOpponent(t)
  <2>1. pc[t] = "clear_opponent" /\ pc'[t] = "close"
    BY <1>9 DEF ClearsOpponent, RemoveClears, Goto, Places, Threads
  <2>2. i \in Slots /\ j = Partner(i)
    BY <2>1 DEF Removals, RemovalSteps
  <2>3. i # j
    BY <2>2, PartnerIs, Numbers
  <2>4. rem'[t] = rem[t]
    BY <1>9, <2>3 DEF ClearsOpponent, RemoveClears
  <2> QED
    BY <1>1, <1>2, <1>9, <2>1, <2>4
<1>10. CASE ClosesSlot(t)
  <2>1. pc[t] = "close" /\ pc'[t] = "clear" /\ rem'[t] = rem[t]
    BY <1>10 DEF ClosesSlot, RemoveCloses, Goto, Places, Threads
  <2> QED
    BY <1>1, <1>2, <1>10, <2>1
<1>11. CASE ClearsSlot(t)
  <2>1. pc[t] = "clear"
    BY <1>11 DEF ClearsSlot, RemoveClears, Goto
  <2> QED
    BY <1>1, <1>11, <2>1
<1> QED
  BY CallsAre, <1>3, <1>4, <1>5, <1>6, <1>7, <1>8, <1>9, <1>10, <1>11

\* What remove_client has begun with a slot, it ends.
LEMMA DoomedKept ==
    ASSUME Places, TableType, SocketTypes, CallType, Connections, Owned, Removals, [Next]_vars,
           NEW k \in Slots, Doomed(k), slots'[k].opponent # -1
    PROVE  Doomed(k)'
<1>0. ~Adds
  BY NoneRemoving DEF Doomed
<1>1. slots'[k].fd # -1 => slots[k].fd # -1
  BY <1>0, StaysIs
<1>2. \A t \in Threads :
        /\ ClearsOpponent(t) /\ k = rem[t].j => slots'[k].opponent = -1
        /\ ClearsSlot(t) /\ k = rem[t].i => slots'[k].opponent = -1
        /\ ClosesOpponent(t) /\ k = rem[t].j => slots'[k].fd = -1
        /\ ClosesSlot(t) /\ k = rem[t].i => slots'[k].fd = -1
  BY ClosesIs, ClearsIs DEF Closed, Cleared, ClosesOpponent, ClosesSlot, ClearsOpponent, ClearsSlot
<1>3. \E t \in Threads : k \in WillClear(t)'
  BY <1>2, WillsAre DEF Doomed
<1>4. slots'[k].fd # -1 => \E t \in Threads : k \in WillClose(t)'
  BY <1>1, <1>2, WillsAre DEF Doomed
<1> QED
  BY <1>3, <1>4 DEF Doomed

\* The two slots of a pair are taken by opponents, or both will be free.
LEMMA PairsKept ==
    ASSUME Places, TableType, SocketTypes, CallType, MessageType, Connections, Owned, Handling, Pairs, Removals,
           [Next]_vars
    PROVE  Pairs'
<1> DEFINE Good(k) == /\ slots'[k].opponent # -1 =>
                           /\ slots'[k].opponent = Partner(k) /\ Partner(k) \in Slots
                           /\ PairedSlot(k)' \/ Doomed(k)'
                      /\ slots'[k].opponent = -1 =>
                           /\ slots'[k].fd # -1 => k % 2 = 0
                           /\ slots'[k].active # 1
<1> SUFFICES ASSUME NEW k \in Slots PROVE Good(k)
  BY DEF Pairs, PairedSlot, Doomed, Partner, WillClear, WillClose
<1> DEFINE p == Partner(k)
<1>0. k \in Nat /\ p # k /\ Partner(p) = k
  BY Numbers, PartnerIs
<1>1. /\ slots[k].opponent # -1 => slots[k].opponent = p /\ p \in Slots /\ (PairedSlot(k) \/ Doomed(k))
      /\ slots[k].opponent = -1 => (slots[k].fd # -1 => k % 2 = 0) /\ slots[k].active # 1
  BY DEF Pairs
<1>2. Doomed(k) /\ slots'[k].opponent # -1 => Doomed(k)'
  BY DoomedKept
<1>3. PairedSlot(k) <=> slots[k].fd # -1 /\ slots[p].fd # -1 /\ slots[p].opponent = k
  BY DEF PairedSlot
<1>4. PairedSlot(k)' <=> slots'[k].fd # -1 /\ slots'[p].fd # -1 /\ slots'[p].opponent = k
  BY DEF PairedSlot, Partner
<1> HIDE DEF p
<1>p. p = Partner(k)
  BY DEF p
<1>5. CASE slots' = slots
  BY <1>1, <1>2, <1>3, <1>4, <1>5, <1>p
<1>6. ASSUME Adds, NEW i \in Slots, LetsWait(i) PROVE Good(k)
  <2>1. ~Doomed(k) /\ ~Doomed(i)
    BY <1>6, NoneRemoving DEF Doomed
  <2>2. /\ slots'[i].opponent = slots[i].opponent /\ slots'[i].active = slots[i].active
        /\ \A m \in Slots \ {i} : slots'[m] = slots[m]
    BY <1>6, WaitsIs
  <2>3. slots[i].fd = -1 /\ i % 2 = 0
    BY <1>6 DEF LetsWait, Free
  <2>4. slots[i].opponent = -1 /\ slots[i].active # 1
    BY <2>1, <2>3 DEF Pairs, PairedSlot
  <2>5. CASE k = i
    BY <2>2, <2>3, <2>4, <2>5
  <2>6. CASE k # i
    BY <1>1, <1>3, <1>4, <1>p, <2>1, <2>2, <2>3, <2>6
  <2> QED
    BY <2>5, <2>6
<1>7. ASSUME Adds, NEW i \in Slots, PairsWith(i) PROVE Good(k)
  <2>1. ~Doomed(k)
    BY <1>7, NoneRemoving DEF Doomed
  <2>2. /\ slots'[i].opponent = i - 1 /\ slots'[i - 1].opponent = i
        /\ slots'[i].fd = fd /\ slots'[i - 1].fd = slots[i - 1].fd
        /\ \A m \in Slots \ {i, i - 1} : slots'[m] = slots[m]
    BY <1>7, PairsIs
  <2>3. i % 2 = 1 /\ i - 1 \in Slots /\ slots[i].fd = -1 /\ slots[i - 1].fd # -1
    BY <1>7 DEF PairsWith, Free
  <2>4. i \in Nat /\ i - 1 \in Nat /\ Partner(i) = i - 1 /\ Partner(i - 1) = i /\ i - 1 # i /\ i # -1 /\ i - 1 # -1
    BY <2>3, Numbers, PartnerIs
  <2>5. fd # -1
    BY <1>7, Numbers DEF Adds, Handling, IsOpen
  <2>6. CASE k = i
    BY <1>4, <1>p, <2>2, <2>3, <2>4, <2>5, <2>6
  <2>7. CASE k = i - 1
    BY <1>4, <1>p, <2>2, <2>3, <2>4, <2>5, <2>7
  <2>8. CASE k # i /\ k # i - 1
    <3>1. p # i /\ p # i - 1
      BY <1>0, <2>4, <2>8
    <3> QED
      BY <1>1, <1>3, <1>4, <1>p, <2>1, <2>2, <2>8, <3>1
  <2> QED
    BY <2>6, <2>7, <2>8
<1>8. CASE pong
  <2>1. \A m \in Slots : slots'[m].fd = slots[m].fd /\ slots'[m].opponent = slots[m].opponent
    BY <1>8, PongIs
  <2>2. slots'[k].active = IF Answers(k) THEN 1 ELSE slots[k].active
    BY <1>8, PongIs
  <2>3. Answers(k) => slots[k].opponent # -1
    <3> SUFFICES ASSUME Answers(k) PROVE slots[k].opponent # -1
      OBVIOUS
    <3>1. pc["main"] = "dispatch" /\ msg.type = "PONG" /\ (msg.name # NoName \/ Registered = {})
      BY <1>8 DEF pong, Handles, Goto
    <3>2. k \in Registered
      BY DEF Answers, Registered
    <3> QED
      BY <3>1, <3>2 DEF Handling, Answers
  <2> QED
    BY <1>1, <1>2, <1>3, <1>4, <1>p, <2>1, <2>2, <2>3
<1>9. CASE PingMarks
  <2>1. \A m \in Slots : slots'[m].fd = slots[m].fd /\ slots'[m].opponent = slots[m].opponent
    BY <1>9, MarksIs
  <2>2. slots'[k].active = IF k = round THEN 0 ELSE slots[k].active
    BY <1>9, MarksIs
  <2> QED
    BY <1>1, <1>2, <1>3, <1>4, <1>p, <2>1, <2>2
<1>10. ASSUME NEW t \in Threads, ClosesOpponent(t), rem[t].j \in Slots, Closed(rem[t].j) PROVE Good(k)
  <2> DEFINE j == rem[t].j
             i == rem[t].i
  <2>1. /\ slots'[j].fd = -1 /\ slots'[j].opponent = slots[j].opponent /\ slots'[j].active = slots[j].active
        /\ \A m \in Slots \ {j} : slots'[m] = slots[m]
    BY <1>10 DEF Closed, Same
  <2>2. pc[t] = "close_opponent" /\ pc'[t] = "clear_opponent" /\ rem' = rem
    BY <1>10 DEF ClosesOpponent, RemoveCloses, Goto, Places, Threads
  <2>3. i \in Slots /\ j \in Slots /\ j = Partner(i)
    BY <2>2 DEF Removals, RemovalSteps
  <2>4. WillClear(t)' = {i, j} /\ WillClose(t)' = {i}
    BY <2>2 DEF WillClear, WillClose
  <2>5. Partner(j) = i /\ i # j
    BY <2>3, PartnerIs, Numbers
  <2>6. \A m \in {i, j} : Doomed(m)'
    BY <2>1, <2>4 DEF Doomed
  <2> HIDE DEF i, j
  <2>7. CASE k \in {i, j}
    BY <1>1, <2>1, <2>3, <2>5, <2>6, <2>7, <1>p
  <2>8. CASE k \notin {i, j}
    <3>1. p # j
      BY <1>0, <2>5, <2>8
    <3> QED
      BY <1>1, <1>2, <1>3, <1>4, <1>p, <2>1, <2>3, <2>8, <3>1
  <2> QED
    BY <2>7, <2>8
<1>11. ASSUME NEW i \in Slots, Cleared(i), slots[i].fd = -1 PROVE Good(k)
  <2>1. /\ slots'[i].fd = -1 /\ slots'[i].opponent = -1 /\ slots'[i].active = -1
        /\ \A m \in Slots \ {i} : slots'[m] = slots[m]
    BY <1>11 DEF Cleared, Same
  <2>2. CASE k = i
    BY <2>1, <2>2
  <2>3. CASE k # i
    <3>1. PairedSlot(k) => p # i
      BY <1>3, <1>11
    <3> QED
      BY <1>1, <1>2, <1>3, <1>4, <1>p, <2>1, <2>3, <3>1
  <2> QED
    BY <2>2, <2>3
<1>12. ASSUME NEW t \in Threads, ClosesSlot(t), rem[t].i \in Slots, Closed(rem[t].i) PROVE Good(k)
  <2> DEFINE i == rem[t].i
  <2>1. /\ slots'[i].fd = -1 /\ slots'[i].opponent = slots[i].opponent /\ slots'[i].active = slots[i].active
        /\ \A m \in Slots \ {i} : slots'[m] = slots[m]
    BY <1>12 DEF Closed, Same
  <2>2. pc[t] = "close" /\ pc'[t] = "clear" /\ rem' = rem
    BY <1>12 DEF ClosesSlot, RemoveCloses, Goto, Places, Threads
  <2>3. i \in Slots /\ (slots[i].opponent = -1 \/ slots[Partner(i)].fd = -1)
    BY <1>12, <2>2 DEF Removals
  <2>4. WillClear(t)' = {i} /\ slots'[i].fd = -1
    BY <2>1, <2>2 DEF WillClear
  <2>5. \A m \in {i} : Doomed(m)'
    BY <2>4 DEF Doomed
  <2> HIDE DEF i
  <2>6. CASE k = i
    BY <1>1, <1>p, <2>1, <2>5, <2>6
  <2>7. CASE k # i
    <3>1. PairedSlot(k) => p # i
      <4> SUFFICES ASSUME PairedSlot(k), p = i PROVE FALSE
        OBVIOUS
      <4>1. slots[k].fd # -1 /\ slots[i].opponent = k /\ Partner(i) = k
        BY <1>0, <1>3
      <4> QED
        BY <2>3, <4>1, Numbers
    <3> QED
      BY <1>1, <1>2, <1>3, <1>4, <1>p, <2>1, <2>7, <3>1
  <2> QED
    BY <2>6, <2>7
<1>13. \A t \in Threads : /\ ClearsOpponent(t) => slots[rem[t].j].fd = -1
                          /\ ClearsSlot(t) => slots[rem[t].i].fd = -1
  BY DEF Removals, ClearsOpponent, ClearsSlot, RemoveClears, Goto
<1> HIDE DEF Good
<1> QED
  BY TableIs, <1>5, <1>6, <1>7, <1>8, <1>9, <1>10, <1>11, <1>12, <1>13

\* A call of remove_client finds its slots as it left them.
LEMMA RemovalsKept ==
    ASSUME Places, TableType, SocketTypes, CallType, Connections, Owned, Pairs, Removals, [Next]_vars
    PROVE  Removals'
<1> DEFINE Good(t) ==
        /\ pc'[t] \in RemovalSteps => rem'[t].i \in Slots
        /\ pc'[t] \in {"notify", "close_opponent", "clear_opponent"} =>
             rem'[t].j \in Slots /\ rem'[t].j = Partner(rem'[t].i)
        /\ pc'[t] = "clear_opponent" => slots'[rem'[t].j].fd = -1
        /\ pc'[t] = "close" =>
             slots'[rem'[t].i].opponent = -1 \/ slots'[Partner(rem'[t].i)].fd = -1
        /\ pc'[t] = "clear" => slots'[rem'[t].i].fd = -1
<1> SUFFICES ASSUME NEW t \in Threads PROVE Good(t)
  BY DEF Removals, Partner
<1> DEFINE i == rem[t].i
           j == rem[t].j
<1>0. /\ pc[t] \in RemovalSteps => i \in Slots
      /\ pc[t] \in {"notify", "close_opponent", "clear_opponent"} => j \in Slots /\ j = Partner(i)
      /\ pc[t] = "clear_opponent" => slots[j].fd = -1
      /\ pc[t] = "close" => slots[i].opponent = -1 \/ slots[Partner(i)].fd = -1
      /\ pc[t] = "clear" => slots[i].fd = -1
  BY DEF Removals
<1>1. ~Adds => \A k \in Slots : /\ slots[k].fd = -1 => slots'[k].fd = -1
                                /\ slots[k].opponent = -1 /\ slots'[k].fd # -1 => slots'[k].opponent = -1
  BY StaysIs
<1>2. ~Adds => \A k \in Slots : slots[k].opponent = -1 => slots'[k].opponent = -1
  <2>1. pong => \A k \in Slots : slots'[k].opponent = slots[k].opponent
    BY PongIs
  <2>2. PingMarks => \A k \in Slots : slots'[k].opponent = slots[k].opponent
    BY MarksIs
  <2>3. \A m \in Slots : Closed(m) => \A k \in Slots : slots'[k].opponent = slots[k].opponent
    BY DEF Closed, Same
  <2>4. \A m \in Slots : Cleared(m) => \A k \in Slots : slots[k].opponent = -1 => slots'[k].opponent = -1
    BY DEF Cleared, Same
  <2> QED
    BY TableIs, <2>1, <2>2, <2>3, <2>4
<1>a. pc[t] \in RemovalSteps => ~Adds
  BY NoneRemoving
<1>b. {"opponent", "notify", "close_opponent", "clear_opponent", "close", "clear"} = RemovalSteps
  BY DEF RemovalSteps
<1>c. pc[t] = "close" /\ Partner(i) \notin Slots => slots[i].opponent = -1
  BY <1>0, <1>b DEF Pairs
<1>3. CASE pc'[t] = pc[t] /\ rem'[t].i = rem[t].i /\ rem'[t].j = rem[t].j
  <2>1. CASE pc[t] \notin RemovalSteps
    BY <1>3, <1>b, <2>1
  <2>2. CASE pc[t] \in RemovalSteps
    BY <1>0, <1>1, <1>2, <1>3, <1>a, <1>b, <1>c, <2>2
  <2> QED
    BY <2>1, <2>2
<1>4. CASE pc[t] \notin RemovalSteps /\ pc'[t] \notin RemovalSteps
  BY <1>4, <1>b
<1>5. CASE RemoveFinds(t, After(t))
  <2> DEFINE found == {k \in Slots : slots[k].fd = rem[t].fd}
  <2>1. CASE found = {}
    <3>1. pc'[t] \in {"poll", "next"}
      BY <1>5, <2>1 DEF RemoveFinds, Goto, Places, Threads, After
    <3> QED
      BY <3>1, <1>b
  <2>2. CASE found # {}
    <3>1. Least(found) \in Slots
      BY <2>2, LeastIs, Numbers
    <3>2. pc'[t] = "opponent" /\ rem'[t].i = Least(found)
      BY <1>5, <2>2 DEF RemoveFinds, Goto, Places, Threads, CallType, Call
    <3> QED
      BY <3>1, <3>2
  <2> QED
    BY <2>1, <2>2
<1>6. CASE RemoveReadsOpponent(t)
  <2>1. /\ pc[t] = "opponent" /\ pc'[t] = IF slots[i].opponent # -1 THEN "notify" ELSE "close"
        /\ rem'[t].i = i /\ rem'[t].j = slots[i].opponent /\ slots' = slots
    BY <1>6 DEF RemoveReadsOpponent, Goto, Places, Threads, CallType, Call
  <2>2. i \in Slots
    BY <1>0, <1>b, <2>1
  <2>3. slots[i].opponent # -1 => slots[i].opponent = Partner(i) /\ Partner(i) \in Slots
    BY <2>2 DEF Pairs
  <2> HIDE DEF i
  <2>4. pc'[t] \in {"notify", "close"}
    BY <2>1
  <2> QED
    BY <2>1, <2>2, <2>3
<1>7. CASE RemoveNotifies(t)
  <2>1. pc[t] = "notify" /\ pc'[t] = "close_opponent" /\ rem'[t] = rem[t]
    BY <1>7 DEF RemoveNotifies, Goto, Places, Threads
  <2> QED
    BY <1>0, <1>b, <2>1
<1>8. CASE ClosesOpponent(t)
  <2>1. pc[t] = "close_opponent" /\ pc'[t] = "clear_opponent" /\ rem'[t] = rem[t]
    BY <1>8 DEF ClosesOpponent, RemoveCloses, Goto, Places, Threads
  <2>2. i \in Slots /\ j \in Slots /\ j = Partner(i)
    BY <1>0, <1>b, <2>1
  <2>3. slots'[j].fd = -1
    BY <1>8, <2>2, ClosesIs DEF ClosesOpponent, Closed
  <2> QED
    BY <2>1, <2>2, <2>3
<1>9. CASE ClearsOpponent(t)
  <2>1. pc[t] = "clear_opponent" /\ pc'[t] = "close"
    BY <1>9 DEF ClearsOpponent, RemoveClears, Goto, Places, Threads
  <2>2. i \in Slots /\ j \in Slots /\ j = Partner(i) /\ slots[j].fd = -1
    BY <1>0, <1>b, <2>1
  <2>3. i # j
    BY <2>2, PartnerIs, Numbers
  <2>4. rem'[t] = rem[t]
    BY <1>9, <2>3 DEF ClearsOpponent, RemoveClears
  <2>5. slots'[j].fd = -1
    BY <1>1, <1>a, <1>b, <2>1, <2>2
  <2> QED
    BY <2>1, <2>2, <2>4, <2>5
<1>10. CASE ClosesSlot(t)
  <2>1. pc[t] = "close" /\ pc'[t] = "clear" /\ rem'[t] = rem[t]
    BY <1>10 DEF ClosesSlot, RemoveCloses, Goto, Places, Threads
  <2>2. i \in Slots
    BY <1>0, <1>b, <2>1
  <2>3. slots'[i].fd = -1
    BY <1>10, <2>2, ClosesIs DEF ClosesSlot, Closed
  <2> QED
    BY <2>1, <2>2, <2>3
<1>11. CASE ClearsSlot(t)
  <2>1. pc'[t] \in {"poll", "next"}
    BY <1>11 DEF ClearsSlot, RemoveClears, Goto, Places, Threads, After
  <2> QED
    BY <2>1, <1>b
<1> HIDE DEF Good
<1> QED
  BY CallsAre, <1>3, <1>4, <1>5, <1>6, <1>7, <1>8, <1>9, <1>10, <1>11

-------------------------------------------------------------------------------
(* Pings and their answers *)

\* A queue that has a message once at most.
LEMMA OnceIs ==
    ASSUME NEW S, NEW q \in Seq(S), NEW x, Once(q, x)
    PROVE  /\ \A m : m # x \/ ~Has(q, {x}) => Once(Append(q, m), x)
           /\ q # <<>> => Once(Tail(q), x) /\ (Head(q) = x => ~Has(Tail(q), {x}))
<1> USE DEF Once
<1>1. ASSUME NEW m, m # x \/ ~Has(q, {x}) PROVE Once(Append(q, m), x)
  <2> DEFINE r == Append(q, m)
  <2>1. /\ DOMAIN r = 1 .. Len(q) + 1 /\ DOMAIN q = 1 .. Len(q) /\ Len(q) \in Nat
        /\ r[Len(q) + 1] = m
        /\ \A k \in 1 .. Len(q) : r[k] = q[k]
    OBVIOUS
  <2>2. \A k : k \in 1 .. Len(q) + 1 <=> k \in 1 .. Len(q) \/ k = Len(q) + 1
    BY <2>1
  <2>3. m = x => \A k \in DOMAIN q : q[k] # x
    BY <1>1 DEF Has
  <2> HIDE DEF r
  <2>4. \A k \in DOMAIN r : r[k] = x => (k \in DOMAIN q /\ q[k] = x) \/ (k = Len(q) + 1 /\ m = x)
    BY <2>1, <2>2, Zenon
  <2>5. Once(r, x)
    BY <2>3, <2>4, Zenon
  <2> QED
    BY <2>5 DEF r
<1>2. ASSUME q # <<>> PROVE Once(Tail(q), x) /\ (Head(q) = x => ~Has(Tail(q), {x}))
  <2>1. /\ DOMAIN q = 1 .. Len(q) /\ Len(q) \in Nat \ {0} /\ Head(q) = q[1]
        /\ DOMAIN Tail(q) = 1 .. Len(q) - 1
        /\ \A k \in 1 .. Len(q) - 1 : Tail(q)[k] = q[k + 1]
    BY <1>2
  <2>2. \A k \in DOMAIN Tail(q) : k \in Nat /\ k + 1 \in DOMAIN q /\ Tail(q)[k] = q[k + 1] /\ k + 1 # 1
    BY <2>1
  <2>3. 1 \in DOMAIN q
    BY <2>1
  <2>4. \A k, m \in DOMAIN Tail(q) : k + 1 = m + 1 => k = m
    BY <2>1
  <2>5. Once(Tail(q), x)
    BY <2>2, <2>4
  <2>6. Head(q) = x => ~Has(Tail(q), {x})
    BY <2>1, <2>2, <2>3 DEF Has
  <2> QED
    BY <2>5, <2>6
<1> QED
  BY <1>1, <1>2

\* What a queue is that starts a game before it goes on with it.
LEMMA StartIs ==
    ASSUME NEW S, NEW q \in Seq(S), StartIsFirst(q)
    PROVE  /\ \A m : m \notin {"MOVE", "PING", "END_GAME"} \/ Has(q, Starts) => StartIsFirst(Append(q, m))
           /\ q # <<>> /\ Head(q) \notin Starts => StartIsFirst(Tail(q))
<1> DEFINE Later == {"MOVE", "PING", "END_GAME"}
<1> HIDE DEF Later
<1>0. \A r : StartIsFirst(r) <=> \A k \in DOMAIN r : r[k] \in Later => \E m \in 1 .. k - 1 : r[m] \in Starts
  BY DEF StartIsFirst, Later
<1>1. ASSUME NEW m, m \notin Later \/ Has(q, Starts) PROVE StartIsFirst(Append(q, m))
  <2> DEFINE r == Append(q, m)
  <2>1. /\ DOMAIN r = 1 .. Len(q) + 1 /\ DOMAIN q = 1 .. Len(q) /\ Len(q) \in Nat
        /\ r[Len(q) + 1] = m
        /\ \A k \in 1 .. Len(q) : r[k] = q[k]
    OBVIOUS
  <2> HIDE DEF r
  <2>2. ASSUME NEW k \in DOMAIN r, r[k] \in Later PROVE \E n \in 1 .. k - 1 : r[n] \in Starts
    <3>1. CASE k = Len(q) + 1
      <4>1. PICK n \in DOMAIN q : q[n] \in Starts
        BY <1>1, <2>1, <2>2, <3>1 DEF Has
      <4> QED
        BY <2>1, <3>1, <4>1
    <3>2. CASE k \in DOMAIN q
      <4>1. PICK n \in 1 .. k - 1 : q[n] \in Starts
        BY <1>0, <2>1, <2>2, <3>2
      <4>2. n \in DOMAIN q
        BY <2>1, <3>2
      <4> QED
        BY <2>1, <4>1, <4>2
    <3> QED
      BY <2>1, <3>1, <3>2
  <2> QED
    BY <1>0, <2>2 DEF r
<1>2. ASSUME q # <<>>, Head(q) \notin Starts PROVE StartIsFirst(Tail(q))
  <2>1. /\ DOMAIN q = 1 .. Len(q) /\ Len(q) \in Nat \ {0} /\ Head(q) = q[1]
        /\ DOMAIN Tail(q) = 1 .. Len(q) - 1
        /\ \A k \in 1 .. Len(q) - 1 : Tail(q)[k] = q[k + 1]
    BY <1>2
  <2> DEFINE r == Tail(q)
  <2> HIDE DEF r
  <2>2. ASSUME NEW k \in DOMAIN r, r[k] \in Later PROVE \E n \in 1 .. k - 1 : r[n] \in Starts
    <3>1. k \in Nat /\ k + 1 \in DOMAIN q /\ q[k + 1] \in Later
      BY <2>1, <2>2 DEF r
    <3>2. PICK n \in 1 .. (k + 1) - 1 : q[n] \in Starts
      BY <1>0, <3>1
    <3>3. n # 1
      BY <1>2, <2>1, <3>2
    <3>4. n - 1 \in 1 .. k - 1 /\ n - 1 \in 1 .. Len(q) - 1 /\ (n - 1) + 1 = n
      BY <2>1, <2>2, <3>1, <3>2, <3>3 DEF r
    <3>5. r[n - 1] = q[n]
      BY <2>1, <3>4 DEF r
    <3> QED
      BY <3>2, <3>4, <3>5
  <2> QED
    BY <1>0, <2>2 DEF r
<1> QED
  BY <1>1, <1>2 DEF Later

\* The steps that change an inbox.
LEMMA InboxIs ==
    ASSUME [Next]_vars
    PROVE  \/ inbox' = inbox /\ cl' = cl
           \/ add_client \/ move \/ game_end \/ PingSends
           \/ \E t \in Threads : Removes(t) /\ RemoveNotifies(t)
           \/ \E d \in Clients : Client(d)
<1>1. ASSUME NEW t \in Threads, Removes(t) PROVE (inbox' = inbox /\ cl' = cl) \/ RemoveNotifies(t)
  BY <1>1 DEF Removes, RemoveFinds, RemoveReadsOpponent, ClosesOpponent, ClearsOpponent,
              ClosesSlot, ClearsSlot, RemoveCloses, RemoveClears, client
<1>2. \/ inbox' = inbox /\ cl' = cl
      \/ add_client \/ move \/ game_end \/ PingSends
      \/ \E t \in Threads : Removes(t)
      \/ \E d \in Clients : Client(d)
  BY StepsAre, Zenon DEF MainCollects, PollAccepts, PollPicks, PollFails, RecvMessage, RecvEof, RecvError, pong,
     ServerCrashes, PingStarts, PingVisits, PingMarks, PingLosesClient, PingGoesOn, vars, client, Handles
<1> QED
  BY <1>1, <1>2, Zenon

\* What the steps of a client do to an inbox.
LEMMA TakesIs ==
    ASSUME ClientTypes, QueueTypes, NEW c \in Clients, NEW d \in Clients, Client(d)
    PROVE  \/ inbox'[c] = inbox[c] /\ ~ClientGetsPing(c)
              /\ (cl'[c] = cl[c] \/ cl'[c] \notin {"off", "listening"} \/ ClientStarts(c))
           \/ /\ inbox[c] # <<>> /\ inbox'[c] = Tail(inbox[c])
              /\ cl'[c] = "listening" => cl[c] = "listening" /\ Head(inbox[c]) = "NO_OPPONENT"
              /\ cl'[c] # "off"
              /\ ClientGetsPing(c) => Head(inbox[c]) = "PING"
           \/ inbox'[c] = <<>> /\ cl'[c] = "gone" /\ ~ClientGetsPing(c)
<1> USE DEF ClientTypes, QueueTypes, client, Receives, Taken, Exit
<1>1. CASE ClientStarts(d)
  BY <1>1 DEF ClientStarts, ClientGetsPing
<1>2. CASE ClientWaits(d)
  BY <1>2 DEF ClientWaits, ClientGetsPing
<1>3. CASE ClientPlays(d)
  BY <1>3 DEF ClientPlays, ClientGetsPing
<1>4. CASE ClientGivesUp(d)
  BY <1>4 DEF ClientGivesUp, ClientGetsPing
<1>5. CASE ClientGetsMove(d)
  BY <1>5 DEF ClientGetsMove, ClientGetsPing
<1>6. CASE ClientGetsPing(d)
  BY <1>6 DEF ClientGetsPing
<1>7. CASE ClientEnds(d)
  BY <1>7 DEF ClientEnds, ClientGetsPing
<1>8. CASE ClientMoves(d)
  BY <1>8 DEF ClientMoves, ClientGetsPing
<1>9. CASE ClientFindsGameOver(d)
  BY <1>9 DEF ClientFindsGameOver, ClientGetsPing
<1>10. CASE ClientLosesServer(d)
  BY <1>10 DEF ClientLosesServer, ClientGetsPing
<1>11. CASE ClientQuits(d)
  BY <1>11 DEF ClientQuits, ClientGetsPing
<1>12. CASE ClientHangs(d)
  BY <1>12 DEF ClientHangs, ClientGetsPing
<1> QED
  BY <1>1, <1>2, <1>3, <1>4, <1>5, <1>6, <1>7, <1>8, <1>9, <1>10, <1>11, <1>12 DEF Client

\* What send_message does to one inbox.
Reaches(f, c) == IsOpen(f) /\ fds[f] = c /\ link[c] = "open"
\* send_message adds to the inbox of the client at the other end of an open
\* descriptor, and to no other.
LEMMA Sent ==
    ASSUME SocketTypes, NEW box \in [Clients -> Seq(News)], NEW f, NEW type, NEW c \in Clients
    PROVE  send_message(box, f, type)[c] = IF Reaches(f, c) THEN Append(box[c], type) ELSE box[c]
<1>1. CASE IsOpen(f) /\ link[fds[f]] = "open"
  <2>1. send_message(box, f, type) = [box EXCEPT ![fds[f]] = Append(@, type)]
    BY <1>1 DEF send_message
  <2> QED
    BY <1>1, <2>1 DEF Reaches
<1>2. CASE ~(IsOpen(f) /\ link[fds[f]] = "open")
  <2>1. send_message(box, f, type) = box
    BY <1>2 DEF send_message
  <2> QED
    BY <1>2, <2>1 DEF Reaches
<1> QED
  BY <1>1, <1>2

\* No other message counts as a ping.
LEMMA SentNoPing ==
    ASSUME SocketTypes, NEW box \in [Clients -> Seq(News)], NEW f, NEW type \in News \ {"PING"},
           NEW c \in Clients, Once(box[c], "PING")
    PROVE  /\ Once(send_message(box, f, type)[c], "PING")
           /\ Has(send_message(box, f, type)[c], {"PING"}) => Has(box[c], {"PING"})
<1>1. box[c] \in Seq(News) /\ type # "PING" /\ type \notin {"PING"}
  OBVIOUS
<1>2. Once(Append(box[c], type), "PING")
  BY <1>1, OnceIs
<1>3. Has(Append(box[c], type), {"PING"}) <=> Has(box[c], {"PING"})
  BY <1>1, HasQueue
<1>4. send_message(box, f, type)[c] \in {box[c], Append(box[c], type)}
  <2>1. send_message(box, f, type)[c] = IF Reaches(f, c) THEN Append(box[c], type) ELSE box[c]
    BY Sent
  <2> QED
    BY <2>1
<1> QED
  BY <1>2, <1>3, <1>4

\* Pings come from the ping thread only.
LEMMA PingsSent ==
    ASSUME SocketTypes, ClientTypes, QueueTypes, [Next]_vars, NEW c \in Clients, Once(inbox[c], "PING"),
           ~(PingSends /\ Reaches(slots[round].fd, c))
    PROVE  Once(inbox'[c], "PING") /\ (Has(inbox'[c], {"PING"}) => Has(inbox[c], {"PING"}))
<1> DEFINE Good == Once(inbox'[c], "PING") /\ (Has(inbox'[c], {"PING"}) => Has(inbox[c], {"PING"}))
<1>0. inbox \in [Clients -> Seq(News)] /\ inbox[c] \in Seq(News) /\ ~Has(<<>>, {"PING"}) /\ Once(<<>>, "PING")
  <2>1. DOMAIN <<>> = {}
    OBVIOUS
  <2> QED
    BY <2>1 DEF QueueTypes, Has, Once
<1>1. ASSUME inbox' = inbox \/ inbox'[c] = inbox[c] PROVE Good
  BY <1>1
<1>2. ASSUME add_client PROVE Good
  <2>1. ASSUME NEW type \in {"EXISTING_NAME", "FULL_SERVER"}, Refuses(type) PROVE Good
    <3>1. type \in News \ {"PING"}
      BY DEF News
    <3> QED
      BY <1>0, <2>1, <3>1, SentNoPing DEF Refuses
  <2>2. ASSUME NEW i \in Slots, LetsWait(i) PROVE Good
    <3>1. "NO_OPPONENT" \in News \ {"PING"}
      BY DEF News
    <3> QED
      BY <1>0, <2>2, <3>1, SentNoPing DEF LetsWait
  <2>3. ASSUME NEW i \in Slots, PairsWith(i) PROVE Good
    <3>1. "START_GAME_O" \in News \ {"PING"} /\ "START_GAME_X" \in News \ {"PING"}
      BY DEF News, Starts
    <3> DEFINE b == send_message(inbox, fd, "START_GAME_O")
               g == slots[i - 1].fd
    <3>2. b \in [Clients -> Seq(News)]
      BY <1>0, <3>1, SendIs
    <3>3. Once(b[c], "PING") /\ (Has(b[c], {"PING"}) => Has(inbox[c], {"PING"}))
      BY <1>0, <3>1, SentNoPing
    <3>4. inbox' = send_message(b, g, "START_GAME_X")
      BY <2>3 DEF PairsWith
    <3> HIDE DEF b, g
    <3> QED
      BY <3>1, <3>2, <3>3, <3>4, SentNoPing
  <2> QED
    BY <1>2, <2>1, <2>2, <2>3, AddIs
<1>3. ASSUME move PROVE Good
  <2>1. "MOVE" \in News \ {"PING"}
    BY DEF News
  <2>2. inbox' = inbox \/ \E f : inbox' = send_message(inbox, f, "MOVE")
    BY <1>3 DEF move
  <2> QED
    BY <1>0, <1>1, <2>1, <2>2, SentNoPing
<1>4. ASSUME game_end PROVE Good
  <2>1. "END_GAME" \in News \ {"PING"}
    BY DEF News
  <2>2. inbox' = inbox \/ \E f, g : inbox' = send_message(send_message(inbox, f, "END_GAME"), g, "END_GAME")
    BY <1>4 DEF game_end
  <2>3. ASSUME NEW f, NEW g, inbox' = send_message(send_message(inbox, f, "END_GAME"), g, "END_GAME") PROVE Good
    <3> DEFINE b == send_message(inbox, f, "END_GAME")
    <3>1. b \in [Clients -> Seq(News)]
      BY <1>0, <2>1, SendIs
    <3>2. Once(b[c], "PING") /\ (Has(b[c], {"PING"}) => Has(inbox[c], {"PING"}))
      BY <1>0, <2>1, SentNoPing
    <3>3. inbox' = send_message(b, g, "END_GAME")
      BY <2>3
    <3> HIDE DEF b
    <3> DEFINE a == send_message(b, g, "END_GAME")
    <3>4. Once(a[c], "PING") /\ (Has(a[c], {"PING"}) => Has(b[c], {"PING"}))
      BY <2>1, <3>1, <3>2, SentNoPing
    <3> HIDE DEF a
    <3>5. inbox' = a
      BY <3>3 DEF a
    <3> QED
      BY <3>2, <3>4, <3>5
  <2> QED
    BY <1>1, <2>2, <2>3
<1>5. ASSUME PingSends PROVE Good
  <2>1. inbox' = send_message(inbox, slots[round].fd, "PING") /\ ~Reaches(slots[round].fd, c)
    BY <1>5 DEF PingSends
  <2>2. inbox'[c] = inbox[c]
    BY <1>0, <2>1, Sent
  <2> QED
    BY <1>1, <2>2
<1>6. ASSUME NEW t \in Threads, RemoveNotifies(t) PROVE Good
  <2>1. "OPPONENT_DISCONNECTED" \in News \ {"PING"}
    BY DEF News
  <2> QED
    BY <1>0, <1>6, <2>1, SentNoPing DEF RemoveNotifies
<1>7. ASSUME NEW d \in Clients, Client(d) PROVE Good
  <2>1. \/ inbox'[c] = inbox[c]
        \/ inbox[c] # <<>> /\ inbox'[c] = Tail(inbox[c])
        \/ inbox'[c] = <<>>
    BY <1>7, TakesIs
  <2>2. inbox[c] # <<>> => Once(Tail(inbox[c]), "PING") /\ (Has(Tail(inbox[c]), {"PING"}) => Has(inbox[c], {"PING"}))
    BY <1>0, OnceIs, Loses
  <2> QED
    BY <1>0, <1>1, <2>1, <2>2
<1> HIDE DEF Good
<1>8. Good
  BY InboxIs, <1>1, <1>2, <1>3, <1>4, <1>5, <1>6, <1>7
<1> QED
  BY <1>8 DEF Good

\* Answers come from who takes a ping, and go to main one by one.
LEMMA PongsAre ==
    ASSUME SocketTypes, ClientTypes, QueueTypes, [Next]_vars, NEW c \in Clients, Once(outbox[c], "PONG")
    PROVE  \/ ClientGetsPing(c) /\ outbox'[c] = Append(outbox[c], "PONG")
           \/ /\ Once(outbox'[c], "PONG")
              /\ Has(outbox'[c], {"PONG"}) => Has(outbox[c], {"PONG"})
              /\ RecvMessage /\ IsOpen(fd) /\ fds[fd] = c /\ Head(outbox[c]) = "PONG" =>
                   Has(outbox[c], {"PONG"}) /\ ~Has(outbox'[c], {"PONG"})
<1>0. outbox[c] \in Seq(Orders)
  BY DEF QueueTypes
<1>1. ASSUME RecvMessage, IsOpen(fd), fds[fd] = c, Head(outbox[c]) = "PONG"
      PROVE  Has(outbox[c], {"PONG"}) /\ ~Has(outbox'[c], {"PONG"})
  <2>1. outbox[c] # <<>> /\ outbox'[c] = Tail(outbox[c])
    BY <1>1 DEF RecvMessage, QueueTypes
  <2>2. Has(outbox[c], {"PONG"})
    BY <1>0, <1>1, <2>1, FirstIs
  <2>3. ~Has(Tail(outbox[c]), {"PONG"})
    BY <1>0, <1>1, <2>1, OnceIs
  <2> QED
    BY <2>1, <2>2, <2>3
<1>2. outbox[c] # <<>> => Once(Tail(outbox[c]), "PONG") /\ (Has(Tail(outbox[c]), {"PONG"}) => Has(outbox[c], {"PONG"}))
  BY <1>0, OnceIs, Loses
<1>3. Once(<<"ADD_CLIENT">>, "PONG") /\ ~Has(<<"ADD_CLIENT">>, {"PONG"})
  <2>1. DOMAIN <<"ADD_CLIENT">> = {1} /\ <<"ADD_CLIENT">>[1] = "ADD_CLIENT"
    OBVIOUS
  <2> QED
    BY <2>1 DEF Once, Has
<1>4. ASSUME NEW m, m # "PONG"
      PROVE  Once(Append(outbox[c], m), "PONG") /\ (Has(Append(outbox[c], m), {"PONG"}) <=> Has(outbox[c], {"PONG"}))
  <2>1. m \notin {"PONG"}
    BY <1>4
  <2> QED
    BY <1>0, <1>4, <2>1, OnceIs, HasQueue
<1> QED
  BY <1>1, <1>2, <1>3, <1>4, OutboxIs, Zenon

\* The ping thread comes to mark and to send by its own steps.
LEMMA PingStays ==
    ASSUME Places, [Next]_vars
    PROVE  /\ pc'["ping"] = "mark" => (pc["ping"] = "mark" /\ round' = round) \/ PingVisits
           /\ pc'["ping"] = "send" /\ ~PingMarks => pc["ping"] = "send" /\ round' = round
<1> USE DEF Places, Goto, mainVars, pingVars
<1>1. ASSUME \/ MainCollects \/ PollAccepts \/ PollPicks \/ PollFails \/ RecvMessage \/ RecvEof \/ RecvError
             \/ add_client \/ pong \/ move \/ game_end \/ ServerCrashes
      PROVE  pc'["ping"] = pc["ping"] /\ round' = round
  BY <1>1 DEF MainCollects, PollAccepts, PollPicks, PollFails, RecvMessage, RecvEof, RecvError,
              add_client, pong, move, game_end, ServerCrashes, Handles
<1>2. ASSUME PingStarts \/ PingSends \/ PingLosesClient \/ PingGoesOn
      PROVE  pc'["ping"] \notin {"mark", "send"}
  BY <1>2 DEF PingStarts, PingSends, PingLosesClient, PingGoesOn
<1>3. PingVisits => pc'["ping"] # "send"
  BY DEF PingVisits
<1>4. PingMarks => pc'["ping"] # "mark"
  BY DEF PingMarks
<1>5. ASSUME NEW c \in Clients, Client(c) PROVE pc' = pc /\ round' = round
  BY <1>5, Zenon DEF Client, ClientStarts, ClientWaits, ClientPlays, ClientGivesUp, ClientGetsMove, ClientGetsPing, ClientEnds, ClientMoves, ClientFindsGameOver, ClientLosesServer, ClientQuits, ClientHangs, Receives, clientRest
<1>6. ASSUME UNCHANGED vars PROVE pc' = pc /\ round' = round
  BY <1>6 DEF vars, server
<1>7. ASSUME NEW t \in Threads, Removes(t)
      PROVE  round' = round /\ (pc'["ping"] = pc["ping"] \/ pc'["ping"] \in {"next"} \cup RemovalSteps)
  BY <1>7 DEF Removes, After, RemoveFinds, RemoveReadsOpponent, RemoveNotifies, ClosesOpponent, ClearsOpponent,
              ClosesSlot, ClearsSlot, RemoveCloses, RemoveClears, RemovalSteps, Threads
<1>8. {"mark", "send"} \cap ({"next"} \cup RemovalSteps) = {}
  BY DEF RemovalSteps
<1> HIDE DEF Places, Goto
<1> QED
  BY StepsAre, <1>1, <1>2, <1>3, <1>4, <1>5, <1>6, <1>7, <1>8

\* Main has an answer in hand only when it took it from the queue.
LEMMA AnsweringIs ==
    ASSUME Places, TableType, SocketTypes, MessageType, Connections, Removals, [Next]_vars,
           NEW c \in Clients, Answering(c)'
    PROVE  \/ Answering(c) /\ pc'["main"] = pc["main"]
           \/ RecvMessage /\ IsOpen(fd) /\ fds[fd] = c /\ Head(outbox[c]) = "PONG"
<1>0. pc'["main"] = "dispatch" /\ msg'.type = "PONG" /\ msg'.name # NoName /\ fd' \in Fds /\ fds'[fd'] = c /\ c # NoClient
  BY GameServerAssumption DEF Answering, IsOpen
<1>1. CASE pc'["main"] = pc["main"] /\ UNCHANGED <<polled, fd, msg>> /\ ~PollAccepts /\ ~RecvMessage /\ ~Adds
  <2>1. fd \in Fds /\ fds'[fd] = c /\ fds'[fd] # NoClient
    BY <1>0, <1>1
  <2>2. fds[fd] = c
    BY <1>1, <2>1, StillOpen
  <2> QED
    BY <1>0, <1>1, <2>1, <2>2 DEF Answering, IsOpen
<1>2. CASE RecvMessage
  <2>1. /\ IsOpen(fd) /\ fds' = fds /\ fd' = fd
        /\ msg' = [type |-> Head(outbox[fds[fd]]), name |-> Name[fds[fd]]]
    BY <1>2 DEF RecvMessage
  <2>2. fds[fd] = c /\ msg'.type = Head(outbox[fds[fd]])
    BY <1>0, <2>1
  <2> QED
    BY <1>0, <1>2, <2>1, <2>2
<1>3. CASE RecvError
  <2>1. msg' = [msg EXCEPT !.name = NoName]
    BY <1>3 DEF RecvError
  <2>2. msg'.name = NoName
    BY <2>1 DEF MessageType, Message
  <2> QED
    BY <1>0, <2>2
<1>4. ASSUME MainCollects \/ PollAccepts \/ PollPicks \/ PollFails PROVE pc'["main"] \in {"polling", "recv"}
  BY <1>4 DEF MainCollects, PollAccepts, PollPicks, PollFails, Goto, Places
<1>5. "dispatch" \notin {"poll", "remove", "crashed"} \cup RemovalSteps
  BY DEF RemovalSteps
<1> QED
  BY MainIs, <1>0, <1>1, <1>2, <1>3, <1>4, <1>5

\* A client has a ping, an answer or a slot that may be pinged, one at a time.
LEMMA PingsKept ==
    ASSUME Places, TableType, SocketTypes, MessageType, ClientTypes, QueueTypes, CallType,
           Connections, Owned, Waiting, Handling, Pairs, Removals, Pings, [Next]_vars
    PROVE  Pings'
<1>0. \A i \in Slots : slots[i].fd \in {-1} \cup Fds
  BY Fields DEF TableType
<1> DEFINE Pinging(c) == PingSends /\ Reaches(slots[round].fd, c)
           In(c) == Has(inbox[c], {"PING"})
           Out(c) == Has(outbox[c], {"PONG"})
           NewIn(c) == Has(inbox'[c], {"PING"})
           NewOut(c) == Has(outbox'[c], {"PONG"})
           Takes(c) == RecvMessage /\ IsOpen(fd) /\ fds[fd] = c /\ Head(outbox[c]) = "PONG"
           Fine(c) == /\ Once(inbox'[c], "PING") /\ Once(outbox'[c], "PONG")
                      /\ NewIn(c) => ~NewOut(c) /\ ~Answering(c)'
                      /\ NewOut(c) => ~Answering(c)'
                      /\ NewIn(c) \/ NewOut(c) \/ Answering(c)' => In(c) \/ Out(c) \/ Answering(c) \/ Pinging(c)
<1>1. ASSUME NEW c \in Clients PROVE Fine(c)
  <2>1. /\ Once(inbox[c], "PING") /\ Once(outbox[c], "PONG")
        /\ In(c) => ~Out(c) /\ ~Answering(c)
        /\ Out(c) => ~Answering(c)
    BY DEF Pings
  <2>2. inbox[c] \in Seq(News) /\ outbox[c] \in Seq(Orders)
    BY DEF QueueTypes
  <2>3. Answering(c)' => (Answering(c) /\ pc'["main"] = pc["main"]) \/ Takes(c)
    BY AnsweringIs
  <2>4. CASE Pinging(c)
    <3>1. pc.ping = "send" /\ outbox' = outbox /\ pc'["main"] = pc["main"]
          /\ inbox' = send_message(inbox, slots[round].fd, "PING")
      BY <2>4 DEF PingSends, Goto, Places, client
    <3>2. slots[round].fd # -1 /\ fds[slots[round].fd] = c /\ round \in Slots
      BY <2>4, Numbers DEF Reaches, IsOpen, Places
    <3>3. ~Pinged(c)
      BY <3>1, <3>2 DEF Pings
    <3>4. inbox'[c] = Append(inbox[c], "PING")
      <4>1. send_message(inbox, slots[round].fd, "PING")[c] =
              IF Reaches(slots[round].fd, c) THEN Append(inbox[c], "PING") ELSE inbox[c]
        BY Sent DEF QueueTypes
      <4> QED
        BY <2>4, <3>1, <4>1
    <3>5. Once(inbox'[c], "PING")
      BY <2>1, <2>2, <3>3, <3>4, OnceIs DEF Pinged
    <3>6. ~Takes(c)
      BY <3>1 DEF RecvMessage, Goto, Places
    <3> QED
      BY <2>1, <2>3, <2>4, <3>1, <3>3, <3>5, <3>6 DEF Pinged
  <2>5. CASE ~Pinging(c)
    <3>1. Once(inbox'[c], "PING") /\ (NewIn(c) => In(c))
      BY <2>1, <2>5, PingsSent
    <3>2. CASE ClientGetsPing(c) /\ outbox'[c] = Append(outbox[c], "PONG")
      <4>1. inbox[c] # <<>> /\ Head(inbox[c]) = "PING" /\ inbox'[c] = Tail(inbox[c]) /\ pc' = pc
        BY <3>2 DEF ClientGetsPing, Receives, Taken, clientRest, QueueTypes
      <4>2. In(c) /\ ~NewIn(c)
        BY <2>1, <2>2, <4>1, FirstIs, OnceIs
      <4>3. ~Takes(c)
        BY <4>1 DEF RecvMessage, Goto, Places
      <4>4. Once(outbox'[c], "PONG")
        BY <2>1, <2>2, <3>2, <4>2, OnceIs
      <4> QED
        BY <2>1, <2>3, <3>1, <4>2, <4>3, <4>4
    <3>3. CASE /\ Once(outbox'[c], "PONG")
               /\ NewOut(c) => Out(c)
               /\ Takes(c) => Out(c) /\ ~NewOut(c)
      BY <2>1, <2>3, <3>1, <3>3
    <3> QED
      BY <2>1, <3>2, <3>3, PongsAre
  <2> QED
    BY <2>4, <2>5
<1>2. \A c : Pinged(c) <=> In(c) \/ Out(c) \/ Answering(c)
  BY DEF Pinged
<1>3. \A c : Pinged(c)' <=> NewIn(c) \/ NewOut(c) \/ Answering(c)'
  BY DEF Pinged
<1> HIDE DEF In, Out, NewIn, NewOut
<1>4. \A c \in Clients : Pinged(c)' => Pinged(c) \/ Pinging(c)
  BY <1>1, <1>2, <1>3
<1> HIDE DEF Takes
<1>5. ASSUME NEW i \in Slots, slots'[i].fd # -1
      PROVE  /\ slots'[i].active # 0 => \A c \in Clients : c = fds'[slots'[i].fd] => ~Pinged(c)'
             /\ pc'["ping"] = "mark" /\ i = round' => slots'[i].active = 1
             /\ pc'["ping"] = "send" /\ i = round' =>
                  /\ \A c \in Clients : c = fds'[slots'[i].fd] => ~Pinged(c)'
                  /\ slots'[i].active = 0 /\ slots'[i].opponent # -1
  <2>1. ASSUME Adds PROVE /\ fd \in Fds /\ NotStarted(fds[fd]) /\ pc'["ping"] = "sleep" /\ fd # -1
                          /\ \A c \in Clients : ~Answering(c) /\ ~Pinging(c)
                          /\ \A k \in Slots : ~Doomed(k)
    <3>1. /\ pc["ping"] = "sleep" /\ pc["main"] = "dispatch" /\ pc'["ping"] = "sleep"
      BY <2>1 DEF Adds, Places
    <3>2. fd \in Fds /\ NotStarted(fds[fd]) /\ fd # -1
      BY <2>1, Numbers DEF Adds, Handling, IsOpen
    <3>3. \A c \in Clients : ~Answering(c) /\ ~Pinging(c)
      BY <2>1, <3>1 DEF Adds, Answering, PingSends, Goto
    <3>4. \A k \in Slots : ~Doomed(k)
      BY <2>1, NoneRemoving DEF Doomed
    <3> QED
      BY <3>1, <3>2, <3>3, <3>4
  <2>2. ASSUME NEW c \in Clients, NotStarted(c), Adds PROVE ~Pinged(c)'
    <3>1. ~Has(inbox[c], {"PING"}) /\ ~Has(outbox[c], {"PONG"})
      BY <2>2 DEF NotStarted, Has, GameNews, Plays
    <3> QED
      BY <1>4, <2>1, <2>2, <3>1 DEF Pinged
  <2>3. CASE Adds /\ fds' = fds /\ (LetsWait(i) \/ PairsWith(i))
    <3>1. slots'[i].fd = fd
      BY <2>3, WaitsIs, PairsIs
    <3> QED
      BY <2>1, <2>2, <2>3, <3>1
  <2>4. CASE i + 1 \in Slots /\ Adds /\ PairsWith(i + 1) /\ slots[i].fd # -1 /\ slots'[i].fd = slots[i].fd
             /\ fds'[slots[i].fd] = fds[slots[i].fd]
    <3>1. slots[i].opponent = -1
      <4>1. slots[i + 1].fd = -1 /\ (i + 1) % 2 = 1
        BY <2>4 DEF PairsWith, Free
      <4>2. i \in Nat /\ (i + 1) - 1 = i /\ i + 1 \in Nat
        BY Numbers
      <4>3. Partner(i) = i + 1
        BY <4>1, <4>2, PartnerIs
      <4>4. ~PairedSlot(i)
        BY <4>1, <4>3 DEF PairedSlot
      <4> QED
        BY <2>1, <2>4, <4>4 DEF Pairs
    <3>2. NotStarted(fds[slots[i].fd])
      BY <2>4, <3>1 DEF Waiting
    <3> QED
      BY <2>1, <2>2, <2>4, <3>2
  <2>5. CASE /\ slots[i].fd # -1 /\ slots[i].fd \in Fds
             /\ slots'[i].fd = slots[i].fd /\ fds'[slots[i].fd] = fds[slots[i].fd]
             /\ slots'[i].name = slots[i].name
             /\ slots'[i].opponent = slots[i].opponent
             /\ ~(i + 1 \in Slots /\ Adds /\ PairsWith(i + 1))
    <3> DEFINE c == fds[slots[i].fd]
    <3>1. /\ slots[i].active # 0 => ~Pinged(c)
          /\ pc["ping"] = "mark" /\ i = round => slots[i].active = 1
          /\ pc["ping"] = "send" /\ i = round => ~Pinged(c) /\ slots[i].active = 0 /\ slots[i].opponent # -1
      BY <2>5 DEF Pings
    <3>2. Pinging(c) => i = round /\ pc["ping"] = "send" /\ pc'["ping"] = "next" /\ slots' = slots
      <4> SUFFICES ASSUME Pinging(c) PROVE i = round /\ pc["ping"] = "send" /\ pc'["ping"] = "next" /\ slots' = slots
        OBVIOUS
      <4>1. slots[round].fd \in Fds /\ fds[slots[round].fd] = fds[slots[i].fd] /\ fds[slots[i].fd] # NoClient
        BY <2>5 DEF Reaches, IsOpen, Owned
      <4>2. slots[round].fd = slots[i].fd /\ slots[round].fd # -1 /\ round \in Slots
        BY <2>5, <4>1 DEF Connections, Places
      <4>3. i = round
        BY <2>5, <4>2 DEF Owned
      <4> QED
        BY <4>3 DEF PingSends, Goto, Places
    <3>3. c \in Clients
      BY <2>5 DEF Owned, SocketTypes
    <3> HIDE DEF Pinging
    <3>4. \A d \in Clients : d = c => (Pinged(d)' => Pinged(c) \/ Pinging(c))
      BY <1>4
    <3>5. slots'[i].active = slots[i].active
          \/ (PingMarks /\ i = round /\ slots'[i].active = 0)
          \/ (pong /\ Answers(i) /\ slots'[i].active = 1)
      <4>1. CASE slots' = slots
        BY <4>1
      <4>2. CASE pong
        BY <4>2, PongIs
      <4>3. CASE PingMarks
        BY <4>3, MarksIs
      <4>4. ASSUME NEW m \in Slots, Closed(m) \/ (Cleared(m) /\ slots[m].fd = -1) PROVE slots'[i].active = slots[i].active
        <5>1. i = m => Closed(m)
          BY <2>5, <4>4
        <5>2. Closed(m) => slots'[m].fd = -1
          BY DEF Closed
        <5>3. i # m
          BY <2>5, <5>1, <5>2
        <5> QED
          BY <4>4, <5>3 DEF Closed, Cleared, Same
      <4>6. ASSUME NEW m \in Slots, Adds, LetsWait(m) PROVE slots'[i].active = slots[i].active
        <5>1. i # m
          BY <2>5, <4>6 DEF LetsWait, Free
        <5> QED
          BY <4>6, <5>1, WaitsIs
      <4>7. ASSUME NEW m \in Slots, Adds, PairsWith(m) PROVE slots'[i].active = slots[i].active
        <5>1. i # m
          BY <2>5, <4>7 DEF PairsWith, Free
        <5>2. i # m - 1
          <6> SUFFICES ASSUME i = m - 1 PROVE FALSE
            OBVIOUS
          <6>1. i + 1 = m
            BY Numbers
          <6> QED
            BY <2>5, <4>7, <6>1
        <5> QED
          BY <4>7, <5>1, <5>2, PairsIs
      <4>5. \A t \in Threads : /\ ClearsOpponent(t) => slots[rem[t].j].fd = -1
                               /\ ClearsSlot(t) => slots[rem[t].i].fd = -1
        BY DEF Removals, ClearsOpponent, ClearsSlot, RemoveClears, Goto
      <4> QED
        BY TableIs, <4>1, <4>2, <4>3, <4>4, <4>5, <4>6, <4>7
    <3>6. CASE pong /\ Answers(i) /\ slots'[i].active = 1
      <4>1. /\ pc["main"] = "dispatch" /\ pc'["main"] = "poll" /\ pc'["ping"] = pc["ping"] /\ pc["ping"] = "sleep"
            /\ msg.type = "PONG" /\ (msg.name # NoName \/ Registered = {})
            /\ inbox' = inbox /\ outbox' = outbox
        BY <3>6 DEF pong, Handles, Goto, Places, client
      <4>2. msg.name # NoName
        BY <2>5, <4>1 DEF Registered
      <4>3. slots[i].fd = fd
        BY <3>6, <4>1, <4>2 DEF Handling, Answers
      <4>4. Answering(c)
        BY <2>5, <4>1, <4>2, <4>3 DEF Answering, IsOpen, Owned
      <4>5. ~In(c) /\ ~Out(c)
        BY <3>3, <4>4 DEF Pings, In, Out
      <4>6. \A d \in Clients : d = c => ~Pinged(d)'
        BY <1>3, <4>1, <4>5 DEF NewIn, NewOut, In, Out, Answering
      <4> QED
        BY <2>5, <4>1, <4>6
    <3>7. CASE PingMarks /\ i = round /\ slots'[i].active = 0
      <4>1. pc["ping"] = "mark" /\ pc'["ping"] = "send" /\ round' = round
        BY <3>7 DEF PingMarks, Goto, Places, pingVars
      <4>2. slots[i].active = 1 /\ ~Pinged(c)
        BY <3>1, <3>7, <4>1
      <4>3. slots[i].opponent # -1
        BY <4>2 DEF Pairs
      <4>4. ~Pinging(c)
        BY <3>2, <4>1
      <4> QED
        BY <2>5, <3>4, <3>7, <4>1, <4>2, <4>3, <4>4
    <3>8. CASE slots'[i].active = slots[i].active /\ ~PingMarks
      <4>1. slots'[i].active # 0 => ~Pinged(c) /\ ~Pinging(c)
        BY <3>1, <3>2, <3>8
      <4>2. pc'["ping"] = "mark" /\ i = round' => slots'[i].active = 1
        <5> SUFFICES ASSUME pc'["ping"] = "mark", i = round' PROVE slots[i].active = 1
          BY <3>8
        <5>1. (pc["ping"] = "mark" /\ round' = round) \/ PingVisits
          BY PingStays
        <5>2. PingVisits => slots[round].active = 1 /\ round' = round
          BY DEF PingVisits, Goto, Places, pingVars
        <5> QED
          BY <3>1, <5>1, <5>2
      <4>3. pc'["ping"] = "send" /\ i = round' =>
              /\ ~Pinged(c) /\ ~Pinging(c)
              /\ slots'[i].active = 0 /\ slots'[i].opponent # -1
        <5> SUFFICES ASSUME pc'["ping"] = "send", i = round'
                     PROVE ~Pinged(c) /\ ~Pinging(c) /\ slots[i].active = 0 /\ slots[i].opponent # -1
          BY <2>5, <3>8
        <5>1. pc["ping"] = "send" /\ round' = round
          BY <3>8, PingStays
        <5> QED
          BY <3>1, <3>2, <5>1
      <4> QED
        BY <2>5, <3>4, <4>1, <4>2, <4>3
    <3>9. CASE PingMarks /\ i # round
      <4>1. slots'[i].active = slots[i].active /\ round' = round /\ pc["ping"] = "mark" /\ pc'["ping"] = "send"
        BY <3>9, MarksIs DEF PingMarks, Goto, Places, pingVars
      <4> QED
        BY <2>5, <3>1, <3>2, <3>4, <3>9, <4>1
    <3>10. PingMarks /\ i = round => slots'[i].active = 0
      BY MarksIs
    <3> QED
      BY <3>5, <3>6, <3>7, <3>8, <3>9, <3>10
  <2>6. \/ Adds /\ fds' = fds /\ (LetsWait(i) \/ PairsWith(i))
        \/ /\ slots[i].fd # -1 /\ slots[i].fd \in Fds
           /\ slots'[i].fd = slots[i].fd /\ fds'[slots[i].fd] = fds[slots[i].fd]
           /\ slots'[i].name = slots[i].name
           /\ slots'[i].opponent = slots[i].opponent \/ (i + 1 \in Slots /\ Adds /\ PairsWith(i + 1))
    BY <1>5, StaysIs
  <2> QED
    BY <2>3, <2>4, <2>5, <2>6, Zenon
<1> HIDE DEF Pinging
<1>6. \A i \in Slots : slots'[i].fd # -1 => fds'[slots'[i].fd] \in Clients
  <2> SUFFICES ASSUME NEW i \in Slots, slots'[i].fd # -1 PROVE fds'[slots'[i].fd] \in Clients
    OBVIOUS
  <2>1. Owned' /\ SocketTypes' /\ TableType'
    BY OwnedKept, SocketTypesKept, TableTypeKept
  <2>2. slots'[i].fd \in Fds /\ fds'[slots'[i].fd] # NoClient
    BY <2>1, Fields DEF Owned, TableType
  <2> QED
    BY <2>1, <2>2 DEF SocketTypes
<1>7. \A c \in Clients : Fine(c)
  BY <1>1
<1> QED
  BY <1>5, <1>6, <1>7 DEF Pings, In, Out, NewIn, NewOut

-------------------------------------------------------------------------------
(* The start of a game comes first *)

\* What is sent does not come before the start, nor take it away.
LEMMA SentStart ==
    ASSUME SocketTypes, NEW box \in [Clients -> Seq(News)], NEW f, NEW type \in News, NEW c \in Clients
    PROVE  /\ Has(box[c], Starts) => Has(send_message(box, f, type)[c], Starts)
           /\ StartIsFirst(box[c])
              /\ (type \in {"MOVE", "PING", "END_GAME"} /\ Reaches(f, c) => Has(box[c], Starts))
              => StartIsFirst(send_message(box, f, type)[c])
<1>1. send_message(box, f, type)[c] = IF Reaches(f, c) THEN Append(box[c], type) ELSE box[c]
  BY Sent
<1>2. box[c] \in Seq(News)
  OBVIOUS
<1>3. Has(box[c], Starts) => Has(Append(box[c], type), Starts)
  BY <1>2, HasQueue
<1>4. StartIsFirst(box[c]) /\ (type \in {"MOVE", "PING", "END_GAME"} => Has(box[c], Starts))
      => StartIsFirst(Append(box[c], type))
  BY <1>2, StartIs
<1>5. CASE Reaches(f, c)
  BY <1>1, <1>3, <1>4, <1>5
<1>6. CASE ~Reaches(f, c)
  BY <1>1, <1>6
<1> QED
  BY <1>5, <1>6

\* Who has an opponent and is reached has been sent the start.
LEMMA PlayersHave ==
    ASSUME SocketTypes, Connections, Starting, NEW c \in Clients, cl[c] \in {"off", "listening"},
           NEW j \in Slots, slots[j].opponent # -1, Reaches(slots[j].fd, c)
    PROVE  Has(inbox[c], Starts)
<1>1. slots[j].fd \in Fds /\ slots[j].fd # -1 /\ fds[slots[j].fd] = c /\ link[c] = "open"
  BY Numbers DEF Reaches, IsOpen
<1>2. cl[c] = "listening"
  BY <1>1 DEF Connections, Connected
<1> QED
  BY <1>1, <1>2 DEF Starting

\* What the server sends keeps the start first.
LEMMA StartsSent ==
    ASSUME Places, TableType, SocketTypes, ClientTypes, QueueTypes, Connections, Owned, Handling, Pairs, Pings,
           Starting, NEW c \in Clients, cl[c] \in {"off", "listening"},
           \/ add_client \/ move \/ game_end \/ PingSends
           \/ \E t \in Threads : Removes(t) /\ RemoveNotifies(t)
    PROVE  /\ StartIsFirst(inbox'[c]) /\ (Has(inbox[c], Starts) => Has(inbox'[c], Starts))
           /\ cl' = cl
<1> DEFINE Good == /\ StartIsFirst(inbox'[c]) /\ (Has(inbox[c], Starts) => Has(inbox'[c], Starts))
                   /\ cl' = cl
           Later == {"MOVE", "PING", "END_GAME"}
<1>0. inbox \in [Clients -> Seq(News)] /\ StartIsFirst(inbox[c])
  BY DEF QueueTypes, Starting
<1>1. ASSUME NEW f, NEW type \in News, cl' = cl, inbox' = send_message(inbox, f, type),
             type \notin Later \/ \E j \in Slots : f = slots[j].fd /\ slots[j].opponent # -1
      PROVE  Good
  <2>1. type \in Later /\ Reaches(f, c) => Has(inbox[c], Starts)
    BY <1>1, PlayersHave
  <2> QED
    BY <1>0, <1>1, <2>1, SentStart
<1>2. ASSUME add_client PROVE Good
  <2>0. cl' = cl
    BY <1>2, AddIs DEF Adds, client
  <2>1. ASSUME NEW type \in {"EXISTING_NAME", "FULL_SERVER"}, Refuses(type) PROVE Good
    <3>1. type \in News /\ type \notin Later
      BY DEF News
    <3> HIDE DEF Good
    <3> QED
      BY <1>1, <2>0, <2>1, <3>1 DEF Refuses
  <2>2. ASSUME NEW i \in Slots, LetsWait(i) PROVE Good
    <3>1. "NO_OPPONENT" \in News /\ "NO_OPPONENT" \notin Later
      BY DEF News
    <3> HIDE DEF Good
    <3> QED
      BY <1>1, <2>0, <2>2, <3>1 DEF LetsWait
  <2>3. ASSUME NEW i \in Slots, PairsWith(i) PROVE Good
    <3>1. "START_GAME_O" \in News /\ "START_GAME_X" \in News /\ "START_GAME_O" \notin Later /\ "START_GAME_X" \notin Later
      BY DEF News, Starts
    <3> DEFINE b == send_message(inbox, fd, "START_GAME_O")
               g == slots[i - 1].fd
    <3>2. b \in [Clients -> Seq(News)]
      BY <1>0, <3>1, SendIs
    <3>3. StartIsFirst(b[c]) /\ (Has(inbox[c], Starts) => Has(b[c], Starts))
      BY <1>0, <3>1, SentStart
    <3>4. inbox' = send_message(b, g, "START_GAME_X")
      BY <2>3 DEF PairsWith
    <3> HIDE DEF b, g
    <3> DEFINE a == send_message(b, g, "START_GAME_X")
    <3>5. StartIsFirst(a[c]) /\ (Has(b[c], Starts) => Has(a[c], Starts))
      BY <3>1, <3>2, <3>3, SentStart
    <3> HIDE DEF a
    <3>6. inbox' = a
      BY <3>4 DEF a
    <3> QED
      BY <2>0, <3>3, <3>5, <3>6
  <2> QED
    BY <1>2, <2>1, <2>2, <2>3, AddIs
<1> HIDE DEF Good
<1>3. ASSUME move PROVE Good
  <2>1. /\ pc["main"] = "dispatch" /\ ~mutex /\ msg.type = "MOVE" /\ cl' = cl
        /\ Named(msg.name) = {} => inbox' = inbox
        /\ Named(msg.name) # {} => inbox' = send_message(inbox, slots[OpponentOf(msg.name)].fd, "MOVE")
    BY <1>3 DEF move, Handles, Goto, client
  <2>2. CASE Named(msg.name) = {}
    BY <1>0, <2>1, <2>2 DEF Good
  <2>3. CASE Named(msg.name) # {}
    <3>1. OpponentOf(msg.name) \in Slots /\ slots[OpponentOf(msg.name)].opponent # -1
      BY <2>1, <2>3, OpponentIs, Numbers DEF OpponentOf
    <3>2. "MOVE" \in News
      BY DEF News
    <3> QED
      BY <1>1, <2>1, <2>3, <3>1, <3>2
  <2> QED
    BY <2>2, <2>3
<1>4. ASSUME game_end PROVE Good
  <2> DEFINE f == slots[Least(Named(msg.name))].fd
             g == slots[OpponentOf(msg.name)].fd
  <2>1. /\ pc["main"] = "dispatch" /\ ~mutex /\ msg.type = "END_GAME" /\ cl' = cl
        /\ Named(msg.name) = {} => inbox' = inbox
        /\ Named(msg.name) # {} => inbox' = send_message(send_message(inbox, f, "END_GAME"), g, "END_GAME")
    BY <1>4 DEF game_end, Handles, Goto, client
  <2>2. CASE Named(msg.name) = {}
    BY <1>0, <2>1, <2>2 DEF Good
  <2>3. CASE Named(msg.name) # {}
    <3>1. /\ OpponentOf(msg.name) \in Slots /\ slots[OpponentOf(msg.name)].opponent # -1
          /\ Least(Named(msg.name)) \in Slots /\ slots[Least(Named(msg.name))].opponent # -1
      BY <2>1, <2>3, OpponentIs, Numbers DEF OpponentOf
    <3>2. (Reaches(f, c) => Has(inbox[c], Starts)) /\ (Reaches(g, c) => Has(inbox[c], Starts))
      BY <3>1, PlayersHave
    <3>3. "END_GAME" \in News
      BY DEF News
    <3>4. inbox' = send_message(send_message(inbox, f, "END_GAME"), g, "END_GAME")
      BY <2>1, <2>3
    <3> HIDE DEF f, g
    <3> DEFINE b == send_message(inbox, f, "END_GAME")
    <3>5. b \in [Clients -> Seq(News)]
      BY <1>0, <3>3, SendIs
    <3>6. StartIsFirst(b[c]) /\ (Has(inbox[c], Starts) => Has(b[c], Starts))
      BY <1>0, <3>2, <3>3, SentStart
    <3>7. inbox' = send_message(b, g, "END_GAME")
      BY <3>4
    <3> HIDE DEF b
    <3> DEFINE a == send_message(b, g, "END_GAME")
    <3>8. StartIsFirst(a[c]) /\ (Has(b[c], Starts) => Has(a[c], Starts))
      BY <3>2, <3>3, <3>5, <3>6, SentStart
    <3> HIDE DEF a
    <3>9. inbox' = a
      BY <3>7 DEF a
    <3> QED
      BY <2>1, <3>6, <3>8, <3>9 DEF Good
  <2> QED
    BY <2>2, <2>3
<1>5. ASSUME PingSends PROVE Good
  <2>1. /\ inbox' = send_message(inbox, slots[round].fd, "PING") /\ cl' = cl
        /\ pc["ping"] = "send" /\ round \in Slots /\ "PING" \in News
    BY <1>5 DEF PingSends, Goto, client, Places, News
  <2>2. CASE slots[round].fd = -1
    <3>1. inbox'[c] = inbox[c]
      <4>1. ~Reaches(slots[round].fd, c)
        BY <2>2, Numbers DEF Reaches, IsOpen
      <4>2. send_message(inbox, slots[round].fd, "PING")[c] =
              IF Reaches(slots[round].fd, c) THEN Append(inbox[c], "PING") ELSE inbox[c]
        BY <1>0, Sent
      <4> QED
        BY <2>1, <4>1, <4>2
    <3> QED
      BY <1>0, <2>1, <3>1 DEF Good
  <2>3. CASE slots[round].fd # -1
    <3>1. slots[round].opponent # -1
      BY <2>1, <2>3 DEF Pings
    <3> QED
      BY <1>1, <2>1, <3>1
  <2> QED
    BY <2>2, <2>3
<1>6. ASSUME NEW t \in Threads, Removes(t), RemoveNotifies(t) PROVE Good
  <2>1. /\ inbox' = send_message(inbox, slots[rem[t].j].fd, "OPPONENT_DISCONNECTED") /\ cl' = cl
        /\ "OPPONENT_DISCONNECTED" \in News /\ "OPPONENT_DISCONNECTED" \notin Later
    BY <1>6 DEF Removes, RemoveNotifies, client, News
  <2> HIDE DEF Later
  <2> QED
    BY <1>1, <2>1
<1>7. Good
  BY <1>2, <1>3, <1>4, <1>5, <1>6
<1> QED
  BY <1>7 DEF Good

\* A client listens, on an open connection, since it connected.
LEMMA ListensSince ==
    ASSUME SocketTypes, ClientTypes, [Next]_vars, NEW c \in Clients
    PROVE  /\ link'[c] = "open" => link[c] = "open" \/ ClientStarts(c)
           /\ cl'[c] = "listening" => cl[c] = "listening" \/ ClientStarts(c)
<1> USE DEF ClientTypes, client
<1>1. ASSUME NEW d \in Clients, Client(d)
      PROVE  /\ link'[c] = "open" => link[c] = "open" \/ ClientStarts(c)
             /\ cl'[c] = "listening" => cl[c] = "listening" \/ ClientStarts(c)
  <2> USE DEF Receives, Taken, Exit
  <2>1. CASE ClientStarts(d)
    BY <2>1 DEF ClientStarts
  <2>2. CASE \/ ClientWaits(d) \/ ClientPlays(d) \/ ClientGivesUp(d) \/ ClientGetsMove(d)
             \/ ClientGetsPing(d) \/ ClientEnds(d)
    BY <2>2 DEF ClientWaits, ClientPlays, ClientGivesUp, ClientGetsMove, ClientGetsPing, ClientEnds
  <2>3. CASE \/ ClientMoves(d) \/ ClientFindsGameOver(d) \/ ClientLosesServer(d) \/ ClientQuits(d) \/ ClientHangs(d)
    BY <2>3 DEF ClientMoves, ClientFindsGameOver, ClientLosesServer, ClientQuits, ClientHangs
  <2> QED
    BY <1>1, <2>1, <2>2, <2>3 DEF Client
<1>2. CASE RecvError
  BY <1>2 DEF RecvError
<1>3. ASSUME cl' = cl, link' = link
      PROVE  /\ link'[c] = "open" => link[c] = "open" \/ ClientStarts(c)
             /\ cl'[c] = "listening" => cl[c] = "listening" \/ ClientStarts(c)
  BY <1>3
<1>4. \/ cl' = cl /\ link' = link
      \/ RecvError
      \/ \E d \in Clients : Client(d)
  BY StepsAre, Zenon DEF MainCollects, PollAccepts, PollPicks, PollFails, RecvMessage, RecvEof, add_client, pong, move,
     game_end, ServerCrashes, PingStarts, PingVisits, PingMarks, PingSends, PingLosesClient, PingGoesOn, Removes,
     vars, client, Handles
<1> QED
  BY <1>1, <1>2, <1>3, <1>4

\* The start is the first a client gets of its game, and a player gets it.
LEMMA StartingKept ==
    ASSUME Places, TableType, SocketTypes, MessageType, ClientTypes, QueueTypes, CallType,
           Connections, Owned, Waiting, Handling, Pairs, Removals, Pings, Starting, [Next]_vars
    PROVE  Starting'
<1> DEFINE Sends == \/ add_client \/ move \/ game_end \/ PingSends
                    \/ \E t \in Threads : Removes(t) /\ RemoveNotifies(t)
<1>1. ASSUME NEW c \in Clients, cl'[c] \in {"off", "listening"} PROVE StartIsFirst(inbox'[c])
  <2>1. inbox[c] \in Seq(News)
    BY DEF QueueTypes
  <2>2. CASE inbox' = inbox /\ cl' = cl
    BY <1>1, <2>2 DEF Starting
  <2>3. CASE Sends
    <3>1. cl' = cl
      BY <2>3 DEF add_client, move, game_end, PingSends, Removes, Handles, client
    <3> QED
      BY <1>1, <2>3, <3>1, StartsSent
  <2>4. ASSUME NEW d \in Clients, Client(d) PROVE StartIsFirst(inbox'[c])
    <3>1. CASE inbox'[c] = inbox[c] /\ (cl'[c] = cl[c] \/ ClientStarts(c))
      BY <1>1, <3>1 DEF Starting, ClientStarts
    <3>2. CASE inbox[c] # <<>> /\ inbox'[c] = Tail(inbox[c]) /\ cl[c] = "listening" /\ Head(inbox[c]) = "NO_OPPONENT"
      <4>1. StartIsFirst(inbox[c]) /\ Head(inbox[c]) \notin Starts
        BY <3>2 DEF Starting, Starts
      <4> QED
        BY <2>1, <3>2, <4>1, StartIs
    <3> QED
      BY <1>1, <2>4, <3>1, <3>2, TakesIs
  <2> QED
    BY <2>2, <2>3, <2>4, InboxIs
<1>2. ASSUME NEW c \in Clients, cl[c] = "listening", cl'[c] = "listening", Has(inbox[c], Starts)
      PROVE  Has(inbox'[c], Starts)
  <2>1. inbox[c] \in Seq(News)
    BY DEF QueueTypes
  <2>2. ASSUME NEW d \in Clients, Client(d) PROVE Has(inbox'[c], Starts)
    <3>1. inbox'[c] = inbox[c] \/ (inbox[c] # <<>> /\ inbox'[c] = Tail(inbox[c]) /\ Head(inbox[c]) = "NO_OPPONENT")
      BY <1>2, <2>2, TakesIs
    <3>2. "NO_OPPONENT" \notin Starts
      BY DEF Starts
    <3>3. inbox[c] # <<>> => (Has(inbox[c], Starts) <=> Head(inbox[c]) \in Starts \/ Has(Tail(inbox[c]), Starts))
      BY <2>1, HasQueue
    <3> QED
      BY <1>2, <3>1, <3>2, <3>3
  <2>3. CASE Sends
    BY <1>2, <2>3, StartsSent
  <2> QED
    BY <1>2, <2>2, <2>3, InboxIs
<1>3. ASSUME NEW i \in Slots, slots'[i].fd # -1, slots'[i].opponent # -1, NEW c \in Clients, c = fds'[slots'[i].fd],
             cl'[c] = "listening", link'[c] = "open"
      PROVE  Has(inbox'[c], Starts)
  <2>1. CASE Adds /\ fds' = fds /\ LetsWait(i)
    <3>1. slots[i].fd = -1 /\ slots'[i].opponent = slots[i].opponent
      BY <2>1, WaitsIs DEF LetsWait, Free
    <3>2. ~Doomed(i)
      BY <2>1, NoneRemoving DEF Doomed
    <3> QED
      BY <1>3, <3>1, <3>2 DEF Pairs, PairedSlot
  <2> DEFINE b == send_message(inbox, fd, "START_GAME_O")
  <2>2. ASSUME Adds
        PROVE  /\ b \in [Clients -> Seq(News)] /\ inbox \in [Clients -> Seq(News)]
               /\ b[c] = IF Reaches(fd, c) THEN Append(inbox[c], "START_GAME_O") ELSE inbox[c]
               /\ \A g : send_message(b, g, "START_GAME_X")[c] =
                           IF Reaches(g, c) THEN Append(b[c], "START_GAME_X") ELSE b[c]
               /\ \A q \in Seq(News) : /\ Has(Append(q, "START_GAME_O"), Starts)
                                       /\ Has(Append(q, "START_GAME_X"), Starts)
               /\ link[c] = "open"
    <3>1. inbox \in [Clients -> Seq(News)] /\ "START_GAME_O" \in News
      BY DEF QueueTypes, News, Starts
    <3>2. b \in [Clients -> Seq(News)]
      BY <3>1, SendIs
    <3>3. b[c] = IF Reaches(fd, c) THEN Append(inbox[c], "START_GAME_O") ELSE inbox[c]
      BY <3>1, Sent
    <3> HIDE DEF b
    <3>4. \A g : send_message(b, g, "START_GAME_X")[c] = IF Reaches(g, c) THEN Append(b[c], "START_GAME_X") ELSE b[c]
      BY <3>2, Sent
    <3>5. \A q \in Seq(News) : Has(Append(q, "START_GAME_O"), Starts) /\ Has(Append(q, "START_GAME_X"), Starts)
      <4>1. "START_GAME_O" \in Starts /\ "START_GAME_X" \in Starts
        BY DEF Starts
      <4> QED
        BY <4>1, HasQueue
    <3>6. link[c] = "open"
      BY <1>3, <2>2 DEF Adds, client
    <3> QED
      BY <3>1, <3>2, <3>3, <3>4, <3>5, <3>6
  <2>3. CASE Adds /\ fds' = fds /\ PairsWith(i)
    <3>1. slots'[i].fd = fd /\ inbox' = send_message(b, slots[i - 1].fd, "START_GAME_X")
      BY <2>3, PairsIs DEF PairsWith
    <3>2. Reaches(fd, c)
      BY <1>3, <2>2, <2>3, <3>1 DEF Reaches, Adds, Handling
    <3> HIDE DEF b
    <3>3. b[c] \in Seq(News) /\ inbox[c] \in Seq(News) /\ Has(b[c], Starts)
      BY <2>2, <2>3, <3>2
    <3>4. inbox'[c] = b[c] \/ inbox'[c] = Append(b[c], "START_GAME_X")
      BY <2>2, <2>3, <3>1
    <3> QED
      BY <2>2, <2>3, <3>3, <3>4
  <2>4. CASE /\ i + 1 \in Slots /\ Adds /\ PairsWith(i + 1) /\ slots[i].fd \in Fds /\ slots[i].fd # -1
             /\ slots'[i].fd = slots[i].fd /\ fds'[slots[i].fd] = fds[slots[i].fd]
    <3>1. (i + 1) - 1 = i
      BY Numbers
    <3>2. inbox' = send_message(b, slots[(i + 1) - 1].fd, "START_GAME_X")
      BY <2>4 DEF PairsWith
    <3>3. Reaches(slots[i].fd, c)
      BY <1>3, <2>2, <2>4 DEF Reaches, IsOpen, Owned
    <3> HIDE DEF b
    <3>4. inbox'[c] = Append(b[c], "START_GAME_X") /\ b[c] \in Seq(News)
      BY <2>2, <2>4, <3>1, <3>2, <3>3
    <3> QED
      BY <2>2, <2>4, <3>4
  <2>5. CASE /\ slots[i].fd # -1 /\ slots[i].fd \in Fds
             /\ slots'[i].fd = slots[i].fd /\ fds'[slots[i].fd] = fds[slots[i].fd]
             /\ slots'[i].opponent = slots[i].opponent
    <3>1. c = fds[slots[i].fd] /\ Connected(c)
      BY <1>3, <2>5 DEF Connected
    <3>2. ~ClientStarts(c)
      BY <3>1 DEF ClientStarts, Connections
    <3>3. cl[c] = "listening" /\ link[c] = "open"
      BY <1>3, <3>2, ListensSince
    <3>4. Has(inbox[c], Starts)
      BY <1>3, <2>5, <3>1, <3>3 DEF Starting
    <3> QED
      BY <1>2, <1>3, <3>3, <3>4
  <2>6. \/ Adds /\ fds' = fds /\ LetsWait(i)
        \/ Adds /\ fds' = fds /\ PairsWith(i)
        \/ /\ slots[i].fd # -1 /\ slots[i].fd \in Fds
           /\ slots'[i].fd = slots[i].fd /\ fds'[slots[i].fd] = fds[slots[i].fd]
           /\ slots'[i].opponent = slots[i].opponent \/ (i + 1 \in Slots /\ Adds /\ PairsWith(i + 1))
    BY <1>3, StaysIs
  <2> QED
    BY <2>1, <2>3, <2>4, <2>5, <2>6
<1>4. \A i \in Slots : slots'[i].fd # -1 => fds'[slots'[i].fd] \in Clients
  <2> SUFFICES ASSUME NEW i \in Slots, slots'[i].fd # -1 PROVE fds'[slots'[i].fd] \in Clients
    OBVIOUS
  <2>1. Owned' /\ SocketTypes' /\ TableType'
    BY OwnedKept, SocketTypesKept, TableTypeKept
  <2>2. slots'[i].fd \in Fds /\ fds'[slots'[i].fd] # NoClient
    BY <2>1, Fields DEF Owned, TableType
  <2> QED
    BY <2>1, <2>2 DEF SocketTypes
<1> QED
  BY <1>1, <1>3, <1>4 DEF Starting

-------------------------------------------------------------------------------
(* The theorems *)

\* An empty table, and nobody connected.
LEMMA InitIInv == Init => IInv
<1> SUFFICES ASSUME Init PROVE IInv
  OBVIOUS
<1> USE Numbers
<1>1. pc = [main |-> "poll", ping |-> "sleep"] /\ pc.main = "poll" /\ pc.ping = "sleep"
      /\ pc \in [{"main", "ping"} -> MainSteps \cup PingSteps]
  <2>1. pc = [main |-> "poll", ping |-> "sleep"]
    BY DEF Init
  <2>2. DOMAIN pc = {"main", "ping"} /\ pc["main"] = "poll" /\ pc["ping"] = "sleep"
    BY <2>1
  <2>3. pc = [x \in {"main", "ping"} |-> pc[x]]
    BY <2>1
  <2>4. "poll" \in MainSteps /\ "sleep" \in PingSteps
    BY DEF MainSteps, PingSteps
  <2> QED
    BY <2>1, <2>2, <2>3, <2>4
<1>2. Places
  BY <1>1 DEF Init, Places, MainSteps, PingSteps
<1>3. TableType /\ CallType /\ MessageType
  <2>1. FreeSlot \in Slot /\ NoCall \in Call
    BY Fields
  <2>2. NoMsg \in Message
    BY DEF NoMsg, Message, Names
  <2> QED
    BY <2>1, <2>2 DEF Init, TableType, CallType, MessageType
<1>4. SocketTypes /\ ClientTypes /\ QueueTypes
  BY GameServerAssumption DEF Init, SocketTypes, ClientTypes, QueueTypes, NotPolled
<1>5. /\ \A i \in Slots : slots[i].fd = -1 /\ slots[i].opponent = -1 /\ slots[i].active = -1
      /\ \A f \in Fds : fds[f] = NoClient
      /\ backlog = {}
      /\ \A c \in Clients : cl[c] = "off" /\ inbox[c] = <<>> /\ outbox[c] = <<>>
      /\ fd = -1 /\ ~IsOpen(fd)
  BY DEF Init, FreeSlot, IsOpen
<1>6. \A T : ~Has(<<>>, T) /\ \A x : Once(<<>>, x) /\ StartIsFirst(<<>>)
  <2>1. DOMAIN <<>> = {}
    OBVIOUS
  <2> QED
    BY <2>1, Zenon DEF Has, Once, StartIsFirst
<1>7. Connections
  BY <1>5, <1>6, GameServerAssumption DEF Connections, Connected, NotStarted
<1>8. Owned /\ Waiting
  BY <1>5 DEF Owned, Waiting
<1>9. Handling
  BY <1>1 DEF Handling
<1>10. Pairs
  BY <1>5 DEF Pairs
<1>11. Removals
  BY <1>1 DEF Removals, RemovalSteps, Threads
<1>12. Pings
  BY <1>5, <1>6 DEF Pings
<1>13. Starting
  BY <1>5, <1>6 DEF Starting
<1> QED
  BY <1>2, <1>3, <1>4, <1>7, <1>8, <1>9, <1>10, <1>11, <1>12, <1>13 DEF IInv, Types

\* Every step keeps the parts of the invariant.
LEMMA IInvKept == IInv /\ [Next]_vars => IInv'
<1> SUFFICES ASSUME IInv, [Next]_vars PROVE IInv'
  OBVIOUS
<1>1. /\ Places /\ TableType /\ CallType /\ MessageType /\ SocketTypes /\ ClientTypes /\ QueueTypes
      /\ Connections /\ Owned /\ Waiting /\ Handling /\ Pairs /\ Removals /\ Pings /\ Starting
  BY DEF IInv, Types
<1>2. Places' /\ MessageType' /\ SocketTypes' /\ ClientTypes' /\ QueueTypes'
  BY <1>1, PlacesKept, MessageTypeKept, SocketTypesKept, ClientTypesKept, QueueTypesKept
<1>3. TableType' /\ CallType'
  BY <1>1, TableTypeKept, CallTypeKept
<1>4. Connections' /\ Owned' /\ Waiting'
  BY <1>1, ConnectionsKept, OwnedKept, WaitingKept
<1>5. Handling' /\ Pairs' /\ Removals'
  BY <1>1, HandlingKept, PairsKept, RemovalsKept
<1>6. Pings' /\ Starting'
  BY <1>1, PingsKept, StartingKept
<1> QED
  BY <1>2, <1>3, <1>4, <1>5, <1>6 DEF IInv, Types

\* The invariant holds of every behaviour of the server and its clients.
THEOREM Invariance == Spec => []IInv
<1>1. Init => IInv
  BY InitIInv
<1>2. IInv /\ [Next]_vars => IInv'
  BY IInvKept
<1> QED
  BY <1>1, <1>2, PTL DEF Spec

\* However the main and the ping thread remove clients past each other, the
\* table is the one that all handlers rely on.
THEOREM TableSound == Spec => []TableIsSound
<1>1. IInv => TableIsSound
  <2> SUFFICES ASSUME IInv PROVE TableIsSound
    OBVIOUS
  <2>1. /\ Places /\ TableType /\ SocketTypes /\ ClientTypes /\ QueueTypes
        /\ Owned /\ Handling /\ Pairs /\ Pings
    BY DEF IInv, Types
  <2>2. ASSUME Quiet PROVE \A k \in Slots : ~Doomed(k)
    <3>1. \A t \in Threads : pc[t] \notin RemovalSteps
      BY <2>2 DEF Quiet, Removing, RemovalSteps, Threads
    <3>2. \A t \in Threads : WillClear(t) = {}
      BY <3>1, Zenon DEF WillClear, RemovalSteps
    <3> QED
      BY <3>2 DEF Doomed
  <2>3. TypeOK
    <3>1. \A c \in Clients : Cardinality({k \in DOMAIN inbox[c] : inbox[c][k] = "PING"}) <= 1
      <4> SUFFICES ASSUME NEW c \in Clients
                   PROVE  Cardinality({k \in DOMAIN inbox[c] : inbox[c][k] = "PING"}) <= 1
        OBVIOUS
      <4> DEFINE P == {k \in DOMAIN inbox[c] : inbox[c][k] = "PING"}
      <4>1. \A k, m \in P : k = m
        BY <2>1 DEF Pings, Once
      <4> HIDE DEF P
      <4>2. P = {} \/ \E k : P = {k}
        BY <4>1
      <4>3. Cardinality({}) = 0
        BY FS_EmptySet
      <4>4. \A k : Cardinality({k}) = 1
        BY FS_Singleton
      <4>5. Cardinality(P) <= 1
        <5>1. CASE P = {}
          BY <4>3, <5>1
        <5>2. CASE \E k : P = {k}
          BY <4>4, <5>2
        <5> QED
          BY <4>2, <5>1, <5>2
      <4> QED
        BY <4>5 DEF P
    <3>2. slots \in [Slots -> [fd : {-1} \cup Fds,
                            name : {NoName} \cup {Name[c] : c \in Clients},
                            opponent : {-1} \cup Slots, active : {-1, 0, 1}]]
      BY <2>1 DEF TableType, Slot, Names
    <3> QED
      BY <2>1, <3>1, <3>2 DEF TypeOK, SocketTypes, ClientTypes, Places
  <2>4. Paired
    <3> SUFFICES ASSUME Quiet, NEW i \in Slots, i % 2 = 0
        PROVE  \/ /\ ({i, i + 1} \cap Slots) \cap Registered \subseteq {i}
                  /\ \A k \in {i, i + 1} \cap Slots : slots[k].opponent = -1
               \/ /\ {i, i + 1} \subseteq Registered
                  /\ slots[i].opponent = i + 1 /\ slots[i + 1].opponent = i
      BY DEF Paired
    <3>1. i \in Nat /\ Partner(i) = i + 1 /\ Partner(i + 1) = i /\ (i + 1) % 2 # 0 /\ i + 1 # -1 /\ i # -1
      BY Numbers DEF Partner
    <3>2. \A k \in Slots : slots[k].opponent # -1 =>
            slots[k].opponent = Partner(k) /\ Partner(k) \in Slots /\ PairedSlot(k)
      BY <2>1, <2>2 DEF Pairs
    <3>3. CASE slots[i].opponent # -1
      BY <3>1, <3>2, <3>3 DEF PairedSlot, Registered
    <3>4. CASE i + 1 \in Slots /\ slots[i + 1].opponent # -1
      BY <3>1, <3>2, <3>4 DEF PairedSlot, Registered
    <3>5. CASE \A k \in {i, i + 1} \cap Slots : slots[k].opponent = -1
      <4>1. i + 1 \in Slots => slots[i + 1].fd = -1
        BY <2>1, <3>1, <3>5 DEF Pairs
      <4> QED
        BY <3>5, <4>1 DEF Registered
    <3> QED
      BY <3>3, <3>4, <3>5
  <2>5. OwnConnection
    <3>1. \A i \in Slots : slots[i].fd \in {-1} \cup Fds
      BY <2>1, Fields DEF TableType
    <3> QED
      BY <2>1, <3>1 DEF OwnConnection, Owned, Registered, IsOpen
  <2>6. MoveHasOpponent
    <3> SUFFICES ASSUME pc.main = "dispatch", msg.type \in {"MOVE", "END_GAME"}, ~mutex, Named(msg.name) # {}
                 PROVE  OpponentOf(msg.name) \in Registered
      BY DEF MoveHasOpponent
    <3>1. msg.type # "ADD_CLIENT"
      OBVIOUS
    <3>2. OpponentOf(msg.name) \in Slots /\ slots[OpponentOf(msg.name)].fd # -1
      BY <2>1, <3>1, OpponentIs DEF OpponentOf
    <3> QED
      BY <3>2 DEF Registered
  <2> QED
    BY <2>3, <2>4, <2>5, <2>6 DEF TableIsSound
<1> QED
  BY <1>1, Invariance, PTL

\* A client that listens finds the start of its game before any ping or move.
THEOREM StartFirst == Spec => []StartComesFirst
<1>1. IInv => StartComesFirst
  <2> SUFFICES ASSUME IInv, NEW c \in Clients, cl[c] = "listening", NEW k \in DOMAIN inbox[c],
                      inbox[c][k] \in {"MOVE", "PING", "END_GAME"}
               PROVE  \E m \in 1 .. k - 1 : inbox[c][m] \in {"START_GAME_O", "START_GAME_X"}
    BY DEF StartComesFirst
  <2>1. StartIsFirst(inbox[c])
    BY DEF IInv, Starting
  <2> QED
    BY <2>1 DEF StartIsFirst, Starts
<1> QED
  BY <1>1, Invariance, PTL

-------------------------------------------------------------------------------
(* The additional invariant when pings are calm *)

ClientOf(i) == fds[slots[i].fd]
Farewell == {"OPPONENT_DISCONNECTED"}

\* The server sees the end of a connection only when its client has ended.
Linked == \A c \in Clients : Live(c) => link[c] = "open"

\* A player whose mark is cleared has still to answer, or has been lost.
Asked ==
    \A i \in Slots : slots[i].fd # -1 /\ slots[i].opponent # -1 /\ slots[i].active = 0 =>
        \/ pc.ping = "send" /\ i = round
        \/ InFlight(ClientOf(i))
        \/ ~Live(ClientOf(i))

\* In a round the players to come are without a mark only if they are lost.
Visited(i) == i < round \/ (i = round /\ pc.ping # "visit")
Lost ==
    /\ \A i \in Slots :
         mutex /\ slots[i].fd # -1 /\ slots[i].opponent # -1 /\ slots[i].active = 0 /\ ~Visited(i)
         => ~Live(ClientOf(i))
    /\ pc.ping = "call" /\ slots[round].fd # -1 /\ slots[round].opponent # -1 => ~Live(ClientOf(round))

\* Who is removed is lost or waits, and its opponent has been told.
Leaving ==
    \A t \in Threads :
        /\ pc[t] = "remove" => \A i \in Slots :
             slots[i].fd # -1 /\ slots[i].fd = rem[t].fd => ~Live(ClientOf(i)) \/ slots[i].opponent = -1
        /\ pc[t] \in RemovalSteps /\ slots[rem[t].i].fd # -1 =>
             ~Live(ClientOf(rem[t].i)) \/ slots[rem[t].i].opponent = -1
        /\ pc[t] = "close_opponent" /\ slots[rem[t].j].fd # -1 /\ Live(ClientOf(rem[t].j)) =>
             Has(inbox[ClientOf(rem[t].j)], Farewell)

\* Whoever has lost its connection to the server finds the reason, or has not
\* started a game.
Informed ==
    \A c \in Clients : Live(c) /\ c \notin backlog /\ ~Connected(c) =>
        Has(inbox[c], Farewell) \/ NotStarted(c)

CalmInv == Linked /\ Asked /\ Lost /\ Leaving /\ Informed

-------------------------------------------------------------------------------
(* Clients and their queues *)

\* Who is live was live before, or has just been started.
LEMMA LiveSince ==
    ASSUME ClientTypes, [Next]_vars, NEW c \in Clients, Live(c)'
    PROVE  /\ Live(c) \/ (cl[c] = "off" /\ ClientStarts(c))
           /\ link'[c] = link[c] \/ (cl[c] = "off" /\ link'[c] = "open") \/ (RecvError /\ link[c] = "reset")
<1> USE DEF ClientTypes, client, Live
<1>1. ASSUME NEW d \in Clients, Client(d)
      PROVE  /\ Live(c) \/ (cl[c] = "off" /\ ClientStarts(c))
             /\ link'[c] = link[c] \/ (cl[c] = "off" /\ link'[c] = "open")
  <2> USE DEF Receives, Taken, Exit
  <2>1. CASE ClientStarts(d)
    BY <2>1 DEF ClientStarts
  <2>2. CASE \/ ClientWaits(d) \/ ClientPlays(d) \/ ClientGivesUp(d) \/ ClientGetsMove(d)
             \/ ClientGetsPing(d) \/ ClientEnds(d)
    BY <2>2 DEF ClientWaits, ClientPlays, ClientGivesUp, ClientGetsMove, ClientGetsPing, ClientEnds
  <2>3. CASE \/ ClientMoves(d) \/ ClientFindsGameOver(d) \/ ClientLosesServer(d) \/ ClientQuits(d) \/ ClientHangs(d)
    BY <2>3 DEF ClientMoves, ClientFindsGameOver, ClientLosesServer, ClientQuits, ClientHangs
  <2> QED
    BY <1>1, <2>1, <2>2, <2>3 DEF Client
<1>2. CASE RecvError
  BY <1>2 DEF RecvError
<1>3. \/ cl' = cl /\ link' = link
      \/ RecvError
      \/ \E d \in Clients : Client(d)
  BY StepsAre, Zenon DEF MainCollects, PollAccepts, PollPicks, PollFails, RecvMessage, RecvEof, add_client, pong, move,
     game_end, ServerCrashes, PingStarts, PingVisits, PingMarks, PingSends, PingLosesClient, PingGoesOn, Removes,
     vars, client, Handles
<1> QED
  BY <1>1, <1>2, <1>3

\* An end of connection is seen of those only who have ended.
LEMMA LinkedKept == ASSUME ClientTypes, Linked, [Next]_vars PROVE Linked'
<1> SUFFICES ASSUME NEW c \in Clients, Live(c)' PROVE link'[c] = "open"
  BY DEF Linked
<1>1. /\ Live(c) \/ cl[c] = "off"
      /\ link'[c] = link[c] \/ link'[c] = "open" \/ (RecvError /\ link[c] = "reset")
  BY LiveSince
<1>2. CASE Live(c)
  BY <1>1, <1>2 DEF Linked
<1>3. CASE cl[c] = "off"
  <2>1. ClientStarts(c)
    BY <1>3, LiveSince DEF Live
  <2> QED
    BY <2>1 DEF ClientStarts, ClientTypes
<1> QED
  BY <1>1, <1>2, <1>3

\* What is sent stays in the inbox.
LEMMA SentHas ==
    ASSUME SocketTypes, NEW box \in [Clients -> Seq(News)], NEW f, NEW type \in News, NEW c \in Clients, NEW T
    PROVE  /\ Has(box[c], T) => Has(send_message(box, f, type)[c], T)
           /\ Reaches(f, c) /\ type \in T => Has(send_message(box, f, type)[c], T)
<1>1. box[c] \in Seq(News)
  OBVIOUS
<1>2. send_message(box, f, type)[c] = IF Reaches(f, c) THEN Append(box[c], type) ELSE box[c]
  BY Sent
<1>3. \A m : Has(Append(box[c], m), T) <=> Has(box[c], T) \/ m \in T
  BY <1>1, HasQueue
<1> QED
  BY <1>2, <1>3, Zenon

\* A client that goes on takes no farewell, and answers a ping that it takes.
LEMMA TakesNews ==
    ASSUME ClientTypes, QueueTypes, NEW c \in Clients, NEW d \in Clients, Client(d), Live(c)', Live(c)
    PROVE  \/ inbox'[c] = inbox[c]
           \/ /\ inbox[c] # <<>> /\ inbox'[c] = Tail(inbox[c])
              /\ Head(inbox[c]) \notin Farewell
              /\ Head(inbox[c]) = "PING" => ClientGetsPing(c)
<1> USE DEF ClientTypes, QueueTypes, client, Receives, Taken, Exit, Live, Farewell
<1>1. CASE ClientStarts(d)
  BY <1>1 DEF ClientStarts
<1>2. CASE ClientWaits(d)
  BY <1>2 DEF ClientWaits
<1>3. CASE ClientPlays(d)
  BY <1>3 DEF ClientPlays
<1>4. CASE ClientGivesUp(d)
  BY <1>4 DEF ClientGivesUp
<1>5. CASE ClientGetsMove(d)
  BY <1>5 DEF ClientGetsMove
<1>6. CASE ClientGetsPing(d)
  BY <1>6 DEF ClientGetsPing
<1>7. CASE ClientEnds(d)
  BY <1>7 DEF ClientEnds
<1>8. CASE \/ ClientMoves(d) \/ ClientFindsGameOver(d) \/ ClientLosesServer(d) \/ ClientQuits(d) \/ ClientHangs(d)
  BY <1>8 DEF ClientMoves, ClientFindsGameOver, ClientLosesServer, ClientQuits, ClientHangs
<1> QED
  BY <1>1, <1>2, <1>3, <1>4, <1>5, <1>6, <1>7, <1>8 DEF Client

\* News stay in the inbox of a client that goes on, but for a ping it answers.
LEMMA NewsStay ==
    ASSUME SocketTypes, ClientTypes, QueueTypes, [Next]_vars, NEW c \in Clients, Live(c), Live(c)'
    PROVE  /\ Has(inbox[c], Farewell) => Has(inbox'[c], Farewell)
           /\ Has(inbox[c], {"PING"}) => Has(inbox'[c], {"PING"}) \/ ClientGetsPing(c)
<1> DEFINE Stays(T) == Has(inbox[c], T) => Has(inbox'[c], T)
<1>1. inbox[c] \in Seq(News) /\ inbox \in [Clients -> Seq(News)]
  BY DEF QueueTypes
<1>2. ASSUME NEW f, NEW type \in News, NEW T
      PROVE  /\ Has(inbox[c], T) => Has(send_message(inbox, f, type)[c], T)
             /\ send_message(inbox, f, type) \in [Clients -> Seq(News)]
  BY <1>1, SentHas, SendIs
<1>3. ASSUME NEW f, NEW type \in News, NEW g, NEW kind \in News, NEW T
      PROVE  Has(inbox[c], T) => Has(send_message(send_message(inbox, f, type), g, kind)[c], T)
  <2>1. send_message(inbox, f, type) \in [Clients -> Seq(News)]
    BY <1>2
  <2>2. Has(send_message(inbox, f, type)[c], T) => Has(send_message(send_message(inbox, f, type), g, kind)[c], T)
    BY <2>1, SentHas
  <2> QED
    BY <1>2, <2>2
<1>4. {"NO_OPPONENT", "EXISTING_NAME", "FULL_SERVER", "MOVE", "PING", "OPPONENT_DISCONNECTED", "END_GAME",
       "START_GAME_O", "START_GAME_X"} \subseteq News
  BY DEF News, Starts
<1>5. CASE inbox' = inbox
  BY <1>5
<1>6. CASE add_client
  <2>1. \/ \E type \in {"EXISTING_NAME", "FULL_SERVER"} : inbox' = send_message(inbox, fd, type)
        \/ inbox' = send_message(inbox, fd, "NO_OPPONENT")
        \/ \E i \in Slots : inbox' = send_message(send_message(inbox, fd, "START_GAME_O"), slots[i - 1].fd, "START_GAME_X")
    BY <1>6, AddIs DEF Refuses, LetsWait, PairsWith
  <2>2. \A T : Stays(T)
    BY <1>2, <1>3, <1>4, <2>1
  <2> QED
    BY <2>2, Zenon
<1>7. CASE move
  <2>1. \A T : Stays(T)
    BY <1>2, <1>4, <1>7 DEF move
  <2> QED
    BY <2>1, Zenon
<1>8. CASE game_end
  <2>1. \A T : Stays(T)
    BY <1>3, <1>4, <1>8 DEF game_end
  <2> QED
    BY <2>1, Zenon
<1>9. CASE PingSends \/ \E t \in Threads : RemoveNotifies(t)
  <2>1. \A T : Stays(T)
    BY <1>2, <1>4, <1>9 DEF PingSends, RemoveNotifies
  <2> QED
    BY <2>1, Zenon
<1>10. ASSUME NEW d \in Clients, Client(d)
       PROVE /\ Stays(Farewell)
             /\ Has(inbox[c], {"PING"}) => Has(inbox'[c], {"PING"}) \/ ClientGetsPing(c)
  <2>1. CASE inbox'[c] = inbox[c]
    BY <2>1
  <2>2. CASE /\ inbox[c] # <<>> /\ inbox'[c] = Tail(inbox[c])
             /\ Head(inbox[c]) \notin Farewell
             /\ Head(inbox[c]) = "PING" => ClientGetsPing(c)
    <3>1. \A T : Has(inbox[c], T) <=> Head(inbox[c]) \in T \/ Has(Tail(inbox[c]), T)
      BY <1>1, <2>2, HasQueue
    <3> QED
      BY <2>2, <3>1
  <2> QED
    BY <1>10, <2>1, <2>2, TakesNews
<1> HIDE DEF Stays
<1>11. \/ inbox' = inbox
       \/ add_client \/ move \/ game_end \/ PingSends
       \/ \E t \in Threads : RemoveNotifies(t)
       \/ \E d \in Clients : Client(d)
  BY InboxIs
<1> QED
  BY <1>5, <1>6, <1>7, <1>8, <1>9, <1>10, <1>11 DEF Stays

-------------------------------------------------------------------------------
(* The table and the threads *)

\* Who is connected and live after a step was live before it.
LEMMA LiveWas ==
    ASSUME ClientTypes, Connections, [Next]_vars, NEW c \in Clients, Connected(c), Live(c)'
    PROVE  Live(c)
BY LiveSince DEF Connections

\* A slot that is taken keeps its client.
LEMMA KeepsClient ==
    ASSUME TableType, SocketTypes, Connections, Owned, Removals, [Next]_vars,
           NEW k \in Slots, slots'[k].fd # -1, ~Adds \/ slots[k].fd # -1
    PROVE  /\ slots[k].fd # -1 /\ slots[k].fd \in Fds /\ slots'[k].fd = slots[k].fd
           /\ ClientOf(k)' = ClientOf(k) /\ ClientOf(k) \in Clients /\ Connected(ClientOf(k))
<1>1. /\ slots[k].fd # -1 /\ slots[k].fd \in Fds /\ slots'[k].fd = slots[k].fd
      /\ fds'[slots[k].fd] = fds[slots[k].fd]
  BY StaysIs DEF LetsWait, PairsWith, Free
<1> QED
  BY <1>1 DEF ClientOf, Connected, Owned, SocketTypes

\* How a step changes the mark of a slot and its opponent.
LEMMA ActiveIs ==
    ASSUME Places, TableType, SocketTypes, MessageType, Connections, Handling, Removals, [Next]_vars,
           NEW k \in Slots
    PROVE  \/ slots'[k].active = slots[k].active /\ slots'[k].opponent = slots[k].opponent
           \/ PingMarks /\ k = round /\ slots'[k].active = 0 /\ slots'[k].opponent = slots[k].opponent
           \/ ~mutex /\ slots'[k].active = 1 /\ slots'[k].opponent # -1
           \/ slots'[k].active = -1 /\ slots'[k].opponent = -1
<1>1. CASE slots' = slots
  BY <1>1
<1>2. ASSUME NEW i \in Slots, LetsWait(i)
      PROVE  slots'[k].active = slots[k].active /\ slots'[k].opponent = slots[k].opponent
  BY <1>2, WaitsIs
<1>3. ASSUME NEW i \in Slots, PairsWith(i), Adds
      PROVE  \/ slots'[k].active = slots[k].active /\ slots'[k].opponent = slots[k].opponent
             \/ ~mutex /\ slots'[k].active = 1 /\ slots'[k].opponent # -1
  <2>1. i # -1 /\ i - 1 # -1
    BY <1>3, Numbers DEF PairsWith
  <2> QED
    BY <1>3, <2>1, PairsIs DEF Adds
<1>4. ASSUME pong
      PROVE  \/ slots'[k].active = slots[k].active /\ slots'[k].opponent = slots[k].opponent
             \/ ~mutex /\ slots'[k].active = 1 /\ slots'[k].opponent # -1
  <2>1. ~mutex /\ pc.main = "dispatch" /\ msg.type = "PONG" /\ (msg.name # NoName \/ Registered = {})
    BY <1>4 DEF pong, Handles, Goto
  <2>2. Answers(k) => msg.name # NoName
    BY <2>1 DEF Answers, Registered
  <2>3. Answers(k) => slots[k].opponent # -1
    BY <2>1, <2>2 DEF Handling, Answers
  <2> QED
    BY <1>4, <2>1, <2>3, PongIs
<1>5. ASSUME PingMarks
      PROVE  \/ slots'[k].active = slots[k].active /\ slots'[k].opponent = slots[k].opponent
             \/ k = round /\ slots'[k].active = 0 /\ slots'[k].opponent = slots[k].opponent
  BY <1>5, MarksIs
<1>6. ASSUME NEW t \in Threads, NEW i \in Slots, Closed(i)
      PROVE  slots'[k].active = slots[k].active /\ slots'[k].opponent = slots[k].opponent
  BY <1>6 DEF Closed, Same
<1>7. ASSUME NEW i \in Slots, Cleared(i)
      PROVE  \/ slots'[k].active = slots[k].active /\ slots'[k].opponent = slots[k].opponent
             \/ slots'[k].active = -1 /\ slots'[k].opponent = -1
  BY <1>7 DEF Cleared, Same
<1> QED
  BY <1>1, <1>2, <1>3, <1>4, <1>5, <1>6, <1>7, TableIs

\* The ping thread comes to its steps from the step before.
LEMMA PingIs ==
    ASSUME Places, [Next]_vars
    PROVE  /\ pc'["ping"] = "mark" => (pc["ping"] = "mark" /\ round' = round) \/ PingVisits
           /\ pc'["ping"] = "send" => (pc["ping"] = "send" /\ round' = round) \/ PingMarks
           /\ pc'["ping"] = "call" => (pc["ping"] = "call" /\ round' = round) \/ PingVisits
           /\ mutex' => \/ PingStarts
                        \/ mutex /\ \A i \in Slots : ~Visited(i)' => ~Visited(i)
<1> USE DEF Places, Goto, mainVars, pingVars
<1> DEFINE Rests == pc'["ping"] = pc["ping"] /\ round' = round /\ mutex' = mutex
<1>1. ASSUME \/ MainCollects \/ PollAccepts \/ PollPicks \/ PollFails \/ RecvMessage \/ RecvEof \/ RecvError
             \/ add_client \/ pong \/ move \/ game_end \/ ServerCrashes
      PROVE  Rests
  BY <1>1 DEF MainCollects, PollAccepts, PollPicks, PollFails, RecvMessage, RecvEof, RecvError,
              add_client, pong, move, game_end, ServerCrashes, Handles
<1>2. ASSUME NEW c \in Clients, Client(c) PROVE Rests
  BY <1>2, Zenon DEF Client, ClientStarts, ClientWaits, ClientPlays, ClientGivesUp, ClientGetsMove, ClientGetsPing,
     ClientEnds, ClientMoves, ClientFindsGameOver, ClientLosesServer, ClientQuits, ClientHangs, Receives, clientRest
<1>3. ASSUME UNCHANGED vars PROVE Rests
  BY <1>3 DEF vars, server
<1>4. ASSUME NEW t \in Threads, Removes(t)
      PROVE  round' = round /\ mutex' = mutex /\ (Rests \/ pc'["ping"] \in {"next"} \cup RemovalSteps)
  BY <1>4 DEF Removes, After, RemoveFinds, RemoveReadsOpponent, RemoveNotifies, ClosesOpponent, ClearsOpponent,
              ClosesSlot, ClearsSlot, RemoveCloses, RemoveClears, RemovalSteps, Threads
<1>5. ASSUME PingVisits \/ PingMarks \/ PingSends \/ PingLosesClient
      PROVE  /\ round' = round /\ mutex' = mutex /\ pc'["ping"] \notin {"visit"}
             /\ pc'["ping"] \in {"mark", "call"} => PingVisits
             /\ pc'["ping"] = "send" => PingMarks
  BY <1>5 DEF PingVisits, PingMarks, PingSends, PingLosesClient
<1>6. PingStarts => pc'["ping"] = "visit"
  BY DEF PingStarts
<1>7. ASSUME PingGoesOn
      PROVE  /\ mutex /\ pc'["ping"] \in {"sleep", "visit"}
             /\ mutex' => round' = round + 1
  BY <1>7 DEF PingGoesOn
<1>8. {"mark", "send", "call", "visit"} \cap ({"next"} \cup RemovalSteps) = {}
  BY DEF RemovalSteps
<1>9. mutex \in BOOLEAN /\ mutex' \in BOOLEAN /\ round \in Nat
  BY PlacesKept, Numbers
<1>10. ASSUME round' = round, NEW i \in Slots, ~Visited(i)', pc'["ping"] = pc["ping"] \/ pc'["ping"] # "visit"
       PROVE  ~Visited(i)
  BY <1>10 DEF Visited
<1>11. ASSUME round' = round + 1, NEW i \in Slots, ~Visited(i)'
       PROVE  ~Visited(i)
  <2>1. i \in Nat
    BY Numbers
  <2> QED
    BY <1>9, <1>11, <2>1 DEF Visited
<1>12. ASSUME Rests PROVE mutex' => mutex /\ \A i \in Slots : ~Visited(i)' => ~Visited(i)
  BY <1>10, <1>12
<1>13. \/ Rests
       \/ PingVisits \/ PingMarks \/ PingSends \/ PingLosesClient \/ PingStarts \/ PingGoesOn
       \/ \E t \in Threads : Removes(t)
  BY StepsAre, <1>1, <1>2, <1>3
<1> HIDE DEF Places, Goto
<1>14. CASE Rests
  BY <1>12, <1>14
<1>15. CASE PingVisits \/ PingMarks \/ PingSends \/ PingLosesClient
  BY <1>5, <1>10, <1>15
<1>16. CASE PingGoesOn
  BY <1>7, <1>11, <1>16
<1>17. CASE \E t \in Threads : Removes(t)
  BY <1>4, <1>8, <1>10, <1>12, <1>17
<1> QED
  BY <1>6, <1>13, <1>14, <1>15, <1>16, <1>17

-------------------------------------------------------------------------------
(* Pings and their answers *)

\* A ping stays on its way until main takes its answer.
LEMMA InFlightStays ==
    ASSUME Places, TableType, SocketTypes, MessageType, ClientTypes, QueueTypes, Connections, Removals, [Next]_vars,
           NEW c \in Clients, Live(c), Live(c)', InFlight(c), ~InFlight(c)'
    PROVE  pong /\ msg.name = Name[c]
<1>1. Has(inbox[c], {"PING"}) <=> \E k \in DOMAIN inbox[c] : inbox[c][k] = "PING"
  BY DEF Has
<1>2. Has(outbox[c], {"PONG"}) <=> \E k \in DOMAIN outbox[c] : outbox[c][k] = "PONG"
  BY DEF Has
<1>3. ~Has(inbox'[c], {"PING"}) /\ ~Has(outbox'[c], {"PONG"})
      /\ ~(pc'["main"] = "dispatch" /\ msg' = [type |-> "PONG", name |-> Name[c]])
  BY DEF InFlight, Has, Live
<1>4. outbox[c] \in Seq(Orders)
  BY DEF QueueTypes
<1>5. CASE Has(inbox[c], {"PING"})
  <2>1. ClientGetsPing(c)
    BY <1>3, <1>5, NewsStay
  <2>2. outbox'[c] = Append(outbox[c], "PONG")
    BY <2>1 DEF ClientGetsPing, QueueTypes
  <2> QED
    BY <1>3, <1>4, <2>2, HasQueue
<1>6. CASE Has(outbox[c], {"PONG"})
  <2>1. CASE outbox'[c] = outbox[c]
    BY <1>3, <1>6, <2>1
  <2>2. CASE RecvMessage /\ IsOpen(fd) /\ fds[fd] = c /\ outbox[c] # <<>> /\ outbox'[c] = Tail(outbox[c])
    <3>1. Head(outbox[c]) = "PONG"
      BY <1>3, <1>4, <1>6, <2>2, HasQueue
    <3>2. msg' = [type |-> "PONG", name |-> Name[c]] /\ pc'["main"] = "dispatch"
      BY <2>2, <3>1 DEF RecvMessage, Goto, Places
    <3> QED
      BY <1>3, <3>2
  <2>3. CASE ClientStarts(c)
    BY <2>3 DEF ClientStarts, Live
  <2>4. CASE \E m \in Plays : outbox'[c] = Append(outbox[c], m)
    BY <1>3, <1>4, <1>6, <2>4, HasQueue
  <2> QED
    BY <2>1, <2>2, <2>3, <2>4, OutboxIs
<1>7. CASE pc["main"] = "dispatch" /\ msg = [type |-> "PONG", name |-> Name[c]]
  <2>1. msg.type = "PONG" /\ msg.name = Name[c] /\ msg.name # NoName
    BY <1>7, GameServerAssumption
  <2>2. ~(pc' = pc /\ msg' = msg)
    BY <1>3, <1>7
  <2>3. ~(pc'["main"] = pc["main"] /\ msg' = msg)
    BY <1>3, <1>7
  <2> HIDE <1>7
  <2>4. \/ MainCollects \/ PollAccepts \/ PollPicks \/ PollFails \/ RecvMessage \/ RecvEof \/ RecvError
        => pc["main"] # "dispatch"
    BY DEF MainCollects, PollAccepts, PollPicks, PollFails, RecvMessage, RecvEof, RecvError, Goto
  <2>5. add_client \/ move \/ game_end \/ ServerCrashes => msg.type # "PONG" \/ msg.name = NoName
    BY DEF add_client, move, game_end, ServerCrashes, Handles
  <2>6. PingStarts \/ PingVisits \/ PingMarks \/ PingSends \/ PingLosesClient \/ PingGoesOn
        => pc'["main"] = pc["main"] /\ msg' = msg
    BY DEF PingStarts, PingVisits, PingMarks, PingSends, PingLosesClient, PingGoesOn, Goto, mainVars, Places
  <2>7. ASSUME NEW t \in Threads, Removes(t)
        PROVE  (pc'["main"] = pc["main"] /\ msg' = msg) \/ pc["main"] # "dispatch"
    BY <2>7 DEF Removes, RemoveFinds, RemoveReadsOpponent, RemoveNotifies, ClosesOpponent, ClearsOpponent,
                ClosesSlot, ClearsSlot, RemoveCloses, RemoveClears, Goto, mainVars, Places, Threads
  <2>8. ASSUME NEW d \in Clients, Client(d) PROVE pc' = pc /\ msg' = msg
    BY <2>8, Zenon DEF Client, ClientStarts, ClientWaits, ClientPlays, ClientGivesUp, ClientGetsMove, ClientGetsPing,
       ClientEnds, ClientMoves, ClientFindsGameOver, ClientLosesServer, ClientQuits, ClientHangs, Receives,
       clientRest, mainVars
  <2>9. UNCHANGED vars => pc' = pc /\ msg' = msg
    BY DEF vars, server
  <2> QED
    BY <1>7, <2>1, <2>2, <2>3, <2>4, <2>5, <2>6, <2>7, <2>8, <2>9, StepsAre
<1> QED
  BY <1>1, <1>2, <1>5, <1>6, <1>7 DEF InFlight

\* The ping thread leaves the sending of a ping by sending it.
LEMMA SendsOn ==
    ASSUME Places, [Next]_vars, pc["ping"] = "send"
    PROVE  PingSends \/ (pc'["ping"] = "send" /\ round' = round)
<1> USE DEF Places, Goto, mainVars, pingVars
<1>1. ASSUME \/ MainCollects \/ PollAccepts \/ PollPicks \/ PollFails \/ RecvMessage \/ RecvEof \/ RecvError
             \/ add_client \/ pong \/ move \/ game_end \/ ServerCrashes
      PROVE  pc'["ping"] = pc["ping"] /\ round' = round
  BY <1>1 DEF MainCollects, PollAccepts, PollPicks, PollFails, RecvMessage, RecvEof, RecvError,
              add_client, pong, move, game_end, ServerCrashes, Handles
<1>2. PingStarts \/ PingVisits \/ PingMarks \/ PingLosesClient \/ PingGoesOn => pc["ping"] # "send"
  BY DEF PingStarts, PingVisits, PingMarks, PingLosesClient, PingGoesOn
<1>3. ASSUME NEW c \in Clients, Client(c) PROVE pc' = pc /\ round' = round
  BY <1>3, Zenon DEF Client, ClientStarts, ClientWaits, ClientPlays, ClientGivesUp, ClientGetsMove, ClientGetsPing,
     ClientEnds, ClientMoves, ClientFindsGameOver, ClientLosesServer, ClientQuits, ClientHangs, Receives, clientRest
<1>4. UNCHANGED vars => pc' = pc /\ round' = round
  BY DEF vars, server
<1>5. ASSUME NEW t \in Threads, Removes(t)
      PROVE  round' = round /\ (pc'["ping"] = pc["ping"] \/ pc["ping"] # "send")
  BY <1>5 DEF Removes, After, RemoveFinds, RemoveReadsOpponent, RemoveNotifies, ClosesOpponent, ClearsOpponent,
              ClosesSlot, ClearsSlot, RemoveCloses, RemoveClears, Threads
<1> HIDE DEF Places, Goto
<1> QED
  BY StepsAre, <1>1, <1>2, <1>3, <1>4, <1>5

\* A slot that is free while a client is added has no opponent.
LEMMA FreeIsAlone ==
    ASSUME Places, Pairs, Adds, NEW i \in Slots, slots[i].fd = -1
    PROVE  slots[i].opponent = -1
<1>1. ~Doomed(i)
  BY NoneRemoving DEF Doomed
<1> QED
  BY <1>1 DEF Pairs, PairedSlot

\* A player whose mark is cleared has still to answer, or has been lost.
LEMMA AskedKept ==
    ASSUME Places, TableType, SocketTypes, MessageType, ClientTypes, QueueTypes, Connections, Owned, Handling, Pairs,
           Removals, Linked, Asked, [Next]_vars
    PROVE  Asked'
<1> SUFFICES ASSUME NEW i \in Slots, slots'[i].fd # -1, slots'[i].opponent # -1, slots'[i].active = 0,
                    ~(pc'["ping"] = "send" /\ i = round'), NEW c, c = ClientOf(i)', Live(c)'
             PROVE  InFlight(c)'
  BY DEF Asked
<1>1. ~Adds \/ slots[i].fd # -1
  <2> SUFFICES ASSUME Adds, slots[i].fd = -1 PROVE FALSE
    OBVIOUS
  <2>1. slots[i].opponent = -1 /\ ~PingMarks
    BY FreeIsAlone DEF Adds, PingMarks, Places, Goto
  <2> QED
    BY <2>1, ActiveIs
<1>2. /\ slots[i].fd # -1 /\ slots[i].fd \in Fds /\ slots'[i].fd = slots[i].fd
      /\ c = ClientOf(i) /\ c \in Clients /\ Connected(c)
  BY <1>1, KeepsClient
<1>3. Live(c) /\ link[c] = "open"
  BY <1>2, LiveWas DEF Linked
<1>4. slots[i].active = 0 /\ slots[i].opponent # -1
  <2>1. ASSUME PingMarks, i = round PROVE FALSE
    <3>1. pc'["ping"] = "send" /\ round' = round
      BY <2>1 DEF PingMarks, Goto, Places, pingVars
    <3> QED
      BY <2>1, <3>1
  <2> QED
    BY <2>1, ActiveIs
<1>5. CASE pc["ping"] = "send" /\ i = round
  <2>1. PingSends
    <3>1. pc'["ping"] # "send" \/ round' # round
      BY <1>5
    <3>2. ~PingMarks
      BY <1>5 DEF PingMarks, Goto
    <3> QED
      BY <1>5, <3>1, <3>2, SendsOn
  <2>2. Reaches(slots[round].fd, c)
    BY <1>2, <1>3, <1>5 DEF Reaches, IsOpen, Owned, ClientOf
  <2>3. "PING" \in News /\ inbox \in [Clients -> Seq(News)] /\ inbox[c] \in Seq(News)
    BY <1>2 DEF News, QueueTypes
  <2>4. inbox'[c] = Append(inbox[c], "PING")
    BY ZenonT(60), <1>2, <2>1, <2>2, <2>3, Sent DEF PingSends
  <2>5. Has(Append(inbox[c], "PING"), {"PING"})
    BY <2>3, HasQueue
  <2>6. Has(inbox'[c], {"PING"})
    BY <2>4, <2>5
  <2> QED
    BY <2>6 DEF InFlight, Has, Live
<1>6. CASE InFlight(c)
  <2> SUFFICES ASSUME ~InFlight(c)' PROVE FALSE
    OBVIOUS
  <2>1. pong /\ msg.name = Name[c]
    BY <1>2, <1>3, <1>6, InFlightStays
  <2>2. Answers(i)
    BY <1>2, <2>1 DEF Answers, Owned, ClientOf
  <2> QED
    BY <2>1, <2>2, PongIs
<1> QED
  BY <1>2, <1>3, <1>4, <1>5, <1>6 DEF Asked

\* In a round, the player who has not answered the last one is lost.
LEMMA LostKept ==
    ASSUME CalmPing, Places, TableType, SocketTypes, MessageType, ClientTypes, QueueTypes, Connections, Owned,
           Handling, Pairs, Removals, Asked, Lost, [Next]_vars
    PROVE  Lost'
<1>0. \A c \in Clients : Connected(c) /\ ~Live(c) => cl'[c] \notin {"listening", "playing"}
  <2> SUFFICES ASSUME NEW c \in Clients, Connected(c), ~Live(c) PROVE ~(cl'[c] \in {"listening", "playing"})
    OBVIOUS
  <2>1. ~Live(c)'
    BY LiveWas
  <2> QED
    BY <2>1 DEF Live
<1>1. ASSUME mutex PROVE ~Adds
  BY <1>1 DEF Adds
<1>2. ASSUME NEW i \in Slots, mutex', slots'[i].fd # -1, slots'[i].opponent # -1, slots'[i].active = 0,
             ~Visited(i)', Live(ClientOf(i))'
      PROVE  FALSE
  <2>1. CASE PingStarts
    <3>1. slots' = slots /\ fds' = fds /\ cl' = cl /\ pc["ping"] = "sleep" /\ \A c \in Clients : ~InFlight(c)
      BY <2>1 DEF PingStarts, Goto, Calm, client
    <3>2. ClientOf(i) \in Clients
      BY <1>2, <3>1, KeepsClient
    <3>3. ~Live(ClientOf(i))
      BY <1>2, <3>1, <3>2 DEF Asked
    <3> QED
      BY <1>2, <3>1, <3>3 DEF Live, ClientOf
  <2>2. CASE mutex /\ ~Visited(i)
    <3>1. /\ slots[i].fd # -1 /\ ClientOf(i)' = ClientOf(i)
          /\ ClientOf(i) \in Clients /\ Connected(ClientOf(i))
      BY <1>1, <1>2, <2>2, KeepsClient
    <3>2. slots[i].active = 0 /\ slots[i].opponent # -1
      <4>1. PingMarks /\ i = round => Visited(i)
        BY DEF PingMarks, Goto, Visited
      <4> QED
        BY <1>2, <2>2, <4>1, ActiveIs
    <3>3. ~Live(ClientOf(i))
      BY <2>2, <3>1, <3>2 DEF Lost
    <3> QED
      BY <1>0, <1>2, <3>1, <3>3 DEF Live
  <2> QED
    BY <1>2, <2>1, <2>2, PingIs
<1>3. ASSUME pc'["ping"] = "call", slots'[round'].fd # -1, slots'[round'].opponent # -1, Live(ClientOf(round))'
      PROVE  FALSE
  <2>1. /\ round \in Slots /\ round' = round /\ mutex
        /\ slots[round].fd # -1 /\ slots[round].opponent # -1 => ~Live(ClientOf(round))
    <3>1. CASE pc["ping"] = "call" /\ round' = round
      BY <3>1 DEF Lost, Places
    <3>2. CASE PingVisits
      <4>1. /\ round' = round /\ mutex /\ round \in Slots /\ pc["ping"] = "visit"
            /\ slots[round].active = 0
        BY <1>3, <3>2 DEF PingVisits, Goto, Places, pingVars
      <4>2. ~Visited(round)
        BY <4>1, Numbers DEF Visited
      <4> QED
        BY <4>1, <4>2 DEF Lost
    <3> QED
      BY <1>3, <3>1, <3>2, PingIs
  <2>2. /\ slots[round].fd # -1 /\ slots[round].opponent # -1 /\ ClientOf(round)' = ClientOf(round)
        /\ ClientOf(round) \in Clients /\ Connected(ClientOf(round))
    <3> DEFINE k == round
    <3>1. k \in Slots /\ slots'[k].fd # -1 /\ slots'[k].opponent # -1 /\ ~Adds
      BY <1>1, <1>3, <2>1
    <3> HIDE DEF k
    <3>2. slots[k].fd # -1 /\ slots'[k].fd = slots[k].fd /\ fds[slots[k].fd] \in Clients
          /\ fds'[slots[k].fd] = fds[slots[k].fd] /\ Connected(fds[slots[k].fd])
      BY <3>1, KeepsClient DEF ClientOf
    <3>3. slots[k].opponent # -1
      BY <3>1, StaysIs
    <3> QED
      BY <2>1, <3>2, <3>3 DEF k, ClientOf
  <2> QED
    BY <1>0, <1>3, <2>1, <2>2 DEF Live
<1> QED
  BY <1>2, <1>3 DEF Lost

-------------------------------------------------------------------------------
(* Who is removed, and who is told *)

\* Another step than its own leaves a call of remove_client as it is.
LEMMA RemoveIs ==
    ASSUME Places, CallType, [Next]_vars, NEW t \in Threads, pc'[t] = "remove"
    PROVE  \/ pc[t] = "remove" /\ rem'[t].fd = rem[t].fd
           \/ t = "main" /\ RecvEof
           \/ t = "ping" /\ PingLosesClient
<1> USE DEF Places, Goto, CallType
<1>1. ASSUME \/ MainCollects \/ PollAccepts \/ PollPicks \/ PollFails \/ RecvMessage \/ RecvError
             \/ add_client \/ pong \/ move \/ game_end \/ ServerCrashes
             \/ PingStarts \/ PingVisits \/ PingMarks \/ PingSends \/ PingGoesOn
      PROVE  pc[t] = "remove" /\ rem'[t].fd = rem[t].fd
  <2>1. /\ rem' = rem
        /\ \/ pc' = [pc EXCEPT !["main"] = pc'["main"]] /\ pc'["main"] # "remove"
           \/ pc' = [pc EXCEPT !["ping"] = pc'["ping"]] /\ pc'["ping"] # "remove"
    BY <1>1 DEF MainCollects, PollAccepts, PollPicks, PollFails, RecvMessage, RecvError,
                add_client, pong, move, game_end, ServerCrashes, Handles,
                PingStarts, PingVisits, PingMarks, PingSends, PingGoesOn
  <2> QED
    BY <2>1 DEF Threads
<1>2. CASE RecvEof
  BY <1>2 DEF RecvEof, Threads
<1>3. CASE PingLosesClient
  BY <1>3 DEF PingLosesClient, Threads
<1>4. ASSUME NEW u \in Threads, Removes(u) PROVE pc[t] = "remove" /\ rem'[t].fd = rem[t].fd
  BY <1>4 DEF Removes, After, RemoveFinds, RemoveReadsOpponent, RemoveNotifies, ClosesOpponent, ClearsOpponent,
              ClosesSlot, ClearsSlot, RemoveCloses, RemoveClears, Threads
<1>5. ASSUME NEW c \in Clients, Client(c) PROVE pc' = pc /\ rem' = rem
  BY <1>5, Zenon DEF Client, ClientStarts, ClientWaits, ClientPlays, ClientGivesUp, ClientGetsMove, ClientGetsPing,
     ClientEnds, ClientMoves, ClientFindsGameOver, ClientLosesServer, ClientQuits, ClientHangs, Receives, clientRest
<1>6. UNCHANGED vars => pc' = pc /\ rem' = rem
  BY DEF vars, server
<1> HIDE DEF Places, Goto, CallType
<1> QED
  BY StepsAre, <1>1, <1>2, <1>3, <1>4, <1>5, <1>6

\* Nobody is added while a client is removed and who removes it is not main.
LEMMA NobodyAdded == ASSUME Places, NEW t \in Threads, pc[t] = "remove" \/ pc[t] \in RemovalSteps PROVE ~Adds
BY DEF Places, Threads, Adds, RemovalSteps

\* The slots of a call of remove_client are found once, and told of once.
LEMMA CallIs ==
    ASSUME Places, CallType, Removals, [Next]_vars, NEW t \in Threads
    PROVE  /\ pc'[t] \in RemovalSteps =>
                \/ RemoveFinds(t, After(t)) /\ Removes(t)
                \/ pc[t] \in RemovalSteps /\ rem'[t].i = rem[t].i /\ rem[t].i \in Slots
           /\ pc'[t] = "close_opponent" =>
                \/ RemoveNotifies(t) /\ Removes(t)
                \/ pc[t] = "close_opponent" /\ rem'[t].j = rem[t].j /\ rem[t].j \in Slots
<1>0. /\ pc[t] \in RemovalSteps => rem[t].i \in Slots
      /\ pc[t] = "close_opponent" => rem[t].j \in Slots
      /\ pc[t] = "clear_opponent" => rem[t].i # rem[t].j
  <2>1. pc[t] = "clear_opponent" => rem[t].i \in Nat /\ rem[t].j = Partner(rem[t].i)
    BY Numbers DEF Removals, RemovalSteps
  <2> QED
    BY <2>1, PartnerIs DEF Removals
<1>1. CASE pc'[t] = pc[t] /\ rem'[t].i = rem[t].i /\ rem'[t].j = rem[t].j
  BY <1>0, <1>1
<1>2. CASE pc[t] \notin RemovalSteps /\ pc'[t] \notin RemovalSteps
  BY <1>2 DEF RemovalSteps
<1>3. CASE RemoveFinds(t, After(t)) /\ Removes(t)
  BY <1>3 DEF RemoveFinds, Goto, Places, Threads, After
<1>4. CASE RemoveReadsOpponent(t) /\ Removes(t)
  <2>1. pc[t] = "opponent" /\ pc'[t] # "close_opponent" /\ rem'[t].i = rem[t].i
    BY <1>4 DEF RemoveReadsOpponent, Goto, Places, Threads, CallType, Call
  <2> QED
    BY <1>0, <2>1 DEF RemovalSteps
<1>5. CASE RemoveNotifies(t) /\ Removes(t)
  <2>1. pc[t] = "notify" /\ rem' = rem
    BY <1>5 DEF RemoveNotifies, Goto
  <2> QED
    BY <1>0, <1>5, <2>1 DEF RemovalSteps
<1>6. CASE ClosesOpponent(t) \/ ClosesSlot(t)
  <2>1. pc[t] \in {"close_opponent", "close"} /\ pc'[t] # "close_opponent" /\ rem' = rem
    BY <1>6 DEF ClosesOpponent, ClosesSlot, RemoveCloses, Goto, Places, Threads
  <2> QED
    BY <1>0, <2>1 DEF RemovalSteps
<1>7. CASE ClearsOpponent(t)
  <2>1. pc[t] = "clear_opponent" /\ pc'[t] = "close"
    BY <1>7 DEF ClearsOpponent, RemoveClears, Goto, Places, Threads
  <2>2. rem' = rem
    BY <1>0, <1>7, <2>1 DEF ClearsOpponent, RemoveClears
  <2> QED
    BY <1>0, <2>1, <2>2 DEF RemovalSteps
<1>8. CASE ClearsSlot(t)
  <2>1. pc'[t] \in {"poll", "next"}
    BY <1>8 DEF ClearsSlot, RemoveClears, Goto, Places, Threads, After
  <2> QED
    BY <2>1 DEF RemovalSteps
<1> QED
  BY CallsAre, <1>1, <1>2, <1>3, <1>4, <1>5, <1>6, <1>7, <1>8

\* Who is removed is lost, and its opponent has been told.
LEMMA LeavingKept ==
    ASSUME Places, TableType, SocketTypes, CallType, ClientTypes, QueueTypes, Connections, Owned, Pairs, Removals,
           Linked, Lost, Leaving, [Next]_vars
    PROVE  Leaving'
<1>0. \A c \in Clients : Connected(c) /\ ~Live(c) => cl'[c] \notin {"listening", "playing"}
  <2> SUFFICES ASSUME NEW c \in Clients, Connected(c), ~Live(c) PROVE ~(cl'[c] \in {"listening", "playing"})
    OBVIOUS
  <2>1. ~Live(c)'
    BY LiveWas
  <2> QED
    BY <2>1 DEF Live
<1>1. ASSUME NEW t \in Threads, pc'[t] = "remove", NEW i \in Slots, slots'[i].fd # -1, slots'[i].fd = rem'[t].fd,
             Live(ClientOf(i))', slots'[i].opponent # -1
      PROVE  FALSE
  <2>1. CASE pc[t] = "remove" /\ rem'[t].fd = rem[t].fd
    <3>1. /\ slots[i].fd # -1 /\ slots'[i].fd = slots[i].fd
          /\ ClientOf(i)' = ClientOf(i) /\ ClientOf(i) \in Clients /\ Connected(ClientOf(i))
      BY <1>1, <2>1, NobodyAdded, KeepsClient
    <3>2. slots[i].opponent # -1
      BY <1>1, <2>1, NobodyAdded, StaysIs
    <3> QED
      BY <1>0, <1>1, <2>1, <3>1, <3>2 DEF Leaving, Live
  <2>2. CASE t = "main" /\ RecvEof
    <3>1. /\ slots' = slots /\ fds' = fds /\ cl' = cl /\ rem'[t].fd = fd /\ IsOpen(fd)
          /\ link[fds[fd]] = "eof"
      BY <2>2 DEF RecvEof, client, CallType, Threads
    <3>2. fds[fd] \in Clients
      BY <3>1 DEF IsOpen, SocketTypes
    <3> QED
      BY <1>1, <3>1, <3>2 DEF Linked, Live, ClientOf
  <2>3. CASE t = "ping" /\ PingLosesClient
    <3>1. /\ slots' = slots /\ fds' = fds /\ cl' = cl /\ rem'[t].fd = slots[round].fd /\ pc["ping"] = "call"
      BY <2>3 DEF PingLosesClient, client, CallType, Threads, Goto
    <3>2. round \in Slots /\ i = round
      BY <1>1, <3>1 DEF Owned, Places
    <3> QED
      BY <1>1, <3>1, <3>2 DEF Lost, Live, ClientOf
  <2> QED
    BY <1>1, <2>1, <2>2, <2>3, RemoveIs
<1>2. ASSUME NEW t \in Threads, pc'[t] \in RemovalSteps, NEW k, k = rem'[t].i, slots'[k].fd # -1,
             NEW c, c = fds'[slots'[k].fd], cl'[c] \in {"listening", "playing"}, slots'[k].opponent # -1
      PROVE  FALSE
  <2>1. CASE pc[t] \in RemovalSteps /\ k = rem[t].i /\ k \in Slots
    <3>1. slots[k].fd # -1 /\ c = ClientOf(k) /\ c \in Clients /\ Connected(c)
      BY <1>2, <2>1, NobodyAdded, KeepsClient DEF ClientOf
    <3>2. slots[k].opponent # -1
      BY <1>2, <2>1, NobodyAdded, StaysIs
    <3> QED
      BY <1>0, <1>2, <2>1, <3>1, <3>2 DEF Leaving
  <2>2. CASE RemoveFinds(t, After(t)) /\ Removes(t)
    <3> DEFINE found == {m \in Slots : slots[m].fd = rem[t].fd}
    <3>1. pc[t] = "remove" /\ slots' = slots /\ fds' = fds /\ cl' = cl
      BY <2>2 DEF RemoveFinds, Goto, Removes, client
    <3>2. found # {}
      <4>1. found = {} => pc'[t] \in {"poll", "next"}
        BY <2>2 DEF RemoveFinds, Goto, Places, Threads, After
      <4> QED
        BY <1>2, <4>1 DEF RemovalSteps
    <3>3. k = Least(found)
      BY <1>2, <2>2, <3>2 DEF RemoveFinds, CallType, Call
    <3>4. k \in Slots /\ slots[k].fd = rem[t].fd
      <4>1. found \in SUBSET Nat
        BY Numbers
      <4>2. k \in found
        BY <3>2, <3>3, <4>1, LeastIs
      <4> QED
        BY <4>2
    <3> QED
      BY <1>2, <3>1, <3>4 DEF Leaving, Live, ClientOf
  <2> QED
    BY <1>2, <2>1, <2>2, CallIs
<1>3. ASSUME NEW t \in Threads, pc'[t] = "close_opponent", NEW k, k = rem'[t].j, slots'[k].fd # -1,
             NEW c, c = fds'[slots'[k].fd], cl'[c] \in {"listening", "playing"}
      PROVE  Has(inbox'[c], Farewell)
  <2>1. CASE pc[t] = "close_opponent" /\ k = rem[t].j /\ k \in Slots
    <3>1. pc[t] \in RemovalSteps
      BY <2>1 DEF RemovalSteps
    <3>2. slots[k].fd # -1 /\ c = ClientOf(k) /\ c \in Clients /\ Connected(c)
      BY <1>3, <2>1, <3>1, NobodyAdded, KeepsClient DEF ClientOf
    <3>3. Live(c)
      BY <1>0, <1>3, <3>2
    <3>4. Has(inbox[c], Farewell)
      BY <2>1, <3>2, <3>3 DEF Leaving
    <3>5. Live(c)'
      BY <1>3 DEF Live
    <3> QED
      BY <3>2, <3>3, <3>4, <3>5, NewsStay
  <2>2. CASE RemoveNotifies(t) /\ Removes(t)
    <3>1. /\ slots' = slots /\ fds' = fds /\ cl' = cl /\ k = rem[t].j /\ k \in Slots
          /\ inbox' = send_message(inbox, slots[k].fd, "OPPONENT_DISCONNECTED")
      BY <1>3, <2>2 DEF RemoveNotifies, Goto, Removes, client, Removals
    <3>2. c \in Clients /\ IsOpen(slots[k].fd) /\ fds[slots[k].fd] = c
      BY <1>3, <3>1, Fields DEF Owned, SocketTypes, TableType, IsOpen
    <3>3. Reaches(slots[k].fd, c)
      BY <1>3, <3>1, <3>2 DEF Reaches, Linked, Live
    <3>4. "OPPONENT_DISCONNECTED" \in News /\ "OPPONENT_DISCONNECTED" \in Farewell
          /\ inbox \in [Clients -> Seq(News)]
      BY DEF News, Farewell, QueueTypes
    <3> QED
      BY <3>1, <3>2, <3>3, <3>4, SentHas
  <2> QED
    BY <1>3, <2>1, <2>2, CallIs
<1> QED
  BY <1>1, <1>2, <1>3 DEF Leaving, Live, ClientOf

\* Whoever has lost its connection finds the reason, or has not started.
LEMMA InformedKept ==
    ASSUME Places, TableType, SocketTypes, CallType, ClientTypes, QueueTypes, Connections, Owned, Removals,
           Waiting, Leaving, Informed, [Next]_vars
    PROVE  Informed'
<1> SUFFICES ASSUME NEW c \in Clients, Live(c)', c \notin backlog', ~Connected(c)'
             PROVE  Has(inbox'[c], Farewell) \/ NotStarted(c)'
  BY DEF Informed
<1>1. Live(c)
  <2>1. ClientStarts(c) => c \in backlog'
    BY DEF ClientStarts
  <2> QED
    BY <2>1, LiveSince
<1>2. CASE Connected(c)
  <2>1. PICK f \in Fds : fds[f] = c
    BY <1>2 DEF Connected
  <2>2. fds'[f] # c /\ f # -1 /\ c # NoClient
    BY Numbers, GameServerAssumption DEF Connected
  <2>3. ASSUME NEW t \in Threads, NEW k \in Slots, Closed(k)
        PROVE  slots[k].fd = f
    <3>1. slots[k].fd \in {-1} \cup Fds /\ fds' = close(slots[k].fd)
      BY <2>3, Fields DEF Closed, TableType
    <3> QED
      BY <2>1, <2>2, <3>1, CloseIs
  <2>4. ASSUME NEW t \in Threads, ClosesOpponent(t), rem[t].j \in Slots, Closed(rem[t].j)
        PROVE  Has(inbox'[c], Farewell)
    <3>1. pc[t] = "close_opponent"
      BY <2>4 DEF ClosesOpponent, RemoveCloses, Goto
    <3>2. slots[rem[t].j].fd = f
      BY <2>3, <2>4
    <3>3. Has(inbox[c], Farewell)
      BY <1>1, <2>1, <2>2, <3>1, <3>2 DEF Leaving, ClientOf
    <3> QED
      BY <1>1, <3>3, NewsStay
  <2>8. ASSUME NEW t \in Threads, ClosesSlot(t) PROVE ~Told(c)
    <3>1. pc[t] = "close" /\ pc' = [pc EXCEPT ![t] = "clear"]
      BY <2>8 DEF ClosesSlot, RemoveCloses, Goto
    <3>2. /\ PingSends => pc["ping"] = "send" /\ pc'["ping"] = "next"
          /\ move \/ Adds => pc["main"] = "dispatch" /\ pc'["main"] = "poll"
      BY DEF PingSends, move, Handles, Adds, Goto, Places
    <3> QED
      BY <3>1, <3>2 DEF Told, Threads, Places
  <2>5. ASSUME NEW t \in Threads, ClosesSlot(t), rem[t].i \in Slots, Closed(rem[t].i)
        PROVE  NotStarted(c)'
    <3>1. pc[t] \in RemovalSteps
      BY <2>5 DEF ClosesSlot, RemoveCloses, Goto, RemovalSteps
    <3>2. slots[rem[t].i].fd = f
      BY <2>3, <2>5
    <3>3. slots[rem[t].i].opponent = -1
      BY <1>1, <2>1, <2>2, <3>1, <3>2 DEF Leaving, ClientOf
    <3>4. NotStarted(c)
      BY <2>1, <2>2, <2>5, <3>2, <3>3 DEF Waiting
    <3> QED
      BY <2>5, <2>8, <3>4, NotStartedKept
  <2>6. ASSUME NEW d \in backlog, NEW g \in Fds, fds[g] = NoClient, fds' = [fds EXCEPT ![g] = d]
        PROVE  FALSE
    BY <2>1, <2>2, <2>6 DEF SocketTypes
  <2>7. ASSUME NEW k \in Slots, Cleared(k) PROVE fds' = fds
    BY <2>7 DEF Cleared
  <2> QED
    BY <2>1, <2>2, <2>4, <2>5, <2>6, <2>7, TableIs
<1>3. CASE ~Connected(c) /\ c \notin backlog
  <2>1. ~Told(c)
    BY <1>3 DEF Told, Connected, IsOpen
  <2> QED
    BY <1>1, <1>3, <2>1, NewsStay, NotStartedKept DEF Informed
<1>4. CASE c \in backlog
  <2>1. PollAccepts
    BY <1>4, StepsAre, Zenon DEF MainCollects, PollPicks, PollFails, RecvMessage, RecvEof, RecvError, add_client, pong,
     move, game_end, ServerCrashes, PingStarts, PingVisits, PingMarks, PingSends, PingLosesClient, PingGoesOn,
     Removes, vars, server, Handles, Client, ClientStarts, ClientWaits, ClientPlays, ClientGivesUp, ClientGetsMove,
     ClientGetsPing, ClientEnds, ClientMoves, ClientFindsGameOver, ClientLosesServer, ClientQuits, ClientHangs,
     Receives, clientRest
  <2> DEFINE f == Least({g \in Fds : fds[g] = NoClient})
  <2>2. fds' = [fds EXCEPT ![f] = c]
    BY <1>4, <2>1 DEF PollAccepts
  <2>3. f \in Fds
    BY <1>4, FreeDescriptor
  <2> HIDE DEF f
  <2>4. fds'[f] = c
    BY <2>2, <2>3 DEF SocketTypes
  <2> QED
    BY <2>3, <2>4 DEF Connected
<1> QED
  BY <1>2, <1>3, <1>4

-------------------------------------------------------------------------------
(* The theorems *)

\* At the start nobody is connected, and nobody is removed.
LEMMA InitCalmInv == Init => CalmInv
<1> SUFFICES ASSUME Init PROVE CalmInv
  OBVIOUS
<1>1. pc = [main |-> "poll", ping |-> "sleep"]
  BY DEF Init
<1>2. pc["main"] = "poll" /\ pc["ping"] = "sleep" /\ ~mutex
  BY <1>1 DEF Init
<1>3. /\ \A i \in Slots : slots[i].fd = -1 /\ slots[i].opponent = -1 /\ slots[i].active = -1
      /\ \A c \in Clients : ~Live(c)
  BY DEF Init, FreeSlot, Live
<1>4. Linked /\ Informed /\ Asked
  BY <1>3 DEF Linked, Informed, Asked
<1>5. Lost
  BY <1>2, <1>3 DEF Lost
<1>6. Leaving
  BY <1>2 DEF Leaving, RemovalSteps, Threads
<1> QED
  BY <1>4, <1>5, <1>6 DEF CalmInv

\* With calm pings every step keeps the additional invariant.
LEMMA CalmInvKept == CalmPing /\ IInv /\ CalmInv /\ [Next]_vars => CalmInv'
<1> SUFFICES ASSUME CalmPing, IInv, CalmInv, [Next]_vars PROVE CalmInv'
  OBVIOUS
<1>1. /\ Places /\ TableType /\ CallType /\ MessageType /\ SocketTypes /\ ClientTypes /\ QueueTypes
      /\ Connections /\ Owned /\ Handling /\ Pairs /\ Removals
      /\ Waiting /\ Linked /\ Asked /\ Lost /\ Leaving /\ Informed
  BY DEF IInv, Types, CalmInv
<1>2. Linked'
  BY <1>1, LinkedKept
<1>3. Asked' /\ Lost'
  BY <1>1, AskedKept, LostKept
<1>4. Leaving' /\ Informed'
  BY <1>1, LeavingKept, InformedKept
<1> QED
  BY <1>2, <1>3, <1>4 DEF CalmInv

\* With calm pings the invariant holds of every behaviour.
THEOREM CalmInvariance == CalmPing => (Spec => []CalmInv)
<1> SUFFICES ASSUME CalmPing PROVE Spec => []CalmInv
  OBVIOUS
<1>1. Init => IInv /\ CalmInv
  BY InitIInv, InitCalmInv
<1>2. (IInv /\ CalmInv) /\ [Next]_vars => (IInv /\ CalmInv)'
  BY IInvKept, CalmInvKept
<1> QED
  BY <1>1, <1>2, PTL DEF Spec

\* With calm pings the ping thread removes no player that still answers: a
\* client that does not wait for its opponent is lost when it is given up.
THEOREM CalmLiveKept == CalmPing => (Spec => []LiveIsKept)
<1> SUFFICES ASSUME CalmPing PROVE Spec => []LiveIsKept
  OBVIOUS
<1>1. CalmInv => LiveIsKept
  <2> SUFFICES ASSUME CalmInv, pc.ping = "call", IsOpen(slots[round].fd), Live(fds[slots[round].fd])
               PROVE  slots[round].opponent = -1
    BY DEF LiveIsKept
  <2> QED
    BY Numbers DEF CalmInv, Lost, IsOpen, ClientOf
<1> QED
  BY <1>1, CalmInvariance, PTL

\* With calm pings a player whose connection the server closes has been told
\* that its opponent is gone.
THEOREM CalmPlayerTold == CalmPing => (Spec => []PlayerIsTold)
<1> SUFFICES ASSUME CalmPing PROVE Spec => []PlayerIsTold
  OBVIOUS
<1>1. CalmInv => PlayerIsTold
  <2> SUFFICES ASSUME CalmInv, NEW c \in Clients, cl[c] = "playing", pc.main # "crashed", ServerLeft(c)
               PROVE  \E k \in DOMAIN inbox[c] : inbox[c][k] \in {"OPPONENT_DISCONNECTED", "END_GAME"}
    BY DEF PlayerIsTold
  <2>1. Live(c) /\ c \notin backlog /\ ~Connected(c)
    BY DEF Live, ServerLeft, Connected
  <2>2. Has(inbox[c], Farewell)
    BY <2>1 DEF CalmInv, Informed, NotStarted
  <2> QED
    BY <2>2 DEF Has, Farewell
<1> QED
  BY <1>1, CalmInvariance, PTL

-------------------------------------------------------------------------------
(* The right to move *)

MoveNews == {"MOVE", "START_GAME_O"}
MoveOrders == {"MOVE", "END_GAME"}
Lone(q, types) == \A k, m \in DOMAIN q : q[k] \in types /\ q[m] \in types => k = m

\* Where the right to move is when no move thread of the client runs: in a
\* message from the server, in one to it, or with main.
Invited(c) == Has(inbox[c], MoveNews)
Moved(c) == Has(outbox[c], MoveOrders)
Acting(c) == pc.main = "dispatch" /\ msg.type \in MoveOrders /\ msg.name # NoName
             /\ IsOpen(fd) /\ fds[fd] = c
Right(c) == c \in turn \/ Invited(c) \/ Moved(c) \/ Acting(c)

\* A client has the right to move once at most.
Single(c) ==
    /\ Lone(inbox[c], MoveNews) /\ Lone(outbox[c], MoveOrders)
    /\ c \in turn => cl[c] = "playing" /\ ~Invited(c) /\ ~Moved(c) /\ ~Acting(c)
    /\ Invited(c) => ~Moved(c) /\ ~Acting(c)
    /\ Moved(c) => ~Acting(c)

\* Of two opponents one at most has it.
OneRight ==
    /\ \A c \in Clients : Single(c)
    /\ \A i \in Slots : Partner(i) \in Slots /\ PairedSlot(i) =>
         ~(Right(ClientOf(i)) /\ Right(ClientOf(Partner(i))))

\* A queue that has a message of some types once at most.
LEMMA LoneIs ==
    ASSUME NEW S, NEW q \in Seq(S), NEW T, Lone(q, T)
    PROVE  /\ \A m : m \notin T \/ ~Has(q, T) => Lone(Append(q, m), T)
           /\ q # <<>> => Lone(Tail(q), T) /\ (Head(q) \in T => ~Has(Tail(q), T))
           /\ Lone(<<>>, T) /\ ~Has(<<>>, T)
<1>1. ASSUME NEW m, m \notin T \/ ~Has(q, T) PROVE Lone(Append(q, m), T)
  <2> DEFINE r == Append(q, m)
  <2>1. /\ DOMAIN r = 1 .. Len(q) + 1 /\ DOMAIN q = 1 .. Len(q) /\ Len(q) \in Nat
        /\ r[Len(q) + 1] = m
        /\ \A k \in 1 .. Len(q) : r[k] = q[k]
    OBVIOUS
  <2>2. \A k : k \in 1 .. Len(q) + 1 <=> k \in 1 .. Len(q) \/ k = Len(q) + 1
    BY <2>1
  <2>3. m \in T => \A k \in DOMAIN q : q[k] \notin T
    BY <1>1 DEF Has
  <2> HIDE DEF r
  <2>4. \A k \in DOMAIN r : r[k] \in T => (k \in DOMAIN q /\ q[k] \in T) \/ (k = Len(q) + 1 /\ m \in T)
    BY <2>1, <2>2, Zenon
  <2>5. Lone(r, T)
    BY <2>3, <2>4, Zenon DEF Lone
  <2> QED
    BY <2>5 DEF r
<1>2. ASSUME q # <<>> PROVE Lone(Tail(q), T) /\ (Head(q) \in T => ~Has(Tail(q), T))
  <2>1. /\ DOMAIN q = 1 .. Len(q) /\ Len(q) \in Nat \ {0} /\ Head(q) = q[1]
        /\ DOMAIN Tail(q) = 1 .. Len(q) - 1
        /\ \A k \in 1 .. Len(q) - 1 : Tail(q)[k] = q[k + 1]
    BY <1>2
  <2>2. \A k \in DOMAIN Tail(q) : k \in Nat /\ k + 1 \in DOMAIN q /\ Tail(q)[k] = q[k + 1] /\ k + 1 # 1
    BY <2>1
  <2>3. 1 \in DOMAIN q
    BY <2>1
  <2>4. \A k, m \in DOMAIN Tail(q) : k + 1 = m + 1 => k = m
    BY <2>1
  <2>5. Lone(Tail(q), T)
    BY <2>2, <2>4 DEF Lone
  <2>6. Head(q) \in T => ~Has(Tail(q), T)
    BY <2>1, <2>2, <2>3 DEF Has, Lone
  <2> QED
    BY <2>5, <2>6
<1>3. Lone(<<>>, T) /\ ~Has(<<>>, T)
  <2>1. DOMAIN <<>> = {}
    OBVIOUS
  <2> QED
    BY <2>1, Zenon DEF Has, Lone
<1> QED
  BY <1>1, <1>2, <1>3

\* What is in a queue after its head is taken, or a message of no such type
\* is sent.
LEMMA LoneStays ==
    ASSUME NEW S, NEW q \in Seq(S), NEW T, Lone(q, T), NEW r,
           r = q \/ r = <<>> \/ (q # <<>> /\ r = Tail(q)) \/ \E m : m \notin T /\ r = Append(q, m)
    PROVE  Lone(r, T) /\ (Has(r, T) => Has(q, T))
<1>1. CASE r = q \/ r = <<>> \/ (q # <<>> /\ r = Tail(q))
  BY <1>1, LoneIs, Loses
<1>2. CASE \E m : m \notin T /\ r = Append(q, m)
  <2>1. PICK m : m \notin T /\ r = Append(q, m)
    BY <1>2
  <2>2. Lone(Append(q, m), T)
    BY <2>1, LoneIs
  <2>3. Has(Append(q, m), T) <=> Has(q, T) \/ m \in T
    BY HasQueue
  <2> QED
    BY <2>1, <2>2, <2>3
<1> QED
  BY <1>1, <1>2

\* What main has in hand is a move or the end of a game only when it took it
\* from the queue.
LEMMA ActingIs ==
    ASSUME Places, TableType, SocketTypes, MessageType, Connections, Removals, [Next]_vars,
           NEW c \in Clients, Acting(c)'
    PROVE  \/ Acting(c) /\ pc'["main"] = "dispatch"
           \/ RecvMessage /\ IsOpen(fd) /\ fds[fd] = c /\ Head(outbox[c]) \in MoveOrders
<1>0. pc'["main"] = "dispatch" /\ msg'.type \in MoveOrders /\ msg'.name # NoName /\ fd' \in Fds /\ fds'[fd'] = c /\ c # NoClient
  BY GameServerAssumption DEF Acting, IsOpen
<1>1. CASE pc'["main"] = pc["main"] /\ UNCHANGED <<polled, fd, msg>> /\ ~PollAccepts /\ ~RecvMessage /\ ~Adds
  <2>1. fd \in Fds /\ fds'[fd] = c /\ fds'[fd] # NoClient
    BY <1>0, <1>1
  <2>2. fds[fd] = c
    BY <1>1, <2>1, StillOpen
  <2> QED
    BY <1>0, <1>1, <2>1, <2>2 DEF Acting, IsOpen
<1>2. CASE RecvMessage
  <2>1. /\ IsOpen(fd) /\ fds' = fds /\ fd' = fd
        /\ msg' = [type |-> Head(outbox[fds[fd]]), name |-> Name[fds[fd]]]
    BY <1>2 DEF RecvMessage
  <2>2. fds[fd] = c /\ msg'.type = Head(outbox[fds[fd]])
    BY <1>0, <2>1
  <2> QED
    BY <1>0, <1>2, <2>1, <2>2
<1>3. CASE RecvError
  <2>1. msg' = [msg EXCEPT !.name = NoName]
    BY <1>3 DEF RecvError
  <2>2. msg'.name = NoName
    BY <2>1 DEF MessageType, Message
  <2> QED
    BY <1>0, <2>2
<1>4. ASSUME MainCollects \/ PollAccepts \/ PollPicks \/ PollFails PROVE pc'["main"] \in {"polling", "recv"}
  BY <1>4 DEF MainCollects, PollAccepts, PollPicks, PollFails, Goto, Places
<1>5. "dispatch" \notin {"poll", "remove", "crashed"} \cup RemovalSteps
  BY DEF RemovalSteps
<1> QED
  BY MainIs, <1>0, <1>1, <1>2, <1>3, <1>4, <1>5

\* A right that is not handed on stays where it is, or is lost.
LEMMA RightFades ==
    ASSUME QueueTypes, NEW c \in Clients, Single(c),
           Lone(inbox'[c], MoveNews), Invited(c)' => Invited(c),
           \/ outbox'[c] = outbox[c]
           \/ outbox[c] # <<>> /\ outbox'[c] = Tail(outbox[c])
           \/ \E m : m \notin MoveOrders /\ outbox'[c] = Append(outbox[c], m),
           c \in turn' => c \in turn /\ cl'[c] = "playing",
           Acting(c)' => Acting(c)
    PROVE  Single(c)' /\ (Right(c)' => Right(c))
<1>1. outbox[c] \in Seq(Orders) /\ Lone(outbox[c], MoveOrders)
  BY DEF QueueTypes, Single
<1>2. Lone(outbox'[c], MoveOrders) /\ (Has(outbox'[c], MoveOrders) => Has(outbox[c], MoveOrders))
  BY <1>1, LoneStays
<1>3. Moved(c)' => Moved(c)
  BY <1>2 DEF Moved
<1> QED
  BY <1>2, <1>3, Zenon DEF Single, Right

\* A client that reads an inbox gets no other invitation by that.
LEMMA ReadsOn ==
    ASSUME QueueTypes, NEW c \in Clients, Single(c),
           \/ inbox'[c] = inbox[c] \/ inbox'[c] = <<>>
           \/ inbox[c] # <<>> /\ inbox'[c] = Tail(inbox[c])
    PROVE  Lone(inbox'[c], MoveNews) /\ (Invited(c)' => Invited(c))
<1>1. inbox[c] \in Seq(News) /\ Lone(inbox[c], MoveNews)
  BY DEF QueueTypes, Single
<1>2. Lone(inbox'[c], MoveNews) /\ (Has(inbox'[c], MoveNews) => Has(inbox[c], MoveNews))
  BY <1>1, LoneStays
<1> QED
  BY <1>2 DEF Invited

\* A client that takes an invitation to move has its move thread run.
LEMMA RightTaken ==
    ASSUME QueueTypes, NEW c \in Clients, Single(c),
           inbox[c] # <<>>, Head(inbox[c]) \in MoveNews, inbox'[c] = Tail(inbox[c]),
           outbox'[c] = outbox[c], cl'[c] = "playing", Acting(c)' => Acting(c)
    PROVE  Single(c)' /\ Right(c)
<1>1. inbox[c] \in Seq(News) /\ Lone(inbox[c], MoveNews)
  BY DEF QueueTypes, Single
<1>2. Lone(inbox'[c], MoveNews) /\ ~Has(inbox'[c], MoveNews)
  BY <1>1, LoneIs
<1>3. Has(inbox[c], MoveNews)
  BY <1>1, FirstIs
<1>4. Invited(c) /\ ~Invited(c)'
  BY <1>2, <1>3 DEF Invited
<1>5. Moved(c)' <=> Moved(c)
  BY DEF Moved
<1> QED
  BY <1>2, <1>4, <1>5 DEF Single, Right

\* A client whose move thread has moved has an order on its way instead.
LEMMA RightPassed ==
    ASSUME QueueTypes, NEW c \in Clients, Single(c), c \in turn, c \notin turn',
           NEW m \in MoveOrders, outbox'[c] = Append(outbox[c], m),
           inbox'[c] = inbox[c], Acting(c)' => Acting(c)
    PROVE  Single(c)' /\ Right(c)
<1>1. outbox[c] \in Seq(Orders) /\ Lone(outbox[c], MoveOrders) /\ ~Has(outbox[c], MoveOrders)
  BY DEF QueueTypes, Single, Moved
<1>2. Lone(outbox'[c], MoveOrders)
  BY <1>1, LoneIs
<1>3. ~Invited(c)' /\ ~Acting(c)'
  BY DEF Single, Invited
<1>4. Lone(inbox'[c], MoveNews)
  BY DEF Single
<1> QED
  BY <1>2, <1>3, <1>4 DEF Single, Right

\* What a client does hands its own right on, or drops it, and leaves those
\* of others.
LEMMA ClientRight ==
    ASSUME SocketTypes, ClientTypes, QueueTypes, NEW c \in Clients, Single(c), NEW d \in Clients, Client(d)
    PROVE  Single(c)' /\ (Right(c)' => Right(c))
<1> USE DEF ClientTypes, QueueTypes, client, Receives, Taken, Exit
<1> DEFINE Good == Single(c)' /\ (Right(c)' => Right(c))
<1>0. Acting(c)' => Acting(c)
  <2>1. UNCHANGED <<fds, pc, fd, msg>>
    BY Zenon DEF Client, ClientStarts, ClientWaits, ClientPlays, ClientGivesUp, ClientGetsMove, ClientGetsPing, ClientEnds,
       ClientMoves, ClientFindsGameOver, ClientLosesServer, ClientQuits, ClientHangs, Receives, clientRest, mainVars
  <2> QED
    BY <2>1 DEF Acting, IsOpen
<1>1. CASE ClientStarts(d)
  <2>1. inbox'[c] = inbox[c] /\ (c \in turn' => c \in turn)
    BY <1>1 DEF ClientStarts
  <2>2. CASE d = c
    <3>1. outbox'[c] = <<"ADD_CLIENT">> /\ cl[c] = "off"
      BY <1>1, <2>2 DEF ClientStarts
    <3>2. c \notin turn /\ Lone(inbox[c], MoveNews)
      BY <3>1 DEF Single
    <3>3. Lone(outbox'[c], MoveOrders) /\ ~Moved(c)'
      <4>1. DOMAIN <<"ADD_CLIENT">> = {1} /\ <<"ADD_CLIENT">>[1] = "ADD_CLIENT"
        OBVIOUS
      <4>2. "ADD_CLIENT" \notin MoveOrders
        BY DEF MoveOrders
      <4> QED
        BY <3>1, <4>1, <4>2 DEF Lone, Moved, Has
    <3>4. Invited(c)' <=> Invited(c)
      BY <2>1 DEF Invited
    <3> QED
      BY <1>0, <2>1, <3>2, <3>3, <3>4 DEF Single, Right
  <2>3. CASE d # c
    <3>1. outbox'[c] = outbox[c] /\ cl'[c] = cl[c]
      BY <1>1, <2>3 DEF ClientStarts
    <3>2. c \in turn => cl[c] = "playing"
      BY DEF Single
    <3> QED
      BY <1>0, <2>1, <3>1, <3>2, RightFades, ReadsOn
  <2> QED
    BY <2>2, <2>3
<1>a. c \in turn => cl[c] = "playing"
  BY DEF Single
<1>2. CASE ClientWaits(d) \/ ClientGivesUp(d) \/ ClientEnds(d) \/ ClientLosesServer(d) \/ ClientQuits(d) \/ ClientHangs(d)
  <2>1. \/ inbox'[c] = inbox[c] \/ inbox'[c] = <<>>
        \/ inbox[c] # <<>> /\ inbox'[c] = Tail(inbox[c])
    BY <1>2 DEF ClientWaits, ClientGivesUp, ClientEnds, ClientLosesServer, ClientQuits, ClientHangs
  <2>2. outbox'[c] = outbox[c]
    BY <1>2 DEF ClientWaits, ClientGivesUp, ClientEnds, ClientLosesServer, ClientQuits, ClientHangs
  <2>3. c \in turn' => c \in turn /\ cl'[c] = "playing"
    BY <1>2, <1>a DEF ClientWaits, ClientGivesUp, ClientEnds, ClientLosesServer, ClientQuits, ClientHangs
  <2> QED
    BY <1>0, <2>1, <2>2, <2>3, RightFades, ReadsOn
<1>3. ASSUME d # c, ~ClientStarts(d) PROVE Good
  <2>1. inbox'[c] = inbox[c]
    BY <1>3 DEF Client, ClientWaits, ClientPlays, ClientGivesUp, ClientGetsMove, ClientGetsPing, ClientEnds,
       ClientMoves, ClientFindsGameOver, ClientLosesServer, ClientQuits, ClientHangs
  <2>2. outbox'[c] = outbox[c]
    BY <1>3 DEF Client, ClientWaits, ClientPlays, ClientGivesUp, ClientGetsMove, ClientGetsPing, ClientEnds,
       ClientMoves, ClientFindsGameOver, ClientLosesServer, ClientQuits, ClientHangs
  <2>3. cl'[c] = cl[c] /\ (c \in turn' => c \in turn)
    BY <1>3 DEF Client, ClientWaits, ClientPlays, ClientGivesUp, ClientGetsMove, ClientGetsPing, ClientEnds,
       ClientMoves, ClientFindsGameOver, ClientLosesServer, ClientQuits, ClientHangs
  <2> QED
    BY <1>0, <1>a, <2>1, <2>2, <2>3, RightFades, ReadsOn
<1>4. CASE d = c /\ (ClientPlays(d) \/ ClientGetsMove(d))
  <2>1. inbox[c] # <<>> /\ inbox'[c] = Tail(inbox[c]) /\ outbox'[c] = outbox[c] /\ cl'[c] = "playing"
    BY <1>4 DEF ClientPlays, ClientGetsMove
  <2>2. CASE Head(inbox[c]) \in MoveNews
    BY <1>0, <2>1, <2>2, RightTaken
  <2>3. CASE Head(inbox[c]) \notin MoveNews
    <3>1. turn' = turn
      BY <1>4, <2>3 DEF ClientPlays, ClientGetsMove, MoveNews
    <3> QED
      BY <1>0, <2>1, <3>1, RightFades, ReadsOn
  <2> QED
    BY <2>2, <2>3
<1>5. CASE d = c /\ ClientGetsPing(d)
  <2>1. /\ inbox[c] # <<>> /\ inbox'[c] = Tail(inbox[c]) /\ turn' = turn /\ cl'[c] = "playing"
        /\ outbox'[c] = Append(outbox[c], "PONG")
    BY <1>5 DEF ClientGetsPing
  <2>2. "PONG" \notin MoveOrders
    BY DEF MoveOrders
  <2> QED
    BY <1>0, <2>1, <2>2, RightFades, ReadsOn
<1>6. CASE d = c /\ (ClientMoves(d) \/ ClientFindsGameOver(d))
  <2>1. c \in turn /\ c \notin turn' /\ inbox'[c] = inbox[c]
    BY <1>6 DEF ClientMoves, ClientFindsGameOver
  <2>2. \E m \in MoveOrders : outbox'[c] = Append(outbox[c], m)
    BY <1>6 DEF ClientMoves, ClientFindsGameOver, MoveOrders
  <2> QED
    BY <1>0, <2>1, <2>2, RightPassed
<1> HIDE DEF Good
<1>7. Good
  BY <1>1, <1>2, <1>3, <1>4, <1>5, <1>6 DEF Client, Good
<1> QED
  BY <1>7 DEF Good

\* A message that invites nobody, or does not reach a client, leaves the
\* invitations in its inbox.
LEMMA SentMove ==
    ASSUME SocketTypes, NEW box \in [Clients -> Seq(News)], NEW f, NEW type \in News, NEW c \in Clients,
           Lone(box[c], MoveNews), type \notin MoveNews \/ ~Reaches(f, c)
    PROVE  /\ Lone(send_message(box, f, type)[c], MoveNews)
           /\ Has(send_message(box, f, type)[c], MoveNews) => Has(box[c], MoveNews)
<1>1. send_message(box, f, type)[c] = IF Reaches(f, c) THEN Append(box[c], type) ELSE box[c]
  BY Sent
<1>2. box[c] \in Seq(News)
  OBVIOUS
<1>3. type \notin MoveNews => /\ Lone(Append(box[c], type), MoveNews)
                              /\ Has(Append(box[c], type), MoveNews) => Has(box[c], MoveNews)
  BY <1>2, LoneStays
<1>4. CASE Reaches(f, c)
  BY <1>1, <1>3, <1>4
<1>5. CASE ~Reaches(f, c)
  BY <1>1, <1>5
<1> QED
  BY <1>4, <1>5

\* An inbox that was q is r, which has no other invitation.
NotInvited(q, r) == Lone(r, MoveNews) /\ (Has(r, MoveNews) => Has(q, MoveNews))
\* The server sends invitations as moves to a player and as starts to a client it pairs.
LEMMA InvitesAre ==
    ASSUME SocketTypes, QueueTypes, [Next]_vars, NEW c \in Clients, Lone(inbox[c], MoveNews),
           ~(\E d \in Clients : Client(d)),
           ~(move /\ Named(msg.name) # {} /\ Reaches(slots[OpponentOf(msg.name)].fd, c)),
           ~(Adds /\ Reaches(fd, c) /\ \E i \in Slots : PairsWith(i))
    PROVE  Lone(inbox'[c], MoveNews) /\ (Invited(c)' => Invited(c))
<1>0. inbox \in [Clients -> Seq(News)]
  BY DEF QueueTypes
<1>1. inbox'[c] = inbox[c] => NotInvited(inbox[c], inbox'[c])
  BY DEF NotInvited
<1>2. ASSUME NEW type \in News, NEW f, type \notin MoveNews \/ ~Reaches(f, c)
      PROVE  NotInvited(inbox[c], send_message(inbox, f, type)[c])
  BY <1>0, <1>2, SentMove DEF NotInvited
<1>3. ASSUME NEW box \in [Clients -> Seq(News)], NotInvited(inbox[c], box[c]),
             NEW type \in News, NEW f, type \notin MoveNews \/ ~Reaches(f, c)
      PROVE  NotInvited(inbox[c], send_message(box, f, type)[c])
  BY <1>3, SentMove DEF NotInvited
<1>4. /\ "EXISTING_NAME" \in News /\ "FULL_SERVER" \in News /\ "NO_OPPONENT" \in News /\ "START_GAME_X" \in News
      /\ "START_GAME_O" \in News /\ "MOVE" \in News /\ "END_GAME" \in News /\ "PING" \in News
      /\ "OPPONENT_DISCONNECTED" \in News
  BY DEF News, Starts
<1>5. /\ "EXISTING_NAME" \notin MoveNews /\ "FULL_SERVER" \notin MoveNews /\ "NO_OPPONENT" \notin MoveNews
      /\ "START_GAME_X" \notin MoveNews /\ "END_GAME" \notin MoveNews /\ "PING" \notin MoveNews
      /\ "OPPONENT_DISCONNECTED" \notin MoveNews
  BY DEF MoveNews
<1>6. ASSUME add_client PROVE NotInvited(inbox[c], inbox'[c])
  <2>1. ASSUME NEW type \in {"EXISTING_NAME", "FULL_SERVER"}, Refuses(type) PROVE NotInvited(inbox[c], inbox'[c])
    BY <1>2, <1>4, <1>5, <2>1 DEF Refuses
  <2>2. ASSUME NEW i \in Slots, LetsWait(i) PROVE NotInvited(inbox[c], inbox'[c])
    BY <1>2, <1>4, <1>5, <2>2 DEF LetsWait
  <2>3. ASSUME NEW i \in Slots, PairsWith(i) PROVE NotInvited(inbox[c], inbox'[c])
    <3> DEFINE b == send_message(inbox, fd, "START_GAME_O")
               g == slots[i - 1].fd
    <3>1. inbox' = send_message(b, g, "START_GAME_X")
      BY <2>3 DEF PairsWith
    <3>2. b \in [Clients -> Seq(News)]
      BY <1>0, <1>4, SendIs
    <3>3. ~Reaches(fd, c)
      BY <1>6, <2>3, AddIs
    <3>4. NotInvited(inbox[c], b[c])
      BY <1>2, <1>4, <3>3
    <3> HIDE DEF b, g
    <3> QED
      BY <1>3, <1>4, <1>5, <3>1, <3>2, <3>4
  <2> QED
    BY <1>6, <2>1, <2>2, <2>3, AddIs
<1>7. ASSUME move PROVE NotInvited(inbox[c], inbox'[c])
  <2>1. CASE Named(msg.name) = {}
    BY <1>1, <1>7, <2>1 DEF move
  <2>2. CASE Named(msg.name) # {}
    <3>1. inbox' = send_message(inbox, slots[OpponentOf(msg.name)].fd, "MOVE")
      BY <1>7, <2>2 DEF move
    <3>2. ~Reaches(slots[OpponentOf(msg.name)].fd, c)
      BY <1>7, <2>2
    <3> QED
      BY <1>2, <1>4, <3>1, <3>2
  <2> QED
    BY <2>1, <2>2
<1>8. ASSUME game_end PROVE NotInvited(inbox[c], inbox'[c])
  <2>1. inbox' = inbox \/ \E f, g : inbox' = send_message(send_message(inbox, f, "END_GAME"), g, "END_GAME")
    BY <1>8 DEF game_end
  <2>2. ASSUME NEW f, NEW g, inbox' = send_message(send_message(inbox, f, "END_GAME"), g, "END_GAME")
        PROVE  NotInvited(inbox[c], inbox'[c])
    <3> DEFINE b == send_message(inbox, f, "END_GAME")
    <3>1. b \in [Clients -> Seq(News)] /\ NotInvited(inbox[c], b[c])
      BY <1>0, <1>2, <1>4, <1>5, SendIs
    <3>2. inbox' = send_message(b, g, "END_GAME")
      BY <2>2
    <3> HIDE DEF b
    <3> QED
      BY <1>3, <1>4, <1>5, <3>1, <3>2
  <2> QED
    BY <1>1, <2>1, <2>2
<1>9. ASSUME PingSends PROVE NotInvited(inbox[c], inbox'[c])
  BY <1>2, <1>4, <1>5, <1>9 DEF PingSends
<1>10. ASSUME NEW t \in Threads, RemoveNotifies(t) PROVE NotInvited(inbox[c], inbox'[c])
  BY <1>2, <1>4, <1>5, <1>10 DEF RemoveNotifies
<1>11. NotInvited(inbox[c], inbox'[c])
  BY <1>1, <1>6, <1>7, <1>8, <1>9, <1>10, InboxIs
<1> QED
  BY <1>11 DEF NotInvited, Invited

\* The steps of the server leave the clients alone but for their inboxes, and
\* their outboxes but for the message main receives.
LEMMA ServerKeeps ==
    ASSUME [Next]_vars, ~(\E d \in Clients : Client(d))
    PROVE  cl' = cl /\ turn' = turn /\ (outbox' = outbox \/ RecvMessage)
BY StepsAre, Zenon DEF MainCollects, PollAccepts, PollPicks, PollFails, RecvMessage, RecvEof, RecvError, add_client, pong,
   move, game_end, ServerCrashes, PingStarts, PingVisits, PingMarks, PingSends, PingLosesClient, PingGoesOn,
   Removes, vars, client, Handles

\* A step of the server that invites a client to nothing hands no right to it.
LEMMA ServerRight ==
    ASSUME Places, TableType, SocketTypes, MessageType, QueueTypes, Connections, Removals, [Next]_vars,
           NEW c \in Clients, Single(c), ~(\E d \in Clients : Client(d)),
           ~(move /\ Named(msg.name) # {} /\ Reaches(slots[OpponentOf(msg.name)].fd, c)),
           ~(Adds /\ Reaches(fd, c) /\ \E i \in Slots : PairsWith(i))
    PROVE  Single(c)' /\ (Right(c)' => Right(c))
<1>1. Lone(inbox'[c], MoveNews) /\ (Invited(c)' => Invited(c))
  <2>1. Lone(inbox[c], MoveNews)
    BY DEF Single
  <2> QED
    BY <2>1, InvitesAre
<1>2. cl' = cl /\ turn' = turn /\ (outbox' = outbox \/ RecvMessage)
  BY ServerKeeps
<1>3. c \in turn' => c \in turn /\ cl'[c] = "playing"
  BY <1>2 DEF Single
<1>4. outbox[c] \in Seq(Orders) /\ Lone(outbox[c], MoveOrders)
  BY DEF QueueTypes, Single
<1>5. \/ outbox'[c] = outbox[c]
      \/ IsOpen(fd) /\ fds[fd] = c /\ outbox[c] # <<>> /\ outbox'[c] = Tail(outbox[c])
  BY <1>2 DEF RecvMessage, QueueTypes
<1>6. CASE RecvMessage /\ IsOpen(fd) /\ fds[fd] = c /\ Head(outbox[c]) \in MoveOrders
  <2>1. outbox[c] # <<>> /\ outbox'[c] = Tail(outbox[c])
    BY <1>6 DEF RecvMessage, QueueTypes
  <2>2. Lone(outbox'[c], MoveOrders) /\ ~Has(outbox'[c], MoveOrders) /\ Has(outbox[c], MoveOrders)
    BY <1>4, <1>6, <2>1, LoneIs, FirstIs
  <2>3. Moved(c) /\ ~Moved(c)'
    BY <2>2 DEF Moved
  <2>4. c \notin turn' /\ ~Invited(c)'
    BY <1>1, <1>3, <2>3 DEF Single
  <2> QED
    BY <1>1, <2>2, <2>3, <2>4 DEF Single, Right
<1>7. CASE ~(RecvMessage /\ IsOpen(fd) /\ fds[fd] = c /\ Head(outbox[c]) \in MoveOrders)
  <2>1. Acting(c)' => Acting(c)
    BY <1>7, ActingIs
  <2> QED
    BY <1>1, <1>3, <1>5, <2>1, RightFades
<1> QED
  BY <1>6, <1>7

\* A client that had no right to move has it once after it is invited.
LEMMA RightGiven ==
    ASSUME NEW c \in Clients, Single(c), ~Right(c), Lone(inbox'[c], MoveNews),
           turn' = turn, outbox' = outbox, ~Acting(c)'
    PROVE  Single(c)'
BY DEF Single, Right, Moved

\* Main hands a move from a client that has the right to its opponent, which
\* has not.
LEMMA MoverIs ==
    ASSUME Places, TableType, SocketTypes, Owned, Handling, Pairs, OneRight, move, Named(msg.name) # {}
    PROVE  \E n, j \in Slots :
             /\ j = OpponentOf(msg.name) /\ j = Partner(n) /\ n = Partner(j)
             /\ slots[n].fd # -1 /\ slots[j].fd # -1 /\ n # j
             /\ ClientOf(n) \in Clients /\ ClientOf(j) \in Clients
             /\ Acting(ClientOf(n)) /\ ~Right(ClientOf(j))
<1> DEFINE n == Least(Named(msg.name))
           j == slots[n].opponent
<1>1. pc.main = "dispatch" /\ ~mutex /\ msg.type = "MOVE" /\ msg.type # "ADD_CLIENT"
  BY DEF move, Handles, Goto
<1>2. /\ n \in Slots /\ slots[n].fd # -1 /\ slots[n].opponent # -1
      /\ j \in Slots /\ slots[j].fd # -1 /\ slots[j].opponent = n
  BY <1>1, OpponentIs
<1>3. j = OpponentOf(msg.name)
  BY DEF OpponentOf
<1>4. slots[n].name = msg.name
  <2>1. Named(msg.name) \in SUBSET Nat
    BY Numbers DEF Named, Registered
  <2>2. n \in Named(msg.name)
    BY <2>1, LeastIs
  <2> QED
    BY <2>2 DEF Named, Registered
<1> HIDE DEF n
<1>5. slots[n].fd \in Fds /\ slots[j].fd \in Fds
  BY <1>2, Fields DEF TableType
<1>6. /\ ClientOf(n) \in Clients /\ ClientOf(j) \in Clients
      /\ fds[slots[n].fd] # NoClient /\ Name[ClientOf(n)] = msg.name
  BY <1>2, <1>4, <1>5, GameServerAssumption DEF Owned, SocketTypes, ClientOf
<1>7. msg.name # NoName
  BY <1>6, GameServerAssumption
<1>8. slots[n].fd = fd
  BY <1>1, <1>2, <1>4, <1>7 DEF Handling
<1>9. Acting(ClientOf(n))
  BY <1>1, <1>5, <1>6, <1>7, <1>8 DEF Acting, MoveOrders, IsOpen, ClientOf
<1>10. j = Partner(n) /\ n = Partner(j)
  <2>1. n # -1
    BY <1>2, Numbers
  <2> QED
    BY <1>2, <2>1 DEF Pairs
<1>11. n # j
  <2>1. n \in Nat
    BY <1>2, Numbers
  <2> QED
    BY <1>10, <2>1, PartnerIs
<1>12. ~Right(ClientOf(j))
  <2>1. PairedSlot(n)
    BY <1>2, <1>10 DEF PairedSlot
  <2>2. Right(ClientOf(n))
    BY <1>9 DEF Right
  <2> QED
    BY <1>2, <1>10, <2>1, <2>2 DEF OneRight
<1> QED
  BY <1>2, <1>3, <1>6, <1>9, <1>10, <1>11, <1>12

\* Who has moved has no right left when main has handed the move on.
LEMMA MoverDone ==
    ASSUME SocketTypes, QueueTypes, Places, [Next]_vars, move, NEW c \in Clients, Single(c), Acting(c),
           ~Reaches(slots[OpponentOf(msg.name)].fd, c)
    PROVE  ~Right(c)'
<1>1. turn' = turn /\ outbox' = outbox /\ pc'["main"] = "poll"
  BY DEF move, Handles, client, Goto, Places
<1>2. Lone(inbox[c], MoveNews) /\ ~Invited(c) /\ ~Moved(c) /\ c \notin turn
  BY DEF Single
<1>3. ~Invited(c)'
  <2>1. inbox \in [Clients -> Seq(News)] /\ "MOVE" \in News
    BY DEF QueueTypes, News
  <2>2. send_message(inbox, slots[OpponentOf(msg.name)].fd, "MOVE")[c] = inbox[c]
    BY <2>1, Sent
  <2>3. inbox'[c] = inbox[c]
    BY <2>2 DEF move
  <2> QED
    BY <1>2, <2>3 DEF Invited
<1> QED
  BY <1>1, <1>2, <1>3 DEF Right, Moved, Acting

\* A client that main adds with an opponent had no right yet, nor had the
\* opponent, which has waited.
LEMMA NewcomerIs ==
    ASSUME Places, TableType, SocketTypes, ClientTypes, Connections, Owned, Waiting, Handling, Pairs, OneRight,
           Adds, NEW m \in Slots, PairsWith(m)
    PROVE  /\ IsOpen(fd) /\ fds[fd] \in Clients /\ ~Right(fds[fd])
           /\ \A k \in Slots : slots[k].fd # -1 => ClientOf(k) \in Clients /\ ClientOf(k) # fds[fd]
           /\ ~Right(ClientOf(m - 1)) /\ Partner(m) = m - 1 /\ Partner(m - 1) = m
<1>1. /\ IsOpen(fd) /\ ~InTable(fd) /\ fd \in Fds /\ fds[fd] # NoClient
      /\ NotStarted(fds[fd]) /\ outbox[fds[fd]] = <<>>
  BY DEF Adds, Handling, IsOpen
<1>2. fds[fd] \in Clients
  BY <1>1 DEF SocketTypes
<1>3. ASSUME NEW c \in Clients, NotStarted(c) PROVE ~Right(c)
  <2>1. ~Has(inbox[c], GameNews) /\ ~Has(outbox[c], Plays) /\ cl[c] # "playing"
    BY <1>3 DEF NotStarted
  <2>2. MoveNews \subseteq GameNews /\ MoveOrders \subseteq Plays /\ "ADD_CLIENT" \notin MoveOrders
    BY DEF MoveNews, GameNews, Starts, MoveOrders, Plays
  <2>3. ~Invited(c) /\ ~Moved(c)
    BY <2>1, <2>2 DEF Invited, Moved, Has
  <2>4. ~Acting(c)
    BY <2>2 DEF Acting, Adds
  <2>5. c \notin turn
    BY <1>3, <2>1 DEF OneRight, Single
  <2> QED
    BY <2>3, <2>4, <2>5 DEF Right
<1>4. ASSUME NEW k \in Slots, slots[k].fd # -1
      PROVE  ClientOf(k) \in Clients /\ ClientOf(k) # fds[fd]
  <2>1. slots[k].fd \in Fds /\ slots[k].fd # fd
    BY <1>1, <1>4, Fields DEF TableType, InTable
  <2> QED
    BY <1>1, <1>4, <2>1 DEF Owned, Connections, SocketTypes, ClientOf
<1>5. /\ m - 1 \in Slots /\ slots[m - 1].fd # -1 /\ slots[m].fd = -1
      /\ Partner(m) = m - 1 /\ Partner(m - 1) = m
  <2>1. m \in Nat /\ m % 2 = 1
    BY Numbers DEF PairsWith
  <2> QED
    BY <2>1, PartnerIs DEF PairsWith, Free
<1>6. slots[m - 1].opponent = -1
  <2>1. ~Doomed(m - 1)
    BY NoneRemoving DEF Doomed
  <2>2. ~PairedSlot(m - 1)
    BY <1>5 DEF PairedSlot
  <2> QED
    BY <1>5, <2>1, <2>2 DEF Pairs
<1>7. NotStarted(ClientOf(m - 1)) /\ ClientOf(m - 1) \in Clients
  BY <1>4, <1>5, <1>6 DEF Waiting, ClientOf
<1> QED
  BY <1>1, <1>2, <1>3, <1>4, <1>5, <1>7

Given(c) == \/ move /\ Named(msg.name) # {} /\ Reaches(slots[OpponentOf(msg.name)].fd, c)
            \/ Adds /\ Reaches(fd, c) /\ \E m \in Slots : PairsWith(m)

\* Every client has the right to move once at most after a step, and only who
\* is given it has it newly.
LEMMA SinglesKept ==
    ASSUME Places, TableType, SocketTypes, MessageType, ClientTypes, QueueTypes, Connections, Owned, Waiting,
           Handling, Pairs, Removals, OneRight, [Next]_vars, NEW c \in Clients
    PROVE  Single(c)' /\ (~Given(c) => (Right(c)' => Right(c)))
<1>0. Single(c)
  BY DEF OneRight
<1>1. ASSUME NEW d \in Clients, Client(d) PROVE Single(c)' /\ (Right(c)' => Right(c))
  BY <1>0, <1>1, ClientRight
<1>2. ASSUME ~(\E d \in Clients : Client(d)), ~Given(c) PROVE Single(c)' /\ (Right(c)' => Right(c))
  BY <1>0, <1>2, ServerRight DEF Given
<1>3. inbox \in [Clients -> Seq(News)] /\ inbox[c] \in Seq(News) /\ Lone(inbox[c], MoveNews)
      /\ "MOVE" \in News /\ "START_GAME_O" \in News /\ "START_GAME_X" \in News
      /\ "START_GAME_X" \notin MoveNews
  BY <1>0 DEF QueueTypes, News, Starts, MoveNews, Single
<1>4. ASSUME ~Right(c) PROVE \A m : Lone(Append(inbox[c], m), MoveNews)
  <2>1. ~Has(inbox[c], MoveNews)
    BY <1>4 DEF Right, Invited
  <2> QED
    BY <1>3, <2>1, LoneIs
<1>5. CASE move /\ Named(msg.name) # {} /\ Reaches(slots[OpponentOf(msg.name)].fd, c)
  <2>1. PICK n, j \in Slots : j = OpponentOf(msg.name) /\ ~Right(ClientOf(j))
    BY <1>5, MoverIs
  <2>2. ~Right(c)
    BY <1>5, <2>1 DEF Reaches, ClientOf
  <2>3. inbox'[c] = Append(inbox[c], "MOVE")
    <3>1. inbox' = send_message(inbox, slots[OpponentOf(msg.name)].fd, "MOVE")
      BY <1>5 DEF move
    <3>2. send_message(inbox, slots[OpponentOf(msg.name)].fd, "MOVE")[c] = Append(inbox[c], "MOVE")
      <4>1. send_message(inbox, slots[OpponentOf(msg.name)].fd, "MOVE")[c]
              = IF Reaches(slots[OpponentOf(msg.name)].fd, c) THEN Append(inbox[c], "MOVE") ELSE inbox[c]
        BY <1>3, Sent
      <4> QED
        BY <1>5, <4>1
    <3> QED
      BY <3>1, <3>2
  <2>4. turn' = turn /\ outbox' = outbox /\ pc'["main"] = "poll"
    BY <1>5 DEF move, Handles, client, Goto, Places
  <2>5. Lone(inbox'[c], MoveNews) /\ ~Acting(c)'
    BY <1>4, <2>2, <2>3, <2>4 DEF Acting
  <2> QED
    BY <1>0, <1>5, <2>2, <2>4, <2>5, RightGiven DEF Given
<1>6. ASSUME Adds, Reaches(fd, c), NEW m \in Slots, PairsWith(m) PROVE Single(c)'
  <2>1. ~Right(c)
    BY <1>6, NewcomerIs DEF Reaches
  <2> DEFINE b == send_message(inbox, fd, "START_GAME_O")
             g == slots[m - 1].fd
  <2>2. inbox' = send_message(b, g, "START_GAME_X")
    BY <1>6 DEF PairsWith
  <2>3. b \in [Clients -> Seq(News)] /\ b[c] = Append(inbox[c], "START_GAME_O")
    <3>1. b \in [Clients -> Seq(News)]
      BY <1>3, SendIs
    <3>2. b[c] = Append(inbox[c], "START_GAME_O")
      BY <1>3, <1>6, Sent
    <3> QED
      BY <3>1, <3>2
  <2> HIDE DEF b, g
  <2>4. Lone(b[c], MoveNews)
    BY <1>4, <2>1, <2>3
  <2>5. Lone(send_message(b, g, "START_GAME_X")[c], MoveNews)
    BY <1>3, <2>3, <2>4, SentMove
  <2>6. turn' = turn /\ outbox' = outbox /\ pc'["main"] = "poll"
    BY <1>6 DEF Adds, client, Places
  <2>7. ~Acting(c)'
    BY <2>6 DEF Acting
  <2> QED
    BY <1>0, <2>1, <2>2, <2>5, <2>6, <2>7, RightGiven
<1> QED
  BY <1>1, <1>2, <1>5, <1>6, Zenon DEF Given

\* In every step the right to move stays with one of two opponents.
LEMMA OneRightKept ==
    ASSUME IInv, OneRight, [Next]_vars
    PROVE  OneRight'
<1>0. /\ Places /\ TableType /\ SocketTypes /\ MessageType /\ ClientTypes /\ QueueTypes
      /\ Connections /\ Owned /\ Waiting /\ Handling /\ Pairs /\ Removals
  BY DEF IInv, Types
<1>1. \A c \in Clients : Single(c)' /\ (~Given(c) => (Right(c)' => Right(c)))
  BY <1>0, SinglesKept
<1>2. SUFFICES ASSUME NEW i \in Slots, NEW k \in Slots, k = Partner(i), PairedSlot(i)',
                      NEW c, NEW d, c = ClientOf(i)', d = ClientOf(k)'
               PROVE  ~(Right(c)' /\ Right(d)')
  <2>1. ASSUME NEW i \in Slots, Partner(i) \in Slots, PairedSlot(i)'
        PROVE  ~(Right(ClientOf(i)) /\ Right(ClientOf(Partner(i))))'
    BY <1>2, <2>1 DEF Right, Invited, Moved, Acting
  <2> QED
    BY <1>1, <2>1 DEF OneRight
<1>3. /\ i \in Nat /\ i # -1 /\ i # k /\ Partner(k) = i
      /\ slots'[i].fd # -1 /\ slots'[k].fd # -1 /\ slots'[k].opponent = i
  BY <1>2, Numbers, PartnerIs DEF PairedSlot
<1>4. ASSUME slots[i].fd # -1, slots[k].fd # -1, slots'[k].opponent = slots[k].opponent,
             c = ClientOf(i), d = ClientOf(k)
      PROVE  ~(Right(c) /\ Right(d))
  <2>1. PairedSlot(i)
    BY <1>2, <1>3, <1>4 DEF PairedSlot
  <2> QED
    BY <1>2, <1>4, <2>1 DEF OneRight
<1>5. ASSUME NEW n \in Slots, slots[n].fd # -1, slots'[n].fd # -1
      PROVE  /\ ClientOf(n)' = ClientOf(n) /\ ClientOf(n) \in Clients
             /\ slots'[n].opponent = slots[n].opponent \/ (Adds /\ n + 1 \in Slots /\ PairsWith(n + 1))
  <2>1. ClientOf(n)' = ClientOf(n) /\ ClientOf(n) \in Clients
    BY <1>0, <1>5, KeepsClient
  <2> QED
    BY <1>0, <1>5, <2>1, StaysIs DEF LetsWait, PairsWith, Free
<1>6. CASE ~Adds
  <2>1. slots[i].fd # -1 /\ slots[k].fd # -1
    BY <1>0, <1>3, <1>6, KeepsClient
  <2>2. c = ClientOf(i) /\ d = ClientOf(k) /\ c \in Clients /\ d \in Clients /\ slots'[k].opponent = slots[k].opponent
    BY <1>2, <1>3, <1>5, <1>6, <2>1
  <2>3. ~(Right(c) /\ Right(d))
    BY <1>4, <2>1, <2>2
  <2>4. CASE move /\ Named(msg.name) # {}
    <3>1. PICK n, j \in Slots :
             /\ j = OpponentOf(msg.name) /\ j = Partner(n) /\ n = Partner(j)
             /\ slots[n].fd # -1 /\ slots[j].fd # -1 /\ n # j
             /\ ClientOf(n) \in Clients /\ ClientOf(j) \in Clients
             /\ Acting(ClientOf(n)) /\ ~Right(ClientOf(j))
      BY <1>0, <2>4, MoverIs
    <3>2. \A p, q \in Slots : slots[p].fd # -1 /\ slots[q].fd # -1 /\ ClientOf(p) = ClientOf(q) => p = q
      <4>1. \A p \in Slots : slots[p].fd \in {-1} \cup Fds
        BY <1>0, Fields DEF TableType
      <4> QED
        BY <1>0, <4>1 DEF Owned, Connections, ClientOf
    <3>3. \A e \in Clients : Given(e) => e = ClientOf(j)
      BY <1>6, <3>1 DEF Given, Reaches, ClientOf
    <3>4. ASSUME NEW e \in Clients, e = ClientOf(n) PROVE ~Right(e)'
      <4>1. ~Reaches(slots[OpponentOf(msg.name)].fd, e)
        BY <3>1, <3>2, <3>4 DEF Reaches, ClientOf
      <4>2. Single(e) /\ Acting(e)
        BY <3>1, <3>4 DEF OneRight
      <4> QED
        BY <1>0, <2>4, <4>1, <4>2, MoverDone
    <3>5. CASE i = j
      <4>1. k = n
        BY <1>2, <3>1, <3>5
      <4> QED
        BY <2>2, <3>4, <4>1
    <3>6. CASE k = j
      <4>1. i = n
        BY <1>3, <3>1, <3>6
      <4> QED
        BY <2>2, <3>4, <4>1
    <3>7. CASE i # j /\ k # j
      <4>1. ~Given(c) /\ ~Given(d)
        BY <2>1, <2>2, <3>1, <3>2, <3>3, <3>7
      <4> QED
        BY <1>1, <2>2, <2>3, <4>1
    <3> QED
      BY <3>5, <3>6, <3>7
  <2>5. CASE ~(move /\ Named(msg.name) # {})
    <3>1. ~Given(c) /\ ~Given(d)
      BY <1>6, <2>5 DEF Given
    <3> QED
      BY <1>1, <2>2, <2>3, <3>1
  <2> QED
    BY <2>4, <2>5
<1>7. ASSUME Adds PROVE ~move
  BY <1>7 DEF Adds, move, Handles
<1>8. ASSUME Adds, NEW m \in Slots, PairsWith(m) PROVE ~(Right(c)' /\ Right(d)')
  <2>1. /\ IsOpen(fd) /\ fds[fd] \in Clients /\ ~Right(fds[fd])
        /\ \A n \in Slots : slots[n].fd # -1 => ClientOf(n) \in Clients /\ ClientOf(n) # fds[fd]
        /\ ~Right(ClientOf(m - 1)) /\ Partner(m) = m - 1 /\ Partner(m - 1) = m
    BY <1>0, <1>8, NewcomerIs
  <2>2. \A e \in Clients : e # fds[fd] => ~Given(e)
    BY <1>7, <1>8 DEF Given, Reaches
  <2>3. m - 1 \in Slots /\ slots[m - 1].fd # -1 /\ slots[m].fd = -1
    BY <1>8 DEF PairsWith, Free
  <2>4. CASE i = m \/ k = m
    <3>1. i = m - 1 \/ k = m - 1
      BY <1>2, <1>3, <2>1, <2>4
    <3>2. slots'[m - 1].fd = slots[m - 1].fd
      BY <1>0, <1>8, PairsIs
    <3>3. ClientOf(m - 1)' = ClientOf(m - 1) /\ ClientOf(m - 1) \in Clients
      BY <1>5, <2>3, <3>2
    <3>4. \A e \in Clients : e = ClientOf(m - 1) => ~Right(e)'
      BY <1>1, <2>1, <2>2, <2>3
    <3> QED
      BY <1>2, <3>1, <3>3, <3>4
  <2>5. CASE i # m /\ k # m
    <3>1. i # m - 1 /\ k # m - 1
      BY <1>2, <1>3, <2>1, <2>5
    <3>2. slots'[i] = slots[i] /\ slots'[k] = slots[k]
      BY <1>0, <1>8, <2>5, <3>1, PairsIs
    <3>3. c = ClientOf(i) /\ d = ClientOf(k) /\ c \in Clients /\ d \in Clients
      BY <1>2, <1>3, <1>5, <3>2
    <3>4. ~Given(c) /\ ~Given(d)
      BY <1>3, <2>1, <2>2, <3>2, <3>3
    <3> QED
      BY <1>1, <1>3, <1>4, <3>2, <3>3, <3>4
  <2> QED
    BY <2>4, <2>5
<1>9. ASSUME Adds, ~(\E m \in Slots : PairsWith(m)) PROVE ~(Right(c)' /\ Right(d)')
  <2>1. \A e \in Clients : ~Given(e)
    BY <1>7, <1>9 DEF Given
  <2>2. ASSUME NEW n \in Slots, slots[n].opponent = Partner(n), slots[n].opponent # -1
        PROVE  PairedSlot(n)
    <3>1. ~Doomed(n)
      BY <1>9, <1>0, NoneRemoving DEF Doomed
    <3> QED
      BY <1>0, <2>2, <3>1 DEF Pairs
  <2>3. ASSUME NEW n \in Slots, LetsWait(n) PROVE n # i /\ n # k
    <3>1. slots[n].fd = -1 /\ slots'[k].opponent = slots[k].opponent
      <4>1. slots[n].fd = -1
        BY <2>3 DEF LetsWait, Free
      <4>2. slots'[n].opponent = slots[n].opponent /\ \A p \in Slots \ {n} : slots'[p] = slots[p]
        BY <1>0, <2>3, WaitsIs
      <4> QED
        BY <4>1, <4>2
    <3>2. slots[k].opponent = i /\ PairedSlot(k)
      BY <1>3, <2>2, <3>1
    <3> QED
      BY <1>3, <3>1, <3>2 DEF PairedSlot
  <2>4. slots[i].fd # -1 /\ slots[k].fd # -1
    BY <1>0, <1>3, <1>9, <2>3, StaysIs
  <2>5. c = ClientOf(i) /\ d = ClientOf(k) /\ c \in Clients /\ d \in Clients /\ slots'[k].opponent = slots[k].opponent
    BY <1>2, <1>3, <1>5, <1>9, <2>4
  <2> QED
    BY <1>1, <1>4, <2>1, <2>4, <2>5
<1> QED
  BY <1>6, <1>8, <1>9

\* Nobody has the right to move before the first client comes.
LEMMA InitOneRight == Init => OneRight
<1> SUFFICES ASSUME Init PROVE OneRight
  OBVIOUS
<1>1. /\ \A c \in Clients : inbox[c] = <<>> /\ outbox[c] = <<>> /\ c \notin turn
      /\ \A i \in Slots : slots[i].fd = -1
  BY DEF Init, FreeSlot
<1>2. pc.main # "dispatch"
  <2>1. pc = [main |-> "poll", ping |-> "sleep"]
    BY DEF Init
  <2> QED
    BY <2>1
<1>3. \A T : Lone(<<>>, T) /\ ~Has(<<>>, T)
  <2>1. DOMAIN <<>> = {}
    OBVIOUS
  <2> QED
    BY <2>1, Zenon DEF Has, Lone
<1>4. \A c \in Clients : Single(c)
  BY <1>1, <1>2, <1>3 DEF Single, Invited, Moved, Acting
<1>5. \A i \in Slots : ~PairedSlot(i)
  BY <1>1 DEF PairedSlot
<1> QED
  BY <1>4, <1>5 DEF OneRight

\* The tokens of a client are the places that its right to move is in.
LEMMA TokensAre ==
    ASSUME NEW c, Single(c),
           pc.main = "dispatch" /\ msg.name = Name[c] /\ msg.type \in MoveOrders => Acting(c)
    PROVE  /\ \A x, y \in Tokens(c) : x = y
           /\ ~Right(c) => Tokens(c) = {}
<1> DEFINE Turn(x) == x = <<c, "turn">> /\ c \in turn
           In(x) == \E k \in DOMAIN inbox[c] : inbox[c][k] \in MoveNews /\ x = <<c, "in", k>>
           Out(x) == \E k \in DOMAIN outbox[c] : outbox[c][k] \in MoveOrders /\ x = <<c, "out", k>>
           Server(x) == x = <<c, "server">> /\ Acting(c)
<1>1. \A x \in Tokens(c) : Turn(x) \/ In(x) \/ Out(x) \/ Server(x)
  BY Zenon DEF Tokens, MoveNews, MoveOrders
<1>2. \A x, y : (Turn(x) /\ Turn(y)) \/ (Server(x) /\ Server(y)) => x = y
  OBVIOUS
<1>3. \A x, y : In(x) /\ In(y) => x = y
  BY Zenon DEF Single, Lone
<1>4. \A x, y : Out(x) /\ Out(y) => x = y
  BY Zenon DEF Single, Lone
<1>5. \A x : (Turn(x) => c \in turn) /\ (In(x) => Invited(c)) /\ (Out(x) => Moved(c)) /\ (Server(x) => Acting(c))
  BY Zenon DEF Invited, Moved, Has
<1>6. /\ c \in turn => ~Invited(c) /\ ~Moved(c) /\ ~Acting(c)
      /\ Invited(c) => ~Moved(c) /\ ~Acting(c)
      /\ Moved(c) => ~Acting(c)
  BY DEF Single
<1> HIDE DEF Turn, In, Out, Server
<1>7. \A x, y \in Tokens(c) : x = y
  <2> SUFFICES ASSUME NEW x \in Tokens(c), NEW y \in Tokens(c) PROVE x = y
    OBVIOUS
  <2>1. (Turn(x) \/ In(x) \/ Out(x) \/ Server(x)) /\ (Turn(y) \/ In(y) \/ Out(y) \/ Server(y))
    BY <1>1
  <2> QED
    BY <2>1, <1>2, <1>3, <1>4, <1>5, <1>6, Zenon
<1>8. ~Right(c) => \A x : x \notin Tokens(c)
  BY <1>1, <1>5, Zenon DEF Right
<1> QED
  BY <1>7, <1>8

\* Of two players who are each other's opponents one at most is to move: its
\* move thread runs, or the message that will let it move, or the one with its
\* move, is on the way or in the hands of main, and only one of these. So a
\* move is never played twice, and the two never play at the same time,
\* whatever comes between: pings, other games, opponents who leave.
THEOREM OneMover == Spec => []OneMove
<1>1. Init => IInv /\ OneRight
  BY InitIInv, InitOneRight
<1>2. (IInv /\ OneRight) /\ [Next]_vars => (IInv /\ OneRight)'
  BY IInvKept, OneRightKept
<1>3. IInv /\ OneRight => OneMove
  <2> SUFFICES ASSUME IInv, OneRight, Quiet, NEW i \in Registered, NEW j \in Registered,
                      slots[i].opponent = j,
                      NEW c, NEW d, c = ClientOf(i), d = ClientOf(j)
               PROVE  Cardinality(Tokens(c) \cup Tokens(d)) <= 1
    BY Zenon DEF OneMove, ClientOf
  <2>1. /\ TableType /\ SocketTypes /\ Owned /\ Handling /\ Pairs
    BY DEF IInv, Types
  <2>2. i \in Slots /\ j \in Slots /\ slots[i].fd # -1 /\ slots[j].fd # -1 /\ j # -1
    BY Numbers DEF Registered
  <2>3. ~Doomed(i)
    <3>1. \A t \in Threads : pc[t] \notin RemovalSteps
      BY DEF Quiet, Removing, RemovalSteps, Threads
    <3>2. \A t \in Threads : WillClear(t) = {}
      BY <3>1, Zenon DEF WillClear, RemovalSteps
    <3> QED
      BY <3>2 DEF Doomed
  <2>4. j = Partner(i) /\ PairedSlot(i)
    BY <2>1, <2>2, <2>3 DEF Pairs
  <2>5. ~(Right(c) /\ Right(d))
    BY <2>2, <2>4 DEF OneRight
  <2>6. ASSUME NEW k \in Slots, slots[k].fd # -1
        PROVE  /\ ClientOf(k) \in Clients
               /\ pc.main = "dispatch" /\ msg.name = Name[ClientOf(k)] /\ msg.type \in MoveOrders
                    => Acting(ClientOf(k))
    <3>1. slots[k].fd \in Fds /\ fds[slots[k].fd] \in Clients /\ fds[slots[k].fd] # NoClient
          /\ Name[fds[slots[k].fd]] = slots[k].name
      BY <2>1, <2>6, Fields DEF TableType, SocketTypes, Owned
    <3>2. Name[fds[slots[k].fd]] # NoName
      BY <3>1, GameServerAssumption
    <3>3. ASSUME pc.main = "dispatch", msg.name = Name[fds[slots[k].fd]], msg.type \in MoveOrders
          PROVE  slots[k].fd = fd
      <4>1. msg.type # "ADD_CLIENT"
        BY <3>3 DEF MoveOrders
      <4> QED
        BY <2>1, <2>6, <3>1, <3>2, <3>3, <4>1 DEF Handling
    <3> QED
      BY <3>1, <3>2, <3>3 DEF Acting, IsOpen, ClientOf
  <2>7. /\ \A x, y \in Tokens(c) : x = y
        /\ \A x, y \in Tokens(d) : x = y
        /\ Tokens(c) = {} \/ Tokens(d) = {}
    <3>1. Single(c) /\ Single(d)
      BY <2>2, <2>6 DEF OneRight
    <3>2. \A e \in {c, d} : pc.main = "dispatch" /\ msg.name = Name[e] /\ msg.type \in MoveOrders
                               => Acting(e)
      BY <2>2, <2>6
    <3>3. \A e \in {c, d} : (\A x, y \in Tokens(e) : x = y) /\ (~Right(e) => Tokens(e) = {})
      BY <3>1, <3>2, TokensAre
    <3> QED
      BY <2>5, <3>3
  <2> DEFINE P == Tokens(c) \cup Tokens(d)
  <2>8. \A x, y \in P : x = y
    BY <2>7
  <2> HIDE DEF P
  <2>9. P = {} \/ \E x : P = {x}
    BY <2>8
  <2>10. Cardinality({}) = 0
    BY FS_EmptySet
  <2>11. \A x : Cardinality({x}) = 1
    BY FS_Singleton
  <2>12. Cardinality(P) <= 1
    <3>1. CASE P = {}
      BY <2>10, <3>1
    <3>2. CASE \E x : P = {x}
      BY <2>11, <3>2
    <3> QED
      BY <2>9, <3>1, <3>2
  <2> QED
    BY <2>12 DEF P
<1> QED
  BY <1>1, <1>2, <1>3, PTL DEF Spec

=============================================================================
