------------------------------ MODULE ChatServer ------------------------------
(* The chat of lab6: a server and clients that talk through message queues,   *)
(* one queue to the server and one to each client.  lab6/zad1 is written for  *)
(* System V queues, lab6/zad2 for POSIX queues; a behaviour is one of the two *)
(* (kind).  They differ in the order in which messages are taken, in what an  *)
(* exit does to a queue, and in what the server waits for when it shuts down. *)
(*                                                                            *)
(* A client is two processes: main, which sends what the user types, and a    *)
(* child that receives.  Texts and times are left out.                        *)
EXTENDS Integers, Sequences, FiniteSets, SequencesExt

CONSTANTS
    Kinds,          \* subset of {"sysv", "posix"}
    Clients,        \* client programs, each started once
    MAX_NUM_OF_CLIENTS,
    MaxOrders,      \* bound: orders other than STOP a client's user gives
    Quitters,       \* clients whose user stops or interrupts them
    QueueSize       \* messages a queue holds

NoQueue == "none"
ServerQueue == "server"

ASSUME ChatAssumption ==
    /\ Kinds \subseteq {"sysv", "posix"}
    /\ IsFiniteSet(Clients) /\ NoQueue \notin Clients /\ ServerQueue \notin Clients
    /\ MAX_NUM_OF_CLIENTS \in Nat \ {0}
    /\ MaxOrders \in Nat /\ QueueSize \in Nat \ {0}

VARIABLES
    kind,       \* which of the two programs runs
    zero,       \* the queue of id 0, which a slot that was never used names
    server,     \* where the server is
    clients,    \* its table: the id and the queue in each slot
    curr_id,
    todo,       \* what the order in hand has still to send, slot by slot
    unstopped,  \* sigint_handler: the slots it has not come to
    serverq,    \* the messages in the server's queue
    main,       \* where the main process of each client is
    child,      \* whether the receiving process of each client runs
    client_id,  \* the id each client knows it has
    pending,    \* the message each client is sending
    orders,     \* orders each client's user has given
    clientq     \* the messages in each client's queue

serverVars == <<server, clients, curr_id, todo, unstopped>>
clientVars == <<main, child, client_id, pending, orders>>
vars == <<kind, zero, serverVars, serverq, clientVars, clientq>>

Slots == 1 .. MAX_NUM_OF_CLIENTS
Free == -1
Msg(type, id, info) == [type |-> type, id |-> id, info |-> info]
NoMsg == Msg("none", 0, 0)

(* The table is static: the slots hold 0.  That is no open POSIX queue; with  *)
(* System V it is the first queue since the machine was started, which, if it *)
(* is there, is taken to be the server's: no client starts before it.         *)
Init ==
    /\ kind \in Kinds
    /\ zero \in IF kind = "sysv" THEN {NoQueue, ServerQueue} ELSE {NoQueue}
    /\ server = "drain"
    /\ clients = [i \in Slots |-> [id |-> Free, queue |-> zero]]
    /\ curr_id = 1
    /\ todo = {}
    /\ unstopped = {}
    /\ serverq = <<>>
    /\ main = [c \in Clients |-> "off"]
    /\ child = [c \in Clients |-> FALSE]
    /\ client_id = [c \in Clients |-> 0]
    /\ pending = [c \in Clients |-> NoMsg]
    /\ orders = [c \in Clients |-> 0]
    /\ clientq = [c \in Clients |-> <<>>]

-----------------------------------------------------------------------------
(* Queues.  Of the messages wanted the most urgent is taken, and of those the *)
(* oldest.  System V goes by the number of the type, POSIX by the priority a  *)
(* client gives; the server gives all its messages the same.                  *)

Urgency(type) ==
    IF kind = "sysv"
    THEN CASE type = "STOP" -> 5 [] type = "LIST" -> 4 [] type = "INIT" -> 3
           [] type = "2ONE" -> 2 [] type = "2ALL" -> 1 [] OTHER -> 0
    ELSE CASE type = "STOP" -> 2 [] type = "LIST" -> 1 [] OTHER -> 0
Wanted(q, types) == {k \in DOMAIN q : q[k].type \in types}
Oldest(q, types) ==
    CHOOSE k \in Wanted(q, types) : \A m \in Wanted(q, types) : k <= m
MostUrgent(q) ==
    CHOOSE k \in DOMAIN q : \A m \in DOMAIN q \ {k} :
        \/ Urgency(q[k].type) > Urgency(q[m].type)
        \/ Urgency(q[k].type) = Urgency(q[m].type) /\ k < m

ServerUp == server \notin {"exited", "failed"}
ClientUp(c) == main[c] \notin {"off", "exited"}

(* A message can be sent: System V removes a queue with the process that owns *)
(* it, a POSIX queue stays for those who have it open.                        *)
Reaches(c) == c = ServerQueue \/ (c \in Clients /\ (kind = "posix" \/ ClientUp(c)))
ReachesServer == kind = "posix" \/ ServerUp

(* A sender waits while the queue is full.                                    *)
PutTo(c, m) ==
    /\ Reaches(c)
    /\ \/ /\ c = ServerQueue /\ Len(serverq) < QueueSize
          /\ serverq' = Append(serverq, m)
          /\ UNCHANGED clientq
       \/ /\ c \in Clients /\ Len(clientq[c]) < QueueSize
          /\ clientq' = [clientq EXCEPT ![c] = Append(@, m)]
          /\ UNCHANGED serverq

-----------------------------------------------------------------------------
(* The server: the orders.                                                    *)

Registered == {i \in Slots : clients[i].id # Free}
Least(S) == CHOOSE i \in S : \A j \in S : i <= j
NextRound == IF kind = "sysv" THEN "drain" ELSE "wait"
Letter(i, c, m) == [slot |-> i, to |-> c, message |-> m]
Sends(letters) ==
    /\ todo' = letters
    /\ server' = IF letters = {} THEN NextRound ELSE "send"

msg_stop(m) ==
    LET slots == {i \in Slots : clients[i].id = m.id}
    IN  /\ clients' = IF slots = {} THEN clients
                      ELSE [clients EXCEPT ![Least(slots)] =
                               [id |-> Free,
                                queue |-> IF kind = "posix" THEN NoQueue ELSE @.queue]]
        /\ Sends({})
        /\ UNCHANGED curr_id

Refuses(m) ==
    /\ Sends({Letter(MAX_NUM_OF_CLIENTS, m.info, Msg("INIT", Free, -1))})
    /\ UNCHANGED clients
Accepts(m) ==
    LET i == Least(Slots \ Registered)
    IN  /\ Sends({Letter(i, m.info, Msg("INIT", curr_id, -1))})
        /\ clients' = [clients EXCEPT ![i] = [id |-> curr_id, queue |-> m.info]]

(* Not in the code: the id is not counted on.                                 *)
InitKeepsId(m) ==
    /\ UNCHANGED curr_id
    /\ \/ Registered = Slots /\ Refuses(m)
       \/ Registered # Slots /\ Accepts(m)

(* Not in the code: a client there is no slot for is not told.                *)
InitRefusesSilently(m) ==
    \/ Registered = Slots /\ Sends({}) /\ UNCHANGED <<clients, curr_id>>
    \/ Registered # Slots /\ Accepts(m) /\ curr_id' = curr_id + 1

(* The queue of the new client comes with the message; with POSIX queues it   *)
(* is opened by its name.                                                     *)
msg_init(m) ==
    \/ /\ kind = "posix" /\ ~ClientUp(m.info)
       /\ server' = "failed"
       /\ UNCHANGED <<clients, curr_id, todo>>
    \/ /\ kind = "sysv" \/ ClientUp(m.info)
       /\ Registered = Slots
       /\ Refuses(m) /\ UNCHANGED curr_id
    \/ /\ kind = "sysv" \/ ClientUp(m.info)
       /\ Registered # Slots
       /\ Accepts(m) /\ curr_id' = curr_id + 1

msg_2all(m) ==
    /\ Sends({Letter(i, clients[i].queue, Msg("2ALL", m.id, 0)) : i \in Registered})
    /\ UNCHANGED <<clients, curr_id>>

(* The id -1 a user may ask for is that of a free slot: the message goes to   *)
(* the queue that slot last had, or to the queue of id 0.                     *)
msg_2one(m) ==
    LET slots == {i \in Slots : clients[i].id = m.info}
        i == Least(slots)
    IN  /\ Sends(IF slots = {} THEN {}
                 ELSE {Letter(i, clients[i].queue, Msg("2ONE", m.id, m.info))})
        /\ UNCHANGED <<clients, curr_id>>

execute_client_order(m) ==
    /\ UNCHANGED <<kind, zero, unstopped, clientVars, clientq>>
    /\ \/ m.type = "STOP" /\ msg_stop(m)
       \/ m.type = "LIST" /\ Sends({}) /\ UNCHANGED <<clients, curr_id>>
       \/ m.type = "INIT" /\ msg_init(m)
       \/ m.type = "2ALL" /\ msg_2all(m)
       \/ m.type = "2ONE" /\ msg_2one(m)

Take(k) ==
    /\ serverq' = RemoveAt(serverq, k)
    /\ execute_client_order(serverq[k])

(* main, System V: STOP and LIST first, then whatever is the oldest.          *)
ServerDrains ==
    /\ server = "drain" /\ kind = "sysv"
    /\ Wanted(serverq, {"STOP", "LIST"}) # {}
    /\ Take(MostUrgent(serverq))

ServerHasDrained ==
    /\ server = "drain"
    /\ Wanted(serverq, {"STOP", "LIST"}) = {} \/ kind = "posix"
    /\ server' = "wait"
    /\ UNCHANGED <<kind, zero, clients, curr_id, todo, unstopped, serverq, clientVars, clientq>>

ServerTakes ==
    /\ server = "wait" /\ serverq # <<>>
    /\ Take(IF kind = "sysv" THEN 1 ELSE MostUrgent(serverq))

(* One message of the order: the loop over the slots comes to the next.       *)
IsNext(letter) == letter \in todo /\ \A other \in todo : letter.slot <= other.slot
ServerSends ==
    /\ server = "send"
    /\ \E letter \in todo :
        /\ IsNext(letter)
        /\ PutTo(letter.to, letter.message)
        /\ Sends(todo \ {letter})
    /\ UNCHANGED <<kind, zero, clients, curr_id, unstopped, clientVars>>

(* error: the queue of a client that has ended is not there any more.         *)
ServerFails ==
    /\ server = "send" /\ \E letter \in todo : IsNext(letter) /\ ~Reaches(letter.to)
    /\ server' = "failed"
    /\ UNCHANGED <<kind, zero, clients, curr_id, todo, unstopped, serverq, clientVars, clientq>>

-----------------------------------------------------------------------------
(* The server: sigint_handler.                                                *)

ServerInterrupted ==
    /\ server \in {"drain", "wait", "send"}
    /\ server' = "stop"
    /\ todo' = {}
    /\ unstopped' = Registered
    /\ UNCHANGED <<kind, zero, clients, curr_id, serverq, clientVars, clientq>>

ServerSendsStop ==
    LET c == clients[Least(unstopped)].queue
    IN  /\ server = "stop" /\ unstopped # {}
        /\ \/ /\ PutTo(c, Msg("STOP", 0, 0))
              /\ server' = "await"
           \/ /\ ~Reaches(c)
              /\ server' = "failed"
              /\ UNCHANGED <<serverq, clientq>>
        /\ unstopped' = unstopped \ {Least(unstopped)}
        /\ UNCHANGED <<kind, zero, clients, curr_id, todo, clientVars>>

(* System V waits for a STOP, POSIX for any message.                          *)
ServerAwaitsStop ==
    /\ server = "await"
    /\ \/ /\ kind = "sysv" /\ Wanted(serverq, {"STOP"}) # {}
          /\ serverq' = RemoveAt(serverq, Oldest(serverq, {"STOP"}))
       \/ /\ kind = "posix" /\ serverq # <<>>
          /\ serverq' = RemoveAt(serverq, MostUrgent(serverq))
    /\ server' = "stop"
    /\ UNCHANGED <<kind, zero, clients, curr_id, todo, unstopped, clientVars, clientq>>

ServerExits ==
    /\ server = "stop" /\ unstopped = {}
    /\ server' = "exited"
    /\ UNCHANGED <<kind, zero, clients, curr_id, todo, unstopped, serverq, clientVars, clientq>>

ServerRuns ==
    \/ ServerDrains \/ ServerHasDrained \/ ServerTakes \/ ServerSends \/ ServerFails
    \/ ServerSendsStop \/ ServerAwaitsStop \/ ServerExits

-----------------------------------------------------------------------------
(* A client: main.                                                            *)

Goto(c, place, message) ==
    /\ main' = [main EXCEPT ![c] = place]
    /\ pending' = [pending EXCEPT ![c] = message]

(* Not in the code: the process ends and the server is not told.              *)
StopTellsNobody(c) ==
    /\ Goto(c, "exited", NoMsg)
    /\ child' = [child EXCEPT ![c] = FALSE]

(* The receiver is killed, and msg_stop.                                      *)
StartStop(c) ==
    /\ Goto(c, "stop", Msg("STOP", client_id[c], 0))
    /\ child' = [child EXCEPT ![c] = FALSE]

(* It creates its queue and opens the server's.                               *)
ClientStarts(c) ==
    /\ main[c] = "off" /\ ServerUp
    /\ Goto(c, "init", Msg("INIT", 0, c))
    /\ UNCHANGED <<kind, zero, serverVars, serverq, child, client_id, orders, clientq>>

(* A System V queue goes with its owner, and what it held.                    *)
ClientExits(c) ==
    /\ Goto(c, "exited", NoMsg)
    /\ child' = [child EXCEPT ![c] = FALSE]
    /\ clientq' = IF kind = "sysv" THEN [clientq EXCEPT ![c] = <<>>] ELSE clientq
    /\ UNCHANGED <<client_id, orders>>

(* The message in hand is sent, when there is room for it.                    *)
AfterSending(c) ==
    CASE main[c] = "init" -> "reply" [] main[c] = "sender" -> "sender" [] main[c] = "stop" -> "leaves"
ClientSends(c) ==
    /\ pending[c] # NoMsg /\ ReachesServer /\ Len(serverq) < QueueSize
    /\ serverq' = Append(serverq, pending[c])
    /\ Goto(c, AfterSending(c), NoMsg)
    /\ UNCHANGED <<kind, zero, serverVars, child, client_id, orders, clientq>>

(* exit, when the STOP has been sent: until then its queue is there.          *)
ClientLeaves(c) ==
    /\ main[c] = "leaves"
    /\ ClientExits(c)
    /\ UNCHANGED <<kind, zero, serverVars, serverq>>

(* error: the server's queue is gone.                                         *)
ClientFails(c) ==
    /\ pending[c] # NoMsg /\ ~ReachesServer
    /\ ClientExits(c)
    /\ UNCHANGED <<kind, zero, serverVars, serverq>>

(* System V waits for the INIT, POSIX takes the first message for it.         *)
Replies(c) == IF kind = "sysv" THEN Wanted(clientq[c], {"INIT"}) ELSE DOMAIN clientq[c]
ClientIsAccepted(c) ==
    LET k == Least(Replies(c))
        m == clientq[c][k]
    IN  /\ main[c] = "reply" /\ Replies(c) # {}
        /\ \/ /\ m.id = Free
              /\ ClientExits(c)
           \/ /\ m.id # Free
              /\ Goto(c, "sender", NoMsg)
              /\ child' = [child EXCEPT ![c] = TRUE]
              /\ client_id' = [client_id EXCEPT ![c] = m.id]
              /\ clientq' = [clientq EXCEPT ![c] = RemoveAt(@, k)]
              /\ UNCHANGED orders
        /\ UNCHANGED <<kind, zero, serverVars, serverq>>

(* msgsender: the user gives an order.                                        *)
msg_list(c) == {Msg("LIST", client_id[c], 0)}
msg_to_all(c) == {Msg("2ALL", client_id[c], 0)}
msg_to_one(c) == {Msg("2ONE", client_id[c], i) : i \in {Free} \cup 1 .. Cardinality(Clients)}
UserOrders(c) ==
    /\ main[c] = "sender" /\ pending[c] = NoMsg /\ orders[c] < MaxOrders
    /\ \E m \in msg_list(c) \cup msg_to_all(c) \cup msg_to_one(c) : Goto(c, "sender", m)
    /\ orders' = [orders EXCEPT ![c] = @ + 1]
    /\ UNCHANGED <<kind, zero, serverVars, serverq, child, client_id, clientq>>

UserStops(c) ==
    /\ c \in Quitters
    /\ main[c] = "sender" /\ pending[c] = NoMsg
    /\ StartStop(c)
    /\ UNCHANGED <<kind, zero, serverVars, serverq, client_id, orders, clientq>>

(* sigint_handler: wherever it is, also before it has an id.                  *)
UserInterrupts(c) ==
    /\ c \in Quitters
    /\ main[c] \in {"init", "reply", "sender"}
    /\ StartStop(c)
    /\ UNCHANGED <<kind, zero, serverVars, serverq, client_id, orders, clientq>>

(* msgreceiver; a STOP is passed on to main as a SIGINT.                      *)
ClientReceives(c) ==
    LET k == IF kind = "sysv" THEN MostUrgent(clientq[c]) ELSE 1
    IN  /\ child[c] /\ clientq[c] # <<>>
        /\ clientq' = [clientq EXCEPT ![c] = RemoveAt(@, k)]
        /\ \/ clientq[c][k].type = "STOP" /\ StartStop(c)
           \/ clientq[c][k].type # "STOP" /\ UNCHANGED <<main, pending, child>>
        /\ UNCHANGED <<kind, zero, serverVars, serverq, client_id, orders>>

-----------------------------------------------------------------------------

ClientRuns(c) ==
    \/ ClientSends(c) \/ ClientFails(c) \/ ClientLeaves(c)
    \/ ClientIsAccepted(c) \/ ClientReceives(c)

Next ==
    \/ ServerRuns \/ ServerInterrupted
    \/ \E c \in Clients :
          \/ ClientStarts(c) \/ ClientRuns(c)
          \/ UserOrders(c) \/ UserStops(c) \/ UserInterrupts(c)

Spec == Init /\ [][Next]_vars

(* Processes that can run do; nobody has to type, or to press Ctrl-C.         *)
FairSpec ==
    /\ Spec
    /\ WF_vars(ServerRuns)
    /\ \A c \in Clients : WF_vars(ClientSends(c)) /\ WF_vars(ClientFails(c)) /\ WF_vars(ClientLeaves(c))
    /\ \A c \in Clients : WF_vars(ClientIsAccepted(c)) /\ WF_vars(ClientReceives(c))

-----------------------------------------------------------------------------

Queues == Clients \cup {NoQueue, ServerQueue}
Ids == {Free} \cup 0 .. Cardinality(Clients)
Message == [type : {"none", "STOP", "LIST", "INIT", "2ALL", "2ONE"},
            id : Ids, info : Ids \cup Clients]

(* The state is well formed: queues and tables keep within their sizes.       *)
TypeOK ==
    /\ kind \in Kinds /\ zero \in {NoQueue, ServerQueue}
    /\ server \in {"drain", "wait", "send", "stop", "await", "exited", "failed"}
    /\ clients \in [Slots -> [id : Ids, queue : Queues]]
    /\ curr_id \in 1 .. Cardinality(Clients) + 1
    /\ todo \subseteq [slot : Slots, to : Queues, message : Message]
    /\ (todo # {}) => server \in {"send", "failed"}
    /\ unstopped \subseteq Slots
    /\ serverq \in Seq(Message) /\ Len(serverq) <= QueueSize
    /\ main \in [Clients -> {"off", "init", "reply", "sender", "stop", "leaves", "exited"}]
    /\ child \in [Clients -> BOOLEAN]
    /\ \A c \in Clients : child[c] => main[c] = "sender"
    /\ client_id \in [Clients -> 0 .. Cardinality(Clients)]
    /\ pending \in [Clients -> Message]
    /\ orders \in [Clients -> 0 .. MaxOrders]
    /\ clientq \in [Clients -> Seq(Message)]
    /\ \A c \in Clients : Len(clientq[c]) <= QueueSize

(* Whoever comes and goes, a slot that is used again never gives a client the *)
(* messages of another: clients that run have ids of their own, and a message *)
(* sent to one by its id is only ever in the queue of that client.  One sent  *)
(* to -1, which is nobody's id, may be in the queue of a client that leaves.  *)
OwnId ==
    /\ TypeOK
    /\ \A c, d \in Clients : c # d /\ client_id[c] = client_id[d] => client_id[c] = 0
    /\ \A c \in Clients : \A k \in DOMAIN clientq[c] : LET m == clientq[c][k] IN
          (m.type = "2ONE" /\ client_id[c] # 0) => m.info = client_id[c] \/ (m.info = Free /\ ~child[c])

(* While the server serves, its table keeps nobody who has left, save while   *)
(* the STOP of that client waits in its queue, and but for a client that was  *)
(* interrupted before it learnt its id: that slot is never freed.             *)
RegisteredIsAlive ==
    server \in {"drain", "wait", "send"} =>
        \A i \in Registered : LET c == clients[i].queue IN
            \/ ClientUp(c)
            \/ client_id[c] = 0
            \/ \E k \in DOMAIN serverq :
                  serverq[k].type = "STOP" /\ serverq[k].id = clients[i].id

(* Nobody takes a message from a full queue any more: its owner has left, or  *)
(* cannot leave, as its STOP finds no room in the queue of the server.        *)
Unread(c) ==
    /\ Len(clientq[c]) = QueueSize
    /\ main[c] = "exited" \/ (main[c] = "stop" /\ Len(serverq) = QueueSize)

(* An interrupted server comes to its end, unless it waits for ever: for a    *)
(* STOP from a client that it has registered but that has not learnt its id;  *)
(* with System V for one that its queue, full of other messages, has no room  *)
(* for; or at the full queue of a client that reads it no more.               *)
NoStopComes ==
    \/ /\ server = "await"
       /\ \/ \E i \in Registered \ unstopped : client_id[clients[i].queue] = 0
          \/ kind = "sysv" /\ Len(serverq) = QueueSize /\ \E c \in Clients : main[c] = "stop"
    \/ server = "stop" /\ unstopped # {} /\ Unread(clients[Least(unstopped)].queue)
ServerStops == <>[](server \in {"stop", "await"} => NoStopComes)

(* A client that asks to join is answered, whether there is a slot for it or  *)
(* not, unless the server ends; or waits at a full queue: of a client that    *)
(* reads it no more, or, for a message to -1, its own.                        *)
StuckAtTheDead ==
    /\ server = "send"
    /\ \E letter \in todo : IsNext(letter) /\
          \/ letter.to = ServerQueue /\ Len(serverq) = QueueSize
          \/ letter.to \in Clients /\ Unread(letter.to)
Answered ==
    <>[](\A c \in Clients : main[c] = "reply" =>
            server \in {"stop", "await", "exited", "failed"} \/ StuckAtTheDead)
==============================================================================
