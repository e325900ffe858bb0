--------------------------- MODULE ChatServerProofs ---------------------------
(***************************************************************************)
(* Proofs about ChatServer: ids are never mixed up and the table never     *)
(* forgets who has left, for any number of clients, slots and orders, for  *)
(* queues of any size and with either kind of queue.                       *)
(***************************************************************************)
EXTENDS ChatServer, FiniteSetTheorems, WellFoundedInduction, TLAPS

-------------------------------------------------------------------------------
(* The inductive invariant *)

\* The client has sent its STOP, or given up; its queue may still be there.
Left(c) == main[c] \in {"leaves", "exited"}
\* A request to join is on its way, or will be.
Asks(m, c) == m.type = "INIT" /\ m.info = c
Asking(c) == main[c] \in {"off", "init"} \/ \E k \in DOMAIN serverq : Asks(serverq[k], c)
Greeted(c) == main[c] = "reply" => clientq[c] # <<>>
Serves == server \in {"drain", "wait", "send"}

\* What a client has in hand.
Hands ==
    \A c \in Clients :
        /\ main[c] = "init" => pending[c] = Msg("INIT", 0, c)
        /\ main[c] = "stop" => pending[c] = Msg("STOP", client_id[c], 0)
        /\ main[c] = "sender" => pending[c] = NoMsg \/ pending[c].type \in {"LIST", "2ALL", "2ONE"}
        /\ main[c] \in {"off", "reply", "leaves", "exited"} => pending[c] = NoMsg
        /\ main[c] \in {"off", "init", "reply"} => client_id[c] = 0

\* A client asks once, and while it asks nothing is for it.
Requests ==
    /\ \A k \in DOMAIN serverq : serverq[k].type = "INIT" => serverq[k].info \in Clients
    /\ \A c \in Clients : \A j, k \in DOMAIN serverq :
          Asks(serverq[j], c) /\ Asks(serverq[k], c) => j = k /\ main[c] \notin {"off", "init"}
    /\ \A c \in Clients : Asking(c) => client_id[c] = 0 /\ clientq[c] = <<>>

\* Ids in the table are distinct, and free slots name queues of clients that leave.
Table ==
    /\ \A i, j \in Registered : clients[i].id = clients[j].id => i = j
    /\ \A i \in Slots \ Registered :
          clients[i].queue \in Clients => Left(clients[i].queue) /\ ~Asking(clients[i].queue)
    /\ unstopped \subseteq Registered
    /\ unstopped # {} => server \in {"stop", "await", "failed"}

Replied ==
    /\ \A c \in Clients : main[c] = "reply" /\ clientq[c] # <<>> => clientq[c][1].type \in {"INIT", "STOP"}
    /\ Serves => \A i \in Registered : LET c == clients[i].queue IN
          Greeted(c) \/ \E letter \in todo : letter.to = c /\ letter.message.type = "INIT"
    /\ \A letter \in todo : letter.to \in Clients =>
          ~Asking(letter.to) /\ (letter.message.type # "INIT" => Greeted(letter.to))
    /\ \A letter \in todo : letter.to \notin Clients => letter.message.type = "2ONE"

IsFor(owner, c, m) ==
    \/ m.type = "INIT" /\ m.id = Free
    \/ m.type = "INIT" /\ m.id \in DOMAIN owner /\ owner[m.id] = c
    \/ m.type = "STOP" /\ m.id = 0
    \/ m.type = "2ALL"
    \/ m.type = "2ONE" /\ m.info \in DOMAIN owner /\ owner[m.info] = c
    \/ m.type = "2ONE" /\ m.info = Free /\ Left(c)
IsOwned(owner) ==
    /\ \A m, n \in DOMAIN owner : owner[m] = owner[n] => m = n
    /\ \A c \in Clients : client_id[c] # 0 => client_id[c] \in DOMAIN owner /\ owner[client_id[c]] = c
    /\ \A i \in Registered : clients[i].id \in DOMAIN owner /\ clients[i].queue = owner[clients[i].id]
    /\ \A c \in Clients : \A k \in DOMAIN clientq[c] : IsFor(owner, c, clientq[c][k])
    /\ \A letter \in todo : letter.to \in Clients => IsFor(owner, letter.to, letter.message)
    /\ \A k \in DOMAIN serverq : (serverq[k].type = "STOP" /\ serverq[k].id # 0) =>
          serverq[k].id \in DOMAIN owner /\ Left(owner[serverq[k].id])
    /\ \A n \in DOMAIN owner : ~Asking(owner[n])
\* While the server serves, whoever is in its table is there, or has its STOP on
\* the way, or never learnt its id.
Noted ==
    Serves => \A i \in Registered : LET c == clients[i].queue IN
        \/ ~Left(c) \/ client_id[c] = 0
        \/ \E k \in DOMAIN serverq : serverq[k].type = "STOP" /\ serverq[k].id = clients[i].id
Owned == \E owner \in [1 .. curr_id - 1 -> Clients] : IsOwned(owner)
IInv == TypeOK /\ Hands /\ Requests /\ Table /\ Replied /\ Owned /\ Noted

-------------------------------------------------------------------------------
(* Queues, slots and ids *)

\* The first of some slots, or of some messages, is one of them.
LEMMA LeastIs == ASSUME NEW S \in SUBSET Nat, S # {}
                 PROVE  Least(S) \in S /\ \A k \in S : Least(S) <= k
<1>1. \E k \in S : \A m \in S : ~(<<m, k>> \in OpToRel(<, Nat))
  BY WFMin, NatLessThanWellFounded, Zenon
<1>2. \A k, m \in Nat : <<m, k>> \in OpToRel(<, Nat) <=> m < k
  BY DEF OpToRel
<1>3. \E k \in S : \A m \in S : ~(m < k)
  BY <1>1, <1>2, Zenon
<1>4. \A k, m \in Nat : ~(m < k) <=> k <= m
  OBVIOUS
<1>5. \E k \in S : \A m \in S : k <= m
  BY <1>3, <1>4, Zenon
<1> QED
  BY <1>5 DEF Least

\* The oldest message of some types is one of the queue.
LEMMA OldestIs == ASSUME NEW S, NEW q \in Seq(S), NEW types, Wanted(q, types) # {}
                  PROVE  Oldest(q, types) \in DOMAIN q /\ q[Oldest(q, types)].type \in types
<1>1. Wanted(q, types) \in SUBSET Nat
  BY DEF Wanted
<1>2. Oldest(q, types) = Least(Wanted(q, types))
  BY DEF Oldest, Least
<1>3. Oldest(q, types) \in Wanted(q, types)
  BY <1>1, <1>2, LeastIs
<1> QED
  BY <1>3 DEF Wanted

\* The most urgent message of a queue is one of its messages.
LEMMA MostUrgentIs == ASSUME NEW S, NEW q \in Seq(S), q # <<>>
                      PROVE  MostUrgent(q) \in DOMAIN q
<1> DEFINE u(k) == Urgency(q[k].type)
           lacks == {5 - u(k) : k \in DOMAIN q}
           top == {k \in DOMAIN q : 5 - u(k) = Least(lacks)}
           best(k) == \A m \in DOMAIN q \ {k} : u(k) > u(m) \/ (u(k) = u(m) /\ k < m)
<1>1. \A k \in DOMAIN q : u(k) \in 0 .. 5
  BY DEF Urgency
<1>2. DOMAIN q \in SUBSET Nat /\ 1 \in DOMAIN q
  OBVIOUS
<1>3. Least(lacks) \in lacks /\ \A n \in lacks : Least(lacks) <= n
  <2>1. lacks \in SUBSET Nat /\ lacks # {}
    <3> HIDE DEF u
    <3> QED
      BY <1>1, <1>2
  <2> HIDE DEF lacks
  <2> QED
    BY <2>1, LeastIs
<1>4. top \in SUBSET Nat /\ top # {}
  BY <1>2, <1>3
<1> HIDE DEF u
<1>5. Least(top) \in top /\ \A k \in top : Least(top) <= k
  <2> HIDE DEF top
  <2> QED
    BY <1>4, LeastIs
<1>6. Least(top) \in DOMAIN q /\ 5 - u(Least(top)) = Least(lacks)
  BY <1>5
<1>7. ASSUME NEW m \in DOMAIN q \ {Least(top)}
      PROVE  u(Least(top)) > u(m) \/ (u(Least(top)) = u(m) /\ Least(top) < m)
  <2>1. 5 - u(Least(top)) <= 5 - u(m)
    BY <1>3, <1>6
  <2>2. 5 - u(m) = 5 - u(Least(top)) => Least(top) <= m
    BY <1>5, <1>6
  <2>3. Least(top) \in Nat /\ m \in Nat /\ m # Least(top) /\ u(m) \in Nat /\ u(Least(top)) \in Nat
    BY <1>1, <1>2, <1>6
  <2> HIDE DEF top
  <2> QED
    BY <2>1, <2>2, <2>3
<1>8. \E k \in DOMAIN q : best(k)
  BY <1>6, <1>7
<1> QED
  BY <1>8 DEF MostUrgent, u

\* A queue without its k-th message: the others stay, in their order.
LEMMA Removal == ASSUME NEW S, NEW q \in Seq(S), NEW k \in DOMAIN q
                 PROVE  /\ RemoveAt(q, k) \in Seq(S)
                        /\ Len(q) \in Nat /\ Len(RemoveAt(q, k)) = Len(q) - 1
                        /\ DOMAIN q = 1 .. Len(q) /\ DOMAIN RemoveAt(q, k) = 1 .. Len(q) - 1
                        /\ \A j \in 1 .. Len(q) - 1 :
                              RemoveAt(q, k)[j] = q[IF j < k THEN j ELSE j + 1]
<1> DEFINE a == SubSeq(q, 1, k - 1)
           b == SubSeq(q, k + 1, Len(q))
<1>1. Len(q) \in Nat /\ DOMAIN q = 1 .. Len(q) /\ k \in 1 .. Len(q)
  OBVIOUS
<1>2. a \in Seq(S) /\ Len(a) = k - 1 /\ \A j \in 1 .. k - 1 : a[j] = q[j]
  BY <1>1
<1>3. b \in Seq(S) /\ Len(b) = Len(q) - k /\ \A j \in 1 .. Len(q) - k : b[j] = q[j + k]
  BY <1>1
<1>4. RemoveAt(q, k) = a \o b
  BY DEF RemoveAt
<1> HIDE DEF a, b
<1>5. /\ a \o b \in Seq(S) /\ Len(a \o b) = Len(q) - 1
      /\ \A j \in 1 .. Len(q) - 1 : (a \o b)[j] = IF j < k THEN a[j] ELSE b[j - (k - 1)]
  <2>1. /\ a \o b \in Seq(S) /\ Len(a \o b) = Len(a) + Len(b)
        /\ \A j \in 1 .. Len(a) + Len(b) :
              (a \o b)[j] = IF j <= Len(a) THEN a[j] ELSE b[j - Len(a)]
    BY SMTT(30), <1>2, <1>3
  <2> QED
    BY <1>1, <1>2, <1>3, <2>1
<1>6. DOMAIN (a \o b) = 1 .. Len(a \o b)
  BY <1>5
<1>7. ASSUME NEW j \in 1 .. Len(q) - 1
      PROVE  (a \o b)[j] = q[IF j < k THEN j ELSE j + 1]
  <2>1. CASE j < k
    BY <1>1, <1>2, <1>5, <2>1
  <2>2. CASE ~(j < k)
    <3>1. j - (k - 1) \in 1 .. Len(q) - k /\ (j - (k - 1)) + k = j + 1
      BY <1>1, <2>2
    <3> QED
      BY <1>1, <1>3, <1>5, <2>2, <3>1
  <2> QED
    BY <2>1, <2>2
<1> QED
  BY <1>1, <1>4, <1>5, <1>6, <1>7

\* A queue with one message more.
LEMMA Addition == ASSUME NEW S, NEW q \in Seq(S), NEW m \in S
                  PROVE  /\ Append(q, m) \in Seq(S)
                         /\ Len(q) \in Nat /\ Len(Append(q, m)) = Len(q) + 1
                         /\ DOMAIN q = 1 .. Len(q) /\ DOMAIN Append(q, m) = 1 .. Len(q) + 1
                         /\ Append(q, m)[Len(q) + 1] = m
                         /\ \A j \in 1 .. Len(q) : Append(q, m)[j] = q[j]
  OBVIOUS

\* What a message taken, or put, changes for statements about single messages.
LEMMA Taken == ASSUME NEW S, NEW q \in Seq(S), NEW k \in DOMAIN q
               PROVE  /\ \A j \in DOMAIN RemoveAt(q, k) :
                            \E i \in DOMAIN q \ {k} : RemoveAt(q, k)[j] = q[i]
                      /\ \A i \in DOMAIN q \ {k} :
                            \E j \in DOMAIN RemoveAt(q, k) : RemoveAt(q, k)[j] = q[i]
<1>1. \A j \in DOMAIN RemoveAt(q, k) : \E i \in DOMAIN q \ {k} : RemoveAt(q, k)[j] = q[i]
  <2> TAKE j \in DOMAIN RemoveAt(q, k)
  <2>1. j < k => j \in DOMAIN q \ {k} /\ RemoveAt(q, k)[j] = q[j]
    BY Removal
  <2>2. ~(j < k) => j + 1 \in DOMAIN q \ {k} /\ RemoveAt(q, k)[j] = q[j + 1]
    <3>1. Len(q) \in Nat /\ k \in 1 .. Len(q) /\ j \in 1 .. Len(q) - 1 /\ DOMAIN q = 1 .. Len(q)
      BY Removal
    <3>2. ~(j < k) => j + 1 \in 1 .. Len(q) /\ j + 1 # k
      BY <3>1
    <3>3. RemoveAt(q, k)[j] = q[IF j < k THEN j ELSE j + 1]
      BY <3>1, Removal
    <3> QED
      BY <3>1, <3>2, <3>3, Zenon
  <2> QED
    BY <2>1, <2>2
<1>2. \A i \in DOMAIN q \ {k} : \E j \in DOMAIN RemoveAt(q, k) : RemoveAt(q, k)[j] = q[i]
  <2> TAKE i \in DOMAIN q \ {k}
  <2> DEFINE j == IF i < k THEN i ELSE i - 1
  <2>1. j \in DOMAIN RemoveAt(q, k) /\ j \in 1 .. Len(q) - 1 /\ (IF j < k THEN j ELSE j + 1) = i
    BY SMTT(30), Removal
  <2>2. RemoveAt(q, k)[j] = q[i]
    BY Removal, <2>1
  <2> QED
    BY <2>1, <2>2
<1> QED
  BY <1>1, <1>2

\* Ids given to different clients are no more than the clients.
LEMMA FewIds == ASSUME NEW n \in Nat, NEW owner \in [1 .. n -> Clients],
                       \A i, j \in 1 .. n : owner[i] = owner[j] => i = j
                PROVE  n <= Cardinality(Clients) /\ Cardinality(Clients) \in Nat
<1>1. IsFiniteSet(Clients)
  BY ChatAssumption
<1>2. owner \in Injection(1 .. n, Clients)
  BY DEF Injection, IsInjective
<1>3. Cardinality(1 .. n) <= Cardinality(Clients)
  BY <1>1, <1>2, FS_Injection
<1>4. Cardinality(1 .. n) = n
  BY FS_Interval
<1> QED
  BY <1>1, <1>3, <1>4, FS_CardinalityType

-------------------------------------------------------------------------------
(* Types *)

\* Facts about the constants and messages that the other proofs use.
LEMMA Numbers ==
    /\ Cardinality(Clients) \in Nat /\ Ids \in SUBSET Int /\ -1 \in Ids /\ 0 \in Ids
    /\ Slots \in SUBSET Nat /\ MAX_NUM_OF_CLIENTS \in Slots /\ QueueSize \in Nat \ {0}
    /\ NoQueue \notin Clients /\ ServerQueue \notin Clients /\ Free = -1
    /\ Queues = Clients \cup {NoQueue, ServerQueue}
    /\ \A type, id, info : Msg(type, id, info).type = type /\ Msg(type, id, info).id = id
                           /\ Msg(type, id, info).info = info
    /\ \A type \in {"none", "STOP", "LIST", "INIT", "2ALL", "2ONE"}, id \in Ids, info \in Ids \cup Clients :
          Msg(type, id, info) \in Message
<1>1. Cardinality(Clients) \in Nat
  BY ChatAssumption, FS_CardinalityType
<1> QED
  BY <1>1, ChatAssumption DEF Ids, Queues, Slots, Msg, Message, Free

\* The program starts in the invariant.
LEMMA InitInv == Init => IInv
<1> SUFFICES ASSUME Init PROVE IInv
  OBVIOUS
<1> USE DEF Init
<1>1. TypeOK
  BY Numbers, ChatAssumption DEF TypeOK, NoMsg, Ids
<1>2. Hands /\ Requests /\ Table /\ Replied /\ Noted
  BY Numbers DEF Hands, Requests, Table, Replied, Noted, Registered, Serves, Free, Asking
<1>3. Owned
  <2> DEFINE owner == [n \in 1 .. 0 |-> CHOOSE c \in Clients : TRUE]
  <2>1. owner \in [1 .. curr_id - 1 -> Clients]
    OBVIOUS
  <2>2. IsOwned(owner)
    BY DEF IsOwned, Registered, Free
  <2> QED
    BY <2>1, <2>2 DEF Owned
<1> QED
  BY <1>1, <1>2, <1>3 DEF IInv

\* What an order leaves behind: the server goes on, sends letters that are well
\* formed, or fails; the table keeps its form.
LEMMA OrderTypes ==
    ASSUME IInv, NEW m \in Message, server \in {"drain", "wait"}, execute_client_order(m),
           m.type = "INIT" => m.info \in Clients /\ curr_id <= Cardinality(Clients)
    PROVE  /\ server' \in {"drain", "wait", "send", "failed"}
           /\ clients' \in [Slots -> [id : Ids, queue : Queues]]
           /\ curr_id' \in 1 .. Cardinality(Clients) + 1
           /\ todo' \subseteq [slot : Slots, to : Queues, message : Message]
           /\ todo' # {} => server' = "send"
<1> USE Numbers
<1> DEFINE L == [slot : Slots, to : Queues, message : Message]
           T == [Slots -> [id : Ids, queue : Queues]]
           Sent == server' \in {"drain", "wait", "send"} /\ todo' \subseteq L /\ (todo' # {} => server' = "send")
<1>1. /\ clients \in T /\ curr_id \in 1 .. Cardinality(Clients) + 1 /\ todo = {}
      /\ m.id \in Ids /\ m.info \in Ids \cup Clients
  BY DEF IInv, TypeOK, Message
<1>2. \A letters \in SUBSET L : Sends(letters) => Sent
  BY DEF Sends, NextRound
<1>3. \A i \in Slots, c \in Queues, msg \in Message : Letter(i, c, msg) \in L
  BY DEF Letter
<1>4. Sends({}) => Sent
  BY <1>2
<1>5. ASSUME NEW i \in Slots, NEW c \in Queues, NEW msg \in Message,
             Sends({Letter(i, c, msg)})
      PROVE  Sent
  <2>1. {Letter(i, c, msg)} \in SUBSET L
    BY <1>3
  <2> QED
    BY <1>2, <1>5, <2>1, Zenon
<1>6. \A i \in Slots : clients[i].queue \in Queues
  BY <1>1
<1> SUFFICES (Sent \/ (server' = "failed" /\ UNCHANGED todo)) /\ clients' \in T /\ curr_id' \in 1 .. Cardinality(Clients) + 1
  BY <1>1
<1> HIDE DEF Sent, L
<1>7. CASE m.type = "STOP" /\ msg_stop(m)
  <2> DEFINE i == Least({j \in Slots : clients[j].id = m.id})
  <2>1. \/ clients' = clients
        \/ clients' = [clients EXCEPT ![i] =
               [id |-> Free, queue |-> IF kind = "posix" THEN NoQueue ELSE @.queue]]
    BY <1>7 DEF msg_stop
  <2>2. clients' \in T
    <3> HIDE DEF i
    <3> QED
      BY <1>1, <2>1
  <2> QED
    BY <1>1, <1>4, <1>7, <2>2 DEF msg_stop
<1>8. CASE m.type = "LIST" /\ Sends({}) /\ UNCHANGED <<clients, curr_id>>
  BY <1>1, <1>4, <1>8
<1>9. CASE m.type = "INIT" /\ msg_init(m)
  <2>1. m.info \in Clients /\ curr_id \in Ids /\ curr_id + 1 \in 1 .. Cardinality(Clients) + 1
    BY <1>1, <1>9 DEF Ids
  <2>2. CASE Refuses(m) /\ UNCHANGED curr_id
    BY <1>1, <1>5, <2>1, <2>2 DEF Refuses
  <2>3. CASE Registered # Slots /\ Accepts(m) /\ curr_id' = curr_id + 1
    <3>1. Least(Slots \ Registered) \in Slots
      BY <2>3, LeastIs DEF Registered
    <3>2. Sent
      BY <1>5, <2>1, <2>3, <3>1 DEF Accepts
    <3>3. clients' \in T
      BY <1>1, <2>1, <2>3, <3>1 DEF Accepts
    <3> QED
      BY <2>1, <2>3, <3>2, <3>3
  <2> QED
    BY <1>1, <1>9, <2>2, <2>3 DEF msg_init
<1>10. CASE m.type = "2ALL" /\ msg_2all(m)
  <2>1. \A j \in Registered : Letter(j, clients[j].queue, Msg("2ALL", m.id, 0)) \in L
    <3>1. Msg("2ALL", m.id, 0) \in Message
      BY <1>1
    <3>2. Registered \subseteq Slots
      BY DEF Registered
    <3> QED
      BY <1>3, <1>6, <3>1, <3>2, Zenon
  <2>2. {Letter(j, clients[j].queue, Msg("2ALL", m.id, 0)) : j \in Registered} \in SUBSET L
    BY <2>1, Zenon
  <2> QED
    BY <1>1, <1>2, <1>10, <2>2, Zenon DEF msg_2all
<1>11. CASE m.type = "2ONE" /\ msg_2one(m)
  <2> DEFINE slots == {j \in Slots : clients[j].id = m.info}
  <2>1. slots # {} => Least(slots) \in Slots
    BY LeastIs
  <2>2. Sends({}) \/ (slots # {} /\ Sends({Letter(Least(slots), clients[Least(slots)].queue, Msg("2ONE", m.id, m.info))}))
    BY <1>11 DEF msg_2one
  <2> HIDE DEF slots
  <2>3. Sent
    BY <1>1, <1>4, <1>5, <1>6, <2>1, <2>2
  <2> QED
    BY <1>1, <1>11, <2>3 DEF msg_2one
<1> QED
  BY <1>7, <1>8, <1>9, <1>10, <1>11 DEF execute_client_order

\* Whoever asks to join has no id yet, and there is one for him.
LEMMA Newcomer ==
    ASSUME IInv, NEW k \in DOMAIN serverq, serverq[k].type = "INIT"
    PROVE  serverq[k].info \in Clients /\ curr_id <= Cardinality(Clients)
<1> DEFINE c == serverq[k].info
<1>1. c \in Clients /\ Asking(c)
  BY DEF IInv, Requests, Asking, Asks
<1>2. curr_id \in Nat \ {0}
  BY Numbers DEF IInv, TypeOK
<1>3. PICK owner \in [1 .. curr_id - 1 -> Clients] : IsOwned(owner)
  BY DEF IInv, Owned
<1> DEFINE more == [n \in 1 .. curr_id |-> IF n = curr_id THEN c ELSE owner[n]]
<1> HIDE DEF c
<1>4. more \in [1 .. curr_id -> Clients]
  BY <1>1, <1>2
<1>5. \A n \in 1 .. curr_id - 1 : owner[n] # c
  BY <1>1, <1>3 DEF IsOwned
<1>6. \A i, j \in 1 .. curr_id - 1 : owner[i] = owner[j] => i = j
  BY <1>3 DEF IsOwned
<1>7. \A i, j \in 1 .. curr_id : more[i] = more[j] => i = j
  BY <1>2, <1>5, <1>6
<1> HIDE DEF more
<1> QED
  BY <1>1, <1>2, <1>4, <1>7, FewIds DEF c

-------------------------------------------------------------------------------
(* Types *)

\* The actions of a client, and what it has in hand.
LEMMA ClientTypes ==
    ASSUME IInv, NEW c \in Clients,
           ClientStarts(c) \/ ClientRuns(c) \/ UserOrders(c) \/ UserStops(c) \/ UserInterrupts(c)
    PROVE  TypeOK'
<1>1. TypeOK /\ Hands
  BY DEF IInv
<1>2. NoMsg \in Message /\ \A id \in Ids : Msg("STOP", id, 0) \in Message
  BY Numbers DEF NoMsg
<1>3. client_id[c] \in Ids
  BY <1>1, Numbers DEF TypeOK, Ids
<1>4. \A place \in {"init", "reply", "sender", "stop", "leaves", "exited"}, m \in Message : Goto(c, place, m) =>
         /\ main' \in [Clients -> {"off", "init", "reply", "sender", "stop", "leaves", "exited"}]
         /\ pending' \in [Clients -> Message]
         /\ main'[c] = place /\ \A d \in Clients : d # c => main'[d] = main[d]
  BY <1>1 DEF TypeOK, Goto
<1>5. \A b \in BOOLEAN : child' = [child EXCEPT ![c] = b] =>
         child' \in [Clients -> BOOLEAN] /\ child'[c] = b /\ \A d \in Clients : d # c => child'[d] = child[d]
  BY <1>1 DEF TypeOK
<1>6. StartStop(c) =>
         /\ main' \in [Clients -> {"off", "init", "reply", "sender", "stop", "leaves", "exited"}]
         /\ pending' \in [Clients -> Message] /\ child' \in [Clients -> BOOLEAN]
         /\ \A d \in Clients : child'[d] => main'[d] = "sender"
  BY <1>1, <1>2, <1>3, <1>4, <1>5 DEF StartStop, TypeOK
<1>7. ClientExits(c) =>
         /\ main' \in [Clients -> {"off", "init", "reply", "sender", "stop", "leaves", "exited"}]
         /\ pending' \in [Clients -> Message] /\ child' \in [Clients -> BOOLEAN]
         /\ \A d \in Clients : child'[d] => main'[d] = "sender"
         /\ clientq' \in [Clients -> Seq(Message)] /\ \A d \in Clients : Len(clientq'[d]) <= QueueSize
         /\ UNCHANGED <<client_id, orders>>
  BY <1>1, <1>2, <1>4, <1>5, Numbers DEF ClientExits, TypeOK
<1>8. CASE ClientStarts(c)
  <2>1. Msg("INIT", 0, c) \in Message
    BY Numbers
  <2> QED
    BY <1>1, <1>4, <1>8, <2>1 DEF ClientStarts, serverVars, TypeOK
<1>9. CASE ClientSends(c)
  <2>1. serverq' \in Seq(Message) /\ Len(serverq') <= QueueSize
    <3>1. serverq \in Seq(Message) /\ pending[c] \in Message
      BY <1>1 DEF TypeOK
    <3> QED
      BY <1>9, <3>1, Addition, Numbers DEF ClientSends
  <2>2. main[c] \in {"init", "sender", "stop"}
    BY <1>1, <1>9 DEF ClientSends, Hands, TypeOK
  <2>3. AfterSending(c) \in {"reply", "sender", "leaves"} /\ (main[c] = "sender" => AfterSending(c) = "sender")
    BY <2>2 DEF AfterSending
  <2> QED
    BY <1>1, <1>2, <1>4, <1>9, <2>1, <2>3 DEF ClientSends, serverVars, TypeOK
<1>10. CASE ClientFails(c) \/ ClientLeaves(c)
  BY <1>1, <1>7, <1>10 DEF ClientFails, ClientLeaves, serverVars, TypeOK
<1>11. CASE ClientIsAccepted(c)
  <2> DEFINE k == Least(Replies(c))
  <2>1. k \in DOMAIN clientq[c] /\ clientq[c] \in Seq(Message) /\ Len(clientq[c]) <= QueueSize
    <3>1. clientq[c] \in Seq(Message) /\ Len(clientq[c]) <= QueueSize
      BY <1>1 DEF TypeOK
    <3>2. Replies(c) \in SUBSET DOMAIN clientq[c] /\ DOMAIN clientq[c] \in SUBSET Nat
      BY <3>1 DEF Replies, Wanted
    <3> QED
      BY <1>11, <3>1, <3>2, LeastIs DEF ClientIsAccepted
  <2>2. RemoveAt(clientq[c], k) \in Seq(Message) /\ Len(RemoveAt(clientq[c], k)) <= QueueSize
    BY <2>1, Removal, Numbers
  <2>3. clientq[c][k].id \in Ids
    <3> HIDE DEF k
    <3>1. clientq[c][k] \in Message
      BY <2>1
    <3> QED
      BY <3>1 DEF Message
  <2>4. CASE ClientExits(c)
    BY <1>1, <1>7, <1>11, <2>4 DEF ClientIsAccepted, serverVars, TypeOK
  <2>5. CASE /\ clientq[c][k].id # Free
             /\ Goto(c, "sender", NoMsg)
             /\ child' = [child EXCEPT ![c] = TRUE]
             /\ client_id' = [client_id EXCEPT ![c] = clientq[c][k].id]
             /\ clientq' = [clientq EXCEPT ![c] = RemoveAt(@, k)]
             /\ UNCHANGED orders
    <3> HIDE DEF k
    <3>1. clientq[c][k].id \in 0 .. Cardinality(Clients)
      BY <2>3, <2>5, Numbers DEF Ids
    <3>2. clientq' \in [Clients -> Seq(Message)] /\ \A d \in Clients : Len(clientq'[d]) <= QueueSize
      BY <1>1, <2>2, <2>5 DEF TypeOK
    <3>3. \A d \in Clients : child'[d] => main'[d] = "sender"
      BY <1>1, <1>2, <1>4, <1>5, <2>5 DEF TypeOK
    <3> QED
      BY <1>1, <1>2, <1>4, <1>5, <1>11, <2>5, <3>1, <3>2, <3>3 DEF ClientIsAccepted, serverVars, TypeOK
  <2> QED
    BY <1>11, <2>4, <2>5 DEF ClientIsAccepted
<1>12. CASE ClientReceives(c)
  <2> DEFINE k == IF kind = "sysv" THEN MostUrgent(clientq[c]) ELSE 1
  <2>1. clientq[c] \in Seq(Message) /\ Len(clientq[c]) <= QueueSize /\ clientq[c] # <<>>
    BY <1>1, <1>12 DEF TypeOK, ClientReceives
  <2>2. k \in DOMAIN clientq[c]
    BY <2>1, MostUrgentIs
  <2>3. RemoveAt(clientq[c], k) \in Seq(Message) /\ Len(RemoveAt(clientq[c], k)) <= QueueSize
    BY <2>1, <2>2, Removal, Numbers
  <2> HIDE DEF k
  <2>4. clientq' = [clientq EXCEPT ![c] = RemoveAt(@, k)]
    BY <1>12 DEF ClientReceives, k
  <2>5. clientq' \in [Clients -> Seq(Message)] /\ \A d \in Clients : Len(clientq'[d]) <= QueueSize
    BY <1>1, <2>3, <2>4 DEF TypeOK
  <2> QED
    BY <1>1, <1>6, <1>12, <2>5 DEF ClientReceives, serverVars, TypeOK
<1>13. CASE UserOrders(c)
  <2>1. \A m \in msg_list(c) \cup msg_to_all(c) \cup msg_to_one(c) : m \in Message
    <3>1. \A i \in {Free} \cup 1 .. Cardinality(Clients) : i \in Ids
      BY Numbers DEF Ids
    <3>2. \A type \in {"LIST", "2ALL", "2ONE"}, info \in Ids : Msg(type, client_id[c], info) \in Message
      BY <1>3, Numbers
    <3>3. 0 \in Ids
      BY Numbers
    <3> QED
      BY <3>1, <3>2, <3>3 DEF msg_list, msg_to_all, msg_to_one
  <2>2. PICK m \in Message : Goto(c, "sender", m)
    BY <1>13, <2>1 DEF UserOrders
  <2>3. orders' \in [Clients -> 0 .. MaxOrders]
    BY <1>1, <1>13, ChatAssumption DEF UserOrders, TypeOK
  <2> QED
    BY <1>1, <1>4, <1>13, <2>2, <2>3 DEF UserOrders, serverVars, TypeOK
<1>14. CASE UserStops(c) \/ UserInterrupts(c)
  BY <1>1, <1>6, <1>14 DEF UserStops, UserInterrupts, serverVars, TypeOK
<1> QED
  BY <1>8, <1>9, <1>10, <1>11, <1>12, <1>13, <1>14 DEF ClientRuns

\* The step of a server keeps the types.
LEMMA ServerTypes == ASSUME IInv, ServerRuns \/ ServerInterrupted PROVE TypeOK'
<1>1. TypeOK
  BY DEF IInv
<1>2. \A k \in DOMAIN serverq :
         serverq \in Seq(Message) /\ serverq[k] \in Message
         /\ RemoveAt(serverq, k) \in Seq(Message) /\ Len(RemoveAt(serverq, k)) <= QueueSize
  <2>1. serverq \in Seq(Message) /\ Len(serverq) <= QueueSize
    BY <1>1 DEF TypeOK
  <2> QED
    BY <2>1, Removal, Numbers
<1>3. ASSUME NEW k \in DOMAIN serverq, server \in {"drain", "wait"}, Take(k) PROVE TypeOK'
  <2>1. /\ server' \in {"drain", "wait", "send", "failed"}
        /\ clients' \in [Slots -> [id : Ids, queue : Queues]]
        /\ curr_id' \in 1 .. Cardinality(Clients) + 1
        /\ todo' \subseteq [slot : Slots, to : Queues, message : Message]
        /\ todo' # {} => server' = "send"
    BY <1>2, <1>3, Newcomer, OrderTypes DEF Take
  <2> QED
    BY <1>1, <1>2, <1>3, <2>1 DEF Take, execute_client_order, clientVars, TypeOK
<1>4. CASE ServerDrains
  BY <1>2, <1>3, <1>4, MostUrgentIs DEF ServerDrains, Wanted
<1>5. CASE ServerHasDrained \/ ServerFails \/ ServerInterrupted \/ ServerExits
  BY <1>1, <1>5 DEF ServerHasDrained, ServerFails, ServerInterrupted, ServerExits, clientVars, TypeOK, Registered
<1>6. CASE ServerTakes
  <2>1. serverq \in Seq(Message) /\ serverq # <<>>
    BY <1>1, <1>6 DEF ServerTakes, TypeOK
  <2>2. 1 \in DOMAIN serverq /\ MostUrgent(serverq) \in DOMAIN serverq
    BY <2>1, MostUrgentIs
  <2> QED
    BY <1>3, <1>6, <2>2 DEF ServerTakes
<1>7. ASSUME NEW c \in Queues, NEW m \in Message, PutTo(c, m)
      PROVE  /\ serverq' \in Seq(Message) /\ Len(serverq') <= QueueSize
             /\ clientq' \in [Clients -> Seq(Message)] /\ \A d \in Clients : Len(clientq'[d]) <= QueueSize
  <2>1. CASE c = ServerQueue
    <3>1. serverq \in Seq(Message) /\ serverq' = Append(serverq, m) /\ Len(serverq) < QueueSize /\ UNCHANGED clientq
      BY <1>1, <1>7, <2>1, Numbers DEF TypeOK, PutTo
    <3>2. serverq' \in Seq(Message) /\ Len(serverq') <= QueueSize
      BY <3>1, Addition, Numbers
    <3> QED
      BY <1>1, <3>1, <3>2 DEF TypeOK
  <2>2. CASE c # ServerQueue
    <3>1. c \in Clients /\ clientq[c] \in Seq(Message) /\ UNCHANGED serverq /\ Len(clientq[c]) < QueueSize
          /\ clientq' = [clientq EXCEPT ![c] = Append(@, m)]
      BY <1>1, <1>7, <2>2 DEF TypeOK, PutTo
    <3>2. Append(clientq[c], m) \in Seq(Message) /\ Len(Append(clientq[c], m)) <= QueueSize
      BY <3>1, Addition, Numbers
    <3> QED
      BY <1>1, <3>1, <3>2 DEF TypeOK
  <2> QED
    BY <2>1, <2>2
<1>8. CASE ServerSends
  <2>1. PICK letter \in todo : PutTo(letter.to, letter.message) /\ Sends(todo \ {letter})
    BY <1>8 DEF ServerSends
  <2>2. letter.to \in Queues /\ letter.message \in Message
    BY <1>1 DEF TypeOK
  <2>3. /\ serverq' \in Seq(Message) /\ Len(serverq') <= QueueSize
        /\ clientq' \in [Clients -> Seq(Message)] /\ \A d \in Clients : Len(clientq'[d]) <= QueueSize
    BY <1>7, <2>1, <2>2
  <2> QED
    BY <1>1, <1>8, <2>1, <2>3 DEF ServerSends, Sends, NextRound, clientVars, TypeOK
<1>9. CASE ServerSendsStop
  <2> DEFINE c == clients[Least(unstopped)].queue
  <2>1. Least(unstopped) \in Slots
    BY <1>1, <1>9, Numbers, LeastIs DEF ServerSendsStop, TypeOK
  <2>2. c \in Queues /\ Msg("STOP", 0, 0) \in Message
    BY <1>1, <2>1, Numbers DEF TypeOK
  <2>3. PutTo(c, Msg("STOP", 0, 0)) \/ UNCHANGED <<serverq, clientq>>
    BY <1>9 DEF ServerSendsStop
  <2>4. /\ serverq' \in Seq(Message) /\ Len(serverq') <= QueueSize
        /\ clientq' \in [Clients -> Seq(Message)] /\ \A d \in Clients : Len(clientq'[d]) <= QueueSize
    <3> HIDE DEF c
    <3> QED
      BY <1>1, <1>7, <2>2, <2>3 DEF TypeOK
  <2> QED
    BY <1>1, <1>9, <2>4 DEF ServerSendsStop, clientVars, TypeOK
<1>10. CASE ServerAwaitsStop
  <2>1. serverq' \in Seq(Message) /\ Len(serverq') <= QueueSize
    BY <1>1, <1>2, <1>10, OldestIs, MostUrgentIs DEF ServerAwaitsStop, TypeOK
  <2> QED
    BY <1>1, <1>10, <2>1 DEF ServerAwaitsStop, clientVars, TypeOK
<1> QED
  BY <1>4, <1>5, <1>6, <1>8, <1>9, <1>10 DEF ServerRuns

-------------------------------------------------------------------------------
(* What a step of a client does *)

\* The clients stay as they are while the server runs.
LEMMA ServerFrame == ASSUME ServerRuns \/ ServerInterrupted
                     PROVE  UNCHANGED <<kind, main, child, client_id, pending, orders>>
  BY Zenon DEF ServerRuns, ServerDrains, ServerHasDrained, ServerTakes, ServerSends, ServerFails, ServerSendsStop,
        ServerAwaitsStop, ServerExits, ServerInterrupted, Take, execute_client_order, clientVars

\* A client changes only what is its own, and the server's queue.
LEMMA ClientFrame ==
    ASSUME IInv, NEW c \in Clients,
           ClientStarts(c) \/ ClientRuns(c) \/ UserOrders(c) \/ UserStops(c) \/ UserInterrupts(c)
    PROVE  /\ UNCHANGED <<kind, server, clients, curr_id, todo, unstopped>>
           /\ \A d \in Clients \ {c} :
                 main'[d] = main[d] /\ pending'[d] = pending[d]
                 /\ client_id'[d] = client_id[d] /\ clientq'[d] = clientq[d]
<1>1. UNCHANGED <<kind, server, clients, curr_id, todo, unstopped>>
  BY Zenon DEF ClientRuns, ClientStarts, ClientSends, ClientFails, ClientLeaves, ClientIsAccepted, ClientReceives,
        UserOrders, UserStops, UserInterrupts, serverVars
<1>2. TypeOK
  BY DEF IInv
<1>3. \A place, m : Goto(c, place, m) =>
         \A d \in Clients \ {c} : main'[d] = main[d] /\ pending'[d] = pending[d]
  BY <1>2 DEF Goto, TypeOK
<1>4. StartStop(c) => \A d \in Clients \ {c} : main'[d] = main[d] /\ pending'[d] = pending[d]
  BY <1>3 DEF StartStop
<1>5. ClientExits(c) =>
         \A d \in Clients \ {c} :
            main'[d] = main[d] /\ pending'[d] = pending[d]
            /\ client_id'[d] = client_id[d] /\ clientq'[d] = clientq[d]
  BY <1>2, <1>3 DEF ClientExits, TypeOK
<1>6. CASE ClientStarts(c) \/ UserOrders(c)
  BY <1>1, <1>3, <1>6 DEF ClientStarts, UserOrders
<1>7. CASE ClientSends(c) \/ ClientFails(c) \/ ClientLeaves(c)
  BY <1>1, <1>3, <1>5, <1>7 DEF ClientSends, ClientFails, ClientLeaves
<1>8. CASE ClientIsAccepted(c)
  <2> DEFINE k == Least(Replies(c))
  <2>1. ClientExits(c) \/ (/\ Goto(c, "sender", NoMsg)
                           /\ client_id' = [client_id EXCEPT ![c] = clientq[c][k].id]
                           /\ clientq' = [clientq EXCEPT ![c] = RemoveAt(@, k)])
    BY <1>8 DEF ClientIsAccepted
  <2> HIDE DEF k
  <2> QED
    BY <1>1, <1>2, <1>3, <1>5, <2>1 DEF TypeOK
<1>9. CASE ClientReceives(c) \/ UserStops(c) \/ UserInterrupts(c)
  <2>1. \/ UNCHANGED clientq
        \/ \E k : clientq' = [clientq EXCEPT ![c] = RemoveAt(@, k)]
    BY <1>9 DEF ClientReceives, UserStops, UserInterrupts
  <2>2. \A d \in Clients \ {c} : clientq'[d] = clientq[d]
    BY <1>2, <2>1 DEF TypeOK
  <2>3. StartStop(c) \/ UNCHANGED <<main, pending>>
    BY <1>9 DEF ClientReceives, UserStops, UserInterrupts
  <2>4. UNCHANGED client_id
    BY <1>9 DEF ClientReceives, UserStops, UserInterrupts
  <2> QED
    BY <1>1, <1>4, <2>2, <2>3, <2>4
<1> QED
  BY <1>6, <1>7, <1>8, <1>9 DEF ClientRuns

\* What a client does itself: it starts, asks to join, sends an order, sends its
\* STOP or gives up and ends, is accepted, begins to stop, or goes on.
Starts(c) == main[c] = "off" /\ main'[c] = "init" /\ pending'[c] = Msg("INIT", 0, c)
             /\ UNCHANGED <<serverq, client_id, clientq>>
Joins(c) == main[c] = "init" /\ main'[c] = "reply" /\ pending'[c] = NoMsg
            /\ serverq' = Append(serverq, Msg("INIT", 0, c)) /\ UNCHANGED <<client_id, clientq>>
Orders(c) == main[c] = "sender" /\ main'[c] = "sender" /\ pending'[c] = NoMsg
             /\ pending[c].type \in {"LIST", "2ALL", "2ONE"}
             /\ serverq' = Append(serverq, pending[c]) /\ UNCHANGED <<client_id, clientq>>
TellsStop(c) == main[c] = "stop" /\ main'[c] = "leaves" /\ pending'[c] = NoMsg
                /\ serverq' = Append(serverq, Msg("STOP", client_id[c], 0))
                /\ UNCHANGED <<client_id, clientq>>
Ends(c) == main[c] \notin {"off", "exited"} /\ main'[c] = "exited" /\ pending'[c] = NoMsg
           /\ UNCHANGED <<serverq, client_id>> /\ clientq'[c] \in {clientq[c], <<>>}
           /\ \/ main[c] = "leaves" \/ ~Serves
              \/ main[c] = "reply" /\ \E k \in DOMAIN clientq[c] : clientq[c][k].id = Free
IsAccepted(c) == main[c] = "reply" /\ main'[c] = "sender" /\ pending'[c] = NoMsg /\ UNCHANGED serverq
                 /\ \E k \in DOMAIN clientq[c] :
                       /\ clientq[c][k].id # Free /\ (k = 1 \/ clientq[c][k].type = "INIT")
                       /\ client_id'[c] = clientq[c][k].id
                       /\ clientq'[c] = RemoveAt(clientq[c], k)
Reads(c) == clientq'[c] = clientq[c] \/ \E k \in DOMAIN clientq[c] : clientq'[c] = RemoveAt(clientq[c], k)
Stops(c) == main[c] \in {"init", "reply", "sender"} /\ main'[c] = "stop"
            /\ pending'[c] = Msg("STOP", client_id[c], 0) /\ UNCHANGED <<serverq, client_id>>
            /\ (main[c] # "sender" => clientq'[c] = clientq[c]) /\ Reads(c)
GoesOn(c) == main[c] = "sender" /\ main'[c] = "sender" /\ UNCHANGED <<serverq, client_id>> /\ Reads(c)
             /\ (pending'[c] = pending[c] \/ pending'[c].type \in {"LIST", "2ALL", "2ONE"})


\* Each step of a client is one of these.
LEMMA ClientStep ==
    ASSUME IInv, NEW c \in Clients,
           ClientStarts(c) \/ ClientRuns(c) \/ UserOrders(c) \/ UserStops(c) \/ UserInterrupts(c)
    PROVE  Starts(c) \/ Joins(c) \/ Orders(c) \/ TellsStop(c) \/ Ends(c) \/ IsAccepted(c) \/ Stops(c) \/ GoesOn(c)
<1>1. TypeOK /\ Hands
  BY DEF IInv
<1>2. \A place, m : Goto(c, place, m) => main'[c] = place /\ pending'[c] = m
  BY <1>1 DEF Goto, TypeOK
<1>3. ClientExits(c) =>
         main'[c] = "exited" /\ pending'[c] = NoMsg /\ UNCHANGED client_id /\ clientq'[c] \in {clientq[c], <<>>}
  BY <1>1, <1>2 DEF ClientExits, TypeOK
<1>4. StartStop(c) => main'[c] = "stop" /\ pending'[c] = Msg("STOP", client_id[c], 0)
  BY <1>2 DEF StartStop
<1>5. pending[c] # NoMsg =>
         /\ main[c] \in {"init", "stop", "sender"}
         /\ main[c] = "init" => pending[c] = Msg("INIT", 0, c)
         /\ main[c] = "stop" => pending[c] = Msg("STOP", client_id[c], 0)
         /\ main[c] = "sender" => pending[c].type \in {"LIST", "2ALL", "2ONE"}
  BY <1>1 DEF Hands, TypeOK
<1>6. child[c] => main[c] = "sender"
  BY <1>1 DEF TypeOK
<1>7. CASE ClientStarts(c)
  BY <1>2, <1>7 DEF ClientStarts, Starts
<1>8. CASE ClientSends(c)
  <2>1. main[c] \in {"init", "sender", "stop"}
    BY <1>8, <1>1 DEF ClientSends, Hands, TypeOK
  <2>2. main'[c] = AfterSending(c) /\ pending'[c] = NoMsg
    BY <1>2, <1>8, <2>1 DEF ClientSends, AfterSending
  <2>3. CASE main[c] = "init"
    BY <1>5, <1>8, <2>2, <2>3 DEF ClientSends, AfterSending, Joins
  <2>4. CASE main[c] = "sender"
    BY <1>5, <1>8, <2>2, <2>4 DEF ClientSends, AfterSending, Orders
  <2>5. CASE main[c] = "stop"
    BY <1>5, <1>8, <2>2, <2>5 DEF ClientSends, AfterSending, TellsStop
  <2> QED
    BY <2>1, <2>3, <2>4, <2>5
<1>9. CASE ClientFails(c) \/ ClientLeaves(c)
  BY <1>3, <1>5, <1>9 DEF ClientFails, ClientLeaves, Ends, ReachesServer, ServerUp, Serves
<1>10. CASE ClientIsAccepted(c)
  <2> DEFINE k == Least(Replies(c))
  <2>1. k \in Replies(c) /\ Replies(c) \subseteq DOMAIN clientq[c] /\ (kind # "sysv" => k = 1)
        /\ (kind = "sysv" => clientq[c][k].type = "INIT")
    <3>1. clientq[c] \in Seq(Message)
      BY <1>1 DEF TypeOK
    <3>2. Replies(c) \in SUBSET DOMAIN clientq[c] /\ DOMAIN clientq[c] \in SUBSET Nat
      BY <3>1 DEF Replies, Wanted
    <3>3. k \in Replies(c) /\ \A j \in Replies(c) : k <= j
      BY <1>10, <3>2, LeastIs DEF ClientIsAccepted
    <3>4. kind # "sysv" => 1 \in Replies(c) /\ \A j \in Replies(c) : 1 <= j
      BY <3>1, <3>3 DEF Replies
    <3> HIDE DEF k
    <3>5. kind # "sysv" => k = 1
      BY <3>2, <3>3, <3>4
    <3> QED
      BY <3>2, <3>3, <3>5 DEF Replies, Wanted
  <2>2. CASE clientq[c][k].id = Free /\ ClientExits(c)
    BY <1>3, <1>10, <2>1, <2>2 DEF ClientIsAccepted, Ends
  <2>3. CASE /\ clientq[c][k].id # Free
             /\ Goto(c, "sender", NoMsg)
             /\ client_id' = [client_id EXCEPT ![c] = clientq[c][k].id]
             /\ clientq' = [clientq EXCEPT ![c] = RemoveAt(@, k)]
    <3>1. client_id'[c] = clientq[c][k].id /\ clientq'[c] = RemoveAt(clientq[c], k)
      BY <1>1, <2>3 DEF TypeOK
    <3>2. main[c] = "reply" /\ main'[c] = "sender" /\ pending'[c] = NoMsg /\ UNCHANGED serverq
      BY <1>2, <1>10, <2>3 DEF ClientIsAccepted
    <3>3. k \in DOMAIN clientq[c] /\ (k = 1 \/ clientq[c][k].type = "INIT")
      BY <1>1, <2>1 DEF TypeOK
    <3> HIDE DEF k
    <3> QED
      BY <2>3, <3>1, <3>2, <3>3 DEF IsAccepted
  <2> QED
    BY <1>10, <2>2, <2>3 DEF ClientIsAccepted
<1>11. CASE ClientReceives(c)
  <2> DEFINE k == IF kind = "sysv" THEN MostUrgent(clientq[c]) ELSE 1
  <2>1. clientq[c] \in Seq(Message) /\ clientq[c] # <<>>
    BY <1>1, <1>11 DEF TypeOK, ClientReceives
  <2>2. k \in DOMAIN clientq[c]
    BY <2>1, MostUrgentIs
  <2> HIDE DEF k
  <2>3. clientq' = [clientq EXCEPT ![c] = RemoveAt(@, k)]
    BY <1>11 DEF ClientReceives, k
  <2>4. clientq'[c] = RemoveAt(clientq[c], k)
    BY <1>1, <2>3 DEF TypeOK
  <2>5. Reads(c)
    BY <2>2, <2>4 DEF Reads
  <2> QED
    BY <1>4, <1>6, <1>11, <2>5 DEF ClientReceives, Stops, GoesOn
<1>12. CASE UserOrders(c)
  <2>1. PICK m \in msg_list(c) \cup msg_to_all(c) \cup msg_to_one(c) : Goto(c, "sender", m)
    BY <1>12 DEF UserOrders
  <2>2. m.type \in {"LIST", "2ALL", "2ONE"}
    BY Numbers DEF msg_list, msg_to_all, msg_to_one
  <2> QED
    BY <1>2, <1>12, <2>1, <2>2 DEF UserOrders, GoesOn, Reads
<1>13. CASE UserStops(c) \/ UserInterrupts(c)
  BY <1>4, <1>13 DEF UserStops, UserInterrupts, Stops, Reads
<1> QED
  BY <1>7, <1>8, <1>9, <1>10, <1>11, <1>12, <1>13 DEF ClientRuns

-------------------------------------------------------------------------------
(* The invariant and the steps of a client *)

\* A step of a client takes nothing from the server's queue, gives it no second
\* request, and makes nobody ask anew.
LEMMA ClientSays ==
    ASSUME IInv, NEW c \in Clients,
           ClientStarts(c) \/ ClientRuns(c) \/ UserOrders(c) \/ UserStops(c) \/ UserInterrupts(c)
    PROVE  /\ DOMAIN serverq \subseteq DOMAIN serverq' /\ \A j \in DOMAIN serverq : serverq'[j] = serverq[j]
           /\ \A j, k \in DOMAIN serverq' : j \notin DOMAIN serverq /\ k \notin DOMAIN serverq => j = k
           /\ \A j \in DOMAIN serverq' \ DOMAIN serverq :
                 \/ serverq'[j] = Msg("INIT", 0, c) /\ Joins(c)
                 \/ serverq'[j] = Msg("STOP", client_id[c], 0) /\ Left(c)'
                 \/ serverq'[j].type \in {"LIST", "2ALL", "2ONE"}
<1>1. \/ UNCHANGED serverq
      \/ \E m \in Message :
            /\ serverq' = Append(serverq, m)
            /\ \/ m = Msg("INIT", 0, c) /\ Joins(c)
               \/ m = Msg("STOP", client_id[c], 0) /\ Left(c)'
               \/ m.type \in {"LIST", "2ALL", "2ONE"}
  <2>1. pending[c] \in Message /\ Msg("INIT", 0, c) \in Message /\ Msg("STOP", client_id[c], 0) \in Message
    BY Numbers DEF IInv, TypeOK, Ids
  <2>2. TellsStop(c) => Left(c)'
    BY DEF TellsStop, Left
  <2> QED
    BY <2>1, <2>2, ClientStep, Zenon DEF Starts, Joins, Orders, TellsStop, Ends, IsAccepted, Stops, GoesOn
<1>2. serverq \in Seq(Message)
  BY DEF IInv, TypeOK
<1>3. CASE UNCHANGED serverq
  BY <1>3
<1>4. ASSUME NEW m \in Message, serverq' = Append(serverq, m)
      PROVE  /\ DOMAIN serverq \subseteq DOMAIN serverq' /\ \A j \in DOMAIN serverq : serverq'[j] = serverq[j]
             /\ DOMAIN serverq' \ DOMAIN serverq = {Len(serverq) + 1} /\ serverq'[Len(serverq) + 1] = m
  BY <1>2, <1>4, Addition
<1> QED
  BY <1>1, <1>3, <1>4

\* What is in a client's queue was there before; whoever asks has asked, and has
\* nothing; an ended client stays ended.
LEMMA ClientKeeps ==
    ASSUME IInv, NEW c \in Clients,
           ClientStarts(c) \/ ClientRuns(c) \/ UserOrders(c) \/ UserStops(c) \/ UserInterrupts(c)
    PROVE  /\ \A d \in Clients : \A j \in DOMAIN clientq'[d] :
                 \E i \in DOMAIN clientq[d] : clientq'[d][j] = clientq[d][i]
           /\ \A d \in Clients : Asking(d)' => Asking(d) /\ client_id'[d] = 0 /\ clientq'[d] = <<>>
           /\ \A d \in Clients : ~Asking(d) /\ Greeted(d) => Greeted(d)'
           /\ \A d \in Clients : Left(d) => Left(d)'
<1>1. \A d \in Clients : clientq[d] \in Seq(Message)
  BY DEF IInv, TypeOK
<1>2. clientq'[c] = clientq[c] \/ clientq'[c] = <<>>
      \/ \E k \in DOMAIN clientq[c] : clientq'[c] = RemoveAt(clientq[c], k)
  BY ClientStep, ClientFrame DEF Starts, Joins, Orders, TellsStop, Ends, IsAccepted, Stops, GoesOn, Reads
<1>3. \A j \in DOMAIN clientq'[c] : \E i \in DOMAIN clientq[c] : clientq'[c][j] = clientq[c][i]
  BY <1>1, <1>2, Taken
<1>4. \A d \in Clients : \A j \in DOMAIN clientq'[d] : \E i \in DOMAIN clientq[d] : clientq'[d][j] = clientq[d][i]
  BY <1>3, ClientFrame
<1>5. \A d \in Clients : Asking(d)' => Asking(d)
  <2> SUFFICES ASSUME NEW d \in Clients, Asking(d)' PROVE Asking(d)
    OBVIOUS
  <2>1. CASE main'[d] \in {"off", "init"}
    BY <2>1, ClientStep, ClientFrame DEF Starts, Joins, Orders, TellsStop, Ends, IsAccepted, Stops, GoesOn, Asking
  <2>2. CASE \E k \in DOMAIN serverq' : Asks(serverq'[k], d)
    BY <2>2, ClientSays, Numbers DEF Asking, Asks, Joins
  <2> QED
    BY <2>1, <2>2 DEF Asking
<1>6. \A d \in Clients : Asking(d) => client_id[d] = 0 /\ clientq[d] = <<>>
  BY DEF IInv, Requests
<1>7. \A d \in Clients : Asking(d) => client_id'[d] = 0 /\ clientq'[d] = <<>>
  BY <1>6, ClientStep, ClientFrame DEF Starts, Joins, Orders, TellsStop, Ends, IsAccepted, Stops, GoesOn, Reads
<1>8. \A d \in Clients : ~Asking(d) /\ Greeted(d) => Greeted(d)'
  BY ClientStep, ClientFrame DEF Starts, Joins, Orders, TellsStop, Ends, IsAccepted, Stops, GoesOn, Reads, Asking, Greeted
<1>9. \A d \in Clients : Left(d) => Left(d)'
  BY ClientStep, ClientFrame DEF Starts, Joins, Orders, TellsStop, Ends, IsAccepted, Stops, GoesOn, Left
<1> QED
  BY <1>4, <1>5, <1>7, <1>8, <1>9

\* A step of a client keeps the invariant.
LEMMA ClientInv ==
    ASSUME IInv, NEW c \in Clients,
           ClientStarts(c) \/ ClientRuns(c) \/ UserOrders(c) \/ UserStops(c) \/ UserInterrupts(c)
    PROVE  IInv'
<1> USE DEF IInv
<1>1. UNCHANGED <<kind, server, clients, curr_id, todo, unstopped, Registered, Serves>>
  BY ClientFrame DEF Registered, Serves
<1>2. Hands'
  BY ClientStep, ClientFrame DEF Hands, Starts, Joins, Orders, TellsStop, Ends, IsAccepted, Stops, GoesOn
<1>3. Requests'
  <2>1. \A k \in DOMAIN serverq' : serverq'[k].type = "INIT" => serverq'[k].info \in Clients
    BY ClientSays, Numbers DEF Requests
  <2>2. ASSUME NEW d \in Clients, NEW j \in DOMAIN serverq', NEW k \in DOMAIN serverq',
               Asks(serverq'[j], d), Asks(serverq'[k], d)
        PROVE  j = k /\ main'[d] \notin {"off", "init"}
    <3>1. CASE j \in DOMAIN serverq /\ k \in DOMAIN serverq
      <4>1. j = k /\ main[d] \notin {"off", "init"}
        BY <2>2, <3>1, ClientSays DEF Requests
      <4> QED
        BY <4>1, ClientStep, ClientFrame DEF Starts, Joins, Orders, TellsStop, Ends, IsAccepted, Stops, GoesOn
    <3>2. CASE j \notin DOMAIN serverq \/ k \notin DOMAIN serverq
      <4>1. d = c /\ Joins(c)
        BY <2>2, <3>2, ClientSays, Numbers DEF Asks
      <4>2. \A i \in DOMAIN serverq : ~Asks(serverq[i], d)
        BY <4>1 DEF Requests, Joins
      <4> QED
        BY <2>2, <4>1, <4>2, ClientSays DEF Joins
    <3> QED
      BY <3>1, <3>2
  <2> QED
    BY <2>1, <2>2, ClientKeeps DEF Requests
<1>4. Table'
  <2>1. \A i \in Slots : clients[i].queue \in Queues
    BY DEF TypeOK
  <2> QED
    BY <1>1, <2>1, ClientKeeps DEF Table
<1>5. PICK owner \in [1 .. curr_id - 1 -> Clients] : IsOwned(owner)
  BY DEF Owned
<1>6. \A i \in Registered : clients[i].queue \in Clients /\ ~Asking(clients[i].queue)
  BY <1>5 DEF IsOwned
<1>7. \A letter \in todo : letter.to \in Queues
  BY DEF TypeOK
<1>8. Replied'
  <2>1. \A d \in Clients : main'[d] = "reply" /\ clientq'[d] # <<>> => clientq'[d][1].type \in {"INIT", "STOP"}
    BY ClientStep, ClientFrame DEF Replied, Requests, Asking, Starts, Joins, Orders, TellsStop, Ends, IsAccepted, Stops, GoesOn
  <2>2. Serves => \A i \in Registered : Greeted(clients[i].queue)'
           \/ \E letter \in todo : letter.to = clients[i].queue /\ letter.message.type = "INIT"
    BY <1>1, <1>6, ClientKeeps DEF Replied
  <2>3. \A letter \in todo : letter.to \in Clients =>
           ~Asking(letter.to)' /\ (letter.message.type # "INIT" => Greeted(letter.to)')
    BY ClientKeeps DEF Replied
  <2> QED
    BY <1>1, <2>1, <2>2, <2>3 DEF Replied
<1>9. IsOwned(owner)'
  <2>1. DOMAIN owner = 1 .. curr_id - 1 /\ \A n \in DOMAIN owner : owner[n] \in Clients
    OBVIOUS
  <2>2. \A d \in Clients : client_id'[d] # 0 => client_id'[d] \in DOMAIN owner /\ owner[client_id'[d]] = d
    <3>1. \A d \in Clients : client_id[d] # 0 => client_id[d] \in DOMAIN owner /\ owner[client_id[d]] = d
      BY <1>5 DEF IsOwned
    <3>2. IsAccepted(c) /\ client_id'[c] # 0 => client_id'[c] \in DOMAIN owner /\ owner[client_id'[c]] = c
      <4> SUFFICES ASSUME IsAccepted(c) PROVE client_id'[c] # 0 => client_id'[c] \in DOMAIN owner /\ owner[client_id'[c]] = c
        OBVIOUS
      <4>1. PICK k \in DOMAIN clientq[c] :
               clientq[c][k].id # Free /\ (k = 1 \/ clientq[c][k].type = "INIT") /\ client_id'[c] = clientq[c][k].id
        BY DEF IsAccepted
      <4>2. clientq[c][k].type \in {"INIT", "STOP"}
        BY <4>1 DEF IsAccepted, Replied
      <4>3. IsFor(owner, c, clientq[c][k])
        BY <1>5 DEF IsOwned
      <4> QED
        BY <4>1, <4>2, <4>3 DEF IsFor
    <3>3. IsAccepted(c) \/ UNCHANGED client_id
      BY ClientStep DEF Starts, Joins, Orders, TellsStop, Ends, Stops, GoesOn
    <3> QED
      BY <3>1, <3>2, <3>3, ClientFrame
  <2>3. \A d \in Clients : \A m : IsFor(owner, d, m) => IsFor(owner, d, m)'
    BY ClientKeeps DEF IsFor
  <2>4. \A d \in Clients : \A k \in DOMAIN clientq'[d] : \A m : clientq'[d][k] = m => IsFor(owner, d, m)'
    <3>1. \A d \in Clients : \A k \in DOMAIN clientq[d] : IsFor(owner, d, clientq[d][k])
      BY <1>5 DEF IsOwned
    <3> QED
      BY <2>3, <3>1, ClientKeeps, Zenon
  <2>8. \A letter \in todo : letter.to \in Clients => IsFor(owner, letter.to, letter.message)'
    BY <1>5, <2>3 DEF IsOwned
  <2>5. \A k \in DOMAIN serverq' : (serverq'[k].type = "STOP" /\ serverq'[k].id # 0) =>
           serverq'[k].id \in DOMAIN owner /\ main'[owner[serverq'[k].id]] \in {"leaves", "exited"}
    <3>1. \A k \in DOMAIN serverq : (serverq[k].type = "STOP" /\ serverq[k].id # 0) =>
             serverq[k].id \in DOMAIN owner /\ Left(owner[serverq[k].id])
      BY <1>5 DEF IsOwned
    <3>2. client_id[c] # 0 => client_id[c] \in DOMAIN owner /\ owner[client_id[c]] = c
      BY <1>5 DEF IsOwned
    <3>3. \A d \in Clients : Left(d)' <=> main'[d] \in {"leaves", "exited"}
      BY DEF Left
    <3> QED
      BY <2>1, <3>1, <3>2, <3>3, ClientSays, ClientKeeps, Numbers
  <2>6. \A n \in DOMAIN owner : ~Asking(owner[n])'
    <3>1. \A n \in DOMAIN owner : ~Asking(owner[n])
      BY <1>5 DEF IsOwned
    <3> QED
      BY <2>1, <3>1, ClientKeeps, Zenon
  <2>7. /\ \A m, n \in DOMAIN owner : owner[m] = owner[n] => m = n
        /\ \A i \in Registered : clients[i].id \in DOMAIN owner /\ clients[i].queue = owner[clients[i].id]
    BY <1>5 DEF IsOwned
  <2> QED
    BY <1>1, <2>2, <2>4, <2>5, <2>6, <2>7, <2>8 DEF IsOwned, IsFor, Left
<1>10. Noted'
  <2> SUFFICES ASSUME Serves, NEW i \in Registered
               PROVE  \/ ~Left(clients[i].queue)'
                      \/ client_id'[clients[i].queue] = 0
                      \/ \E k \in DOMAIN serverq' : serverq'[k].type = "STOP" /\ serverq'[k].id = clients[i].id
    BY <1>1 DEF Noted, Serves
  <2> DEFINE d == clients[i].queue
  <2>1. \/ ~Left(d) \/ client_id[d] = 0
        \/ \E k \in DOMAIN serverq : serverq[k].type = "STOP" /\ serverq[k].id = clients[i].id
    BY DEF Noted, Serves
  <2>2. d \in Clients /\ (client_id[d] # 0 => client_id[d] = clients[i].id)
    BY <1>5 DEF IsOwned
  <2> HIDE DEF d
  <2>3. CASE \E k \in DOMAIN serverq : serverq[k].type = "STOP" /\ serverq[k].id = clients[i].id
    BY <2>3, ClientSays
  <2>4. CASE d # c /\ (~Left(d) \/ client_id[d] = 0)
    BY <2>2, <2>4, ClientFrame DEF Left, d
  <2>5. CASE d = c /\ TellsStop(c)
    <3>1. serverq \in Seq(Message)
      BY DEF TypeOK
    <3>2. Len(serverq) + 1 \in DOMAIN serverq' /\ serverq'[Len(serverq) + 1] = Msg("STOP", client_id[c], 0)
      BY <2>5, <3>1 DEF TellsStop
    <3>3. serverq'[Len(serverq) + 1].type = "STOP" /\ serverq'[Len(serverq) + 1].id = client_id[c]
      BY <3>2 DEF Msg
    <3>4. client_id'[d] = 0 \/ client_id[c] = clients[i].id
      BY <2>2, <2>5 DEF TellsStop
    <3> QED
      BY <3>2, <3>3, <3>4, Zenon DEF d
  <2>6. CASE d = c /\ Ends(c) /\ (~Left(d) \/ client_id[d] = 0)
    BY <2>6 DEF Ends, Left, Hands, d
  <2>7. CASE d = c /\ ~TellsStop(c) /\ ~Ends(c)
    <3>1. ~Left(c)'
      BY <2>7, ClientStep DEF Starts, Joins, Orders, IsAccepted, Stops, GoesOn, Left
    <3> QED
      BY <1>1, <2>7, <3>1 DEF d
  <2> QED
    BY <2>1, <2>3, <2>4, <2>5, <2>6, <2>7
<1> QED
  BY <1>1, <1>2, <1>3, <1>4, <1>5, <1>8, <1>9, <1>10, ClientTypes DEF Owned

-------------------------------------------------------------------------------
(* The invariant and the steps of the server *)

\* A message taken from the server's queue: the others stay, nobody asks anew,
\* and whoever asked with it asks no more.
LEMMA ServerTaken ==
    ASSUME IInv, NEW k \in DOMAIN serverq, serverq' = RemoveAt(serverq, k),
           UNCHANGED <<main, client_id, clientq>>
    PROVE  /\ \A j \in DOMAIN serverq' : \E i \in DOMAIN serverq \ {k} : serverq'[j] = serverq[i]
           /\ \A i \in DOMAIN serverq \ {k} : \E j \in DOMAIN serverq' : serverq'[j] = serverq[i]
           /\ \A d \in Clients : Asking(d)' => Asking(d)
           /\ \A d \in Clients : Asks(serverq[k], d) => ~Asking(d)'
           /\ Requests'
<1>1. serverq \in Seq(Message)
  BY DEF IInv, TypeOK
<1>2. /\ \A j \in DOMAIN serverq' : \E i \in DOMAIN serverq \ {k} : serverq'[j] = serverq[i]
      /\ \A i \in DOMAIN serverq \ {k} : \E j \in DOMAIN serverq' : serverq'[j] = serverq[i]
  BY <1>1, Taken
<1>3. \A d \in Clients : Asking(d)' => Asking(d)
  BY <1>2 DEF Asking
<1>4. ASSUME NEW c \in Clients, Asks(serverq[k], c) PROVE ~Asking(c)'
  <2>1. \A i \in DOMAIN serverq \ {k} : ~Asks(serverq[i], c)
    BY <1>4 DEF IInv, Requests
  <2>2. main[c] \notin {"off", "init"}
    BY <1>4 DEF IInv, Requests
  <2>3. \A j \in DOMAIN serverq' : ~Asks(serverq'[j], c)
    BY <1>2, <2>1
  <2> QED
    BY <2>2, <2>3 DEF Asking, Asks
<1>5. Requests'
  <2>1. \A j \in DOMAIN serverq' : serverq'[j].type = "INIT" => serverq'[j].info \in Clients
    BY <1>2 DEF IInv, Requests
  <2>2. ASSUME NEW d \in Clients, NEW i \in DOMAIN serverq', NEW j \in DOMAIN serverq',
               Asks(serverq'[i], d), Asks(serverq'[j], d)
        PROVE  i = j /\ main'[d] \notin {"off", "init"}
    <3> DEFINE at(n) == IF n < k THEN n ELSE n + 1
    <3>1. /\ Len(serverq) \in Nat /\ k \in 1 .. Len(serverq) /\ DOMAIN serverq = 1 .. Len(serverq)
          /\ DOMAIN serverq' = 1 .. Len(serverq) - 1
          /\ \A n \in 1 .. Len(serverq) - 1 : serverq'[n] = serverq[at(n)]
      BY <1>1, Removal
    <3>2. at(i) \in DOMAIN serverq /\ at(j) \in DOMAIN serverq /\ (at(i) = at(j) => i = j)
      BY <3>1
    <3>3. Asks(serverq[at(i)], d) /\ Asks(serverq[at(j)], d)
      BY <2>2, <3>1
    <3> HIDE DEF at
    <3> QED
      BY <3>2, <3>3 DEF IInv, Requests
  <2> QED
    BY <1>3, <2>1, <2>2 DEF IInv, Requests
<1> QED
  BY <1>2, <1>3, <1>4, <1>5

\* Steps of the server that take and send nothing.
LEMMA ServerRests ==
    ASSUME IInv, \/ ServerHasDrained \/ ServerFails \/ ServerInterrupted \/ ServerExits
                 \/ ServerSendsStop /\ UNCHANGED <<serverq, clientq>>
    PROVE  IInv'
<1> USE DEF IInv
<1>1. /\ UNCHANGED <<kind, main, child, client_id, pending, clients, curr_id, serverq, clientq, Registered>>
      /\ todo' \subseteq todo /\ (Serves' => Serves /\ todo' = todo)
      /\ unstopped' \subseteq Registered
      /\ unstopped' # {} => server' \in {"stop", "await", "failed"}
  BY DEF ServerHasDrained, ServerFails, ServerInterrupted, ServerExits, ServerSendsStop,
         clientVars, Registered, Serves, Table, TypeOK
<1>2. TypeOK'
  BY ServerTypes DEF ServerRuns
<1>3. Hands' /\ Requests' /\ Table'
  <2>1. Hands' /\ Requests'
    BY <1>1 DEF Hands, Requests, Asking, Asks
  <2>2. Table'
    BY <1>1 DEF Table, Left, Asking
  <2> QED
    BY <2>1, <2>2
<1>4. Replied'
  BY <1>1 DEF Replied, Asking, Greeted
<1>5. \A owner : IsOwned(owner) => IsOwned(owner)'
  BY <1>1 DEF IsOwned, IsFor, Left, Asking
<1>6. Noted'
  BY <1>1 DEF Noted, Serves, Left
<1> QED
  BY <1>1, <1>2, <1>3, <1>4, <1>5, <1>6 DEF Owned

\* A message sent to a client that has asked and is not asking any more, that is
\* for it, and that is not the first it gets unless it is an INIT or a STOP.
LEMMA ServerPuts ==
    ASSUME IInv, NEW c \in Clients, NEW m \in Message, PutTo(c, m),
           UNCHANGED <<kind, main, child, client_id, pending, clients, curr_id, serverq>>,
           TypeOK', ~Asking(c), \A owner : IsOwned(owner) => IsFor(owner, c, m),
           m.type \in {"INIT", "STOP"} \/ Greeted(c),
           todo' \subseteq todo, Serves' => Serves,
           Serves' => \A letter \in todo \ todo' : letter.to = c,
           unstopped' \subseteq unstopped, unstopped' # {} => server' \in {"stop", "await", "failed"}
    PROVE  IInv'
<1> USE DEF IInv
<1>1. /\ clientq'[c] = Append(clientq[c], m) /\ \A d \in Clients \ {c} : clientq'[d] = clientq[d]
      /\ \A d \in Clients : clientq[d] \in Seq(Message)
  BY DEF PutTo, TypeOK
<1>2. /\ DOMAIN clientq'[c] = 1 .. Len(clientq[c]) + 1 /\ DOMAIN clientq[c] = 1 .. Len(clientq[c])
      /\ Len(clientq[c]) \in Nat /\ clientq'[c][Len(clientq[c]) + 1] = m
      /\ \A j \in 1 .. Len(clientq[c]) : clientq'[c][j] = clientq[c][j]
  BY <1>1, Addition
<1>3. /\ clientq'[c] # <<>> /\ (clientq[c] = <<>> => clientq'[c][1] = m)
      /\ (clientq[c] # <<>> => clientq'[c][1] = clientq[c][1])
  <2>1. clientq[c] = <<>> <=> Len(clientq[c]) = 0
    BY <1>1
  <2> QED
    BY <1>2, <2>1
<1>4. UNCHANGED Registered /\ (\A d \in Clients : Asking(d)' <=> Asking(d)) /\ (\A d : Left(d)' <=> Left(d))
  BY DEF Registered, Asking, Left
<1>5. (\A d \in Clients : Greeted(d) => Greeted(d)') /\ Greeted(c)'
  BY <1>1, <1>3 DEF Greeted
<1>6. PICK owner \in [1 .. curr_id - 1 -> Clients] : IsOwned(owner)
  BY DEF Owned
<1>7. \A i \in Registered : clients[i].queue \in Clients
  BY <1>6 DEF IsOwned
<1>8. \A letter \in todo : letter.to \in Queues
  BY DEF TypeOK
<1>9. Hands' /\ Table'
  BY <1>4 DEF Hands, Table
<1>10. Requests'
  BY <1>1, <1>4 DEF Requests
<1>11. Replied'
  <2>1. \A d \in Clients : main[d] = "reply" /\ clientq'[d] # <<>> => clientq'[d][1].type \in {"INIT", "STOP"}
    BY <1>1, <1>3 DEF Replied, Greeted
  <2>2. Serves' => \A i \in Registered : Greeted(clients[i].queue)'
           \/ \E letter \in todo' : letter.to = clients[i].queue /\ letter.message.type = "INIT"
    <3> SUFFICES ASSUME Serves', NEW i \in Registered
                 PROVE  Greeted(clients[i].queue)'
                        \/ \E letter \in todo' : letter.to = clients[i].queue /\ letter.message.type = "INIT"
      BY <1>4
    <3> DEFINE q == clients[i].queue
    <3>1. Greeted(q) \/ \E letter \in todo : letter.to = q /\ letter.message.type = "INIT"
      BY DEF Replied
    <3>2. Greeted(q)' \/ \E letter \in todo' : letter.to = q /\ letter.message.type = "INIT"
      BY <1>5, <1>7, <3>1
    <3> QED
      BY <3>2
  <2>3. \A letter \in todo' : letter.to \in Clients =>
           ~Asking(letter.to)' /\ (letter.message.type # "INIT" => Greeted(letter.to)')
    BY <1>4, <1>5, <1>8 DEF Replied
  <2> QED
    BY <1>4, <2>1, <2>2, <2>3 DEF Replied
<1>12. IsOwned(owner)'
  <2>1. \A d \in Clients : \A k \in DOMAIN clientq'[d] : IsFor(owner, d, clientq'[d][k])
    <3>1. \A d \in Clients : \A k \in DOMAIN clientq[d] : IsFor(owner, d, clientq[d][k])
      BY <1>6 DEF IsOwned
    <3>2. IsFor(owner, c, m)
      BY <1>6
    <3>3. \A k \in DOMAIN clientq'[c] : k \in DOMAIN clientq[c] \/ k = Len(clientq[c]) + 1
      BY <1>2
    <3>4. \A k \in DOMAIN clientq'[c] : IsFor(owner, c, clientq'[c][k])
      BY <1>2, <3>1, <3>2, <3>3
    <3> QED
      BY <1>1, <3>1, <3>4
  <2> QED
    BY <1>4, <1>6, <2>1 DEF IsOwned, IsFor
<1>13. Noted'
  BY <1>4 DEF Noted, Left, Serves
<1> QED
  BY <1>6, <1>9, <1>10, <1>11, <1>12, <1>13 DEF Owned

\* A message to -1 that comes back to the server as an order.
LEMMA ServerToItself ==
    ASSUME IInv, NEW letter \in todo, letter.to = ServerQueue, PutTo(letter.to, letter.message),
           UNCHANGED <<kind, main, child, client_id, pending, clients, curr_id, unstopped>>,
           TypeOK', todo' \subseteq todo, Serves, Serves' => \A l \in todo \ todo' : l = letter
    PROVE  IInv'
<1> USE DEF IInv
<1>1. /\ serverq' = Append(serverq, letter.message) /\ letter.message.type = "2ONE" /\ letter.message \in Message
      /\ serverq \in Seq(Message) /\ UNCHANGED <<clientq, Registered>> /\ unstopped = {}
  BY Numbers DEF PutTo, TypeOK, Replied, Registered, Table, Serves
<1>2. /\ \A j \in DOMAIN serverq : j \in DOMAIN serverq' /\ serverq'[j] = serverq[j]
      /\ \A j \in DOMAIN serverq' : j \in DOMAIN serverq \/ serverq'[j].type = "2ONE"
  BY <1>1, Addition
<1>3. \A d \in Clients : (Asking(d)' <=> Asking(d)) /\ (Greeted(d)' <=> Greeted(d)) /\ (Left(d)' <=> Left(d))
  BY <1>1, <1>2 DEF Asking, Asks, Greeted, Left
<1>4. Hands' /\ Table'
  BY <1>1, <1>3 DEF Hands, Table
<1>5. Requests'
  BY <1>1, <1>2, <1>3 DEF Requests, Asks
<1>6. PICK owner \in [1 .. curr_id - 1 -> Clients] : IsOwned(owner)
  BY DEF Owned
<1>7. \A i \in Registered : clients[i].queue \in Clients
  BY <1>6 DEF IsOwned
<1>8. letter.to \notin Clients
  BY Numbers
<1>9. Replied'
  <2>1. Serves' => \A i \in Registered : Greeted(clients[i].queue)'
           \/ \E l \in todo' : l.to = clients[i].queue /\ l.message.type = "INIT"
    BY <1>1, <1>3, <1>7, <1>8 DEF Replied
  <2> QED
    BY <1>1, <1>3, <2>1 DEF Replied
<1>10. IsOwned(owner)'
  <2>1. \A n \in DOMAIN owner : owner[n] \in Clients
    BY <1>6
  <2> QED
    BY <1>1, <1>2, <1>3, <1>6, <2>1 DEF IsOwned, IsFor, Left
<1>11. Noted'
  BY <1>1, <1>2, <1>3, <1>7 DEF Noted
<1> QED
  BY <1>4, <1>5, <1>6, <1>9, <1>10, <1>11 DEF Owned

\* The letters of an order, and the STOP of an interrupted server, go out.
LEMMA ServerWrites == ASSUME IInv, ServerSends \/ ServerSendsStop PROVE IInv'
<1> USE DEF IInv
<1>1. TypeOK'
  BY ServerTypes DEF ServerRuns
<1>2. \A m, c : PutTo(c, m) => (c \in Clients /\ UNCHANGED serverq) \/ c = ServerQueue
  BY DEF PutTo
<1>3. CASE ServerSends
  <2>1. PICK letter \in todo : PutTo(letter.to, letter.message) /\ Sends(todo \ {letter})
    BY <1>3 DEF ServerSends
  <2>2. letter.to \in Queues /\ letter.message \in Message
    BY DEF TypeOK
  <2>3. /\ UNCHANGED <<kind, main, child, client_id, pending, clients, curr_id>>
        /\ todo' = todo \ {letter} /\ Serves /\ unstopped = {} /\ UNCHANGED unstopped
    BY <1>3, <2>1 DEF ServerSends, Sends, clientVars, Serves, Table
  <2>4. CASE letter.to = ServerQueue
    BY <1>1, <2>1, <2>2, <2>3, <2>4, ServerToItself
  <2>5. CASE letter.to \in Clients /\ UNCHANGED serverq
    <3>1. \A owner : IsOwned(owner) => IsFor(owner, letter.to, letter.message)
      BY <2>5 DEF IsOwned
    <3>2. ~Asking(letter.to) /\ (letter.message.type # "INIT" => Greeted(letter.to))
      BY <2>5 DEF Replied
    <3> QED
      BY <1>1, <2>1, <2>2, <2>3, <2>5, <3>1, <3>2, ServerPuts
  <2> QED
    BY <1>2, <2>1, <2>4, <2>5
<1>4. CASE ServerSendsStop /\ ~UNCHANGED <<serverq, clientq>>
  <2> DEFINE q == clients[Least(unstopped)].queue
             m == Msg("STOP", 0, 0)
  <2>1. PutTo(q, m) /\ server' = "await"
    BY <1>4 DEF ServerSendsStop
  <2>2. Least(unstopped) \in Registered
    <3>1. unstopped \in SUBSET Nat /\ unstopped # {}
      BY <1>4, Numbers DEF ServerSendsStop, TypeOK
    <3> QED
      BY <3>1, LeastIs DEF Table
  <2>3. q \in Clients /\ ~Asking(q)
    BY <2>2 DEF IsOwned, Owned
  <2>4. m \in Message /\ m.type = "STOP" /\ m.id = 0
    BY Numbers
  <2>5. \A owner : IsFor(owner, q, m)
    BY <2>4 DEF IsFor
  <2>6. /\ UNCHANGED <<kind, main, child, client_id, pending, clients, curr_id, serverq, todo>>
        /\ unstopped' \subseteq unstopped
    BY <1>2, <1>4, <2>1, <2>3, Numbers DEF ServerSendsStop, clientVars
  <2> HIDE DEF m
  <2>7. PICK c \in Clients : c = q
    BY <2>3
  <2> HIDE DEF q
  <2>8. ~Serves'
    BY <2>1 DEF Serves
  <2>9. \A owner : IsFor(owner, c, m)
    BY <2>5, <2>7
  <2>10. PutTo(c, m) /\ ~Asking(c)
    BY <2>1, <2>3, <2>7
  <2> QED
    BY <1>1, <2>1, <2>4, <2>6, <2>8, <2>9, <2>10, ServerPuts
<1> QED
  BY <1>3, <1>4, ServerRests

\* An interrupted server waits for an answer.
LEMMA ServerAwaits == ASSUME IInv, ServerAwaitsStop PROVE IInv'
<1> USE DEF IInv
<1>1. TypeOK'
  BY ServerTypes DEF ServerRuns
<1>2. serverq \in Seq(Message)
  BY DEF TypeOK
<1>3. PICK k \in DOMAIN serverq : serverq' = RemoveAt(serverq, k)
  BY <1>2, OldestIs, MostUrgentIs DEF ServerAwaitsStop
<1>4. /\ UNCHANGED <<kind, main, child, client_id, pending, clients, curr_id, todo, unstopped, clientq, Registered>>
      /\ server' = "stop" /\ ~Serves'
  BY DEF ServerAwaitsStop, clientVars, Registered, Serves
<1>5. /\ \A j \in DOMAIN serverq' : \E i \in DOMAIN serverq : serverq'[j] = serverq[i]
      /\ (\A d \in Clients : Asking(d)' => Asking(d)) /\ Requests'
  BY <1>3, <1>4, ServerTaken
<1>6. Hands' /\ Table' /\ Noted'
  BY <1>4, <1>5 DEF Hands, Table, Left, Noted, Serves
<1>7. Replied'
  <2>1. \A letter \in todo : letter.to \in Queues
    BY DEF TypeOK
  <2> QED
    BY <1>4, <1>5, <2>1 DEF Replied, Greeted
<1>8. \A owner \in [1 .. curr_id - 1 -> Clients] : IsOwned(owner) => IsOwned(owner)'
  BY <1>4, <1>5 DEF IsOwned, IsFor, Left
<1> QED
  BY <1>1, <1>4, <1>5, <1>6, <1>7, <1>8 DEF Owned

\* An order that leaves the table as it is: its letters go to clients that have
\* asked, are for them, and are no client's first unless they answer it.
LEMMA ServerAnswers ==
    ASSUME IInv, TypeOK', NEW k \in DOMAIN serverq, serverq' = RemoveAt(serverq, k),
           server \in {"drain", "wait"},
           UNCHANGED <<kind, main, child, client_id, pending, clients, curr_id, unstopped, clientq>>,
           serverq[k].type = "STOP" => \A i \in Registered : clients[i].id # serverq[k].id,
           \A letter \in todo' : letter.to \notin Clients => letter.message.type = "2ONE",
           \A letter \in todo' : letter.to \in Clients =>
              /\ ~Asking(letter.to)'
              /\ letter.message.type # "INIT" => Greeted(letter.to)
              /\ \A owner : IsOwned(owner) => IsFor(owner, letter.to, letter.message)
    PROVE  IInv'
<1> USE DEF IInv
<1>1. todo = {} /\ unstopped = {} /\ Serves /\ UNCHANGED Registered
  BY DEF TypeOK, Table, Serves, Registered
<1>2. /\ \A j \in DOMAIN serverq' : \E i \in DOMAIN serverq : serverq'[j] = serverq[i]
      /\ \A i \in DOMAIN serverq \ {k} : \E j \in DOMAIN serverq' : serverq'[j] = serverq[i]
      /\ (\A d \in Clients : Asking(d)' => Asking(d)) /\ Requests'
  BY ServerTaken
<1>3. Hands' /\ Table'
  BY <1>1, <1>2 DEF Hands, Table, Left
<1>4. PICK owner \in [1 .. curr_id - 1 -> Clients] : IsOwned(owner)
  BY DEF Owned
<1>5. Replied'
  <2>1. \A i \in Registered : Greeted(clients[i].queue)
    BY <1>1 DEF Replied
  <2> QED
    BY <1>1, <2>1 DEF Replied, Greeted
<1>6. IsOwned(owner)'
  <2>1. \A letter \in todo' : letter.to \in Clients => IsFor(owner, letter.to, letter.message)
    BY <1>4
  <2> QED
    BY <1>1, <1>2, <1>4, <2>1 DEF IsOwned, IsFor, Left
<1>7. Noted'
  <2> SUFFICES ASSUME NEW i \in Registered
               PROVE  LET c == clients[i].queue IN
                         \/ ~Left(c) \/ client_id[c] = 0
                         \/ \E j \in DOMAIN serverq' : serverq'[j].type = "STOP" /\ serverq'[j].id = clients[i].id
    BY <1>1 DEF Noted, Left
  <2> QED
    BY <1>1, <1>2 DEF Noted, Serves
<1> QED
  BY <1>2, <1>3, <1>4, <1>5, <1>6, <1>7 DEF Owned

\* A client that ends frees its slot.
LEMMA ServerFrees ==
    ASSUME IInv, TypeOK', NEW k \in DOMAIN serverq, serverq' = RemoveAt(serverq, k),
           server \in {"drain", "wait"}, serverq[k].type = "STOP", msg_stop(serverq[k]),
           UNCHANGED <<kind, main, child, client_id, pending, unstopped, clientq>>
    PROVE  IInv'
<1> USE DEF IInv
<1> DEFINE m == serverq[k]
           i == Least({j \in Slots : clients[j].id = m.id})
<1>1. CASE {j \in Slots : clients[j].id = m.id} = {}
  <2>1. UNCHANGED <<clients, curr_id>> /\ todo' = {}
    BY <1>1 DEF msg_stop, Sends
  <2>2. \A j \in Registered : clients[j].id # m.id
    BY <1>1 DEF Registered
  <2> QED
    BY <2>1, <2>2, ServerAnswers
<1>2. CASE {j \in Slots : clients[j].id = m.id} # {}
  <2>1. i \in Slots /\ clients[i].id = m.id
    BY <1>2, Numbers, LeastIs
  <2>2. /\ clients' = [clients EXCEPT ![i] = [id |-> Free, queue |-> IF kind = "posix" THEN NoQueue ELSE @.queue]]
        /\ todo' = {} /\ UNCHANGED curr_id
    BY <1>2 DEF msg_stop, Sends
  <2>3. PICK owner \in [1 .. curr_id - 1 -> Clients] : IsOwned(owner)
    BY DEF Owned
  <2>4. /\ i \in Registered /\ m.id \in DOMAIN owner
        /\ clients[i].queue = owner[m.id] /\ Left(owner[m.id])
    <3>1. m.id # 0 => m.id \in DOMAIN owner /\ Left(owner[m.id])
      BY <2>3 DEF IsOwned
    <3>2. m.id # Free
      BY <3>1 DEF Free
    <3>3. i \in Registered
      BY <2>1, <3>2 DEF Registered
    <3>4. m.id \in DOMAIN owner /\ clients[i].queue = owner[m.id]
      BY <2>1, <2>3, <3>3 DEF IsOwned
    <3> QED
      BY <3>1, <3>3, <3>4
  <2>5. i \in Slots /\ clients \in [Slots -> [id : Ids, queue : Queues]] /\ kind \in {"sysv", "posix"}
    BY <2>1, ChatAssumption DEF TypeOK
  <2> HIDE DEF i
  <2>6. /\ \A j \in Slots \ {i} : clients'[j] = clients[j]
        /\ clients'[i].id = Free /\ clients'[i].queue = IF kind = "posix" THEN NoQueue ELSE clients[i].queue
    BY <2>2, <2>5
  <2>7. Registered' = Registered \ {i}
        /\ (clients'[i].queue \in Clients => clients'[i].queue = owner[m.id])
    <3>1. Registered' = Registered \ {i}
      BY <2>4, <2>5, <2>6 DEF Registered
    <3>2. NoQueue \notin Clients
      BY Numbers
    <3> QED
      BY <2>4, <2>6, <3>1, <3>2
  <2>8. unstopped = {} /\ Serves /\ todo = {}
    BY DEF TypeOK, Table, Serves
  <2>9. /\ \A j \in DOMAIN serverq' : \E n \in DOMAIN serverq : serverq'[j] = serverq[n]
        /\ \A n \in DOMAIN serverq \ {k} : \E j \in DOMAIN serverq' : serverq'[j] = serverq[n]
        /\ (\A d \in Clients : Asking(d)' => Asking(d)) /\ Requests'
    BY ServerTaken
  <2>10. Registered \subseteq Slots
    BY DEF Registered
  <2>11. Hands' /\ Table'
    <3>1. ~Asking(owner[m.id]) /\ owner[m.id] \in Clients
      BY <2>3, <2>4 DEF IsOwned
    <3>2. \A j \in Slots \ Registered', c \in Clients : clients'[j].queue = c => Left(c)' /\ ~Asking(c)'
      BY <2>4, <2>6, <2>7, <2>9, <2>10, <3>1 DEF Table, Left
    <3> QED
      BY <2>6, <2>7, <2>8, <2>10, <3>2 DEF Hands, Table, Left
  <2>12. Replied'
    <3>1. \A j \in Registered : Greeted(clients[j].queue)
      BY <2>8 DEF Replied
    <3>2. \A j \in Registered' : Greeted(clients'[j].queue)
      BY <2>6, <2>7, <2>10, <3>1
    <3> QED
      BY <2>2, <3>2 DEF Replied, Greeted
  <2>13. IsOwned(owner)'
    BY <2>2, <2>3, <2>6, <2>7, <2>9, <2>10 DEF IsOwned, IsFor, Left
  <2>14. Noted'
    <3> SUFFICES ASSUME NEW j \in Registered \ {i}
                 PROVE  LET c == clients[j].queue IN
                           \/ ~Left(c) \/ client_id[c] = 0
                           \/ \E n \in DOMAIN serverq' : serverq'[n].type = "STOP" /\ serverq'[n].id = clients[j].id
      BY <2>6, <2>7, <2>10 DEF Noted, Left
    <3>1. clients[j].id # m.id
      BY <2>1, <2>4 DEF Table, i
    <3> QED
      BY <2>8, <2>9, <3>1 DEF Noted, Serves
  <2> QED
    BY <2>2, <2>3, <2>9, <2>11, <2>12, <2>13, <2>14 DEF Owned
<1> QED
  BY <1>1, <1>2

\* A client that is accepted gets a free slot, and an id nobody had.
LEMMA ServerAccepts ==
    ASSUME IInv, TypeOK', NEW k \in DOMAIN serverq, serverq' = RemoveAt(serverq, k),
           server \in {"drain", "wait"}, serverq[k].type = "INIT",
           Registered # Slots, Accepts(serverq[k]), curr_id' = curr_id + 1,
           UNCHANGED <<kind, main, child, client_id, pending, unstopped, clientq>>
    PROVE  IInv'
<1> USE DEF IInv
<1> DEFINE i == Least(Slots \ Registered)
<1>1. PICK c \in Clients : serverq[k].info = c
  BY DEF Requests
<1>2. Asking(c) /\ Asks(serverq[k], c)
  BY <1>1 DEF Asking, Asks
<1>3. client_id[c] = 0 /\ clientq[c] = <<>> /\ main[c] \notin {"off", "init"}
  BY <1>2 DEF Requests
<1>4. i \in Slots \ Registered
  <2>1. Slots \ Registered \in SUBSET Nat /\ Slots \ Registered # {}
    BY Numbers DEF Registered
  <2> QED
    BY <2>1, LeastIs
<1>5. /\ todo' = {Letter(i, c, Msg("INIT", curr_id, -1))} /\ server' = "send"
      /\ clients' = [clients EXCEPT ![i] = [id |-> curr_id, queue |-> c]]
  BY <1>1 DEF Accepts, Sends
<1> HIDE DEF i
<1>6. clients \in [Slots -> [id : Ids, queue : Queues]] /\ curr_id \in Nat \ {0}
  BY Numbers DEF TypeOK
<1>7. /\ \A j \in Slots \ {i} : clients'[j] = clients[j]
      /\ clients'[i].id = curr_id /\ clients'[i].queue = c
  BY <1>4, <1>5, <1>6
<1>8. Registered' = Registered \cup {i} /\ Registered \subseteq Slots
  <2>1. curr_id # Free
    BY <1>6 DEF Free
  <2> QED
    BY <1>4, <1>7, <2>1 DEF Registered
<1>9. unstopped = {} /\ Serves /\ todo = {}
  BY DEF TypeOK, Table, Serves
<1>10. /\ \A j \in DOMAIN serverq' : \E n \in DOMAIN serverq : serverq'[j] = serverq[n]
       /\ \A n \in DOMAIN serverq \ {k} : \E j \in DOMAIN serverq' : serverq'[j] = serverq[n]
       /\ (\A d \in Clients : Asking(d)' => Asking(d)) /\ ~Asking(c)' /\ Requests'
  BY <1>2, ServerTaken
<1>11. PICK owner \in [1 .. curr_id - 1 -> Clients] : IsOwned(owner)
  BY DEF Owned
<1>12. PICK more : more = [n \in 1 .. curr_id |-> IF n = curr_id THEN c ELSE owner[n]]
  OBVIOUS
<1>13. /\ more \in [1 .. curr_id' - 1 -> Clients] /\ DOMAIN more = 1 .. curr_id /\ more[curr_id] = c
       /\ DOMAIN owner = 1 .. curr_id - 1
       /\ \A n \in DOMAIN owner : n \in DOMAIN more /\ n # curr_id /\ more[n] = owner[n] /\ owner[n] \in Clients
       /\ \A n \in DOMAIN more : n = curr_id \/ n \in DOMAIN owner
  BY <1>6, <1>12
<1>14. \A j \in Registered : clients[j].id \in DOMAIN owner /\ clients[j].queue = owner[clients[j].id]
  BY <1>11 DEF IsOwned
<1>15. Hands' /\ Table'
  <2>1. \A j \in Registered : clients'[j].id # curr_id
    BY <1>4, <1>7, <1>8, <1>13, <1>14
  <2>2. \A j, n \in Registered' : clients'[j].id = clients'[n].id => j = n
    BY <1>4, <1>7, <1>8, <2>1 DEF Table
  <2>3. \A j \in Slots \ Registered', d \in Clients : clients'[j].queue = d => Left(d)' /\ ~Asking(d)'
    BY <1>7, <1>8, <1>10 DEF Table, Left
  <2>4. Table'
    BY <1>8, <1>9, <2>2, <2>3 DEF Table, Left
  <2> QED
    BY <2>4 DEF Hands
<1>16. \A l \in todo' : l.to = c /\ l.message.type = "INIT" /\ l.message.id = curr_id
  BY <1>5, Numbers DEF Letter
<1>17. Replied'
  <2>1. \A j \in Registered : Greeted(clients[j].queue)
    BY <1>9 DEF Replied
  <2>2. \A j \in Registered' : Greeted(clients'[j].queue) \/ clients'[j].queue = c
    BY <1>4, <1>7, <1>8, <2>1
  <2>3. \E l \in todo' : l.to = c /\ l.message.type = "INIT"
    BY <1>5, <1>16
  <2> QED
    BY <1>10, <1>16, <2>2, <2>3 DEF Replied, Greeted
<1>18. IsOwned(more)'
  <2>1. \A m, n \in DOMAIN more : more[m] = more[n] => m = n
    <3>1. \A n \in DOMAIN owner : owner[n] # c
      BY <1>2, <1>11 DEF IsOwned
    <3>2. \A m, n \in DOMAIN owner : owner[m] = owner[n] => m = n
      BY <1>11 DEF IsOwned
    <3> QED
      BY <1>13, <3>1, <3>2
  <2>2. \A d \in Clients : client_id[d] # 0 => client_id[d] \in DOMAIN more /\ more[client_id[d]] = d
    BY <1>11, <1>13 DEF IsOwned
  <2>3. \A j \in Registered' : clients'[j].id \in DOMAIN more /\ clients'[j].queue = more[clients'[j].id]
    BY <1>4, <1>7, <1>8, <1>13, <1>14, <1>6
  <2>4. \A d, m : IsFor(owner, d, m) => IsFor(more, d, m)
    BY <1>13 DEF IsFor
  <2>5. \A d \in Clients : \A n \in DOMAIN clientq[d] : IsFor(more, d, clientq[d][n])
    BY <1>11, <2>4 DEF IsOwned
  <2>6. \A l \in todo' : IsFor(more, l.to, l.message)
    BY <1>6, <1>13, <1>16 DEF IsFor
  <2>7. \A n \in DOMAIN serverq' : (serverq'[n].type = "STOP" /\ serverq'[n].id # 0) =>
           serverq'[n].id \in DOMAIN more /\ main'[more[serverq'[n].id]] \in {"leaves", "exited"}
    BY <1>10, <1>11, <1>13 DEF IsOwned, Left
  <2>8. \A n \in DOMAIN more : ~Asking(more[n])'
    <3>1. \A n \in DOMAIN owner : ~Asking(owner[n])
      BY <1>11 DEF IsOwned
    <3> QED
      BY <1>10, <1>13, <3>1
  <2> QED
    BY <2>1, <2>2, <2>3, <2>5, <2>6, <2>7, <2>8 DEF IsOwned, IsFor, Left
<1>19. Noted'
  <2> SUFFICES ASSUME NEW j \in Registered'
               PROVE  LET d == clients'[j].queue IN
                         \/ ~Left(d) \/ client_id[d] = 0
                         \/ \E n \in DOMAIN serverq' : serverq'[n].type = "STOP" /\ serverq'[n].id = clients'[j].id
    BY DEF Noted, Left
  <2>1. CASE j = i
    BY <1>3, <1>7, <2>1
  <2>2. CASE j # i
    BY <1>4, <1>7, <1>8, <1>9, <1>10, <2>2 DEF Noted, Serves
  <2> QED
    BY <2>1, <2>2
<1> QED
  BY <1>10, <1>13, <1>15, <1>17, <1>18, <1>19 DEF Owned

\* An order taken from the queue.
LEMMA ServerOrders == ASSUME IInv, TypeOK', NEW k \in DOMAIN serverq, server \in {"drain", "wait"}, Take(k)
                      PROVE  IInv'
<1> DEFINE m == serverq[k]
<1> USE DEF IInv
<1>1. /\ UNCHANGED <<kind, main, child, client_id, pending, unstopped, clientq>>
      /\ serverq' = RemoveAt(serverq, k) /\ execute_client_order(m)
  BY DEF Take, execute_client_order, clientVars
<1>2. todo = {} /\ Serves
  BY DEF TypeOK, Serves
<1>3. \A i \in Registered : clients[i].queue \in Clients /\ ~Asking(clients[i].queue) /\ Greeted(clients[i].queue)
  BY <1>2 DEF Owned, IsOwned, Replied
<1>4. \A d \in Clients : Asking(d)' => Asking(d)
  BY <1>1, ServerTaken
<1>5. \A letters : Sends(letters) => todo' = letters
  BY DEF Sends
<1>6. \A i, c, msg : Letter(i, c, msg).to = c /\ Letter(i, c, msg).message = msg
  BY DEF Letter
<1>7. CASE m.type = "STOP" /\ msg_stop(m)
  BY <1>1, <1>7, ServerFrees
<1>8. CASE m.type = "LIST" /\ Sends({}) /\ UNCHANGED <<clients, curr_id>>
  BY <1>1, <1>5, <1>8, ServerAnswers
<1>9. CASE m.type = "INIT" /\ msg_init(m)
  <2>1. CASE server' = "failed" /\ UNCHANGED <<clients, curr_id, todo>>
    BY <1>1, <1>2, <1>9, <2>1, ServerAnswers
  <2>2. CASE Refuses(m) /\ UNCHANGED curr_id
    <3> DEFINE msg == Msg("INIT", Free, -1)
    <3>1. PICK c \in Clients : m.info = c
      BY <1>9 DEF Requests
    <3>2. ~Asking(c)'
      BY <1>1, <1>9, <3>1, ServerTaken DEF Asks
    <3>3. todo' = {Letter(MAX_NUM_OF_CLIENTS, c, msg)} /\ UNCHANGED clients
      BY <1>5, <2>2, <3>1 DEF Refuses
    <3>4. \A owner : IsFor(owner, c, msg)
      BY Numbers DEF IsFor
    <3>5. \A letter \in todo' : letter.to = c /\ letter.message = msg
      BY <1>6, <3>3
    <3>6. msg.type = "INIT"
      BY Numbers
    <3> HIDE DEF msg
    <3> QED
      BY <1>1, <1>9, <2>2, <3>2, <3>3, <3>4, <3>5, <3>6, ServerAnswers
  <2>3. CASE Registered # Slots /\ Accepts(m) /\ curr_id' = curr_id + 1
    BY <1>1, <1>9, <2>3, ServerAccepts
  <2> QED
    BY <1>9, <2>1, <2>2, <2>3 DEF msg_init
<1>10. CASE m.type = "2ALL" /\ msg_2all(m)
  <2>1. \A letter \in todo' : \E i \in Registered :
           letter.to = clients[i].queue /\ letter.message = Msg("2ALL", m.id, 0)
    BY <1>5, <1>6, <1>10 DEF msg_2all
  <2>2. \A owner, c, id : IsFor(owner, c, Msg("2ALL", id, 0))
    BY Numbers DEF IsFor
  <2>3. \A letter \in todo' : /\ letter.to \in Clients /\ ~Asking(letter.to)' /\ Greeted(letter.to)
                              /\ \A owner : IsFor(owner, letter.to, letter.message)
    BY <1>3, <1>4, <2>1, <2>2
  <2> QED
    BY <1>1, <1>10, <2>3, ServerAnswers DEF msg_2all
<1>11. CASE m.type = "2ONE" /\ msg_2one(m)
  <2> DEFINE i == Least({j \in Slots : clients[j].id = m.info})
  <2>1. UNCHANGED <<clients, curr_id>>
    BY <1>11 DEF msg_2one
  <2>2. \A letter \in todo' : i \in Slots /\ clients[i].id = m.info
                              /\ letter.to = clients[i].queue /\ letter.message = Msg("2ONE", m.id, m.info)
    <3>1. {j \in Slots : clients[j].id = m.info} # {} => i \in Slots /\ clients[i].id = m.info
      BY Numbers, LeastIs
    <3>2. \/ todo' = {}
          \/ /\ {j \in Slots : clients[j].id = m.info} # {}
             /\ todo' = {Letter(i, clients[i].queue, Msg("2ONE", m.id, m.info))}
      BY <1>5, <1>11 DEF msg_2one
    <3> HIDE DEF i
    <3> QED
      BY <1>6, <3>1, <3>2
  <2> HIDE DEF i
  <2>3. ASSUME NEW letter \in todo', letter.to \in Clients
        PROVE  /\ ~Asking(letter.to)' /\ Greeted(letter.to)
               /\ \A owner : IsOwned(owner) => IsFor(owner, letter.to, letter.message)
    <3>1. letter.message.type = "2ONE" /\ letter.message.info = m.info
      BY <2>2, Numbers
    <3>2. CASE i \in Registered
      <4>1. ~Asking(letter.to)' /\ Greeted(letter.to)
        BY <1>3, <1>4, <2>2, <3>2
      <4>2. ASSUME NEW owner, IsOwned(owner) PROVE IsFor(owner, letter.to, letter.message)
        <5>1. clients[i].id \in DOMAIN owner /\ clients[i].queue = owner[clients[i].id]
          BY <3>2, <4>2 DEF IsOwned
        <5> QED
          BY <2>2, <3>1, <5>1 DEF IsFor
      <4> QED
        BY <4>1, <4>2
    <3>3. CASE i \notin Registered
      <4>1. m.info = Free /\ Left(letter.to) /\ ~Asking(letter.to)
        BY <2>2, <2>3, <3>3 DEF Table, Registered
      <4>2. Greeted(letter.to)
        BY <4>1 DEF Left, Greeted
      <4>3. \A owner : IsFor(owner, letter.to, letter.message)
        BY <3>1, <4>1 DEF IsFor
      <4> QED
        BY <1>4, <2>3, <4>1, <4>2, <4>3
    <3> QED
      BY <3>2, <3>3
  <2>4. \A letter \in todo' : letter.message.type = "2ONE"
    BY <2>2, Numbers
  <2> QED
    BY <1>1, <1>11, <2>1, <2>3, <2>4, ServerAnswers
<1> QED
  BY <1>1, <1>7, <1>8, <1>9, <1>10, <1>11 DEF execute_client_order

\* A step of the server keeps the invariant.
LEMMA ServerInv == ASSUME IInv, ServerRuns \/ ServerInterrupted PROVE IInv'
<1>1. TypeOK' /\ serverq \in Seq(Message)
  BY ServerTypes DEF IInv, TypeOK
<1>2. CASE ServerDrains
  <2>1. MostUrgent(serverq) \in DOMAIN serverq
    BY <1>1, <1>2, MostUrgentIs DEF ServerDrains, Wanted
  <2> QED
    BY <1>1, <1>2, <2>1, ServerOrders DEF ServerDrains
<1>3. CASE ServerTakes
  <2>1. MostUrgent(serverq) \in DOMAIN serverq /\ 1 \in DOMAIN serverq
    BY <1>1, <1>3, MostUrgentIs DEF ServerTakes
  <2> QED
    BY <1>1, <1>3, <2>1, ServerOrders DEF ServerTakes
<1> QED
  BY <1>2, <1>3, ServerRests, ServerWrites, ServerAwaits DEF ServerRuns

-------------------------------------------------------------------------------
(* Theorems *)

\* Whatever the clients and the server do, in any order, the invariant holds.
THEOREM Invariance == Spec => []IInv
<1>1. Init => IInv
  BY InitInv
<1>2. IInv /\ [Next]_vars => IInv'
  <2> SUFFICES ASSUME IInv, [Next]_vars PROVE IInv'
    OBVIOUS
  <2>1. CASE ServerRuns \/ ServerInterrupted
    BY <2>1, ServerInv
  <2>2. ASSUME NEW c \in Clients,
               ClientStarts(c) \/ ClientRuns(c) \/ UserOrders(c) \/ UserStops(c) \/ UserInterrupts(c)
        PROVE  IInv'
    BY <2>2, ClientInv
  <2>3. CASE UNCHANGED vars
    <3> USE <2>3 DEF vars, serverVars, clientVars
    <3>1. TypeOK' <=> TypeOK
      BY DEF TypeOK
    <3>2. (Hands' <=> Hands) /\ (Table' <=> Table)
      BY DEF Hands, Table, Registered, Left, Asking, Asks
    <3>3. (Requests' <=> Requests) /\ (Replied' <=> Replied)
      BY DEF Requests, Asking, Asks, Replied, Serves, Registered, Left, Greeted
    <3>4. Owned' <=> Owned
      BY DEF Owned, IsOwned, IsFor, Registered, Left, Asking, Asks
    <3>5. Noted' <=> Noted
      BY DEF Noted, Registered, Serves, Left
    <3> QED
      BY <3>1, <3>2, <3>3, <3>4, <3>5 DEF IInv
  <2> QED
    BY <2>1, <2>2, <2>3 DEF Next
<1> QED
  BY <1>1, <1>2, PTL DEF Spec

\* The ids of clients that run differ, and a message sent to one is only ever in
\* the queue of the client of that id, although slots are used again.
THEOREM IdsAreOwn == Spec => []OwnId
<1>1. IInv => OwnId
  <2> SUFFICES ASSUME IInv PROVE OwnId
    OBVIOUS
  <2>1. PICK owner \in [1 .. curr_id - 1 -> Clients] : IsOwned(owner)
    BY DEF IInv, Owned
  <2>2. \A c \in Clients : client_id[c] # 0 => client_id[c] \in DOMAIN owner /\ owner[client_id[c]] = c
    BY <2>1 DEF IsOwned
  <2>3. \A c \in Clients : \A k \in DOMAIN clientq[c] : clientq[c][k].type = "2ONE" =>
           \/ clientq[c][k].info \in DOMAIN owner /\ owner[clientq[c][k].info] = c
           \/ clientq[c][k].info = Free /\ Left(c)
    BY <2>1 DEF IsOwned, IsFor
  <2>5. \A c \in Clients : Left(c) => ~child[c]
    BY DEF IInv, TypeOK, Left
  <2>4. \A m, n \in DOMAIN owner : owner[m] = owner[n] => m = n
    BY <2>1 DEF IsOwned
  <2> QED
    BY <2>2, <2>3, <2>4, <2>5 DEF IInv, OwnId
<1> QED
  BY <1>1, Invariance, PTL

\* While the server serves, its table keeps nobody who has left without a STOP
\* that is on its way, but for those who left before they knew their id.
THEOREM TableIsAlive == Spec => []RegisteredIsAlive
<1>1. IInv => RegisteredIsAlive
  <2> SUFFICES ASSUME IInv PROVE RegisteredIsAlive
    OBVIOUS
  <2>1. \A i \in Registered : clients[i].queue \in Clients
    BY DEF IInv, Owned, IsOwned
  <2>2. \A c \in Clients : ClientUp(c) \/ client_id[c] = 0 \/ Left(c)
    BY DEF IInv, Hands, ClientUp, Left
  <2> QED
    BY <2>1, <2>2 DEF IInv, Noted, Serves, RegisteredIsAlive
<1> QED
  BY <1>1, Invariance, PTL

===============================================================================
