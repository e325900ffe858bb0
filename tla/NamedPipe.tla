------------------------------ MODULE NamedPipe ------------------------------
(* Producers, a FIFO and consumers (lab5/zad3): every producer cuts its input *)
(* into messages and writes them to the FIFO, the consumers take turns to     *)
(* read a message and to save it in its row of the output file.               *)
(*                                                                            *)
(* A message can be longer than what the FIFO takes in one piece, so it is    *)
(* two parts; the file lock on the FIFO keeps them together.  The lock on the *)
(* output file guards both the read of a message and save.  The stdio stream  *)
(* of a consumer keeps what save wrote (buf) until the next seek or fclose.   *)
EXTENDS RowFile

CONSTANTS
    Producers,      \* processes running producer.c
    Consumers,      \* processes that can be started to run consumer.c
    Row,            \* the row of the output file of each producer
    Messages,       \* messages of each producer
    FifoSize,       \* message parts the FIFO holds
    None            \* no process

ASSUME NamedPipeAssumption ==
    /\ Row \in [Producers -> Nat \ {0}]
    /\ \A p, q \in Producers : Row[p] = Row[q] => p = q
    /\ Messages \in [Producers -> Nat] /\ FifoSize \in Nat \ {0}
    /\ Producers \cap Consumers = {}
    /\ None \notin Producers \cup Consumers

VARIABLES
    pcP,        \* where each producer is
    sent,       \* message parts each producer has written
    pcC,        \* where each consumer is
    got,        \* the parts in each consumer's message buffer
    buf,        \* what each consumer's stream has not yet written to the file
    fifo,       \* the parts in the FIFO
    ends,       \* the processes that have the FIFO open, or are opening it
    flocks,     \* holders of the locks on the FIFO and on the output file
    file,       \* the output file
    saved       \* history: the texts passed to save, by row

vars == <<pcP, sent, pcC, got, buf, fifo, ends, flocks, file, saved>>
prodVars == <<pcP, sent>>
consVars == <<pcC, got, buf, file, saved>>

Parts(p) == 2 * Messages[p]
Part(p, k) == [from |-> p, msg |-> (k + 1) \div 2, half |-> 2 - (k % 2)]
Readers == ends \cap Consumers
Writers == ends \cap Producers
Rows == {Row[p] : p \in Producers}
Texts(p) == [k \in 1 .. Messages[p] |-> <<p, k>>]

Init ==
    /\ pcP = [p \in Producers |-> "fopen"]
    /\ sent = [p \in Producers |-> 0]
    /\ \E started \in SUBSET Consumers \ {{}} :
         pcC = [c \in Consumers |-> IF c \in started THEN "fopen_fifo" ELSE "absent"]
    /\ got = [c \in Consumers |-> <<>>]
    /\ buf = [c \in Consumers |-> <<>>]
    /\ fifo = <<>>
    /\ ends = {}
    /\ flocks = [fifo |-> None, out |-> None]
    /\ file = <<>>
    /\ saved = [r \in Rows |-> <<>>]

(* The FIFO: an open waits for the other side, and ends the wait of those     *)
(* that are there already; what is unread goes when nobody has it open.       *)
Opened(pc, procs) ==
    [x \in procs |-> IF pc[x] = "waits_fifo" THEN "has_fifo" ELSE pc[x]]
Close(x) ==
    /\ ends' = ends \ {x}
    /\ fifo' = IF ends = {x} THEN <<>> ELSE fifo
Flock(which, x) ==
    /\ flocks[which] = None
    /\ flocks' = [flocks EXCEPT ![which] = x]
Unflock(which) == flocks' = [flocks EXCEPT ![which] = None]

-----------------------------------------------------------------------------
(* The producers.                                                             *)

PGoto(p, from, to) == pcP[p] = from /\ pcP' = [pcP EXCEPT ![p] = to]

ProducerOpens(p) ==
    /\ PGoto(p, "fopen", IF Readers = {} THEN "waits_fifo" ELSE "has_fifo")
    /\ ends' = ends \cup {p}
    /\ pcC' = Opened(pcC, Consumers)
    /\ UNCHANGED <<sent, got, buf, fifo, flocks, file, saved>>

(* fread of the input file: another message or the end of the file.           *)
ProducerReadsInput(p) ==
    /\ PGoto(p, "has_fifo", IF sent[p] = Parts(p) THEN "fclose" ELSE "flock")
    /\ UNCHANGED <<sent, fifo, ends, flocks, consVars>>

(* Not in the code: the write is not locked.                                  *)
ProducerDoesNotLock(p) ==
    /\ PGoto(p, "flock", "fwrite")
    /\ UNCHANGED <<sent, fifo, ends, flocks, consVars>>

ProducerLocks(p) ==
    /\ PGoto(p, "flock", "fwrite")
    /\ Flock("fifo", p)
    /\ UNCHANGED <<sent, fifo, ends, consVars>>

(* fwrite: one part at a time, while there is room and somebody to read it.   *)
ProducerWrites(p) ==
    /\ PGoto(p, "fwrite", IF sent[p] % 2 = 0 THEN "fwrite" ELSE "unlock")
    /\ Readers # {} /\ Len(fifo) < FifoSize
    /\ fifo' = Append(fifo, Part(p, sent[p] + 1))
    /\ sent' = [sent EXCEPT ![p] = @ + 1]
    /\ UNCHANGED <<ends, flocks, consVars>>

(* SIGPIPE: the write finds no reader, the process and its lock are gone.     *)
ProducerIsKilled(p) ==
    /\ PGoto(p, "fwrite", "killed")
    /\ Readers = {}
    /\ Close(p)
    /\ Unflock("fifo")
    /\ UNCHANGED <<sent, consVars>>

ProducerUnlocks(p) ==
    /\ PGoto(p, "unlock", "has_fifo")
    /\ Unflock("fifo")
    /\ UNCHANGED <<sent, fifo, ends, consVars>>

(* Not in the code: the producer ends up waiting with the FIFO open.          *)
ProducerForgetsToClose(p) ==
    /\ PGoto(p, "fclose", "done")
    /\ UNCHANGED <<sent, fifo, ends, flocks, consVars>>

ProducerCloses(p) ==
    /\ PGoto(p, "fclose", "done")
    /\ Close(p)
    /\ UNCHANGED <<sent, flocks, consVars>>

Producer(p) ==
    \/ ProducerOpens(p) \/ ProducerReadsInput(p) \/ ProducerLocks(p)
    \/ ProducerWrites(p) \/ ProducerIsKilled(p) \/ ProducerUnlocks(p)
    \/ ProducerCloses(p)

-----------------------------------------------------------------------------
(* The consumers.                                                             *)

CGoto(c, from, to) == pcC[c] = from /\ pcC' = [pcC EXCEPT ![c] = to]

ConsumerOpensFifo(c) ==
    /\ CGoto(c, "fopen_fifo", IF Writers = {} THEN "waits_fifo" ELSE "has_fifo")
    /\ ends' = ends \cup {c}
    /\ pcP' = Opened(pcP, Producers)
    /\ UNCHANGED <<sent, got, buf, fifo, flocks, file, saved>>

(* fopen "w+" empties the file, whoever holds its lock.                       *)
ConsumerOpensFile(c) ==
    /\ CGoto(c, "has_fifo", "flock")
    /\ file' = <<>>
    /\ UNCHANGED <<got, buf, fifo, ends, flocks, saved, prodVars>>

ConsumerLocks(c) ==
    /\ CGoto(c, "flock", "fread")
    /\ Flock("out", c)
    /\ UNCHANGED <<got, buf, file, saved, fifo, ends, prodVars>>

(* fread: parts until the message is whole.                                   *)
ConsumerReads(c) ==
    /\ CGoto(c, "fread", IF got[c] = <<>> THEN "fread" ELSE "save")
    /\ fifo # <<>>
    /\ got' = [got EXCEPT ![c] = Append(@, Head(fifo))]
    /\ fifo' = Tail(fifo)
    /\ UNCHANGED <<buf, file, saved, ends, flocks, prodVars>>

(* fread returns 0: nothing to read and nobody who could write.  The lock is  *)
(* kept until the file is closed.                                             *)
ConsumerSeesEnd(c) ==
    /\ CGoto(c, "fread", "fclose_fifo")
    /\ fifo = <<>> /\ Writers = {} /\ got[c] = <<>>
    /\ UNCHANGED <<got, buf, file, saved, fifo, ends, flocks, prodVars>>

(* fread comes to the end in the middle of a message: the producer of the     *)
(* rest was killed.  Something was read, so save is called.                   *)
ConsumerReadsHalf(c) ==
    /\ CGoto(c, "fread", "save")
    /\ fifo = <<>> /\ Writers = {} /\ got[c] # <<>>
    /\ UNCHANGED <<got, buf, file, saved, fifo, ends, flocks, prodVars>>

(* save, the seek: what the stream still holds is written to the file.        *)
ConsumerFlushes(c) ==
    /\ CGoto(c, "save", "insert")
    /\ file' = Overwrite(file, buf[c])
    /\ buf' = [buf EXCEPT ![c] = <<>>]
    /\ UNCHANGED <<got, saved, fifo, ends, flocks, prodVars>>

(* save, the rest: the file with the new text goes to the stream.  The row is *)
(* what the message starts with; atoi makes 0 of the middle of a message.     *)
Whole(parts) ==
    /\ Len(parts) = 2
    /\ parts[1].from = parts[2].from /\ parts[1].msg = parts[2].msg
    /\ parts[1].half = 1 /\ parts[2].half = 2
RowRead(parts) == IF parts[1].half = 1 THEN Row[parts[1].from] ELSE 0
Text(parts) == IF Whole(parts) THEN <<parts[1].from, parts[1].msg>> ELSE parts

ConsumerInserts(c) ==
    LET row == RowRead(got[c])
        text == Text(got[c])
    IN  /\ CGoto(c, "insert", "unlock")
        /\ buf' = [buf EXCEPT ![c] = Save(file, row, text)]
        /\ saved' = [r \in Rows |-> IF r = row THEN Append(saved[r], text) ELSE saved[r]]
        /\ UNCHANGED <<got, file, fifo, ends, flocks, prodVars>>

ConsumerUnlocks(c) ==
    /\ CGoto(c, "unlock", "flock")
    /\ Unflock("out")
    /\ got' = [got EXCEPT ![c] = <<>>]
    /\ UNCHANGED <<buf, file, saved, fifo, ends, prodVars>>

ConsumerClosesFifo(c) ==
    /\ CGoto(c, "fclose_fifo", "fclose_out")
    /\ Close(c)
    /\ UNCHANGED <<got, buf, file, saved, flocks, prodVars>>

ConsumerClosesFile(c) ==
    /\ CGoto(c, "fclose_out", "done")
    /\ file' = Overwrite(file, buf[c])
    /\ buf' = [buf EXCEPT ![c] = <<>>]
    /\ Unflock("out")
    /\ UNCHANGED <<got, saved, fifo, ends, prodVars>>

Consumer(c) ==
    \/ ConsumerOpensFifo(c) \/ ConsumerOpensFile(c) \/ ConsumerLocks(c)
    \/ ConsumerReads(c) \/ ConsumerSeesEnd(c) \/ ConsumerReadsHalf(c)
    \/ ConsumerFlushes(c) \/ ConsumerInserts(c) \/ ConsumerUnlocks(c)
    \/ ConsumerClosesFifo(c) \/ ConsumerClosesFile(c)

-----------------------------------------------------------------------------
Next ==
    \/ \E p \in Producers : Producer(p)
    \/ \E c \in Consumers : Consumer(c)

Spec == Init /\ [][Next]_vars

(* Every process is scheduled again and again, and a lock that is free again  *)
(* and again is granted to whoever waits for it.                              *)
FairSpec ==
    /\ Spec
    /\ \A p \in Producers : SF_vars(Producer(p))
    /\ \A c \in Consumers : SF_vars(Consumer(c))

Started == {c \in Consumers : pcC[c] # "absent"}

Finished ==
    /\ \A p \in Producers : pcP[p] = "done"
    /\ \A c \in Started : pcC[c] = "done"

-----------------------------------------------------------------------------
TypeOK ==
    /\ pcP \in [Producers -> {"fopen", "waits_fifo", "has_fifo", "flock",
                              "fwrite", "unlock", "fclose", "done", "killed"}]
    /\ \A p \in Producers : sent[p] \in 0 .. Parts(p)
    /\ pcC \in [Consumers -> {"fopen_fifo", "waits_fifo", "has_fifo", "flock",
                              "fread", "save", "insert", "unlock",
                              "fclose_fifo", "fclose_out", "done", "absent"}]
    /\ \A c \in Consumers : Len(got[c]) <= 2 /\ (pcC[c] = "save" => got[c] # <<>>)
    /\ Len(fifo) <= FifoSize
    /\ ends \subseteq Producers \cup Consumers
    /\ flocks.fifo \in Producers \cup {None}
    /\ flocks.out \in Consumers \cup {None}

(* A producer was killed between the two parts of a message: its lock is free *)
(* and the first part stays in the FIFO if another process has that open.     *)
Torn == \E p \in Producers : pcP[p] = "killed" /\ sent[p] % 2 = 1

(* What a consumer passes to save is one message: the flock around the        *)
(* producers' fwrite and the one around the consumers' fread keep the parts   *)
(* of two messages apart, whatever the FIFO's size.  And no message           *)
(* overtakes, loses or repeats another one of its producer between fwrite and *)
(* save, whichever consumers take them.  (Until a message is torn: then all   *)
(* that follow are read from their middle.)                                   *)
MessagesWhole ==
    /\ TypeOK
    /\ ~Torn =>
         /\ \A c \in Consumers : pcC[c] \in {"save", "insert"} => Whole(got[c])
         /\ \A p \in Producers : IsPrefix(saved[Row[p]], Texts(p))

(* Nothing that a consumer alone reads from the FIFO is lost or duplicated on *)
(* its way to the file: when it has ended, every row of the file is the texts *)
(* that were passed to save for it, in their order.                           *)
SavedIsKept ==
    \A c \in Consumers : Started = {c} /\ pcC[c] = "done" => Holds(file, saved)

(* The program's own check after a test: when all processes have ended        *)
(* normally, each row holds the whole input of its producer.                  *)
NothingLost ==
    Finished => \A p \in Producers : RowOf(file, Row[p]) = Texts(p)

(* main waits for all its children: a process ends, unless it opens the FIFO  *)
(* when the other side has gone - when all consumers have taken the moment    *)
(* without a producer for the end of the input, or all producers have ended.  *)
EverybodyEnds ==
    <>[](/\ \A c \in Started : \/ pcC[c] = "done"
                               \/ pcC[c] = "waits_fifo" /\ Writers = {}
         /\ \A p \in Producers : \/ pcP[p] \in {"done", "killed"}
                                 \/ pcP[p] = "waits_fifo" /\ Readers = {})
==============================================================================
