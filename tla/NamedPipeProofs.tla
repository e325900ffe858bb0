--------------------------- MODULE NamedPipeProofs ---------------------------
(* Proofs about NamedPipe: whatever the number of producers and consumers,    *)
(* the size of the FIFO and the lengths of the files, messages reach save     *)
(* whole and in order, as long as no producer is killed in the middle of one. *)
(* And what a consumer alone passes to save is in the output file at the end. *)
EXTENDS NamedPipe, SequenceTheorems, FiniteSetTheorems, TLAPS

-------------------------------------------------------------------------------
(* The inductive invariant *)

PartType == [from : Producers, msg : Nat, half : {1, 2}]
TextType == (Producers \X Nat) \cup Seq(PartType)

ProducerPlaces == {"fopen", "waits_fifo", "has_fifo", "flock", "fwrite", "unlock",
                   "fclose", "done", "killed"}
ConsumerPlaces == {"fopen_fifo", "waits_fifo", "has_fifo", "flock", "fread", "save",
                   "insert", "unlock", "fclose_fifo", "fclose_out", "done", "absent"}

Types ==
    /\ pcP \in [Producers -> ProducerPlaces]
    /\ sent \in [Producers -> Nat]
    /\ pcC \in [Consumers -> ConsumerPlaces]
    /\ got \in [Consumers -> Seq(PartType)]
    /\ fifo \in Seq(PartType) /\ Len(fifo) <= FifoSize
    /\ ends \subseteq Producers \cup Consumers
    /\ flocks \in [fifo : Producers \cup {None}, out : Consumers \cup {None}]
    /\ saved \in [Rows -> Seq(TextType)]

\* Who has the FIFO open, and who holds the locks.
Holders ==
    /\ \A p \in Producers : p \in ends <=> pcP[p] \notin {"fopen", "done", "killed"}
    /\ \A c \in Consumers : c \in ends <=>
          pcC[c] \notin {"fopen_fifo", "fclose_out", "done", "absent"}
    /\ \A p \in Producers : flocks.fifo = p <=> pcP[p] \in {"fwrite", "unlock"}
    /\ \A c \in Consumers : flocks.out = c <=>
          pcC[c] \in {"fread", "save", "insert", "unlock", "fclose_fifo", "fclose_out"}

\* A producer is between the parts of a message only while it writes.
Counts ==
    \A p \in Producers :
        /\ sent[p] <= Parts(p)
        /\ pcP[p] \in {"fopen", "waits_fifo"} => sent[p] = 0
        /\ pcP[p] \notin {"fwrite", "killed"} => sent[p] % 2 = 0
        /\ pcP[p] \in {"flock", "fwrite"} => sent[p] < Parts(p)

Buffers ==
    \A c \in Consumers :
        /\ pcC[c] = "fread" => Len(got[c]) <= 1
        /\ pcC[c] \in {"save", "insert", "unlock"} => Len(got[c]) \in 1 .. 2
        /\ pcC[c] \notin {"fread", "save", "insert", "unlock"} => got[c] = <<>>

\* The parts on their way from fwrite to save: those that the consumer whose
\* turn it is has read, then those in the FIFO.
InHand ==
    IF flocks.out # None /\ pcC[flocks.out] \in {"fread", "save", "insert"}
    THEN got[flocks.out] ELSE <<>>
Stream == InHand \o fifo

\* The parts of a stream s alternate, and only the producer that has the lock
\* can still owe the second part of the last message.  (pc stands for pcP, n
\* for sent and texts for saved.)
Writing(pc, n, p) == pc[p] = "fwrite" /\ n[p] % 2 = 1
Aligned(s, pc, n) ==
    /\ \A i \in DOMAIN s : s[i].half = 2 - (i % 2)
    /\ \A i \in DOMAIN s : i % 2 = 0 => s[i].from = s[i - 1].from /\ s[i].msg = s[i - 1].msg
    /\ Len(s) % 2 = 1 => /\ Writing(pc, n, s[Len(s)].from)
                         /\ n[s[Len(s)].from] + 1 = 2 * s[Len(s)].msg
    /\ \A p \in Producers : Writing(pc, n, p) => Len(s) % 2 = 1 /\ s[Len(s)].from = p

\* The messages of a producer are in the order in which it sent them, without
\* a gap after those that are saved; nothing is missing of one that goes on.
SavedOf(texts, p) == Len(texts[Row[p]])
Has(s, k, p, m) == \E j \in 1 .. k : s[j].from = p /\ s[j].msg = m
InPlace(s, n, texts, i, p, m) ==
    /\ SavedOf(texts, p) < m
    /\ 2 * m <= n[p] + (i % 2)
    /\ \A l \in SavedOf(texts, p) + 1 .. m - 1 : Has(s, i - 1, p, l)
    /\ \A j \in 1 .. i - 1 : s[j].from = p /\ s[j].msg >= m => j = i - 1 /\ i % 2 = 0
Ended(pc, p) == pc[p] \in {"done", "killed"}
Ordered(s, pc, n, texts) ==
    /\ \A i \in DOMAIN s : InPlace(s, n, texts, i, s[i].from, s[i].msg)
    /\ \A p \in Producers : ~Ended(pc, p) =>
         \A m \in Nat : SavedOf(texts, p) < m /\ 2 * m <= n[p] + 1 => Has(s, Len(s), p, m)

SavedInOrder(n, texts) ==
    \A p \in Producers :
        /\ 2 * SavedOf(texts, p) <= n[p]
        /\ \A k \in 1 .. SavedOf(texts, p) : texts[Row[p]][k] = <<p, k>>

TwoParts == \A c \in Consumers : pcC[c] \in {"save", "insert"} => Len(got[c]) = 2

Sound ==
    /\ Aligned(Stream, pcP, sent) /\ Ordered(Stream, pcP, sent, saved)
    /\ SavedInOrder(sent, saved) /\ TwoParts
IInv == Types /\ Holders /\ Counts /\ Buffers /\ (~Torn => Sound)

-------------------------------------------------------------------------------
(* Numbers, parts, and the steps *)

\* Odd and even numbers.
LEMMA Parity ==
  ASSUME NEW k \in Nat
  PROVE  /\ k % 2 \in {0, 1} /\ (k + 1) % 2 = 1 - (k % 2)
         /\ (2 * k) % 2 = 0 /\ (k + 2) % 2 = k % 2
         /\ 2 * ((k + 1) \div 2) = k + (k % 2) /\ (k + 1) \div 2 \in Nat
  OBVIOUS

\* The part that a producer writes after k others.
LEMMA PartIs ==
  ASSUME NEW p \in Producers, NEW k \in Nat
  PROVE  /\ Part(p, k + 1) \in PartType
         /\ Part(p, k + 1).from = p /\ Part(p, k + 1).half = 1 + (k % 2)
         /\ 2 * Part(p, k + 1).msg = k + 1 + ((k + 1) % 2)
<1>1. (k + 1) % 2 \in {0, 1} /\ (k + 1) % 2 = 1 - (k % 2) /\ k % 2 \in {0, 1}
  BY Parity
<1>2. ((k + 1) + 1) \div 2 \in Nat /\ 2 * (((k + 1) + 1) \div 2) = k + 1 + ((k + 1) % 2)
  BY Parity
<1> QED
  BY <1>1, <1>2 DEF Part, PartType

\* The step of a process, by the action that makes it.
LEMMA Steps ==
  ASSUME [Next]_vars
  PROVE  \/ \E p \in Producers :
               \/ ProducerOpens(p)
               \/ ProducerReadsInput(p)
               \/ ProducerLocks(p)
               \/ ProducerWrites(p)
               \/ ProducerIsKilled(p)
               \/ ProducerUnlocks(p)
               \/ ProducerCloses(p)
         \/ \E c \in Consumers :
               \/ ConsumerOpensFifo(c)
               \/ ConsumerOpensFile(c)
               \/ ConsumerLocks(c)
               \/ ConsumerReads(c)
               \/ ConsumerSeesEnd(c)
               \/ ConsumerReadsHalf(c)
               \/ ConsumerFlushes(c)
               \/ ConsumerInserts(c)
               \/ ConsumerUnlocks(c)
               \/ ConsumerClosesFifo(c)
               \/ ConsumerClosesFile(c)
         \/ UNCHANGED vars
  BY Zenon DEF Next, Producer, Consumer

\* What the variables hold.
LEMMA TypesKept ==
  ASSUME Types, Buffers, [Next]_vars
  PROVE  Types'
<1> USE NamedPipeAssumption
<1> USE DEF ProducerPlaces, ConsumerPlaces
<1>1. ASSUME NEW p \in Producers, ProducerOpens(p) PROVE Types'
  BY <1>1 DEF ProducerOpens, PGoto, Opened, Types, prodVars, consVars
<1>2. ASSUME NEW p \in Producers, ProducerReadsInput(p) PROVE Types'
  BY <1>2 DEF ProducerReadsInput, PGoto, Types, prodVars, consVars
<1>3. ASSUME NEW p \in Producers, ProducerLocks(p) PROVE Types'
  BY <1>3 DEF ProducerLocks, PGoto, Flock, Types, prodVars, consVars
<1>4. ASSUME NEW p \in Producers, ProducerWrites(p) PROVE Types'
  <2>1. Part(p, sent[p] + 1) \in PartType /\ sent[p] + 1 \in Nat
    BY PartIs DEF Types
  <2> QED
    BY <1>4, <2>1 DEF Types, ProducerWrites, PGoto, consVars
<1>5. ASSUME NEW p \in Producers, ProducerIsKilled(p) PROVE Types'
  <2>1. fifo' \in Seq(PartType) /\ Len(fifo') <= FifoSize
    BY <1>5 DEF Types, ProducerIsKilled, Close
  <2>2. flocks' \in [fifo : Producers \cup {None}, out : Consumers \cup {None}]
    BY <1>5 DEF Types, ProducerIsKilled, Unflock
  <2> QED
    BY <1>5, <2>1, <2>2 DEF Types, ProducerIsKilled, PGoto, Close, consVars
<1>6. ASSUME NEW p \in Producers, ProducerUnlocks(p) PROVE Types'
  BY <1>6 DEF ProducerUnlocks, PGoto, Unflock, Types, prodVars, consVars
<1>7. ASSUME NEW p \in Producers, ProducerCloses(p) PROVE Types'
  BY <1>7 DEF ProducerCloses, PGoto, Close, Types, prodVars, consVars
<1>8. ASSUME NEW c \in Consumers, ConsumerOpensFifo(c) PROVE Types'
  BY <1>8 DEF ConsumerOpensFifo, CGoto, Opened, Types, prodVars, consVars
<1>9. ASSUME NEW c \in Consumers, ConsumerOpensFile(c) PROVE Types'
  BY <1>9 DEF ConsumerOpensFile, CGoto, Types, prodVars, consVars
<1>10. ASSUME NEW c \in Consumers, ConsumerLocks(c) PROVE Types'
  BY <1>10 DEF ConsumerLocks, CGoto, Flock, Types, prodVars, consVars
<1>11. ASSUME NEW c \in Consumers, ConsumerReads(c) PROVE Types'
  <2>1. Head(fifo) \in PartType /\ Tail(fifo) \in Seq(PartType) /\ Len(Tail(fifo)) <= FifoSize
    BY <1>11 DEF ConsumerReads, Types
  <2> QED
    BY <1>11, <2>1 DEF Types, ConsumerReads, CGoto, prodVars
<1>12. ASSUME NEW c \in Consumers, ConsumerSeesEnd(c) PROVE Types'
  BY <1>12 DEF ConsumerSeesEnd, CGoto, Types, prodVars, consVars
<1>13. ASSUME NEW c \in Consumers, ConsumerReadsHalf(c) PROVE Types'
  BY <1>13 DEF ConsumerReadsHalf, CGoto, Types, prodVars, consVars
<1>14. ASSUME NEW c \in Consumers, ConsumerFlushes(c) PROVE Types'
  BY <1>14 DEF ConsumerFlushes, CGoto, Types, prodVars, consVars
<1>15. ASSUME NEW c \in Consumers, ConsumerInserts(c) PROVE Types'
  <2>1. pcC[c] = "insert" /\ got[c] \in Seq(PartType) /\ Len(got[c]) \in 1 .. 2
    BY <1>15 DEF ConsumerInserts, CGoto, Types, Buffers
  <2>2. Text(got[c]) \in TextType
    <3>1. got[c][1] \in PartType
      BY <2>1
    <3>2. <<got[c][1].from, got[c][1].msg>> \in Producers \X Nat
      BY <3>1 DEF PartType
    <3> QED
      BY <2>1, <3>2 DEF Text, TextType
  <2>3. saved' \in [Rows -> Seq(TextType)]
    BY <1>15, <2>2 DEF ConsumerInserts, Types
  <2> QED
    BY <1>15, <2>3 DEF Types, ConsumerInserts, CGoto, prodVars
<1>16. ASSUME NEW c \in Consumers, ConsumerUnlocks(c) PROVE Types'
  <2>1. got' \in [Consumers -> Seq(PartType)]
    BY <1>16 DEF Types, ConsumerUnlocks
  <2>2. flocks' \in [fifo : Producers \cup {None}, out : Consumers \cup {None}]
    BY <1>16 DEF Types, ConsumerUnlocks, Unflock
  <2> QED
    BY <1>16, <2>1, <2>2 DEF Types, ConsumerUnlocks, CGoto, prodVars
<1>17. ASSUME NEW c \in Consumers, ConsumerClosesFifo(c) PROVE Types'
  BY <1>17 DEF ConsumerClosesFifo, CGoto, Close, Types, prodVars, consVars
<1>18. ASSUME NEW c \in Consumers, ConsumerClosesFile(c) PROVE Types'
  BY <1>18 DEF ConsumerClosesFile, CGoto, Unflock, Types, prodVars, consVars
<1>19. ASSUME UNCHANGED vars PROVE Types'
  BY <1>19 DEF Types, vars
<1> QED
  BY <1>1, <1>2, <1>3, <1>4, <1>5, <1>6, <1>7, <1>8, <1>9, <1>10, <1>11, <1>12, <1>13, <1>14, <1>15, <1>16, <1>17, <1>18, <1>19, Steps

\* The FIFO and the locks.
LEMMA HoldersKept ==
  ASSUME Types, Holders, Types', [Next]_vars
  PROVE  Holders'
<1>1. ASSUME NEW p \in Producers, ProducerOpens(p) PROVE Holders'
  BY <1>1, NamedPipeAssumption DEF ProducerOpens, PGoto, Opened, Types, Holders, ProducerPlaces, ConsumerPlaces, prodVars, consVars
<1>2. ASSUME NEW p \in Producers, ProducerReadsInput(p) PROVE Holders'
  BY <1>2, NamedPipeAssumption DEF ProducerReadsInput, PGoto, Types, Holders, ProducerPlaces, ConsumerPlaces, prodVars, consVars
<1>3. ASSUME NEW p \in Producers, ProducerLocks(p) PROVE Holders'
  BY <1>3, NamedPipeAssumption DEF ProducerLocks, PGoto, Flock, Types, Holders, ProducerPlaces, ConsumerPlaces, prodVars, consVars
<1>4. ASSUME NEW p \in Producers, ProducerWrites(p) PROVE Holders'
  BY SMTT(30), <1>4, NamedPipeAssumption DEF ProducerWrites, PGoto, Part, Types, Holders, ProducerPlaces, ConsumerPlaces, prodVars, consVars
<1>5. ASSUME NEW p \in Producers, ProducerIsKilled(p) PROVE Holders'
  BY <1>5, NamedPipeAssumption DEF ProducerIsKilled, PGoto, Close, Unflock, Types, Holders, ProducerPlaces, ConsumerPlaces, prodVars, consVars
<1>6. ASSUME NEW p \in Producers, ProducerUnlocks(p) PROVE Holders'
  BY <1>6, NamedPipeAssumption DEF ProducerUnlocks, PGoto, Unflock, Types, Holders, ProducerPlaces, ConsumerPlaces, prodVars, consVars
<1>7. ASSUME NEW p \in Producers, ProducerCloses(p) PROVE Holders'
  BY <1>7, NamedPipeAssumption DEF ProducerCloses, PGoto, Close, Types, Holders, ProducerPlaces, ConsumerPlaces, prodVars, consVars
<1>8. ASSUME NEW c \in Consumers, ConsumerOpensFifo(c) PROVE Holders'
  BY <1>8, NamedPipeAssumption DEF ConsumerOpensFifo, CGoto, Opened, Types, Holders, ProducerPlaces, ConsumerPlaces, prodVars, consVars
<1>9. ASSUME NEW c \in Consumers, ConsumerOpensFile(c) PROVE Holders'
  BY <1>9, NamedPipeAssumption DEF ConsumerOpensFile, CGoto, Types, Holders, ProducerPlaces, ConsumerPlaces, prodVars, consVars
<1>10. ASSUME NEW c \in Consumers, ConsumerLocks(c) PROVE Holders'
  BY <1>10, NamedPipeAssumption DEF ConsumerLocks, CGoto, Flock, Types, Holders, ProducerPlaces, ConsumerPlaces, prodVars, consVars
<1>11. ASSUME NEW c \in Consumers, ConsumerReads(c) PROVE Holders'
  BY <1>11, NamedPipeAssumption DEF ConsumerReads, CGoto, Types, Holders, ProducerPlaces, ConsumerPlaces, prodVars, consVars
<1>12. ASSUME NEW c \in Consumers, ConsumerSeesEnd(c) PROVE Holders'
  BY <1>12, NamedPipeAssumption DEF ConsumerSeesEnd, CGoto, Types, Holders, ProducerPlaces, ConsumerPlaces, prodVars, consVars
<1>13. ASSUME NEW c \in Consumers, ConsumerReadsHalf(c) PROVE Holders'
  BY <1>13, NamedPipeAssumption DEF ConsumerReadsHalf, CGoto, Types, Holders, ProducerPlaces, ConsumerPlaces, prodVars, consVars
<1>14. ASSUME NEW c \in Consumers, ConsumerFlushes(c) PROVE Holders'
  BY <1>14, NamedPipeAssumption DEF ConsumerFlushes, CGoto, Types, Holders, ProducerPlaces, ConsumerPlaces, prodVars, consVars
<1>15. ASSUME NEW c \in Consumers, ConsumerInserts(c) PROVE Holders'
  BY <1>15, NamedPipeAssumption DEF ConsumerInserts, CGoto, Types, Holders, ProducerPlaces, ConsumerPlaces, prodVars, consVars
<1>16. ASSUME NEW c \in Consumers, ConsumerUnlocks(c) PROVE Holders'
  BY <1>16, NamedPipeAssumption DEF ConsumerUnlocks, CGoto, Unflock, Types, Holders, ProducerPlaces, ConsumerPlaces, prodVars, consVars
<1>17. ASSUME NEW c \in Consumers, ConsumerClosesFifo(c) PROVE Holders'
  BY <1>17, NamedPipeAssumption DEF ConsumerClosesFifo, CGoto, Close, Types, Holders, ProducerPlaces, ConsumerPlaces, prodVars, consVars
<1>18. ASSUME NEW c \in Consumers, ConsumerClosesFile(c) PROVE Holders'
  BY <1>18, NamedPipeAssumption DEF ConsumerClosesFile, CGoto, Unflock, Types, Holders, ProducerPlaces, ConsumerPlaces, prodVars, consVars
<1>19. ASSUME UNCHANGED vars PROVE Holders'
  BY <1>19, NamedPipeAssumption DEF Types, Holders, ProducerPlaces, ConsumerPlaces, vars
<1> QED
  BY <1>1, <1>2, <1>3, <1>4, <1>5, <1>6, <1>7, <1>8, <1>9, <1>10, <1>11, <1>12, <1>13, <1>14, <1>15, <1>16, <1>17, <1>18, <1>19, Steps

\* What each producer has written.
LEMMA CountsKept ==
  ASSUME Types, Counts, [Next]_vars
  PROVE  Counts'
<1>1. ASSUME NEW p \in Producers, ProducerOpens(p) PROVE Counts'
  BY <1>1, NamedPipeAssumption DEF ProducerOpens, PGoto, Opened, Types, Counts, Parts, prodVars, consVars
<1>2. ASSUME NEW p \in Producers, ProducerReadsInput(p) PROVE Counts'
  <2>1. sent[p] % 2 = 0
    BY <1>2 DEF ProducerReadsInput, PGoto, Counts
  <2> QED
    <3>1. sent[p] \in Nat /\ Parts(p) \in Nat /\ sent[p] <= Parts(p)
      BY NamedPipeAssumption DEF Types, Counts, Parts
    <3>2. sent' = sent /\ (pcP'[p] = "flock" => sent[p] < Parts(p)) /\ pcP'[p] \in {"fclose", "flock"}
          /\ \A q \in Producers \ {p} : pcP'[q] = pcP[q]
      BY <1>2, <3>1 DEF Types, ProducerReadsInput, PGoto
    <3> QED
      BY <1>2, <2>1, <3>1, <3>2 DEF Counts, Parts
<1>3. ASSUME NEW p \in Producers, ProducerLocks(p) PROVE Counts'
  BY <1>3, NamedPipeAssumption DEF ProducerLocks, PGoto, Flock, Types, Counts, Parts, prodVars, consVars
<1>4. ASSUME NEW p \in Producers, ProducerWrites(p) PROVE Counts'
  <2> DEFINE k == sent[p]
             m == Messages[p]
  <2>1. k \in Nat /\ m \in Nat /\ (k = 2 * m - 1 => k % 2 # 0)
    <3>1. k \in Nat /\ m \in Nat
      BY <1>4, NamedPipeAssumption DEF ProducerWrites, PGoto, Types, Counts, Parts
    <3>2. k = 2 * m - 1 => k % 2 # 0
      BY <3>1
    <3> QED
      BY <3>1, <3>2
  <2>2. (k + 1) % 2 = 1 - (k % 2) /\ k % 2 \in {0, 1} /\ k \in Nat /\ m \in Nat /\ k < 2 * m
    BY <1>4, Parity, NamedPipeAssumption DEF ProducerWrites, PGoto, Types, Counts, Parts
  <2>3. /\ pcP' = [pcP EXCEPT ![p] = IF k % 2 = 0 THEN "fwrite" ELSE "unlock"]
        /\ sent' = [sent EXCEPT ![p] = k + 1]
    BY <1>4 DEF ProducerWrites, PGoto, Types
  <2>4. ASSUME NEW q \in Producers, q # p
        PROVE  pcP'[q] = pcP[q] /\ sent'[q] = sent[q] /\ Parts(q)' = Parts(q)
    BY <2>3, <2>4 DEF Types, Parts
  <2>5. pcP'[p] = (IF k % 2 = 0 THEN "fwrite" ELSE "unlock") /\ sent'[p] = k + 1 /\ Parts(p)' = 2 * m
    BY <2>3 DEF Types, Parts
  <2> HIDE DEF k, m
  <2>6. /\ k + 1 <= 2 * m
        /\ k % 2 # 0 => (k + 1) % 2 = 0
        /\ k % 2 = 0 => k + 1 < 2 * m
    <3>1. k % 2 = 0 => k # 2 * m - 1
      BY <2>1
    <3> QED
      BY <2>2, <3>1
  <2> QED
    BY <2>2, <2>4, <2>5, <2>6 DEF Counts
<1>5. ASSUME NEW p \in Producers, ProducerIsKilled(p) PROVE Counts'
  BY <1>5, NamedPipeAssumption DEF ProducerIsKilled, PGoto, Close, Unflock, Types, Counts, Parts, prodVars, consVars
<1>6. ASSUME NEW p \in Producers, ProducerUnlocks(p) PROVE Counts'
  BY <1>6, NamedPipeAssumption DEF ProducerUnlocks, PGoto, Unflock, Types, Counts, Parts, prodVars, consVars
<1>7. ASSUME NEW p \in Producers, ProducerCloses(p) PROVE Counts'
  BY <1>7, NamedPipeAssumption DEF ProducerCloses, PGoto, Close, Types, Counts, Parts, prodVars, consVars
<1>8. ASSUME NEW c \in Consumers, ConsumerOpensFifo(c) PROVE Counts'
  BY <1>8, NamedPipeAssumption DEF ConsumerOpensFifo, CGoto, Opened, Types, Counts, Parts, prodVars, consVars
<1>9. ASSUME NEW c \in Consumers, ConsumerOpensFile(c) PROVE Counts'
  BY <1>9, NamedPipeAssumption DEF ConsumerOpensFile, CGoto, Types, Counts, Parts, prodVars, consVars
<1>10. ASSUME NEW c \in Consumers, ConsumerLocks(c) PROVE Counts'
  BY <1>10, NamedPipeAssumption DEF ConsumerLocks, CGoto, Flock, Types, Counts, Parts, prodVars, consVars
<1>11. ASSUME NEW c \in Consumers, ConsumerReads(c) PROVE Counts'
  BY <1>11, NamedPipeAssumption DEF ConsumerReads, CGoto, Types, Counts, Parts, prodVars, consVars
<1>12. ASSUME NEW c \in Consumers, ConsumerSeesEnd(c) PROVE Counts'
  BY <1>12, NamedPipeAssumption DEF ConsumerSeesEnd, CGoto, Types, Counts, Parts, prodVars, consVars
<1>13. ASSUME NEW c \in Consumers, ConsumerReadsHalf(c) PROVE Counts'
  BY <1>13, NamedPipeAssumption DEF ConsumerReadsHalf, CGoto, Types, Counts, Parts, prodVars, consVars
<1>14. ASSUME NEW c \in Consumers, ConsumerFlushes(c) PROVE Counts'
  BY <1>14, NamedPipeAssumption DEF ConsumerFlushes, CGoto, Types, Counts, Parts, prodVars, consVars
<1>15. ASSUME NEW c \in Consumers, ConsumerInserts(c) PROVE Counts'
  BY <1>15, NamedPipeAssumption DEF ConsumerInserts, CGoto, Types, Counts, Parts, prodVars, consVars
<1>16. ASSUME NEW c \in Consumers, ConsumerUnlocks(c) PROVE Counts'
  BY <1>16, NamedPipeAssumption DEF ConsumerUnlocks, CGoto, Unflock, Types, Counts, Parts, prodVars, consVars
<1>17. ASSUME NEW c \in Consumers, ConsumerClosesFifo(c) PROVE Counts'
  BY <1>17, NamedPipeAssumption DEF ConsumerClosesFifo, CGoto, Close, Types, Counts, Parts, prodVars, consVars
<1>18. ASSUME NEW c \in Consumers, ConsumerClosesFile(c) PROVE Counts'
  BY <1>18, NamedPipeAssumption DEF ConsumerClosesFile, CGoto, Unflock, Types, Counts, Parts, prodVars, consVars
<1>19. ASSUME UNCHANGED vars PROVE Counts'
  BY <1>19, NamedPipeAssumption DEF Types, Counts, Parts, vars
<1> QED
  BY <1>1, <1>2, <1>3, <1>4, <1>5, <1>6, <1>7, <1>8, <1>9, <1>10, <1>11, <1>12, <1>13, <1>14, <1>15, <1>16, <1>17, <1>18, <1>19, Steps

\* What the consumers have read.
LEMMA BuffersKept ==
  ASSUME Types, Buffers, [Next]_vars
  PROVE  Buffers'
<1>1. ASSUME NEW p \in Producers, ProducerOpens(p) PROVE Buffers'
  BY <1>1, NamedPipeAssumption DEF ProducerOpens, PGoto, Opened, Types, Buffers, prodVars, consVars
<1>2. ASSUME NEW p \in Producers, ProducerReadsInput(p) PROVE Buffers'
  BY <1>2, NamedPipeAssumption DEF ProducerReadsInput, PGoto, Types, Buffers, prodVars, consVars
<1>3. ASSUME NEW p \in Producers, ProducerLocks(p) PROVE Buffers'
  BY <1>3, NamedPipeAssumption DEF ProducerLocks, PGoto, Flock, Types, Buffers, prodVars, consVars
<1>4. ASSUME NEW p \in Producers, ProducerWrites(p) PROVE Buffers'
  BY <1>4, NamedPipeAssumption DEF ProducerWrites, PGoto, Part, Types, Buffers, prodVars, consVars
<1>5. ASSUME NEW p \in Producers, ProducerIsKilled(p) PROVE Buffers'
  BY <1>5, NamedPipeAssumption DEF ProducerIsKilled, PGoto, Close, Unflock, Types, Buffers, prodVars, consVars
<1>6. ASSUME NEW p \in Producers, ProducerUnlocks(p) PROVE Buffers'
  BY <1>6, NamedPipeAssumption DEF ProducerUnlocks, PGoto, Unflock, Types, Buffers, prodVars, consVars
<1>7. ASSUME NEW p \in Producers, ProducerCloses(p) PROVE Buffers'
  BY <1>7, NamedPipeAssumption DEF ProducerCloses, PGoto, Close, Types, Buffers, prodVars, consVars
<1>8. ASSUME NEW c \in Consumers, ConsumerOpensFifo(c) PROVE Buffers'
  BY <1>8, NamedPipeAssumption DEF ConsumerOpensFifo, CGoto, Opened, Types, Buffers, prodVars, consVars
<1>9. ASSUME NEW c \in Consumers, ConsumerOpensFile(c) PROVE Buffers'
  BY <1>9, NamedPipeAssumption DEF ConsumerOpensFile, CGoto, Types, Buffers, prodVars, consVars
<1>10. ASSUME NEW c \in Consumers, ConsumerLocks(c) PROVE Buffers'
  BY <1>10, NamedPipeAssumption DEF ConsumerLocks, CGoto, Flock, Types, Buffers, prodVars, consVars
<1>11. ASSUME NEW c \in Consumers, ConsumerReads(c) PROVE Buffers'
  <2>1. got[c] \in Seq(PartType) /\ Len(got[c]) <= 1 /\ Head(fifo) \in PartType
    BY <1>11 DEF ConsumerReads, CGoto, Buffers, Types
  <2>2. Len(Append(got[c], Head(fifo))) = Len(got[c]) + 1 /\ (got[c] = <<>> <=> Len(got[c]) = 0) /\ Len(got[c]) \in Nat
    BY <2>1
  <2> QED
    BY <1>11, <2>1, <2>2 DEF ConsumerReads, CGoto, Buffers, Types
<1>12. ASSUME NEW c \in Consumers, ConsumerSeesEnd(c) PROVE Buffers'
  BY <1>12, NamedPipeAssumption DEF ConsumerSeesEnd, CGoto, Types, Buffers, prodVars, consVars
<1>13. ASSUME NEW c \in Consumers, ConsumerReadsHalf(c) PROVE Buffers'
  <2>1. got[c] \in Seq(PartType) /\ Len(got[c]) <= 1 /\ got[c] # <<>>
    BY <1>13 DEF ConsumerReadsHalf, CGoto, Buffers, Types
  <2>2. Len(got[c]) \in 1 .. 2
    <3> DEFINE k == Len(got[c])
    <3>1. k \in Nat /\ k # 0 /\ k <= 1
      BY <2>1, EmptySeq, LenProperties
    <3> HIDE DEF k
    <3>2. k \in 1 .. 2
      BY <3>1
    <3> QED
      BY <3>2 DEF k
  <2> QED
    BY <1>13, <2>2 DEF ConsumerReadsHalf, CGoto, Buffers, Types
<1>14. ASSUME NEW c \in Consumers, ConsumerFlushes(c) PROVE Buffers'
  BY <1>14, NamedPipeAssumption DEF ConsumerFlushes, CGoto, Types, Buffers, prodVars, consVars
<1>15. ASSUME NEW c \in Consumers, ConsumerInserts(c) PROVE Buffers'
  BY <1>15, NamedPipeAssumption DEF ConsumerInserts, CGoto, Types, Buffers, prodVars, consVars
<1>16. ASSUME NEW c \in Consumers, ConsumerUnlocks(c) PROVE Buffers'
  BY <1>16, NamedPipeAssumption DEF ConsumerUnlocks, CGoto, Unflock, Types, Buffers, prodVars, consVars
<1>17. ASSUME NEW c \in Consumers, ConsumerClosesFifo(c) PROVE Buffers'
  BY <1>17, NamedPipeAssumption DEF ConsumerClosesFifo, CGoto, Close, Types, Buffers, prodVars, consVars
<1>18. ASSUME NEW c \in Consumers, ConsumerClosesFile(c) PROVE Buffers'
  BY <1>18, NamedPipeAssumption DEF ConsumerClosesFile, CGoto, Unflock, Types, Buffers, prodVars, consVars
<1>19. ASSUME UNCHANGED vars PROVE Buffers'
  BY <1>19, NamedPipeAssumption DEF Types, Buffers, vars
<1> QED
  BY <1>1, <1>2, <1>3, <1>4, <1>5, <1>6, <1>7, <1>8, <1>9, <1>10, <1>11, <1>12, <1>13, <1>14, <1>15, <1>16, <1>17, <1>18, <1>19, Steps

-------------------------------------------------------------------------------
(* The stream *)

Reading == {"fread", "save", "insert"}

\* Whose parts are in hand.
LEMMA HandIs ==
  ASSUME Types, Holders
  PROVE  /\ InHand \in Seq(PartType) /\ Stream \in Seq(PartType)
         /\ Len(Stream) = Len(InHand) + Len(fifo) /\ DOMAIN Stream = 1 .. Len(Stream)
         /\ \A i \in 1 .. Len(Stream) :
               Stream[i] = IF i <= Len(InHand) THEN InHand[i] ELSE fifo[i - Len(InHand)]
         /\ \A c \in Consumers : pcC[c] \in Reading => InHand = got[c]
         /\ (\A c \in Consumers : pcC[c] \notin Reading) => InHand = <<>>
<1>1. InHand \in Seq(PartType)
  <2>1. flocks.out \in Consumers \cup {None} /\ <<>> \in Seq(PartType)
    BY DEF Types
  <2> QED
    BY <2>1 DEF InHand, Types
<1>2. fifo \in Seq(PartType)
  BY DEF Types
<1>3. Stream \in Seq(PartType) /\ Len(Stream) = Len(InHand) + Len(fifo)
      /\ \A i \in 1 .. Len(InHand) + Len(fifo) :
            Stream[i] = IF i <= Len(InHand) THEN InHand[i] ELSE fifo[i - Len(InHand)]
  BY <1>1, <1>2, ConcatProperties, Zenon DEF Stream
<1>4. DOMAIN Stream = 1 .. Len(Stream)
  BY <1>3, LenProperties
<1>5. \A c \in Consumers : pcC[c] \in Reading => InHand = got[c]
  BY NamedPipeAssumption DEF InHand, Holders, Reading
<1>6. (\A c \in Consumers : pcC[c] \notin Reading) => InHand = <<>>
  BY DEF InHand, Types, Reading
<1> QED
  BY <1>1, <1>3, <1>4, <1>5, <1>6

\* A torn message stays torn.
LEMMA TornStays ==
  ASSUME Types, [Next]_vars, Torn
  PROVE  Torn'
<1> PICK t \in Producers : pcP[t] = "killed" /\ sent[t] % 2 = 1
  BY DEF Torn
<1> SUFFICES pcP'[t] = "killed" /\ sent'[t] = sent[t]
  BY DEF Torn
<1>1. ASSUME NEW p \in Producers, ProducerOpens(p) PROVE pcP'[t] = "killed" /\ sent'[t] = sent[t]
  BY <1>1 DEF ProducerOpens, PGoto, Opened, Types, prodVars, consVars
<1>2. ASSUME NEW p \in Producers, ProducerReadsInput(p) PROVE pcP'[t] = "killed" /\ sent'[t] = sent[t]
  BY <1>2 DEF ProducerReadsInput, PGoto, Types, prodVars, consVars
<1>3. ASSUME NEW p \in Producers, ProducerLocks(p) PROVE pcP'[t] = "killed" /\ sent'[t] = sent[t]
  BY <1>3 DEF ProducerLocks, PGoto, Flock, Types, prodVars, consVars
<1>4. ASSUME NEW p \in Producers, ProducerWrites(p) PROVE pcP'[t] = "killed" /\ sent'[t] = sent[t]
  BY <1>4 DEF ProducerWrites, PGoto, Part, Types, prodVars, consVars
<1>5. ASSUME NEW p \in Producers, ProducerIsKilled(p) PROVE pcP'[t] = "killed" /\ sent'[t] = sent[t]
  BY <1>5 DEF ProducerIsKilled, PGoto, Close, Unflock, Types, prodVars, consVars
<1>6. ASSUME NEW p \in Producers, ProducerUnlocks(p) PROVE pcP'[t] = "killed" /\ sent'[t] = sent[t]
  BY <1>6 DEF ProducerUnlocks, PGoto, Unflock, Types, prodVars, consVars
<1>7. ASSUME NEW p \in Producers, ProducerCloses(p) PROVE pcP'[t] = "killed" /\ sent'[t] = sent[t]
  BY <1>7 DEF ProducerCloses, PGoto, Close, Types, prodVars, consVars
<1>8. ASSUME NEW c \in Consumers, ConsumerOpensFifo(c) PROVE pcP'[t] = "killed" /\ sent'[t] = sent[t]
  BY <1>8 DEF ConsumerOpensFifo, CGoto, Opened, Types, prodVars, consVars
<1>9. ASSUME NEW c \in Consumers, ConsumerOpensFile(c) PROVE pcP'[t] = "killed" /\ sent'[t] = sent[t]
  BY <1>9 DEF ConsumerOpensFile, CGoto, Types, prodVars, consVars
<1>10. ASSUME NEW c \in Consumers, ConsumerLocks(c) PROVE pcP'[t] = "killed" /\ sent'[t] = sent[t]
  BY <1>10 DEF ConsumerLocks, CGoto, Flock, Types, prodVars, consVars
<1>11. ASSUME NEW c \in Consumers, ConsumerReads(c) PROVE pcP'[t] = "killed" /\ sent'[t] = sent[t]
  BY <1>11 DEF ConsumerReads, CGoto, Types, prodVars, consVars
<1>12. ASSUME NEW c \in Consumers, ConsumerSeesEnd(c) PROVE pcP'[t] = "killed" /\ sent'[t] = sent[t]
  BY <1>12 DEF ConsumerSeesEnd, CGoto, Types, prodVars, consVars
<1>13. ASSUME NEW c \in Consumers, ConsumerReadsHalf(c) PROVE pcP'[t] = "killed" /\ sent'[t] = sent[t]
  BY <1>13 DEF ConsumerReadsHalf, CGoto, Types, prodVars, consVars
<1>14. ASSUME NEW c \in Consumers, ConsumerFlushes(c) PROVE pcP'[t] = "killed" /\ sent'[t] = sent[t]
  BY <1>14 DEF ConsumerFlushes, CGoto, Types, prodVars, consVars
<1>15. ASSUME NEW c \in Consumers, ConsumerInserts(c) PROVE pcP'[t] = "killed" /\ sent'[t] = sent[t]
  BY <1>15 DEF ConsumerInserts, CGoto, Types, prodVars, consVars
<1>16. ASSUME NEW c \in Consumers, ConsumerUnlocks(c) PROVE pcP'[t] = "killed" /\ sent'[t] = sent[t]
  BY <1>16 DEF ConsumerUnlocks, CGoto, Unflock, Types, prodVars, consVars
<1>17. ASSUME NEW c \in Consumers, ConsumerClosesFifo(c) PROVE pcP'[t] = "killed" /\ sent'[t] = sent[t]
  BY <1>17 DEF ConsumerClosesFifo, CGoto, Close, Types, prodVars, consVars
<1>18. ASSUME NEW c \in Consumers, ConsumerClosesFile(c) PROVE pcP'[t] = "killed" /\ sent'[t] = sent[t]
  BY <1>18 DEF ConsumerClosesFile, CGoto, Unflock, Types, prodVars, consVars
<1>19. ASSUME UNCHANGED vars PROVE pcP'[t] = "killed" /\ sent'[t] = sent[t]
  BY <1>19 DEF Types, vars
<1> QED
  BY <1>1, <1>2, <1>3, <1>4, <1>5, <1>6, <1>7, <1>8, <1>9, <1>10, <1>11, <1>12, <1>13, <1>14, <1>15, <1>16, <1>17, <1>18, <1>19, Steps

\* What holds of a stream holds while nothing is sent or saved.
LEMMA StreamStays ==
  ASSUME NEW s \in Seq(PartType), NEW pc, NEW to, NEW n, NEW texts,
         Aligned(s, pc, n), Ordered(s, pc, n, texts),
         \A p \in Producers : Writing(to, n, p) <=> Writing(pc, n, p),
         \A p \in Producers : ~Ended(to, p) => ~Ended(pc, p)
  PROVE  Aligned(s, to, n) /\ Ordered(s, to, n, texts)
<1>1. Len(s) % 2 = 1 => s[Len(s)].from \in Producers
  <2>1. \A k \in Nat : k % 2 = 1 => k # 0
    OBVIOUS
  <2>2. \A i \in 1 .. Len(s) : s[i] \in PartType
    OBVIOUS
  <2>3. Len(s) % 2 = 1 => Len(s) \in 1 .. Len(s)
    BY <2>1
  <2> QED
    BY <2>2, <2>3 DEF PartType
<1>2. Aligned(s, to, n)
  BY <1>1, Zenon DEF Aligned
<1>3. Ordered(s, to, n, texts)
  BY Zenon DEF Ordered
<1> QED
  BY <1>2, <1>3

\* The FIFO is empty again when the last process has closed it.
LEMMA StreamDrops ==
  ASSUME NEW pc, NEW n, NEW texts \in [Rows -> Seq(TextType)],
         \A p \in Producers : ~Ended(pc, p) => pc[p] = "fopen" /\ n[p] = 0
  PROVE  Aligned(<<>>, pc, n) /\ Ordered(<<>>, pc, n, texts)
<1>1. DOMAIN <<>> = {} /\ Len(<<>>) = 0 /\ 0 % 2 = 0 /\ 0 % 2 # 1
  OBVIOUS
<1>2. \A p \in Producers : ~Writing(pc, n, p)
  BY DEF Writing, Ended
<1>3. \A p \in Producers : SavedOf(texts, p) \in Nat
  BY NamedPipeAssumption, LenProperties DEF SavedOf, Rows
<1>4. Aligned(<<>>, pc, n)
  BY <1>1, <1>2 DEF Aligned
<1>5. ASSUME NEW p \in Producers, ~Ended(pc, p), NEW m \in Nat,
             SavedOf(texts, p) < m, 2 * m <= n[p] + 1
      PROVE  FALSE
  BY <1>3, <1>5
<1>6. Ordered(<<>>, pc, n, texts)
  BY <1>1, <1>5 DEF Ordered
<1> QED
  BY <1>4, <1>6

\* A producer that has the lock writes its next part.
LEMMA StreamGrows ==
  ASSUME NEW s \in Seq(PartType), NEW pc \in [Producers -> ProducerPlaces],
         NEW n \in [Producers -> Nat], NEW texts \in [Rows -> Seq(TextType)],
         NEW p \in Producers, pc[p] = "fwrite",
         \A q \in Producers : pc[q] = "fwrite" => q = p,
         Aligned(s, pc, n), Ordered(s, pc, n, texts), SavedInOrder(n, texts),
         NEW to, to = [pc EXCEPT ![p] = IF n[p] % 2 = 0 THEN "fwrite" ELSE "unlock"]
  PROVE  LET t == Append(s, Part(p, n[p] + 1))
             k == [n EXCEPT ![p] = @ + 1]
         IN  Aligned(t, to, k) /\ Ordered(t, to, k, texts) /\ SavedInOrder(k, texts)
<1> DEFINE e == Part(p, n[p] + 1)
           t == Append(s, e)
           k == [n EXCEPT ![p] = n[p] + 1]
<1>1. /\ e \in PartType /\ e.from = p /\ e.half = 1 + (n[p] % 2) /\ e.msg \in Nat
      /\ 2 * e.msg = n[p] + 1 + ((n[p] + 1) % 2)
  BY ZenonT(60), PartIs DEF PartType
<1> HIDE DEF e
<1>2. /\ t \in Seq(PartType) /\ Len(t) = Len(s) + 1 /\ Len(s) \in Nat
      /\ t[Len(s) + 1] = e /\ \A i \in 1 .. Len(s) : t[i] = s[i]
      /\ DOMAIN t = 1 .. Len(s) + 1 /\ DOMAIN s = 1 .. Len(s)
  BY <1>1, AppendProperties, LenProperties
<1>3. /\ n[p] \in Nat /\ k[p] = n[p] + 1 /\ \A q \in Producers \ {p} : k[q] = n[q] /\ to[q] = pc[q]
      /\ to[p] = IF n[p] % 2 = 0 THEN "fwrite" ELSE "unlock"
      /\ \A q \in Producers : n[q] \in Nat /\ k[q] \in Nat /\ n[q] <= k[q]
  OBVIOUS
<1> HIDE DEF t, k
<1>4. \A i \in 1 .. Len(s) : s[i].from \in Producers /\ s[i].msg \in Nat
  <2>1. \A i \in 1 .. Len(s) : s[i] \in PartType
    BY <1>2
  <2> QED
    BY <2>1 DEF PartType
<1>5. /\ n[p] % 2 \in {0, 1} /\ (n[p] + 1) % 2 = 1 - (n[p] % 2)
      /\ Len(s) % 2 \in {0, 1} /\ (Len(s) + 1) % 2 = 1 - (Len(s) % 2)
  BY <1>2, <1>3, Parity
\* The new part comes after a whole message, or after the first half of its own.
<1>6. n[p] % 2 = Len(s) % 2
  <2>1. CASE n[p] % 2 = 1
    BY <2>1 DEF Aligned, Writing
  <2>2. CASE Len(s) % 2 = 1
    <3>1. Len(s) \in 1 .. Len(s)
      BY <2>2, <1>2
    <3>2. s[Len(s)].from = p
      BY <3>1, <2>2, <1>4 DEF Aligned, Writing
    <3> QED
      BY <2>2, <3>2 DEF Aligned, Writing
  <2> QED
    BY <1>5, <2>1, <2>2
<1>7. Len(s) % 2 = 1 => Len(s) \in 1 .. Len(s) /\ s[Len(s)].from = p /\ s[Len(s)].msg = e.msg
  <2> SUFFICES ASSUME Len(s) % 2 = 1
               PROVE  Len(s) \in 1 .. Len(s) /\ s[Len(s)].from = p /\ s[Len(s)].msg = e.msg
    OBVIOUS
  <2>1. Len(s) \in 1 .. Len(s)
    BY <1>2
  <2>2. s[Len(s)].from = p /\ n[p] + 1 = 2 * s[Len(s)].msg
    BY <2>1, <1>4 DEF Aligned, Writing
  <2>3. 2 * e.msg = n[p] + 1 /\ s[Len(s)].msg \in Nat
    <3>1. n[p] % 2 = 1
      BY <1>6
    <3>2. (n[p] + 1) % 2 = 0
      BY <1>5, <3>1
    <3>3. 2 * e.msg = n[p] + 1
      BY <1>1, <1>3, <3>2
    <3> QED
      BY <1>4, <2>1, <3>3
  <2> QED
    BY <1>1, <2>1, <2>2, <2>3
<1>8. Aligned(t, to, k)
  <2>1. \A i \in DOMAIN t : t[i].half = 2 - (i % 2)
    <3>1. \A i \in 1 .. Len(s) : t[i].half = 2 - (i % 2)
      BY <1>2 DEF Aligned
    <3>2. e.half = 2 - ((Len(s) + 1) % 2)
      BY <1>1, <1>5, <1>6
    <3>3. \A i \in DOMAIN t : i \in 1 .. Len(s) \/ i = Len(s) + 1
      BY <1>2
    <3> QED
      BY <1>2, <3>1, <3>2, <3>3, Zenon
  <2>2. ASSUME NEW i \in DOMAIN t, i % 2 = 0 PROVE t[i].from = t[i - 1].from /\ t[i].msg = t[i - 1].msg
    <3>1. CASE i = Len(s) + 1
      <4>1. Len(s) % 2 = 1 /\ i - 1 = Len(s)
        BY <1>2, <1>5, <2>2, <3>1
      <4> QED
        BY <1>1, <1>2, <1>7, <3>1, <4>1
    <3>2. CASE i \in 1 .. Len(s)
      <4>1. i # 1 /\ i - 1 \in 1 .. Len(s)
        <5>1. 1 % 2 = 1
          OBVIOUS
        <5>2. i # 1
          BY <2>2, <5>1
        <5>3. \A z \in Nat : \A j \in 1 .. z : j # 1 => j - 1 \in 1 .. z
          OBVIOUS
        <5> QED
          BY <1>2, <3>2, <5>2, <5>3
      <4> QED
        BY <1>2, <2>2, <3>2, <4>1 DEF Aligned
    <3> QED
      BY <1>2, <2>2, <3>1, <3>2
  <2>3. ASSUME Len(t) % 2 = 1 PROVE Writing(to, k, t[Len(t)].from) /\ k[t[Len(t)].from] + 1 = 2 * t[Len(t)].msg
    <3>1. Len(s) % 2 = 0 /\ n[p] % 2 = 0
      BY <1>2, <1>5, <1>6, <2>3
    <3>2. k[p] % 2 = 1 /\ to[p] = "fwrite" /\ 2 * e.msg = n[p] + 2
      BY <1>1, <1>3, <1>5, <3>1
    <3> QED
      BY <1>1, <1>2, <1>3, <3>2 DEF Writing
  <2>4. ASSUME NEW q \in Producers, Writing(to, k, q) PROVE Len(t) % 2 = 1 /\ t[Len(t)].from = q
    <3>1. q = p
      BY <1>3, <2>4 DEF Writing
    <3>2. n[p] % 2 = 0
      BY <1>3, <2>4, <3>1 DEF Writing
    <3> QED
      BY <1>1, <1>2, <1>5, <1>6, <3>1, <3>2
  <2> QED
    BY <2>1, <2>2, <2>3, <2>4 DEF Aligned
<1>9. \A q \in Producers : SavedOf(texts, q) \in Nat /\ 2 * SavedOf(texts, q) <= n[q]
  BY SMTT(30), NamedPipeAssumption, LenProperties DEF SavedOf, Rows, SavedInOrder
<1>10. SavedInOrder(k, texts)
  <2>1. \A q \in Producers : 2 * SavedOf(texts, q) <= k[q]
    BY <1>3, <1>9
  <2> QED
    BY <2>1 DEF SavedInOrder
<1>11. \A i \in DOMAIN s : InPlace(t, k, texts, i, s[i].from, s[i].msg)
  <2> SUFFICES ASSUME NEW i \in 1 .. Len(s) PROVE InPlace(t, k, texts, i, s[i].from, s[i].msg)
    BY <1>2
  <2> DEFINE q == s[i].from
             m == s[i].msg
  <2>1. InPlace(s, n, texts, i, q, m) /\ q \in Producers /\ m \in Nat /\ i - 1 <= Len(s) /\ i \in Nat
    BY <1>2, <1>4 DEF Ordered
  <2> HIDE DEF q, m
  <2>2. \A j \in 1 .. i - 1 : t[j] = s[j]
    BY SMTT(30), <1>2, <2>1
  <2>3. 2 * m <= k[q] + (i % 2)
    <3>1. i % 2 \in {0, 1}
      BY <2>1, Parity
    <3> QED
      BY SMTT(30), <1>3, <2>1, <3>1 DEF InPlace
  <2>4. InPlace(t, k, texts, i, q, m)
    BY <2>1, <2>2, <2>3 DEF InPlace, Has
  <2> QED
    BY <2>4 DEF q, m
<1>12. InPlace(t, k, texts, Len(s) + 1, p, e.msg)
  <2> DEFINE m == e.msg
             z == Len(s)
  <2>1. m \in Nat /\ z \in Nat /\ (z + 1) - 1 = z /\ 2 * m = n[p] + 1 + ((z + 1) % 2) /\ (z + 1) % 2 \in {0, 1}
    BY <1>1, <1>2, <1>5, <1>6
  <2>2. SavedOf(texts, p) < m
    BY <1>3, <1>9, <2>1
  <2>3. 2 * m <= k[p] + ((z + 1) % 2)
    BY <1>3, <2>1
  <2>4. ASSUME NEW l \in SavedOf(texts, p) + 1 .. m - 1 PROVE Has(t, z, p, l)
    <3>1. l \in Nat /\ SavedOf(texts, p) < l /\ 2 * l <= n[p] + 1
      BY SMTT(30), <1>3, <1>9, <2>1
    <3>2. Has(s, z, p, l)
      BY <3>1 DEF Ordered, Ended
    <3> QED
      BY <1>2, <3>2 DEF Has
  <2>5. ASSUME NEW j \in 1 .. z, t[j].from = p, t[j].msg >= m PROVE j = z /\ (z + 1) % 2 = 0
    <3>1. InPlace(s, n, texts, j, p, s[j].msg) /\ s[j].from = p /\ s[j].msg >= m /\ s[j].msg \in Nat /\ j % 2 \in {0, 1}
      <4>1. j \in DOMAIN s /\ j \in Nat /\ t[j] = s[j]
        BY <1>2
      <4>2. j % 2 \in {0, 1}
        BY <4>1, Parity
      <4>3. InPlace(s, n, texts, j, s[j].from, s[j].msg)
        BY <4>1 DEF Ordered
      <4> QED
        BY <1>4, <2>5, <4>1, <4>2, <4>3
    <3>2. 2 * s[j].msg <= n[p] + 1 /\ (j % 2 = 0 => 2 * s[j].msg <= n[p])
      BY <3>1, <1>3 DEF InPlace
    <3>3. (z + 1) % 2 = 0 /\ s[j].msg = m /\ j % 2 # 0
      BY <1>3, <2>1, <3>1, <3>2
    <3>4. z % 2 = 1 /\ z \in 1 .. z /\ s[z].from = p /\ s[z].msg = m
      BY <1>5, <1>7, <3>3
    <3>5. InPlace(s, n, texts, z, p, m)
      BY <1>2, <3>4 DEF Ordered
    <3>6. j # z => j \in 1 .. z - 1
      <4>1. \A x \in Nat : \A y \in 1 .. x : y # x => y \in 1 .. x - 1
        OBVIOUS
      <4> QED
        BY <2>1, <4>1
    <3>7. j # z => z % 2 = 0
      BY <3>1, <3>3, <3>5, <3>6 DEF InPlace
    <3> QED
      BY <3>3, <3>4, <3>7
  <2> HIDE DEF m, z
  <2>6. InPlace(t, k, texts, z + 1, p, m)
    BY <2>1, <2>2, <2>3, <2>4, <2>5 DEF InPlace
  <2> QED
    BY <2>6 DEF m, z
<1>13. ASSUME NEW q \in Producers, ~Ended(to, q), NEW m \in Nat, SavedOf(texts, q) < m, 2 * m <= k[q] + 1
       PROVE  Has(t, Len(t), q, m)
  <2>1. ~Ended(pc, q)
    BY <1>3, <1>13 DEF Ended
  <2>2. CASE 2 * m <= n[q] + 1
    <3>1. Has(s, Len(s), q, m)
      BY <1>13, <2>1, <2>2 DEF Ordered
    <3> QED
      BY <1>2, <3>1 DEF Has
  <2>3. CASE ~(2 * m <= n[q] + 1)
    <3>1. q = p /\ 2 * m = n[p] + 2
      <4>1. q = p
        BY <1>3, <1>13, <2>3
      <4>2. \A x \in Nat : 2 * m <= x + 2 /\ ~(2 * m <= x + 1) => 2 * m = x + 2
        OBVIOUS
      <4>3. 2 * m <= n[p] + 2
        BY <1>3, <1>13, <4>1
      <4> QED
        BY <1>3, <2>3, <4>1, <4>2, <4>3
    <3>2. (n[p] + 1) % 2 = 1
      <4>1. n[p] = 2 * (m - 1) /\ (m - 1) \in Nat
        BY <1>3, <3>1
      <4>2. n[p] % 2 = 0
        BY <4>1, Parity
      <4> QED
        BY <1>5, <4>2
    <3>3. e.msg = m
      BY <1>1, <3>1, <3>2
    <3>4. Len(s) + 1 \in 1 .. Len(t)
      BY <1>2
    <3> QED
      BY <1>1, <1>2, <3>1, <3>3, <3>4 DEF Has
  <2> QED
    BY <2>2, <2>3
<1>14. Ordered(t, to, k, texts)
  <2>1. \A i \in DOMAIN t : InPlace(t, k, texts, i, t[i].from, t[i].msg)
    <3> SUFFICES ASSUME NEW i \in DOMAIN t PROVE InPlace(t, k, texts, i, t[i].from, t[i].msg)
      OBVIOUS
    <3>1. CASE i \in 1 .. Len(s)
      BY <1>2, <1>11, <3>1
    <3>2. CASE i = Len(s) + 1
      BY <1>1, <1>2, <1>12, <3>2
    <3> QED
      BY <1>2, <3>1, <3>2
  <2> QED
    BY <2>1, <1>13 DEF Ordered
<1> QED
  BY <1>8, <1>10, <1>14 DEF t, k, e

\* The first two parts of the stream s are saved, t is left.
Saves(s, t, texts, new) ==
    /\ Len(s) >= 2 /\ Len(t) = Len(s) - 2
    /\ \A i \in 1 .. Len(t) : t[i] = s[i + 2]
    /\ new[Row[s[1].from]] = Append(texts[Row[s[1].from]], <<s[1].from, s[1].msg>>)
    /\ \A r \in Rows : r # Row[s[1].from] => new[r] = texts[r]

\* A consumer passes the first message of the stream to save.
LEMMA StreamSaves ==
  ASSUME NEW s \in Seq(PartType), NEW t \in Seq(PartType), NEW pc,
         NEW n \in [Producers -> Nat], NEW texts \in [Rows -> Seq(TextType)],
         Aligned(s, pc, n), Ordered(s, pc, n, texts), SavedInOrder(n, texts),
         NEW new, Saves(s, t, texts, new)
  PROVE  Aligned(t, pc, n) /\ Ordered(t, pc, n, new) /\ SavedInOrder(n, new)
<1> DEFINE p == s[1].from
           m == s[1].msg
<1>1. /\ Len(s) \in Nat /\ Len(t) \in Nat /\ DOMAIN s = 1 .. Len(s) /\ DOMAIN t = 1 .. Len(t)
      /\ 1 \in DOMAIN s /\ 2 \in DOMAIN s /\ Len(s) = Len(t) + 2
  <2>1. Len(s) >= 2 /\ Len(t) = Len(s) - 2
    BY DEF Saves
  <2>2. Len(s) \in Nat /\ Len(t) \in Nat /\ DOMAIN s = 1 .. Len(s) /\ DOMAIN t = 1 .. Len(t)
    BY LenProperties
  <2> QED
    BY <2>1, <2>2
<1>2. \A i \in DOMAIN s : s[i].from \in Producers /\ s[i].msg \in Nat
  <2>1. \A i \in DOMAIN s : s[i] \in PartType
    BY <1>1
  <2> QED
    BY <2>1 DEF PartType
<1>3. p \in Producers /\ m \in Nat /\ s[2].from = p /\ s[2].msg = m
  <2>1. 2 % 2 = 0 /\ 2 - 1 = 1
    OBVIOUS
  <2> QED
    BY <1>1, <1>2, <2>1 DEF Aligned
<1>4. \A q \in Producers : SavedOf(texts, q) \in Nat /\ 2 * SavedOf(texts, q) <= n[q]
  BY NamedPipeAssumption, LenProperties DEF SavedOf, Rows, SavedInOrder
<1>5. m = SavedOf(texts, p) + 1 /\ 2 * m <= n[p]
  <2>1. InPlace(s, n, texts, 1, p, m) /\ InPlace(s, n, texts, 2, p, m) /\ 2 % 2 = 0
    <3>1. InPlace(s, n, texts, 1, s[1].from, s[1].msg) /\ InPlace(s, n, texts, 2, s[2].from, s[2].msg)
      BY <1>1, Zenon DEF Ordered
    <3>2. 2 % 2 = 0
      OBVIOUS
    <3> QED
      BY <1>3, <3>1, <3>2
  <2>2. SavedOf(texts, p) < m /\ 2 * m <= n[p]
    BY <1>3, <2>1 DEF InPlace
  <2>3. \A l \in SavedOf(texts, p) + 1 .. m - 1 : FALSE
    <3>1. 1 .. (1 - 1) = {}
      OBVIOUS
    <3> QED
      BY <2>1, <3>1 DEF InPlace, Has
  <2> DEFINE z == SavedOf(texts, p)
  <2>4. z \in Nat /\ m \in Nat /\ z < m /\ \A l \in z + 1 .. m - 1 : FALSE
    BY <1>3, <1>4, <2>2, <2>3
  <2> HIDE DEF z, m
  <2>5. z + 1 \in z + 1 .. m - 1 \/ m = z + 1
    BY <2>4
  <2> QED
    BY <2>2, <2>4, <2>5 DEF z
<1>6. \A q \in Producers : Row[q] \in Rows /\ (Row[q] = Row[p] => q = p)
  BY <1>3, NamedPipeAssumption DEF Rows
<1> HIDE DEF p, m
<1>7. \A q \in Producers \ {p} : new[Row[q]] = texts[Row[q]]
  BY <1>6 DEF p, Saves
<1>8. /\ new[Row[p]] = Append(texts[Row[p]], <<p, m>>) /\ texts[Row[p]] \in Seq(TextType)
      /\ <<p, m>> \in TextType
  BY <1>3, <1>6 DEF p, m, TextType, Saves
<1>9. /\ Len(new[Row[p]]) = Len(texts[Row[p]]) + 1 /\ new[Row[p]][Len(texts[Row[p]]) + 1] = <<p, m>>
      /\ \A k \in 1 .. Len(texts[Row[p]]) : new[Row[p]][k] = texts[Row[p]][k]
  <2>1. \A u \in Seq(TextType), e \in TextType :
            /\ Len(Append(u, e)) = Len(u) + 1 /\ Append(u, e)[Len(u) + 1] = e
            /\ \A k \in 1 .. Len(u) : Append(u, e)[k] = u[k]
    BY AppendProperties
  <2> DEFINE u == texts[Row[p]]
             e == <<p, m>>
  <2>2. u \in Seq(TextType) /\ e \in TextType /\ new[Row[p]] = Append(u, e)
    BY <1>8
  <2> HIDE DEF u, e
  <2>3. /\ Len(Append(u, e)) = Len(u) + 1 /\ Append(u, e)[Len(u) + 1] = e
        /\ \A k \in 1 .. Len(u) : Append(u, e)[k] = u[k]
    BY <2>1, <2>2, Zenon
  <2>4. /\ Len(new[Row[p]]) = Len(u) + 1 /\ new[Row[p]][Len(u) + 1] = e
        /\ \A k \in 1 .. Len(u) : new[Row[p]][k] = u[k]
    BY <2>2, <2>3, Zenon
  <2> QED
    BY <2>4 DEF u, e
<1>10. SavedOf(new, p) = m /\ \A q \in Producers \ {p} : SavedOf(new, q) = SavedOf(texts, q)
  BY <1>5, <1>7, <1>9 DEF SavedOf
<1>10a. \A q \in Producers : SavedOf(new, q) \in Nat /\ SavedOf(texts, q) <= SavedOf(new, q)
  <2> SUFFICES ASSUME NEW q \in Producers
               PROVE  SavedOf(new, q) \in Nat /\ SavedOf(texts, q) <= SavedOf(new, q)
    OBVIOUS
  <2>1. SavedOf(texts, q) \in Nat
    BY <1>4
  <2>2. CASE q = p
    BY <1>3, <1>5, <1>10, <2>1, <2>2
  <2>3. CASE q # p
    <3>1. SavedOf(new, q) = SavedOf(texts, q)
      BY <1>10, <2>3
    <3> QED
      BY <2>1, <3>1
  <2> QED
    BY <2>2, <2>3
<1>11. SavedInOrder(n, new)
  <2> SUFFICES ASSUME NEW q \in Producers
               PROVE  /\ 2 * SavedOf(new, q) <= n[q]
                      /\ \A k \in 1 .. SavedOf(new, q) : new[Row[q]][k] = <<q, k>>
    BY DEF SavedInOrder
  <2>1. CASE q # p
    <3>1. SavedOf(new, q) = SavedOf(texts, q) /\ new[Row[q]] = texts[Row[q]]
      BY <1>7, <1>10, <2>1
    <3>2. /\ 2 * SavedOf(texts, q) <= n[q]
          /\ \A k \in 1 .. SavedOf(texts, q) : texts[Row[q]][k] = <<q, k>>
      BY DEF SavedInOrder
    <3> QED
      BY <3>1, <3>2
  <2>2. CASE q = p
    <3>1. \A k \in 1 .. m : k \in 1 .. SavedOf(texts, p) \/ k = m
      BY <1>3, <1>4, <1>5
    <3>2. Len(texts[Row[p]]) = SavedOf(texts, p) /\ Len(texts[Row[p]]) + 1 = m
      BY <1>5 DEF SavedOf
    <3>3. \A k \in 1 .. SavedOf(texts, p) : new[Row[p]][k] = <<p, k>>
      BY <1>3, <1>9, <3>2 DEF SavedInOrder
    <3> QED
      BY <1>5, <1>9, <1>10, <2>2, <3>1, <3>2, <3>3
  <2> QED
    BY <2>1, <2>2
<1>12. \A i \in 1 .. Len(t) : i \in Nat /\ i + 2 \in DOMAIN s /\ t[i] = s[i + 2] /\ (i + 2) % 2 = i % 2
  <2> TAKE i \in 1 .. Len(t)
  <2>1. i \in Nat /\ i + 2 \in DOMAIN s
    BY <1>1
  <2>2. t[i] = s[i + 2]
    BY DEF Saves
  <2>3. (i + 2) % 2 = i % 2
    BY <2>1, Parity
  <2> QED
    BY <2>1, <2>2, <2>3
<1>13. Len(s) = Len(t) + 2 /\ Len(s) % 2 = Len(t) % 2
  BY <1>1, Parity
<1>14. Aligned(t, pc, n)
  <2>1. \A i \in DOMAIN t : t[i].half = 2 - (i % 2)
    <3> SUFFICES ASSUME NEW i \in 1 .. Len(t) PROVE t[i].half = 2 - (i % 2)
      BY <1>1
    <3>1. s[i + 2].half = 2 - ((i + 2) % 2)
      BY <1>12 DEF Aligned
    <3> QED
      BY <1>12, <3>1
  <2>2. ASSUME NEW i \in DOMAIN t, i % 2 = 0 PROVE t[i].from = t[i - 1].from /\ t[i].msg = t[i - 1].msg
    <3>1. i # 1 /\ i \in 1 .. Len(t)
      <4>1. 1 % 2 = 1
        OBVIOUS
      <4> QED
        BY <1>1, <2>2, <4>1
    <3>2. i - 1 \in 1 .. Len(t) /\ (i + 2) - 1 = (i - 1) + 2
      BY <1>1, <3>1
    <3>3. s[i + 2].from = s[(i + 2) - 1].from /\ s[i + 2].msg = s[(i + 2) - 1].msg
      BY <1>12, <2>2, <3>1 DEF Aligned
    <3> QED
      BY <1>12, <3>1, <3>2, <3>3
  <2>3. Len(t) # 0 => t[Len(t)] = s[Len(s)]
    <3>1. \A x \in Nat : x # 0 => x \in 1 .. x
      OBVIOUS
    <3> QED
      BY <1>1, <1>12, <1>13, <3>1
  <2>4. Len(t) % 2 = 1 => Len(t) # 0
    <3>1. \A k \in Nat : k % 2 = 1 => k # 0
      OBVIOUS
    <3> QED
      BY <1>1, <3>1
  <2> QED
    BY <1>13, <2>1, <2>2, <2>3, <2>4 DEF Aligned
\* What is found in s and not yet saved is found in t.
<1>15. ASSUME NEW q \in Producers, NEW k \in 0 .. Len(t), NEW l \in Nat, SavedOf(new, q) < l, Has(s, k + 2, q, l)
       PROVE  Has(t, k, q, l)
  <2>1. PICK j \in 1 .. k + 2 : s[j].from = q /\ s[j].msg = l
    BY <1>15 DEF Has
  <2>2. j # 1 /\ j # 2
    <3>1. SUFFICES ASSUME q = p, l = m PROVE FALSE
      BY <1>3, <2>1 DEF p, m
    <3> QED
      BY <1>3, <1>10, <1>15, <3>1
  <2>3. j - 2 \in 1 .. k /\ (j - 2) + 2 = j /\ j - 2 \in 1 .. Len(t)
    <3>1. \A x \in Nat : \A y \in 1 .. x + 2 : y # 1 /\ y # 2 => y - 2 \in 1 .. x /\ (y - 2) + 2 = y
      OBVIOUS
    <3>2. j - 2 \in 1 .. k /\ (j - 2) + 2 = j
      BY <1>1, <2>2, <3>1
    <3> QED
      BY <1>1, <3>2
  <2>4. t[j - 2] = s[j]
    BY <1>12, <2>3
  <2> QED
    BY <2>1, <2>3, <2>4 DEF Has
<1>16. ASSUME NEW i \in 1 .. Len(t), NEW q, NEW x, q = s[i + 2].from, x = s[i + 2].msg
       PROVE  InPlace(t, n, new, i, q, x)
  <2>1. /\ InPlace(s, n, texts, i + 2, q, x) /\ q \in Producers /\ x \in Nat /\ i \in Nat
        /\ (i + 2) % 2 = i % 2 /\ (i + 2) - 1 = i + 1 /\ (i - 1) + 2 = i + 1 /\ i - 1 \in 0 .. Len(t)
    <3>1. i \in Nat /\ i + 2 \in DOMAIN s /\ (i + 2) % 2 = i % 2
      BY <1>12
    <3>2. (i + 2) - 1 = i + 1 /\ (i - 1) + 2 = i + 1 /\ i - 1 \in 0 .. Len(t)
      BY <1>1, <3>1
    <3>3. InPlace(s, n, texts, i + 2, q, x)
      BY <1>16, <3>1 DEF Ordered
    <3> QED
      BY <1>2, <1>16, <3>1, <3>2, <3>3
  <2>2. SavedOf(new, q) < x /\ SavedOf(new, q) \in Nat /\ SavedOf(texts, q) <= SavedOf(new, q)
    <3>1. CASE q # p
      <4>1. SavedOf(texts, q) < x /\ SavedOf(new, q) = SavedOf(texts, q)
        BY <1>10, <2>1, <3>1 DEF InPlace
      <4> QED
        BY <1>4, <2>1, <4>1
    <3>2. CASE q = p
      <4>1. 1 \in 1 .. (i + 2) - 1 /\ 1 # (i + 2) - 1
        BY <2>1
      <4>2. s[1].from = q /\ s[1].msg = m
        BY <3>2 DEF p, m
      <4>3. ~(m >= x)
        BY <2>1, <4>1, <4>2 DEF InPlace
      <4> QED
        <5>1. m < x
          BY <1>3, <2>1, <4>3
        <5>2. SavedOf(new, q) = m
          BY <1>10, <3>2
        <5> QED
          BY <1>10a, <2>1, <5>1, <5>2
    <3> QED
      BY <3>1, <3>2
  <2>3. ASSUME NEW l \in SavedOf(new, q) + 1 .. x - 1 PROVE Has(t, i - 1, q, l)
    <3>1. l \in SavedOf(texts, q) + 1 .. x - 1 /\ l \in Nat /\ SavedOf(new, q) < l
      BY <1>4, <2>1, <2>2
    <3>2. Has(s, (i - 1) + 2, q, l)
      BY <2>1, <3>1 DEF InPlace
    <3> QED
      BY <1>15, <2>1, <3>1, <3>2
  <2>4. ASSUME NEW j \in 1 .. i - 1, t[j].from = q, t[j].msg >= x PROVE j = i - 1 /\ i % 2 = 0
    <3>1. j \in 1 .. Len(t) /\ j + 2 \in 1 .. (i + 2) - 1
      BY <1>1, <2>1
    <3>2. t[j] = s[j + 2]
      BY <1>12, <3>1
    <3>3. j + 2 = (i + 2) - 1 /\ (i + 2) % 2 = 0
      BY <2>1, <2>4, <3>1, <3>2 DEF InPlace
    <3> QED
      BY <2>1, <3>3
  <2>5. 2 * x <= n[q] + (i % 2)
    BY <2>1 DEF InPlace
  <2> QED
    BY <2>2, <2>3, <2>4, <2>5 DEF InPlace
<1>17. ASSUME NEW q \in Producers, ~Ended(pc, q), NEW l \in Nat, SavedOf(new, q) < l, 2 * l <= n[q] + 1
       PROVE  Has(t, Len(t), q, l)
  <2>1. SavedOf(texts, q) <= SavedOf(new, q) /\ SavedOf(texts, q) \in Nat /\ SavedOf(new, q) \in Nat
    BY <1>4, <1>10a
  <2>2. Has(s, Len(t) + 2, q, l)
    BY <1>13, <1>17, <2>1 DEF Ordered
  <2>3. Len(t) \in 0 .. Len(t)
    BY <1>1
  <2> QED
    BY <1>15, <1>17, <2>2, <2>3
<1>18. Ordered(t, pc, n, new)
  <2>1. \A i \in DOMAIN t : InPlace(t, n, new, i, t[i].from, t[i].msg)
    BY <1>1, <1>12, <1>16
  <2> QED
    BY <2>1, <1>17 DEF Ordered
<1> QED
  BY <1>11, <1>14, <1>18

-------------------------------------------------------------------------------
(* Every step keeps the stream sound *)

\* Steps by which no part goes in or out.
LEMMA QuietKept ==
  ASSUME Types, Holders, Sound, InHand' \o fifo' = Stream, sent' = sent, saved' = saved,
         \A p \in Producers : Writing(pcP', sent, p) <=> Writing(pcP, sent, p),
         \A p \in Producers : ~Ended(pcP', p) => ~Ended(pcP, p),
         TwoParts'
  PROVE  Sound'
<1>1. Stream \in Seq(PartType)
  BY HandIs
<1>2. Aligned(Stream, pcP, sent) /\ Ordered(Stream, pcP, sent, saved) /\ SavedInOrder(sent, saved)
  BY DEF Sound
<1>3. Stream' = Stream
  BY DEF Stream
<1>4. Aligned(Stream, pcP', sent) /\ Ordered(Stream, pcP', sent, saved)
  BY <1>1, <1>2, StreamStays
<1> QED
  BY <1>2, <1>3, <1>4 DEF Sound

\* A producer that goes on, or waits for the lock, owes no second part.
LEMMA NotWriting ==
  ASSUME Types, Counts, NEW p \in Producers, pcP[p] # "fwrite" \/ sent[p] % 2 = 0
  PROVE  ~Writing(pcP, sent, p)
  BY Parity DEF Writing

\* A process closes the FIFO.
LEMMA CloseKept ==
  ASSUME Types, Holders, Counts, Sound, Types', Holders', Counts', NEW x, x \in ends, Close(x),
         InHand' = InHand, ends = {x} => InHand = <<>>, sent' = sent, saved' = saved,
         \A p \in Producers : Writing(pcP', sent, p) <=> Writing(pcP, sent, p),
         \A p \in Producers : ~Ended(pcP', p) => ~Ended(pcP, p),
         TwoParts'
  PROVE  Sound'
<1>1. CASE ends # {x}
  BY <1>1, QuietKept DEF Close, Stream
<1>2. CASE ends = {x}
  <2>1. Stream' = <<>> /\ ends' = {}
    BY <1>2 DEF Close, Stream
  <2>2. \A p \in Producers : ~Ended(pcP', p) => pcP'[p] = "fopen" /\ sent'[p] = 0
    BY <2>1 DEF Holders, Counts, Ended
  <2>3. Aligned(<<>>, pcP', sent') /\ Ordered(<<>>, pcP', sent', saved')
    <3>1. saved' \in [Rows -> Seq(TextType)]
      BY DEF Types
    <3> QED
      BY <2>2, <3>1, StreamDrops
  <2> QED
    BY <2>1, <2>3 DEF Sound
<1> QED
  BY <1>1, <1>2

\* The step of a producer.
LEMMA ProducerSound ==
  ASSUME Types, Holders, Counts, Buffers, Sound, Types', Holders', Counts', ~Torn',
         NEW p \in Producers, Producer(p)
  PROVE  Sound'
<1> USE NamedPipeAssumption
<1>1. CASE ProducerOpens(p)
  <2>1. pcC' = Opened(pcC, Consumers) /\ UNCHANGED <<sent, got, fifo, flocks, saved>>
        /\ pcP[p] = "fopen" /\ pcP' = [pcP EXCEPT ![p] = IF Readers = {} THEN "waits_fifo" ELSE "has_fifo"]
    BY <1>1 DEF ProducerOpens, PGoto
  <2>2. \A c \in Consumers : \A at \in Reading \cup {"insert"} : pcC'[c] = at <=> pcC[c] = at
    BY <2>1 DEF Opened, Reading
  <2>3. InHand' = InHand
    BY <2>1, <2>2 DEF InHand, Reading, Types
  <2>4. TwoParts'
    BY <2>1, <2>2 DEF TwoParts, Sound, Reading
  <2>5. \A q \in Producers : (Writing(pcP', sent, q) <=> Writing(pcP, sent, q)) /\ (~Ended(pcP', q) => ~Ended(pcP, q))
    BY <2>1 DEF Writing, Ended, Types
  <2> QED
    BY <2>1, <2>3, <2>4, <2>5, QuietKept DEF Stream
<1>2. CASE ProducerReadsInput(p) \/ ProducerLocks(p) \/ ProducerUnlocks(p)
  <2>1. UNCHANGED <<sent, pcC, got, fifo, saved>> /\ flocks'.out = flocks.out
        /\ \E to \in {"fclose", "flock", "fwrite", "has_fifo"} : pcP' = [pcP EXCEPT ![p] = to]
    BY <1>2 DEF ProducerReadsInput, ProducerLocks, ProducerUnlocks, PGoto, consVars, Flock, Unflock, Types
  <2>2. sent[p] % 2 = 0 /\ pcP[p] \notin {"done", "killed"}
    BY <1>2 DEF ProducerReadsInput, ProducerLocks, ProducerUnlocks, PGoto, Counts
  <2>3. InHand' = InHand /\ TwoParts'
    BY <2>1 DEF InHand, TwoParts, Sound
  <2>4. \A q \in Producers : (Writing(pcP', sent, q) <=> Writing(pcP, sent, q)) /\ (~Ended(pcP', q) => ~Ended(pcP, q))
    <3> SUFFICES ASSUME NEW q \in Producers
                 PROVE  (Writing(pcP', sent, q) <=> Writing(pcP, sent, q)) /\ (~Ended(pcP', q) => ~Ended(pcP, q))
      OBVIOUS
    <3>1. CASE q = p
      <4>1. sent[q] % 2 # 1
        BY <2>2, <3>1
      <4> QED
        BY <2>2, <3>1, <4>1 DEF Writing, Ended
    <3>2. CASE q # p
      <4>1. pcP'[q] = pcP[q]
        BY <2>1, <3>2 DEF Types
      <4> QED
        BY <4>1 DEF Writing, Ended
    <3> QED
      BY <3>1, <3>2
  <2> QED
    BY <2>1, <2>3, <2>4, QuietKept DEF Stream
<1>3. CASE ProducerWrites(p)
  <2> DEFINE e == Part(p, sent[p] + 1)
  <2>1. /\ pcP[p] = "fwrite" /\ pcP' = [pcP EXCEPT ![p] = IF sent[p] % 2 = 0 THEN "fwrite" ELSE "unlock"]
        /\ sent' = [sent EXCEPT ![p] = @ + 1] /\ fifo' = Append(fifo, e)
        /\ UNCHANGED <<flocks, pcC, got, saved>>
    BY <1>3 DEF ProducerWrites, PGoto, consVars
  <2>2. InHand' = InHand /\ TwoParts'
    BY <2>1 DEF InHand, TwoParts, Sound
  <2>3. e \in PartType /\ InHand \in Seq(PartType) /\ fifo \in Seq(PartType) /\ Stream \in Seq(PartType)
    BY PartIs, HandIs DEF Types
  <2> HIDE DEF e
  <2>4. Stream' = Append(Stream, e)
    <3>1. \A u, v \in Seq(PartType) : u \o Append(v, e) = Append(u \o v, e)
      BY <2>3
    <3> QED
      BY <2>1, <2>2, <2>3, <3>1 DEF Stream
  <2>5. \A q \in Producers : pcP[q] = "fwrite" => q = p
    BY SMTT(30), <2>1 DEF Holders
  <2>6. Aligned(Stream, pcP, sent) /\ Ordered(Stream, pcP, sent, saved) /\ SavedInOrder(sent, saved)
    BY DEF Sound
  <2>7. /\ Aligned(Append(Stream, e), pcP', [sent EXCEPT ![p] = @ + 1])
        /\ Ordered(Append(Stream, e), pcP', [sent EXCEPT ![p] = @ + 1], saved)
        /\ SavedInOrder([sent EXCEPT ![p] = @ + 1], saved)
    <3>1. /\ pcP \in [Producers -> ProducerPlaces] /\ sent \in [Producers -> Nat]
          /\ saved \in [Rows -> Seq(TextType)]
      BY DEF Types
    <3> QED
      BY <2>1, <2>3, <2>5, <2>6, <3>1, StreamGrows DEF e
  <2> QED
    BY <2>1, <2>2, <2>4, <2>7 DEF Sound
<1>4. CASE ProducerIsKilled(p) \/ ProducerCloses(p)
  <2>1. /\ Close(p) /\ UNCHANGED <<sent, pcC, got, saved>> /\ flocks'.out = flocks.out
        /\ pcP[p] \in {"fwrite", "fclose"} /\ \E to \in {"killed", "done"} : pcP' = [pcP EXCEPT ![p] = to]
    BY <1>4 DEF ProducerIsKilled, ProducerCloses, PGoto, consVars, Unflock, Types
  <2>2. p \in ends
    BY <2>1 DEF Holders
  <2>3. sent[p] % 2 # 1
    <3>1. CASE ProducerIsKilled(p)
      <4>1. pcP'[p] = "killed" /\ sent'[p] = sent[p]
        BY <3>1 DEF ProducerIsKilled, PGoto, Types
      <4> QED
        BY <4>1 DEF Torn
    <3>2. CASE ProducerCloses(p)
      BY <3>2 DEF ProducerCloses, PGoto, Counts
    <3> QED
      BY <1>4, <3>1, <3>2
  <2>4. InHand' = InHand /\ TwoParts'
    BY <2>1 DEF InHand, TwoParts, Sound
  <2>5. ends = {p} => InHand = <<>>
    <3>1. \A c \in Consumers : pcC[c] \in Reading => c \in ends
      BY DEF Holders, Reading
    <3> QED
      BY <3>1, HandIs
  <2>6. \A q \in Producers : (Writing(pcP', sent, q) <=> Writing(pcP, sent, q)) /\ (~Ended(pcP', q) => ~Ended(pcP, q))
    <3> SUFFICES ASSUME NEW q \in Producers
                 PROVE  (Writing(pcP', sent, q) <=> Writing(pcP, sent, q)) /\ (~Ended(pcP', q) => ~Ended(pcP, q))
      OBVIOUS
    <3>1. CASE q = p
      BY <2>1, <2>3, <3>1 DEF Writing, Ended
    <3>2. CASE q # p
      <4>1. pcP'[q] = pcP[q]
        BY <2>1, <3>2 DEF Types
      <4> QED
        BY <4>1 DEF Writing, Ended
    <3> QED
      BY <3>1, <3>2
  <2> QED
    BY <2>1, <2>2, <2>4, <2>5, <2>6, CloseKept
<1> QED
  BY <1>1, <1>2, <1>3, <1>4 DEF Producer

\* The step of a consumer.
LEMMA ConsumerSound ==
  ASSUME Types, Holders, Counts, Buffers, Sound, Types', Holders', Counts', Buffers',
         NEW c \in Consumers, Consumer(c)
  PROVE  Sound'
<1> USE NamedPipeAssumption
<1>1. CASE ConsumerOpensFifo(c)
  <2>1. pcP' = Opened(pcP, Producers) /\ UNCHANGED <<sent, got, fifo, flocks, saved>>
        /\ pcC[c] = "fopen_fifo" /\ pcC' = [pcC EXCEPT ![c] = IF Writers = {} THEN "waits_fifo" ELSE "has_fifo"]
    BY <1>1 DEF ConsumerOpensFifo, CGoto
  <2>2. \A d \in Consumers : \A at \in Reading : pcC'[d] = at <=> pcC[d] = at
    BY <2>1 DEF Reading, Types
  <2>3. InHand' = InHand
    BY <2>1, <2>2 DEF InHand, Reading, Types
  <2>4. TwoParts'
    BY <2>1, <2>2 DEF TwoParts, Sound, Reading
  <2>5. \A q \in Producers : (Writing(pcP', sent, q) <=> Writing(pcP, sent, q)) /\ (~Ended(pcP', q) => ~Ended(pcP, q))
    BY <2>1 DEF Writing, Ended, Opened
  <2> QED
    BY <2>1, <2>3, <2>4, <2>5, QuietKept DEF Stream
<1>2. CASE \/ ConsumerOpensFile(c) \/ ConsumerLocks(c) \/ ConsumerSeesEnd(c) \/ ConsumerFlushes(c)
           \/ ConsumerUnlocks(c) \/ ConsumerClosesFile(c)
  <2>1. UNCHANGED <<pcP, sent, fifo, saved>>
    BY <1>2 DEF ConsumerOpensFile, ConsumerLocks, ConsumerSeesEnd, ConsumerFlushes, ConsumerUnlocks,
                ConsumerClosesFile, prodVars
  <2>2. InHand' = InHand
    <3>1. CASE ConsumerOpensFile(c)
      BY <3>1 DEF ConsumerOpensFile, CGoto, InHand, Types, Holders
    <3>2. CASE ConsumerLocks(c)
      BY <3>2 DEF ConsumerLocks, CGoto, Flock, InHand, Types, Holders, Buffers
    <3>3. CASE ConsumerSeesEnd(c)
      BY <3>3 DEF ConsumerSeesEnd, CGoto, InHand, Types, Holders
    <3>4. CASE ConsumerFlushes(c)
      BY <3>4 DEF ConsumerFlushes, CGoto, InHand, Types, Holders
    <3>5. CASE ConsumerUnlocks(c)
      BY <3>5 DEF ConsumerUnlocks, CGoto, Unflock, InHand, Types, Holders
    <3>6. CASE ConsumerClosesFile(c)
      BY <3>6 DEF ConsumerClosesFile, CGoto, Unflock, InHand, Types, Holders
    <3> QED
      BY <1>2, <3>1, <3>2, <3>3, <3>4, <3>5, <3>6
  <2>3. TwoParts'
    <3>1. \A d \in Consumers \ {c} : pcC'[d] = pcC[d] /\ got'[d] = got[d]
      BY <1>2 DEF ConsumerOpensFile, ConsumerLocks, ConsumerSeesEnd, ConsumerFlushes, ConsumerUnlocks,
                  ConsumerClosesFile, CGoto, Types
    <3>2. pcC'[c] \in {"save", "insert"} => pcC[c] = "save" /\ got' = got
      BY <1>2 DEF ConsumerOpensFile, ConsumerLocks, ConsumerSeesEnd, ConsumerFlushes, ConsumerUnlocks,
                  ConsumerClosesFile, CGoto, Types
    <3> QED
      BY <3>1, <3>2 DEF TwoParts, Sound
  <2> QED
    BY <2>1, <2>2, <2>3, QuietKept DEF Stream
<1>3. CASE ConsumerReads(c)
  <2>1. /\ UNCHANGED <<pcP, sent, saved, flocks>> /\ fifo # <<>> /\ fifo' = Tail(fifo)
        /\ pcC[c] = "fread" /\ pcC' = [pcC EXCEPT ![c] = IF got[c] = <<>> THEN "fread" ELSE "save"]
        /\ got' = [got EXCEPT ![c] = Append(@, Head(fifo))]
    BY <1>3 DEF ConsumerReads, CGoto, prodVars
  <2>2. InHand = got[c] /\ InHand' = Append(got[c], Head(fifo)) /\ got[c] \in Seq(PartType) /\ fifo \in Seq(PartType)
    BY <2>1 DEF InHand, Types, Holders
  <2>3. InHand' \o fifo' = Stream
    <3>1. \A u, v \in Seq(PartType) : v # <<>> => Append(u, Head(v)) \o Tail(v) = u \o v
      OBVIOUS
    <3> QED
      BY <2>1, <2>2, <3>1 DEF Stream
  <2>4. TwoParts'
    <3>1. \A d \in Consumers \ {c} : pcC'[d] = pcC[d] /\ got'[d] = got[d]
      BY <2>1 DEF Types
    <3>2. pcC'[c] = "save" => Len(got'[c]) = 2
      <4>1. got[c] # <<>> => Len(got[c]) = 1
        <5>1. Len(got[c]) \in Nat /\ Len(got[c]) <= 1 /\ (got[c] # <<>> => Len(got[c]) # 0)
          BY <2>1, <2>2, LenProperties, EmptySeq DEF Buffers
        <5>2. \A k \in Nat : k <= 1 /\ k # 0 => k = 1
          OBVIOUS
        <5> QED
          BY <5>1, <5>2, Zenon
      <4>2. Head(fifo) \in PartType
        BY <2>1, <2>2
      <4>3. Len(Append(got[c], Head(fifo))) = Len(got[c]) + 1
        BY <2>2, <4>2, AppendProperties
      <4>4. got'[c] = Append(got[c], Head(fifo)) /\ (pcC'[c] = "save" => got[c] # <<>>)
        BY <2>1 DEF Types
      <4>5. 1 + 1 = 2
        OBVIOUS
      <4> QED
        BY <4>1, <4>3, <4>4, <4>5, Zenon
    <3>3. pcC'[c] \in {"fread", "save"}
      BY <2>1 DEF Types
    <3> QED
      BY <3>1, <3>2, <3>3 DEF TwoParts, Sound
  <2> QED
    BY <2>1, <2>3, <2>4, QuietKept
\* The producer of the first half still has the FIFO open.
<1>4. CASE ConsumerReadsHalf(c)
  <2>1. pcC[c] = "fread" /\ fifo = <<>> /\ Writers = {} /\ got[c] # <<>>
    BY <1>4 DEF ConsumerReadsHalf, CGoto
  <2>2. got[c] \in Seq(PartType) /\ Len(got[c]) = 1
    <3>1. got[c] \in Seq(PartType) /\ Len(got[c]) <= 1
      BY <2>1 DEF Types, Buffers
    <3>2. Len(got[c]) \in Nat /\ Len(got[c]) # 0
      BY <2>1, <3>1, LenProperties, EmptySeq
    <3>3. \A k \in Nat : k <= 1 /\ k # 0 => k = 1
      OBVIOUS
    <3> QED
      BY <3>1, <3>2, <3>3, Zenon
  <2>3. Stream = got[c]
    BY <2>1, <2>2, HandIs, ConcatEmptySeq DEF Stream, Reading
  <2>4. Writing(pcP, sent, got[c][1].from) /\ got[c][1].from \in Producers
    <3>1. got[c][1] \in PartType /\ 1 % 2 = 1
      BY <2>2
    <3> QED
      BY <2>2, <2>3, <3>1 DEF Sound, Aligned, PartType
  <2>5. got[c][1].from \in Writers
    BY <2>4 DEF Writing, Writers, Holders
  <2> QED
    BY <2>1, <2>5
<1>5. CASE ConsumerInserts(c)
  <2> DEFINE row == RowRead(got[c])
             text == Text(got[c])
  <2>1. /\ pcC[c] = "insert" /\ pcC' = [pcC EXCEPT ![c] = "unlock"]
        /\ saved' = [r \in Rows |-> IF r = row THEN Append(saved[r], text) ELSE saved[r]]
        /\ UNCHANGED <<pcP, sent, got, fifo, flocks>>
    BY <1>5 DEF ConsumerInserts, CGoto, prodVars
  <2>2. InHand = got[c] /\ Len(got[c]) = 2
    BY <2>1, HandIs DEF Reading, TwoParts, Sound
  <2>3. InHand' = <<>>
    BY <2>1 DEF InHand, Types, Holders
  <2>4. /\ Stream \in Seq(PartType) /\ fifo \in Seq(PartType) /\ Len(Stream) = 2 + Len(fifo) /\ Len(fifo) \in Nat
        /\ DOMAIN Stream = 1 .. Len(Stream) /\ Stream[1] = got[c][1] /\ Stream[2] = got[c][2]
        /\ \A i \in 1 .. Len(fifo) : fifo[i] = Stream[i + 2]
    <3>1. /\ Stream \in Seq(PartType) /\ fifo \in Seq(PartType) /\ Len(Stream) = 2 + Len(fifo) /\ Len(fifo) \in Nat
          /\ DOMAIN Stream = 1 .. Len(Stream)
          /\ \A i \in 1 .. Len(Stream) : Stream[i] = IF i <= 2 THEN got[c][i] ELSE fifo[i - 2]
      BY <2>2, HandIs, LenProperties DEF Types
    <3>2. \A i \in 1 .. Len(fifo) : i + 2 \in 1 .. Len(Stream) /\ ~(i + 2 <= 2) /\ (i + 2) - 2 = i
      BY <3>1
    <3>3. 1 \in 1 .. Len(Stream) /\ 2 \in 1 .. Len(Stream)
      BY <3>1
    <3>4. \A i \in 1 .. Len(fifo) : fifo[i] = Stream[i + 2]
      BY <3>1, <3>2, Zenon
    <3>5. Stream[1] = got[c][1] /\ Stream[2] = got[c][2]
      BY <3>1, <3>3
    <3> QED
      BY <3>1, <3>4, <3>5
  <2>5. Aligned(Stream, pcP, sent) /\ Ordered(Stream, pcP, sent, saved) /\ SavedInOrder(sent, saved) /\ TwoParts
    BY DEF Sound
  <2>6. Whole(got[c])
    <3>1. 1 \in DOMAIN Stream /\ 2 \in DOMAIN Stream /\ 1 % 2 = 1 /\ 2 % 2 = 0 /\ 2 - 1 = 1
      BY <2>4
    <3> QED
      BY <2>2, <2>4, <2>5, <3>1 DEF Whole, Aligned
  <2>7. row = Row[Stream[1].from] /\ text = <<Stream[1].from, Stream[1].msg>>
    BY <2>4, <2>6 DEF RowRead, Text, Whole
  <2> HIDE DEF row, text
  <2>8. saved' = [r \in Rows |-> IF r = Row[Stream[1].from]
                                 THEN Append(saved[r], <<Stream[1].from, Stream[1].msg>>) ELSE saved[r]]
    BY <2>1, <2>7
  <2>9. Aligned(fifo, pcP, sent) /\ Ordered(fifo, pcP, sent, saved') /\ SavedInOrder(sent, saved')
    <3>1. sent \in [Producers -> Nat] /\ saved \in [Rows -> Seq(TextType)] /\ Len(Stream) >= 2 /\ Len(fifo) = Len(Stream) - 2
      BY SMTT(30), <2>4 DEF Types
    <3>2. Saves(Stream, fifo, saved, saved')
      <4>1. Stream[1] \in PartType
        BY <2>4
      <4>2. Row[Stream[1].from] \in Rows
        BY <4>1 DEF PartType, Rows
      <4>3. /\ saved'[Row[Stream[1].from]] = Append(saved[Row[Stream[1].from]], <<Stream[1].from, Stream[1].msg>>)
            /\ \A r \in Rows : r # Row[Stream[1].from] => saved'[r] = saved[r]
        BY <2>8, <4>2
      <4> QED
        BY <2>4, <3>1, <4>3 DEF Saves
    <3> QED
      BY <2>4, <2>5, <3>1, <3>2, StreamSaves
  <2>10. Stream' = fifo
    BY <2>1, <2>3, <2>4, ConcatEmptySeq DEF Stream
  <2>11. TwoParts'
    BY <2>1, <2>5 DEF TwoParts, Types
  <2> QED
    BY <2>1, <2>9, <2>10, <2>11 DEF Sound
<1>6. CASE ConsumerClosesFifo(c)
  <2>1. /\ pcC[c] = "fclose_fifo" /\ pcC' = [pcC EXCEPT ![c] = "fclose_out"] /\ Close(c)
        /\ UNCHANGED <<got, flocks, pcP, sent, saved>>
    BY <1>6 DEF ConsumerClosesFifo, CGoto, prodVars
  <2>2. InHand = <<>> /\ InHand' = <<>> /\ c \in ends
    <3>1. flocks.out = c /\ c \in ends
      BY <2>1 DEF Holders
    <3>2. flocks' = flocks /\ pcC'[c] = "fclose_out"
      BY <2>1 DEF Types
    <3> QED
      BY <2>1, <3>1, <3>2 DEF InHand
  <2>3. TwoParts'
    BY <2>1 DEF TwoParts, Sound, Types
  <2> QED
    BY <2>1, <2>2, <2>3, CloseKept
<1> QED
  BY <1>1, <1>2, <1>3, <1>4, <1>5, <1>6 DEF Consumer

-------------------------------------------------------------------------------
(* The theorems *)

\* Nothing is sent, read or saved.
LEMMA InitIInv == Init => IInv
<1> SUFFICES ASSUME Init PROVE IInv
  OBVIOUS
<1> USE NamedPipeAssumption
<1>1. Types
  BY DEF Init, Types, ProducerPlaces, ConsumerPlaces
<1>2. Holders
  BY DEF Init, Holders
<1>3. Counts
  <2>1. 0 % 2 = 0
    OBVIOUS
  <2> QED
    BY <2>1 DEF Init, Counts, Parts
<1>4. Buffers /\ TwoParts
  BY DEF Init, Buffers, TwoParts
<1>5. Stream = <<>>
  <2>1. InHand = <<>> /\ fifo = <<>>
    BY DEF Init, InHand
  <2> QED
    BY <2>1 DEF Stream
<1>6. Aligned(<<>>, pcP, sent) /\ Ordered(<<>>, pcP, sent, saved)
  <2>1. \A p \in Producers : pcP[p] = "fopen" /\ sent[p] = 0
    BY DEF Init
  <2>2. saved \in [Rows -> Seq(TextType)]
    BY <1>1 DEF Types
  <2> QED
    BY <2>1, <2>2, StreamDrops
<1>7. SavedInOrder(sent, saved)
  <2>1. \A p \in Producers : Len(saved[Row[p]]) = 0 /\ sent[p] = 0
    BY DEF Init, Rows
  <2> QED
    BY <2>1 DEF SavedInOrder, SavedOf
<1> QED
  BY <1>1, <1>2, <1>3, <1>4, <1>5, <1>6, <1>7 DEF IInv, Sound

\* Every step keeps the invariant.
LEMMA IInvKept == IInv /\ [Next]_vars => IInv'
<1> SUFFICES ASSUME IInv, [Next]_vars PROVE IInv'
  OBVIOUS
<1>1. Types /\ Holders /\ Counts /\ Buffers
  BY DEF IInv
<1>2. Types' /\ Counts' /\ Buffers'
  BY <1>1, TypesKept, CountsKept, BuffersKept
<1>3. Holders'
  BY <1>1, <1>2, HoldersKept
<1>4. ASSUME ~Torn' PROVE Sound'
  <2>1. Sound
    BY <1>1, <1>4, TornStays DEF IInv
  <2>2. ASSUME NEW p \in Producers, Producer(p) PROVE Sound'
    BY <1>1, <1>2, <1>3, <1>4, <2>1, <2>2, ProducerSound
  <2>3. ASSUME NEW c \in Consumers, Consumer(c) PROVE Sound'
    BY <1>1, <1>2, <1>3, <2>1, <2>3, ConsumerSound
  <2>4. CASE UNCHANGED vars
    <3>1. UNCHANGED <<pcP, sent, pcC, got, fifo, flocks, saved>>
      BY <2>4 DEF vars
    <3>2. InHand' = InHand /\ TwoParts'
      BY <2>1, <3>1 DEF InHand, TwoParts, Sound
    <3> QED
      BY <1>1, <2>1, <3>1, <3>2, QuietKept DEF Stream
  <2> QED
    BY <2>2, <2>3, <2>4 DEF Next
<1> QED
  BY <1>2, <1>3, <1>4 DEF IInv

\* The invariant holds of every behaviour of the processes.
THEOREM Invariance == Spec => []IInv
<1>1. Init => IInv
  BY InitIInv
<1>2. IInv /\ [Next]_vars => IInv'
  BY IInvKept
<1> QED
  BY <1>1, <1>2, PTL DEF Spec

\* What is passed to save is one message, and the messages of a producer come
\* in the order in which it sent them, each once.
THEOREM WholeMessages == Spec => []MessagesWhole
<1>1. IInv => MessagesWhole
  <2> SUFFICES ASSUME IInv PROVE MessagesWhole
    OBVIOUS
  <2>1. Types /\ Holders /\ Counts /\ Buffers
    BY DEF IInv
  <2>2. TypeOK
    <3>1. \A p \in Producers : sent[p] \in 0 .. Parts(p)
      BY <2>1, NamedPipeAssumption DEF Types, Counts, Parts
    <3>2. \A c \in Consumers : Len(got[c]) <= 2 /\ (pcC[c] = "save" => got[c] # <<>>)
      <4> SUFFICES ASSUME NEW c \in Consumers
                   PROVE  Len(got[c]) <= 2 /\ (pcC[c] = "save" => got[c] # <<>>)
        OBVIOUS
      <4>1. Len(got[c]) \in Nat /\ (got[c] = <<>> => Len(got[c]) = 0)
        BY <2>1, LenProperties DEF Types
      <4>2. \/ pcC[c] = "fread" /\ Len(got[c]) <= 1
            \/ pcC[c] # "fread" /\ Len(got[c]) \in 1 .. 2
            \/ pcC[c] \notin {"fread", "save"} /\ Len(got[c]) = 0
        BY <2>1, <4>1, Zenon DEF Buffers
      <4>3. 0 <= 2 /\ \A k \in Nat : (k \in 1 .. 2 => k <= 2 /\ k # 0) /\ (k <= 1 => k <= 2)
        OBVIOUS
      <4>4. Len(got[c]) <= 2
        BY <4>1, <4>2, <4>3, Zenon
      <4>5. pcC[c] = "save" => Len(got[c]) # 0
        BY <4>1, <4>2, <4>3, Zenon
      <4> QED
        BY <4>1, <4>4, <4>5, Zenon
    <3> QED
      BY <2>1, <3>1, <3>2 DEF TypeOK, Types, ProducerPlaces, ConsumerPlaces
  <2>3. ASSUME ~Torn, NEW c \in Consumers, pcC[c] \in {"save", "insert"} PROVE Whole(got[c])
    <3>1. Aligned(Stream, pcP, sent) /\ Len(got[c]) = 2
      BY <2>3 DEF IInv, Sound, TwoParts
    <3>2. InHand = got[c]
      BY <2>1, <2>3, HandIs DEF Reading
    <3>3. Stream[1] = got[c][1] /\ Stream[2] = got[c][2] /\ 1 \in DOMAIN Stream /\ 2 \in DOMAIN Stream
      <4>1. /\ Len(Stream) = 2 + Len(fifo) /\ Len(fifo) \in Nat /\ DOMAIN Stream = 1 .. Len(Stream)
            /\ \A i \in 1 .. Len(Stream) : Stream[i] = IF i <= 2 THEN got[c][i] ELSE fifo[i - 2]
        BY <2>1, <3>1, <3>2, HandIs, LenProperties DEF Types
      <4>2. 1 \in 1 .. Len(Stream) /\ 2 \in 1 .. Len(Stream)
        BY <4>1
      <4> QED
        BY <4>1, <4>2
    <3>4. 1 % 2 = 1 /\ 2 % 2 = 0 /\ 2 - 1 = 1
      OBVIOUS
    <3> QED
      BY <3>1, <3>3, <3>4 DEF Whole, Aligned
  <2>4. ASSUME ~Torn, NEW p \in Producers PROVE IsPrefix(saved[Row[p]], Texts(p))
    <3> DEFINE s == saved[Row[p]]
               t == Texts(p)
               l == Messages[p]
    <3>1. SavedInOrder(sent, saved) /\ s \in Seq(TextType) /\ l \in Nat
      BY <2>1, <2>4, NamedPipeAssumption DEF IInv, Sound, Types, Rows
    <3>2. Len(s) <= l /\ Len(s) \in Nat
      <4>1. Len(s) \in Nat /\ 2 * Len(s) <= sent[p] /\ sent[p] <= 2 * l /\ sent[p] \in Nat
        BY <2>1, <3>1, LenProperties DEF SavedInOrder, SavedOf, Counts, Parts, Types
      <4> QED
        BY <3>1, <4>1
    <3>3. \A k \in 1 .. Len(s) : s[k] = <<p, k>>
      BY <3>1 DEF SavedInOrder, SavedOf
    <3>4. t \in Seq(TextType) /\ Len(t) = l /\ \A k \in 1 .. l : t[k] = <<p, k>>
      BY <3>1 DEF Texts, TextType
    <3> HIDE DEF s, t, l
    <3>5. SubSeq(s, 1, Len(s)) = SubSeq(t, 1, Len(s))
      <4>1. \A i \in 1 .. Len(s) : s[i] = t[i] /\ s[i] \in TextType
        BY SMTT(30), <3>1, <3>2, <3>3, <3>4
      <4>2. Len(SubSeq(s, 1, Len(s))) = Len(s) /\ Len(SubSeq(t, 1, Len(s))) = Len(s)
        BY <3>1, <3>2, <3>4
      <4>3. \A i \in 1 .. Len(s) : SubSeq(s, 1, Len(s))[i] = s[i] /\ SubSeq(t, 1, Len(s))[i] = t[i]
        BY <3>1, <3>2, <3>4
      <4>4. SubSeq(s, 1, Len(s)) \in Seq(TextType) /\ SubSeq(t, 1, Len(s)) \in Seq(TextType)
        BY <3>1, <3>2, <3>4
      <4> QED
        BY <4>1, <4>2, <4>3, <4>4, SeqEqual
    <3>6. IsPrefix(s, t)
      BY <3>2, <3>4, <3>5 DEF IsPrefix
    <3> QED
      BY <3>6 DEF s, t
  <2> QED
    BY <2>2, <2>3, <2>4 DEF MessagesWhole
<1> QED
  BY <1>1, Invariance, PTL

-------------------------------------------------------------------------------
(* The rows of the output file *)

\* The elements of a set of numbers in their order: which one is at what place,
\* and the cells of a file that they are the indices of.
Rank(C, i) == Cardinality({j \in C : j <= i})
Picked(f, C) == [k \in 1 .. Cardinality(C) |-> f[CHOOSE i \in C : Rank(C, i) = k]]

\* The cells of a row are those with as many newlines before them.
Before(f, i) == Cardinality({j \in Newlines(f) : j < i})
Cells(f, row) == {i \in DOMAIN f : f[i] # NL /\ Before(f, i) = row - 1}

\* A row is what its cells hold, in their order.
LEMMA RowIs == ASSUME NEW f, NEW row PROVE RowOf(f, row) = Picked(f, Cells(f, row))
BY DEF RowOf, Picked, Cells, Before, Rank

\* A set that has one element for each of another set has as many.
OneToOne(h, S, T) ==
    /\ \A x \in S : h[x] \in T
    /\ \A x, y \in S : h[x] = h[y] => x = y
    /\ \A y \in T : \E x \in S : y = h[x]

\* A finite set and its image have as many elements.
LEMMA ImageIs ==
    ASSUME NEW S, IsFiniteSet(S), NEW T, NEW h, OneToOne(h, S, T)
    PROVE  IsFiniteSet(T) /\ Cardinality(T) = Cardinality(S)
<1> DEFINE m == [x \in S |-> h[x]]
<1>1. m \in Bijection(S, T)
  <2>1. m \in [S -> T] /\ \A x \in S : m[x] = h[x]
    BY DEF OneToOne
  <2> HIDE DEF m
  <2>2. \A x, y \in S : m[x] = m[y] => x = y
    BY <2>1, Zenon DEF OneToOne
  <2>3. \A y \in T : \E x \in S : m[x] = y
    BY <2>1, Zenon DEF OneToOne
  <2> QED
    BY <2>1, <2>2, <2>3, Zenon DEF Bijection, Injection, Surjection, IsInjective
<1>2. ExistsBijection(S, T)
  BY <1>1 DEF ExistsBijection
<1> QED
  BY <1>2, FS_Bijection

\* In every place there is one element.
LEMMA RankIs ==
    ASSUME NEW C \in SUBSET Nat, IsFiniteSet(C)
    PROVE  /\ Cardinality(C) \in Nat
           /\ \A i \in C : Rank(C, i) \in 1 .. Cardinality(C)
           /\ \A i, j \in C : Rank(C, i) = Rank(C, j) => i = j
           /\ \A k \in 1 .. Cardinality(C) : \E i \in C : Rank(C, i) = k
<1> DEFINE Upto(i) == {j \in C : j <= i}
           n == Cardinality(C)
           m == [i \in C |-> Rank(C, i)]
<1>1. n \in Nat
  BY FS_CardinalityType
<1>2. ASSUME NEW i \in C PROVE IsFiniteSet(Upto(i)) /\ Rank(C, i) \in 1 .. n
  <2>1. Upto(i) \in SUBSET C /\ i \in Upto(i)
    OBVIOUS
  <2> HIDE DEF Upto
  <2>2. IsFiniteSet(Upto(i)) /\ Cardinality(Upto(i)) <= n
    BY <2>1, FS_Subset
  <2>3. Cardinality(Upto(i)) \in Nat /\ Cardinality(Upto(i)) # 0
    BY <2>1, <2>2, FS_CardinalityType, FS_EmptySet
  <2> QED
    BY <1>1, <2>2, <2>3 DEF Upto, Rank
<1>3. ASSUME NEW i \in C, NEW j \in C, i < j PROVE Rank(C, i) # Rank(C, j)
  <2>1. Upto(i) \in SUBSET Upto(j) /\ j \in Upto(j) /\ j \notin Upto(i)
    <3>1. i \in Nat /\ j \in Nat
      OBVIOUS
    <3>2. \A x \in Nat : x <= i => x <= j
      BY <1>3, <3>1
    <3>3. j <= j /\ ~(j <= i)
      BY <1>3, <3>1
    <3> QED
      BY <3>2, <3>3
  <2> HIDE DEF Upto
  <2>2. Cardinality(Upto(i)) # Cardinality(Upto(j))
    BY <1>2, <2>1, FS_Subset
  <2> QED
    BY <2>2 DEF Upto, Rank
<1>4. \A i, j \in C : Rank(C, i) = Rank(C, j) => i = j
  <2> SUFFICES ASSUME NEW i \in C, NEW j \in C, i # j PROVE Rank(C, i) # Rank(C, j)
    OBVIOUS
  <2>1. i < j \/ j < i
    OBVIOUS
  <2> QED
    BY <1>3, <2>1
<1>5. IsFiniteSet(1 .. n) /\ Cardinality(1 .. n) = n
  BY <1>1, FS_Interval
<1>6. m \in Injection(C, 1 .. n)
  <2>1. m \in [C -> 1 .. n] /\ \A i \in C : m[i] = Rank(C, i)
    BY <1>2
  <2> HIDE DEF m, n
  <2>2. \A i, j \in C : m[i] = m[j] => i = j
    BY <1>4, <2>1
  <2> QED
    BY <2>1, <2>2, Zenon DEF Injection, IsInjective
<1> HIDE DEF n
<1>7. m \in Surjection(C, 1 .. n)
  BY <1>5, <1>6, FS_Injection DEF n
<1>8. \A k \in 1 .. n : \E i \in C : Rank(C, i) = k
  BY <1>7 DEF Surjection
<1> QED
  BY <1>1, <1>2, <1>4, <1>8 DEF n

\* Cells that are moved without being reordered.
LEMMA PickedMoved ==
    ASSUME NEW C \in SUBSET Nat, IsFiniteSet(C), NEW D \in SUBSET Nat, NEW h, OneToOne(h, C, D),
           NEW f, NEW g, \A i \in C : g[h[i]] = f[i],
           \A i, j \in C : i < j => h[i] < h[j]
    PROVE  Picked(g, D) = Picked(f, C)
<1>1. ASSUME NEW i \in C, NEW j \in C PROVE h[j] <= h[i] <=> j <= i
  <2>1. i \in Nat /\ j \in Nat /\ h[i] \in Nat /\ h[j] \in Nat
    BY DEF OneToOne
  <2>2. (i < j => h[i] < h[j]) /\ (j < i => h[j] < h[i])
    OBVIOUS
  <2> QED
    BY <2>1, <2>2
<1>2. IsFiniteSet(D) /\ Cardinality(D) = Cardinality(C)
  BY ImageIs, Zenon
<1>3. ASSUME NEW i \in C PROVE Rank(D, h[i]) = Rank(C, i)
  <2> DEFINE S == {j \in C : j <= i}
             T == {j \in D : j <= h[i]}
  <2>1. IsFiniteSet(S)
    BY FS_Subset
  <2>2. \A x \in S : h[x] \in T
    BY <1>1 DEF OneToOne
  <2>3. \A x, y \in S : h[x] = h[y] => x = y
    BY Zenon DEF OneToOne
  <2>4. \A y \in T : \E x \in S : y = h[x]
    BY <1>1 DEF OneToOne
  <2> HIDE DEF S, T
  <2>5. OneToOne(h, S, T)
    BY <2>2, <2>3, <2>4, Zenon DEF OneToOne
  <2>6. Cardinality(T) = Cardinality(S)
    BY <2>1, <2>5, ImageIs, Zenon
  <2> QED
    BY <2>6 DEF S, T, Rank
<1>4. \A x, y \in D : Rank(D, x) = Rank(D, y) => x = y
  BY <1>2, RankIs
<1>5. ASSUME NEW k \in 1 .. Cardinality(C)
      PROVE  g[CHOOSE i \in D : Rank(D, i) = k] = f[CHOOSE i \in C : Rank(C, i) = k]
  <2> DEFINE i == CHOOSE i \in C : Rank(C, i) = k
             d == CHOOSE d \in D : Rank(D, d) = k
  <2>1. i \in C /\ Rank(C, i) = k
    BY RankIs, <1>5
  <2>2. h[i] \in D /\ Rank(D, h[i]) = k
    <3>1. \A x \in C : h[x] \in D /\ Rank(D, h[x]) = Rank(C, x)
      BY <1>3, Zenon DEF OneToOne
    <3> HIDE DEF i
    <3> QED
      BY <2>1, <3>1
  <2>3. d \in D /\ Rank(D, d) = k
    BY <2>2
  <2> HIDE DEF i, d
  <2>4. d = h[i]
    BY <1>4, <2>2, <2>3, Zenon
  <2>5. g[d] = f[i]
    BY <2>1, <2>4
  <2> QED
    BY <2>5 DEF i, d
<1> DEFINE new(k) == g[CHOOSE i \in D : Rank(D, i) = k]
           old(k) == f[CHOOSE i \in C : Rank(C, i) = k]
<1>6. /\ Picked(g, D) = [k \in 1 .. Cardinality(C) |-> new(k)]
      /\ Picked(f, C) = [k \in 1 .. Cardinality(C) |-> old(k)]
  BY <1>2 DEF Picked
<1>7. \A k \in 1 .. Cardinality(C) : new(k) = old(k)
  BY <1>5
<1> HIDE DEF new, old
<1> QED
  BY <1>6, <1>7

\* One more cell, after the others.
OneMore(f, C, g, D, e, t) ==
    /\ C \in SUBSET Nat /\ IsFiniteSet(C)
    /\ e \in Nat /\ \A i \in C : i < e /\ g[i] = f[i]
    /\ D = C \cup {e} /\ g[e] = t

\* A cell behind the others is picked last.
LEMMA PickedMore ==
    ASSUME NEW f, NEW C, NEW g, NEW D, NEW e, NEW t, OneMore(f, C, g, D, e, t)
    PROVE  Picked(g, D) = Append(Picked(f, C), t)
<1>0. /\ C \in SUBSET Nat /\ IsFiniteSet(C)
      /\ e \in Nat /\ \A i \in C : i < e /\ g[i] = f[i]
      /\ D = C \cup {e} /\ g[e] = t
  BY DEF OneMore
<1> DEFINE n == Cardinality(C)
<1>1. e \notin C
  BY <1>0
<1>2. IsFiniteSet(D) /\ Cardinality(D) = n + 1 /\ D \in SUBSET Nat /\ n \in Nat
  <2>1. IsFiniteSet(C \cup {e}) /\ Cardinality(C \cup {e}) = n + 1 /\ n \in Nat
    BY <1>0, <1>1, FS_AddElement, FS_CardinalityType
  <2> QED
    BY <1>0, <2>1
<1>3. \A i \in C : {j \in D : j <= i} = {j \in C : j <= i}
  BY <1>0
<1>4. {j \in D : j <= e} = D
  <2>1. \A j \in C : j \in Nat /\ j < e
    BY <1>0
  <2>2. \A j \in Nat : j < e => j <= e
    BY <1>0
  <2>3. e <= e
    BY <1>0
  <2> QED
    BY <1>0, <2>1, <2>2, <2>3
<1> HIDE DEF n
<1>5. \A i \in C : Rank(D, i) = Rank(C, i)
  BY <1>3 DEF Rank
<1>6. Rank(D, e) = n + 1 /\ e \in D
  BY <1>0, <1>2, <1>4 DEF Rank
<1>7. ASSUME NEW k \in 1 .. n
      PROVE  g[CHOOSE i \in D : Rank(D, i) = k] = f[CHOOSE i \in C : Rank(C, i) = k]
  <2> DEFINE i == CHOOSE i \in C : Rank(C, i) = k
             d == CHOOSE d \in D : Rank(D, d) = k
  <2>1. i \in C /\ Rank(C, i) = k
    BY <1>0, RankIs, <1>7 DEF n
  <2>2. i \in D /\ Rank(D, i) = k
    <3> HIDE DEF i
    <3>1. i \in D
      BY <1>0, <2>1
    <3> QED
      BY <1>5, <2>1, <3>1
  <2>3. d \in D /\ Rank(D, d) = k
    BY <2>2
  <2> HIDE DEF i, d
  <2>4. d = i
    BY <1>2, <2>2, <2>3, RankIs
  <2>5. g[d] = f[i]
    BY <1>0, <2>1, <2>4
  <2> QED
    BY <2>5 DEF i, d
<1>8. g[CHOOSE i \in D : Rank(D, i) = n + 1] = t
  <2> DEFINE d == CHOOSE d \in D : Rank(D, d) = n + 1
  <2>1. d \in D /\ Rank(D, d) = n + 1
    BY <1>6
  <2> HIDE DEF d
  <2>2. d = e
    BY <1>2, <1>6, <2>1, RankIs
  <2> QED
    BY <1>0, <2>2 DEF d
<1>9. /\ Picked(g, D) = [k \in 1 .. n + 1 |-> g[CHOOSE i \in D : Rank(D, i) = k]]
      /\ Picked(f, C) = [k \in 1 .. n |-> f[CHOOSE i \in C : Rank(C, i) = k]]
  BY <1>2 DEF Picked, n
<1> DEFINE p == Picked(f, C)
<1>10. Len(p) = n /\ Append(p, t) = [k \in 1 .. n + 1 |-> IF k <= n THEN p[k] ELSE t]
  BY <1>2, <1>9
<1>11. \A k \in 1 .. n + 1 : Picked(g, D)[k] = IF k <= n THEN p[k] ELSE t
  <2> SUFFICES ASSUME NEW k \in 1 .. n + 1 PROVE Picked(g, D)[k] = IF k <= n THEN p[k] ELSE t
    OBVIOUS
  <2>1. CASE k <= n
    <3>1. k \in 1 .. n
      BY <1>2, <2>1
    <3> QED
      BY <1>7, <1>9, <2>1, <3>1
  <2>2. CASE ~(k <= n)
    <3>1. k = n + 1
      BY <1>2, <2>2
    <3> QED
      BY <1>8, <1>9, <2>2, <3>1
  <2> QED
    BY <2>1, <2>2
<1> HIDE DEF p
<1>12. Picked(g, D) = [k \in 1 .. n + 1 |-> Picked(g, D)[k]]
  BY <1>9
<1>13. Picked(g, D) = Append(p, t)
  BY <1>10, <1>11, <1>12, Zenon
<1> QED
  BY <1>13 DEF p

\* Newlines and rows are sets of indices.
LEMMA IndicesAre ==
    ASSUME NEW S, NEW f \in Seq(S), NEW T \in SUBSET DOMAIN f
    PROVE  T \in SUBSET Nat /\ IsFiniteSet(T)
<1>1. DOMAIN f = 1 .. Len(f) /\ Len(f) \in Nat
  OBVIOUS
<1>2. IsFiniteSet(DOMAIN f)
  BY <1>1, FS_Interval
<1> QED
  BY <1>1, <1>2, FS_Subset

\* g has the cells of f in their order and their rows, and a text t at e.
Puts(f, g, e, t, h) ==
    /\ e \in DOMAIN g /\ g[e] = t /\ t # NL
    /\ \A i \in DOMAIN f : /\ h[i] = IF i < e THEN i ELSE i + 1
                           /\ h[i] \in DOMAIN g /\ g[h[i]] = f[i]
                           /\ Before(g, h[i]) = Before(f, i)
    /\ \A j \in DOMAIN g : j = e \/ g[j] = NL \/ \E i \in DOMAIN f : j = h[i]

\* A text put behind the cells of its row is appended to the row, and no other
\* row changes.
LEMMA RowsPut ==
    ASSUME NEW S, NEW f \in Seq(S), NEW g \in Seq(S), NEW r \in Nat \ {0},
           NEW e, NEW t, NEW h, Puts(f, g, e, t, h), Before(g, e) = r - 1, \A i \in Cells(f, r) : i < e,
           NEW q \in Nat \ {0}
    PROVE  /\ q = r => RowOf(g, q) = Append(RowOf(f, q), t)
           /\ q # r => RowOf(g, q) = RowOf(f, q)
<1> DEFINE C == Cells(f, q)
           D == Cells(g, q)
<1>1. C \in SUBSET DOMAIN f /\ D \in SUBSET DOMAIN g
  BY DEF Cells
<1>2. C \in SUBSET Nat /\ IsFiniteSet(C) /\ D \in SUBSET Nat /\ e \in Nat
  BY <1>1, IndicesAre DEF Puts
<1>3. \A i \in C : h[i] \in D
  BY DEF Cells, Puts
<1>4. \A y \in D : y = e \/ \E i \in C : y = h[i]
  BY DEF Cells, Puts
<1>5. e \in D <=> q = r
  BY DEF Cells, Puts
<1>6. RowOf(f, q) = Picked(f, C) /\ RowOf(g, q) = Picked(g, D)
  BY RowIs
<1>7. \A i \in C : i \in Nat /\ h[i] = (IF i < e THEN i ELSE i + 1) /\ g[h[i]] = f[i]
  BY <1>1, <1>2 DEF Puts
<1> HIDE DEF C, D
<1>8. CASE q # r
  <2>1. OneToOne(h, C, D)
    <3>1. \A y \in D : \E i \in C : y = h[i]
      BY <1>4, <1>5, <1>8
    <3>2. \A i, j \in C : h[i] = h[j] => i = j
      BY <1>2, <1>7
    <3> QED
      BY <1>3, <3>1, <3>2, Zenon DEF OneToOne
  <2>2. \A i \in C : g[h[i]] = f[i]
    BY <1>7
  <2>3. \A i, j \in C : i < j => h[i] < h[j]
    BY <1>2, <1>7
  <2>4. Picked(g, D) = Picked(f, C)
    BY <1>2, <2>1, <2>2, <2>3, PickedMoved
  <2> QED
    BY <1>6, <1>8, <2>4
<1>9. CASE q = r
  <2>1. \A i \in C : i < e
    BY <1>9 DEF C
  <2>2. \A i \in C : h[i] = i /\ g[i] = f[i]
    BY <1>7, <2>1
  <2>3. D = C \cup {e}
    BY <1>3, <1>4, <1>5, <1>9, <2>2
  <2>4. Picked(g, D) = Append(Picked(f, C), t)
    <3>1. OneMore(f, C, g, D, e, t)
      BY <1>2, <2>1, <2>2, <2>3 DEF OneMore, Puts
    <3> QED
      BY <3>1, PickedMore
  <2> QED
    BY <1>6, <1>9, <2>4
<1> QED
  BY <1>8, <1>9

\* save into a row that the file has: the text is inserted before its newline.
LEMMA SaveInside ==
    ASSUME NEW S, NEW f \in Seq(S), NEW t \in S, t # NL, NEW r \in 1 .. RowsEnded(f),
           NEW g, g = InsertAt(f, RowEnd(f, r), t)
    PROVE  /\ g \in Seq(S) /\ Len(g) > Len(f)
           /\ \A q \in Nat \ {0} : RowOf(g, q) = IF q = r THEN Append(RowOf(f, q), t) ELSE RowOf(f, q)
<1> DEFINE N == Newlines(f)
           e == RowEnd(f, r)
           h == [i \in DOMAIN f |-> IF i < e THEN i ELSE i + 1]
<1>1. N \in SUBSET DOMAIN f /\ N \in SUBSET Nat /\ IsFiniteSet(N)
  BY IndicesAre DEF Newlines
<1>2. e \in N /\ Rank(N, e) = r
  <2>1. \E i \in N : Rank(N, i) = r
    BY <1>1, RankIs DEF RowsEnded
  <2>2. e = CHOOSE i \in N : Rank(N, i) = r
    BY DEF RowEnd, Rank
  <2> QED
    BY <2>1, <2>2
<1>3. /\ DOMAIN f = 1 .. Len(f) /\ Len(f) \in Nat /\ e \in 1 .. Len(f) /\ f[e] = NL
      /\ \A i \in N : i \in 1 .. Len(f) /\ f[i] = NL
      /\ \A i \in 1 .. Len(f) : f[i] = NL => i \in N
  BY <1>2 DEF Newlines
<1>4. \A i \in DOMAIN f : h[i] = IF i < e THEN i ELSE i + 1
  OBVIOUS
<1> HIDE DEF e, h, N
<1>5. /\ g \in Seq(S) /\ Len(g) = Len(f) + 1 /\ DOMAIN g = 1 .. Len(f) + 1
      /\ \A i \in 1 .. Len(f) + 1 : g[i] = IF i < e THEN f[i] ELSE IF i = e THEN t ELSE f[i - 1]
  <2> DEFINE a == SubSeq(f, 1, e - 1)
             b == SubSeq(f, e, Len(f))
  <2>1. /\ a \in Seq(S) /\ Len(a) = e - 1 /\ \A i \in 1 .. e - 1 : a[i] = f[i]
        /\ b \in Seq(S) /\ Len(b) = Len(f) - e + 1
        /\ \A i \in 1 .. Len(f) - e + 1 : b[i] = f[e + i - 1]
    BY <1>3
  <2>2. g = a \o <<t>> \o b
    BY DEF InsertAt, e
  <2> HIDE DEF a, b
  <2>3. /\ a \o <<t>> \in Seq(S) /\ Len(a \o <<t>>) = e
        /\ \A i \in 1 .. e : (a \o <<t>>)[i] = IF i < e THEN a[i] ELSE t
    BY <1>3, <2>1
  <2>4. /\ g \in Seq(S) /\ Len(g) = Len(f) + 1
        /\ \A i \in 1 .. Len(f) + 1 : g[i] = IF i <= e THEN (a \o <<t>>)[i] ELSE b[i - e]
    BY <1>3, <2>1, <2>2, <2>3
  <2>5. \A i \in 1 .. Len(f) + 1 : g[i] = IF i < e THEN f[i] ELSE IF i = e THEN t ELSE f[i - 1]
    <3> SUFFICES ASSUME NEW i \in 1 .. Len(f) + 1
                 PROVE  g[i] = IF i < e THEN f[i] ELSE IF i = e THEN t ELSE f[i - 1]
      OBVIOUS
    <3>1. g[i] = IF i <= e THEN (a \o <<t>>)[i] ELSE b[i - e]
      BY <2>4
    <3>2. CASE i <= e
      <4>1. i \in 1 .. e /\ (i < e => i \in 1 .. e - 1) /\ (~(i < e) => i = e) /\ (i = e => ~(i < e))
        BY <1>3, <3>2
      <4>2. (a \o <<t>>)[i] = (IF i < e THEN a[i] ELSE t) /\ (i < e => a[i] = f[i])
        BY <2>1, <2>3, <4>1
      <4> QED
        BY <3>1, <3>2, <4>1, <4>2
    <3>3. CASE i > e
      <4>1. i - e \in 1 .. Len(f) - e + 1 /\ e + (i - e) - 1 = i - 1
        BY <1>3, <3>3
      <4>2. b[i - e] = f[e + (i - e) - 1]
        BY <2>1, <4>1
      <4>3. ~(i <= e) /\ ~(i < e) /\ i # e
        BY <1>3, <3>3
      <4> QED
        BY <3>1, <4>1, <4>2, <4>3
    <3> QED
      BY <1>3, <3>2, <3>3
  <2> QED
    BY <2>4, <2>5
<1>6. /\ \A i \in 1 .. Len(f) : h[i] \in 1 .. Len(f) + 1 /\ h[i] # e /\ g[h[i]] = f[i]
      /\ \A j \in 1 .. Len(f) + 1 : j = e \/ \E i \in 1 .. Len(f) : j = h[i]
      /\ \A i, k \in 1 .. Len(f) : (h[i] = h[k] => i = k) /\ (h[k] < h[i] <=> k < i)
  <2>1. \A i \in 1 .. Len(f) : h[i] = IF i < e THEN i ELSE i + 1
    BY <1>3, <1>4
  <2>2. ASSUME NEW i \in 1 .. Len(f) PROVE h[i] \in 1 .. Len(f) + 1 /\ h[i] # e /\ g[h[i]] = f[i]
    <3>1. CASE i < e
      <4>1. h[i] = i /\ i \in 1 .. Len(f) + 1 /\ i # e
        BY <1>3, <2>1, <3>1
      <4> QED
        BY <1>5, <3>1, <4>1
    <3>2. CASE ~(i < e)
      <4>1. h[i] = i + 1 /\ i + 1 \in 1 .. Len(f) + 1 /\ i + 1 # e /\ ~(i + 1 < e) /\ (i + 1) - 1 = i
        BY <1>3, <2>1, <3>2
      <4> QED
        BY <1>5, <4>1
    <3> QED
      BY <3>1, <3>2
  <2>3. ASSUME NEW j \in 1 .. Len(f) + 1 PROVE j = e \/ \E i \in 1 .. Len(f) : j = h[i]
    <3>1. CASE j < e
      <4>1. j \in 1 .. Len(f)
        BY <1>3, <3>1
      <4> QED
        BY <2>1, <3>1, <4>1
    <3>2. CASE j > e
      <4>1. j - 1 \in 1 .. Len(f) /\ ~(j - 1 < e) /\ (j - 1) + 1 = j
        BY <1>3, <3>2
      <4> QED
        BY <2>1, <4>1
    <3> QED
      BY <1>3, <3>1, <3>2
  <2>4. \A i, k \in 1 .. Len(f) : (h[i] = h[k] => i = k) /\ (h[k] < h[i] <=> k < i)
    BY <1>3, <2>1
  <2> QED
    BY <2>2, <2>3, <2>4
<1>7. ASSUME NEW i \in DOMAIN f PROVE Before(g, h[i]) = Before(f, i)
  <2> DEFINE P == {j \in N : j < i}
             Q == {j \in Newlines(g) : j < h[i]}
  <2>1. IsFiniteSet(P)
    BY <1>1, FS_Subset
  <2>2. \A x \in P : h[x] \in Q
    BY <1>3, <1>5, <1>6 DEF Newlines
  <2>3. \A y \in Q : \E x \in P : y = h[x]
    BY <1>3, <1>5, <1>6, SMTT(30) DEF Newlines
  <2>4. \A x, y \in P : h[x] = h[y] => x = y
    BY <1>3, <1>6
  <2> HIDE DEF P, Q
  <2>5. OneToOne(h, P, Q)
    BY <2>2, <2>3, <2>4, Zenon DEF OneToOne
  <2>6. Cardinality(Q) = Cardinality(P)
    BY <2>1, <2>5, ImageIs, Zenon
  <2> QED
    BY <2>6 DEF P, Q, Before, N
<1>8. Before(g, e) = r - 1
  <2> DEFINE P == {j \in N : j <= e}
  <2>1. {j \in Newlines(g) : j < e} = P \ {e}
    BY <1>3, <1>5 DEF Newlines
  <2>2. IsFiniteSet(P) /\ e \in P /\ Cardinality(P) = r
    BY <1>1, <1>2, <1>3, FS_Subset DEF Rank
  <2> HIDE DEF P
  <2>3. Cardinality(P \ {e}) = r - 1
    BY <2>2, FS_RemoveElement
  <2> QED
    BY <2>1, <2>3 DEF Before
<1>9. \A i \in Cells(f, r) : i < e
  <2> SUFFICES ASSUME NEW i \in Cells(f, r) PROVE i < e
    OBVIOUS
  <2>1. i \in 1 .. Len(f) /\ f[i] # NL /\ Before(f, i) = r - 1 /\ i # e
    BY <1>3 DEF Cells
  <2>2. CASE e < i
    <3> DEFINE P == {j \in N : j <= e}
               Q == {j \in N : j < i}
    <3>1. P \in SUBSET Q /\ IsFiniteSet(Q)
      BY <1>1, <1>3, <2>1, <2>2, FS_Subset
    <3>2. Cardinality(P) = r /\ Cardinality(Q) = r - 1
      BY <1>2, <2>1 DEF Rank, Before, N
    <3> HIDE DEF P, Q
    <3>3. r <= r - 1
      BY <3>1, <3>2, FS_Subset
    <3> QED
      BY <3>3
  <2> QED
    BY <1>3, <2>1, <2>2
<1>10. e \in DOMAIN g /\ g[e] = t /\ r \in Nat \ {0}
  BY <1>3, <1>5
<1>11. \A i \in DOMAIN f : h[i] \in DOMAIN g /\ g[h[i]] = f[i]
  BY <1>3, <1>5, <1>6
<1>12. \A j \in DOMAIN g : j = e \/ \E i \in DOMAIN f : j = h[i]
  BY <1>3, <1>5, <1>6, ZenonT(60)
<1>13. Puts(f, g, e, t, h)
  BY <1>4, <1>7, <1>10, <1>11, <1>12, Zenon DEF Puts
<1>14. ASSUME NEW q \in Nat \ {0}
       PROVE  /\ q = r => RowOf(g, q) = Append(RowOf(f, q), t)
              /\ q # r => RowOf(g, q) = RowOf(f, q)
  BY <1>5, <1>8, <1>9, <1>10, <1>13, RowsPut
<1> QED
  BY <1>3, <1>5, <1>14

\* There are z numbers behind n.
LEMMA SpanIs ==
    ASSUME NEW n \in Nat, NEW z \in Nat
    PROVE  IsFiniteSet(n + 1 .. n + z) /\ Cardinality(n + 1 .. n + z) = z
<1> DEFINE a == n + 1
           b == n + z
<1>1. a \in Int /\ b \in Int /\ (IF a > b THEN 0 ELSE b - a + 1) = z
  OBVIOUS
<1> HIDE DEF a, b
<1>2. IsFiniteSet(a .. b) /\ Cardinality(a .. b) = IF a > b THEN 0 ELSE b - a + 1
  BY <1>1, FS_Interval
<1> QED
  BY <1>1, <1>2 DEF a, b

\* A file with newlines and a text behind it.
Padded(f, z, t) == f \o [i \in 1 .. z |-> NL] \o <<t>>
IsPadded(g, f, z, t) ==
    /\ Len(g) = Len(f) + z + 1 /\ g[Len(g)] = t
    /\ \A i \in 1 .. Len(f) : g[i] = f[i]
    /\ \A i \in Len(f) + 1 .. Len(f) + z : g[i] = NL

\* What stands where in such a file.
LEMMA PaddedIs ==
    ASSUME NEW S, NL \in S, NEW f \in Seq(S), NEW z \in Nat, NEW t \in S
    PROVE  Padded(f, z, t) \in Seq(S) /\ IsPadded(Padded(f, z, t), f, z, t)
<1> DEFINE n == Len(f)
           g == Padded(f, z, t)
           b == [i \in 1 .. z |-> NL]
           fb == f \o b
<1>1. b \in Seq(S) /\ Len(b) = z /\ \A i \in 1 .. z : b[i] = NL
  OBVIOUS
<1>2. n \in Nat /\ DOMAIN f = 1 .. n
  OBVIOUS
<1>3. g = fb \o <<t>>
  BY DEF Padded
<1> HIDE DEF n, g, b
<1>4. fb \in Seq(S) /\ Len(fb) = n + z /\ \A i \in 1 .. n + z : fb[i] = IF i <= n THEN f[i] ELSE b[i - n]
  BY <1>1 DEF n
<1>5. \A i \in 1 .. n : i \in 1 .. n + z /\ i <= n
  BY <1>2
<1>6. \A i \in n + 1 .. n + z : i \in 1 .. n + z /\ ~(i <= n) /\ i - n \in 1 .. z
  BY <1>2
<1> HIDE DEF fb
<1>7. (\A i \in 1 .. n : fb[i] = f[i]) /\ \A i \in n + 1 .. n + z : fb[i] = NL
  BY <1>1, <1>4, <1>5, <1>6
<1>8. /\ fb \o <<t>> \in Seq(S) /\ Len(fb \o <<t>>) = n + z + 1 /\ DOMAIN (fb \o <<t>>) = 1 .. n + z + 1
      /\ (fb \o <<t>>)[n + z + 1] = t
      /\ \A i \in 1 .. n + z : (fb \o <<t>>)[i] = fb[i]
  <2> DEFINE l == n + z
  <2>1. l \in Nat /\ Len(fb) = l /\ fb \in Seq(S)
    BY <1>2, <1>4
  <2> HIDE DEF l
  <2>2. /\ fb \o <<t>> \in Seq(S) /\ Len(fb \o <<t>>) = l + 1 /\ DOMAIN (fb \o <<t>>) = 1 .. l + 1
        /\ (fb \o <<t>>)[l + 1] = t
        /\ \A i \in 1 .. l : (fb \o <<t>>)[i] = fb[i]
    BY <2>1
  <2> QED
    BY <2>2 DEF l
<1> QED
  BY <1>3, <1>7, <1>8 DEF IsPadded, n, g

\* save into a row that the file has not got: newlines and the text come last.
LEMMA SaveBeyond ==
    ASSUME NEW S, NL \in S, NEW f \in Seq(S), NEW t \in S, t # NL, NEW r \in Nat \ {0},
           NEW z \in Nat, r = RowsEnded(f) + z + 1, NEW g, g = Padded(f, z, t)
    PROVE  /\ g \in Seq(S) /\ Len(g) > Len(f)
           /\ \A q \in Nat \ {0} : RowOf(g, q) = IF q = r THEN Append(RowOf(f, q), t) ELSE RowOf(f, q)
<1> DEFINE N == Newlines(f)
           n == Len(f)
           e == n + z + 1
           h == [i \in DOMAIN f |-> i]
<1>1. /\ N \in SUBSET DOMAIN f /\ N \in SUBSET Nat /\ IsFiniteSet(N)
      /\ RowsEnded(f) = Cardinality(N) /\ Cardinality(N) \in Nat
      /\ \A j : j \in N <=> j \in DOMAIN f /\ f[j] = NL
  BY IndicesAre, FS_CardinalityType DEF Newlines, RowsEnded
<1>2. z \in Nat /\ Cardinality(N) + z = r - 1
  BY <1>1
<1>3. n \in Nat /\ n = Len(f) /\ e \in Nat /\ e = n + z + 1 /\ \A i \in DOMAIN f : h[i] = i
  OBVIOUS
<1> HIDE DEF n, e, h, N
<1>4. /\ g \in Seq(S) /\ DOMAIN f = 1 .. n /\ DOMAIN g = 1 .. e
      /\ Len(g) = e /\ g[e] = t
      /\ \A i \in 1 .. n : g[i] = f[i]
      /\ \A i \in n + 1 .. n + z : g[i] = NL
  <2>1. g \in Seq(S) /\ IsPadded(g, f, z, t)
    BY PaddedIs
  <2>2. DOMAIN f = 1 .. Len(f) /\ DOMAIN g = 1 .. Len(g)
    BY <2>1
  <2> QED
    BY <1>3, <2>1, <2>2 DEF IsPadded
<1>5. e \in Nat \ {0} /\ e > n + z /\ e > n
  BY <1>3, <1>4
<1>6. \A j \in 1 .. e : j = e \/ j \in 1 .. n \/ j \in n + 1 .. n + z
  BY <1>3, <1>4
<1>7. \A i \in DOMAIN f : i < e /\ h[i] = i /\ i \in DOMAIN g /\ g[i] = f[i]
  <2>1. \A i \in 1 .. n : i < e /\ i \in 1 .. e
    BY <1>3, <1>4
  <2> QED
    BY <1>3, <1>4, <2>1
<1>8. \A j \in DOMAIN g : j = e \/ g[j] = NL \/ j \in DOMAIN f
  BY <1>4, <1>6
<1>9. ASSUME NEW i \in DOMAIN f PROVE Before(g, i) = Before(f, i)
  <2>1. \A j \in Nat : j < i => (j \in 1 .. e <=> j \in 1 .. n)
    BY <1>3, <1>5
  <2>2. DOMAIN g = 1 .. e /\ DOMAIN f = 1 .. n /\ 1 .. e \in SUBSET Nat
    BY <1>4, <1>5
  <2>3. {j \in Newlines(g) : j < i} = {j \in Newlines(f) : j < i}
    BY <1>7, <2>1, <2>2 DEF Newlines
  <2> QED
    BY <2>3 DEF Before
<1>10. Before(g, e) = r - 1
  <2> DEFINE A == n + 1 .. n + z
  <2>1. IsFiniteSet(A) /\ Cardinality(A) = z
    BY <1>3, SpanIs
  <2>2. \A j \in A : j \in 1 .. e /\ j < e /\ j \notin 1 .. n
    BY <1>3, <1>4
  <2>3. \A j \in 1 .. e : j < e => j \in 1 .. n \/ j \in A
    BY <1>5, <1>6
  <2>4. \A j \in A : g[j] = NL
    BY <1>4
  <2> HIDE DEF A
  <2>5. {j \in Newlines(g) : j < e} = N \cup A
    BY <1>1, <1>4, <1>7, <2>2, <2>3, <2>4 DEF Newlines
  <2>6. Cardinality(N \cap A) = 0
    <3>1. N \cap A = {}
      BY <1>1, <1>4, <2>2
    <3> QED
      BY <3>1, FS_EmptySet
  <2>7. Cardinality(N \cup A) = Cardinality(N) + z
    <3>1. Cardinality(N \cup A) = Cardinality(N) + Cardinality(A) - Cardinality(N \cap A)
      BY <1>1, <2>1, FS_Union
    <3> QED
      BY <1>1, <2>1, <2>6, <3>1
  <2> QED
    BY <1>2, <2>5, <2>7 DEF Before
<1>11. \A i \in Cells(f, r) : i < e
  BY <1>7 DEF Cells
<1>12. e \in DOMAIN g /\ g[e] = t
  BY <1>4, <1>5
<1>13. ASSUME NEW i \in DOMAIN f
       PROVE  /\ h[i] = IF i < e THEN i ELSE i + 1
              /\ h[i] \in DOMAIN g /\ g[h[i]] = f[i]
              /\ Before(g, h[i]) = Before(f, i)
  BY <1>7, <1>9
<1>14. \A j \in DOMAIN g : j = e \/ g[j] = NL \/ \E i \in DOMAIN f : j = h[i]
  BY <1>7, <1>8
<1>15. Puts(f, g, e, t, h)
  BY <1>12, <1>13, <1>14, Zenon DEF Puts
<1>16. ASSUME NEW q \in Nat \ {0}
       PROVE  /\ q = r => RowOf(g, q) = Append(RowOf(f, q), t)
              /\ q # r => RowOf(g, q) = RowOf(f, q)
  BY <1>4, <1>10, <1>11, <1>15, RowsPut
<1>17. Len(g) > Len(f)
  BY <1>3, <1>4, <1>5
<1> QED
  BY <1>4, <1>16, <1>17

\* save adds a text to its row, and leaves the other rows as they are; the file
\* gets longer by it.
LEMMA SaveRows ==
    ASSUME NEW S, NL \in S, NEW f \in Seq(S), NEW t \in S, t # NL, NEW r \in Nat
    PROVE  /\ Save(f, r, t) \in Seq(S) /\ Len(Save(f, r, t)) >= Len(f)
           /\ \A q \in Nat \ {0} : RowOf(Save(f, r, t), q) =
                IF q = r THEN Append(RowOf(f, q), t) ELSE RowOf(f, q)
<1>1. Len(f) \in Nat /\ Len(f) >= Len(f)
  OBVIOUS
<1>2. CASE r = 0
  <2>1. Save(f, r, t) = f
    BY <1>2 DEF Save
  <2> QED
    BY <1>1, <1>2, <2>1
<1>3. RowsEnded(f) \in Nat
  <2>1. Newlines(f) \in SUBSET DOMAIN f
    BY DEF Newlines
  <2> QED
    BY <2>1, IndicesAre, FS_CardinalityType DEF RowsEnded
<1>4. CASE r # 0 /\ r <= RowsEnded(f)
  <2> DEFINE g == InsertAt(f, RowEnd(f, r), t)
  <2>1. Save(f, r, t) = g
    BY <1>4 DEF Save
  <2>2. r \in 1 .. RowsEnded(f)
    BY <1>3, <1>4
  <2> HIDE DEF g
  <2>3. /\ g \in Seq(S) /\ Len(g) > Len(f)
        /\ \A q \in Nat \ {0} : RowOf(g, q) = IF q = r THEN Append(RowOf(f, q), t) ELSE RowOf(f, q)
    BY <2>2, SaveInside DEF g
  <2> QED
    BY <1>1, <2>1, <2>3
<1>5. CASE r # 0 /\ r > RowsEnded(f)
  <2> DEFINE z == r - 1 - RowsEnded(f)
             g == Padded(f, z, t)
  <2>1. Save(f, r, t) = g
    <3>1. ~(r <= RowsEnded(f))
      BY <1>3, <1>5
    <3> QED
      BY <1>5, <3>1 DEF Save, Padded
  <2>2. r \in Nat \ {0} /\ z \in Nat /\ r = RowsEnded(f) + z + 1 /\ g = Padded(f, z, t)
    BY <1>3, <1>5
  <2> HIDE DEF z, g
  <2>3. /\ g \in Seq(S) /\ Len(g) > Len(f)
        /\ \A q \in Nat \ {0} : RowOf(g, q) = IF q = r THEN Append(RowOf(f, q), t) ELSE RowOf(f, q)
    BY <2>2, SaveBeyond
  <2> QED
    BY <1>1, <2>1, <2>3
<1> QED
  BY <1>2, <1>3, <1>4, <1>5

-------------------------------------------------------------------------------
(* What a consumer alone has saved *)

FileType == file \in Seq(TextType) /\ buf \in [Consumers -> Seq(TextType)]

\* The file as it is when the stream of a consumer has been written.
OnFile(c) == IF buf[c] = <<>> THEN file ELSE buf[c]
Opening == {"fopen_fifo", "waits_fifo", "has_fifo"}
Kept ==
    \A c \in Consumers : Started = {c} =>
        /\ pcC[c] \in Opening => file = <<>> /\ \A r \in Rows : saved[r] = <<>>
        /\ pcC[c] \in Opening \cup {"insert", "done"} => buf[c] = <<>>
        /\ buf[c] = <<>> \/ Len(file) <= Len(buf[c])
        /\ \A r \in Rows : RowOf(OnFile(c), r) = saved[r]


\* A stream that is as long as the file, or longer, replaces it.
LEMMA OverwriteIs ==
    ASSUME NEW S, NEW f \in Seq(S), NEW b \in Seq(S)
    PROVE  /\ Overwrite(f, b) \in Seq(S)
           /\ b = <<>> => Overwrite(f, b) = f
           /\ Len(f) <= Len(b) => Overwrite(f, b) = b
<1> DEFINE s == SubSeq(f, Len(b) + 1, Len(f))
<1>1. Len(b) \in Nat /\ Len(f) \in Nat /\ (b = <<>> => Len(b) = 0)
  OBVIOUS
<1>2. s \in Seq(S)
  BY <1>1
<1>3. b = <<>> => s = f
  BY <1>1
<1>4. Len(f) <= Len(b) => s = <<>>
  BY <1>1
<1>5. Overwrite(f, b) = b \o s
  BY DEF Overwrite
<1> HIDE DEF s
<1>6. b \o s \in Seq(S) /\ (s = <<>> => b \o s = b) /\ (b = <<>> => b \o s = s)
  BY <1>2
<1> QED
  BY <1>3, <1>4, <1>5, <1>6

\* An empty file has empty rows.
LEMMA EmptyRows == \A q : RowOf(<<>>, q) = <<>>
<1> SUFFICES ASSUME NEW q PROVE RowOf(<<>>, q) = <<>>
  OBVIOUS
<1>1. Cells(<<>>, q) = {}
  <2>1. DOMAIN <<>> = {}
    OBVIOUS
  <2> QED
    BY <2>1, Zenon DEF Cells
<1>2. \A f, C : Cardinality(C) = 0 => Picked(f, C) = <<>>
  BY DEF Picked
<1> QED
  BY <1>1, <1>2, RowIs, FS_EmptySet

\* No consumer is started or gone but by the test.
LEMMA StartedStays ==
    ASSUME Types, Buffers, [Next]_vars
    PROVE  Started' = Started
<1>1. pcC' \in [Consumers -> ConsumerPlaces] /\ pcC \in [Consumers -> ConsumerPlaces]
  <2>1. Types'
    BY TypesKept
  <2> QED
    BY <2>1, Zenon DEF Types
<1>2. ASSUME NEW p \in Producers, Producer(p)
      PROVE  \A c \in Consumers : pcC'[c] = "absent" <=> pcC[c] = "absent"
  BY <1>1, <1>2 DEF Producer, ProducerOpens, ProducerReadsInput, ProducerLocks, ProducerWrites,
     ProducerIsKilled, ProducerUnlocks, ProducerCloses, consVars, Opened
<1>3. ASSUME NEW d \in Consumers, Consumer(d)
      PROVE  \A c \in Consumers : pcC'[c] = "absent" <=> pcC[c] = "absent"
  BY <1>1, <1>3 DEF Consumer, CGoto, ConsumerOpensFifo, ConsumerOpensFile, ConsumerLocks, ConsumerReads,
     ConsumerSeesEnd, ConsumerReadsHalf, ConsumerFlushes, ConsumerInserts, ConsumerUnlocks,
     ConsumerClosesFifo, ConsumerClosesFile
<1>4. ASSUME UNCHANGED vars
      PROVE  \A c \in Consumers : pcC'[c] = "absent" <=> pcC[c] = "absent"
  BY <1>4 DEF vars
<1>5. \A c \in Consumers : pcC'[c] = "absent" <=> pcC[c] = "absent"
  BY <1>2, <1>3, <1>4 DEF Next
<1> QED
  BY <1>5 DEF Started

\* What is saved is a text, and no newline.
LEMMA TextIs ==
    ASSUME Types, Buffers, NEW c \in Consumers, pcC[c] = "insert"
    PROVE  /\ Text(got[c]) \in TextType /\ Text(got[c]) # NL
           /\ RowRead(got[c]) \in Nat
<1>1. got[c] \in Seq(PartType) /\ Len(got[c]) \in 1 .. 2
  BY DEF Types, Buffers
<1>2. got[c] # <<>> /\ got[c][1] \in PartType
  BY <1>1
<1>3. got[c][1].from \in Producers /\ got[c][1].msg \in Nat
  BY <1>2 DEF PartType
<1>4. RowRead(got[c]) \in Nat
  BY <1>3, NamedPipeAssumption DEF RowRead
<1>5. <<got[c][1].from, got[c][1].msg>> \in TextType /\ <<got[c][1].from, got[c][1].msg>> # NL
  BY <1>3 DEF TextType, NL
<1>6. got[c] \in TextType /\ got[c] # NL
  BY <1>1, <1>2 DEF TextType, NL
<1> QED
  BY <1>4, <1>5, <1>6 DEF Text

\* A newline can stand in the file.
LEMMA NewlineIs == NL \in TextType
BY DEF NL, TextType

\* Every step keeps texts in the file and in the streams.
LEMMA FileTypeKept ==
    ASSUME Types, Buffers, FileType, [Next]_vars
    PROVE  FileType'
<1>1. ASSUME NEW p \in Producers, Producer(p) PROVE FileType'
  BY <1>1 DEF Producer, ProducerOpens, ProducerReadsInput, ProducerLocks, ProducerWrites,
     ProducerIsKilled, ProducerUnlocks, ProducerCloses, consVars, FileType
<1>2. ASSUME NEW c \in Consumers, ConsumerOpensFifo(c) \/ ConsumerOpensFile(c) \/ ConsumerLocks(c)
               \/ ConsumerReads(c) \/ ConsumerSeesEnd(c) \/ ConsumerReadsHalf(c) \/ ConsumerUnlocks(c)
               \/ ConsumerClosesFifo(c) PROVE FileType'
  <2>1. buf' = buf /\ (file' = file \/ file' = <<>>)
    BY <1>2 DEF ConsumerOpensFifo, ConsumerOpensFile, ConsumerLocks, ConsumerReads,
       ConsumerSeesEnd, ConsumerReadsHalf, ConsumerUnlocks, ConsumerClosesFifo
  <2>2. <<>> \in Seq(TextType)
    OBVIOUS
  <2>3. file' \in Seq(TextType)
    BY <2>1, <2>2, Zenon DEF FileType
  <2> QED
    BY <2>1, <2>3, Zenon DEF FileType
<1>3. ASSUME NEW c \in Consumers, ConsumerFlushes(c) \/ ConsumerClosesFile(c) PROVE FileType'
  <2>1. file' = Overwrite(file, buf[c]) /\ buf' = [buf EXCEPT ![c] = <<>>]
    BY <1>3 DEF ConsumerFlushes, ConsumerClosesFile
  <2>2. buf[c] \in Seq(TextType) /\ file \in Seq(TextType)
    BY DEF FileType
  <2>3. file' \in Seq(TextType)
    BY <2>1, <2>2, OverwriteIs
  <2>4. buf' \in [Consumers -> Seq(TextType)]
    BY <2>1 DEF FileType
  <2> QED
    BY <2>3, <2>4 DEF FileType
<1>4. ASSUME NEW c \in Consumers, ConsumerInserts(c) PROVE FileType'
  <2> DEFINE s == Save(file, RowRead(got[c]), Text(got[c]))
  <2>1. file' = file /\ buf' = [buf EXCEPT ![c] = s] /\ pcC[c] = "insert"
    BY <1>4 DEF ConsumerInserts, CGoto
  <2>2. s \in Seq(TextType)
    BY <2>1, TextIs, NewlineIs, SaveRows DEF FileType
  <2> HIDE DEF s
  <2> QED
    BY <2>1, <2>2 DEF FileType
<1>5. ASSUME UNCHANGED vars PROVE FileType'
  BY <1>5 DEF vars, FileType
<1> QED
  BY <1>1, <1>2, <1>3, <1>4, <1>5 DEF Next, Consumer

\* Every step keeps the rows of a consumer alone equal to what it has saved.
LEMMA KeptKept ==
    ASSUME Types, Buffers, FileType, Kept, [Next]_vars
    PROVE  Kept'
<1> SUFFICES ASSUME NEW c \in Consumers, Started' = {c}
             PROVE  /\ pcC'[c] \in Opening => file' = <<>> /\ \A r \in Rows : saved'[r] = <<>>
                    /\ pcC'[c] \in Opening \cup {"insert", "done"} => buf'[c] = <<>>
                    /\ buf'[c] = <<>> \/ Len(file') <= Len(buf'[c])
                    /\ \A r \in Rows : RowOf(OnFile(c)', r) = saved'[r]
  BY DEF Kept
<1>1. /\ pcC[c] \in Opening => file = <<>> /\ \A r \in Rows : saved[r] = <<>>
      /\ pcC[c] \in Opening \cup {"insert", "done"} => buf[c] = <<>>
      /\ buf[c] = <<>> \/ Len(file) <= Len(buf[c])
      /\ \A r \in Rows : RowOf(OnFile(c), r) = saved[r]
  BY StartedStays DEF Kept
<1>2. pcC \in [Consumers -> ConsumerPlaces] /\ file \in Seq(TextType) /\ buf[c] \in Seq(TextType)
      /\ buf \in [Consumers -> Seq(TextType)]
  BY DEF Types, FileType
<1>3. CASE UNCHANGED <<file, buf, saved>> /\
           (pcC'[c] \in Opening => pcC[c] \in Opening) /\
           (pcC'[c] \in {"insert", "done"} => pcC[c] \in {"insert", "done"})
  BY <1>1, <1>3 DEF OnFile
<1> DEFINE Idle == /\ UNCHANGED <<file, buf, saved>>
                   /\ pcC'[c] \in Opening => pcC[c] \in Opening
                   /\ pcC'[c] \in {"insert", "done"} => pcC[c] \in {"insert", "done"}
<1>4. ASSUME NEW p \in Producers, Producer(p) PROVE Idle
  BY <1>2, <1>4 DEF Producer, ProducerOpens, ProducerReadsInput, ProducerLocks, ProducerWrites,
     ProducerIsKilled, ProducerUnlocks, ProducerCloses, consVars, Opened, Opening
<1>5. ASSUME NEW d \in Consumers, Consumer(d) PROVE d = c
  <2>1. pcC[d] # "absent"
    BY <1>5 DEF Consumer, CGoto, ConsumerOpensFifo, ConsumerOpensFile, ConsumerLocks, ConsumerReads,
       ConsumerSeesEnd, ConsumerReadsHalf, ConsumerFlushes, ConsumerInserts, ConsumerUnlocks,
       ConsumerClosesFifo, ConsumerClosesFile
  <2> QED
    BY <2>1, StartedStays DEF Started
<1>6. ASSUME ConsumerOpensFifo(c) \/ ConsumerLocks(c) \/ ConsumerReads(c) \/ ConsumerSeesEnd(c)
             \/ ConsumerReadsHalf(c) \/ ConsumerUnlocks(c) \/ ConsumerClosesFifo(c)
      PROVE  Idle
  BY <1>2, <1>6 DEF CGoto, ConsumerOpensFifo, ConsumerLocks, ConsumerReads, ConsumerSeesEnd,
     ConsumerReadsHalf, ConsumerUnlocks, ConsumerClosesFifo, Opening
<1>7. CASE ConsumerOpensFile(c)
  <2>1. pcC[c] = "has_fifo" /\ pcC'[c] = "flock" /\ file' = <<>> /\ buf' = buf /\ saved' = saved
    BY <1>2, <1>7 DEF ConsumerOpensFile, CGoto
  <2>2. file' = file /\ "flock" \notin Opening \cup {"insert", "done"}
    BY <1>1, <2>1 DEF Opening
  <2> QED
    BY <1>1, <2>1, <2>2 DEF OnFile
<1>8. CASE ConsumerFlushes(c) \/ ConsumerClosesFile(c)
  <2>1. /\ file' = Overwrite(file, buf[c]) /\ buf' = [buf EXCEPT ![c] = <<>>] /\ saved' = saved
        /\ pcC'[c] \in {"insert", "done"}
    BY <1>2, <1>8 DEF ConsumerFlushes, ConsumerClosesFile, CGoto
  <2>2. file' = OnFile(c)
    BY <1>1, <1>2, <2>1, OverwriteIs, ZenonT(60) DEF OnFile
  <2>3. buf'[c] = <<>> /\ "insert" \notin Opening /\ "done" \notin Opening
    BY <1>2, <2>1 DEF Opening
  <2>4. OnFile(c)' = file'
    BY <2>3 DEF OnFile
  <2> QED
    BY <1>1, <2>1, <2>2, <2>3, <2>4
<1>9. CASE ConsumerInserts(c)
  <2> DEFINE row == RowRead(got[c])
             text == Text(got[c])
             s == Save(file, row, text)
  <2>1. /\ pcC[c] = "insert" /\ pcC'[c] = "unlock" /\ file' = file
        /\ buf' = [buf EXCEPT ![c] = s]
        /\ saved' = [r \in Rows |-> IF r = row THEN Append(saved[r], text) ELSE saved[r]]
    BY <1>2, <1>9 DEF ConsumerInserts, CGoto
  <2>2. text \in TextType /\ text # NL /\ row \in Nat
    BY <2>1, TextIs
  <2>3. buf'[c] = s /\ OnFile(c) = file
    BY <1>1, <1>2, <2>1 DEF OnFile
  <2> HIDE DEF row, text
  <2>4. /\ s \in Seq(TextType) /\ Len(s) >= Len(file)
        /\ \A q \in Nat \ {0} : RowOf(s, q) = IF q = row THEN Append(RowOf(file, q), text) ELSE RowOf(file, q)
    BY <1>2, <2>2, NewlineIs, SaveRows
  <2> HIDE DEF s
  <2>5. OnFile(c)' = s
    <3>1. s = <<>> => file = <<>>
      BY <1>2, <2>4
    <3> QED
      BY <2>1, <2>3, <3>1 DEF OnFile
  <2>6. \A r \in Rows : r \in Nat \ {0}
    BY NamedPipeAssumption DEF Rows
  <2>7. \A r \in Rows : RowOf(s, r) = saved'[r]
    BY <1>1, <2>1, <2>3, <2>4, <2>6
  <2>8. Len(file) <= Len(s) /\ "unlock" \notin Opening \cup {"insert", "done"}
    BY <1>2, <2>4 DEF Opening
  <2> QED
    BY <2>1, <2>3, <2>5, <2>7, <2>8
<1>10. CASE UNCHANGED vars
  <2>1. Idle
    BY <1>10 DEF vars
  <2> QED
    BY <1>3, <2>1
<1> HIDE DEF Idle
<1>11. Idle \/ ConsumerOpensFile(c) \/ ConsumerFlushes(c) \/ ConsumerClosesFile(c) \/ ConsumerInserts(c)
       \/ UNCHANGED vars
  BY <1>4, <1>5, <1>6, Zenon DEF Next, Consumer
<1> QED
  BY <1>3, <1>7, <1>8, <1>9, <1>10, <1>11 DEF Idle

\* Nothing that a consumer alone saves is lost, or is in another row, or comes
\* in another order: save looks up the newline of a row in a file that it
\* writes anew each time, and the stream writes that to the file only later.
THEOREM SavedStays == Spec => []SavedIsKept
<1>1. Init => IInv /\ FileType /\ Kept
  <2> SUFFICES ASSUME Init PROVE FileType /\ Kept
    BY InitIInv
  <2>1. /\ file = <<>> /\ buf = [c \in Consumers |-> <<>>] /\ saved = [r \in Rows |-> <<>>]
        /\ \A c \in Consumers : pcC[c] \in {"fopen_fifo", "absent"}
    BY DEF Init
  <2>2. FileType
    BY <2>1 DEF FileType
  <2>3. \A c \in Consumers : buf[c] = <<>> /\ OnFile(c) = <<>>
    BY <2>1 DEF OnFile
  <2>4. Kept
    BY <2>1, <2>3, EmptyRows DEF Kept
  <2> QED
    BY <2>2, <2>4
<1>2. (IInv /\ FileType /\ Kept) /\ [Next]_vars => (IInv /\ FileType /\ Kept)'
  BY IInvKept, FileTypeKept, KeptKept DEF IInv
<1>3. IInv /\ FileType /\ Kept => SavedIsKept
  <2> SUFFICES ASSUME Types, Kept, NEW c \in Consumers, Started = {c}, pcC[c] = "done"
               PROVE  Holds(file, saved)
    BY DEF SavedIsKept, IInv
  <2>1. buf[c] = <<>> /\ \A r \in Rows : RowOf(OnFile(c), r) = saved[r]
    BY DEF Kept
  <2>2. DOMAIN saved = Rows
    BY DEF Types
  <2> QED
    BY <2>1, <2>2 DEF Holds, OnFile
<1> QED
  BY <1>1, <1>2, <1>3, PTL DEF Spec
===============================================================================
