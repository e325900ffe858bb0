---------------------------- MODULE SantaProofs ----------------------------
(***************************************************************************)
(* Proofs about Santa for any number of elves and reindeer, any size of a  *)
(* batch and any number of deliveries.                                     *)
(***************************************************************************)
EXTENDS Santa, FiniteSetTheorems, TLAPS

-------------------------------------------------------------------------------
(* The inductive invariant *)

Steps == SantaSteps \cup ElfSteps \cup {"away"} \cup InHarness

\* Each thread is at a step of its own body.
AtOwnSteps ==
    /\ pc \in [Threads -> Steps]
    /\ pc[Claus] \in SantaSteps
    /\ \A e \in Elves : pc[e] \in ElfSteps
    /\ \A r \in Reindeer : pc[r] \in {"away"} \cup InHarness

\* A mutex that is kept between two actions is kept by the thread at the step
\* in between.
Owners ==
    /\ owner \in [Mutexes -> Threads \cup {Nobody}]
    /\ \A t \in Threads :
         /\ owner["santa_sleep"] = t <=> t = Claus /\ pc[t] = "checkReindeer"
         /\ owner["reindeer_back"] = t <=>
                \/ t = Claus /\ pc[t] = "deliver"
                \/ t \in Reindeer /\ pc[t] = "wakesSanta"
         /\ owner["elf_report_problem"] = t <=>
                \/ t = Claus /\ pc[t] \in {"solve", "tellSolved", "tellFree"}
                \/ t \in Elves /\ pc[t] = "wakesSanta"

\* The elves of the batch, and the elves for whom there was no room in it.
Batch ==
    /\ elves_waiting \in 0 .. MaxElvesWaiting
    /\ waiting_elf_ids \in [0 .. MaxElvesWaiting - 1 -> Elves \cup {Nobody}]
    /\ \A i \in 0 .. elves_waiting - 1 :
           /\ waiting_elf_ids[i] \in Elves
           /\ pc[waiting_elf_ids[i]] \in {"wakesSanta", "waits", "parkedSolving"}
           /\ \A j \in 0 .. elves_waiting - 1 :
                waiting_elf_ids[i] = waiting_elf_ids[j] => i = j

\* What is asked when Santa goes to sleep still holds, or someone who changed
\* it is on the way to wake him; likewise for those he wakes.
Wakers ==
    /\ pc[Claus] \in {"checkReindeer", "sleeping"} /\ elves_waiting = MaxElvesWaiting
         => \E e \in Elves : pc[e] = "wakesSanta"
    /\ pc[Claus] = "sleeping" /\ reindeers_back = REINDEER_NUMBER
         => \E r \in Reindeer : pc[r] = "wakesSanta"
    /\ \A e \in Elves :
         /\ pc[e] = "parkedFull" /\ elves_waiting < MaxElvesWaiting
              => pc[Claus] \in {"tellSolved", "tellFree"}
         /\ pc[e] = "parkedSolving" /\ elves_waiting = 0 => pc[Claus] = "tellSolved"
    /\ \A r \in Reindeer : pc[r] = "parkedDelivery" => ~end_of_delivery

Harness == {r \in Reindeer : pc[r] \in InHarness}

\* The reindeer that are back are in harness. When a delivery has ended none
\* is back, whoever may still be in harness.
Counted ==
    /\ reindeers_back \in Nat /\ end_of_delivery \in BOOLEAN /\ prompt \in BOOLEAN
    /\ reindeers_back <= Cardinality(Harness)
    /\ end_of_delivery => reindeers_back = 0
    /\ pc[Claus] = "deliver" => reindeers_back = REINDEER_NUMBER
    /\ prompt /\ ~end_of_delivery => reindeers_back = Cardinality(Harness)

\* Santa goes back to his loop only while deliveries are left.
Delivering ==
    /\ deliveries_completed \in 0 .. Deliveries
    /\ pc[Claus] \in {"check", "checkReindeer", "sleeping", "awake", "deliver"}
         => deliveries_completed < Deliveries

IInv == AtOwnSteps /\ Owners /\ Batch /\ Wakers /\ Counted /\ Delivering

-------------------------------------------------------------------------------
(* The invariant is inductive *)

\* Where those who are woken go on.
LEMMA WakesAtSteps ==
    /\ DOMAIN WakesAt = {"sleeping", "parkedFull", "parkedSolving", "parkedDelivery"}
    /\ WakesAt["sleeping"] = "check" /\ WakesAt["parkedFull"] = "comes"
    /\ WakesAt["parkedSolving"] = "waits" /\ WakesAt["parkedDelivery"] = "waits"
BY DEF WakesAt

\* No thread runs a step of another (santa_claus, elf, reindeer).
LEMMA AtOwnStepsKept == ASSUME AtOwnSteps, [Next]_vars PROVE AtOwnSteps'
<1> USE ThreadsAssumption DEF AtOwnSteps, Steps, SantaSteps, ElfSteps, InHarness,
        Threads, Goto, KeepIf, Keep, Broadcast
<1>1. CASE SantaChecksElves
  BY <1>1, WakesAtSteps DEF SantaChecksElves
<1>2. CASE SantaChecksReindeer
  BY <1>2, WakesAtSteps DEF SantaChecksReindeer
<1>3. CASE SantaSeesReindeer
  BY <1>3, WakesAtSteps DEF SantaSeesReindeer
<1>4. CASE SantaDelivers
  BY <1>4, WakesAtSteps DEF SantaDelivers, Delivered
<1>5. CASE SantaSeesElves
  BY <1>5, WakesAtSteps DEF SantaSeesElves, Rests
<1>6. CASE SantaSolves
  BY <1>6, WakesAtSteps DEF SantaSolves
<1>7. CASE SantaTellsSolved
  BY <1>7, WakesAtSteps DEF SantaTellsSolved
<1>8. CASE SantaTellsFree
  BY <1>8, WakesAtSteps DEF SantaTellsFree, Rests
<1>9. ASSUME NEW e \in Elves, ElfChecksQueue(e) PROVE AtOwnSteps'
  BY <1>9, WakesAtSteps DEF ElfChecksQueue
<1>10. ASSUME NEW e \in Elves, ElfReports(e) PROVE AtOwnSteps'
  BY <1>10, WakesAtSteps DEF ElfReports, ElfJoins
<1>11. ASSUME NEW e \in Elves, ElfWakesSanta(e) PROVE AtOwnSteps'
  BY <1>11, WakesAtSteps DEF ElfWakesSanta
<1>12. ASSUME NEW e \in Elves, ElfChecksSolved(e) PROVE AtOwnSteps'
  BY <1>12, WakesAtSteps DEF ElfChecksSolved
<1>13. ASSUME NEW r \in Reindeer, ReindeerComes(r) PROVE AtOwnSteps'
  BY <1>13, WakesAtSteps DEF ReindeerComes, Returns
<1>14. ASSUME NEW r \in Reindeer, ReindeerWakesSanta(r) PROVE AtOwnSteps'
  BY <1>14, WakesAtSteps DEF ReindeerWakesSanta
<1>15. ASSUME NEW r \in Reindeer, ReindeerChecksDelivery(r) PROVE AtOwnSteps'
  BY <1>15, WakesAtSteps DEF ReindeerChecksDelivery
<1>16. ASSUME NEW t \in Threads, SpuriousWakeup(t) PROVE AtOwnSteps'
  BY <1>16, WakesAtSteps DEF SpuriousWakeup
<1>17. CASE UNCHANGED vars
  BY <1>17 DEF vars
<1> QED
  BY <1>1, <1>2, <1>3, <1>4, <1>5, <1>6, <1>7, <1>8, <1>9, <1>10, <1>11, <1>12, <1>13, <1>14, <1>15, <1>16, <1>17
     DEF Next, Step, SantaStep, ElfStep, ReindeerStep

\* A mutex is unlocked by the thread that locked it, on each path.
LEMMA OwnersKept == ASSUME AtOwnSteps, Owners, [Next]_vars PROVE Owners'
<1> USE ThreadsAssumption DEF AtOwnSteps, Steps, SantaSteps, ElfSteps, InHarness,
        Threads, Goto, KeepIf, Keep, Broadcast, Owners, Mutexes, Free, unlock, data
<1>1. CASE SantaChecksElves
  BY <1>1, WakesAtSteps DEF SantaChecksElves
<1>2. CASE SantaChecksReindeer
  BY <1>2, WakesAtSteps DEF SantaChecksReindeer
<1>3. CASE SantaSeesReindeer
  BY <1>3, WakesAtSteps DEF SantaSeesReindeer
<1>4. CASE SantaDelivers
  BY <1>4, WakesAtSteps DEF SantaDelivers, Delivered
<1>5. CASE SantaSeesElves
  BY <1>5, WakesAtSteps DEF SantaSeesElves, Rests
<1>6. CASE SantaSolves
  BY <1>6, WakesAtSteps DEF SantaSolves
<1>7. CASE SantaTellsSolved
  BY <1>7, WakesAtSteps DEF SantaTellsSolved
<1>8. CASE SantaTellsFree
  BY <1>8, WakesAtSteps DEF SantaTellsFree, Rests
<1>9. ASSUME NEW e \in Elves, ElfChecksQueue(e) PROVE Owners'
  BY <1>9, WakesAtSteps DEF ElfChecksQueue
<1>10. ASSUME NEW e \in Elves, ElfReports(e) PROVE Owners'
  BY <1>10, WakesAtSteps DEF ElfReports, ElfJoins
<1>11. ASSUME NEW e \in Elves, ElfWakesSanta(e) PROVE Owners'
  BY <1>11, WakesAtSteps DEF ElfWakesSanta
<1>12. ASSUME NEW e \in Elves, ElfChecksSolved(e) PROVE Owners'
  BY <1>12, WakesAtSteps DEF ElfChecksSolved
<1>13. ASSUME NEW r \in Reindeer, ReindeerComes(r) PROVE Owners'
  BY <1>13, WakesAtSteps DEF ReindeerComes, Returns
<1>14. ASSUME NEW r \in Reindeer, ReindeerWakesSanta(r) PROVE Owners'
  BY <1>14, WakesAtSteps DEF ReindeerWakesSanta
<1>15. ASSUME NEW r \in Reindeer, ReindeerChecksDelivery(r) PROVE Owners'
  BY <1>15, WakesAtSteps DEF ReindeerChecksDelivery
<1>16. ASSUME NEW t \in Threads, SpuriousWakeup(t) PROVE Owners'
  BY <1>16, WakesAtSteps DEF SpuriousWakeup
<1>17. CASE UNCHANGED vars
  BY <1>17 DEF vars
<1> QED
  BY <1>1, <1>2, <1>3, <1>4, <1>5, <1>6, <1>7, <1>8, <1>9, <1>10, <1>11, <1>12, <1>13, <1>14, <1>15, <1>16, <1>17
     DEF Next, Step, SantaStep, ElfStep, ReindeerStep

\* The batch is filled from its start and emptied as a whole.
LEMMA BatchKept == ASSUME AtOwnSteps, Owners, Batch, [Next]_vars PROVE Batch'
<1> USE ThreadsAssumption, BoundsAssumption DEF AtOwnSteps, Steps, SantaSteps, ElfSteps, InHarness,
        Threads, Goto, KeepIf, Keep, Broadcast,
        Batch, data, reindeerVars, elfVars
<1>1. CASE SantaChecksElves
  BY <1>1, WakesAtSteps DEF SantaChecksElves
<1>2. CASE SantaChecksReindeer
  BY <1>2, WakesAtSteps DEF SantaChecksReindeer
<1>3. CASE SantaSeesReindeer
  BY <1>3, WakesAtSteps DEF SantaSeesReindeer
<1>4. CASE SantaDelivers
  BY <1>4, WakesAtSteps DEF SantaDelivers, Delivered
<1>5. CASE SantaSeesElves
  BY <1>5, WakesAtSteps DEF SantaSeesElves, Rests
<1>6. CASE SantaSolves
  BY <1>6, WakesAtSteps DEF SantaSolves
<1>7. CASE SantaTellsSolved
  BY <1>7, WakesAtSteps DEF SantaTellsSolved
<1>8. CASE SantaTellsFree
  BY <1>8, WakesAtSteps DEF SantaTellsFree, Rests
<1>9. ASSUME NEW e \in Elves, ElfChecksQueue(e) PROVE Batch'
  BY <1>9, WakesAtSteps DEF ElfChecksQueue
<1>10. ASSUME NEW e \in Elves, ElfReports(e) PROVE Batch'
  BY <1>10, WakesAtSteps DEF ElfReports, ElfJoins
<1>11. ASSUME NEW e \in Elves, ElfWakesSanta(e) PROVE Batch'
  BY <1>11, WakesAtSteps DEF ElfWakesSanta
<1>12. ASSUME NEW e \in Elves, ElfChecksSolved(e) PROVE Batch'
  BY <1>12, WakesAtSteps DEF ElfChecksSolved
<1>13. ASSUME NEW r \in Reindeer, ReindeerComes(r) PROVE Batch'
  BY <1>13, WakesAtSteps DEF ReindeerComes, Returns
<1>14. ASSUME NEW r \in Reindeer, ReindeerWakesSanta(r) PROVE Batch'
  BY <1>14, WakesAtSteps DEF ReindeerWakesSanta
<1>15. ASSUME NEW r \in Reindeer, ReindeerChecksDelivery(r) PROVE Batch'
  BY <1>15, WakesAtSteps DEF ReindeerChecksDelivery
<1>16. ASSUME NEW t \in Threads, SpuriousWakeup(t) PROVE Batch'
  BY <1>16, WakesAtSteps DEF SpuriousWakeup
<1>17. CASE UNCHANGED vars
  BY <1>17 DEF vars
<1> QED
  BY <1>1, <1>2, <1>3, <1>4, <1>5, <1>6, <1>7, <1>8, <1>9, <1>10, <1>11, <1>12, <1>13, <1>14, <1>15, <1>16, <1>17
     DEF Next, Step, SantaStep, ElfStep, ReindeerStep

\* Whoever makes a condition true wakes those who wait for it.
LEMMA WakersKept == ASSUME AtOwnSteps, Owners, Batch, Wakers, Counted, [Next]_vars PROVE Wakers'
<1> USE ThreadsAssumption, BoundsAssumption DEF AtOwnSteps, Steps, SantaSteps, ElfSteps, InHarness,
        Threads, Goto, KeepIf, Keep, Broadcast,
        Wakers, Owners, Batch, Counted, Mutexes, Free, unlock, data, reindeerVars, elfVars
<1>1. CASE SantaChecksElves
  BY <1>1, WakesAtSteps DEF SantaChecksElves
<1>2. CASE SantaChecksReindeer
  BY <1>2, WakesAtSteps DEF SantaChecksReindeer
<1>3. CASE SantaSeesReindeer
  BY <1>3, WakesAtSteps DEF SantaSeesReindeer
<1>4. CASE SantaDelivers
  BY <1>4, WakesAtSteps DEF SantaDelivers, Delivered
<1>5. CASE SantaSeesElves
  BY <1>5, WakesAtSteps DEF SantaSeesElves, Rests
<1>6. CASE SantaSolves
  BY <1>6, WakesAtSteps DEF SantaSolves
<1>7. CASE SantaTellsSolved
  BY <1>7, WakesAtSteps DEF SantaTellsSolved
<1>8. CASE SantaTellsFree
  BY <1>8, WakesAtSteps DEF SantaTellsFree, Rests
<1>9. ASSUME NEW e \in Elves, ElfChecksQueue(e) PROVE Wakers'
  BY <1>9, WakesAtSteps DEF ElfChecksQueue
<1>10. ASSUME NEW e \in Elves, ElfReports(e) PROVE Wakers'
  BY <1>10, WakesAtSteps DEF ElfReports, ElfJoins
<1>11. ASSUME NEW e \in Elves, ElfWakesSanta(e) PROVE Wakers'
  BY <1>11, WakesAtSteps DEF ElfWakesSanta
<1>12. ASSUME NEW e \in Elves, ElfChecksSolved(e) PROVE Wakers'
  BY <1>12, WakesAtSteps DEF ElfChecksSolved
<1>13. ASSUME NEW r \in Reindeer, ReindeerComes(r) PROVE Wakers'
  BY <1>13, WakesAtSteps DEF ReindeerComes, Returns
<1>14. ASSUME NEW r \in Reindeer, ReindeerWakesSanta(r) PROVE Wakers'
  BY <1>14, WakesAtSteps DEF ReindeerWakesSanta
<1>15. ASSUME NEW r \in Reindeer, ReindeerChecksDelivery(r) PROVE Wakers'
  BY <1>15, WakesAtSteps DEF ReindeerChecksDelivery
<1>16. ASSUME NEW t \in Threads, SpuriousWakeup(t) PROVE Wakers'
  BY <1>16, WakesAtSteps DEF SpuriousWakeup
<1>17. CASE UNCHANGED vars
  BY <1>17 DEF vars
<1> QED
  BY <1>1, <1>2, <1>3, <1>4, <1>5, <1>6, <1>7, <1>8, <1>9, <1>10, <1>11, <1>12, <1>13, <1>14, <1>15, <1>16, <1>17
     DEF Next, Step, SantaStep, ElfStep, ReindeerStep

\* Santa exits after the last delivery.
LEMMA DeliveringKept == ASSUME AtOwnSteps, Delivering, [Next]_vars PROVE Delivering'
<1> USE ThreadsAssumption, BoundsAssumption DEF AtOwnSteps, Steps, SantaSteps, ElfSteps, InHarness,
        Threads, Goto, KeepIf, Keep, Broadcast,
        Delivering, data, reindeerVars, elfVars
<1>1. CASE SantaChecksElves
  BY <1>1, WakesAtSteps DEF SantaChecksElves
<1>2. CASE SantaChecksReindeer
  BY <1>2, WakesAtSteps DEF SantaChecksReindeer
<1>3. CASE SantaSeesReindeer
  BY <1>3, WakesAtSteps DEF SantaSeesReindeer
<1>4. CASE SantaDelivers
  BY <1>4, WakesAtSteps DEF SantaDelivers, Delivered
<1>5. CASE SantaSeesElves
  BY <1>5, WakesAtSteps DEF SantaSeesElves, Rests
<1>6. CASE SantaSolves
  BY <1>6, WakesAtSteps DEF SantaSolves
<1>7. CASE SantaTellsSolved
  BY <1>7, WakesAtSteps DEF SantaTellsSolved
<1>8. CASE SantaTellsFree
  BY <1>8, WakesAtSteps DEF SantaTellsFree, Rests
<1>9. ASSUME NEW e \in Elves, ElfChecksQueue(e) PROVE Delivering'
  BY <1>9, WakesAtSteps DEF ElfChecksQueue
<1>10. ASSUME NEW e \in Elves, ElfReports(e) PROVE Delivering'
  BY <1>10, WakesAtSteps DEF ElfReports, ElfJoins
<1>11. ASSUME NEW e \in Elves, ElfWakesSanta(e) PROVE Delivering'
  BY <1>11, WakesAtSteps DEF ElfWakesSanta
<1>12. ASSUME NEW e \in Elves, ElfChecksSolved(e) PROVE Delivering'
  BY <1>12, WakesAtSteps DEF ElfChecksSolved
<1>13. ASSUME NEW r \in Reindeer, ReindeerComes(r) PROVE Delivering'
  BY <1>13, WakesAtSteps DEF ReindeerComes, Returns
<1>14. ASSUME NEW r \in Reindeer, ReindeerWakesSanta(r) PROVE Delivering'
  BY <1>14, WakesAtSteps DEF ReindeerWakesSanta
<1>15. ASSUME NEW r \in Reindeer, ReindeerChecksDelivery(r) PROVE Delivering'
  BY <1>15, WakesAtSteps DEF ReindeerChecksDelivery
<1>16. ASSUME NEW t \in Threads, SpuriousWakeup(t) PROVE Delivering'
  BY <1>16, WakesAtSteps DEF SpuriousWakeup
<1>17. CASE UNCHANGED vars
  BY <1>17 DEF vars
<1> QED
  BY <1>1, <1>2, <1>3, <1>4, <1>5, <1>6, <1>7, <1>8, <1>9, <1>10, <1>11, <1>12, <1>13, <1>14, <1>15, <1>16, <1>17
     DEF Next, Step, SantaStep, ElfStep, ReindeerStep

\* No more reindeer are in harness than there are, and if as many then all.
LEMMA HarnessCounts ==
    /\ Harness \subseteq Reindeer /\ Harness' \subseteq Reindeer
    /\ REINDEER_NUMBER \in Nat
    /\ \A H \in SUBSET Reindeer :
         /\ IsFiniteSet(H) /\ Cardinality(H) \in 0 .. REINDEER_NUMBER
         /\ Cardinality(H) = REINDEER_NUMBER => H = Reindeer
<1>1. IsFiniteSet(Reindeer)
  BY ThreadsAssumption
<1> QED
  BY <1>1, FS_Subset, FS_CardinalityType DEF REINDEER_NUMBER, Harness

\* The count of the reindeer follows those in harness.
LEMMA CountedKept == ASSUME AtOwnSteps, Owners, Counted, [Next]_vars PROVE Counted'
<1> USE ThreadsAssumption DEF AtOwnSteps, Steps, SantaSteps, ElfSteps, InHarness,
        Threads, Goto, KeepIf, Keep, Broadcast,
        Owners, Counted, Mutexes, Free, unlock, data, reindeerVars, elfVars
<1>1. CASE SantaChecksElves
  <2>1. Harness' = Harness
    BY <1>1, WakesAtSteps DEF Harness, SantaChecksElves
  <2> QED
    BY <1>1, <2>1, HarnessCounts, WakesAtSteps DEF SantaChecksElves
<1>2. CASE SantaChecksReindeer
  <2>1. Harness' = Harness
    BY <1>2, WakesAtSteps DEF Harness, SantaChecksReindeer
  <2> QED
    BY <1>2, <2>1, HarnessCounts, WakesAtSteps DEF SantaChecksReindeer
<1>3. CASE SantaSeesReindeer
  <2>1. Harness' = Harness
    BY <1>3, WakesAtSteps DEF Harness, SantaSeesReindeer
  <2> QED
    BY <1>3, <2>1, HarnessCounts, WakesAtSteps DEF SantaSeesReindeer
<1>4. CASE SantaDelivers
  <2>1. Cardinality(Harness') \in Nat
    BY HarnessCounts
  <2> QED
    BY <1>4, <2>1 DEF SantaDelivers, Delivered
<1>5. CASE SantaSeesElves
  <2>1. Harness' = Harness
    BY <1>5, WakesAtSteps DEF Harness, SantaSeesElves, Rests
  <2> QED
    BY <1>5, <2>1, HarnessCounts, WakesAtSteps DEF SantaSeesElves, Rests
<1>6. CASE SantaSolves
  <2>1. Harness' = Harness
    BY <1>6, WakesAtSteps DEF Harness, SantaSolves
  <2> QED
    BY <1>6, <2>1, HarnessCounts, WakesAtSteps DEF SantaSolves
<1>7. CASE SantaTellsSolved
  <2>1. Harness' = Harness
    BY <1>7, WakesAtSteps DEF Harness, SantaTellsSolved
  <2> QED
    BY <1>7, <2>1, HarnessCounts, WakesAtSteps DEF SantaTellsSolved
<1>8. CASE SantaTellsFree
  <2>1. Harness' = Harness
    BY <1>8, WakesAtSteps DEF Harness, SantaTellsFree, Rests
  <2> QED
    BY <1>8, <2>1, HarnessCounts, WakesAtSteps DEF SantaTellsFree, Rests
<1>9. ASSUME NEW e \in Elves, ElfChecksQueue(e) PROVE Counted'
  <2>1. Harness' = Harness
    BY <1>9, WakesAtSteps DEF Harness, ElfChecksQueue
  <2> QED
    BY <1>9, <2>1, HarnessCounts, WakesAtSteps DEF ElfChecksQueue
<1>10. ASSUME NEW e \in Elves, ElfReports(e) PROVE Counted'
  <2>1. Harness' = Harness
    BY <1>10, WakesAtSteps DEF Harness, ElfReports, ElfJoins
  <2> QED
    BY <1>10, <2>1, HarnessCounts, WakesAtSteps DEF ElfReports, ElfJoins
<1>11. ASSUME NEW e \in Elves, ElfWakesSanta(e) PROVE Counted'
  <2>1. Harness' = Harness
    BY <1>11, WakesAtSteps DEF Harness, ElfWakesSanta
  <2> QED
    BY <1>11, <2>1, HarnessCounts, WakesAtSteps DEF ElfWakesSanta
<1>12. ASSUME NEW e \in Elves, ElfChecksSolved(e) PROVE Counted'
  <2>1. Harness' = Harness
    BY <1>12, WakesAtSteps DEF Harness, ElfChecksSolved
  <2> QED
    BY <1>12, <2>1, HarnessCounts, WakesAtSteps DEF ElfChecksSolved
<1>13. ASSUME NEW r \in Reindeer, ReindeerComes(r) PROVE Counted'
  <2>1. Harness' = Harness \cup {r} /\ r \notin Harness
    BY <1>13 DEF Harness, ReindeerComes, Returns
  <2>2. Cardinality(Harness') = Cardinality(Harness) + 1
    BY <2>1, HarnessCounts, FS_AddElement
  <2>3. prompt /\ end_of_delivery => Harness = {}
    BY <1>13 DEF Harness, ReindeerComes
  <2>4. reindeers_back' = reindeers_back + 1 /\ ~end_of_delivery' /\ prompt' = prompt
    BY <1>13 DEF ReindeerComes, Returns
  <2>5. pc[Claus] # "deliver" /\ pc'[Claus] = pc[Claus]
    BY <1>13 DEF ReindeerComes, Returns
  <2>6. Cardinality(Harness) \in Nat /\ Cardinality({}) = 0
    BY HarnessCounts, FS_EmptySet
  <2>7. ~end_of_delivery \/ (prompt /\ end_of_delivery) \/ (~prompt /\ end_of_delivery)
    OBVIOUS
  <2>8. end_of_delivery => reindeers_back = 0
    BY DEF Counted
  <2>9. prompt /\ ~end_of_delivery => reindeers_back = Cardinality(Harness)
    BY DEF Counted
  <2>10. prompt => reindeers_back' = Cardinality(Harness')
    BY <2>2, <2>3, <2>4, <2>6, <2>7, <2>8, <2>9
  <2>11. reindeers_back' \in Nat /\ reindeers_back' <= Cardinality(Harness')
    BY <2>2, <2>4, <2>6 DEF Counted
  <2>12. end_of_delivery' \in BOOLEAN /\ prompt' \in BOOLEAN
    <3>1. end_of_delivery' = FALSE /\ prompt' = prompt
      BY <1>13 DEF ReindeerComes, Returns
    <3>2. prompt \in BOOLEAN
      BY Zenon DEF Counted
    <3> QED
      BY <3>1, <3>2, Zenon
  <2>13. ~end_of_delivery' /\ pc'[Claus] # "deliver" /\ prompt' = prompt
    BY <2>4, <2>5
  <2> QED
    BY <2>10, <2>11, <2>12, <2>13, Zenon DEF Counted
<1>14. ASSUME NEW r \in Reindeer, ReindeerWakesSanta(r) PROVE Counted'
  <2>1. Harness' = Harness
    BY <1>14, WakesAtSteps DEF Harness, ReindeerWakesSanta
  <2> QED
    BY <1>14, <2>1, HarnessCounts, WakesAtSteps DEF ReindeerWakesSanta
<1>15. ASSUME NEW r \in Reindeer, ReindeerChecksDelivery(r) PROVE Counted'
  <2>1. CASE end_of_delivery
    <3>1. reindeers_back' = 0 /\ end_of_delivery' /\ pc'[Claus] = pc[Claus] /\ prompt' = prompt
      BY <1>15, <2>1 DEF ReindeerChecksDelivery
    <3>2. reindeers_back = 0 /\ Cardinality(Harness') \in Nat
      BY <1>15, <2>1, HarnessCounts
    <3> QED
      BY <3>1, <3>2, <2>1
  <2>2. CASE ~end_of_delivery
    <3>1. Harness' = Harness
      BY <1>15, <2>2 DEF Harness, ReindeerChecksDelivery
    <3> QED
      BY <1>15, <2>2, <3>1 DEF ReindeerChecksDelivery
  <2> QED
    BY <2>1, <2>2
<1>16. ASSUME NEW t \in Threads, SpuriousWakeup(t) PROVE Counted'
  <2>1. Harness' = Harness
    BY <1>16, WakesAtSteps DEF Harness, SpuriousWakeup
  <2> QED
    BY <1>16, <2>1, HarnessCounts, WakesAtSteps DEF SpuriousWakeup
<1>17. CASE UNCHANGED vars
  BY <1>17 DEF vars, Harness
<1> QED
  BY <1>1, <1>2, <1>3, <1>4, <1>5, <1>6, <1>7, <1>8, <1>9, <1>10, <1>11, <1>12, <1>13, <1>14, <1>15, <1>16, <1>17
     DEF Next, Step, SantaStep, ElfStep, ReindeerStep

\* The threads start with the invariant.
LEMMA InitIInv == Init => IInv
<1> SUFFICES ASSUME Init PROVE IInv
  OBVIOUS
<1> USE ThreadsAssumption, BoundsAssumption DEF Init
<1>0. /\ pc[Claus] = "check" /\ \A e \in Elves : pc[e] = "comes" /\ \A r \in Reindeer : pc[r] = "away"
      /\ pc = [t \in Threads |-> pc[t]]
  BY Zenon DEF Threads
<1> USE <1>0
<1>1. AtOwnSteps
  BY DEF AtOwnSteps, Threads, Steps, SantaSteps, ElfSteps, InHarness
<1>2. Owners
  BY <1>1 DEF Owners, Threads, AtOwnSteps, Mutexes, InHarness
<1>3. Batch
  BY DEF Batch
<1>4. Wakers
  BY DEF Wakers, Threads
<1>5. Counted
  <2>1. Harness = {}
    BY DEF Harness, Threads, InHarness
  <2>2. Cardinality(Harness) = 0
    BY <2>1, FS_EmptySet
  <2>3. reindeers_back \in Nat /\ reindeers_back <= Cardinality(Harness)
    BY <2>2
  <2>4. prompt \in BOOLEAN /\ end_of_delivery \in BOOLEAN /\ reindeers_back = 0
    OBVIOUS
  <2>5. pc[Claus] # "deliver"
    OBVIOUS
  <2> QED
    BY <2>2, <2>3, <2>4, <2>5, Zenon DEF Counted
<1>6. Delivering
  BY DEF Delivering
<1> QED
  BY <1>1, <1>2, <1>3, <1>4, <1>5, <1>6 DEF IInv

\* Every step keeps it.
LEMMA IInvKept == IInv /\ [Next]_vars => IInv'
BY AtOwnStepsKept, OwnersKept, BatchKept, WakersKept, CountedKept, DeliveringKept DEF IInv

\* The inductive invariant holds in every behaviour.
THEOREM Invariance == Spec => []IInv
BY InitIInv, IInvKept, PTL DEF Spec

-------------------------------------------------------------------------------
(* What follows from it *)

\* The batch Santa solves has different elves that wait for him, and the
\* counters stay in their ranges (elf, santa_claus).
THEOREM Batches == Spec => []BatchIsWaiting
<1>1. IInv => TypeOK
  BY HarnessCounts DEF IInv, TypeOK, AtOwnSteps, Steps, Owners, Batch, Counted, Delivering, REINDEER_NUMBER
<1>2. IInv => BatchIsWaiting
  BY <1>1 DEF IInv, BatchIsWaiting, Batch
<1> QED
  BY <1>2, Invariance, PTL

\* No delivery is made with a reindeer missing (santa_claus, reindeer).
THEOREM Complete == Spec => []DeliversWithAll
<1>1. IInv => DeliversWithAll
  <2> SUFFICES ASSUME IInv, pc[Claus] = "deliver" PROVE \A r \in Reindeer : pc[r] \in InHarness
    BY DEF DeliversWithAll
  <2>1. Cardinality(Harness) = REINDEER_NUMBER
    BY HarnessCounts DEF IInv, Counted
  <2> QED
    BY <2>1, HarnessCounts DEF Harness
<1> QED
  BY <1>1, Invariance, PTL

\* A thread that stays parked although its condition holds has someone on the
\* way to wake it (all four condition variables).
THEOREM WakeUps == Spec => []NoLostWakeup
<1>1. IInv => NoLostWakeup
  BY DEF IInv, Wakers, NoLostWakeup
<1> QED
  BY <1>1, Invariance, PTL

\* With prompt wake-ups each reindeer in harness counts for the coming
\* delivery (reindeer, line 200).
THEOREM Prompt == Spec => []NobodyLeftBehind
<1>1. IInv => NobodyLeftBehind
  BY DEF IInv, Counted, NobodyLeftBehind, Harness
<1> QED
  BY <1>1, Invariance, PTL

=============================================================================
