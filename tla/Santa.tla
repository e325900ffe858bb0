-------------------------------- MODULE Santa --------------------------------
(***************************************************************************)
(* The Santa Claus problem of lab9/zad1/main.c: one Santa thread, the      *)
(* elves and the reindeer, six mutexes and four condition variables.       *)
(*                                                                         *)
(* A thread takes a mutex in the action of its first access to shared data *)
(* under it, and gives it back in the action of the last one. What remains *)
(* visible is which thread keeps one from one action to the next: only     *)
(* santa_sleep, reindeer_back and elf_report_problem are kept so. A thread *)
(* that waits on a condition variable is at a parked step; a broadcast     *)
(* sends everyone parked there back to the loop around the wait, and POSIX *)
(* lets a parked thread wake up by itself. The sleeps are the time a       *)
(* thread takes to do its next action.                                     *)
(***************************************************************************)
EXTENDS Naturals, FiniteSets

CONSTANTS Elves, Reindeer,     \* the elf threads, the reindeer threads
          Claus,               \* Santa's thread
          MaxElvesWaiting,     \* MAX_ELVES_WAITING
          Deliveries,          \* Santa stops after this many deliveries
          Nobody               \* no thread

ASSUME ThreadsAssumption ==
    /\ IsFiniteSet(Elves) /\ IsFiniteSet(Reindeer)
    /\ Elves \cap Reindeer = {}
    /\ Claus \notin Elves \cup Reindeer
    /\ Nobody \notin Elves \cup Reindeer \cup {Claus}
ASSUME BoundsAssumption ==
    MaxElvesWaiting \in Nat \ {0} /\ Deliveries \in Nat \ {0}

Threads == Elves \cup Reindeer \cup {Claus}

Mutexes == {"santa_sleep", "reindeer_back", "elf_report_problem"}

VARIABLES pc,                    \* pc[t]: the step of thread t
          owner,                 \* owner[m]: the thread that keeps mutex m
          reindeers_back, end_of_delivery,
          elves_waiting, waiting_elf_ids,
          deliveries_completed,
          prompt               \* whether the timing is as ReindeerComes says

elfVars == <<elves_waiting, waiting_elf_ids>>
reindeerVars == <<reindeers_back, end_of_delivery>>
data == <<reindeerVars, elfVars, deliveries_completed, prompt>>
vars == <<pc, owner, data>>

REINDEER_NUMBER == Cardinality(Reindeer)

Init ==
    /\ pc = [t \in Threads |-> CASE t \in Elves -> "comes"
                                 [] t \in Reindeer -> "away"
                                 [] t = Claus -> "check"]
    /\ owner = [m \in Mutexes |-> Nobody]
    /\ reindeers_back = 0
    /\ end_of_delivery = FALSE
    /\ elves_waiting = 0
    /\ waiting_elf_ids = [i \in 0 .. MaxElvesWaiting - 1 |-> Nobody]
    /\ deliveries_completed = 0
    /\ prompt \in BOOLEAN

-------------------------------------------------------------------------------
(* Mutexes and condition variables *)

Goto(t, here, there) == pc[t] = here /\ pc' = [pc EXCEPT ![t] = there]

Free(m) == owner[m] = Nobody
Keep(t, m) == owner' = [owner EXCEPT ![m] = t]
unlock(m) == owner' = [owner EXCEPT ![m] = Nobody]

\* Thread t locks m and goes on from here to one of two steps: it keeps the
\* mutex if it does what the mutex is for, and else unlocks it at once.
KeepIf(condition, t, m, here, there, otherwise) ==
    /\ Free(m)
    /\ \/ condition /\ Goto(t, here, there) /\ Keep(t, m)
       \/ ~condition /\ Goto(t, here, otherwise) /\ UNCHANGED owner

\* Where the four pthread_cond_wait are parked, and where the loops are.
WakesAt == [sleeping |-> "check", parkedFull |-> "comes",
            parkedSolving |-> "waits", parkedDelivery |-> "waits"]

\* pthread_cond_broadcast by thread t, which goes on from here to there.
Broadcast(t, here, there, parked) ==
    /\ pc[t] = here
    /\ pc' = [u \in Threads |-> IF u = t THEN there
                                ELSE IF pc[u] = parked THEN WakesAt[parked] ELSE pc[u]]

\* POSIX allows pthread_cond_wait to return although nobody signalled.
SpuriousWakeup(t) ==
    /\ pc[t] \in DOMAIN WakesAt
    /\ pc' = [pc EXCEPT ![t] = WakesAt[pc[t]]]
    /\ UNCHANGED <<owner, data>>

-------------------------------------------------------------------------------
(* Santa: santa_claus *)

\* The two reads of the sleeping condition: elves_waiting is written under
\* another mutex, and so is reindeers_back.
SantaChecksElves ==
    /\ KeepIf(elves_waiting < MaxElvesWaiting, Claus, "santa_sleep",
              "check", "checkReindeer", "awake")
    /\ UNCHANGED data

SantaChecksReindeer ==
    /\ Goto(Claus, "checkReindeer",
            IF reindeers_back < REINDEER_NUMBER THEN "sleeping" ELSE "awake")
    /\ unlock("santa_sleep")
    /\ UNCHANGED data

SantaSeesReindeer ==
    /\ KeepIf(reindeers_back = REINDEER_NUMBER, Claus, "reindeer_back",
              "awake", "deliver", "toElves")
    /\ UNCHANGED data

Delivered ==
    /\ end_of_delivery' = TRUE
    /\ deliveries_completed' = deliveries_completed + 1
    /\ unlock("reindeer_back")
    /\ UNCHANGED <<elfVars, prompt>>

\* Variant: the count of the reindeer is not reset.
SantaKeepsCount ==
    /\ Broadcast(Claus, "deliver", "toElves", "parkedDelivery")
    /\ UNCHANGED reindeers_back
    /\ Delivered

\* Variant: pthread_cond_signal, which wakes one reindeer.
SantaReleasesOne ==
    /\ pc[Claus] = "deliver"
    /\ \E r \in Reindeer :
         /\ pc[r] = "parkedDelivery"
         /\ pc' = [pc EXCEPT ![Claus] = "toElves", ![r] = "waits"]
    /\ reindeers_back' = 0
    /\ Delivered

SantaDelivers ==
    /\ Broadcast(Claus, "deliver", "toElves", "parkedDelivery")
    /\ reindeers_back' = 0
    /\ Delivered

Rests == IF deliveries_completed < Deliveries THEN "check" ELSE "exited"

SantaSeesElves ==
    /\ KeepIf(elves_waiting = MaxElvesWaiting, Claus, "elf_report_problem",
              "toElves", "solve", Rests)
    /\ UNCHANGED data

SantaSolves ==
    /\ Goto(Claus, "solve", "tellSolved")
    /\ elves_waiting' = 0
    /\ UNCHANGED <<owner, reindeerVars, waiting_elf_ids, deliveries_completed, prompt>>

SantaTellsSolved ==
    /\ Broadcast(Claus, "tellSolved", "tellFree", "parkedSolving")
    /\ UNCHANGED <<owner, data>>

SantaTellsFree ==
    /\ Broadcast(Claus, "tellFree", Rests, "parkedFull")
    /\ unlock("elf_report_problem")
    /\ UNCHANGED data

SantaStep ==
    \/ SantaChecksElves \/ SantaChecksReindeer
    \/ SantaSeesReindeer \/ SantaDelivers
    \/ SantaSeesElves \/ SantaSolves \/ SantaTellsSolved \/ SantaTellsFree

-------------------------------------------------------------------------------
(* An elf: elf *)

ElfChecksQueue(e) ==
    /\ Goto(e, "comes",
            IF elves_waiting = MaxElvesWaiting THEN "parkedFull" ELSE "reports")
    /\ UNCHANGED <<owner, data>>

ElfJoins(e) ==
    /\ waiting_elf_ids' = [waiting_elf_ids EXCEPT ![elves_waiting] = e]
    /\ elves_waiting' = elves_waiting + 1
    /\ KeepIf(elves_waiting' = MaxElvesWaiting, e, "elf_report_problem",
              "reports", "wakesSanta", "waits")
    /\ UNCHANGED <<reindeerVars, deliveries_completed, prompt>>

\* An elf that finds the batch full meanwhile goes on without being in it.
ElfReports(e) ==
    \/ elves_waiting < MaxElvesWaiting /\ ElfJoins(e)
    \/ /\ elves_waiting >= MaxElvesWaiting
       /\ Free("elf_report_problem")
       /\ Goto(e, "reports", "waits")
       /\ UNCHANGED <<owner, data>>

\* Variant: the broadcast is made without Santa's mutex.
ElfSkipsSantaMutex(e) ==
    /\ Broadcast(e, "wakesSanta", "waits", "sleeping")
    /\ unlock("elf_report_problem")
    /\ UNCHANGED data

ElfWakesSanta(e) ==
    /\ Free("santa_sleep")
    /\ Broadcast(e, "wakesSanta", "waits", "sleeping")
    /\ unlock("elf_report_problem")
    /\ UNCHANGED data

\* Variant: the elf waits only while the batch is full.
ElfChecksFullBatch(e) ==
    /\ Goto(e, "waits",
            IF elves_waiting = MaxElvesWaiting THEN "parkedSolving" ELSE "comes")
    /\ UNCHANGED <<owner, data>>

ElfChecksSolved(e) ==
    /\ Goto(e, "waits", IF elves_waiting > 0 THEN "parkedSolving" ELSE "comes")
    /\ UNCHANGED <<owner, data>>

ElfStep(e) ==
    ElfChecksQueue(e) \/ ElfReports(e) \/ ElfWakesSanta(e) \/ ElfChecksSolved(e)

-------------------------------------------------------------------------------
(* A reindeer: reindeer *)

\* The steps of a reindeer that is back and waits for the end of a delivery.
InHarness == {"wakesSanta", "waits", "parkedDelivery"}

Returns(r) ==
    /\ reindeers_back' = reindeers_back + 1
    /\ KeepIf(reindeers_back' = REINDEER_NUMBER, r, "reindeer_back",
              "away", "wakesSanta", "waits")
    /\ UNCHANGED <<elfVars, deliveries_completed, prompt>>

\* Variant: the end of the last delivery is not withdrawn.
ReindeerKeepsSignal(r) == Returns(r) /\ UNCHANGED end_of_delivery

\* When a delivery ends no reindeer is away: each one that comes back has slept
\* for 5 seconds or more since. prompt is the assumption that by then
\* the other reindeer have been scheduled and seen the end of the delivery.
ReindeerComes(r) ==
    /\ prompt /\ end_of_delivery =>
         \A s \in Reindeer : pc[s] \notin InHarness
    /\ Returns(r)
    /\ end_of_delivery' = FALSE

ReindeerWakesSanta(r) ==
    /\ Free("santa_sleep")
    /\ Broadcast(r, "wakesSanta", "waits", "sleeping")
    /\ unlock("reindeer_back")
    /\ UNCHANGED data

ReindeerChecksDelivery(r) ==
    /\ Goto(r, "waits", IF end_of_delivery THEN "away" ELSE "parkedDelivery")
    /\ UNCHANGED <<owner, data>>

ReindeerStep(r) ==
    ReindeerComes(r) \/ ReindeerWakesSanta(r) \/ ReindeerChecksDelivery(r)

-------------------------------------------------------------------------------
\* Santa's exit(0) ends the process and every thread in it.
Exited == pc[Claus] = "exited"

Step(t) ==
    /\ ~Exited
    /\ \/ t = Claus /\ SantaStep
       \/ t \in Elves /\ ElfStep(t)
       \/ t \in Reindeer /\ ReindeerStep(t)

Next ==
    \/ \E t \in Threads : Step(t)
    \/ \E t \in Threads : ~Exited /\ SpuriousWakeup(t)
    \/ Exited /\ UNCHANGED vars

Spec == Init /\ [][Next]_vars

\* Every thread sleeps for seconds before it comes for a mutex again, so a
\* thread that waits for a mutex gets it in between.
Fairness == \A t \in Threads : SF_vars(Step(t))

FairSpec == Spec /\ Fairness

-------------------------------------------------------------------------------
(* Properties *)

SantaSteps == {"check", "checkReindeer", "sleeping", "awake", "deliver",
               "toElves", "solve", "tellSolved", "tellFree", "exited"}

ElfSteps == {"comes", "parkedFull", "reports", "wakesSanta", "waits",
             "parkedSolving"}

\* The counters stay in their ranges: the batch never has more elves than
\* waiting_elf_ids has places, and no more reindeer are back than there are.
TypeOK ==
    /\ pc \in [Threads -> SantaSteps \cup ElfSteps \cup {"away"} \cup InHarness]
    /\ owner \in [Mutexes -> Threads \cup {Nobody}]
    /\ reindeers_back \in 0 .. REINDEER_NUMBER
    /\ end_of_delivery \in BOOLEAN
    /\ elves_waiting \in 0 .. MaxElvesWaiting
    /\ waiting_elf_ids \in [0 .. MaxElvesWaiting - 1 -> Elves \cup {Nobody}]
    /\ deliveries_completed \in 0 .. Deliveries

\* The batch that Santa names and solves consists of different elves, each of
\* which is still waiting for him (elves_waiting is read in elf without the
\* mutex it is written under).
BatchIsWaiting ==
    /\ TypeOK
    /\ \A i \in 0 .. elves_waiting - 1 :
           /\ waiting_elf_ids[i] \in Elves
           /\ pc[waiting_elf_ids[i]] \in {"wakesSanta", "waits", "parkedSolving"}
           /\ \A j \in 0 .. elves_waiting - 1 :
                waiting_elf_ids[i] = waiting_elf_ids[j] => i = j

\* While Santa delivers, every reindeer is in harness: none has been counted
\* twice or let go before (reindeers_back and end_of_delivery are protected
\* by different mutexes).
DeliversWithAll ==
    pc[Claus] = "deliver" => \A r \in Reindeer : pc[r] \in InHarness

\* No wake-up is lost: a thread stays parked although its condition holds only
\* while another thread is on its way to the broadcast that wakes it.
NoLostWakeup ==
    /\ /\ pc[Claus] = "sleeping"
       /\ elves_waiting = MaxElvesWaiting \/ reindeers_back = REINDEER_NUMBER
       => \E t \in Elves \cup Reindeer : pc[t] = "wakesSanta"
    /\ \A e \in Elves :
         pc[e] = "parkedFull" /\ elves_waiting < MaxElvesWaiting
         => pc[Claus] \in {"tellSolved", "tellFree"}
    /\ \A e \in Elves :
         pc[e] = "parkedSolving" /\ elves_waiting = 0 => pc[Claus] = "tellSolved"
    /\ \A r \in Reindeer : pc[r] = "parkedDelivery" => ~end_of_delivery

\* Given prompt wake-ups every reindeer in harness is counted for the coming
\* delivery, or is about to see that the last one is over: nobody stays behind
\* (line 200 withdraws the signal that the others may not have seen).
NobodyLeftBehind ==
    prompt /\ ~end_of_delivery =>
        reindeers_back = Cardinality({r \in Reindeer : pc[r] \in InHarness})

\* Santa makes all his deliveries and the program ends, even if elves wait for
\* each other for ever.
Termination == prompt => <>Exited
===============================================================================
