------------------------------ MODULE Pizzeria ------------------------------
(***************************************************************************)
(* The pizzeria of lab7/zad1: cooks and deliverers are processes that      *)
(* share two circular arrays (the oven and the table) and a set of five    *)
(* semaphores.  One action per semaphore operation and per half of an      *)
(* array operation; sleeps are the time a process takes to do its next     *)
(* action.  lab7/zad2 runs the same protocol on POSIX semaphores.          *)
(***************************************************************************)
EXTENDS Arr, FiniteSets

CONSTANTS Cooks,        \* the N cook processes
          Deliverers    \* the M deliverer processes

ASSUME WorkersAssumption == /\ IsFiniteSet(Cooks)
                            /\ IsFiniteSet(Deliverers)
                            /\ Cooks \cap Deliverers = {}

VARIABLES sem,     \* values of the five semaphores
          oven,    \* the oven's shared array
          table,   \* the table's shared array
          n,       \* n[p]: the local variable n of process p
          pc       \* pc[p]: what process p does next

vars == <<sem, oven, table, n, pc>>

Workers == Cooks \cup Deliverers

Semaphores == {"OVEN", "TABLE", "FULL_OVEN", "FULL_TABLE", "EMPTY_TABLE"}

Init ==
    /\ sem = [s \in Semaphores |->
                CASE s \in {"OVEN", "TABLE"} -> 1
                  [] s \in {"FULL_OVEN", "FULL_TABLE"} -> ArrSize
                  [] s = "EMPTY_TABLE" -> 0]
    /\ oven = EmptyArr
    /\ table = EmptyArr
    /\ n = [p \in Workers |-> NoPizza]
    /\ pc = [p \in Workers |-> IF p \in Cooks THEN "prepare" ELSE "await"]

-------------------------------------------------------------------------------
Goto(p, here, there) ==
    /\ pc[p] = here
    /\ pc' = [pc EXCEPT ![p] = there]

sem_decrement(s) == sem[s] > 0 /\ sem' = [sem EXCEPT ![s] = @ - 1]

sem_increment(s) == sem' = [sem EXCEPT ![s] = @ + 1]

\* A process waits on a semaphore, or posts one, and touches nothing else.
Down(p, here, s, there) ==
    Goto(p, here, there) /\ sem_decrement(s) /\ UNCHANGED <<oven, table, n>>

Up(p, here, s, there) ==
    Goto(p, here, there) /\ sem_increment(s) /\ UNCHANGED <<oven, table, n>>

-------------------------------------------------------------------------------
(* A cook: cook.c *)

Prepare(c) ==
    /\ Goto(c, "prepare", "reserveOven")
    /\ \E x \in Pizzas : n' = [n EXCEPT ![c] = x]
    /\ UNCHANGED <<sem, oven, table>>

ReserveOven(c) == Down(c, "reserveOven", "FULL_OVEN", "lockOven")

\* Variant: the oven is used without its lock.
LockOvenUnlocked(c) ==
    Goto(c, "lockOven", "putOven") /\ UNCHANGED <<sem, oven, table, n>>

LockOven(c) == Down(c, "lockOven", "OVEN", "putOven")

PutOven(c) ==
    /\ Goto(c, "putOven", "putOvenEnd")
    /\ oven' = StoreLast(oven, n[c])
    /\ UNCHANGED <<sem, table, n>>

PutOvenEnd(c) ==
    /\ Goto(c, "putOvenEnd", "unlockOven")
    /\ oven' = AdvanceLast(oven)
    /\ UNCHANGED <<sem, table, n>>

UnlockOven(c) == Up(c, "unlockOven", "OVEN", "bake")

Bake(c) == Down(c, "bake", "OVEN", "takeOven")

TakeOven(c) ==
    /\ Goto(c, "takeOven", "takeOvenEnd")
    /\ n' = [n EXCEPT ![c] = FirstOf(oven)]
    /\ UNCHANGED <<sem, oven, table>>

TakeOvenEnd(c) ==
    /\ Goto(c, "takeOvenEnd", "reunlockOven")
    /\ oven' = AdvanceFirst(oven)
    /\ UNCHANGED <<sem, table, n>>

ReunlockOven(c) == Up(c, "reunlockOven", "OVEN", "releaseOven")

\* Variant: the place in the oven is not given back.
ReleaseOvenForgotten(c) ==
    Goto(c, "releaseOven", "reserveTable") /\ UNCHANGED <<sem, oven, table, n>>

ReleaseOven(c) == Up(c, "releaseOven", "FULL_OVEN", "reserveTable")

ReserveTable(c) == Down(c, "reserveTable", "FULL_TABLE", "lockTable")

LockTable(c) == Down(c, "lockTable", "TABLE", "putTable")

PutTable(c) ==
    /\ Goto(c, "putTable", "putTableEnd")
    /\ table' = StoreLast(table, n[c])
    /\ UNCHANGED <<sem, oven, n>>

PutTableEnd(c) ==
    /\ Goto(c, "putTableEnd", "announce")
    /\ table' = AdvanceLast(table)
    /\ UNCHANGED <<sem, oven, n>>

Announce(c) == Up(c, "announce", "EMPTY_TABLE", "unlockTable")

UnlockTable(c) == Up(c, "unlockTable", "TABLE", "prepare")

Cook(c) ==
    \/ Prepare(c) \/ ReserveOven(c) \/ LockOven(c) \/ PutOven(c)
    \/ PutOvenEnd(c) \/ UnlockOven(c) \/ Bake(c) \/ TakeOven(c)
    \/ TakeOvenEnd(c) \/ ReunlockOven(c) \/ ReleaseOven(c)
    \/ ReserveTable(c) \/ LockTable(c) \/ PutTable(c) \/ PutTableEnd(c)
    \/ Announce(c) \/ UnlockTable(c)

-------------------------------------------------------------------------------
(* A deliverer: deliverer.c *)

\* Variant: the deliverer does not wait for a pizza.
AwaitNothing(d) ==
    Goto(d, "await", "lockTake") /\ UNCHANGED <<sem, oven, table, n>>

Await(d) == Down(d, "await", "EMPTY_TABLE", "lockTake")

LockTake(d) == Down(d, "lockTake", "TABLE", "takeTable")

TakeTable(d) ==
    /\ Goto(d, "takeTable", "takeTableEnd")
    /\ n' = [n EXCEPT ![d] = FirstOf(table)]
    /\ UNCHANGED <<sem, oven, table>>

TakeTableEnd(d) ==
    /\ Goto(d, "takeTableEnd", "vacate")
    /\ table' = AdvanceFirst(table)
    /\ UNCHANGED <<sem, oven, n>>

\* Variant: the deliverer posts the wrong semaphore.
VacateWrong(d) == Up(d, "vacate", "EMPTY_TABLE", "unlockTake")

Vacate(d) == Up(d, "vacate", "FULL_TABLE", "unlockTake")

UnlockTake(d) == Up(d, "unlockTake", "TABLE", "deliver")

Deliver(d) ==
    Goto(d, "deliver", "await") /\ UNCHANGED <<sem, oven, table, n>>

Deliverer(d) ==
    \/ Await(d) \/ LockTake(d) \/ TakeTable(d) \/ TakeTableEnd(d)
    \/ Vacate(d) \/ UnlockTake(d) \/ Deliver(d)

Next == (\E c \in Cooks : Cook(c)) \/ (\E d \in Deliverers : Deliverer(d))

Spec == Init /\ [][Next]_vars

\* No process stops by itself, and the kernel queues the processes that wait
\* on a semaphore, so that one for which it is posted again and again is served.
\* At most one action of a process is enabled at a time, hence SF of its step.
Fairness ==
    /\ \A c \in Cooks : SF_vars(Cook(c))
    /\ \A d \in Deliverers : SF_vars(Deliverer(d))

FairSpec == Spec /\ Fairness

-------------------------------------------------------------------------------
(* Where a process is, by what it owns there. *)

CookSteps == {"prepare", "reserveOven", "lockOven", "putOven", "putOvenEnd",
              "unlockOven", "bake", "takeOven", "takeOvenEnd", "reunlockOven",
              "releaseOven", "reserveTable", "lockTable", "putTable",
              "putTableEnd", "announce", "unlockTable"}

DelivererSteps == {"await", "lockTake", "takeTable", "takeTableEnd", "vacate",
                   "unlockTake", "deliver"}

OwnsOven == {"putOven", "putOvenEnd", "unlockOven",
             "takeOven", "takeOvenEnd", "reunlockOven"}

OwnsTable == {"putTable", "putTableEnd", "announce", "unlockTable",
              "takeTable", "takeTableEnd", "vacate", "unlockTake"}

\* The pizza the process works on is on its way to the oven, in it, or out.
Raw == {"reserveOven", "lockOven", "putOven", "putOvenEnd"}

Baking == {"unlockOven", "bake", "takeOven", "takeOvenEnd"}

Baked == {"reunlockOven", "releaseOven", "reserveTable",
          "lockTable", "putTable", "putTableEnd", "vacate", "unlockTake",
          "deliver"}

\* The process holds a place of the array which has no pizza in it, or
\* a pizza of the table that is announced to it, or not yet announced.
HoldsOvenPlace == {"lockOven", "putOven", "putOvenEnd",
                   "reunlockOven", "releaseOven"}

HoldsTablePlace == {"lockTable", "putTable", "putTableEnd", "vacate"}

HoldsTablePizza == {"lockTake", "takeTable", "takeTableEnd", "announce"}

Count(S) == Cardinality({p \in Workers : pc[p] \in S})

-------------------------------------------------------------------------------
(* Properties *)

\* The variables have their types: in particular no semaphore is negative and
\* no index leaves the array.
TypeOK ==
    /\ sem \in [Semaphores -> Nat]
    /\ oven \in Arrs
    /\ table \in Arrs
    /\ n \in [Workers -> Pizzas \cup {NoPizza}]
    /\ pc \in [Workers -> CookSteps \cup DelivererSteps]
    /\ \A c \in Cooks : pc[c] \in CookSteps
    /\ \A d \in Deliverers : pc[d] \in DelivererSteps

\* The OVEN and TABLE semaphores are locks: at most one process at a time
\* works on the oven's array (cook.c:39-46 and 51-55), and at most one, cook or
\* deliverer, on the table's (cook.c:62-66, deliverer.c:32-41).
MutualExclusion ==
    \A p, q \in Workers :
        /\ pc[p] \in OwnsOven /\ pc[q] \in OwnsOven => p = q
        /\ pc[p] \in OwnsTable /\ pc[q] \in OwnsTable => p = q

\* An oven place is reserved (FULL_OVEN) before the lock is taken and given back
\* only after the pizza has left, so the oven holds a pizza for each cook that
\* is baking, the reservations cover them, and the array cannot overflow.
OvenAccounting ==
    /\ oven.count = Count(Baking)
    /\ sem["FULL_OVEN"] + oven.count + Count(HoldsOvenPlace) = ArrSize

\* The table's free places (FULL_TABLE) and its pizzas (EMPTY_TABLE) are counted
\* by two semaphores, updated by different processes at different moments. Each
\* differs from the array's own count by exactly the processes on their way, so
\* no cook stores over a pizza and no deliverer takes one that is not there.
TableAccounting ==
    /\ sem["EMPTY_TABLE"] + Count(HoldsTablePizza) = table.count
    /\ sem["FULL_TABLE"] + table.count + Count(HoldsTablePlace) = ArrSize

\* Both arrays at once: no semaphore ever promises a place or a pizza that the
\* array does not have.
PlacesAreCounted == OvenAccounting /\ TableAccounting

-------------------------------------------------------------------------------
(* The shared arrays and semaphores implement the line of PizzaLine. *)

StageOf(step) == CASE step \in Raw -> "raw"
                   [] step \in Baking -> "baking"
                   [] step \in Baked -> "baked"
                   [] OTHER -> "idle"

stage == [p \in Workers |-> StageOf(pc[p])]

\* A worker carries what is in its n, except while it has nothing to carry:
\* before a choice, after a delivery, or while its pizza is in the oven.
hand == [p \in Workers |->
           IF StageOf(pc[p]) \in {"raw", "baked"} THEN n[p] ELSE NoPizza]

Line == INSTANCE PizzaLine WITH
          inOven <- Contents(oven), onTable <- Contents(table)

\* Under every interleaving the oven and the table behave as bounded first-in
\* first-out queues: a pizza is never lost, duplicated, overtaken or overwritten
\* between the cook that prepares it and the deliverer that brings it out
\* (lab7/wnioski.txt:2-7 claims no less of the two arrays).
ImplementsLine == Line!Spec

\* With cooks and deliverers at work nobody is locked out for good: each
\* cook goes on preparing pizzas, each deliverer goes on delivering them.
NobodyStarves ==
    /\ \A c \in Cooks : []<>(pc[c] = "prepare")
    /\ \A d \in Deliverers : []<>(pc[d] = "deliver")
===============================================================================
