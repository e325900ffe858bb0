--------------------------- MODULE PizzeriaProofs ---------------------------
(***************************************************************************)
(* Proofs about Pizzeria for any number of cooks and deliverers and any    *)
(* size of the arrays: its invariants, what add_to_arr and remove_from_arr *)
(* do to the contents of a circular array, and that the pizzeria           *)
(* implements PizzaLine: each step of a cook or a deliverer is a step of   *)
(* the line or leaves the line unchanged.                                  *)
(* The last part is about Launch, for any number of pizzerias and workers: *)
(* how the processes and the objects they share come into being and end.   *)
(***************************************************************************)
EXTENDS Pizzeria, StartAndEnd, FiniteSetTheorems, SequenceTheorems, TLAPS

-------------------------------------------------------------------------------
(* Counting processes *)

\* There are finitely many processes, so each count of them is a number.
LEMMA CountIsNat == ASSUME NEW S PROVE Count(S) \in Nat
<1>1. IsFiniteSet(Workers)
  BY WorkersAssumption, FS_Union DEF Workers
<1>2. IsFiniteSet({p \in Workers : pc[p] \in S})
  BY <1>1, FS_Subset, {p \in Workers : pc[p] \in S} \subseteq Workers
<1> QED
  BY <1>2, FS_CardinalityType DEF Count

\* The effect of one process's step on any count: it leaves the places of
\* here and joins those of there.
LEMMA GotoCounts ==
    ASSUME pc \in [Workers -> CookSteps \cup DelivererSteps],
           NEW p \in Workers, NEW here, NEW there, Goto(p, here, there), NEW S
    PROVE  Cardinality({q \in Workers : pc'[q] \in S}) =
             Count(S) + (IF there \in S THEN 1 ELSE 0)
                      - (IF here \in S THEN 1 ELSE 0)
<1> DEFINE Now == {q \in Workers : pc[q] \in S}
           Then == {q \in Workers : pc'[q] \in S}
<1>1. IsFiniteSet(Workers)
  BY WorkersAssumption, FS_Union DEF Workers
<1>2. IsFiniteSet(Now) /\ IsFiniteSet(Then)
  BY <1>1, FS_Subset, Now \subseteq Workers, Then \subseteq Workers
<1>3. pc[p] = here /\ pc'[p] = there /\ \A q \in Workers \ {p} : pc'[q] = pc[q]
  BY DEF Goto
<1>4. Cardinality(Now) \in Nat /\ Cardinality(Then) \in Nat
  BY <1>2, FS_CardinalityType
<1> SUFFICES Cardinality(Then) = Cardinality(Now)
                 + (IF there \in S THEN 1 ELSE 0) - (IF here \in S THEN 1 ELSE 0)
  BY DEF Count
<1> HIDE DEF Now, Then
<1>5. CASE here \in S <=> there \in S
  <2>1. Now = Then
    BY <1>3, <1>5 DEF Now, Then
  <2>2. (IF there \in S THEN 1 ELSE 0) - (IF here \in S THEN 1 ELSE 0) = 0
    BY <1>5
  <2> QED
    BY <2>1, <2>2, <1>4
<1>6. CASE here \notin S /\ there \in S
  <2>1. Then = Now \cup {p} /\ p \notin Now
    BY <1>3, <1>6 DEF Now, Then
  <2> QED
    BY <2>1, <1>2, <1>4, <1>6, FS_AddElement
<1>7. CASE here \in S /\ there \notin S
  <2>1. Now = Then \cup {p} /\ p \notin Then
    BY <1>3, <1>7 DEF Now, Then
  <2> QED
    BY <2>1, <1>2, <1>4, <1>7, FS_AddElement
<1> QED
  BY <1>5, <1>6, <1>7

-------------------------------------------------------------------------------
(* The inductive invariant *)

\* Each of the two locks is either free or held by one process. Every
\* conjunct of Inv relates a semaphore to the number of processes that are
\* between taking it and giving it back.
LocksHeld ==
    /\ sem["OVEN"] + Count(OwnsOven) = 1
    /\ sem["TABLE"] + Count(OwnsTable) = 1

Inv == TypeOK /\ LocksHeld /\ OvenAccounting /\ TableAccounting

\* by(S): by how much a step from here to there changes Count(S).
by(S, here, there) ==
    (IF there \in S THEN 1 ELSE 0) - (IF here \in S THEN 1 ELSE 0)

\* A step changes each count by what its two places contribute.
LEMMA StepCounts ==
    ASSUME TypeOK, NEW p \in Workers, NEW here, NEW there,
           Goto(p, here, there)
    PROVE  /\ Count(OwnsOven)' = Count(OwnsOven) + by(OwnsOven, here, there)
           /\ Count(OwnsTable)' = Count(OwnsTable) + by(OwnsTable, here, there)
           /\ Count(Baking)' = Count(Baking) + by(Baking, here, there)
           /\ Count(HoldsOvenPlace)' =
                Count(HoldsOvenPlace) + by(HoldsOvenPlace, here, there)
           /\ Count(HoldsTablePlace)' =
                Count(HoldsTablePlace) + by(HoldsTablePlace, here, there)
           /\ Count(HoldsTablePizza)' =
                Count(HoldsTablePizza) + by(HoldsTablePizza, here, there)
<1>1. ASSUME NEW S
      PROVE  Cardinality({q \in Workers : pc'[q] \in S})
               = Count(S) + by(S, here, there)
  <2>1. Cardinality({q \in Workers : pc'[q] \in S}) =
             Count(S) + (IF there \in S THEN 1 ELSE 0)
                      - (IF here \in S THEN 1 ELSE 0)
    BY GotoCounts DEF TypeOK
  <2> QED
    BY <2>1, CountIsNat DEF by
<1> QED
  BY <1>1 DEF Count, OwnsOven, OwnsTable, Baking, HoldsOvenPlace,
              HoldsTablePlace, HoldsTablePizza

\* Indices stay in the array.
LEMMA ModInPlaces == ASSUME NEW i \in Int PROVE i % ArrSize \in Places
BY ArrSizeAssumption DEF Places

\* The halves of add_to_arr and remove_from_arr keep an array's type.
LEMMA ArrOpsType ==
    ASSUME NEW a \in Arrs
    PROVE  /\ \A x \in Pizzas \cup {NoPizza} : StoreLast(a, x) \in Arrs
           /\ AdvanceLast(a) \in Arrs
           /\ AdvanceFirst(a) \in Arrs
           /\ FirstOf(a) \in Pizzas \cup {NoPizza}
<1>1. a.last + 1 \in Int /\ a.first + 1 \in Int
  BY DEF Arrs, Places
<1>2. (a.last + 1) % ArrSize \in Places /\ (a.first + 1) % ArrSize \in Places
  BY <1>1, ModInPlaces
<1>3. ASSUME NEW x \in Pizzas \cup {NoPizza} PROVE StoreLast(a, x) \in Arrs
  <2>1. [a.array EXCEPT ![a.last] = x] \in [Places -> Pizzas \cup {NoPizza}]
    BY DEF Arrs
  <2> QED
    BY <2>1 DEF Arrs, StoreLast
<1>4. AdvanceLast(a) \in Arrs
  <2> DEFINE i == (a.last + 1) % ArrSize
             m == a.count + 1
  <2>1. i \in Places /\ m \in Int
    BY <1>2 DEF Arrs
  <2>2. AdvanceLast(a) = [a EXCEPT !.last = i, !.count = m]
    BY DEF AdvanceLast
  <2> HIDE DEF i, m
  <2>3. [a EXCEPT !.last = i, !.count = m] \in Arrs
    BY <2>1 DEF Arrs
  <2> QED
    BY <2>2, <2>3
<1>5. AdvanceFirst(a) \in Arrs
  <2> DEFINE i == (a.first + 1) % ArrSize
             m == a.count - 1
  <2>1. i \in Places /\ m \in Int
    BY <1>2 DEF Arrs
  <2>2. AdvanceFirst(a) = [a EXCEPT !.first = i, !.count = m]
    BY DEF AdvanceFirst
  <2> HIDE DEF i, m
  <2>3. [a EXCEPT !.first = i, !.count = m] \in Arrs
    BY <2>1 DEF Arrs
  <2> QED
    BY <2>2, <2>3
<1>6. FirstOf(a) \in Pizzas \cup {NoPizza}
  BY DEF Arrs, FirstOf
<1> QED
  BY <1>3, <1>4, <1>5, <1>6

\* Every semaphore operation keeps the types, whichever process does it.
LEMMA DownUpType ==
    ASSUME TypeOK, NEW p \in Workers, NEW s \in Semaphores, NEW here,
           NEW there \in CookSteps \cup DelivererSteps,
           p \in Cooks => there \in CookSteps,
           p \in Deliverers => there \in DelivererSteps,
           Down(p, here, s, there) \/ Up(p, here, s, there)
    PROVE  TypeOK'
BY DEF TypeOK, Down, Up, Goto, sem_decrement, sem_increment, Workers

\* A cook's step keeps the types.
LEMMA CookType == ASSUME TypeOK, NEW c \in Cooks, Cook(c) PROVE TypeOK'
<1> USE ArrOpsType, WorkersAssumption DEF TypeOK, Goto, CookSteps, Workers
<1>1. CASE Prepare(c)
  BY <1>1 DEF Prepare
<1>2. CASE PutOven(c)
  BY <1>2 DEF PutOven
<1>3. CASE PutOvenEnd(c)
  BY <1>3 DEF PutOvenEnd
<1>4. CASE TakeOven(c)
  BY <1>4 DEF TakeOven
<1>5. CASE TakeOvenEnd(c)
  BY <1>5 DEF TakeOvenEnd
<1>6. CASE PutTable(c)
  BY <1>6 DEF PutTable
<1>7. CASE PutTableEnd(c)
  BY <1>7 DEF PutTableEnd
<1>8. CASE \/ ReserveOven(c) \/ LockOven(c) \/ UnlockOven(c) \/ Bake(c)
          \/ ReunlockOven(c) \/ ReleaseOven(c) \/ ReserveTable(c) \/ LockTable(c)
          \/ Announce(c) \/ UnlockTable(c)
  BY <1>8, DownUpType
     DEF Semaphores, ReserveOven, LockOven, UnlockOven, Bake, ReunlockOven,
         ReleaseOven, ReserveTable, LockTable, Announce, UnlockTable
<1> QED
  BY <1>1, <1>2, <1>3, <1>4, <1>5, <1>6, <1>7, <1>8 DEF Cook

\* A deliverer's step keeps the types.
LEMMA DelivererType ==
    ASSUME TypeOK, NEW d \in Deliverers, Deliverer(d) PROVE TypeOK'
<1> USE ArrOpsType, WorkersAssumption DEF TypeOK, Goto, DelivererSteps, Workers
<1>1. CASE TakeTable(d)
  BY <1>1 DEF TakeTable
<1>2. CASE TakeTableEnd(d)
  BY <1>2 DEF TakeTableEnd
<1>3. CASE Deliver(d)
  BY <1>3 DEF Deliver
<1>4. CASE Await(d) \/ LockTake(d) \/ Vacate(d) \/ UnlockTake(d)
  BY <1>4, DownUpType DEF Semaphores, Await, LockTake, Vacate, UnlockTake
<1> QED
  BY <1>1, <1>2, <1>3, <1>4 DEF Deliverer

\* What the steps of a cook do to the semaphores and the counts balances.
LEMMA CookCounts ==
    ASSUME Inv, NEW c \in Cooks, Cook(c)
    PROVE  LocksHeld' /\ OvenAccounting' /\ TableAccounting'
<1> USE DEF LocksHeld, OvenAccounting, TableAccounting
<1>types. /\ TypeOK /\ c \in Workers
         /\ sem \in [Semaphores -> Nat]
         /\ oven.count \in Int /\ table.count \in Int
         /\ Count(OwnsOven) \in Nat /\ Count(OwnsTable) \in Nat
         /\ Count(Baking) \in Nat /\ Count(HoldsOvenPlace) \in Nat
         /\ Count(HoldsTablePlace) \in Nat /\ Count(HoldsTablePizza) \in Nat
  BY CountIsNat DEF Inv, TypeOK, Arrs, Workers
<1>1. CASE Prepare(c)
  <2>1. Goto(c, "prepare", "reserveOven")
    BY <1>1 DEF Prepare
  <2>2. UNCHANGED <<sem, oven, table>>
    BY <1>1 DEF Prepare
  <2>3. /\ UNCHANGED <<Count(OwnsOven), Count(OwnsTable), Count(Baking),
                       Count(HoldsOvenPlace), Count(HoldsTablePlace), Count(HoldsTablePizza)>>
    BY <1>types, <2>1, StepCounts
    DEF by, OwnsOven, OwnsTable, Baking, HoldsOvenPlace, HoldsTablePlace,
        HoldsTablePizza
  <2> QED
    BY <1>types, <2>2, <2>3 DEF Inv, Semaphores
<1>2. CASE ReserveOven(c)
  <2>1. Goto(c, "reserveOven", "lockOven")
    BY <1>2 DEF ReserveOven, Down
  <2>2. sem' = [sem EXCEPT !["FULL_OVEN"] = @ - 1] /\ UNCHANGED <<oven, table>>
    BY <1>2 DEF ReserveOven, Down, sem_decrement
  <2>3. /\ Count(HoldsOvenPlace)' = Count(HoldsOvenPlace) + 1
        /\ UNCHANGED <<Count(OwnsOven), Count(OwnsTable), Count(Baking),
                       Count(HoldsTablePlace), Count(HoldsTablePizza)>>
    BY <1>types, <2>1, StepCounts
    DEF by, OwnsOven, OwnsTable, Baking, HoldsOvenPlace, HoldsTablePlace,
        HoldsTablePizza
  <2> QED
    BY <1>types, <2>2, <2>3 DEF Inv, Semaphores
<1>3. CASE LockOven(c)
  <2>1. Goto(c, "lockOven", "putOven")
    BY <1>3 DEF LockOven, Down
  <2>2. sem' = [sem EXCEPT !["OVEN"] = @ - 1] /\ UNCHANGED <<oven, table>>
    BY <1>3 DEF LockOven, Down, sem_decrement
  <2>3. /\ Count(OwnsOven)' = Count(OwnsOven) + 1
        /\ UNCHANGED <<Count(OwnsTable), Count(Baking), Count(HoldsOvenPlace),
                       Count(HoldsTablePlace), Count(HoldsTablePizza)>>
    BY <1>types, <2>1, StepCounts
    DEF by, OwnsOven, OwnsTable, Baking, HoldsOvenPlace, HoldsTablePlace,
        HoldsTablePizza
  <2> QED
    BY <1>types, <2>2, <2>3 DEF Inv, Semaphores
<1>4. CASE PutOven(c)
  <2>1. Goto(c, "putOven", "putOvenEnd")
    BY <1>4 DEF PutOven
  <2>2. oven'.count = oven.count /\ UNCHANGED <<sem, table>>
    BY <1>4, <1>types DEF PutOven, StoreLast, TypeOK, Arrs
  <2>3. /\ UNCHANGED <<Count(OwnsOven), Count(OwnsTable), Count(Baking),
                       Count(HoldsOvenPlace), Count(HoldsTablePlace), Count(HoldsTablePizza)>>
    BY <1>types, <2>1, StepCounts
    DEF by, OwnsOven, OwnsTable, Baking, HoldsOvenPlace, HoldsTablePlace,
        HoldsTablePizza
  <2> QED
    BY <1>types, <2>2, <2>3 DEF Inv, Semaphores
<1>5. CASE PutOvenEnd(c)
  <2>1. Goto(c, "putOvenEnd", "unlockOven")
    BY <1>5 DEF PutOvenEnd
  <2>2. oven'.count = oven.count + 1 /\ UNCHANGED <<sem, table>>
    BY <1>5, <1>types DEF PutOvenEnd, AdvanceLast, TypeOK, Arrs
  <2>3. /\ Count(Baking)' = Count(Baking) + 1
        /\ Count(HoldsOvenPlace)' = Count(HoldsOvenPlace) - 1
        /\ UNCHANGED <<Count(OwnsOven), Count(OwnsTable),
                       Count(HoldsTablePlace), Count(HoldsTablePizza)>>
    BY <1>types, <2>1, StepCounts
    DEF by, OwnsOven, OwnsTable, Baking, HoldsOvenPlace, HoldsTablePlace,
        HoldsTablePizza
  <2> QED
    BY <1>types, <2>2, <2>3 DEF Inv, Semaphores
<1>6. CASE UnlockOven(c)
  <2>1. Goto(c, "unlockOven", "bake")
    BY <1>6 DEF UnlockOven, Up
  <2>2. sem' = [sem EXCEPT !["OVEN"] = @ + 1] /\ UNCHANGED <<oven, table>>
    BY <1>6 DEF UnlockOven, Up, sem_increment
  <2>3. /\ Count(OwnsOven)' = Count(OwnsOven) - 1
        /\ UNCHANGED <<Count(OwnsTable), Count(Baking), Count(HoldsOvenPlace),
                       Count(HoldsTablePlace), Count(HoldsTablePizza)>>
    BY <1>types, <2>1, StepCounts
    DEF by, OwnsOven, OwnsTable, Baking, HoldsOvenPlace, HoldsTablePlace,
        HoldsTablePizza
  <2> QED
    BY <1>types, <2>2, <2>3 DEF Inv, Semaphores
<1>7. CASE Bake(c)
  <2>1. Goto(c, "bake", "takeOven")
    BY <1>7 DEF Bake, Down
  <2>2. sem' = [sem EXCEPT !["OVEN"] = @ - 1] /\ UNCHANGED <<oven, table>>
    BY <1>7 DEF Bake, Down, sem_decrement
  <2>3. /\ Count(OwnsOven)' = Count(OwnsOven) + 1
        /\ UNCHANGED <<Count(OwnsTable), Count(Baking), Count(HoldsOvenPlace),
                       Count(HoldsTablePlace), Count(HoldsTablePizza)>>
    BY <1>types, <2>1, StepCounts
    DEF by, OwnsOven, OwnsTable, Baking, HoldsOvenPlace, HoldsTablePlace,
        HoldsTablePizza
  <2> QED
    BY <1>types, <2>2, <2>3 DEF Inv, Semaphores
<1>8. CASE TakeOven(c)
  <2>1. Goto(c, "takeOven", "takeOvenEnd")
    BY <1>8 DEF TakeOven
  <2>2. UNCHANGED <<sem, oven, table>>
    BY <1>8 DEF TakeOven
  <2>3. /\ UNCHANGED <<Count(OwnsOven), Count(OwnsTable), Count(Baking),
                       Count(HoldsOvenPlace), Count(HoldsTablePlace), Count(HoldsTablePizza)>>
    BY <1>types, <2>1, StepCounts
    DEF by, OwnsOven, OwnsTable, Baking, HoldsOvenPlace, HoldsTablePlace,
        HoldsTablePizza
  <2> QED
    BY <1>types, <2>2, <2>3 DEF Inv, Semaphores
<1>9. CASE TakeOvenEnd(c)
  <2>1. Goto(c, "takeOvenEnd", "reunlockOven")
    BY <1>9 DEF TakeOvenEnd
  <2>2. oven'.count = oven.count - 1 /\ UNCHANGED <<sem, table>>
    BY <1>9, <1>types DEF TakeOvenEnd, AdvanceFirst, TypeOK, Arrs
  <2>3. /\ Count(Baking)' = Count(Baking) - 1
        /\ Count(HoldsOvenPlace)' = Count(HoldsOvenPlace) + 1
        /\ UNCHANGED <<Count(OwnsOven), Count(OwnsTable),
                       Count(HoldsTablePlace), Count(HoldsTablePizza)>>
    BY <1>types, <2>1, StepCounts
    DEF by, OwnsOven, OwnsTable, Baking, HoldsOvenPlace, HoldsTablePlace,
        HoldsTablePizza
  <2> QED
    BY <1>types, <2>2, <2>3 DEF Inv, Semaphores
<1>10. CASE ReunlockOven(c)
  <2>1. Goto(c, "reunlockOven", "releaseOven")
    BY <1>10 DEF ReunlockOven, Up
  <2>2. sem' = [sem EXCEPT !["OVEN"] = @ + 1] /\ UNCHANGED <<oven, table>>
    BY <1>10 DEF ReunlockOven, Up, sem_increment
  <2>3. /\ Count(OwnsOven)' = Count(OwnsOven) - 1
        /\ UNCHANGED <<Count(OwnsTable), Count(Baking), Count(HoldsOvenPlace),
                       Count(HoldsTablePlace), Count(HoldsTablePizza)>>
    BY <1>types, <2>1, StepCounts
    DEF by, OwnsOven, OwnsTable, Baking, HoldsOvenPlace, HoldsTablePlace,
        HoldsTablePizza
  <2> QED
    BY <1>types, <2>2, <2>3 DEF Inv, Semaphores
<1>11. CASE ReleaseOven(c)
  <2>1. Goto(c, "releaseOven", "reserveTable")
    BY <1>11 DEF ReleaseOven, Up
  <2>2. sem' = [sem EXCEPT !["FULL_OVEN"] = @ + 1] /\ UNCHANGED <<oven, table>>
    BY <1>11 DEF ReleaseOven, Up, sem_increment
  <2>3. /\ Count(HoldsOvenPlace)' = Count(HoldsOvenPlace) - 1
        /\ UNCHANGED <<Count(OwnsOven), Count(OwnsTable), Count(Baking),
                       Count(HoldsTablePlace), Count(HoldsTablePizza)>>
    BY <1>types, <2>1, StepCounts
    DEF by, OwnsOven, OwnsTable, Baking, HoldsOvenPlace, HoldsTablePlace,
        HoldsTablePizza
  <2> QED
    BY <1>types, <2>2, <2>3 DEF Inv, Semaphores
<1>12. CASE ReserveTable(c)
  <2>1. Goto(c, "reserveTable", "lockTable")
    BY <1>12 DEF ReserveTable, Down
  <2>2. sem' = [sem EXCEPT !["FULL_TABLE"] = @ - 1] /\ UNCHANGED <<oven, table>>
    BY <1>12 DEF ReserveTable, Down, sem_decrement
  <2>3. /\ Count(HoldsTablePlace)' = Count(HoldsTablePlace) + 1
        /\ UNCHANGED <<Count(OwnsOven), Count(OwnsTable), Count(Baking),
                       Count(HoldsOvenPlace), Count(HoldsTablePizza)>>
    BY <1>types, <2>1, StepCounts
    DEF by, OwnsOven, OwnsTable, Baking, HoldsOvenPlace, HoldsTablePlace,
        HoldsTablePizza
  <2> QED
    BY <1>types, <2>2, <2>3 DEF Inv, Semaphores
<1>13. CASE LockTable(c)
  <2>1. Goto(c, "lockTable", "putTable")
    BY <1>13 DEF LockTable, Down
  <2>2. sem' = [sem EXCEPT !["TABLE"] = @ - 1] /\ UNCHANGED <<oven, table>>
    BY <1>13 DEF LockTable, Down, sem_decrement
  <2>3. /\ Count(OwnsTable)' = Count(OwnsTable) + 1
        /\ UNCHANGED <<Count(OwnsOven), Count(Baking), Count(HoldsOvenPlace),
                       Count(HoldsTablePlace), Count(HoldsTablePizza)>>
    BY <1>types, <2>1, StepCounts
    DEF by, OwnsOven, OwnsTable, Baking, HoldsOvenPlace, HoldsTablePlace,
        HoldsTablePizza
  <2> QED
    BY <1>types, <2>2, <2>3 DEF Inv, Semaphores
<1>14. CASE PutTable(c)
  <2>1. Goto(c, "putTable", "putTableEnd")
    BY <1>14 DEF PutTable
  <2>2. table'.count = table.count /\ UNCHANGED <<sem, oven>>
    BY <1>14, <1>types DEF PutTable, StoreLast, TypeOK, Arrs
  <2>3. /\ UNCHANGED <<Count(OwnsOven), Count(OwnsTable), Count(Baking),
                       Count(HoldsOvenPlace), Count(HoldsTablePlace), Count(HoldsTablePizza)>>
    BY <1>types, <2>1, StepCounts
    DEF by, OwnsOven, OwnsTable, Baking, HoldsOvenPlace, HoldsTablePlace,
        HoldsTablePizza
  <2> QED
    BY <1>types, <2>2, <2>3 DEF Inv, Semaphores
<1>15. CASE PutTableEnd(c)
  <2>1. Goto(c, "putTableEnd", "announce")
    BY <1>15 DEF PutTableEnd
  <2>2. table'.count = table.count + 1 /\ UNCHANGED <<sem, oven>>
    BY <1>15, <1>types DEF PutTableEnd, AdvanceLast, TypeOK, Arrs
  <2>3. /\ Count(HoldsTablePlace)' = Count(HoldsTablePlace) - 1
        /\ Count(HoldsTablePizza)' = Count(HoldsTablePizza) + 1
        /\ UNCHANGED <<Count(OwnsOven), Count(OwnsTable),
                       Count(Baking), Count(HoldsOvenPlace)>>
    BY <1>types, <2>1, StepCounts
    DEF by, OwnsOven, OwnsTable, Baking, HoldsOvenPlace, HoldsTablePlace,
        HoldsTablePizza
  <2> QED
    BY <1>types, <2>2, <2>3 DEF Inv, Semaphores
<1>16. CASE Announce(c)
  <2>1. Goto(c, "announce", "unlockTable")
    BY <1>16 DEF Announce, Up
  <2>2. sem' = [sem EXCEPT !["EMPTY_TABLE"] = @ + 1] /\ UNCHANGED <<oven, table>>
    BY <1>16 DEF Announce, Up, sem_increment
  <2>3. /\ Count(HoldsTablePizza)' = Count(HoldsTablePizza) - 1
        /\ UNCHANGED <<Count(OwnsOven), Count(OwnsTable), Count(Baking),
                       Count(HoldsOvenPlace), Count(HoldsTablePlace)>>
    BY <1>types, <2>1, StepCounts
    DEF by, OwnsOven, OwnsTable, Baking, HoldsOvenPlace, HoldsTablePlace,
        HoldsTablePizza
  <2> QED
    BY <1>types, <2>2, <2>3 DEF Inv, Semaphores
<1>17. CASE UnlockTable(c)
  <2>1. Goto(c, "unlockTable", "prepare")
    BY <1>17 DEF UnlockTable, Up
  <2>2. sem' = [sem EXCEPT !["TABLE"] = @ + 1] /\ UNCHANGED <<oven, table>>
    BY <1>17 DEF UnlockTable, Up, sem_increment
  <2>3. /\ Count(OwnsTable)' = Count(OwnsTable) - 1
        /\ UNCHANGED <<Count(OwnsOven), Count(Baking), Count(HoldsOvenPlace),
                       Count(HoldsTablePlace), Count(HoldsTablePizza)>>
    BY <1>types, <2>1, StepCounts
    DEF by, OwnsOven, OwnsTable, Baking, HoldsOvenPlace, HoldsTablePlace,
        HoldsTablePizza
  <2> QED
    BY <1>types, <2>2, <2>3 DEF Inv, Semaphores
<1> QED
  BY <1>1, <1>2, <1>3, <1>4, <1>5, <1>6, <1>7, <1>8, <1>9,
     <1>10, <1>11, <1>12, <1>13, <1>14, <1>15, <1>16, <1>17 DEF Cook

\* So does what the steps of a deliverer do.
LEMMA DelivererCounts ==
    ASSUME Inv, NEW d \in Deliverers, Deliverer(d)
    PROVE  LocksHeld' /\ OvenAccounting' /\ TableAccounting'
<1> USE DEF LocksHeld, OvenAccounting, TableAccounting
<1>types. /\ TypeOK /\ d \in Workers
         /\ sem \in [Semaphores -> Nat]
         /\ oven.count \in Int /\ table.count \in Int
         /\ Count(OwnsOven) \in Nat /\ Count(OwnsTable) \in Nat
         /\ Count(Baking) \in Nat /\ Count(HoldsOvenPlace) \in Nat
         /\ Count(HoldsTablePlace) \in Nat /\ Count(HoldsTablePizza) \in Nat
  BY CountIsNat DEF Inv, TypeOK, Arrs, Workers
<1>1. CASE Await(d)
  <2>1. Goto(d, "await", "lockTake")
    BY <1>1 DEF Await, Down
  <2>2. sem' = [sem EXCEPT !["EMPTY_TABLE"] = @ - 1] /\ UNCHANGED <<oven, table>>
    BY <1>1 DEF Await, Down, sem_decrement
  <2>3. /\ Count(HoldsTablePizza)' = Count(HoldsTablePizza) + 1
        /\ UNCHANGED <<Count(OwnsOven), Count(OwnsTable), Count(Baking),
                       Count(HoldsOvenPlace), Count(HoldsTablePlace)>>
    BY <1>types, <2>1, StepCounts
    DEF by, OwnsOven, OwnsTable, Baking, HoldsOvenPlace, HoldsTablePlace,
        HoldsTablePizza
  <2> QED
    BY <1>types, <2>2, <2>3 DEF Inv, Semaphores
<1>2. CASE LockTake(d)
  <2>1. Goto(d, "lockTake", "takeTable")
    BY <1>2 DEF LockTake, Down
  <2>2. sem' = [sem EXCEPT !["TABLE"] = @ - 1] /\ UNCHANGED <<oven, table>>
    BY <1>2 DEF LockTake, Down, sem_decrement
  <2>3. /\ Count(OwnsTable)' = Count(OwnsTable) + 1
        /\ UNCHANGED <<Count(OwnsOven), Count(Baking), Count(HoldsOvenPlace),
                       Count(HoldsTablePlace), Count(HoldsTablePizza)>>
    BY <1>types, <2>1, StepCounts
    DEF by, OwnsOven, OwnsTable, Baking, HoldsOvenPlace, HoldsTablePlace,
        HoldsTablePizza
  <2> QED
    BY <1>types, <2>2, <2>3 DEF Inv, Semaphores
<1>3. CASE TakeTable(d)
  <2>1. Goto(d, "takeTable", "takeTableEnd")
    BY <1>3 DEF TakeTable
  <2>2. UNCHANGED <<sem, oven, table>>
    BY <1>3 DEF TakeTable
  <2>3. /\ UNCHANGED <<Count(OwnsOven), Count(OwnsTable), Count(Baking),
                       Count(HoldsOvenPlace), Count(HoldsTablePlace), Count(HoldsTablePizza)>>
    BY <1>types, <2>1, StepCounts
    DEF by, OwnsOven, OwnsTable, Baking, HoldsOvenPlace, HoldsTablePlace,
        HoldsTablePizza
  <2> QED
    BY <1>types, <2>2, <2>3 DEF Inv, Semaphores
<1>4. CASE TakeTableEnd(d)
  <2>1. Goto(d, "takeTableEnd", "vacate")
    BY <1>4 DEF TakeTableEnd
  <2>2. table'.count = table.count - 1 /\ UNCHANGED <<sem, oven>>
    BY <1>4, <1>types DEF TakeTableEnd, AdvanceFirst, TypeOK, Arrs
  <2>3. /\ Count(HoldsTablePlace)' = Count(HoldsTablePlace) + 1
        /\ Count(HoldsTablePizza)' = Count(HoldsTablePizza) - 1
        /\ UNCHANGED <<Count(OwnsOven), Count(OwnsTable),
                       Count(Baking), Count(HoldsOvenPlace)>>
    BY <1>types, <2>1, StepCounts
    DEF by, OwnsOven, OwnsTable, Baking, HoldsOvenPlace, HoldsTablePlace,
        HoldsTablePizza
  <2> QED
    BY <1>types, <2>2, <2>3 DEF Inv, Semaphores
<1>5. CASE Vacate(d)
  <2>1. Goto(d, "vacate", "unlockTake")
    BY <1>5 DEF Vacate, Up
  <2>2. sem' = [sem EXCEPT !["FULL_TABLE"] = @ + 1] /\ UNCHANGED <<oven, table>>
    BY <1>5 DEF Vacate, Up, sem_increment
  <2>3. /\ Count(HoldsTablePlace)' = Count(HoldsTablePlace) - 1
        /\ UNCHANGED <<Count(OwnsOven), Count(OwnsTable), Count(Baking),
                       Count(HoldsOvenPlace), Count(HoldsTablePizza)>>
    BY <1>types, <2>1, StepCounts
    DEF by, OwnsOven, OwnsTable, Baking, HoldsOvenPlace, HoldsTablePlace,
        HoldsTablePizza
  <2> QED
    BY <1>types, <2>2, <2>3 DEF Inv, Semaphores
<1>6. CASE UnlockTake(d)
  <2>1. Goto(d, "unlockTake", "deliver")
    BY <1>6 DEF UnlockTake, Up
  <2>2. sem' = [sem EXCEPT !["TABLE"] = @ + 1] /\ UNCHANGED <<oven, table>>
    BY <1>6 DEF UnlockTake, Up, sem_increment
  <2>3. /\ Count(OwnsTable)' = Count(OwnsTable) - 1
        /\ UNCHANGED <<Count(OwnsOven), Count(Baking), Count(HoldsOvenPlace),
                       Count(HoldsTablePlace), Count(HoldsTablePizza)>>
    BY <1>types, <2>1, StepCounts
    DEF by, OwnsOven, OwnsTable, Baking, HoldsOvenPlace, HoldsTablePlace,
        HoldsTablePizza
  <2> QED
    BY <1>types, <2>2, <2>3 DEF Inv, Semaphores
<1>7. CASE Deliver(d)
  <2>1. Goto(d, "deliver", "await")
    BY <1>7 DEF Deliver
  <2>2. UNCHANGED <<sem, oven, table>>
    BY <1>7 DEF Deliver
  <2>3. /\ UNCHANGED <<Count(OwnsOven), Count(OwnsTable), Count(Baking),
                       Count(HoldsOvenPlace), Count(HoldsTablePlace), Count(HoldsTablePizza)>>
    BY <1>types, <2>1, StepCounts
    DEF by, OwnsOven, OwnsTable, Baking, HoldsOvenPlace, HoldsTablePlace,
        HoldsTablePizza
  <2> QED
    BY <1>types, <2>2, <2>3 DEF Inv, Semaphores
<1> QED
  BY <1>1, <1>2, <1>3, <1>4, <1>5, <1>6, <1>7 DEF Deliverer

\* The invariant holds when main has created the semaphores and arrays.
LEMMA InitInv == Init => Inv
<1> SUFFICES ASSUME Init PROVE Inv
  OBVIOUS
<1>1. TypeOK
  <2>1. ArrSize \in Nat /\ 0 \in Places
    BY ArrSizeAssumption DEF Places
  <2>2. EmptyArr \in Arrs
    BY <2>1 DEF EmptyArr, Arrs
  <2>3. sem \in [Semaphores -> Nat]
    BY <2>1 DEF Init, Semaphores
  <2> QED
    BY <2>2, <2>3, WorkersAssumption
    DEF Init, TypeOK, Workers, CookSteps, DelivererSteps
<1>2. ASSUME NEW S, "prepare" \notin S, "await" \notin S PROVE Count(S) = 0
  <2>1. {p \in Workers : pc[p] \in S} = {}
    BY <1>2 DEF Init
  <2> QED
    BY <2>1, FS_EmptySet DEF Count
<1>3. /\ Count(OwnsOven) = 0 /\ Count(OwnsTable) = 0
      /\ Count(Baking) = 0 /\ Count(HoldsOvenPlace) = 0
      /\ Count(HoldsTablePlace) = 0 /\ Count(HoldsTablePizza) = 0
  BY <1>2 DEF OwnsOven, OwnsTable, Baking, HoldsOvenPlace, HoldsTablePlace,
              HoldsTablePizza
<1> QED
  BY <1>1, <1>3, ArrSizeAssumption
  DEF Init, Inv, LocksHeld, OvenAccounting, TableAccounting, EmptyArr,
      Semaphores

\* The invariant is about the variables only.
LEMMA StutterInv == Inv /\ UNCHANGED vars => Inv'
BY DEF Inv, TypeOK, LocksHeld, OvenAccounting, TableAccounting, vars, Count

\* Every step keeps the invariant.
LEMMA NextInv == Inv /\ [Next]_vars => Inv'
<1> SUFFICES ASSUME Inv, [Next]_vars PROVE Inv'
  OBVIOUS
<1>1. ASSUME NEW c \in Cooks, Cook(c) PROVE Inv'
  BY <1>1, CookType, CookCounts DEF Inv
<1>2. ASSUME NEW d \in Deliverers, Deliverer(d) PROVE Inv'
  BY <1>2, DelivererType, DelivererCounts DEF Inv
<1> QED
  BY <1>1, <1>2, StutterInv DEF Next

\* The invariant of cook.c and deliverer.c: types, locks and the accounting
\* of both arrays hold in every reachable state.
THEOREM InvHolds == Spec => []Inv
BY InitInv, NextInv, PTL DEF Spec

-------------------------------------------------------------------------------
(* What the invariant shows *)

\* Every reachable state is well typed: semaphores never go below 0 and the
\* indices never leave the arrays, for any number of processes.
THEOREM TypeCorrect == Spec => []TypeOK
<1>1. Inv => TypeOK
  BY DEF Inv
<1> QED
  BY <1>1, InvHolds, PTL

\* The place and pizza counters are exact whatever the interleaving.
THEOREM Accounting == Spec => []PlacesAreCounted
<1>1. Inv => PlacesAreCounted
  BY DEF Inv, PlacesAreCounted
<1> QED
  BY <1>1, InvHolds, PTL

\* If a group of steps counts at most one process, two processes in it are
\* the same.
LEMMA AtMostOne ==
    ASSUME NEW S, Count(S) <= 1, NEW p \in Workers, NEW q \in Workers,
           pc[p] \in S, pc[q] \in S
    PROVE  p = q
<1> DEFINE A == {r \in Workers : pc[r] \in S}
<1>1. IsFiniteSet(A)
  <2>1. IsFiniteSet(Workers)
    BY WorkersAssumption, FS_Union DEF Workers
  <2> QED
    BY <2>1, FS_Subset, A \subseteq Workers
<1>2. SUFFICES ASSUME p # q PROVE FALSE
  OBVIOUS
<1>3. /\ IsFiniteSet(A \ {p})
      /\ Cardinality(A \ {p}) = Cardinality(A) - 1
  BY <1>1, FS_RemoveElement
<1>4. Cardinality((A \ {p}) \ {q}) = Cardinality(A \ {p}) - 1
  BY <1>2, <1>3, FS_RemoveElement
<1>5. Cardinality((A \ {p}) \ {q}) \in Nat /\ Cardinality(A) \in Nat
  BY <1>1, <1>3, FS_RemoveElement, FS_CardinalityType
<1> QED
  BY <1>3, <1>4, <1>5 DEF Count

\* The lock's semaphore and its owners make one, so there is at most one
\* owner.
LEMMA Alone == Inv => MutualExclusion
<1> SUFFICES ASSUME Inv PROVE MutualExclusion
  OBVIOUS
<1>1. sem["OVEN"] \in Nat /\ sem["TABLE"] \in Nat
  BY DEF Inv, TypeOK, Semaphores
<1>2. Count(OwnsOven) <= 1 /\ Count(OwnsTable) <= 1
  BY <1>1, CountIsNat DEF Inv, LocksHeld
<1> QED
  BY <1>2, AtMostOne DEF MutualExclusion

\* At most one process works on the oven, and at most one on the table.
THEOREM Mutex == Spec => []MutualExclusion
BY Alone, InvHolds, PTL

-------------------------------------------------------------------------------
(* The contents of an array *)

\* The last index is where the next pizza goes, and the array is not overfull.
Sound(a) ==
    /\ a \in Arrs
    /\ a.count \in 0 .. ArrSize
    /\ a.last = (a.first + a.count) % ArrSize

\* An index moves by at most ArrSize, so the remainder takes it back at once.
Wrap(i) == IF i < ArrSize THEN i ELSE i - ArrSize

\* The remainder of what an index can become in one addition.
LEMMA ModRange ==
    ASSUME NEW i \in 0 .. 2 * ArrSize - 1
    PROVE  i % ArrSize = Wrap(i)
<1>1. ArrSize \in Nat /\ ArrSize > 0
  BY ArrSizeAssumption
<1>2. CASE i < ArrSize
  BY <1>1, <1>2 DEF Wrap
<1>3. CASE i >= ArrSize
  BY <1>1, <1>3 DEF Wrap
<1> QED
  BY <1>1, <1>2, <1>3

\* The contents of an array are a sequence of count pizzas, whose head is
\* what first points to.
LEMMA ContentsType ==
    ASSUME NEW a, Sound(a)
    PROVE  /\ Contents(a) \in Seq(Pizzas \cup {NoPizza})
           /\ Len(Contents(a)) = a.count
           /\ a.count > 0 =>
                Contents(a) # <<>> /\ Head(Contents(a)) = FirstOf(a)
<1>1. ArrSize \in Nat /\ ArrSize > 0
  BY ArrSizeAssumption
<1>2. a.count \in Nat /\ a.count <= ArrSize /\ a.first \in 0 .. ArrSize - 1
      /\ a.array \in [0 .. ArrSize - 1 -> Pizzas \cup {NoPizza}]
  BY <1>1 DEF Sound, Arrs, Places
<1>3. ASSUME NEW i \in 1 .. a.count
      PROVE  (a.first + i - 1) % ArrSize \in 0 .. ArrSize - 1
  BY <1>1, <1>2
<1>4. Contents(a) \in Seq(Pizzas \cup {NoPizza}) /\ Len(Contents(a)) = a.count
  <2>1. Contents(a) \in [1 .. a.count -> Pizzas \cup {NoPizza}]
    <3>1. ASSUME NEW i \in 1 .. a.count
          PROVE  a.array[(a.first + i - 1) % ArrSize] \in Pizzas \cup {NoPizza}
      BY <1>2, <1>3
    <3> QED
      BY <3>1 DEF Contents
  <2>2. \A s : s \in [1 .. a.count -> Pizzas \cup {NoPizza}] =>
             s \in Seq(Pizzas \cup {NoPizza}) /\ Len(s) = a.count
    BY <1>2
  <2> QED
    BY <2>1, <2>2
<1>5. ASSUME a.count > 0
      PROVE  Contents(a) # <<>> /\ Head(Contents(a)) = FirstOf(a)
  <2>1. Contents(a)[1] = a.array[(a.first + 1 - 1) % ArrSize]
    BY <1>2, <1>5 DEF Contents
  <2>2. a.first + 1 - 1 = a.first /\ a.first \in 0 .. 2 * ArrSize - 1
    BY <1>1, <1>2
  <2>3. (a.first + 1 - 1) % ArrSize = a.first
    BY <1>1, <1>2, <2>2, ModRange DEF Wrap
  <2>4. Contents(a)[1] = FirstOf(a)
    BY <2>1, <2>3 DEF FirstOf
  <2> DEFINE s == Contents(a)
  <2> HIDE DEF s
  <2>5. s \in Seq(Pizzas \cup {NoPizza}) /\ Len(s) > 0
    BY <1>2, <1>4, <1>5 DEF s
  <2>6. s # <<>> /\ Head(s) = s[1]
    BY <2>5
  <2> QED
    BY <2>4, <2>6 DEF s
<1> QED
  BY <1>4, <1>5

\* The first half of add_to_arr writes to a place outside the contents, and
\* keeps the array sound.
LEMMA StoreKeepsContents ==
    ASSUME NEW a, Sound(a), a.count < ArrSize,
           NEW x \in Pizzas \cup {NoPizza}
    PROVE  /\ Contents(StoreLast(a, x)) = Contents(a)
           /\ Sound(StoreLast(a, x))
           /\ StoreLast(a, x).array[a.last] = x
           /\ StoreLast(a, x).last = a.last
           /\ StoreLast(a, x).count = a.count
<1> DEFINE b == StoreLast(a, x)
<1>1. ArrSize \in Nat /\ ArrSize > 0
  BY ArrSizeAssumption
<1>2. a.count \in Nat /\ a.first \in 0 .. ArrSize - 1 /\ a.last \in Places
  BY <1>1 DEF Sound, Arrs, Places
<1>3. /\ b.count = a.count /\ b.first = a.first /\ b.last = a.last
      /\ b.array = [a.array EXCEPT ![a.last] = x]
      /\ b \in Arrs
  <2>1. [a.array EXCEPT ![a.last] = x] \in [Places -> Pizzas \cup {NoPizza}]
    BY DEF Sound, Arrs
  <2> QED
    BY <2>1 DEF Sound, Arrs, StoreLast
<1>4. ASSUME NEW i \in 1 .. a.count
      PROVE  (a.first + i - 1) % ArrSize # a.last
  <2>1. /\ a.first + i - 1 \in 0 .. 2 * ArrSize - 1
        /\ a.first + a.count \in 0 .. 2 * ArrSize - 1
    BY <1>1, <1>2
  <2>2. (a.first + i - 1) % ArrSize = Wrap(a.first + i - 1)
    BY <2>1, ModRange
  <2>3. a.last = Wrap(a.first + a.count)
    BY <2>1, ModRange DEF Sound
  <2> QED
    BY <1>1, <1>2, <2>2, <2>3 DEF Wrap
<1>5. ASSUME NEW i \in 1 .. a.count
      PROVE  b.array[(b.first + i - 1) % ArrSize]
               = a.array[(a.first + i - 1) % ArrSize]
  <2>1. a.array \in [Places -> Pizzas \cup {NoPizza}]
    BY DEF Sound, Arrs
  <2>2. (a.first + i - 1) % ArrSize \in Places
    BY <1>1, <1>2 DEF Places
  <2> QED
    BY <1>3, <1>4, <2>1, <2>2
<1>6. Contents(b) = Contents(a)
  BY <1>3, <1>5 DEF Contents
<1>7. b.array[a.last] = x
  BY <1>2, <1>3 DEF Sound, Arrs
<1>8. Sound(b)
  BY <1>3 DEF Sound
<1> QED
  BY <1>3, <1>6, <1>7, <1>8

\* The second half of add_to_arr appends what the first half wrote.
LEMMA AdvanceAppends ==
    ASSUME NEW a, Sound(a), a.count < ArrSize
    PROVE  /\ Contents(AdvanceLast(a)) = Append(Contents(a), a.array[a.last])
           /\ Sound(AdvanceLast(a))
<1> DEFINE b == AdvanceLast(a)
<1>1. ArrSize \in Nat /\ ArrSize > 0
  BY ArrSizeAssumption
<1>2. /\ a.count \in Nat /\ a.first \in 0 .. ArrSize - 1
      /\ a.last \in 0 .. ArrSize - 1
  BY <1>1 DEF Sound, Arrs, Places
<1>3. /\ b.count = a.count + 1 /\ b.first = a.first /\ b.array = a.array
      /\ b.last = (a.last + 1) % ArrSize
  BY DEF Sound, Arrs, AdvanceLast
<1>4. (a.last + 1) % ArrSize \in Places
  BY <1>1, <1>2 DEF Places
<1>5. b \in Arrs
  <2> DEFINE i == (a.last + 1) % ArrSize
             m == a.count + 1
  <2>1. i \in Places /\ m \in Int
    BY <1>2, <1>4
  <2>2. b = [a EXCEPT !.last = i, !.count = m]
    BY DEF AdvanceLast
  <2> HIDE DEF i, m
  <2>3. [a EXCEPT !.last = i, !.count = m] \in Arrs
    BY <2>1 DEF Sound, Arrs
  <2> QED
    BY <2>2, <2>3
<1>6. b.last = (b.first + b.count) % ArrSize
  <2>1. /\ a.first + a.count \in 0 .. 2 * ArrSize - 1
        /\ a.first + (a.count + 1) \in 0 .. 2 * ArrSize - 1
        /\ a.last + 1 \in 0 .. 2 * ArrSize - 1
    BY <1>1, <1>2
  <2>2. a.last = Wrap(a.first + a.count)
    BY <2>1, ModRange DEF Sound
  <2>3. (a.last + 1) % ArrSize = Wrap(a.last + 1)
    BY <2>1, ModRange
  <2>4. (a.first + (a.count + 1)) % ArrSize = Wrap(a.first + (a.count + 1))
    BY <2>1, ModRange
  <2>5. (a.last + 1) % ArrSize = (a.first + (a.count + 1)) % ArrSize
    BY <1>1, <1>2, <2>2, <2>3, <2>4 DEF Wrap
  <2> QED
    BY <1>3, <2>5
<1>7. Sound(b)
  BY <1>1, <1>2, <1>3, <1>5, <1>6 DEF Sound
<1> HIDE DEF b
<1>8. Contents(b) = Append(Contents(a), a.array[a.last])
  <2> DEFINE s == Contents(a)
  <2>1. /\ Contents(b) \in Seq(Pizzas \cup {NoPizza})
        /\ s \in Seq(Pizzas \cup {NoPizza})
        /\ Len(Contents(b)) = a.count + 1 /\ Len(s) = a.count
    BY <1>3, <1>7, ContentsType
  <2>2. ASSUME NEW i \in 1 .. a.count PROVE Contents(b)[i] = s[i]
    <3>1. i \in 1 .. a.count + 1
      BY <1>2
    <3>2. Contents(b)[i] = a.array[(a.first + i - 1) % ArrSize]
      BY <1>3, <3>1 DEF Contents
    <3> QED
      BY <3>2 DEF Contents
  <2>3. Contents(b)[a.count + 1] = a.array[a.last]
    <3>1. a.count + 1 \in 1 .. a.count + 1
      BY <1>2
    <3>2. Contents(b)[a.count + 1] =
            a.array[(a.first + (a.count + 1) - 1) % ArrSize]
      BY <1>3, <3>1 DEF Contents
    <3>3. a.first + (a.count + 1) - 1 = a.first + a.count
      BY <1>1, <1>2
    <3> QED
      BY <3>2, <3>3 DEF Sound
  <2>4. a.array[a.last] \in Pizzas \cup {NoPizza}
    BY <1>2 DEF Sound, Arrs, Places
  <2> HIDE DEF s
  <2> DEFINE t == Append(s, a.array[a.last])
  <2>5. /\ t \in Seq(Pizzas \cup {NoPizza}) /\ Len(t) = a.count + 1
        /\ \A i \in 1 .. a.count : t[i] = s[i]
        /\ t[a.count + 1] = a.array[a.last]
    BY <2>1, <2>4
  <2>6. \A i \in 1 .. a.count + 1 : Contents(b)[i] = t[i]
    BY <1>2, <2>2, <2>3, <2>5
  <2> HIDE DEF t
  <2>7. Contents(b) = t
    BY <2>1, <2>5, <2>6, SeqEqual
  <2> QED
    BY <2>7 DEF t, s
<1> QED
  BY <1>7, <1>8 DEF b

\* remove_from_arr takes the oldest pizza off the contents.
LEMMA AdvanceTakes ==
    ASSUME NEW a, Sound(a), a.count > 0
    PROVE  /\ Contents(AdvanceFirst(a)) = Tail(Contents(a))
           /\ Sound(AdvanceFirst(a))
<1> DEFINE b == AdvanceFirst(a)
<1>1. ArrSize \in Nat /\ ArrSize > 0
  BY ArrSizeAssumption
<1>2. /\ a.count \in Nat /\ a.count <= ArrSize /\ a.first \in 0 .. ArrSize - 1
      /\ a.last \in 0 .. ArrSize - 1
  BY <1>1 DEF Sound, Arrs, Places
<1>3. /\ b.count = a.count - 1 /\ b.last = a.last /\ b.array = a.array
      /\ b.first = (a.first + 1) % ArrSize
  BY DEF Sound, Arrs, AdvanceFirst
<1>4. (a.first + 1) % ArrSize \in Places
  BY <1>1, <1>2 DEF Places
<1>5. b \in Arrs
  <2> DEFINE i == (a.first + 1) % ArrSize
             m == a.count - 1
  <2>1. i \in Places /\ m \in Int
    BY <1>2, <1>4
  <2>2. b = [a EXCEPT !.first = i, !.count = m]
    BY DEF AdvanceFirst
  <2> HIDE DEF i, m
  <2>3. [a EXCEPT !.first = i, !.count = m] \in Arrs
    BY <2>1 DEF Sound, Arrs
  <2> QED
    BY <2>2, <2>3
\* The place i after the new first is the place i + 1 after the old one.
<1>6. ASSUME NEW i \in 1 .. a.count
      PROVE  (b.first + i - 1) % ArrSize = (a.first + i) % ArrSize
  <2>1. /\ a.first + 1 \in 0 .. 2 * ArrSize - 1
        /\ a.first + i \in 0 .. 2 * ArrSize - 1
        /\ b.first + i - 1 \in 0 .. 2 * ArrSize - 1
    BY <1>1, <1>2, <1>3, <1>4 DEF Places
  <2>2. b.first = Wrap(a.first + 1)
    BY <1>3, <2>1, ModRange
  <2> HIDE DEF b
  <2>3. (a.first + i) % ArrSize = Wrap(a.first + i)
    BY <2>1, ModRange
  <2>4. (b.first + i - 1) % ArrSize = Wrap(b.first + i - 1)
    BY <2>1, ModRange
  <2> QED
    BY <1>1, <1>2, <2>2, <2>3, <2>4 DEF Wrap
<1>7. b.last = (b.first + b.count) % ArrSize
  <2>1. b.first + b.count = b.first + a.count - 1
    BY <1>2, <1>3, <1>4 DEF Places
  <2>2. a.count \in 1 .. a.count
    BY <1>2
  <2> QED
    BY <1>3, <1>6, <2>1, <2>2 DEF Sound
<1>8. Sound(b)
  BY <1>1, <1>2, <1>3, <1>5, <1>7 DEF Sound
<1> HIDE DEF b
<1>9. Contents(b) = Tail(Contents(a))
  <2> DEFINE s == Contents(a)
             t == Tail(s)
  <2>1. /\ Contents(b) \in Seq(Pizzas \cup {NoPizza})
        /\ s \in Seq(Pizzas \cup {NoPizza}) /\ s # <<>>
        /\ Len(Contents(b)) = a.count - 1 /\ Len(s) = a.count
    BY <1>3, <1>8, ContentsType
  <2>2. /\ t \in Seq(Pizzas \cup {NoPizza}) /\ Len(t) = a.count - 1
        /\ \A i \in 1 .. a.count - 1 : t[i] = s[i + 1]
    <3> HIDE DEF s
    <3> QED
      BY <2>1
  <2>3. ASSUME NEW i \in 1 .. a.count - 1 PROVE Contents(b)[i] = t[i]
    <3>1. i \in 1 .. a.count /\ i + 1 \in 1 .. a.count
      BY <1>2
    <3>2. Contents(b)[i] = a.array[(b.first + i - 1) % ArrSize]
      BY <1>3 DEF Contents
    <3>3. s[i + 1] = a.array[(a.first + (i + 1) - 1) % ArrSize]
      BY <3>1 DEF Contents
    <3>4. a.first + (i + 1) - 1 = a.first + i
      BY <1>2
    <3>5. s[i + 1] = a.array[(a.first + i) % ArrSize]
      BY <3>3, <3>4
    <3> QED
      BY <1>6, <2>2, <3>1, <3>2, <3>5
  <2> HIDE DEF s, t
  <2>4. Contents(b) = t
    BY <2>1, <2>2, <2>3, SeqEqual
  <2> QED
    BY <2>4 DEF t, s
<1> QED
  BY <1>8, <1>9 DEF b

-------------------------------------------------------------------------------
(* The arrays between the halves of an operation *)

\* Between the two halves of an array operation, the process that holds the
\* lock finds in the array what it left there.
Rings ==
    /\ oven.last = (oven.first + oven.count) % ArrSize
    /\ table.last = (table.first + table.count) % ArrSize
    /\ \A p \in Workers :
         /\ pc[p] = "putOvenEnd" => oven.array[oven.last] = n[p]
         /\ pc[p] = "takeOvenEnd" => n[p] = FirstOf(oven)
         /\ pc[p] = "putTableEnd" => table.array[table.last] = n[p]
         /\ pc[p] = "takeTableEnd" => n[p] = FirstOf(table)

-------------------------------------------------------------------------------
\* A process at one of the steps S is counted.
LEMMA CountedProcess ==
    ASSUME NEW S, NEW p \in Workers, pc[p] \in S PROVE Count(S) >= 1
<1> DEFINE A == {q \in Workers : pc[q] \in S}
<1>1. IsFiniteSet(A)
  <2>1. IsFiniteSet(Workers)
    BY WorkersAssumption, FS_Union DEF Workers
  <2> QED
    BY <2>1, FS_Subset, A \subseteq Workers
<1>2. A # {}
  OBVIOUS
<1> QED
  BY <1>1, <1>2, FS_EmptySet, FS_CardinalityType DEF Count

\* Who may touch an array finds room, or a pizza, in it.
LEMMA Room ==
    ASSUME Inv, NEW p \in Workers
    PROVE  /\ pc[p] \in {"putOven", "putOvenEnd"} => oven.count < ArrSize
           /\ pc[p] \in {"takeOven", "takeOvenEnd"} => oven.count > 0
           /\ pc[p] \in {"putTable", "putTableEnd"} => table.count < ArrSize
           /\ pc[p] \in {"takeTable", "takeTableEnd"} => table.count > 0
<1>1. /\ ArrSize \in Nat /\ oven.count \in Int /\ table.count \in Int
      /\ sem["FULL_OVEN"] \in Nat /\ sem["FULL_TABLE"] \in Nat
      /\ sem["EMPTY_TABLE"] \in Nat
  BY ArrSizeAssumption DEF Inv, TypeOK, Arrs, Semaphores
<1>2. /\ Count(Baking) \in Nat /\ Count(HoldsOvenPlace) \in Nat
      /\ Count(HoldsTablePlace) \in Nat /\ Count(HoldsTablePizza) \in Nat
  BY CountIsNat
<1>3. /\ oven.count = Count(Baking)
      /\ sem["FULL_OVEN"] + oven.count + Count(HoldsOvenPlace) = ArrSize
      /\ sem["EMPTY_TABLE"] + Count(HoldsTablePizza) = table.count
      /\ sem["FULL_TABLE"] + table.count + Count(HoldsTablePlace) = ArrSize
  BY DEF Inv, OvenAccounting, TableAccounting
<1>4. ASSUME pc[p] \in {"putOven", "putOvenEnd"} PROVE oven.count < ArrSize
  <2>1. Count(HoldsOvenPlace) >= 1
    BY <1>4, CountedProcess DEF HoldsOvenPlace
  <2> QED
    BY <1>1, <1>2, <1>3, <2>1
<1>5. ASSUME pc[p] \in {"takeOven", "takeOvenEnd"} PROVE oven.count > 0
  <2>1. Count(Baking) >= 1
    BY <1>5, CountedProcess DEF Baking
  <2> QED
    BY <1>1, <1>2, <1>3, <2>1
<1>6. ASSUME pc[p] \in {"putTable", "putTableEnd"} PROVE table.count < ArrSize
  <2>1. Count(HoldsTablePlace) >= 1
    BY <1>6, CountedProcess DEF HoldsTablePlace
  <2> QED
    BY <1>1, <1>2, <1>3, <2>1
<1>7. ASSUME pc[p] \in {"takeTable", "takeTableEnd"} PROVE table.count > 0
  <2>1. Count(HoldsTablePizza) >= 1
    BY <1>7, CountedProcess DEF HoldsTablePizza
  <2> QED
    BY <1>1, <1>2, <1>3, <2>1
<1> QED
  BY <1>4, <1>5, <1>6, <1>7

\* What the accounting says of the arrays: between the halves of an operation
\* there are still at most ArrSize elements, and none below zero.
LEMMA SoundArrs == Inv /\ Rings => Sound(oven) /\ Sound(table)
<1> SUFFICES ASSUME Inv, Rings PROVE Sound(oven) /\ Sound(table)
  OBVIOUS
<1>1. /\ ArrSize \in Nat /\ oven.count \in Int /\ table.count \in Int
      /\ sem["FULL_OVEN"] \in Nat /\ sem["FULL_TABLE"] \in Nat
      /\ sem["EMPTY_TABLE"] \in Nat /\ oven \in Arrs /\ table \in Arrs
  BY ArrSizeAssumption DEF Inv, TypeOK, Arrs, Semaphores
<1>2. /\ Count(Baking) \in Nat /\ Count(HoldsOvenPlace) \in Nat
      /\ Count(HoldsTablePlace) \in Nat /\ Count(HoldsTablePizza) \in Nat
  BY CountIsNat
<1>3. oven.count \in 0 .. ArrSize /\ table.count \in 0 .. ArrSize
  BY <1>1, <1>2 DEF Inv, OvenAccounting, TableAccounting
<1> QED
  BY <1>1, <1>3 DEF Sound, Rings

-------------------------------------------------------------------------------
(* The steps *)

\* A semaphore operation is invisible in the line.
LEMMA DownUpStep ==
    ASSUME Inv, Rings, NEW p \in Workers, NEW here, NEW there, NEW s,
           Down(p, here, s, there) \/ Up(p, here, s, there),
           StageOf(here) = StageOf(there),
           there \notin {"putOvenEnd", "takeOvenEnd",
                         "putTableEnd", "takeTableEnd"}
    PROVE  Rings' /\ UNCHANGED Line!vars
<1>1. /\ pc[p] = here /\ pc' = [pc EXCEPT ![p] = there]
      /\ UNCHANGED <<oven, table, n>>
  BY DEF Down, Up, Goto
<1>2. pc \in [Workers -> CookSteps \cup DelivererSteps]
  BY DEF Inv, TypeOK
<1>3. \A q \in Workers : pc'[q] = IF q = p THEN there ELSE pc[q]
  BY <1>1, <1>2
<1>4. Rings'
  BY <1>1, <1>3 DEF Rings, FirstOf
<1>5. \A q \in Workers : StageOf(pc'[q]) = StageOf(pc[q])
  BY <1>1, <1>3
<1>6. UNCHANGED <<hand, stage>>
  BY <1>1, <1>5 DEF hand, stage
<1> QED
  BY <1>1, <1>4, <1>6 DEF Line!vars, Contents

\* What a step of process p shows of p in the line.
LEMMA Mapped ==
    ASSUME Inv, NEW p \in Workers, NEW here, NEW there, Goto(p, here, there),
           \A q \in Workers : q # p => n'[q] = n[q]
    PROVE  /\ stage[p] = StageOf(here)
           /\ stage' = [stage EXCEPT ![p] = StageOf(there)]
           /\ hand[p] = IF StageOf(here) \in {"raw", "baked"} THEN n[p]
                        ELSE NoPizza
           /\ hand' = [hand EXCEPT ![p] =
                         IF StageOf(there) \in {"raw", "baked"} THEN n'[p]
                         ELSE NoPizza]
<1>1. pc[p] = here /\ \A q \in Workers : pc'[q] = IF q = p THEN there ELSE pc[q]
  BY DEF Goto, Inv, TypeOK
<1> QED
  BY <1>1 DEF stage, hand

\* What a process that is alone in its array leaves of the other processes'
\* entries in Rings.
LEMMA OvenStep ==
    ASSUME Inv, Rings, Inv', NEW p \in Workers, NEW here, NEW there,
           Goto(p, here, there), here \in OwnsOven, there \in OwnsOven,
           \A q \in Workers : q # p => n'[q] = n[q],
           UNCHANGED table, there \notin {"putTableEnd", "takeTableEnd"},
           oven'.last = (oven'.first + oven'.count) % ArrSize,
           there = "putOvenEnd" => oven'.array[oven'.last] = n'[p],
           there = "takeOvenEnd" => n'[p] = FirstOf(oven')
    PROVE  Rings'
<1>1. /\ pc[p] = here /\ pc'[p] = there
      /\ \A q \in Workers : q # p => pc'[q] = pc[q]
  BY DEF Goto, Inv, TypeOK
<1>2. \A q \in Workers : q # p => pc[q] \notin OwnsOven
  BY <1>1, Alone DEF MutualExclusion
<1>3. \A q \in Workers :
        q # p => pc'[q] \notin {"putOvenEnd", "takeOvenEnd"}
  BY <1>1, <1>2 DEF OwnsOven
<1> QED
  BY <1>1, <1>3 DEF Rings, FirstOf

\* A step of the owner of the table's lock keeps Rings if it leaves the table
\* a ring and stores, or reads, what the place it comes to asks for.
LEMMA TableStep ==
    ASSUME Inv, Rings, Inv', NEW p \in Workers, NEW here, NEW there,
           Goto(p, here, there), here \in OwnsTable, there \in OwnsTable,
           \A q \in Workers : q # p => n'[q] = n[q],
           UNCHANGED oven, there \notin {"putOvenEnd", "takeOvenEnd"},
           table'.last = (table'.first + table'.count) % ArrSize,
           there = "putTableEnd" => table'.array[table'.last] = n'[p],
           there = "takeTableEnd" => n'[p] = FirstOf(table')
    PROVE  Rings'
<1>1. /\ pc[p] = here /\ pc'[p] = there
      /\ \A q \in Workers : q # p => pc'[q] = pc[q]
  BY DEF Goto, Inv, TypeOK
<1>2. \A q \in Workers : q # p => pc[q] \notin OwnsTable
  BY <1>1, Alone DEF MutualExclusion
<1>3. \A q \in Workers :
        q # p => pc'[q] \notin {"putTableEnd", "takeTableEnd"}
  BY <1>1, <1>2 DEF OwnsTable
<1> QED
  BY <1>1, <1>3 DEF Rings, FirstOf

-------------------------------------------------------------------------------
\* Prepare is Prepare of the abstract line.
LEMMA PrepareStep ==
    ASSUME Inv, Rings, NEW c \in Cooks, Prepare(c)
    PROVE  Rings' /\ Line!Prepare(c)
<1>1. PICK x \in Pizzas : n' = [n EXCEPT ![c] = x]
  BY DEF Prepare
<1>2. /\ c \in Workers /\ Goto(c, "prepare", "reserveOven")
      /\ UNCHANGED <<sem, oven, table>>
  BY DEF Prepare, Workers
<1>3. n'[c] = x /\ \A q \in Workers : q # c => n'[q] = n[q]
  BY <1>1, <1>2 DEF Inv, TypeOK
<1>4. Rings'
  <2>1. /\ pc'[c] = "reserveOven"
        /\ \A q \in Workers : q # c => pc'[q] = pc[q]
    BY <1>2 DEF Goto, Inv, TypeOK
  <2> QED
    BY <1>2, <1>3, <2>1 DEF Rings, FirstOf
<1>5. StageOf("prepare") = "idle" /\ StageOf("reserveOven") = "raw"
  BY DEF StageOf, Raw, Baking, Baked
<1>6. /\ stage[c] = "idle" /\ stage' = [stage EXCEPT ![c] = "raw"]
      /\ hand' = [hand EXCEPT ![c] = x]
  BY <1>2, <1>3, <1>5, Mapped
<1>7. UNCHANGED <<Contents(oven), Contents(table)>>
  BY <1>2 DEF Contents
<1> QED
  BY <1>4, <1>6, <1>7 DEF Line!Prepare, Line!Move

\* The first half of a store changes no contents.
LEMMA PutOvenStep ==
    ASSUME Inv, Rings, Inv', NEW c \in Cooks, PutOven(c)
    PROVE  Rings' /\ UNCHANGED Line!vars
<1>1. /\ c \in Workers /\ Goto(c, "putOven", "putOvenEnd")
      /\ oven' = StoreLast(oven, n[c]) /\ UNCHANGED <<sem, table, n>>
  BY DEF PutOven, Workers
<1>2. Sound(oven) /\ oven.count < ArrSize /\ n[c] \in Pizzas \cup {NoPizza}
  BY <1>1, SoundArrs, Room DEF Goto, Inv, TypeOK
<1>3. /\ Contents(oven') = Contents(oven) /\ Sound(oven')
      /\ oven'.array[oven.last] = n[c] /\ oven'.last = oven.last
  BY <1>1, <1>2, StoreKeepsContents
<1>4. Rings'
  BY <1>1, <1>3, OvenStep DEF Sound, OwnsOven
<1>5. StageOf("putOven") = StageOf("putOvenEnd")
  BY DEF StageOf, Raw, Baking, Baked
<1>6. UNCHANGED <<hand, stage>>
  <2>1. pc'[c] = "putOvenEnd" /\ pc[c] = "putOven"
        /\ \A q \in Workers : q # c => pc'[q] = pc[q]
    BY <1>1 DEF Goto, Inv, TypeOK
  <2>2. \A q \in Workers : StageOf(pc'[q]) = StageOf(pc[q])
    BY <1>5, <2>1
  <2> QED
    BY <1>1, <2>2 DEF hand, stage
<1>7. UNCHANGED <<Contents(oven), Contents(table)>>
  BY <1>1, <1>3 DEF Contents
<1> QED
  BY <1>4, <1>6, <1>7 DEF Line!vars

\* The second half is where the pizza enters the line's queue.
LEMMA PutOvenEndStep ==
    ASSUME Inv, Rings, Inv', NEW c \in Cooks, PutOvenEnd(c)
    PROVE  Rings' /\ Line!PutInOven(c)
<1>1. /\ c \in Workers /\ Goto(c, "putOvenEnd", "unlockOven")
      /\ oven' = AdvanceLast(oven) /\ UNCHANGED <<sem, table, n>>
  BY DEF PutOvenEnd, Workers
<1>2. Sound(oven) /\ oven.count < ArrSize /\ oven.array[oven.last] = n[c]
  BY <1>1, SoundArrs, Room DEF Goto, Rings
<1>3. Contents(oven') = Append(Contents(oven), n[c]) /\ Sound(oven')
  BY <1>1, <1>2, AdvanceAppends
<1>4. Rings'
  BY <1>1, <1>3, OvenStep DEF Sound, OwnsOven
<1>5. StageOf("putOvenEnd") = "raw" /\ StageOf("unlockOven") = "baking"
  BY DEF StageOf, Raw, Baking, Baked
<1>6. /\ stage[c] = "raw" /\ stage' = [stage EXCEPT ![c] = "baking"]
      /\ hand[c] = n[c] /\ hand' = [hand EXCEPT ![c] = NoPizza]
  BY <1>1, <1>5, Mapped
<1>7. Len(Contents(oven)) < ArrSize
  BY <1>2, ContentsType
<1>8. UNCHANGED Contents(table)
  BY <1>1 DEF Contents
<1> QED
  BY <1>3, <1>4, <1>6, <1>7, <1>8 DEF Line!PutInOven, Line!Move, Contents

\* The first half of a removal only reads.
LEMMA TakeOvenStep ==
    ASSUME Inv, Rings, Inv', NEW c \in Cooks, TakeOven(c)
    PROVE  Rings' /\ UNCHANGED Line!vars
<1>1. /\ c \in Workers /\ Goto(c, "takeOven", "takeOvenEnd")
      /\ n' = [n EXCEPT ![c] = FirstOf(oven)] /\ UNCHANGED <<sem, oven, table>>
  BY DEF TakeOven, Workers
<1>2. n'[c] = FirstOf(oven) /\ \A q \in Workers : q # c => n'[q] = n[q]
  BY <1>1 DEF Inv, TypeOK
<1>3. Rings'
  BY <1>1, <1>2, OvenStep DEF Rings, OwnsOven, FirstOf
<1>4. StageOf("takeOven") = "baking" /\ StageOf("takeOvenEnd") = "baking"
  BY DEF StageOf, Raw, Baking, Baked
<1>5. UNCHANGED <<hand, stage>>
  <2>1. pc'[c] = "takeOvenEnd" /\ pc[c] = "takeOven"
        /\ \A q \in Workers : q # c => pc'[q] = pc[q]
    BY <1>1 DEF Goto, Inv, TypeOK
  <2>2. \A q \in Workers : StageOf(pc'[q]) = StageOf(pc[q])
    BY <1>4, <2>1
  <2>3. UNCHANGED stage
    BY <2>2 DEF stage
  <2>4. \A q \in Workers : StageOf(pc[q]) \in {"raw", "baked"} => n'[q] = n[q]
    BY <1>2, <1>4, <2>1
  <2> QED
    BY <2>2, <2>3, <2>4 DEF hand
<1> QED
  BY <1>1, <1>3, <1>5 DEF Line!vars, Contents

\* The second half is where the pizza leaves the line's queue.
LEMMA TakeOvenEndStep ==
    ASSUME Inv, Rings, Inv', NEW c \in Cooks, TakeOvenEnd(c)
    PROVE  Rings' /\ Line!TakeFromOven(c)
<1>1. /\ c \in Workers /\ Goto(c, "takeOvenEnd", "reunlockOven")
      /\ oven' = AdvanceFirst(oven) /\ UNCHANGED <<sem, table, n>>
  BY DEF TakeOvenEnd, Workers
<1>2. Sound(oven) /\ oven.count > 0 /\ n[c] = FirstOf(oven)
  BY <1>1, SoundArrs, Room DEF Goto, Rings
<1>3. Contents(oven') = Tail(Contents(oven)) /\ Sound(oven')
  BY <1>1, <1>2, AdvanceTakes
<1>4. Rings'
  BY <1>1, <1>3, OvenStep DEF Sound, OwnsOven
<1>5. StageOf("takeOvenEnd") = "baking" /\ StageOf("reunlockOven") = "baked"
  BY DEF StageOf, Raw, Baking, Baked
<1>6. /\ stage[c] = "baking" /\ stage' = [stage EXCEPT ![c] = "baked"]
      /\ hand' = [hand EXCEPT ![c] = n[c]]
  BY <1>1, <1>5, Mapped
<1>7. Contents(oven) # <<>> /\ Head(Contents(oven)) = n[c]
  BY <1>2, ContentsType
<1>8. UNCHANGED Contents(table)
  BY <1>1 DEF Contents
<1> QED
  BY <1>3, <1>4, <1>6, <1>7, <1>8 DEF Line!TakeFromOven, Line!Move, Contents

\* The first half of a store changes no contents.
LEMMA PutTableStep ==
    ASSUME Inv, Rings, Inv', NEW c \in Cooks, PutTable(c)
    PROVE  Rings' /\ UNCHANGED Line!vars
<1>1. /\ c \in Workers /\ Goto(c, "putTable", "putTableEnd")
      /\ table' = StoreLast(table, n[c]) /\ UNCHANGED <<sem, oven, n>>
  BY DEF PutTable, Workers
<1>2. Sound(table) /\ table.count < ArrSize /\ n[c] \in Pizzas \cup {NoPizza}
  BY <1>1, SoundArrs, Room DEF Goto, Inv, TypeOK
<1>3. /\ Contents(table') = Contents(table) /\ Sound(table')
      /\ table'.array[table.last] = n[c] /\ table'.last = table.last
  BY <1>1, <1>2, StoreKeepsContents
<1>4. Rings'
  BY <1>1, <1>3, TableStep DEF Sound, OwnsTable
<1>5. StageOf("putTable") = StageOf("putTableEnd")
  BY DEF StageOf, Raw, Baking, Baked
<1>6. UNCHANGED <<hand, stage>>
  <2>1. pc'[c] = "putTableEnd" /\ pc[c] = "putTable"
        /\ \A q \in Workers : q # c => pc'[q] = pc[q]
    BY <1>1 DEF Goto, Inv, TypeOK
  <2>2. \A q \in Workers : StageOf(pc'[q]) = StageOf(pc[q])
    BY <1>5, <2>1
  <2> QED
    BY <1>1, <2>2 DEF hand, stage
<1>7. UNCHANGED <<Contents(oven), Contents(table)>>
  BY <1>1, <1>3 DEF Contents
<1> QED
  BY <1>4, <1>6, <1>7 DEF Line!vars

\* The second half is where the pizza enters the line's queue.
LEMMA PutTableEndStep ==
    ASSUME Inv, Rings, Inv', NEW c \in Cooks, PutTableEnd(c)
    PROVE  Rings' /\ Line!PutOnTable(c)
<1>1. /\ c \in Workers /\ Goto(c, "putTableEnd", "announce")
      /\ table' = AdvanceLast(table) /\ UNCHANGED <<sem, oven, n>>
  BY DEF PutTableEnd, Workers
<1>2. Sound(table) /\ table.count < ArrSize /\ table.array[table.last] = n[c]
  BY <1>1, SoundArrs, Room DEF Goto, Rings
<1>3. Contents(table') = Append(Contents(table), n[c]) /\ Sound(table')
  BY <1>1, <1>2, AdvanceAppends
<1>4. Rings'
  BY <1>1, <1>3, TableStep DEF Sound, OwnsTable
<1>5. StageOf("putTableEnd") = "baked" /\ StageOf("announce") = "idle"
  BY DEF StageOf, Raw, Baking, Baked
<1>6. /\ stage[c] = "baked" /\ stage' = [stage EXCEPT ![c] = "idle"]
      /\ hand[c] = n[c] /\ hand' = [hand EXCEPT ![c] = NoPizza]
  BY <1>1, <1>5, Mapped
<1>7. Len(Contents(table)) < ArrSize
  BY <1>2, ContentsType
<1>8. UNCHANGED Contents(oven)
  BY <1>1 DEF Contents
<1> QED
  BY <1>3, <1>4, <1>6, <1>7, <1>8 DEF Line!PutOnTable, Line!Move, Contents

\* The first half of a removal only reads.
LEMMA TakeTableStep ==
    ASSUME Inv, Rings, Inv', NEW d \in Deliverers, TakeTable(d)
    PROVE  Rings' /\ UNCHANGED Line!vars
<1>1. /\ d \in Workers /\ Goto(d, "takeTable", "takeTableEnd")
      /\ n' = [n EXCEPT ![d] = FirstOf(table)] /\ UNCHANGED <<sem, oven, table>>
  BY DEF TakeTable, Workers
<1>2. n'[d] = FirstOf(table) /\ \A q \in Workers : q # d => n'[q] = n[q]
  BY <1>1 DEF Inv, TypeOK
<1>3. Rings'
  BY <1>1, <1>2, TableStep DEF Rings, OwnsTable, FirstOf
<1>4. StageOf("takeTable") = "idle" /\ StageOf("takeTableEnd") = "idle"
  BY DEF StageOf, Raw, Baking, Baked
<1>5. UNCHANGED <<hand, stage>>
  <2>1. pc'[d] = "takeTableEnd" /\ pc[d] = "takeTable"
        /\ \A q \in Workers : q # d => pc'[q] = pc[q]
    BY <1>1 DEF Goto, Inv, TypeOK
  <2>2. \A q \in Workers : StageOf(pc'[q]) = StageOf(pc[q])
    BY <1>4, <2>1
  <2>3. UNCHANGED stage
    BY <2>2 DEF stage
  <2>4. \A q \in Workers : StageOf(pc[q]) \in {"raw", "baked"} => n'[q] = n[q]
    BY <1>2, <1>4, <2>1
  <2> QED
    BY <2>2, <2>3, <2>4 DEF hand
<1> QED
  BY <1>1, <1>3, <1>5 DEF Line!vars, Contents

\* The second half is where the pizza leaves the line's queue.
LEMMA TakeTableEndStep ==
    ASSUME Inv, Rings, Inv', NEW d \in Deliverers, TakeTableEnd(d)
    PROVE  Rings' /\ Line!TakeFromTable(d)
<1>1. /\ d \in Workers /\ Goto(d, "takeTableEnd", "vacate")
      /\ table' = AdvanceFirst(table) /\ UNCHANGED <<sem, oven, n>>
  BY DEF TakeTableEnd, Workers
<1>2. Sound(table) /\ table.count > 0 /\ n[d] = FirstOf(table)
  BY <1>1, SoundArrs, Room DEF Goto, Rings
<1>3. Contents(table') = Tail(Contents(table)) /\ Sound(table')
  BY <1>1, <1>2, AdvanceTakes
<1>4. Rings'
  BY <1>1, <1>3, TableStep DEF Sound, OwnsTable
<1>5. StageOf("takeTableEnd") = "idle" /\ StageOf("vacate") = "baked"
  BY DEF StageOf, Raw, Baking, Baked
<1>6. /\ stage[d] = "idle" /\ stage' = [stage EXCEPT ![d] = "baked"]
      /\ hand' = [hand EXCEPT ![d] = n[d]]
  BY <1>1, <1>5, Mapped
<1>7. Contents(table) # <<>> /\ Head(Contents(table)) = n[d]
  BY <1>2, ContentsType
<1>8. UNCHANGED Contents(oven)
  BY <1>1 DEF Contents
<1> QED
  BY <1>3, <1>4, <1>6, <1>7, <1>8 DEF Line!TakeFromTable, Line!Move, Contents

\* Deliver is Deliver of the abstract line.
LEMMA DeliverStep ==
    ASSUME Inv, Rings, NEW d \in Deliverers, Deliver(d)
    PROVE  Rings' /\ Line!Deliver(d)
<1>1. /\ d \in Workers /\ Goto(d, "deliver", "await")
      /\ UNCHANGED <<sem, oven, table, n>>
  BY DEF Deliver, Workers
<1>2. Rings'
  <2>1. pc'[d] = "await" /\ \A q \in Workers : q # d => pc'[q] = pc[q]
    BY <1>1 DEF Goto, Inv, TypeOK
  <2> QED
    BY <1>1, <2>1 DEF Rings, FirstOf
<1>3. StageOf("deliver") = "baked" /\ StageOf("await") = "idle"
  BY DEF StageOf, Raw, Baking, Baked
<1>4. /\ stage[d] = "baked" /\ stage' = [stage EXCEPT ![d] = "idle"]
      /\ hand' = [hand EXCEPT ![d] = NoPizza]
  BY <1>1, <1>3, Mapped
<1> QED
  BY <1>1, <1>2, <1>4 DEF Line!Deliver, Line!Move, Contents

-------------------------------------------------------------------------------
\* The initial states are initial states of the abstract line.
LEMMA InitLine == Init => Rings /\ Line!Init
<1> SUFFICES ASSUME Init PROVE Rings /\ Line!Init
  OBVIOUS
<1>1. \A p \in Workers : pc[p] \in {"prepare", "await"}
  BY DEF Init
<1>2. oven = EmptyArr /\ table = EmptyArr
  BY DEF Init
<1>3. (0 + 0) % ArrSize = 0
  BY ArrSizeAssumption
<1>4. Rings
  BY <1>1, <1>2, <1>3 DEF Rings, EmptyArr
<1>5. Contents(EmptyArr) = <<>>
  BY DEF Contents, EmptyArr
<1>6. StageOf("prepare") = "idle" /\ StageOf("await") = "idle"
  BY DEF StageOf, Raw, Baking, Baked
<1>7. /\ stage = [p \in Workers |-> "idle"]
      /\ hand = [p \in Workers |-> NoPizza]
  BY <1>1, <1>6 DEF stage, hand
<1> QED
  BY <1>2, <1>4, <1>5, <1>7 DEF Line!Init, Line!Workers, Workers

\* Every step of a cook is one of the abstract cook, or a stutter.
LEMMA CookStep ==
    ASSUME Inv, Rings, Inv', NEW c \in Cooks, Cook(c)
    PROVE  Rings' /\ (Line!Cook(c) \/ UNCHANGED Line!vars)
<1>1. CASE \/ Prepare(c) \/ PutOvenEnd(c) \/ TakeOvenEnd(c) \/ PutTableEnd(c)
  BY <1>1, PrepareStep, PutOvenEndStep, TakeOvenEndStep, PutTableEndStep
  DEF Line!Cook
<1>2. CASE PutOven(c) \/ TakeOven(c) \/ PutTable(c)
  BY <1>2, PutOvenStep, TakeOvenStep, PutTableStep
<1>3. CASE \/ ReserveOven(c) \/ LockOven(c) \/ UnlockOven(c) \/ Bake(c)
           \/ ReunlockOven(c) \/ ReleaseOven(c) \/ ReserveTable(c)
           \/ LockTable(c) \/ Announce(c) \/ UnlockTable(c)
  <2>1. c \in Workers
    BY DEF Workers
  <2> QED
    BY <1>3, <2>1, DownUpStep
    DEF ReserveOven, LockOven, UnlockOven, Bake, ReunlockOven, ReleaseOven,
        ReserveTable, LockTable, Announce, UnlockTable,
        StageOf, Raw, Baking, Baked
<1> QED
  BY <1>1, <1>2, <1>3 DEF Cook

\* Every step of a deliverer is one of the abstract deliverer, or a stutter.
LEMMA DelivererStep ==
    ASSUME Inv, Rings, Inv', NEW d \in Deliverers, Deliverer(d)
    PROVE  Rings' /\ (Line!Deliverer(d) \/ UNCHANGED Line!vars)
<1>1. CASE TakeTableEnd(d) \/ Deliver(d)
  BY <1>1, TakeTableEndStep, DeliverStep DEF Line!Deliverer
<1>2. CASE TakeTable(d)
  BY <1>2, TakeTableStep
<1>3. CASE Await(d) \/ LockTake(d) \/ Vacate(d) \/ UnlockTake(d)
  <2>1. d \in Workers
    BY DEF Workers
  <2> QED
    BY <1>3, <2>1, DownUpStep
    DEF Await, LockTake, Vacate, UnlockTake, StageOf, Raw, Baking, Baked
<1> QED
  BY <1>1, <1>2, <1>3 DEF Deliverer

\* Every step is one of the abstract line, or a stutter.
LEMMA NextLine ==
    Inv /\ Rings /\ Inv' /\ [Next]_vars => Rings' /\ [Line!Next]_(Line!vars)
<1> SUFFICES ASSUME Inv, Rings, Inv', [Next]_vars
             PROVE  Rings' /\ [Line!Next]_(Line!vars)
  OBVIOUS
<1>1. CASE UNCHANGED vars
  BY <1>1 DEF vars, Rings, FirstOf, Line!vars, hand, stage, Contents
<1>2. ASSUME NEW c \in Cooks, Cook(c)
      PROVE  Rings' /\ [Line!Next]_(Line!vars)
  BY <1>2, CookStep DEF Line!Next
<1>3. ASSUME NEW d \in Deliverers, Deliverer(d)
      PROVE  Rings' /\ [Line!Next]_(Line!vars)
  BY <1>3, DelivererStep DEF Line!Next
<1> QED
  BY <1>1, <1>2, <1>3 DEF Next

\* For any number of cooks, deliverers, places and kinds of pizza, the oven and
\* the table of the program are first-in first-out queues that lose, duplicate
\* and overwrite nothing.
THEOREM Refinement == Spec => ImplementsLine
<1>1. Spec => []Inv
  BY InvHolds
<1>2. Spec => []Rings
  BY <1>1, InitLine, NextLine, PTL DEF Spec
<1> QED
  BY <1>1, <1>2, InitLine, NextLine, PTL DEF Spec, ImplementsLine, Line!Spec

-------------------------------------------------------------------------------
(* Start and end of the pizzeria (Launch). *)

\* Where a process can be: main before it has its handler, a process that runs
\* the handler, a worker that does not, main and a worker at all.
Unborn == {"none", "create", "failed", "killed"}
Leaves == {"handler", "exited"}
Alive == {"forked", "open", "works"}
MainPlaces == Unborn \cup Leaves \cup {"fork", "record"}
WorkerPlaces == {"none", "ended"} \cup Leaves \cup Alive
Last == Len(Shop!Names)

\* The types of the variables.
ProcessSet == [at : MainPlaces \cup WorkerPlaces, i : Nat \ {0}, pids : Nat,
               opened : Seq(Mains \cup {0})]

LaunchTypes ==
    /\ kind \in {"sysv", "posix"} /\ owner \in [1 .. Last -> Mains \cup {0}]
    /\ proc \in [Shop!Procs -> ProcessSet]

\* How far a process's loops go, and what main and a worker never are: a worker
\* that copies main knows only the workers forked before it.
Bound(p) ==
    /\ proc[p].pids <= Staff[p[1]]
    /\ proc[p].at = "open" => proc[p].i <= Last
    /\ proc[p].at = "handler" => proc[p].i <= proc[p].pids + Last
    /\ proc[p].at = "exited" => proc[p].i > proc[p].pids
    /\ proc[p].at = "record" => proc[p].pids < Staff[p[1]]
    /\ p[2] = 0 => proc[p].at \in MainPlaces /\ proc[p].opened = <<>>
    /\ p[2] > 0 => proc[p].at \in WorkerPlaces /\ proc[p].pids < p[2]
    /\ proc[p].at = "none" => proc[p].opened = <<>>

\* Before main has its handler it has no workers, and none runs the handler
\* before main does.
Crew(p) ==
    /\ Shop!Main(p[1]).at \in Unborn /\ p[2] > 0 => proc[p].at = "none"
    /\ Shop!IsCopy(p) => Shop!Main(p[1]).at \in Leaves

\* main's handler has signalled the workers its loop has come past.
Signalling(p) ==
    Shop!Main(p[1]).at \in Leaves /\ p[2] > 0 /\ Shop!Recorded(p) /\ p[2] < Shop!Main(p[1]).i =>
        proc[p].at \notin Alive

\* ... and has removed the names it has come past.
Removing(m) ==
    \A x \in 1 .. Last :
        /\ Shop!Main(m).at = "exited" => owner[x] # m
        /\ Shop!Main(m).at = "handler" /\ Shop!Main(m).pids + x < Shop!Main(m).i => owner[x] # m

\* While nobody but main runs main's handler, main has the objects it has
\* created until it removes them ...
NoCopies == kind = "sysv" \/ \A p \in Shop!Procs : ~Shop!IsCopy(p)

Created(m) ==
    \A x \in 1 .. Last :
        /\ Shop!Main(m).at = "create" /\ x < Shop!Main(m).i => owner[x] = m
        /\ Shop!Runs(m) => owner[x] = m
        /\ kind = "posix" /\ Shop!Main(m).at = "handler" /\ Shop!Main(m).i <= Shop!Main(m).pids + x =>
               owner[x] = m

\* ... and its workers have opened no others.
Opened(p) == Shop!Runs(p[1]) => \A k \in DOMAIN proc[p].opened : proc[p].opened[k] = p[1]

\* Inductive.
LaunchInv ==
    /\ LaunchTypes
    /\ \A p \in Shop!Procs : Bound(p) /\ Crew(p) /\ Signalling(p)
    /\ \A m \in Mains : Removing(m)
    /\ NoCopies => /\ \A m \in Mains : Created(m)
                   /\ \A p \in Shop!Procs : Opened(p)

\* The processes: each main, and the workers it is to start.
LEMMA ProcsAre ==
    ASSUME Shop!LaunchAssumption
    PROVE  /\ \A m \in Mains : <<m, 0>> \in Shop!Procs
           /\ \A m \in Mains, j \in Nat : j <= Staff[m] => <<m, j>> \in Shop!Procs
           /\ \A p \in Shop!Procs : /\ p[1] \in Mains /\ p[2] \in Nat /\ p[2] <= Staff[p[1]]
                                    /\ p = <<p[1], p[2]>> /\ <<p[1], 0>> \in Shop!Procs
BY DEF Shop!Procs, Shop!LaunchAssumption

\* Three names stand for all objects.
LEMMA LastIs == Last = 3
BY DEF Last, Shop!Names

\* The step of process p: where it is then, and the others stay.
Changes(p, at, i, pids, opened) ==
    /\ proc' \in [Shop!Procs -> ProcessSet]
    /\ proc'[p].at = at /\ proc'[p].i = i /\ proc'[p].pids = pids /\ proc'[p].opened = opened
    /\ \A q \in Shop!Procs : q # p => proc'[q] = proc[q]

\* The fields of a process have their types.
LEMMA Fields ==
    ASSUME NEW r \in ProcessSet
    PROVE  /\ r.at \in MainPlaces \cup WorkerPlaces /\ r.i \in Nat \ {0} /\ r.pids \in Nat
           /\ r.opened \in Seq(Mains \cup {0})
BY DEF ProcessSet

\* The types of the fields, by name.
PlaceSet == MainPlaces \cup WorkerPlaces
Indices == Nat \ {0}
Owners == Mains \cup {0}

\* A process is a record with fields of these types.
LEMMA RecordsAre == ProcessSet = [at : PlaceSet, i : Indices, pids : Nat, opened : Seq(Owners)]
BY DEF ProcessSet, PlaceSet, Indices, Owners

\* An assignment to one process changes no other.
LEMMA Put ==
    ASSUME LaunchTypes, NEW p \in Shop!Procs, NEW s \in ProcessSet, proc' = [proc EXCEPT ![p] = s]
    PROVE  Changes(p, s.at, s.i, s.pids, s.opened)
<1>1. proc'[p] = s /\ proc' \in [Shop!Procs -> ProcessSet] /\ \A q \in Shop!Procs : q # p => proc'[q] = proc[q]
  BY DEF LaunchTypes
<1> QED BY <1>1 DEF Changes

\* A move begins the loop of the next place at 1.
LEMMA GotoChanges ==
    ASSUME LaunchTypes, NEW p \in Shop!Procs, NEW from, NEW to \in PlaceSet, Shop!Goto(p, from, to)
    PROVE  proc[p].at = from /\ Changes(p, to, 1, proc[p].pids, proc[p].opened)
<1> DEFINE r == proc[p]
           k == 1
           s == [r EXCEPT !.i = k, !.at = to]
<1>1. r \in ProcessSet /\ k \in Indices BY DEF LaunchTypes, Indices
<1>2. r.opened \in Seq(Owners) /\ 0 \in Owners /\ r.pids \in Nat
  BY <1>1, Fields DEF Owners
<1>3. proc[p].at = from /\ proc' = [proc EXCEPT ![p] = s] BY DEF Shop!Goto
<1> HIDE DEF r, k
<1>4. s \in ProcessSet /\ s.at = to /\ s.i = k /\ s.pids = r.pids /\ s.opened = r.opened
  BY <1>1, RecordsAre
<1> HIDE DEF s
<1>5. Changes(p, s.at, s.i, s.pids, s.opened) BY <1>3, <1>4, Put
<1> QED BY <1>3, <1>4, <1>5 DEF r, k

\* A step that moves main m only, and none to the handler but from fork or record.
LEMMA MainMoves ==
    ASSUME Shop!LaunchAssumption, LaunchInv, NEW m \in Mains, NEW at, NEW i, NEW pids,
           Changes(<<m, 0>>, at, i, pids, <<>>), kind' = kind, owner' \in [1 .. Last -> Mains \cup {0}],
           Bound(<<m, 0>>)',
           Shop!Main(m).at \notin Unborn => at \notin Unborn,
           Shop!Main(m).at \in Leaves => at \in Leaves,
           at \in Leaves => \A p \in Shop!Procs : p[1] = m => Signalling(p)',
           \A k \in Mains : Removing(k)',
           NoCopies => \A k \in Mains : Created(k)',
           Shop!Main(m).at \notin Unborn \/ at \in Unborn \/ at = "fork",
           at \in {"fork", "record"} => Shop!Main(m).at = "create" \/ Shop!Runs(m)
    PROVE  LaunchInv'
<1>1. \A p \in Shop!Procs : p # <<m, 0>> => proc'[p] = proc[p] BY DEF Changes
<1>2. \A k \in Mains : <<k, 0>> \in Shop!Procs /\ (k # m => Shop!Main(k)' = Shop!Main(k))
  BY <1>1, ProcsAre DEF Shop!Main
<1>3. Shop!Main(m)'.at = at /\ Shop!Main(m)'.opened = <<>>
  BY DEF Shop!Main, Changes
<1>4. LaunchTypes' BY DEF LaunchInv, LaunchTypes, Changes
<1>5. ASSUME NEW p \in Shop!Procs PROVE Bound(p)'
  BY <1>1 DEF LaunchInv, Bound
<1>6. ASSUME NEW p \in Shop!Procs
      PROVE  Crew(p)' /\ (Shop!IsCopy(p)' <=> Shop!IsCopy(p))
  <2>1. CASE p = <<m, 0>>
    BY <2>1 DEF Crew, Shop!IsCopy
  <2>2. CASE p # <<m, 0>>
    <3>1. proc'[p] = proc[p] /\ Crew(p) BY <1>1, <2>2 DEF LaunchInv
    <3>2. Shop!IsCopy(p)' <=> Shop!IsCopy(p) BY <3>1 DEF Shop!IsCopy
    <3>3. p[1] \in Mains BY ProcsAre
    <3>4. CASE p[1] = m BY <1>3, <3>1, <3>2, <3>4 DEF Crew
    <3>5. CASE p[1] # m BY <1>2, <3>1, <3>2, <3>3, <3>5 DEF Crew
    <3> QED BY <3>2, <3>4, <3>5
  <2> QED BY <2>1, <2>2
<1>7. ASSUME NEW p \in Shop!Procs PROVE Signalling(p)'
  BY <1>1, <1>2, <1>3, ProcsAre DEF LaunchInv, Signalling, Shop!Recorded
<1>8. NoCopies' => NoCopies BY <1>6 DEF NoCopies
<1>9. ASSUME NoCopies, NEW p \in Shop!Procs PROVE Opened(p)'
  <2>1. Opened(p) /\ Crew(p) /\ Bound(p) /\ p[1] \in Mains
    BY <1>9, ProcsAre DEF LaunchInv
  <2>2. CASE p[1] # m
    <3>1. p # <<m, 0>> BY <2>2
    <3>2. proc'[p] = proc[p] BY <1>1, <3>1
    <3>3. Shop!Main(p[1])' = Shop!Main(p[1]) BY <1>2, <2>1, <2>2
    <3> QED BY <2>1, <3>2, <3>3 DEF Opened, Shop!Runs
  <2>3. CASE p = <<m, 0>>
    <3>1. proc'[p].opened = <<>> BY <2>3 DEF Changes
    <3> QED BY <3>1 DEF Opened
  <2>4. CASE p[1] = m /\ p # <<m, 0>>
    <3>1. p[2] > 0 BY <2>4, ProcsAre
    <3>2. proc'[p] = proc[p] BY <1>1, <2>4
    <3>3. ASSUME Shop!Runs(m)'
          PROVE  Shop!Main(m).at = "create" \/ Shop!Runs(m)
      BY <1>3, <3>3 DEF Shop!Runs
    <3>4. CASE Shop!Main(m).at = "create"
      <4>1. proc[p].opened = <<>> BY <2>1, <2>4, <3>1, <3>4 DEF Crew, Bound, Unborn
      <4> QED BY <3>2, <4>1 DEF Opened
    <3>5. CASE Shop!Main(m).at # "create"
      BY <2>1, <2>4, <3>2, <3>3, <3>5 DEF Opened
    <3> QED BY <3>4, <3>5
  <2> QED BY <2>2, <2>3, <2>4
<1> QED BY <1>4, <1>5, <1>6, <1>7, <1>8, <1>9 DEF LaunchInv

\* Facts about main m that all its steps need.
LEMMA MainIs ==
    ASSUME Shop!LaunchAssumption, LaunchInv, NEW m \in Mains
    PROVE  /\ <<m, 0>> \in Shop!Procs /\ Shop!Main(m) \in ProcessSet /\ Shop!Main(m).opened = <<>>
           /\ Shop!Main(m).i \in Nat \ {0} /\ Shop!Main(m).pids \in Nat /\ Shop!Main(m).at \in MainPlaces
           /\ Shop!Main(m) = proc[<<m, 0>>] /\ Bound(<<m, 0>>) /\ Removing(m)
           /\ \A x \in 1 .. Last : owner[x] \in Mains \cup {0}
           /\ owner \in [1 .. Last -> Mains \cup {0}]
<1>1. <<m, 0>> \in Shop!Procs BY ProcsAre
<1>2. Bound(<<m, 0>>) /\ Removing(m) BY <1>1 DEF LaunchInv
<1>3. proc[<<m, 0>>] \in ProcessSet BY <1>1 DEF LaunchInv, LaunchTypes
<1>4. proc[<<m, 0>>].at \in MainPlaces /\ proc[<<m, 0>>].opened = <<>>
  BY <1>2 DEF Bound
<1>5. proc[<<m, 0>>].i \in Nat \ {0} /\ proc[<<m, 0>>].pids \in Nat BY <1>3, Fields
<1> QED BY <1>1, <1>2, <1>3, <1>4, <1>5 DEF Shop!Main, LaunchInv, LaunchTypes

\* While main m moves the other mains stay as they are.
LEMMA OthersStay ==
    ASSUME Shop!LaunchAssumption, LaunchInv, NEW m \in Mains, NEW at, NEW i, NEW pids, NEW opened,
           Changes(<<m, 0>>, at, i, pids, opened), kind' = kind
    PROVE  /\ \A k \in Mains : k # m => Shop!Main(k)' = Shop!Main(k)
           /\ Shop!Main(m)'.at = at /\ Shop!Main(m)'.i = i /\ Shop!Main(m)'.pids = pids
           /\ owner' = owner => \A k \in Mains : k # m =>
                 Removing(k)' /\ (NoCopies => Created(k)')
<1>1. ASSUME NEW k \in Mains, k # m PROVE Shop!Main(k)' = Shop!Main(k)
  <2>1. <<k, 0>> \in Shop!Procs /\ <<k, 0>> # <<m, 0>> BY <1>1, ProcsAre
  <2> QED BY <2>1 DEF Changes, Shop!Main
<1>2. Shop!Main(m)'.at = at /\ Shop!Main(m)'.i = i /\ Shop!Main(m)'.pids = pids
  BY DEF Changes, Shop!Main
<1>3. ASSUME owner' = owner, NEW k \in Mains, k # m
      PROVE  Removing(k)' /\ (NoCopies => Created(k)')
  <2>1. Shop!Main(k)' = Shop!Main(k) /\ Removing(k) /\ (NoCopies => Created(k))
    BY <1>1, <1>3 DEF LaunchInv
  <2> QED BY <1>3, <2>1 DEF Removing, Created, Shop!Runs
<1> QED BY <1>1, <1>2, <1>3

\* main starts with nothing created.
LEMMA StartKeeps ==
    ASSUME Shop!LaunchAssumption, LaunchInv, NEW m \in Mains, Shop!Start(m)
    PROVE  LaunchInv'
<1>1. Shop!Goto(<<m, 0>>, "none", "create") /\ kind' = kind /\ owner' = owner
  BY DEF Shop!Start
<1>2. "create" \in PlaceSet /\ LaunchTypes
  BY DEF LaunchInv, PlaceSet, MainPlaces, Unborn
<1>3. Shop!Main(m).at = "none" /\ Changes(<<m, 0>>, "create", 1, Shop!Main(m).pids, <<>>)
  BY <1>1, <1>2, MainIs, GotoChanges
<1>4. Shop!Main(m)'.at = "create" /\ Shop!Main(m)'.i = 1 BY <1>3, <1>1, OthersStay
<1>5. Bound(<<m, 0>>)'
  BY <1>3, MainIs DEF Bound, Changes, MainPlaces, Unborn
<1>6. ASSUME NEW k \in Mains PROVE Removing(k)' /\ (NoCopies => Created(k)')
  <2>1. CASE k = m BY <1>4, <2>1 DEF Removing, Created, Shop!Runs
  <2> QED BY <1>1, <1>3, <2>1, OthersStay
<1> QED BY <1>1, <1>3, <1>5, <1>6, MainIs, MainMoves DEF Unborn, Leaves

\* main creates the next object, or fails at one that exists.
LEMMA CreateKeeps ==
    ASSUME Shop!LaunchAssumption, LaunchInv, NEW m \in Mains, Shop!Create(m)
    PROVE  LaunchInv'
<1> DEFINE r == Shop!Main(m)
           x == r.i
<1>1. r.at = "create" /\ x \in 1 .. Last /\ kind' = kind
  BY MainIs DEF Shop!Create, Last
<1>2. /\ r \in ProcessSet /\ r.opened = <<>> /\ LaunchTypes /\ <<m, 0>> \in Shop!Procs /\ r.pids \in Nat
      /\ x \in Nat /\ Bound(<<m, 0>>) /\ r = proc[<<m, 0>>] /\ 0 \in Owners
  BY MainIs DEF LaunchInv, Owners
<1>3. CASE owner[x] = 0
  <2> DEFINE s == [r EXCEPT !.i = x + 1]
  <2>1. owner' = [owner EXCEPT ![x] = m] /\ proc' = [proc EXCEPT ![<<m, 0>>] = s]
    BY <1>2, <1>3 DEF Shop!Create
  <2>2. s \in ProcessSet /\ s.at = "create" /\ s.i = x + 1 /\ s.pids = r.pids /\ s.opened = <<>>
    <3>1. x + 1 \in Indices /\ r.at \in PlaceSet
      BY <1>1, <1>2, Fields DEF Indices, PlaceSet
    <3> HIDE DEF r, x
    <3> QED BY <1>1, <1>2, <3>1, RecordsAre
  <2> HIDE DEF s
  <2>3. Changes(<<m, 0>>, "create", x + 1, r.pids, <<>>) BY <1>2, <2>1, <2>2, Put
  <2>4. Shop!Main(m)'.at = "create" /\ Shop!Main(m)'.i = x + 1 /\ \A k \in Mains : k # m => Shop!Main(k)' = Shop!Main(k)
    BY <1>1, <2>3, OthersStay
  <2>5. Bound(<<m, 0>>)' BY <1>2, <2>3 DEF Bound, Changes, MainPlaces, Unborn
  <2>6. ASSUME NEW k \in Mains PROVE Removing(k)' /\ (NoCopies => Created(k)')
    <3>1. CASE k = m
      <4>1. ASSUME NoCopies PROVE \A y \in 1 .. Last : y < x + 1 => owner'[y] = m
        BY <1>1, <1>2, <2>1, <3>1, <4>1, MainIs, LastIs DEF LaunchInv, Created
      <4> QED BY <2>4, <3>1, <4>1 DEF Removing, Created, Shop!Runs
    <3>2. CASE k # m
      <4>1. \A y \in 1 .. Last : owner'[y] = k <=> owner[y] = k
        <5>1. m # 0 /\ k # 0 BY DEF Shop!LaunchAssumption
        <5> QED BY <1>1, <1>3, <2>1, <3>2, <5>1, MainIs
      <4>2. Removing(k) /\ (NoCopies => Created(k)) BY DEF LaunchInv
      <4> QED BY <1>1, <2>4, <3>2, <4>1, <4>2 DEF Removing, Created, Shop!Runs
    <3> QED BY <3>1, <3>2
  <2>7. owner' \in [1 .. Last -> Mains \cup {0}] BY <2>1, MainIs
  <2> QED BY <1>1, <2>3, <2>5, <2>6, <2>7, MainMoves DEF Unborn, Leaves
<1>4. CASE owner[x] # 0
  <2> DEFINE s == [r EXCEPT !.at = "failed"]
  <2>1. owner' = owner /\ proc' = [proc EXCEPT ![<<m, 0>>] = s]
    BY <1>2, <1>4 DEF Shop!Create
  <2>2. s \in ProcessSet /\ s.at = "failed" /\ s.i = x /\ s.pids = r.pids /\ s.opened = <<>>
    <3>1. x \in Indices /\ "failed" \in PlaceSet
      BY <1>1, <1>2, Fields DEF Indices, PlaceSet, MainPlaces, Unborn
    <3> HIDE DEF r
    <3> QED BY <1>1, <1>2, <3>1, RecordsAre
  <2> HIDE DEF s
  <2>3. Changes(<<m, 0>>, "failed", x, r.pids, <<>>) BY <1>2, <2>1, <2>2, Put
  <2>4. Shop!Main(m)'.at = "failed" /\ \A k \in Mains : k # m => Shop!Main(k)' = Shop!Main(k)
    BY <1>1, <2>3, OthersStay
  <2>5. Bound(<<m, 0>>)' BY <1>2, <2>3 DEF Bound, Changes, MainPlaces, Unborn
  <2>6. ASSUME NEW k \in Mains PROVE Removing(k)' /\ (NoCopies => Created(k)')
    <3>1. CASE k = m BY <2>4, <3>1 DEF Removing, Created, Shop!Runs
    <3> QED BY <1>1, <2>1, <2>3, <3>1, OthersStay
  <2> QED BY <1>1, <2>1, <2>3, <2>5, <2>6, MainIs, MainMoves DEF Unborn, Leaves
<1> QED BY <1>3, <1>4

\* When it forks, main has created all objects.
LEMMA InstallHandlerKeeps ==
    ASSUME Shop!LaunchAssumption, LaunchInv, NEW m \in Mains, Shop!InstallHandler(m)
    PROVE  LaunchInv'
<1>1. /\ Shop!Goto(<<m, 0>>, "create", "fork") /\ kind' = kind /\ owner' = owner /\ Shop!Main(m).i > Last
  BY DEF Shop!InstallHandler, Last
<1>2. "fork" \in PlaceSet /\ LaunchTypes BY DEF LaunchInv, PlaceSet, MainPlaces
<1>3. Shop!Main(m).at = "create" /\ Changes(<<m, 0>>, "fork", 1, Shop!Main(m).pids, <<>>)
  BY <1>1, <1>2, MainIs, GotoChanges
<1>4. Shop!Main(m)'.at = "fork" /\ Shop!Main(m)'.i = 1 BY <1>3, <1>1, OthersStay
<1>5. Bound(<<m, 0>>)'
  BY <1>3, MainIs DEF Bound, Changes, MainPlaces
<1>6. ASSUME NEW k \in Mains PROVE Removing(k)' /\ (NoCopies => Created(k)')
  <2>1. CASE k = m
    <3>1. ASSUME NoCopies PROVE \A x \in 1 .. Last : owner'[x] = m
      <4>1. Created(m) BY <3>1 DEF LaunchInv
      <4>2. \A x \in 1 .. Last : x < Shop!Main(m).i BY <1>1, LastIs, MainIs
      <4> QED BY <1>1, <1>3, <4>1, <4>2 DEF Created
    <3> QED BY <1>4, <2>1, <3>1 DEF Removing, Created
  <2> QED BY <1>1, <1>3, <2>1, OthersStay
<1> QED BY <1>1, <1>3, <1>5, <1>6, MainIs, MainMoves DEF Unborn, Leaves

\* main knows one more worker, the one it has forked.
LEMMA RecordKeeps ==
    ASSUME Shop!LaunchAssumption, LaunchInv, NEW m \in Mains, Shop!Record(m)
    PROVE  LaunchInv'
<1> DEFINE r == Shop!Main(m)
           k == r.pids + 1
           s == [r EXCEPT !.at = "fork", !.pids = k]
<1>1. r.at = "record" /\ kind' = kind /\ owner' = owner BY DEF Shop!Record
<1>2. /\ r \in ProcessSet /\ r.opened = <<>> /\ LaunchTypes /\ <<m, 0>> \in Shop!Procs /\ r.pids \in Nat
      /\ Bound(<<m, 0>>) /\ r = proc[<<m, 0>>]
  BY MainIs DEF LaunchInv
<1>3. proc' = [proc EXCEPT ![<<m, 0>>] = s] BY <1>2 DEF Shop!Record
<1>4. s \in ProcessSet /\ s.at = "fork" /\ s.i = r.i /\ s.pids = k /\ s.opened = <<>>
  <2>1. k \in Nat /\ "fork" \in PlaceSet BY <1>2 DEF PlaceSet, MainPlaces
  <2> HIDE DEF r, k
  <2> QED BY <1>2, <2>1, RecordsAre
<1> HIDE DEF s
<1>5. Changes(<<m, 0>>, "fork", r.i, k, <<>>) BY <1>2, <1>3, <1>4, Put
<1>6. Shop!Main(m)'.at = "fork" BY <1>1, <1>5, OthersStay
<1>7. Bound(<<m, 0>>)'
  <2>1. r.pids < Staff[m] /\ Staff[m] \in Nat
    BY <1>1, <1>2 DEF Bound, Shop!LaunchAssumption
  <2>2. k <= Staff[m] BY <1>2, <2>1
  <2> HIDE DEF k
  <2> QED BY <1>5, <2>2 DEF Bound, Changes, MainPlaces
<1>8. ASSUME NEW j \in Mains PROVE Removing(j)' /\ (NoCopies => Created(j)')
  <2>1. CASE j = m
    <3>1. ASSUME NoCopies PROVE \A x \in 1 .. Last : owner'[x] = m
      <4>1. Created(m) BY <3>1 DEF LaunchInv
      <4> QED BY <1>1, <4>1 DEF Created, Shop!Runs
    <3> QED BY <1>6, <2>1, <3>1 DEF Removing, Created
  <2> QED BY <1>1, <1>5, <2>1, OthersStay
<1>9. Shop!Runs(m) BY <1>1 DEF Shop!Runs
<1> HIDE DEF k
<1> QED BY <1>1, <1>5, <1>7, <1>8, <1>9, MainIs, MainMoves DEF Unborn, Leaves

\* A step of the processes of pizzeria m only.
LEMMA StepKeeps ==
    ASSUME Shop!LaunchAssumption, LaunchInv, NEW m \in Mains, kind' = kind, LaunchTypes',
           \A p \in Shop!Procs : p[1] # m => proc'[p] = proc[p],
           \A p \in Shop!Procs : p[1] = m => Bound(p)' /\ Crew(p)' /\ Signalling(p)',
           \A p \in Shop!Procs : p[1] = m /\ Shop!IsCopy(p) => Shop!IsCopy(p)',
           \A k \in Mains : Removing(k)',
           NoCopies /\ NoCopies' => \A k \in Mains : Created(k)',
           NoCopies /\ NoCopies' => \A p \in Shop!Procs : p[1] = m => Opened(p)'
    PROVE  LaunchInv'
<1>1. ASSUME NEW p \in Shop!Procs, p[1] # m
      PROVE  /\ Bound(p)' /\ Crew(p)' /\ Signalling(p)' /\ (Shop!IsCopy(p) <=> Shop!IsCopy(p)')
             /\ NoCopies => Opened(p)'
  <2>1. proc'[p] = proc[p] /\ Bound(p) /\ Crew(p) /\ Signalling(p) /\ (NoCopies => Opened(p))
    BY <1>1 DEF LaunchInv
  <2>2. Shop!Main(p[1])' = Shop!Main(p[1])
    <3>1. <<p[1], 0>> \in Shop!Procs /\ <<p[1], 0>>[1] # m BY <1>1, ProcsAre
    <3> QED BY <3>1 DEF Shop!Main
  <2>3. Bound(p)' BY <2>1 DEF Bound
  <2>4. Shop!IsCopy(p) <=> Shop!IsCopy(p)' BY <2>1 DEF Shop!IsCopy
  <2>5. Crew(p)' BY <2>1, <2>2, <2>4 DEF Crew
  <2>6. Signalling(p)' BY <2>1, <2>2 DEF Signalling, Shop!Recorded
  <2>7. NoCopies => Opened(p)' BY <2>1, <2>2 DEF Opened, Shop!Runs
  <2> QED BY <2>3, <2>4, <2>5, <2>6, <2>7
<1>2. NoCopies' => NoCopies BY <1>1 DEF NoCopies
<1> QED BY <1>1, <1>2 DEF LaunchInv

\* A worker opens the objects, works, or ends.
LEMMA WorkerMoves ==
    ASSUME Shop!LaunchAssumption, LaunchInv, NEW p \in Shop!Procs, p[2] > 0, proc[p].at \in Alive,
           NEW at \in {"open", "works", "ended"}, NEW i, NEW o, Changes(p, at, i, proc[p].pids, o),
           kind' = kind, owner' = owner, Bound(p)', NoCopies => Opened(p)'
    PROVE  LaunchInv'
<1> DEFINE m == p[1]
<1>1. m \in Mains /\ LaunchTypes' BY ProcsAre DEF LaunchInv, LaunchTypes, Changes
<1>2. \A q \in Shop!Procs : q # p => proc'[q] = proc[q] BY DEF Changes
<1>3. proc'[p].at = at BY DEF Changes
<1>4. \A k \in Mains : Shop!Main(k)' = Shop!Main(k)
  <2>1. ASSUME NEW k \in Mains PROVE <<k, 0>> \in Shop!Procs /\ <<k, 0>> # p
    <3>1. <<k, 0>>[2] = 0 OBVIOUS
    <3> QED BY <3>1, ProcsAre
  <2> QED BY <1>2, <2>1 DEF Shop!Main
<1>5. ASSUME NEW q \in Shop!Procs
      PROVE  /\ Bound(q)' /\ Crew(q)' /\ Signalling(q)' /\ (Shop!IsCopy(q) <=> Shop!IsCopy(q)')
             /\ NoCopies => Opened(q)'
  <2>1. Bound(q) /\ Crew(q) /\ Signalling(q) /\ (NoCopies => Opened(q)) /\ Shop!Main(q[1])' = Shop!Main(q[1])
    BY <1>4, ProcsAre DEF LaunchInv
  <2>2. CASE q = p
    <3>1. proc[q].at \notin Leaves \cup {"none"} /\ at \notin Leaves \cup {"none"}
      BY <2>2 DEF Alive, Leaves
    <3>2. Crew(q)' BY <1>3, <2>1, <2>2, <3>1 DEF Crew, Shop!IsCopy, Leaves
    <3>3. Signalling(q)' BY <2>1, <2>2 DEF Signalling, Shop!Recorded
    <3>4. Shop!IsCopy(q) <=> Shop!IsCopy(q)'
      BY <1>3, <2>2, <3>1 DEF Shop!IsCopy, Leaves
    <3> QED BY <2>2, <3>2, <3>3, <3>4
  <2>3. CASE q # p
    <3>1. proc'[q] = proc[q] BY <1>2, <2>3
    <3> QED
      BY <2>1, <3>1
        DEF Bound, Crew, Shop!IsCopy, Signalling, Shop!Recorded, Opened,
         Shop!Runs
  <2> QED BY <2>2, <2>3
<1>6. \A k \in Mains : Removing(k)' /\ (NoCopies => Created(k)')
  BY <1>4 DEF LaunchInv, Removing, Created, Shop!Runs
<1> HIDE DEF m
<1> QED BY <1>1, <1>2, <1>5, <1>6, StepKeeps DEF m

\* A child that calls execl has main's objects to open.
LEMMA ExecKeeps ==
    ASSUME Shop!LaunchAssumption, LaunchInv, NEW p \in Shop!Procs, Shop!Exec(p)
    PROVE  LaunchInv'
<1>1. Shop!Goto(p, "forked", "open") /\ kind' = kind /\ owner' = owner
  BY DEF Shop!Exec
<1>2. "open" \in PlaceSet /\ LaunchTypes
  BY DEF LaunchInv, PlaceSet, WorkerPlaces, Alive
<1>3. proc[p].at = "forked" /\ Changes(p, "open", 1, proc[p].pids, proc[p].opened)
  BY <1>1, <1>2, GotoChanges
<1>4. Bound(p) /\ p[2] \in Nat BY ProcsAre DEF LaunchInv
<1>5. p[2] > 0 BY <1>3, <1>4 DEF Bound, MainPlaces, Unborn, Leaves
<1>6. Bound(p)' BY <1>3, <1>4, <1>5, LastIs DEF Bound, Changes, WorkerPlaces, Alive
<1>7. Shop!Main(p[1])' = Shop!Main(p[1])
  <2>1. <<p[1], 0>> \in Shop!Procs /\ <<p[1], 0>> # p BY <1>5, ProcsAre
  <2> QED BY <1>3, <2>1 DEF Shop!Main, Changes
<1>8. NoCopies => Opened(p)'
  <2>1. NoCopies => Opened(p) BY DEF LaunchInv
  <2>2. proc'[p].opened = proc[p].opened BY <1>3 DEF Changes
  <2> QED BY <1>7, <2>1, <2>2 DEF Opened, Shop!Runs
<1>9. proc[p].at \in Alive BY <1>3 DEF Alive
<1> QED BY <1>1, <1>3, <1>5, <1>6, <1>8, <1>9, WorkerMoves

\* A worker ends when its semaphores are removed.
LEMMA SemaphoresAreGoneKeeps ==
    ASSUME Shop!LaunchAssumption, LaunchInv, NEW p \in Shop!Procs, Shop!SemaphoresAreGone(p)
    PROVE  LaunchInv'
<1>1. Shop!Goto(p, "works", "ended") /\ kind' = kind /\ owner' = owner
  BY DEF Shop!SemaphoresAreGone
<1>2. "ended" \in PlaceSet /\ LaunchTypes BY DEF LaunchInv, PlaceSet, WorkerPlaces
<1>3. proc[p].at = "works" /\ Changes(p, "ended", 1, proc[p].pids, proc[p].opened)
  BY <1>1, <1>2, GotoChanges
<1>4. Bound(p) /\ p[2] \in Nat BY ProcsAre DEF LaunchInv
<1>5. p[2] > 0 BY <1>3, <1>4 DEF Bound, MainPlaces, Unborn, Leaves
<1>6. Bound(p)' BY <1>3, <1>4, <1>5, LastIs DEF Bound, Changes, WorkerPlaces
<1>7. Shop!Main(p[1])' = Shop!Main(p[1])
  <2>1. <<p[1], 0>> \in Shop!Procs /\ <<p[1], 0>> # p BY <1>5, ProcsAre
  <2> QED BY <1>3, <2>1 DEF Shop!Main, Changes
<1>8. NoCopies => Opened(p)'
  <2>1. NoCopies => Opened(p) BY DEF LaunchInv
  <2>2. proc'[p].opened = proc[p].opened BY <1>3 DEF Changes
  <2> QED BY <1>7, <2>1, <2>2 DEF Opened, Shop!Runs
<1>9. proc[p].at \in Alive BY <1>3 DEF Alive
<1> QED BY <1>1, <1>3, <1>5, <1>6, <1>8, <1>9, WorkerMoves

\* A worker opens an object while main runs: it is main's.
LEMMA OpenKeeps ==
    ASSUME Shop!LaunchAssumption, LaunchInv, NEW p \in Shop!Procs, Shop!Open(p)
    PROVE  LaunchInv'
<1> DEFINE r == proc[p]
           x == r.i
           next == IF owner[x] = 0 THEN "ended" ELSE IF x = Len(Shop!Names) THEN "works" ELSE "open"
           o == Append(r.opened, owner[x])
           k == x + 1
           s == [r EXCEPT !.at = next, !.i = k, !.opened = o]
<1>1. r.at = "open" /\ proc' = [proc EXCEPT ![p] = s] /\ kind' = kind /\ owner' = owner
  BY DEF Shop!Open
<1>2. r \in ProcessSet /\ LaunchTypes /\ Bound(p) /\ p[1] \in Mains /\ p[2] \in Nat
  BY ProcsAre DEF LaunchInv, LaunchTypes
<1>3. r.opened \in Seq(Owners) /\ x \in Nat \ {0} /\ r.pids \in Nat
  BY <1>2, Fields DEF Owners
<1>4. x \in 1 .. Last /\ x <= Last BY <1>1, <1>2, <1>3, LastIs DEF Bound
<1>5. owner[x] \in Owners BY <1>2, <1>4 DEF LaunchTypes, Owners
<1>6. next \in {"open", "works", "ended"} /\ (next = "open" => x # Last) BY DEF Last
<1>7. s \in ProcessSet /\ s.at = next /\ s.i = k /\ s.pids = r.pids /\ s.opened = o
  <2>1. k \in Indices /\ o \in Seq(Owners) BY <1>3, <1>5 DEF Indices
  <2>2. next \in PlaceSet BY <1>6 DEF PlaceSet, WorkerPlaces, Alive
  <2> HIDE DEF r, k, o, next
  <2> QED BY <1>2, <2>1, <2>2, RecordsAre
<1> HIDE DEF s, next
<1>8. Changes(p, next, k, r.pids, o) BY <1>1, <1>2, <1>7, Put
<1>9. p[2] > 0 BY <1>1, <1>2 DEF Bound, MainPlaces, Unborn, Leaves
<1>10. Bound(p)'
  <2>1. next = "open" => k <= Last BY <1>3, <1>4, <1>6, LastIs
  <2>2. r.pids <= Staff[p[1]] /\ r.pids < p[2] BY <1>2, <1>9 DEF Bound
  <2>3. /\ proc'[p].at = next /\ proc'[p].i = k /\ proc'[p].pids = r.pids
    BY <1>8 DEF Changes
  <2> HIDE DEF r, k
  <2> QED BY <1>2, <1>6, <1>9, <2>1, <2>2, <2>3 DEF Bound, WorkerPlaces, Alive
<1>11. Shop!Main(p[1])' = Shop!Main(p[1])
  <2>1. <<p[1], 0>> \in Shop!Procs /\ <<p[1], 0>> # p BY <1>9, ProcsAre
  <2> QED BY <1>8, <2>1 DEF Shop!Main, Changes
<1>12. ASSUME NoCopies PROVE Opened(p)'
  <2>1. ASSUME Shop!Runs(p[1])
        PROVE \A j \in DOMAIN o : o[j] = p[1]
    <3>1. owner[x] = p[1] BY <1>2, <1>4, <1>12, <2>1 DEF LaunchInv, Created
    <3>2. \A j \in DOMAIN r.opened : r.opened[j] = p[1]
      BY <1>12, <2>1 DEF LaunchInv, Opened
    <3> HIDE DEF r
    <3> QED BY <1>3, <3>1, <3>2
  <2>2. proc'[p].opened = o BY <1>8 DEF Changes
  <2> QED BY <1>11, <2>1, <2>2 DEF Opened, Shop!Runs
<1>13. r.at \in Alive BY <1>1 DEF Alive
<1> HIDE DEF o, k
<1> QED BY <1>1, <1>6, <1>8, <1>9, <1>10, <1>12, <1>13, WorkerMoves

\* The child is a copy of a main that is not in its handler.
LEMMA ForkKeeps ==
    ASSUME Shop!LaunchAssumption, LaunchInv, NEW m \in Mains, Shop!Fork(m)
    PROVE  LaunchInv'
<1> DEFINE r == Shop!Main(m)
           j == r.pids + 1
           w == <<m, j>>
           s == [r EXCEPT !.at = "record"]
           f == [r EXCEPT !.at = "forked"]
<1>1. r.at = "fork" /\ j <= Staff[m] /\ kind' = kind /\ owner' = owner
  BY DEF Shop!Fork
<1>2. /\ r \in ProcessSet /\ r.opened = <<>> /\ LaunchTypes /\ <<m, 0>> \in Shop!Procs /\ r.pids \in Nat
      /\ Bound(<<m, 0>>) /\ r = proc[<<m, 0>>] /\ Staff[m] \in Nat
  BY MainIs DEF LaunchInv, Shop!LaunchAssumption
<1>3. w \in Shop!Procs /\ w # <<m, 0>> /\ w[2] > 0 /\ r.pids < w[2] /\ w[1] = m
  BY <1>1, <1>2, ProcsAre
<1>4. proc' = [[proc EXCEPT ![<<m, 0>>] = s] EXCEPT ![w] = f]
  BY <1>2, <1>3 DEF Shop!Fork
<1>5. /\ s \in ProcessSet /\ s.at = "record" /\ s.pids = r.pids /\ s.opened = <<>>
      /\ f \in ProcessSet /\ f.at = "forked" /\ f.pids = r.pids /\ f.opened = <<>>
  <2>1. "record" \in PlaceSet /\ "forked" \in PlaceSet
    BY DEF PlaceSet, MainPlaces, WorkerPlaces, Alive
  <2> HIDE DEF r
  <2>2. s \in ProcessSet /\ s.at = "record" /\ s.pids = r.pids /\ s.opened = <<>>
    BY <1>2, <2>1, RecordsAre
  <2>3. f \in ProcessSet /\ f.at = "forked" /\ f.pids = r.pids /\ f.opened = <<>>
    BY <1>2, <2>1, RecordsAre
  <2> QED BY <2>2, <2>3
<1> HIDE DEF s, f, w
<1>6. /\ proc'[<<m, 0>>] = s /\ proc'[w] = f /\ proc' \in [Shop!Procs -> ProcessSet]
      /\ \A q \in Shop!Procs : q # <<m, 0>> /\ q # w => proc'[q] = proc[q]
  BY <1>2, <1>3, <1>4, <1>5 DEF LaunchTypes
<1>7. LaunchTypes' BY <1>1, <1>2, <1>6 DEF LaunchTypes
<1>8. Shop!Main(m)'.at = "record" /\ \A k \in Mains : k # m => Shop!Main(k)' = Shop!Main(k)
  <2>1. ASSUME NEW k \in Mains, k # m PROVE Shop!Main(k)' = Shop!Main(k)
    <3>1. <<k, 0>> \in Shop!Procs /\ <<k, 0>> # <<m, 0>> /\ <<k, 0>>[1] # w[1]
      BY <1>3, <2>1, ProcsAre
    <3> QED BY <1>6, <3>1 DEF Shop!Main
  <2> QED BY <1>5, <1>6, <2>1 DEF Shop!Main
<1>9. ASSUME NEW q \in Shop!Procs, q[1] = m
      PROVE  /\ Bound(q)' /\ ~Shop!IsCopy(q) /\ ~Shop!IsCopy(q)' /\ (NoCopies => Opened(q)')
             /\ q[2] > 0 => proc'[q].at \in WorkerPlaces
  <2>1. Bound(q) /\ Crew(q) /\ (NoCopies => Opened(q)) BY DEF LaunchInv
  <2>2. ~Shop!IsCopy(q) BY <1>1, <1>9, <2>1 DEF Crew, Leaves
  <2>3. Shop!Runs(m) BY <1>1 DEF Shop!Runs
  <2>4. CASE q = <<m, 0>>
    <3>1. proc'[q] = s /\ q[2] = 0 BY <1>6, <2>4
    <3>2. r.pids < Staff[m] BY <1>1, <1>2
    <3>3. Bound(q)' BY <1>2, <1>5, <1>9, <2>4, <3>1, <3>2 DEF Bound, MainPlaces
    <3>4. Opened(q)' BY <1>5, <3>1 DEF Opened
    <3> QED BY <2>2, <3>1, <3>3, <3>4 DEF Shop!IsCopy
  <2>5. CASE q = w
    <3>1. proc'[q] = f /\ q[2] > 0 BY <1>3, <1>6, <2>5
    <3>2. Bound(q)'
      BY <1>2, <1>3, <1>5, <1>9, <2>5, <3>1 DEF Bound, WorkerPlaces, Alive
    <3>3. Opened(q)' BY <1>5, <3>1 DEF Opened
    <3>4. ~Shop!IsCopy(q)' BY <1>5, <3>1 DEF Shop!IsCopy
    <3> QED BY <1>5, <2>2, <3>1, <3>2, <3>3, <3>4 DEF WorkerPlaces, Alive
  <2>6. CASE q # <<m, 0>> /\ q # w
    <3>1. proc'[q] = proc[q] BY <1>6, <2>6
    <3> QED BY <1>9, <2>1, <2>2, <2>3, <3>1 DEF Bound, Shop!IsCopy, Opened
  <2> QED BY <2>4, <2>5, <2>6
<1>10. ASSUME NEW q \in Shop!Procs, q[1] = m PROVE Crew(q)' /\ Signalling(q)'
  BY <1>8, <1>9, <1>10 DEF Crew, Signalling, Unborn, Leaves
<1>11. ASSUME NEW k \in Mains PROVE Removing(k)' /\ (NoCopies => Created(k)')
  <2>1. Removing(k) /\ (NoCopies => Created(k)) BY DEF LaunchInv
  <2>2. CASE k = m BY <1>1, <1>8, <2>1, <2>2 DEF Removing, Created, Shop!Runs
  <2>3. CASE k # m BY <1>1, <1>8, <2>1, <2>3 DEF Removing, Created, Shop!Runs
  <2> QED BY <2>2, <2>3
<1>12. \A p \in Shop!Procs : p[1] # m => proc'[p] = proc[p] BY <1>3, <1>6
<1> QED BY <1>1, <1>7, <1>9, <1>10, <1>11, <1>12, StepKeeps

\* What SIGINT does to a process.
LEMMA SignalledIs ==
    ASSUME NEW r \in ProcessSet
    PROVE  /\ Shop!Signalled(r) \in ProcessSet
           /\ Shop!Signalled(r).pids = r.pids /\ Shop!Signalled(r).opened = r.opened
           /\ Shop!Signalled(r).at = CASE r.at = "create" -> "killed"
                                  [] r.at \in {"fork", "record", "forked"} -> "handler"
                                  [] r.at \in {"open", "works"} -> "ended"
                                  [] OTHER -> r.at
           /\ Shop!Signalled(r).i = IF r.at \in {"fork", "record", "forked"} THEN 1 ELSE r.i
<1>1. "killed" \in PlaceSet /\ "handler" \in PlaceSet /\ "ended" \in PlaceSet
  BY DEF PlaceSet, MainPlaces, WorkerPlaces, Unborn, Leaves
<1>2. CASE r.at = "create"
  <2>1. Shop!Signalled(r) = [r EXCEPT !.at = "killed"] BY <1>2 DEF Shop!Signalled
  <2>2. /\ [r EXCEPT !.at = "killed"] \in ProcessSet /\ [r EXCEPT !.at = "killed"].at = "killed"
        /\ [r EXCEPT !.at = "killed"].i = r.i /\ [r EXCEPT !.at = "killed"].pids = r.pids
        /\ [r EXCEPT !.at = "killed"].opened = r.opened
    BY <1>1, RecordsAre
  <2> QED BY <1>2, <2>1, <2>2
<1>3. CASE r.at \in {"fork", "record", "forked"}
  <2> DEFINE k == 1
             s == [r EXCEPT !.at = "handler", !.i = k]
  <2>1. Shop!Signalled(r) = s BY <1>3 DEF Shop!Signalled
  <2>2. k \in Indices BY DEF Indices
  <2> HIDE DEF k
  <2>3. s \in ProcessSet /\ s.at = "handler" /\ s.i = k /\ s.pids = r.pids /\ s.opened = r.opened
    BY <1>1, <2>2, RecordsAre
  <2> HIDE DEF s
  <2> QED BY <1>3, <2>1, <2>3 DEF k
<1>4. CASE r.at \in {"open", "works"}
  <2>1. Shop!Signalled(r) = [r EXCEPT !.at = "ended"] BY <1>4 DEF Shop!Signalled
  <2>2. /\ [r EXCEPT !.at = "ended"] \in ProcessSet /\ [r EXCEPT !.at = "ended"].at = "ended"
        /\ [r EXCEPT !.at = "ended"].i = r.i /\ [r EXCEPT !.at = "ended"].pids = r.pids
        /\ [r EXCEPT !.at = "ended"].opened = r.opened
    BY <1>1, RecordsAre
  <2> QED BY <1>4, <2>1, <2>2
<1>5. CASE r.at \notin {"create", "fork", "record", "forked", "open", "works"}
  <2>1. Shop!Signalled(r) = r BY <1>5 DEF Shop!Signalled
  <2> QED BY <1>5, <2>1
<1> QED BY <1>2, <1>3, <1>4, <1>5

\* A signal, or none, for a process.
Hit(q) == proc'[q] = proc[q] \/ proc'[q] = Shop!Signalled(proc[q])

\* A signal only ends a worker or sends a copy of main, or main, to the handler.
LEMMA HitIs ==
    ASSUME LaunchTypes, NEW q \in Shop!Procs, Bound(q), Hit(q)
    PROVE  /\ proc'[q] \in ProcessSet /\ Bound(q)'
           /\ Shop!IsCopy(q) => Shop!IsCopy(q)'
           /\ proc[q].at \notin Alive => proc'[q].at \notin Alive
           /\ proc[q].at = "none" => proc'[q].at = "none"
           /\ proc'[q].pids = proc[q].pids /\ proc'[q].opened = proc[q].opened
           /\ proc[q].at \notin {"fork", "record", "forked"} => proc'[q].i = proc[q].i
<1> DEFINE r == proc[q]
<1>1. r \in ProcessSet /\ Shop!Signalled(r) \in ProcessSet /\ r.i \in Nat \ {0} /\ r.pids \in Nat
  BY Fields, SignalledIs DEF LaunchTypes
<1>2. CASE proc'[q] = r BY <1>1, <1>2 DEF Bound, Shop!IsCopy
<1>3. CASE proc'[q] = Shop!Signalled(r)
  <2>1. /\ proc'[q].pids = r.pids /\ proc'[q].opened = r.opened
        /\ proc'[q].at = CASE r.at = "create" -> "killed"
                           [] r.at \in {"fork", "record", "forked"} -> "handler"
                           [] r.at \in {"open", "works"} -> "ended"
                           [] OTHER -> r.at
        /\ proc'[q].i = IF r.at \in {"fork", "record", "forked"} THEN 1 ELSE r.i
    BY <1>1, <1>3, SignalledIs
  <2> HIDE DEF r
  <2>2. CASE r.at = "create"
    <3>1. proc'[q].at = "killed" /\ proc'[q].i = r.i BY <2>1, <2>2
    <3> QED
      BY <1>1, <1>3, <2>1, <2>2, <3>1 DEF r, Bound, Shop!IsCopy, Alive, MainPlaces,
         WorkerPlaces, Unborn, Leaves
  <2>3. CASE r.at \in {"fork", "record", "forked"}
    <3>1. proc'[q].at = "handler" /\ proc'[q].i = 1 BY <2>1, <2>3
    <3> QED
      BY <1>1, <1>3, <2>1, <2>3, <3>1, LastIs DEF r, Bound, Shop!IsCopy, Alive,
         MainPlaces, WorkerPlaces, Unborn, Leaves
  <2>4. CASE r.at \in {"open", "works"}
    <3>1. proc'[q].at = "ended" /\ proc'[q].i = r.i BY <2>1, <2>4
    <3> QED
      BY <1>1, <1>3, <2>1, <2>4, <3>1 DEF r, Bound, Shop!IsCopy, Alive, MainPlaces,
         WorkerPlaces, Unborn, Leaves
  <2>5. CASE r.at \notin {"create", "fork", "record", "forked", "open", "works"}
    <3>1. proc'[q].at = r.at /\ proc'[q].i = r.i BY <2>1, <2>5
    <3> QED BY <1>1, <1>3, <2>1, <2>5, <3>1 DEF r, Bound, Shop!IsCopy, Alive
  <2> QED BY <2>2, <2>3, <2>4, <2>5
<1> QED BY <1>2, <1>3 DEF Hit

\* A signal reaches main or its whole process group: a child before execl
\* runs the handler only if main does.
LEMMA InterruptKeeps ==
    ASSUME Shop!LaunchAssumption, LaunchInv, NEW m \in Mains, Shop!Interrupt(m)
    PROVE  LaunchInv'
<1> DEFINE r == Shop!Main(m)
<1>1. /\ r.at \in {"create", "fork", "record", "handler"} /\ kind' = kind /\ owner' = owner
      /\ proc' \in [Shop!Procs -> ProcessSet]
      /\ proc'[<<m, 0>>] = Shop!Signalled(r)
      /\ \A q \in Shop!Procs : IF q[1] = m THEN Hit(q) ELSE proc'[q] = proc[q]
  <2>1. /\ r.at \in {"create", "fork", "record", "handler"} /\ kind' = kind /\ owner' = owner
        /\ \/ proc' = [proc EXCEPT ![<<m, 0>>] = Shop!Signalled(@)]
           \/ proc' = [p \in Shop!Procs |-> IF p[1] = m THEN Shop!Signalled(proc[p]) ELSE proc[p]]
    BY DEF Shop!Interrupt
  <2>2. <<m, 0>> \in Shop!Procs /\ LaunchTypes /\ r = proc[<<m, 0>>] /\ r \in ProcessSet /\ Shop!Signalled(r) \in ProcessSet
    BY MainIs, SignalledIs DEF LaunchInv
  <2>3. CASE proc' = [proc EXCEPT ![<<m, 0>>] = Shop!Signalled(@)]
    <3>1. proc' = [proc EXCEPT ![<<m, 0>>] = Shop!Signalled(r)] BY <2>2, <2>3
    <3> HIDE DEF r
    <3>2. /\ proc' \in [Shop!Procs -> ProcessSet] /\ proc'[<<m, 0>>] = Shop!Signalled(r)
          /\ \A q \in Shop!Procs : q # <<m, 0>> => proc'[q] = proc[q]
      BY <2>2, <3>1 DEF LaunchTypes
    <3> QED BY <2>1, <2>2, <3>2 DEF Hit
  <2>4. CASE proc' = [p \in Shop!Procs |-> IF p[1] = m THEN Shop!Signalled(proc[p]) ELSE proc[p]]
    <3>1. \A q \in Shop!Procs : proc[q] \in ProcessSet /\ Shop!Signalled(proc[q]) \in ProcessSet
      BY <2>2, SignalledIs DEF LaunchTypes
    <3>2. <<m, 0>>[1] = m OBVIOUS
    <3>3. proc'[<<m, 0>>] = Shop!Signalled(r) BY <2>2, <2>4, <3>2
    <3>4. proc' \in [Shop!Procs -> ProcessSet] BY <2>4, <3>1
    <3>5. \A q \in Shop!Procs : IF q[1] = m THEN Hit(q) ELSE proc'[q] = proc[q]
      BY <2>4 DEF Hit
    <3> QED BY <2>1, <3>3, <3>4, <3>5
  <2> QED BY <2>1, <2>3, <2>4
<1>2. LaunchTypes /\ LaunchTypes' BY <1>1 DEF LaunchInv, LaunchTypes
<1>3. ASSUME NEW q \in Shop!Procs, q[1] = m
      PROVE  /\ Bound(q)' /\ (Shop!IsCopy(q) => Shop!IsCopy(q)')
             /\ proc[q].at \notin Alive => proc'[q].at \notin Alive
             /\ proc[q].at = "none" => proc'[q].at = "none"
             /\ proc'[q].pids = proc[q].pids
  <2>1. Bound(q) /\ Hit(q) BY <1>1, <1>3 DEF LaunchInv
  <2> QED BY <1>2, <2>1, HitIs
<1>4. /\ Shop!Main(m)' = Shop!Signalled(r) /\ r \in ProcessSet /\ r.i \in Nat /\ r.pids \in Nat
      /\ \A k \in Mains : k # m => Shop!Main(k)' = Shop!Main(k)
  <2>1. ASSUME NEW k \in Mains, k # m PROVE Shop!Main(k)' = Shop!Main(k)
    <3>1. <<k, 0>> \in Shop!Procs /\ <<k, 0>>[1] # m BY <2>1, ProcsAre
    <3> QED BY <1>1, <3>1 DEF Shop!Main
  <2>2. Shop!Main(m)' = Shop!Signalled(r) BY <1>1 DEF Shop!Main
  <2> QED BY <2>1, <2>2, MainIs
<1>5. /\ r.at = "create" => Shop!Main(m)'.at = "killed"
      /\ r.at \in {"fork", "record"} => Shop!Main(m)'.at = "handler" /\ Shop!Main(m)'.i = 1
      /\ r.at = "handler" => Shop!Main(m)'.at = "handler" /\ Shop!Main(m)'.i = r.i
      /\ Shop!Main(m)'.pids = r.pids
  <2> HIDE DEF r
  <2>1. /\ Shop!Signalled(r).at = CASE r.at = "create" -> "killed"
                                  [] r.at \in {"fork", "record", "forked"} -> "handler"
                                  [] r.at \in {"open", "works"} -> "ended"
                                  [] OTHER -> r.at
        /\ Shop!Signalled(r).i = IF r.at \in {"fork", "record", "forked"} THEN 1 ELSE r.i
        /\ Shop!Signalled(r).pids = r.pids
    BY <1>4, SignalledIs
  <2>2. CASE r.at = "create" BY <1>4, <2>1, <2>2
  <2>3. CASE r.at \in {"fork", "record"} BY <1>4, <2>1, <2>3
  <2>4. CASE r.at = "handler" BY <1>4, <2>1, <2>4
  <2> QED BY <1>1, <2>2, <2>3, <2>4
<1> HIDE DEF r
<1>6. Shop!Main(m)'.at \in {"killed", "handler"} /\ ~Shop!Runs(m)' /\ Shop!Main(m)'.at # "exited"
  BY <1>1, <1>5 DEF Shop!Runs
<1>7. ASSUME NEW q \in Shop!Procs, q[1] = m
      PROVE  Crew(q)' /\ Signalling(q)' /\ Opened(q)'
  <2>1. Crew(q) /\ Signalling(q) /\ q[2] \in Nat BY ProcsAre DEF LaunchInv
  <2>2. Opened(q)' BY <1>6, <1>7 DEF Opened
  <2>3. CASE r.at = "create"
    <3>1. Shop!Main(m)'.at = "killed" /\ (q[2] > 0 => proc'[q].at = "none")
      BY <1>3, <1>5, <1>7, <2>1, <2>3 DEF Crew, Unborn, r
    <3> QED BY <1>7, <2>2, <3>1 DEF Crew, Signalling, Shop!IsCopy, Unborn, Leaves
  <2>4. CASE r.at \in {"fork", "record"}
    <3>1. Shop!Main(m)'.at = "handler" /\ Shop!Main(m)'.i = 1 BY <1>5, <2>4
    <3> QED BY <1>7, <2>1, <2>2, <3>1 DEF Crew, Signalling, Unborn, Leaves
  <2>5. CASE r.at = "handler"
    <3>1. Shop!Main(m)'.at = "handler" /\ Shop!Main(m)'.i = r.i /\ Shop!Main(m)'.pids = r.pids
      BY <1>5, <2>5
    <3>2. Signalling(q)'
      BY <1>3, <1>7, <2>1, <2>5, <3>1 DEF Signalling, Shop!Recorded, Leaves, r
    <3> QED BY <1>7, <2>2, <3>1, <3>2 DEF Crew, Unborn, Leaves
  <2> QED BY <1>1, <2>3, <2>4, <2>5 DEF r
<1>8. ASSUME NEW k \in Mains PROVE Removing(k)' /\ (NoCopies => Created(k)')
  <2>1. Removing(k) /\ (NoCopies => Created(k)) BY DEF LaunchInv
  <2>2. CASE k # m BY <1>1, <1>4, <2>1, <2>2 DEF Removing, Created, Shop!Runs
  <2>3. CASE k = m /\ r.at = "create"
    <3>1. Shop!Main(m)'.at = "killed" BY <1>5, <2>3
    <3> QED BY <2>3, <3>1 DEF Removing, Created, Shop!Runs
  <2>4. CASE k = m /\ r.at \in {"fork", "record"}
    <3>1. Shop!Main(m)'.at = "handler" /\ Shop!Main(m)'.i = 1 /\ Shop!Main(m)'.pids = r.pids
      BY <1>5, <2>4
    <3>2. NoCopies => \A x \in 1 .. Last : owner'[x] = m
      BY <1>1, <2>1, <2>4 DEF Created, Shop!Runs, r
    <3>3. Removing(k)' BY <1>4, <2>4, <3>1 DEF Removing
    <3>4. NoCopies => Created(k)' BY <2>4, <3>1, <3>2 DEF Created
    <3> QED BY <3>3, <3>4
  <2>5. CASE k = m /\ r.at = "handler"
    <3>1. Shop!Main(m)'.at = "handler" /\ Shop!Main(m)'.i = r.i /\ Shop!Main(m)'.pids = r.pids
      BY <1>5, <2>5
    <3> QED BY <1>1, <2>1, <2>5, <3>1 DEF Removing, Created, Shop!Runs, r
  <2> QED BY <1>1, <2>2, <2>3, <2>4, <2>5 DEF r
<1> QED BY <1>1, <1>2, <1>3, <1>7, <1>8, StepKeeps

\* The handler signals one more worker, which is then at work no more.
LEMMA KillWorkerKeeps ==
    ASSUME Shop!LaunchAssumption, LaunchInv, NEW p \in Shop!Procs, Shop!KillWorker(p)
    PROVE  LaunchInv'
<1> DEFINE m == p[1]
           r == proc[p]
           k == r.i
           t == <<m, k>>
           s == [r EXCEPT !.i = k + 1]
<1>1. r.at = "handler" /\ k <= r.pids /\ kind' = kind /\ owner' = owner
  BY DEF Shop!KillWorker
<1>2. /\ r \in ProcessSet /\ LaunchTypes /\ Bound(p) /\ m \in Mains /\ p[2] \in Nat /\ p = <<m, p[2]>>
      /\ k \in Nat \ {0} /\ r.pids \in Nat /\ <<m, 0>> \in Shop!Procs /\ Staff[m] \in Nat
  BY ProcsAre, Fields DEF LaunchInv, LaunchTypes, Shop!LaunchAssumption
<1>3. t \in Shop!Procs /\ t[2] > 0 /\ t[1] = m /\ t # <<m, 0>>
  <2>1. k <= Staff[m] BY <1>1, <1>2 DEF Bound
  <2> QED BY <1>2, <2>1, ProcsAre
<1>4. s \in ProcessSet /\ s.at = "handler" /\ s.i = k + 1 /\ s.pids = r.pids /\ s.opened = r.opened
  <2>1. k + 1 \in Indices BY <1>2 DEF Indices
  <2> HIDE DEF r, k
  <2>2. s \in ProcessSet /\ s.at = r.at /\ s.i = k + 1 /\ s.pids = r.pids /\ s.opened = r.opened
    BY <1>2, <2>1, RecordsAre
  <2> HIDE DEF s
  <2> QED BY <1>1, <2>2
<1>5. t # p
  <2>1. p[2] > 0 => r.pids < p[2] BY <1>2 DEF Bound
  <2> QED BY <1>1, <1>2, <1>3, <2>1
<1>6. proc' = [[proc EXCEPT ![p] = s] EXCEPT ![t] = Shop!Signalled(proc[t])]
  BY DEF Shop!KillWorker
<1>7. Shop!Signalled(proc[t]) \in ProcessSet
  BY <1>2, <1>3, SignalledIs DEF LaunchTypes
<1>8. /\ proc' \in [Shop!Procs -> ProcessSet] /\ proc'[p] = s
      /\ \A q \in Shop!Procs : q # p => Hit(q) /\ (q # t => proc'[q] = proc[q])
  <2> HIDE DEF s, t
  <2> QED BY <1>2, <1>3, <1>4, <1>5, <1>6, <1>7 DEF LaunchTypes, Hit
<1> HIDE DEF s
<1>9. LaunchTypes' BY <1>1, <1>2, <1>8 DEF LaunchTypes
<1>10. /\ Shop!Main(m) \in ProcessSet /\ Shop!Main(m).at \in Leaves
       /\ Shop!Main(m)'.at = Shop!Main(m).at /\ Shop!Main(m)'.pids = Shop!Main(m).pids
       /\ IF p = <<m, 0>> THEN Shop!Main(m) = r /\ Shop!Main(m)'.i = k + 1 ELSE Shop!Main(m)'.i = Shop!Main(m).i
       /\ \A j \in Mains : j # m => Shop!Main(j)' = Shop!Main(j)
  <2>1. ASSUME NEW j \in Mains, j # m PROVE Shop!Main(j)' = Shop!Main(j)
    <3>1. <<j, 0>> \in Shop!Procs /\ <<j, 0>>[1] # m BY <2>1, ProcsAre
    <3>2. <<j, 0>> # p /\ <<j, 0>> # t BY <1>2, <1>3, <3>1
    <3> QED BY <1>8, <3>1, <3>2 DEF Shop!Main
  <2>2. CASE p = <<m, 0>>
    <3>1. Shop!Main(m) = r /\ Shop!Main(m)' = s BY <1>8, <2>2 DEF Shop!Main
    <3> HIDE DEF r
    <3> QED BY <1>1, <1>2, <1>4, <2>1, <2>2, <3>1 DEF Leaves
  <2>3. CASE p # <<m, 0>>
    <3>1. Shop!Main(m)' = Shop!Main(m)
      BY <1>2, <1>3, <1>8, <2>3 DEF Shop!Main
    <3>2. Shop!IsCopy(p) BY <1>1, <1>2, <2>3 DEF Shop!IsCopy
    <3>3. Shop!Main(m).at \in Leaves BY <3>2 DEF LaunchInv, Crew
    <3> QED BY <1>2, <2>1, <2>3, <3>1, <3>3, MainIs
  <2> QED BY <2>2, <2>3
<1>11. ASSUME NEW q \in Shop!Procs, q[1] = m
       PROVE  /\ Bound(q)' /\ (Shop!IsCopy(q) => Shop!IsCopy(q)')
              /\ proc[q].at \notin Alive => proc'[q].at \notin Alive
  <2>1. Bound(q) BY DEF LaunchInv
  <2>2. CASE q = p
    <3>1. Bound(q)'
      BY <1>1, <1>2, <1>4, <1>8, <2>2, LastIs DEF Bound, MainPlaces, WorkerPlaces,
         Leaves
    <3> QED BY <1>1, <1>4, <1>8, <2>2, <3>1 DEF Shop!IsCopy, Alive
  <2>3. CASE q # p BY <1>2, <1>8, <2>1, <2>3, HitIs
  <2> QED BY <2>2, <2>3
<1>12. proc'[t].at \notin Alive
  <2>1. proc'[t] = Shop!Signalled(proc[t])
    BY <1>2, <1>3, <1>6 DEF LaunchTypes
  <2>2. proc[t] \in ProcessSet BY <1>2, <1>3 DEF LaunchTypes
  <2> HIDE DEF t
  <2>3. Shop!Signalled(proc[t]).at = CASE proc[t].at = "create" -> "killed"
                                  [] proc[t].at \in {"fork", "record", "forked"} -> "handler"
                                  [] proc[t].at \in {"open", "works"} -> "ended"
                                  [] OTHER -> proc[t].at
    BY <2>2, SignalledIs
  <2>4. Shop!Signalled(proc[t]).at \notin Alive BY <2>3 DEF Alive
  <2> QED BY <2>1, <2>4
<1>13. ASSUME NEW q \in Shop!Procs, q[1] = m
       PROVE  Crew(q)' /\ Signalling(q)' /\ Opened(q)'
  <2>1. Shop!Main(m)'.at \in Leaves BY <1>10
  <2>2. Crew(q)' BY <1>13, <2>1 DEF Crew, Unborn, Leaves
  <2>3. Opened(q)' BY <1>13, <2>1 DEF Opened, Shop!Runs, Leaves
  <2>4. Signalling(q) /\ q[2] \in Nat /\ q = <<m, q[2]>>
    BY <1>13, ProcsAre DEF LaunchInv
  <2>5. CASE p # <<m, 0>>
    <3>1. Shop!Main(m)'.i = Shop!Main(m).i BY <1>10, <2>5
    <3> QED
      BY <1>10, <1>11, <1>13, <2>2, <2>3, <2>4, <3>1 DEF Signalling, Shop!Recorded
  <2>6. CASE p = <<m, 0>>
    <3>1. Shop!Main(m)'.i = k + 1 /\ Shop!Main(m).i = k BY <1>10, <2>6
    <3>2. CASE q[2] < k
      BY <1>10, <1>11, <1>13, <2>2, <2>3, <2>4, <3>1, <3>2
        DEF Signalling, Shop!Recorded
    <3>3. CASE q[2] = k
      <4>1. q = t BY <2>4, <3>3
      <4> QED BY <1>12, <2>2, <2>3, <4>1 DEF Signalling
    <3>4. CASE k < q[2]
      <4>1. ~(q[2] < Shop!Main(q[1])'.i) BY <1>2, <1>13, <2>4, <3>1, <3>4
      <4> QED BY <2>2, <2>3, <4>1 DEF Signalling
    <3> QED BY <1>2, <2>4, <3>2, <3>3, <3>4
  <2> QED BY <2>5, <2>6
<1>14. ASSUME NEW j \in Mains PROVE Removing(j)' /\ (NoCopies => Created(j)')
  <2>1. Removing(j) /\ (NoCopies => Created(j)) BY DEF LaunchInv
  <2>2. CASE j # m BY <1>1, <1>10, <2>1, <2>2 DEF Removing, Created, Shop!Runs
  <2>3. CASE j = m /\ p # <<m, 0>>
    BY <1>1, <1>10, <2>1, <2>3 DEF Removing, Created, Shop!Runs
  <2>4. CASE j = m /\ p = <<m, 0>>
    <3>1. Shop!Main(j)'.at = "handler" /\ Shop!Main(j).at = "handler" /\ Shop!Main(j)'.pids = r.pids /\ Shop!Main(j).pids = r.pids
      BY <1>1, <1>10, <2>4
    <3>2. Shop!Main(j)'.i = k + 1 /\ Shop!Main(j).i = k BY <1>10, <2>4
    <3>3. \A x \in 1 .. Last : ~(r.pids + x < k + 1) /\ k <= r.pids + x
      BY <1>1, <1>2, LastIs
    <3>4. Removing(j)' BY <3>1, <3>2, <3>3 DEF Removing
    <3>5. NoCopies => Created(j)'
      BY <1>1, <2>1, <3>1, <3>2, <3>3 DEF Created, Shop!Runs
    <3> QED BY <3>4, <3>5
  <2> QED BY <2>2, <2>3, <2>4
<1>15. \A q \in Shop!Procs : q[1] # m => proc'[q] = proc[q] BY <1>3, <1>8
<1> HIDE DEF m
<1> QED BY <1>1, <1>2, <1>9, <1>11, <1>13, <1>14, <1>15, StepKeeps

\* The handler removes one more object, its own if nobody else runs it.
LEMMA RemoveKeeps ==
    ASSUME Shop!LaunchAssumption, LaunchInv, NEW p \in Shop!Procs, Shop!Remove(p)
    PROVE  LaunchInv'
<1> DEFINE m == p[1]
           r == proc[p]
           k == r.i
           x == k - r.pids
           to == IF x = Len(Shop!Names) THEN "exited" ELSE r.at
           s == [r EXCEPT !.i = k + 1, !.at = to]
<1>1. /\ r.at = "handler" /\ x > 0 /\ kind' = kind
      /\ owner' = IF kind = "posix" \/ owner[x] = m THEN [owner EXCEPT ![x] = 0] ELSE owner
      /\ proc' = [proc EXCEPT ![p] = s]
  BY DEF Shop!Remove
<1>2. /\ r \in ProcessSet /\ LaunchTypes /\ Bound(p) /\ m \in Mains /\ p[2] \in Nat /\ p = <<m, p[2]>>
      /\ k \in Nat \ {0} /\ r.pids \in Nat /\ <<m, 0>> \in Shop!Procs /\ m # 0
  BY ProcsAre, Fields DEF LaunchInv, LaunchTypes, Shop!LaunchAssumption
<1>3. x \in 1 .. Last /\ k = r.pids + x /\ to \in Leaves /\ (to = "handler" => x # Last)
  BY <1>1, <1>2, LastIs DEF Bound, Leaves, Last
<1>4. s \in ProcessSet /\ s.at = to /\ s.i = k + 1 /\ s.pids = r.pids /\ s.opened = r.opened
  <2>1. k + 1 \in Indices /\ to \in PlaceSet
    BY <1>2, <1>3 DEF Indices, PlaceSet, MainPlaces
  <2> HIDE DEF r, k, to
  <2> QED BY <1>2, <2>1, RecordsAre
<1> HIDE DEF s, to
<1>5. Changes(p, to, k + 1, r.pids, r.opened) BY <1>1, <1>2, <1>4, Put
<1>6. /\ \A y \in 1 .. Last : owner'[y] \in Owners
      /\ \A y \in 1 .. Last : y # x => owner'[y] = owner[y]
      /\ owner'[x] # m /\ (kind = "posix" \/ owner[x] = m => owner'[x] = 0)
      /\ owner'[x] = 0 \/ owner'[x] = owner[x]
      /\ kind # "posix" /\ owner[x] # m => owner' = owner
      /\ owner' \in [1 .. Last -> Owners]
  <2>1. owner \in [1 .. Last -> Owners] /\ 0 \in Owners
    BY <1>2 DEF LaunchTypes, Owners
  <2> HIDE DEF x, m
  <2>2. CASE kind = "posix" \/ owner[x] = m
    <3>1. owner' = [owner EXCEPT ![x] = 0] BY <1>1, <2>2
    <3> QED BY <1>2, <1>3, <2>1, <2>2, <3>1
  <2>3. CASE ~(kind = "posix" \/ owner[x] = m)
    <3>1. owner' = owner BY <1>1, <2>3
    <3> QED BY <1>3, <2>1, <2>3, <3>1
  <2> QED BY <2>2, <2>3
<1>7. LaunchTypes' BY <1>1, <1>2, <1>5, <1>6 DEF LaunchTypes, Changes, Owners
<1>8. \A q \in Shop!Procs : q # p => proc'[q] = proc[q] BY <1>5 DEF Changes
<1>9. proc'[p].at = to /\ proc'[p].i = k + 1 /\ proc'[p].pids = r.pids /\ proc'[p].opened = r.opened
  BY <1>5 DEF Changes
<1>10. /\ Shop!Main(m) \in ProcessSet /\ Shop!Main(m).at \in Leaves /\ Shop!Main(m)'.at \in Leaves
       /\ Shop!Main(m)'.pids = Shop!Main(m).pids
       /\ IF p = <<m, 0>> THEN Shop!Main(m) = r /\ Shop!Main(m)'.i = k + 1 /\ Shop!Main(m)'.at = to
                          ELSE Shop!Main(m)' = Shop!Main(m) /\ Shop!IsCopy(p)
       /\ \A j \in Mains : j # m => Shop!Main(j)' = Shop!Main(j)
  <2>1. ASSUME NEW j \in Mains, j # m PROVE Shop!Main(j)' = Shop!Main(j)
    <3>1. <<j, 0>> \in Shop!Procs /\ <<j, 0>>[1] # m BY <2>1, ProcsAre
    <3>2. <<j, 0>> # p BY <1>2, <3>1
    <3> QED BY <1>8, <3>1, <3>2 DEF Shop!Main
  <2>2. CASE p = <<m, 0>>
    <3>1. Shop!Main(m) = r /\ Shop!Main(m)' = proc'[p] BY <2>2 DEF Shop!Main
    <3> HIDE DEF r
    <3> QED BY <1>1, <1>2, <1>3, <1>9, <2>1, <2>2, <3>1 DEF Leaves, r
  <2>3. CASE p # <<m, 0>>
    <3>1. Shop!Main(m)' = Shop!Main(m) BY <1>2, <1>8, <2>3 DEF Shop!Main
    <3>2. Shop!IsCopy(p) BY <1>1, <1>2, <2>3 DEF Shop!IsCopy
    <3>3. Shop!Main(m).at \in Leaves BY <3>2 DEF LaunchInv, Crew
    <3> QED BY <1>2, <2>1, <2>3, <3>1, <3>2, <3>3, MainIs
  <2> QED BY <2>2, <2>3
<1>11. ASSUME NEW q \in Shop!Procs, q[1] = m
       PROVE  /\ Bound(q)' /\ (Shop!IsCopy(q) => Shop!IsCopy(q)')
              /\ proc[q].at \notin Alive => proc'[q].at \notin Alive
  <2>1. Bound(q) BY DEF LaunchInv
  <2>2. CASE q = p
    <3>1. to = "handler" \/ to = "exited" BY <1>3 DEF Leaves
    <3>2. k + 1 > r.pids /\ (to = "handler" => k + 1 <= r.pids + Last)
      BY <1>2, <1>3, LastIs
    <3> HIDE DEF k
    <3>3. Bound(q)'
      BY <1>1, <1>9, <2>1, <2>2, <3>1, <3>2 DEF Bound, MainPlaces, WorkerPlaces, Leaves
    <3> QED BY <1>9, <2>2, <3>1, <3>3 DEF Shop!IsCopy, Alive
  <2>3. CASE q # p BY <1>8, <2>1, <2>3 DEF Bound, Shop!IsCopy
  <2> QED BY <2>2, <2>3
<1>12. ASSUME NEW q \in Shop!Procs, q[1] = m
       PROVE  Crew(q)' /\ Signalling(q)' /\ Opened(q)'
  <2>1. Crew(q)' BY <1>10, <1>12 DEF Crew, Unborn, Leaves
  <2>2. Opened(q)' BY <1>10, <1>12 DEF Opened, Shop!Runs, Leaves
  <2>3. Signalling(q) /\ q[2] \in Nat BY ProcsAre DEF LaunchInv
  <2>4. CASE p # <<m, 0>>
    BY <1>10, <1>11, <1>12, <2>1, <2>2, <2>3, <2>4 DEF Signalling, Shop!Recorded
  <2>5. CASE p = <<m, 0>>
    <3>1. Shop!Main(m).i = k /\ Shop!Main(m).pids = r.pids BY <1>10, <2>5
    <3>2. q[2] <= r.pids => q[2] < k BY <1>2, <1>3, <2>3
    <3> QED
      BY <1>10, <1>11, <1>12, <2>1, <2>2, <2>3, <3>1, <3>2
        DEF Signalling, Shop!Recorded
  <2> QED BY <2>4, <2>5
<1>13. ASSUME NEW j \in Mains PROVE Removing(j)'
  <2>1. Removing(j) /\ j # 0 BY DEF LaunchInv, Shop!LaunchAssumption
  <2>2. \A y \in 1 .. Last : owner[y] # j => owner'[y] # j BY <1>3, <1>6, <2>1
  <2>3. CASE j # m BY <1>10, <2>1, <2>2, <2>3 DEF Removing
  <2>4. CASE j = m /\ p # <<m, 0>> BY <1>10, <2>1, <2>2, <2>4 DEF Removing
  <2>5. CASE j = m /\ p = <<m, 0>>
    <3>1. /\ Shop!Main(j).at = "handler" /\ Shop!Main(j).i = k /\ Shop!Main(j).pids = r.pids
          /\ Shop!Main(j)'.i = k + 1 /\ Shop!Main(j)'.pids = r.pids /\ Shop!Main(j)'.at = to
      BY <1>1, <1>10, <2>5
    <3>2. ASSUME NEW y \in 1 .. Last, y <= x PROVE owner'[y] # j
      <4>1. CASE y = x BY <1>6, <2>5, <4>1
      <4>2. CASE y # x
        <5>1. r.pids + y < k BY <1>2, <1>3, <3>2, <4>2
        <5>2. owner[y] # j BY <2>1, <3>1, <5>1 DEF Removing
        <5> QED BY <2>2, <5>2
      <4> QED BY <4>1, <4>2
    <3>3. \A y \in 1 .. Last : r.pids + y < k + 1 => y <= x BY <1>2, <1>3
    <3>4. to = "exited" => x = Last BY <1>1 DEF to, Last
    <3>5. to = "exited" => \A y \in 1 .. Last : y <= x BY <3>4, LastIs
    <3> HIDE DEF x
    <3> QED BY <3>1, <3>2, <3>3, <3>5 DEF Removing
  <2> QED BY <2>3, <2>4, <2>5
<1>14. ASSUME NoCopies, NEW j \in Mains PROVE Created(j)'
  <2>1. Created(j) /\ j # 0 BY <1>14 DEF LaunchInv, Shop!LaunchAssumption
  <2>2. CASE kind = "posix"
    <3>1. p = <<m, 0>> BY <1>10, <1>14, <2>2 DEF NoCopies
    <3>2. /\ Shop!Main(m).at = "handler" /\ Shop!Main(m).i = k /\ Shop!Main(m).pids = r.pids
          /\ Shop!Main(m)'.i = k + 1 /\ Shop!Main(m)'.pids = r.pids /\ Shop!Main(m)'.at = to
      BY <1>1, <1>10, <3>1
    <3>3. Created(m) BY <1>2, <1>14 DEF LaunchInv
    <3>4. owner[x] = m BY <1>2, <1>3, <2>2, <3>2, <3>3 DEF Created
    <3>5. CASE j = m
      <4>1. \A y \in 1 .. Last : k + 1 <= r.pids + y => y # x /\ k <= r.pids + y
        BY <1>2, <1>3
      <4>2. to \notin {"create", "fork", "record"} BY <1>3 DEF Leaves
      <4> HIDE DEF x
      <4> QED
        BY <1>1, <1>6, <2>1, <2>2, <3>2, <3>5, <4>1, <4>2 DEF Created, Shop!Runs
    <3>6. CASE j # m
      <4>1. \A y \in 1 .. Last : owner[y] = j => owner'[y] = j BY <1>6, <3>4, <3>6
      <4>2. Shop!Main(j)' = Shop!Main(j) BY <1>10, <3>6
      <4> QED BY <1>1, <2>1, <4>1, <4>2 DEF Created, Shop!Runs
    <3> QED BY <3>5, <3>6
  <2>3. CASE kind # "posix"
    <3>1. CASE j = m BY <1>1, <1>10, <2>3, <3>1 DEF Created, Shop!Runs, Leaves
    <3>2. CASE j # m
      <4>1. \A y \in 1 .. Last : owner[y] = j => owner'[y] = j BY <1>6, <2>3, <3>2
      <4>2. Shop!Main(j)' = Shop!Main(j) BY <1>10, <3>2
      <4> QED BY <1>1, <2>1, <4>1, <4>2 DEF Created, Shop!Runs
    <3> QED BY <3>1, <3>2
  <2> QED BY <2>2, <2>3
<1>15. \A q \in Shop!Procs : q[1] # m => proc'[q] = proc[q] BY <1>8
<1> HIDE DEF m
<1> QED BY <1>1, <1>2, <1>7, <1>11, <1>12, <1>13, <1>14, <1>15, StepKeeps

\* The invariant holds before any main starts.
LEMMA InitLaunch == Shop!LaunchAssumption /\ Shop!Init => LaunchInv
<1> SUFFICES ASSUME Shop!LaunchAssumption, Shop!Init PROVE LaunchInv
  OBVIOUS
<1> DEFINE z == Shop!Process("none")
<1>1. z \in ProcessSet /\ z.at = "none" /\ z.i = 1 /\ z.pids = 0 /\ z.opened = <<>>
  <2> DEFINE one == 1
  <2>1. z = [at |-> "none", i |-> one, pids |-> 0, opened |-> <<>>]
    BY DEF Shop!Process
  <2>2. <<>> \in Seq(Owners) OBVIOUS
  <2>3. one \in Indices /\ 0 \in Nat BY DEF Indices
  <2>4. "none" \in PlaceSet BY DEF PlaceSet, WorkerPlaces
  <2>5. z \in ProcessSet
    <3> HIDE DEF z, one
    <3>1. [at |-> "none", i |-> one, pids |-> 0, opened |-> <<>>] \in ProcessSet
      BY <2>2, <2>3, <2>4, RecordsAre
    <3> QED BY <2>1, <3>1
  <2> QED BY <2>1, <2>5
<1>2. kind \in {"sysv", "posix"} /\ owner = [x \in 1 .. Last |-> 0] /\ proc = [p \in Shop!Procs |-> z]
  BY DEF Shop!Init, Last
<1> HIDE DEF z
<1>3. LaunchTypes BY <1>1, <1>2 DEF LaunchTypes
<1>4. \A m \in Mains : Shop!Main(m) = z BY <1>2, ProcsAre DEF Shop!Main
<1>5. ASSUME NEW p \in Shop!Procs
      PROVE  Bound(p) /\ Crew(p) /\ Signalling(p) /\ Opened(p)
  <2>1. proc[p] = z /\ p[2] \in Nat /\ p[1] \in Mains /\ Staff[p[1]] \in Nat
    BY <1>2, ProcsAre DEF Shop!LaunchAssumption
  <2>2. Shop!Main(p[1]) = z BY <1>4, <2>1
  <2> QED
    BY <1>1, <2>1, <2>2
      DEF Bound, Crew, Signalling, Opened, Shop!IsCopy, Shop!Runs,
       MainPlaces, WorkerPlaces,
      Unborn, Leaves
<1>6. \A m \in Mains : Removing(m) /\ Created(m)
  BY <1>1, <1>4 DEF Removing, Created, Shop!Runs
<1> QED BY <1>3, <1>5, <1>6 DEF LaunchInv

\* Every step keeps the invariant.
LEMMA StepLaunch ==
    Shop!LaunchAssumption /\ LaunchInv /\ [Shop!Next]_(Shop!vars) => LaunchInv'
<1> SUFFICES ASSUME Shop!LaunchAssumption, LaunchInv, [Shop!Next]_(Shop!vars)
             PROVE  LaunchInv'
  OBVIOUS
<1>1. ASSUME NEW m \in Mains, Shop!Start(m) \/ Shop!MainStep(m) \/ Shop!Interrupt(m)
      PROVE  LaunchInv'
  BY <1>1, StartKeeps, CreateKeeps, InstallHandlerKeeps, ForkKeeps, RecordKeeps, InterruptKeeps
    DEF Shop!MainStep
<1>2. ASSUME NEW p \in Shop!Procs, Shop!WorkerStep(p) \/ Shop!HandlerStep(p)
      PROVE  LaunchInv'
  BY <1>2, ExecKeeps, OpenKeeps, SemaphoresAreGoneKeeps, KillWorkerKeeps, RemoveKeeps
     DEF Shop!WorkerStep, Shop!HandlerStep
<1>3. CASE UNCHANGED Shop!vars
  <2>1. kind' = kind /\ owner' = owner /\ proc' = proc BY <1>3 DEF Shop!vars
  <2> QED
    BY <2>1 DEF LaunchInv, LaunchTypes, Bound, Crew, Signalling, Removing, Created,
       Opened, NoCopies, Shop!IsCopy, Shop!Runs,
       Shop!Recorded, Shop!Main
<1> QED BY <1>1, <1>2, <1>3 DEF Shop!Next

(* For any number of pizzerias and of workers: which processes run main's     *)
(* handler, whom it has signalled and what it has removed (main.c of          *)
(* lab7/zad1 and lab7/zad2).                                                  *)
THEOREM LaunchInvariance ==
    ASSUME Shop!LaunchAssumption
    PROVE  Shop!Spec => []LaunchInv
<1>1. Shop!Init => LaunchInv BY InitLaunch
<1>2. LaunchInv /\ [Shop!Next]_(Shop!vars) => LaunchInv' BY StepLaunch
<1> QED BY <1>1, <1>2, PTL DEF Shop!Spec

(* A pizzeria that runs has all its objects, its workers use no others, and a *)
(* main that exits after SIGINT has removed what it had created and ended     *)
(* each worker it knew, whatever other pizzerias do at the same time.         *)
THEOREM KeepToTheirOwn ==
    ASSUME Shop!LaunchAssumption
    PROVE  Shop!Spec => []OwnObjects
<1>1. ASSUME LaunchInv PROVE OwnObjects
  <2>1. NoCopies <=> kind = "sysv" \/ (\A p \in Shop!Procs : ~Shop!IsCopy(p))
    BY DEF NoCopies
  <2>2. ASSUME NoCopies, NEW m \in Mains, Shop!Runs(m)
        PROVE  \A x \in DOMAIN owner : owner[x] = m
    BY <1>1, <2>2 DEF LaunchInv, Created, LaunchTypes
  <2>3. ASSUME NoCopies, NEW p \in Shop!Procs, Shop!Runs(p[1])
        PROVE  Shop!Range(proc[p].opened) \subseteq {p[1]}
    BY <1>1, <2>3 DEF LaunchInv, Opened, Shop!Range
  <2>4. ASSUME NEW p \in Shop!Procs, proc[p].at = "works", Shop!Main(p[1]).at = "exited"
        PROVE  ~Shop!Recorded(p)
    <3>1. Bound(p) /\ Signalling(p) /\ p[2] \in Nat /\ p[1] \in Mains
      BY <1>1, ProcsAre DEF LaunchInv
    <3>2. p[2] > 0 BY <2>4, <3>1 DEF Bound, MainPlaces, Unborn, Leaves
    <3>3. <<p[1], 0>> \in Shop!Procs /\ Bound(<<p[1], 0>>) /\ Shop!Main(p[1]).i \in Nat /\ Shop!Main(p[1]).pids \in Nat
      BY <1>1, <3>1, MainIs
    <3>4. Shop!Main(p[1]).pids < Shop!Main(p[1]).i
      BY <2>4, <3>3 DEF Bound, Shop!Main
    <3> QED
      BY <2>4, <3>1, <3>2, <3>3, <3>4 DEF Signalling, Shop!Recorded, Alive, Leaves
  <2>5. Shop!OwnObjects BY <2>1, <2>2, <2>3, <2>4 DEF Shop!OwnObjects
  <2>6. Shop!TypeOK
    <3>1. ASSUME NEW p \in Shop!Procs
          PROVE /\ proc[p].at \in {"none", "create", "failed", "killed", "fork", "record", "forked",
                             "open", "works", "ended", "handler", "exited"}
                /\ proc[p].pids \in 0 .. Staff[p[1]] /\ proc[p].opened \in Seq(Mains \cup {0})
      <4>1. proc[p] \in ProcessSet /\ Bound(p) /\ Staff[p[1]] \in Nat
        BY <1>1, ProcsAre DEF LaunchInv, LaunchTypes, Shop!LaunchAssumption
      <4>2. proc[p].at \in PlaceSet /\ proc[p].pids \in Nat /\ proc[p].opened \in Seq(Mains \cup {0})
        BY <4>1, Fields DEF PlaceSet
      <4> QED
        BY <4>1, <4>2 DEF Bound, PlaceSet, MainPlaces, WorkerPlaces, Unborn, Leaves,
           Alive
    <3> QED BY <1>1, <3>1 DEF LaunchInv, LaunchTypes, Shop!TypeOK, Last
  <2>7. ASSUME NEW x \in DOMAIN owner, owner[x] # 0
        PROVE  Shop!Main(owner[x]).at # "exited"
    <3>1. x \in 1 .. Last /\ owner[x] \in Mains
      BY <1>1, <2>7 DEF LaunchInv, LaunchTypes
    <3> QED BY <1>1, <3>1 DEF LaunchInv, Removing
  <2> QED BY <2>5, <2>6, <2>7 DEF Shop!NothingLeftBehind, OwnObjects
<1> QED BY <1>1, LaunchInvariance, PTL
===============================================================================
