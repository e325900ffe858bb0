------------------------------- MODULE Launch -------------------------------
(* Start and end of the pizzeria of lab7: main.c creates the semaphores and   *)
(* the shared arrays, forks the workers, and on SIGINT ends them and removes  *)
(* what it has created.  A behaviour is of one kind, "sysv" (zad1) or "posix" *)
(* (zad2), and several pizzerias may be started, since the objects have the   *)
(* same keys or names in all of them.                                         *)
(*                                                                            *)
(* Three names stand for what is created: the semaphores (in zad2 there are   *)
(* five, made, opened and unlinked alike), the oven and the table.  What the  *)
(* workers do with them is in module Pizzeria.                                *)
EXTENDS Naturals, Sequences, Functions

CONSTANTS
    Mains,          \* the processes that run main
    Kinds,          \* subset of {"sysv", "posix"}
    Staff           \* Staff[m]: the number of workers m is to start

LaunchAssumption ==
    /\ Kinds \subseteq {"sysv", "posix"}
    /\ Staff \in [Mains -> Nat]
    /\ 0 \notin Mains

Names == <<"SEMAPHORES", "OVEN", "TABLE">>

VARIABLES
    kind,           \* which of the two programs runs
    owner,          \* owner[x]: who has created what now has the name x, or 0
    proc            \* proc[<<m, 0>>] is main, proc[<<m, j>>] its j-th worker

vars == <<kind, owner, proc>>

(* A process: where it is, the index of its loop, pid_counter (the pids it    *)
(* knows are those of workers 1 .. pids), and whose objects it has opened.    *)
Process(at) == [at |-> at, i |-> 1, pids |-> 0, opened |-> <<>>]

Procs == UNION {{<<m, j>> : j \in 0 .. Staff[m]} : m \in Mains}
Main(m) == proc[<<m, 0>>]

Init ==
    /\ kind \in Kinds
    /\ owner = [x \in 1 .. Len(Names) |-> 0]
    /\ proc = [p \in Procs |-> Process("none")]

-----------------------------------------------------------------------------
(* main, up to its endless loop.                                              *)

Goto(p, from, to) == proc[p].at = from /\ proc' = [proc EXCEPT ![p].at = to, ![p].i = 1]

Start(m) == Goto(<<m, 0>>, "none", "create") /\ UNCHANGED <<kind, owner>>

(* Not in the code: main takes over an object that exists.                    *)
CreateShared(m) ==
    /\ Main(m).at = "create" /\ Main(m).i <= Len(Names)
    /\ owner' = [owner EXCEPT ![Main(m).i] = IF @ = 0 THEN m ELSE @]
    /\ proc' = [proc EXCEPT ![<<m, 0>>].i = @ + 1]
    /\ UNCHANGED kind

(* An object whose name exists is not created (IPC_EXCL, O_EXCL): main ends   *)
(* and leaves the objects it has created so far.                              *)
Create(m) ==
    /\ Main(m).at = "create" /\ Main(m).i <= Len(Names)
    /\ LET x == Main(m).i
       IN  IF owner[x] = 0
           THEN /\ owner' = [owner EXCEPT ![x] = m]
                /\ proc' = [proc EXCEPT ![<<m, 0>>].i = @ + 1]
           ELSE /\ proc' = [proc EXCEPT ![<<m, 0>>].at = "failed"]
                /\ UNCHANGED owner
    /\ UNCHANGED kind

InstallHandler(m) ==
    /\ Main(m).i > Len(Names)
    /\ Goto(<<m, 0>>, "create", "fork")
    /\ UNCHANGED <<kind, owner>>

(* The child is a copy of main: until it has called execl it has its handler  *)
(* and its pids.  main stores the pid of the child after fork.                *)
Fork(m) ==
    LET j == Main(m).pids + 1
    IN  /\ Main(m).at = "fork" /\ j <= Staff[m]
        /\ proc' = [proc EXCEPT ![<<m, 0>>].at = "record",
                                ![<<m, j>>] = [Main(m) EXCEPT !.at = "forked"]]
        /\ UNCHANGED <<kind, owner>>

Record(m) ==
    /\ Main(m).at = "record"
    /\ proc' = [proc EXCEPT ![<<m, 0>>].at = "fork", ![<<m, 0>>].pids = @ + 1]
    /\ UNCHANGED <<kind, owner>>

-----------------------------------------------------------------------------
(* A worker: it opens the objects by key or name and begins its loop.         *)

Exec(p) == Goto(p, "forked", "open") /\ UNCHANGED <<kind, owner>>

Open(p) ==
    LET x == proc[p].i
        next == IF owner[x] = 0 THEN "ended" ELSE IF x = Len(Names) THEN "works" ELSE "open"
    IN  /\ proc[p].at = "open"
        /\ proc' = [proc EXCEPT ![p].at = next, ![p].i = x + 1,
                                ![p].opened = Append(@, owner[x])]
        /\ UNCHANGED <<kind, owner>>

(* Not in the code: the result of semop is not looked at.                     *)
IgnoresError(p) == FALSE /\ UNCHANGED vars

(* semop on a set that is removed fails, and sem_decrement ends the process.  *)
(* A POSIX semaphore that is unlinked stays for those that have opened it.    *)
SemaphoresAreGone(p) ==
    /\ Goto(p, "works", "ended")
    /\ kind = "sysv" /\ owner[1] # proc[p].opened[1]
    /\ UNCHANGED <<kind, owner>>

-----------------------------------------------------------------------------
(* SIGINT.  main without its handler is killed, and so is a worker: its own   *)
(* sigint_handler is nowhere installed.  A process in the handler blocks it.  *)

Signalled(r) ==
    CASE r.at = "create" -> [r EXCEPT !.at = "killed"]
      [] r.at \in {"fork", "record", "forked"} -> [r EXCEPT !.at = "handler", !.i = 1]
      [] r.at \in {"open", "works"} -> [r EXCEPT !.at = "ended"]
      [] OTHER -> r

(* A user signals main, or with Ctrl-C main and all its workers.              *)
Interrupt(m) ==
    /\ Main(m).at \in {"create", "fork", "record", "handler"}
    /\ \/ proc' = [proc EXCEPT ![<<m, 0>>] = Signalled(@)]
       \/ proc' = [p \in Procs |-> IF p[1] = m THEN Signalled(proc[p]) ELSE proc[p]]
    /\ UNCHANGED <<kind, owner>>

(* sigint_handler: it signals the workers it knows, one after the other, ...  *)
KillWorker(p) ==
    /\ proc[p].at = "handler" /\ proc[p].i <= proc[p].pids
    /\ proc' = [proc EXCEPT ![p].i = @ + 1, ![<<p[1], proc[p].i>>] = Signalled(@)]
    /\ UNCHANGED <<kind, owner>>

(* ... then removes the objects, in zad1 by the ids it got when it created    *)
(* them, in zad2 by their names, and exits.                                   *)
Remove(p) ==
    LET x == proc[p].i - proc[p].pids
    IN  /\ proc[p].at = "handler" /\ x > 0
        /\ owner' = IF kind = "posix" \/ owner[x] = p[1]
                    THEN [owner EXCEPT ![x] = 0] ELSE owner
        /\ proc' = [proc EXCEPT ![p].i = @ + 1,
                                ![p].at = IF x = Len(Names) THEN "exited" ELSE @]
        /\ UNCHANGED kind

-----------------------------------------------------------------------------
MainStep(m) == Create(m) \/ InstallHandler(m) \/ Fork(m) \/ Record(m)
WorkerStep(p) == Exec(p) \/ Open(p) \/ SemaphoresAreGone(p)
HandlerStep(p) == KillWorker(p) \/ Remove(p)

Next ==
    \/ \E m \in Mains : Start(m) \/ MainStep(m) \/ Interrupt(m)
    \/ \E p \in Procs : WorkerStep(p) \/ HandlerStep(p)

Spec == Init /\ [][Next]_vars

(* A process that can run does.                                               *)
Fairness ==
    /\ \A m \in Mains : WF_vars(MainStep(m))
    /\ \A p \in Procs : WF_vars(WorkerStep(p) \/ HandlerStep(p))
FairSpec == Spec /\ Fairness

-----------------------------------------------------------------------------
(* Properties.                                                                *)

TypeOK ==
    /\ kind \in Kinds /\ owner \in [1 .. Len(Names) -> Mains \cup {0}]
    /\ \A p \in Procs :
           /\ proc[p].at \in {"none", "create", "failed", "killed", "fork", "record", "forked",
                             "open", "works", "ended", "handler", "exited"}
           /\ proc[p].pids \in 0 .. Staff[p[1]] /\ proc[p].opened \in Seq(Mains \cup {0})

Runs(m) == Main(m).at \in {"fork", "record"}

(* A child that SIGINT reaches before execl runs main's handler.              *)
IsCopy(p) == p[2] > 0 /\ proc[p].at \in {"handler", "exited"}
Recorded(p) == p[2] <= Main(p[1]).pids

(* While main runs all objects are there and its own, and its workers use no  *)
(* others, whatever other pizzerias start, fail and end at the same time.     *)
(* When it is over only a worker forked in the moment it was interrupted can  *)
(* be at work, among those of the next pizzeria.  In zad2 all that holds if   *)
(* no child runs main's handler, which may unlink names that exist anew.      *)
OwnObjects ==
    kind = "sysv" \/ (\A p \in Procs : ~IsCopy(p)) =>
        /\ \A m \in Mains : Runs(m) => \A x \in DOMAIN owner : owner[x] = m
        /\ \A p \in Procs :
               /\ Runs(p[1]) => Range(proc[p].opened) \subseteq {p[1]}
               /\ proc[p].at = "works" /\ Main(p[1]).at = "exited" => ~Recorded(p)

(* An interrupted main has removed everything when it exits: what stays is    *)
(* from one that found a name taken or was killed before it had its handler.  *)
(* Nobody removes the objects of such a main, so that nobody can start again. *)
NothingLeftBehind ==
    /\ TypeOK
    /\ \A x \in DOMAIN owner : owner[x] # 0 => Main(owner[x]).at # "exited"

(* When no pizzeria runs any more the workers end, in zad1 also one that main *)
(* did not know of: its semaphores are gone.  In zad2 that one works on, and  *)
(* in both it does with semaphores that a killed or failed main has left.     *)
Over(m) == Main(m).at \in {"none", "failed", "killed", "exited"}
Stays(p) ==
    /\ proc[p].at = "works" /\ ~Recorded(p)
    /\ kind = "posix" \/ Main(proc[p].opened[1]).at \in {"killed", "failed"}
WorkersEnd ==
    <>[](\A m \in Mains : Over(m)) =>
        <>[](\A p \in Procs : p[2] > 0 =>
                 proc[p].at \in {"none", "ended", "exited"} \/ Stays(p))
==============================================================================
