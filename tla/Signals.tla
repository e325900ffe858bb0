------------------------------- MODULE Signals -------------------------------
(* The sender and the catcher of lab4.  In zad3a (a burst) the sender sends n *)
(* signals and one more of another kind, upon which the catcher sends back as *)
(* many as it has counted; in zad3b (a handshake) it waits for an answer to   *)
(* each.  A behaviour is one of the two programs in one of the three modes.   *)
(*                                                                            *)
(* A process is a stack of frames: main, and above it the handlers that have  *)
(* interrupted it and each other.  sig1 and sig2 are SIGUSR1 and SIGUSR2, or  *)
(* in mode SIGRT SIGRTMIN and SIGRTMIN + 1.                                   *)
EXTENDS Naturals, Sequences, FiniteSets, SequencesExt

CONSTANTS
    Protocols,      \* subset of {"burst", "handshake"}
    Modes,          \* subset of {"KILL", "SIGQUEUE", "SIGRT"}
    MaxN            \* bound: signals to send

ASSUME SignalsAssumption ==
    /\ Protocols \subseteq {"burst", "handshake"}
    /\ Modes \subseteq {"KILL", "SIGQUEUE", "SIGRT"}
    /\ MaxN \in Nat

VARIABLES
    protocol,       \* which of the two programs runs
    mode, n,        \* the arguments of the sender
    pending,        \* the values of the signals that wait for each process
    stack,          \* the frames of each process: where it is, what it blocks
    sent,           \* the sender's loop: sig1 sent so far
    answered,       \* sig1 sent back so far, in zad3a the catcher's loop
    counter,        \* each process's count of sig1
    known,          \* whether sender_pid is set
    early           \* history: a signal came to a process not waiting for it

arguments == <<protocol, mode, n>>
counts == <<sent, answered, counter, known>>
vars == <<arguments, pending, stack, counts, early>>

Processes == {"sender", "catcher"}
Kinds == {"sig1", "sig2"}

Frame(at, mask, value) == [at |-> at, mask |-> mask, value |-> value]

Init ==
    /\ protocol \in Protocols /\ mode \in Modes /\ n \in 0 .. MaxN
    /\ pending = [p \in Processes |-> [s \in Kinds |-> <<>>]]
    /\ stack = [sender |-> <<Frame("send", {}, 0)>>,
                catcher |-> <<Frame("starts", {}, 0)>>]
    /\ sent = 0 /\ answered = 0
    /\ counter = [p \in Processes |-> 0]
    /\ known = FALSE
    /\ early = FALSE

-----------------------------------------------------------------------------
(* Signals and frames.                                                        *)

Top(p) == Last(stack[p])
At(p, here) == Top(p).at = here
Ended(p) == At(p, "ended")

Goto(p, from, to) ==
    At(p, from) /\ stack' = [stack EXCEPT ![p][Len(stack[p])].at = to]

Return(p, from) == At(p, from) /\ stack' = [stack EXCEPT ![p] = Front(@)]

(* The calls of sigsuspend, with what each blocks, and where it returns to    *)
(* after a handler: main of zad3a calls it again.                             *)
Suspended == [waitsForAnswer |-> {"sig2"}, waits |-> {}, waitsInside |-> {}]
Resumes(at) == CASE at = "waitsForAnswer" -> "send"
                 [] at = "waitsInside" -> "returns"
                 [] at = "waits" /\ protocol = "handshake" -> "ended"
                 [] OTHER -> at

Blocked(p) ==
    IF Top(p).at \in DOMAIN Suspended THEN Suspended[Top(p).at] ELSE Top(p).mask

(* Real-time signals queue; of the others, one of a kind waits at most.       *)
Queues == mode = "SIGRT"

Send(to, s, value) ==
    pending' = IF Queues \/ pending[to][s] = <<>>
               THEN [pending EXCEPT ![to][s] = Append(@, value)]
               ELSE pending

Deliverable(p) == {s \in Kinds \ Blocked(p) : pending[p][s] # <<>>}

Interrupt(p, s, mask) ==
    /\ pending' = [pending EXCEPT ![p][s] = Tail(@)]
    /\ stack' = [stack EXCEPT ![p][Len(stack[p])].at = Resumes(@),
                              ![p] = Append(@, Frame(s, mask, Head(pending[p][s])))]
    /\ early' = (early \/ Top(p).at \notin DOMAIN Suspended)
    /\ UNCHANGED <<arguments, counts>>

(* exit in a handler: the signals that still wait for the process are lost.   *)
Exit(p, from) ==
    /\ Goto(p, from, "ended")
    /\ pending' = [pending EXCEPT ![p] = [s \in Kinds |-> <<>>]]

(* Linux delivers the lower number first.  A handler starts with its signal   *)
(* blocked, in addition to what was blocked where it interrupts.              *)
Deliver(p, s) ==
    /\ ~Ended(p) /\ s \in Deliverable(p)
    /\ "sig1" \in Deliverable(p) => s = "sig1"
    /\ Interrupt(p, s, Blocked(p) \cup {s})

-----------------------------------------------------------------------------
(* The sender.                                                                *)

Sends(s, next) ==
    /\ Goto("sender", "send", next)
    /\ Send("catcher", s, 0)
    /\ sent' = sent + (IF s = "sig1" THEN 1 ELSE 0)
    /\ UNCHANGED <<arguments, answered, counter, known, early>>

(* send_kill and send_sigqueue of zad3a: n signals without a pause.           *)
BurstSends ==
    /\ protocol = "burst"
    /\ IF sent < n THEN Sends("sig1", "send") ELSE Sends("sig2", "hasSent")

(* Not in the code: the answer to a signal is not waited for.                 *)
HandshakeSendsBurst ==
    /\ protocol = "handshake"
    /\ IF sent < n THEN Sends("sig1", "send") ELSE Sends("sig2", "hasSent")

(* Not in the code: one signal too many.                                      *)
HandshakeSendsMore ==
    /\ protocol = "handshake"
    /\ IF sent <= n THEN Sends("sig1", "hasSentOne") ELSE Sends("sig2", "hasSent")

(* The same of zad3b: a pause after each.                                     *)
HandshakeSends ==
    /\ protocol = "handshake"
    /\ IF sent < n THEN Sends("sig1", "hasSentOne") ELSE Sends("sig2", "hasSent")

(* sigsuspend: an answer that came between the kill and this is past.         *)
SenderSuspends ==
    /\ \/ Goto("sender", "hasSentOne", "waitsForAnswer")
       \/ Goto("sender", "hasSent", "waits")
    /\ UNCHANGED <<arguments, pending, counts, early>>

SenderCounts ==
    /\ Return("sender", "sig1")
    /\ counter' = [counter EXCEPT !["sender"] = @ + 1]
    /\ UNCHANGED <<arguments, pending, sent, answered, known, early>>

(* Not in the code: the handler of sig2 of zad3a does not exit.               *)
SenderReportsOnly ==
    /\ Return("sender", "sig2")
    /\ UNCHANGED <<arguments, pending, counts, early>>

(* sig2_action prints the counts; in zad3a it also exits.                     *)
SenderReports ==
    /\ \/ protocol = "burst" /\ Exit("sender", "sig2")
       \/ protocol = "handshake" /\ Return("sender", "sig2") /\ UNCHANGED pending
    /\ UNCHANGED <<arguments, counts, early>>

Sender ==
    \/ BurstSends \/ HandshakeSends \/ SenderSuspends \/ SenderCounts
    \/ SenderReports

-----------------------------------------------------------------------------
(* The catcher.                                                               *)

(* An answer: kill with the initial sender_pid, -2, or sigqueue, reach nobody. *)
Answer(s) ==
    IF known
    THEN Send("sender", s, IF mode = "SIGQUEUE" THEN counter["catcher"] ELSE 0)
    ELSE UNCHANGED pending

(* The calls of sigsuspend, in main and in the handler of sig1 of zad3b.      *)
CatcherSuspends ==
    /\ \/ Goto("catcher", "starts", "waits")
       \/ Goto("catcher", "hasAnswered", "waitsInside")
    /\ UNCHANGED <<arguments, pending, counts, early>>

CatcherLearns ==
    /\ Goto("catcher", "sig1", "counts")
    /\ known' = TRUE
    /\ UNCHANGED <<arguments, pending, sent, answered, counter, early>>

(* ++counter, with which the handler of zad3a ends.                           *)
CatcherCounts ==
    /\ \/ protocol = "burst" /\ Return("catcher", "counts")
       \/ protocol = "handshake" /\ Goto("catcher", "counts", "answers")
    /\ counter' = [counter EXCEPT !["catcher"] = @ + 1]
    /\ UNCHANGED <<arguments, pending, sent, answered, known, early>>

(* zad3b: each signal is answered, and the handler waits for the next one.    *)
CatcherAnswers ==
    /\ Goto("catcher", "answers", "hasAnswered")
    /\ Answer("sig1")
    /\ answered' = answered + 1
    /\ UNCHANGED <<arguments, sent, counter, known, early>>

CatcherReturns ==
    /\ Return("catcher", "returns")
    /\ UNCHANGED <<arguments, pending, counts, early>>

(* zad3a: sig2_action sends back one signal, or when all are sent sig2.       *)
CatcherSendsBack ==
    /\ protocol = "burst"
    /\ \/ /\ answered < counter["catcher"]
          /\ Goto("catcher", "sig2", "sig2")
          /\ Answer("sig1")
          /\ answered' = answered + 1
       \/ /\ answered >= counter["catcher"]
          /\ Goto("catcher", "sig2", "prints")
          /\ Answer("sig2")
          /\ UNCHANGED answered
    /\ UNCHANGED <<arguments, sent, counter, known, early>>

CatcherExits ==
    /\ Exit("catcher", "prints")
    /\ UNCHANGED <<arguments, counts, early>>

(* zad3b: sig2_action answers, prints and returns.                            *)
CatcherReplies ==
    /\ protocol = "handshake"
    /\ Return("catcher", "sig2")
    /\ Answer("sig2")
    /\ UNCHANGED <<arguments, counts, early>>

Catcher ==
    \/ CatcherSuspends \/ CatcherLearns \/ CatcherCounts \/ CatcherAnswers
    \/ CatcherReturns \/ CatcherSendsBack \/ CatcherExits \/ CatcherReplies

-----------------------------------------------------------------------------
Delivery(p) == \E s \in Kinds : Deliver(p, s)

Next == Sender \/ Catcher \/ \E p \in Processes : Delivery(p)

Spec == Init /\ [][Next]_vars

(* Both processes are scheduled, and a signal that is not blocked is          *)
(* delivered when its process is.                                             *)
Fairness ==
    /\ WF_vars(Sender \/ Delivery("sender"))
    /\ WF_vars(Catcher \/ Delivery("catcher"))
FairSpec == Spec /\ Fairness

-----------------------------------------------------------------------------
Lines == {"send", "hasSentOne", "hasSent", "starts", "sig1", "sig2", "counts",
          "answers", "hasAnswered", "returns", "prints", "ended"}
         \cup DOMAIN Suspended

(* Handlers nest, but no further than one of sig2 above one of sig1, or in    *)
(* zad3b above one of sig1 for each signal: the stack stays within n + 2.     *)
TypeOK ==
    /\ \A p \in Processes, s \in Kinds :
         /\ pending[p][s] \in Seq(0 .. n)
         /\ Len(pending[p][s]) <= IF Queues /\ s = "sig1" THEN n ELSE 1
    /\ \A p \in Processes :
         /\ stack[p] \in Seq([at : Lines, mask : SUBSET Kinds, value : 0 .. n])
         /\ Len(stack[p]) <= 1 + (IF protocol = "burst" \/ p = "sender"
                                  THEN 2 ELSE n + 1)
    /\ sent \in 0 .. n /\ answered \in 0 .. n
    /\ counter \in [Processes -> 0 .. n]

(* Frames of a process in which a sig1 has arrived but is not yet counted.    *)
Uncounted(p) ==
    Cardinality({k \in DOMAIN stack[p] : stack[p][k].at \in {"sig1", "counts"}})

(* In zad3a a process exits in a handler that may have begun above another    *)
(* one, and while signals wait: of what queues only a part is counted then.   *)
HasExited(p) == protocol = "burst" /\ Ended(p)

(* No signal merges with another when they queue, nor in zad3b in any mode:   *)
(* as long as a process has not exited, all signals sent to it are counted,   *)
(* being counted or waiting.                                                  *)
NothingMerges ==
    /\ TypeOK
    /\ Queues \/ protocol = "handshake" =>
           /\ HasExited("catcher") \/
                 sent = counter["catcher"] + Uncounted("catcher")
                        + Len(pending["catcher"]["sig1"])
           /\ HasExited("sender") \/
                 answered = counter["sender"] + Uncounted("sender")
                            + Len(pending["sender"]["sig1"])

(* What the sender is about to print: in zad3b, as the report says, that all  *)
(* n signals have come to the catcher and back; in zad3a the count that came  *)
(* with sig2 is the one the catcher ends with.                                *)
ReportsAreTrue ==
    At("sender", "sig2") =>
        /\ protocol = "handshake" =>
             counter["sender"] = n /\ counter["catcher"] = n
        /\ protocol = "burst" /\ mode = "SIGQUEUE" =>
             Top("sender").value = counter["catcher"]

(* In zad3a the catcher ends, and so does the sender if the catcher knew it   *)
(* when sig2 came.  In zad3b both end, unless a signal came between a kill    *)
(* and the sigsuspend that waits for it, or there was nothing to send.        *)
BothEnd ==
    <>[](\/ Ended("sender") /\ Ended("catcher")
         \/ ~known /\ Ended("catcher")
         \/ protocol = "handshake" /\ early)
==============================================================================
