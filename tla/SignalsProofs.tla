---------------------------- MODULE SignalsProofs ----------------------------
(* Proofs about Signals: however many signals are sent, and however their     *)
(* handlers interrupt each other, none of those that queue or are waited for  *)
(* merges with another, and the sender's report is true.                      *)
EXTENDS Signals, SequenceTheorems, FiniteSetTheorems, TLAPS

------------------------------------------------------------------------------
(* The inductive invariant *)

\* Frames of a stack that are at some lines, and how many they are.
Frames(q, S) == {k \in DOMAIN q : q[k].at \in S}
Size(q, S) == Cardinality(Frames(q, S))
MainAt(p) == stack[p][1].at

Sending == {"send", "hasSentOne", "waitsForAnswer"}
New == {"sig1", "counts"}
Counted == {"answers", "hasAnswered", "waitsInside", "returns"}
Reporting == {"sig2", "prints", "ended"}

\* The handlers of each signal that process p runs, some by where they are, and
\* the signals that wait for it.
Running(p, S) == Size(stack[p], S)
Newly(p) == Running(p, New)
Counting(p) == Running(p, {"counts"})
Inside(p) == Running(p, Counted)
Answering(p) == Running(p, {"answers"})
Ending(p) == Running(p, {"sig2"})
Height(p) == Len(stack[p])
Waiting1(p) == Len(pending[p]["sig1"])
Waiting2(p) == Len(pending[p]["sig2"])

\* The lines of main, and those of the handlers above it.
MainLines(p) ==
    IF protocol = "burst"
    THEN IF p = "sender" THEN {"send", "hasSent", "waits"} ELSE {"starts", "waits"}
    ELSE IF p = "sender" THEN Sending \cup {"hasSent", "waits", "ended"}
                         ELSE {"starts", "waits", "ended"}
HandlerLines(p) ==
    (IF p = "sender" THEN {"sig1"}
     ELSE IF protocol = "burst" THEN New ELSE New \cup Counted)
    \cup (IF protocol = "burst" THEN Reporting ELSE {"sig2"})

FrameSet == [at : Lines, mask : SUBSET Kinds, value : 0 .. n]
Shape(p, q) ==
    /\ q \in Seq(FrameSet) /\ q # <<>>
    /\ q[1].at \in MainLines(p)
    /\ \A k \in DOMAIN q : k # 1 => q[k].at \in HandlerLines(p)

\* A handler is interrupted at most by that of the other signal, but for that
\* of sig1 of the catcher of zad3b.
Own(frame) == IF frame.at \in New THEN "sig1" ELSE "sig2"
Nested(p, q) ==
    protocol = "burst" \/ p = "sender" =>
        /\ Len(q) <= 3
        /\ Len(q) >= 2 => Own(q[2]) \in q[2].mask
        /\ Len(q) = 3 => Own(q[2]) # Own(q[3]) /\ q[3].mask = Kinds

Stacks == \A p \in Processes : Shape(p, stack[p]) /\ Nested(p, stack[p])

Types ==
    /\ protocol \in {"burst", "handshake"} /\ mode \in {"KILL", "SIGQUEUE", "SIGRT"}
    /\ n \in Nat /\ known \in BOOLEAN
    /\ pending \in [Processes -> [Kinds -> Seq(0 .. n)]]
    /\ stack \in [Processes -> Seq(FrameSet)]
    /\ sent \in 0 .. n /\ answered \in 0 .. n /\ counter \in [Processes -> 0 .. n]

\* What each frame of the catcher of zad3b stands for.
Depth ==
    protocol = "handshake" =>
        /\ Height("catcher") = 1 + Newly("catcher") + Inside("catcher") + Ending("catcher")
        /\ Inside("catcher") <= counter["catcher"]
        /\ counter["catcher"] = answered + Answering("catcher")

\* There is one sig2 at a time, with the sender or with the catcher.
Token == (IF MainAt("sender") \in Sending THEN 1 ELSE 0)
         + Waiting2("catcher") + Ending("catcher") + Waiting2("sender") + Ending("sender")
OneToken == Token <= 1

\* Of the sig1 sent to p some merge, unless they queue or are waited for; and some
\* are lost when p exits.
Exact == Queues \/ protocol = "handshake"
Arrived(p) == counter[p] + Newly(p)
Sound(total, p) ==
    /\ Arrived(p) + Waiting1(p) <= total
    /\ Exact /\ ~HasExited(p) => Arrived(p) + Waiting1(p) = total
Merged ==
    /\ Sound(sent, "catcher") /\ Sound(answered, "sender")
    /\ protocol = "burst" => answered <= counter["catcher"]
    /\ ~Queues => Waiting1("sender") <= 1 /\ Waiting1("catcher") <= 1

Known == counter["catcher"] > 0 \/ Counting("catcher") > 0 => known

\* How far the sender is with the round of zad3b.
Round ==
    /\ MainAt("sender") \notin Sending => sent = n
    /\ protocol = "handshake" =>
         /\ MainAt("sender") = "send" => Arrived("sender") = sent
         /\ MainAt("sender") \in Sending => Arrived("sender") + 1 >= sent
         /\ MainAt("sender") \notin Sending => counter["sender"] = n

\* When the catcher of zad3a handles sig2 nothing interrupts it any more, and
\* the values that it sends with sig2 are what it has counted.
Reports(k) ==
    /\ k = Len(stack["catcher"]) /\ MainAt("sender") \notin Sending
    /\ "sig1" \in stack["catcher"][k].mask \/ pending["catcher"]["sig1"] = <<>>
Quiet == \A k \in Frames(stack["catcher"], Reporting) : Reports(k)
Answered == Ending("sender") > 0 \/ pending["sender"]["sig2"] # <<>> =>
                Top("catcher").at \in {"prints", "ended"}
Values ==
    /\ \A k \in Frames(stack["sender"], {"sig2"}) : stack["sender"][k].value = counter["catcher"]
    /\ pending["sender"]["sig2"] # <<>> =>
         Head(pending["sender"]["sig2"]) = counter["catcher"]
Settled == protocol = "burst" => Quiet /\ Answered /\ (mode = "SIGQUEUE" => Values)

IInv == /\ Types /\ Stacks
        /\ Depth /\ OneToken /\ Merged /\ Known /\ Round
        /\ Settled

------------------------------------------------------------------------------
(* Lemmas about stacks *)

One(b) == IF b THEN 1 ELSE 0
Moved(q, x) == [q EXCEPT ![Len(q)].at = x]

\* The frames of a stack are finitely many.
LEMMA FramesAreFinite ==
    ASSUME NEW X, NEW q \in Seq(X), NEW S
    PROVE  IsFiniteSet(Frames(q, S)) /\ Size(q, S) \in Nat
<1>1. Frames(q, S) \in SUBSET (1 .. Len(q)) BY DEF Frames
<1>2. IsFiniteSet(1 .. Len(q)) BY FS_Interval
<1>3. IsFiniteSet(Frames(q, S)) BY <1>1, <1>2, FS_Subset
<1> QED BY <1>3, FS_CardinalityType DEF Size

\* A stack with a frame at some lines has at least one, a stack without none.
LEMMA SizeIsPositive ==
    ASSUME NEW X, NEW q \in Seq(X), NEW S
    PROVE  /\ Size(q, S) > 0 <=> \E k \in DOMAIN q : q[k].at \in S
           /\ Size(q, S) = 0 <=> \A k \in DOMAIN q : q[k].at \notin S
<1>1. IsFiniteSet(Frames(q, S)) /\ Size(q, S) \in Nat BY FramesAreFinite
<1>2. Size(q, S) = 0 <=> Frames(q, S) = {} BY <1>1, FS_EmptySet DEF Size
<1>3. Frames(q, S) = {} <=> \A k \in DOMAIN q : q[k].at \notin S BY DEF Frames
<1> QED BY <1>1, <1>2, <1>3

\* The top frame goes to another line.
LEMMA MovedStack ==
    ASSUME NEW p, NEW q \in Seq(FrameSet), q # <<>>, NEW x \in Lines
    PROVE  /\ Moved(q, x) \in Seq(FrameSet) /\ Len(Moved(q, x)) = Len(q)
           /\ DOMAIN Moved(q, x) = DOMAIN q
           /\ Moved(q, x)[Len(q)].at = x
           /\ \A k \in DOMAIN q :
                /\ Moved(q, x)[k].mask = q[k].mask /\ Moved(q, x)[k].value = q[k].value
                /\ Moved(q, x)[k].at = IF k = Len(q) THEN x ELSE q[k].at
<1>1. Len(q) \in DOMAIN q /\ q[Len(q)] \in FrameSet OBVIOUS
<1> DEFINE f == [q[Len(q)] EXCEPT !.at = x]
<1>2. f \in FrameSet /\ f.at = x /\ f.mask = q[Len(q)].mask /\ f.value = q[Len(q)].value
  BY <1>1 DEF FrameSet
<1>3. Moved(q, x) = [q EXCEPT ![Len(q)] = f] BY DEF Moved
<1> HIDE DEF f
<1>4. Moved(q, x) \in Seq(FrameSet) /\ Len(Moved(q, x)) = Len(q) /\ DOMAIN Moved(q, x) = DOMAIN q
  BY <1>1, <1>2, <1>3, ExceptSeq
<1>5. \A k \in DOMAIN q : Moved(q, x)[k] = IF k = Len(q) THEN f ELSE q[k] BY <1>1, <1>3
<1> QED BY <1>1, <1>2, <1>4, <1>5

\* ... and is counted where it is now.
LEMMA MovedSize ==
    ASSUME NEW q \in Seq(FrameSet), q # <<>>, NEW x \in Lines, NEW S
    PROVE  Size(Moved(q, x), S) + One(q[Len(q)].at \in S) = Size(q, S) + One(x \in S)
<1> DEFINE m == Len(q)
           A == Frames(q, S)
           B == Frames(Moved(q, x), S)
<1>1. m \in DOMAIN q OBVIOUS
<1>2. IsFiniteSet(A) /\ Cardinality(A) \in Nat BY FramesAreFinite DEF Size
<1>3. (m \in A <=> q[m].at \in S) /\ (m \in B <=> x \in S) BY <1>1, MovedStack DEF Frames
<1>4. A \ {m} = B \ {m} BY MovedStack DEF Frames
<1>5. IsFiniteSet(B) /\ Cardinality(B) \in Nat BY MovedStack, FramesAreFinite DEF Size
<1>6. Cardinality(A \ {m}) = IF m \in A THEN Cardinality(A) - 1 ELSE Cardinality(A)
  BY <1>2, FS_RemoveElement
<1>7. Cardinality(B \ {m}) = IF m \in B THEN Cardinality(B) - 1 ELSE Cardinality(B)
  BY <1>5, FS_RemoveElement
<1>8. Size(q, S) = Cardinality(A) /\ Size(Moved(q, x), S) = Cardinality(B) BY DEF Size
<1> HIDE DEF A, B, m
<1>9. q[Len(q)].at \in S <=> m \in A BY <1>3 DEF m
<1>10. x \in S <=> m \in B BY <1>3
<1>11. Cardinality(A \ {m}) = Cardinality(B \ {m}) BY <1>4
<1>12. /\ Cardinality(A \ {m}) \in Int
       /\ Cardinality(A) = Cardinality(A \ {m}) + One(m \in A)
       /\ Cardinality(B) = Cardinality(B \ {m}) + One(m \in B)
  BY <1>2, <1>5, <1>6, <1>7 DEF One
<1>13. One(m \in A) \in Nat /\ One(m \in B) \in Nat BY DEF One
<1>14. One(q[Len(q)].at \in S) = One(m \in A) /\ One(x \in S) = One(m \in B)
  BY <1>9, <1>10 DEF One
<1> QED BY <1>2, <1>5, <1>8, <1>11, <1>12, <1>13, <1>14

\* A handler's frame comes upon the stack.
LEMMA PushedSize ==
    ASSUME NEW X, NEW q \in Seq(X), NEW f \in X, NEW S
    PROVE  Size(Append(q, f), S) = Size(q, S) + One(f.at \in S)
<1> DEFINE m == Len(q) + 1
           A == Frames(q, S)
           B == Frames(Append(q, f), S)
<1>1. IsFiniteSet(A) /\ Cardinality(A) \in Nat BY FramesAreFinite DEF Size
<1>2. m \notin A BY DEF Frames
<1>3. B = IF f.at \in S THEN A \cup {m} ELSE A BY DEF Frames
<1>4. Cardinality(A \cup {m}) = Cardinality(A) + 1 BY <1>1, <1>2, FS_AddElement
<1> QED BY <1>1, <1>3, <1>4 DEF One, Size

\* A handler's frame goes.
LEMMA PoppedSize ==
    ASSUME NEW X, NEW q \in Seq(X), q # <<>>, NEW S
    PROVE  /\ Front(q) \in Seq(X) /\ Len(Front(q)) = Len(q) - 1
           /\ \A k \in 1 .. Len(q) - 1 : Front(q)[k] = q[k]
           /\ Size(Front(q), S) + One(q[Len(q)].at \in S) = Size(q, S)
<1>0. Len(q) \in Nat \ {0} /\ \A k \in 1 .. Len(q) : q[k] \in X OBVIOUS
<1>1. Front(q) \in Seq(X) /\ Len(Front(q)) = Len(q) - 1
  <2>1. Len(q) - 1 \in Int /\ \A k \in 1 .. Len(q) - 1 : q[k] \in X BY <1>0
  <2>2. SubSeq(q, 1, Len(q) - 1) \in Seq(X) BY <2>1, SubSeqProperties
  <2> DEFINE rest == Len(SubSeq(q, 1, Len(q) - 1))
  <2>3. rest = IF 1 <= Len(q) - 1 THEN Len(q) - 1 - 1 + 1 ELSE 0
    BY <2>1, SubSeqProperties
  <2>4. Front(q) = SubSeq(q, 1, Len(q) - 1) BY Zenon DEF Front
  <2> HIDE DEF rest
  <2>5. ASSUME NEW k \in Nat \ {0}
        PROVE  (IF 1 <= k - 1 THEN k - 1 - 1 + 1 ELSE 0) = k - 1
    OBVIOUS
  <2>6. rest = Len(q) - 1 BY <1>0, <2>3, <2>5, Zenon
  <2> QED BY <2>2, <2>4, <2>6, Zenon DEF rest
<1>2. \A k \in 1 .. Len(q) - 1 : Front(q)[k] = q[k] BY <1>0, SubSeqProperties DEF Front
<1> DEFINE m == Len(q)
           A == Frames(Front(q), S)
           B == Frames(q, S)
<1>3. IsFiniteSet(A) /\ Cardinality(A) \in Nat BY <1>1, FramesAreFinite DEF Size
<1>4. m \notin A BY <1>1 DEF Frames
<1>5. B = IF q[Len(q)].at \in S THEN A \cup {m} ELSE A BY <1>1, <1>2 DEF Frames
<1>6. Cardinality(A \cup {m}) = Cardinality(A) + 1 BY <1>3, <1>4, FS_AddElement
<1>7. Size(q, S) = Cardinality(B) /\ Size(Front(q), S) = Cardinality(A) BY DEF Size
<1> QED BY <1>1, <1>2, <1>3, <1>5, <1>6, <1>7 DEF One

------------------------------------------------------------------------------
(* What the actions do to the stacks *)

\* A stack, and the handlers in it, keep their shape when the top frame goes on
\* within main or within its handler.
LEMMA MovedShape ==
    ASSUME Types, NEW p \in Processes, NEW q, Shape(p, q), Nested(p, q),
           NEW x \in Lines,
           \/ Len(q) = 1 /\ x \in MainLines(p)
           \/ /\ Len(q) # 1 /\ x \in HandlerLines(p)
              /\ protocol = "burst" \/ p = "sender" => (x \in New <=> q[Len(q)].at \in New)
    PROVE  Shape(p, Moved(q, x)) /\ Nested(p, Moved(q, x))
<1> DEFINE m == Moved(q, x)
<1>1. q \in Seq(FrameSet) /\ q # <<>> BY DEF Shape
<1>2. /\ m \in Seq(FrameSet) /\ Len(m) = Len(q) /\ DOMAIN m = DOMAIN q
      /\ m[Len(q)].at = x
      /\ \A k \in DOMAIN q : /\ m[k].mask = q[k].mask
                             /\ m[k].at = IF k = Len(q) THEN x ELSE q[k].at
  BY <1>1, MovedStack
<1> HIDE DEF m
<1>3. protocol = "burst" \/ p = "sender" =>
         \A k \in DOMAIN q : Own(m[k]) = Own(q[k]) \/ Len(q) = 1
  BY <1>1, <1>2 DEF Own
<1>4. Len(q) \in Nat \ {0} /\ DOMAIN q = 1 .. Len(q) BY <1>1
<1>5. Shape(p, m) BY <1>2, <1>4 DEF Shape
<1>6. Nested(p, m) BY <1>2, <1>3, <1>4 DEF Nested
<1> QED BY <1>5, <1>6 DEF m

\* ... when a handler ends, ...
LEMMA PoppedShape ==
    ASSUME Types, NEW p \in Processes, NEW q, Shape(p, q), Nested(p, q), Len(q) > 1
    PROVE  Shape(p, Front(q)) /\ Nested(p, Front(q))
<1>1. q \in Seq(FrameSet) /\ q # <<>> BY DEF Shape
<1>2. /\ Front(q) \in Seq(FrameSet) /\ Len(Front(q)) = Len(q) - 1
      /\ \A k \in 1 .. Len(q) - 1 : Front(q)[k] = q[k]
  BY <1>1, PoppedSize, Zenon
<1>3. Len(q) \in Nat /\ DOMAIN q = 1 .. Len(q) /\ DOMAIN Front(q) = 1 .. Len(q) - 1
  BY <1>1, <1>2
<1>4. Shape(p, Front(q)) BY <1>2, <1>3 DEF Shape
<1>5. Nested(p, Front(q)) BY <1>2, <1>3 DEF Nested
<1> QED BY <1>4, <1>5

\* ... and when one begins that the top frame does not block.
LEMMA PushedShape ==
    ASSUME Types, NEW p \in Processes, NEW q, Shape(p, q), Nested(p, q),
           NEW f \in FrameSet, NEW s \in Kinds, f.at = s, s \in f.mask,
           q[Len(q)].at \in HandlerLines(p) /\ (protocol = "burst" \/ p = "sender") =>
               s \notin q[Len(q)].mask /\ q[Len(q)].mask \subseteq f.mask
    PROVE  Shape(p, Append(q, f)) /\ Nested(p, Append(q, f))
<1> DEFINE m == Append(q, f)
<1>1. q \in Seq(FrameSet) /\ Len(q) \in Nat \ {0} /\ DOMAIN q = 1 .. Len(q)
  BY DEF Shape
<1>2. /\ m \in Seq(FrameSet) /\ Len(m) = Len(q) + 1 /\ m[Len(q) + 1] = f
      /\ \A k \in 1 .. Len(q) : m[k] = q[k]
  BY <1>1, AppendProperties
<1> HIDE DEF m
<1>3. s \in HandlerLines(p) BY DEF Kinds, HandlerLines, New, Reporting
<1>4. Shape(p, m) BY <1>1, <1>2, <1>3 DEF Shape
<1>5. ASSUME protocol = "burst" \/ p = "sender" PROVE Nested(p, m)
  <2>1. Own(f) = s BY DEF Own, Kinds, New
  <2>2. CASE Len(q) = 1 BY <1>1, <1>2, <2>1, <2>2 DEF Nested
  <2>3. CASE Len(q) # 1
    <3>1. q[Len(q)].at \in HandlerLines(p) BY <1>1, <2>3 DEF Shape
    <3>2. s \notin q[Len(q)].mask /\ q[Len(q)].mask \subseteq f.mask BY <1>5, <3>1
    <3>3. Len(q) = 2 BY <1>1, <1>5, <2>3, <3>2 DEF Nested
    <3>4. Own(q[2]) \in q[2].mask /\ q[2].mask \subseteq Kinds /\ f.mask \subseteq Kinds
      <4>1. q[2] \in FrameSet
        <5>1. 2 \in 1 .. Len(q) BY <3>3
        <5> QED BY <1>1, <5>1, ElementOfSeq
      <4>2. q[2].mask \subseteq Kinds /\ f.mask \subseteq Kinds BY <4>1 DEF FrameSet
      <4>3. Own(q[2]) \in q[2].mask BY <1>5, <3>3 DEF Nested
      <4> QED BY <4>2, <4>3
    <3>5. Own(q[2]) \in Kinds BY DEF Own, Kinds
    <3>6. Own(q[2]) # Own(f) /\ f.mask = Kinds BY <2>1, <3>2, <3>3, <3>4, <3>5 DEF Kinds
    <3> QED BY <1>1, <1>2, <1>5, <3>3, <3>4, <3>6 DEF Nested
  <2> QED BY <2>2, <2>3
<1> QED BY <1>4, <1>5 DEF m, Nested

\* The lines at which IInv counts the frames.
Groups == {New, {"counts"}, Counted, {"answers"}, {"sig2"}}

\* A step of p that takes a frame at a line from away from its stack, or
\* brings one at a line to; "none" stands for no such frame.
Change(p, from, to) ==
    /\ stack' \in [Processes -> Seq(FrameSet)] /\ Stacks'
    /\ \A r \in Processes \ {p} : stack'[r] = stack[r]
    /\ \A S \in Groups :
          Size(stack'[p], S) + One(from \in S) = Size(stack[p], S) + One(to \in S)

\* The numbers of frames change with the stack of the process that takes the step.
LEMMA SizesChange ==
    ASSUME Types, NEW p \in Processes, NEW r \in Processes, NEW from, NEW to,
           Change(p, from, to)
    PROVE  /\ r # p => \A S : Size(stack'[r], S) = Running(r, S)
           /\ \A S \in Groups :
                /\ Size(stack'[p], S) \in Nat /\ Running(p, S) \in Nat
                /\ Size(stack'[p], S) = Running(p, S) + One(to \in S) - One(from \in S)
<1>1. r # p => \A S : Size(stack'[r], S) = Running(r, S) BY DEF Change, Running
<1>2. \A S : Size(stack'[p], S) \in Nat BY FramesAreFinite DEF Change
<1>3. \A S : Running(p, S) \in Nat BY FramesAreFinite DEF Types, Running
<1>4. \A S \in Groups :
         Size(stack'[p], S) + One(from \in S) = Running(p, S) + One(to \in S)
  BY DEF Change, Running
<1>5. \A S : One(to \in S) \in Nat /\ One(from \in S) \in Nat BY DEF One
<1>6. ASSUME NEW S \in Groups
      PROVE  Size(stack'[p], S) = Running(p, S) + One(to \in S) - One(from \in S)
  <2>1. Size(stack'[p], S) + One(from \in S) = Running(p, S) + One(to \in S) BY <1>4
  <2> QED BY <1>2, <1>3, <1>5, <2>1
<1> QED BY <1>1, <1>2, <1>3, <1>6

\* A line follows another.
LEMMA Going ==
    ASSUME Types, Stacks, UNCHANGED arguments,
           NEW p \in Processes, NEW from \in Lines, NEW to \in Lines, Goto(p, from, to),
           \/ from \notin HandlerLines(p) /\ to \in MainLines(p)
           \/ /\ from \notin MainLines(p) /\ to \in HandlerLines(p)
              /\ protocol = "burst" \/ p = "sender" => (from \in New <=> to \in New)
    PROVE  /\ Change(p, from, to)
           /\ stack'[p] = Moved(stack[p], to) /\ Len(stack'[p]) = Len(stack[p])
           /\ Top(p).at = from
           /\ from \notin HandlerLines(p) => MainAt(p) = from /\ MainAt(p)' = to
           /\ from \notin MainLines(p) => MainAt(p)' = MainAt(p) /\ Len(stack[p]) > 1
<1> DEFINE q == stack[p]
<1>1. /\ q \in Seq(FrameSet) /\ q # <<>> /\ Len(q) \in Nat /\ Len(q) >= 1 /\ DOMAIN q = 1 .. Len(q)
      /\ Shape(p, q) /\ Nested(p, q)
  BY DEF Stacks, Shape
<1>2. q[Len(q)].at = from /\ stack' = [stack EXCEPT ![p] = Moved(q, to)]
  BY DEF Goto, At, Top, Last, Types, Moved
<1>3. stack'[p] = Moved(q, to) /\ \A r \in Processes \ {p} : stack'[r] = stack[r]
  BY <1>2 DEF Types
<1>4. /\ Len(q) = 1 => from \in MainLines(p)
      /\ Len(q) # 1 => from \in HandlerLines(p)
  <2>1. q[1].at \in MainLines(p) /\ \A k \in DOMAIN q : k # 1 => q[k].at \in HandlerLines(p)
    BY <1>1, Zenon DEF Shape
  <2> HIDE DEF q
  <2>2. Len(q) \in DOMAIN q BY <1>1
  <2> QED BY <1>2, <2>1, <2>2
<1>5. Moved(q, to) \in Seq(FrameSet) /\ Moved(q, to)[1].at = IF Len(q) = 1 THEN to ELSE q[1].at
  <2>1. 1 \in DOMAIN q BY <1>1
  <2> HIDE DEF q
  <2>2. /\ Moved(q, to) \in Seq(FrameSet)
        /\ \A k \in DOMAIN q : Moved(q, to)[k].at = IF k = Len(q) THEN to ELSE q[k].at
    BY <1>1, MovedStack
  <2> QED BY <2>1, <2>2
<1>6. Shape(p, Moved(q, to)) /\ Nested(p, Moved(q, to)) BY <1>1, <1>2, <1>4, MovedShape
<1>7. FrameSet' = FrameSet BY DEF FrameSet, arguments
<1>8. Stacks'
  <2>1. \A r \in Processes : Shape(r, stack'[r]) /\ Nested(r, stack'[r])
    BY <1>3, <1>6 DEF Stacks
  <2> QED BY <2>1, <1>7 DEF Stacks, Shape, Nested, MainLines, HandlerLines, arguments
<1>9. \A S \in Groups :
         Size(stack'[p], S) + One(from \in S) = Size(stack[p], S) + One(to \in S)
  BY <1>1, <1>2, <1>3, MovedSize
<1>10. stack' \in [Processes -> Seq(FrameSet)] BY <1>2, <1>5 DEF Types
<1>11. Change(p, from, to) BY <1>3, <1>8, <1>9, <1>10 DEF Change
<1>12. Top(p).at = from BY <1>2 DEF Top, Last
<1>13. stack'[p][1].at = IF Len(q) = 1 THEN to ELSE q[1].at BY <1>3, <1>5
<1>14. MainAt(p)' = IF Len(q) = 1 THEN to ELSE q[1].at BY <1>13 DEF MainAt
<1>15. Len(q) = 1 => MainAt(p) = from BY <1>2 DEF MainAt
<1>16. q[1].at = MainAt(p) /\ Len(q) \in Nat /\ Len(q) >= 1 BY <1>1 DEF MainAt
<1> HIDE DEF q
<1>17. from \notin HandlerLines(p) => MainAt(p) = from /\ MainAt(p)' = to
  BY <1>4, <1>14, <1>15
<1>18. from \notin MainLines(p) => MainAt(p)' = MainAt(p) /\ Len(q) > 1
  <2> SUFFICES ASSUME from \notin MainLines(p) PROVE MainAt(p)' = MainAt(p) /\ Len(q) > 1
    OBVIOUS
  <2>1. Len(q) # 1 BY <1>4
  <2>2. MainAt(p)' = MainAt(p) BY <1>14, <1>16, <2>1, Zenon
  <2>3. ASSUME NEW k \in Nat, k >= 1, k # 1 PROVE k > 1 BY <2>3
  <2> QED BY <1>16, <2>1, <2>2, <2>3, Zenon
<1>19. Len(stack'[p]) = Len(q) BY <1>1, <1>3, MovedStack DEF q
<1> QED BY <1>3, <1>11, <1>12, <1>17, <1>18, <1>19 DEF q

\* A handler returns.
LEMMA Returning ==
    ASSUME Types, Stacks, UNCHANGED arguments,
           NEW p \in Processes, NEW from \in Lines, Return(p, from), from \notin MainLines(p)
    PROVE  /\ Change(p, from, "none")
           /\ stack'[p] = Front(stack[p]) /\ Top(p).at = from
           /\ MainAt(p)' = MainAt(p) /\ Len(stack'[p]) = Len(stack[p]) - 1
<1> DEFINE q == stack[p]
<1>1. /\ q \in Seq(FrameSet) /\ q # <<>> /\ Len(q) \in Nat /\ Len(q) >= 1 /\ DOMAIN q = 1 .. Len(q)
      /\ Shape(p, q) /\ Nested(p, q)
  BY DEF Stacks, Shape
<1>2. q[Len(q)].at = from /\ stack' = [stack EXCEPT ![p] = Front(q)]
  BY DEF Return, At, Top, Last, Types
<1>3. stack'[p] = Front(q) /\ \A r \in Processes \ {p} : stack'[r] = stack[r]
  BY <1>2 DEF Types
<1>4. Len(q) > 1 BY <1>1, <1>2 DEF Shape
<1>5. /\ Front(q) \in Seq(FrameSet) /\ Len(Front(q)) = Len(q) - 1
      /\ \A k \in 1 .. Len(q) - 1 : Front(q)[k] = q[k]
      /\ \A S : Size(Front(q), S) + One(q[Len(q)].at \in S) = Size(q, S)
  BY <1>1, PoppedSize, Zenon
<1>6. Shape(p, Front(q)) /\ Nested(p, Front(q)) BY <1>1, <1>4, PoppedShape
<1>7. FrameSet' = FrameSet BY DEF FrameSet, arguments
<1>8. Stacks'
  <2>1. \A r \in Processes : Shape(r, stack'[r]) /\ Nested(r, stack'[r])
    BY <1>3, <1>6 DEF Stacks
  <2> QED BY <2>1, <1>7 DEF Stacks, Shape, Nested, MainLines, HandlerLines, arguments
<1>9. \A S \in Groups :
         Size(stack'[p], S) + One(from \in S) = Size(stack[p], S) + One("none" \in S)
  <2>1. \A S \in Groups : "none" \notin S BY DEF Groups, New, Counted
  <2>2. \A S : Size(q, S) \in Nat BY <1>1, FramesAreFinite
  <2> QED BY <1>2, <1>3, <1>5, <2>1, <2>2 DEF One
<1>10. stack' \in [Processes -> Seq(FrameSet)] BY <1>2, <1>5 DEF Types
<1>11. Change(p, from, "none") BY <1>3, <1>8, <1>9, <1>10 DEF Change
<1>12. Top(p).at = from BY <1>2 DEF Top, Last
<1>13. stack'[p][1] = q[1] BY <1>1, <1>3, <1>4, <1>5
<1> QED BY <1>3, <1>5, <1>11, <1>12, <1>13 DEF MainAt

\* A signal interrupts a process.
LEMMA Interrupting ==
    ASSUME Types, Stacks, NEW p \in Processes, NEW s \in Kinds, Deliver(p, s)
    PROVE  /\ Change(p, "none", s)
           /\ stack'[p] = Append(Moved(stack[p], Resumes(Top(p).at)),
                                 Frame(s, Blocked(p) \cup {s}, Head(pending[p][s])))
           /\ Len(stack'[p]) = Len(stack[p]) + 1
           /\ MainAt(p)' \in {MainAt(p), Resumes(MainAt(p))}
<1> DEFINE q == stack[p]
           a == Top(p).at
           m == Moved(q, Resumes(a))
           f == Frame(s, Blocked(p) \cup {s}, Head(pending[p][s]))
<1>1. /\ q \in Seq(FrameSet) /\ q # <<>> /\ Len(q) \in Nat /\ Len(q) >= 1 /\ DOMAIN q = 1 .. Len(q)
      /\ Shape(p, q) /\ Nested(p, q)
  BY DEF Stacks, Shape
<1>2. q[Len(q)].at = a /\ a # "ended" BY DEF Top, Last, Deliver, Ended, At
<1>3. stack' = [stack EXCEPT ![p] = Append(m, f)]
  BY DEF Deliver, Interrupt, Types, Moved, Top, Last
<1>4. stack'[p] = Append(m, f) /\ \A r \in Processes \ {p} : stack'[r] = stack[r]
  BY <1>3 DEF Types
<1>5. /\ Len(q) = 1 => a \in MainLines(p)
      /\ Len(q) # 1 => a \in HandlerLines(p)
      /\ a \in Lines
  <2>1. q[1].at \in MainLines(p) /\ \A k \in DOMAIN q : k # 1 => q[k].at \in HandlerLines(p)
    BY <1>1, Zenon DEF Shape
  <2>2. Len(q) \in DOMAIN q /\ q[Len(q)] \in FrameSet BY <1>1
  <2> HIDE DEF q, a
  <2> QED BY <1>2, <2>1, <2>2 DEF FrameSet
<1>6. /\ Resumes(a) \in Lines
      /\ Len(q) = 1 => Resumes(a) \in MainLines(p)
      /\ Len(q) # 1 => Resumes(a) \in HandlerLines(p)
      /\ \A S \in Groups : Resumes(a) \in S <=> a \in S
  <2> HIDE DEF q, a
  <2>1. Resumes(a) \in Lines BY <1>5 DEF Resumes, Lines, Suspended
  <2>2. a \in MainLines(p) => Resumes(a) \in MainLines(p)
    BY <1>2 DEF Resumes, MainLines, Sending
  <2>3. a \in HandlerLines(p) => Resumes(a) \in HandlerLines(p)
    BY DEF Resumes, HandlerLines, New, Counted, Reporting
  <2>4. \A S \in Groups : Resumes(a) \in S <=> a \in S
    BY DEF Resumes, Groups, New, Counted
  <2> QED BY <1>5, <2>1, <2>2, <2>3, <2>4
<1>7. /\ m \in Seq(FrameSet) /\ m # <<>> /\ Len(m) = Len(q) /\ DOMAIN m = DOMAIN q
      /\ m[Len(q)].at = Resumes(a)
      /\ \A k \in DOMAIN q : m[k].mask = q[k].mask /\ m[k].at = IF k = Len(q) THEN Resumes(a) ELSE q[k].at
  <2> HIDE DEF a
  <2> QED BY <1>1, <1>6, MovedStack
<1>8. Shape(p, m) /\ Nested(p, m)
  <2>1. Len(q) # 1 => (Resumes(a) \in New <=> q[Len(q)].at \in New) BY <1>2, <1>6 DEF Groups
  <2> HIDE DEF a, q
  <2> QED BY <1>1, <1>6, <2>1, MovedShape
<1>9. f \in FrameSet /\ f.at = s /\ f.mask = Blocked(p) \cup {s}
  <2>1. Blocked(p) \subseteq Kinds
    <3>1. Top(p) \in FrameSet BY <1>1 DEF Top, Last
    <3> QED BY <3>1 DEF Blocked, FrameSet, Suspended, Kinds
  <2>2. Head(pending[p][s]) \in 0 .. n
    <3>1. pending[p][s] \in Seq(0 .. n) /\ pending[p][s] # <<>>
      BY DEF Deliver, Deliverable, Types
    <3> QED BY <3>1, HeadTailProperties
  <2>3. s \in Lines BY DEF Kinds, Lines
  <2> QED BY <2>1, <2>2, <2>3 DEF Frame, FrameSet, Kinds
<1>10. m[Len(m)].at \in HandlerLines(p) /\ (protocol = "burst" \/ p = "sender") =>
          s \notin m[Len(m)].mask /\ m[Len(m)].mask \subseteq f.mask
  <2>1. m[Len(m)].mask = Top(p).mask /\ m[Len(m)].at = Resumes(a) BY <1>1, <1>7 DEF Top, Last
  <2>2. Resumes(a) \in HandlerLines(p) /\ (protocol = "burst" \/ p = "sender") =>
           a \notin DOMAIN Suspended
    <3> HIDE DEF a
    <3> QED BY DEF Resumes, HandlerLines, Suspended, New, Reporting, Types, Processes
  <2>3. s \notin Blocked(p) BY DEF Deliver, Deliverable
  <2>4. a \notin DOMAIN Suspended => Blocked(p) = Top(p).mask BY DEF Blocked
  <2> HIDE DEF a, m, f
  <2> QED BY <1>9, <2>1, <2>2, <2>3, <2>4
<1>11. Shape(p, stack'[p]) /\ Nested(p, stack'[p])
  <2> HIDE DEF m, f
  <2> QED BY <1>4, <1>8, <1>9, <1>10, PushedShape
<1>12. UNCHANGED arguments BY DEF Deliver, Interrupt
<1>13. FrameSet' = FrameSet BY <1>12 DEF FrameSet, arguments
<1>14. Stacks'
  <2>1. \A r \in Processes : Shape(r, stack'[r]) /\ Nested(r, stack'[r])
    BY <1>4, <1>11 DEF Stacks
  <2> QED BY <1>12, <1>13, <2>1 DEF Stacks, Shape, Nested, MainLines, HandlerLines, arguments
<1>15. ASSUME NEW S \in Groups
       PROVE  Size(stack'[p], S) + One("none" \in S) = Size(stack[p], S) + One(s \in S)
  <2>1. Size(stack'[p], S) = Size(m, S) + One(s \in S)
    <3> HIDE DEF m, f
    <3> QED BY <1>4, <1>7, <1>9, PushedSize
  <2>2. Size(m, S) + One(a \in S) = Size(q, S) + One(Resumes(a) \in S)
    <3> HIDE DEF a
    <3> QED BY <1>1, <1>2, <1>6, MovedSize
  <2>3. One(a \in S) = One(Resumes(a) \in S) BY <1>6 DEF One
  <2>4. One("none" \in S) = 0 BY DEF One, Groups, New, Counted
  <2>5. Size(m, S) \in Nat /\ Size(q, S) \in Nat /\ One(a \in S) \in Nat
    BY <1>1, <1>7, FramesAreFinite DEF One
  <2> HIDE DEF m, a, q
  <2>6. Size(m, S) = Size(q, S) BY <2>2, <2>3, <2>5
  <2>7. One(s \in S) \in Nat BY DEF One
  <2> QED BY <2>1, <2>4, <2>5, <2>6, <2>7 DEF q
<1>16. stack' \in [Processes -> Seq(FrameSet)]
  <2> HIDE DEF m, f
  <2>1. Append(m, f) \in Seq(FrameSet) BY <1>7, <1>9
  <2> QED BY <1>3, <2>1 DEF Types
<1>17. Change(p, "none", s) BY <1>4, <1>14, <1>15, <1>16 DEF Change
<1>18. MainAt(p)' \in {MainAt(p), Resumes(MainAt(p))}
  <2>1. stack'[p][1] = m[1]
    <3> HIDE DEF m, f
    <3> QED BY <1>1, <1>4, <1>7, <1>9, AppendProperties
  <2>2. 1 \in DOMAIN q BY <1>1
  <2>3. m[1].at = IF 1 = Len(q) THEN Resumes(a) ELSE q[1].at
    <3> HIDE DEF m, q, a
    <3> QED BY <1>7, <2>2
  <2>4. q[1].at = MainAt(p) /\ MainAt(p)' = stack'[p][1].at BY DEF MainAt
  <2> HIDE DEF m, q, a
  <2> QED BY <1>2, <2>1, <2>3, <2>4
<1>19. Len(stack'[p]) = Len(q) + 1
  <2> HIDE DEF m, f
  <2> QED BY <1>4, <1>7, <1>9
<1> QED BY <1>4, <1>17, <1>18, <1>19

------------------------------------------------------------------------------
(* Numbers *)

\* What a change of the stack of p means for the numbers of IInv.
Stays(p) ==
    /\ stack'[p] = stack[p] /\ MainAt(p)' = MainAt(p) /\ Height(p)' = Height(p)
    /\ Newly(p)' = Newly(p) /\ Counting(p)' = Counting(p) /\ Inside(p)' = Inside(p)
    /\ Answering(p)' = Answering(p) /\ Ending(p)' = Ending(p)
Differs(p, from, to) ==
    /\ Newly(p)' = Newly(p) + One(to \in New) - One(from \in New)
    /\ Counting(p)' = Counting(p) + One(to = "counts") - One(from = "counts")
    /\ Inside(p)' = Inside(p) + One(to \in Counted) - One(from \in Counted)
    /\ Answering(p)' = Answering(p) + One(to = "answers") - One(from = "answers")
    /\ Ending(p)' = Ending(p) + One(to = "sig2") - One(from = "sig2")

\* The other process's numbers stay.
LEMMA NumbersChange ==
    ASSUME Types, NEW p \in Processes, NEW r \in Processes, r # p, NEW from, NEW to,
           Change(p, from, to)
    PROVE  Stays(r) /\ Differs(p, from, to)
<1>1. stack'[r] = stack[r] BY DEF Change
<1>2. Stays(r)
  BY <1>1 DEF Stays, MainAt, Height, Newly, Counting, Inside, Answering, Ending, Running, New, Counted
<1>3. \A S \in Groups : Size(stack'[p], S) = Running(p, S) + One(to \in S) - One(from \in S)
  BY SizesChange
<1>4. /\ New \in Groups /\ {"counts"} \in Groups /\ Counted \in Groups
      /\ {"answers"} \in Groups /\ {"sig2"} \in Groups
  BY DEF Groups
<1>5. /\ Newly(p)' = Size(stack'[p], New) /\ Counting(p)' = Size(stack'[p], {"counts"})
      /\ Inside(p)' = Size(stack'[p], Counted) /\ Answering(p)' = Size(stack'[p], {"answers"})
      /\ Ending(p)' = Size(stack'[p], {"sig2"})
  BY Zenon DEF Newly, Counting, Inside, Answering, Ending, Running, New, Counted
<1>6. \A x, y : x \in {y} <=> x = y OBVIOUS
<1>7. \A x, y : One(x \in {y}) = One(x = y) BY <1>6 DEF One
<1>8. Differs(p, from, to)
  BY <1>3, <1>4, <1>5, <1>7 DEF Differs, Newly, Counting, Inside, Answering, Ending
<1> QED BY <1>2, <1>8

\* A process that has exited stays so.
Final == /\ HasExited("sender") => HasExited("sender")'
         /\ HasExited("catcher") => HasExited("catcher")'

\* It takes no step any more.
LEMMA Persists ==
    ASSUME UNCHANGED arguments, NEW p \in Processes, NEW from, NEW to, Change(p, from, to),
           ~Ended(p)
    PROVE  Final
<1>1. ASSUME NEW r \in Processes, HasExited(r) PROVE HasExited(r)'
  <2>1. r # p BY <1>1 DEF HasExited
  <2>2. stack'[r] = stack[r] BY <2>1 DEF Change
  <2> QED BY <1>1, <2>2 DEF HasExited, Ended, At, Top, arguments
<1> QED BY <1>1 DEF Final, Processes

\* What exit does: nothing waits for the process any more.
Empties(p) == pending' = [pending EXCEPT ![p] = [s \in Kinds |-> <<>>]]

LEMMA Exiting ==
    ASSUME Types, Stacks, UNCHANGED arguments, protocol = "burst", NEW p \in Processes,
           NEW from, Exit(p, from), stack'[p] = Moved(stack[p], "ended")
    PROVE  HasExited(p)' /\ Empties(p)
<1>1. stack[p] \in Seq(FrameSet) /\ stack[p] # <<>> BY DEF Stacks, Shape
<1>2. "ended" \in Lines BY DEF Lines
<1>3. /\ Len(stack'[p]) = Len(stack[p]) /\ stack'[p][Len(stack[p])].at = "ended"
  BY <1>1, <1>2, MovedStack
<1>4. Ended(p)' BY <1>3 DEF Ended, At, Top, Last
<1> QED BY <1>4 DEF HasExited, arguments, Exit, Empties

LEMMA Emptied ==
    ASSUME Types, NEW p \in Processes, NEW r \in Processes, r # p, Empties(p)
    PROVE  /\ pending' \in [Processes -> [Kinds -> Seq(0 .. n)]]
           /\ pending'[r] = pending[r] /\ \A s \in Kinds : pending'[p][s] = <<>>
           /\ Waiting1(p)' = 0 /\ Waiting2(p)' = 0
           /\ Waiting1(r)' = Waiting1(r) /\ Waiting2(r)' = Waiting2(r)
           /\ pending'[p]["sig1"] = <<>> /\ pending'[p]["sig2"] = <<>>
<1>1. <<>> \in Seq(0 .. n) OBVIOUS
<1>2. [s \in Kinds |-> <<>>] \in [Kinds -> Seq(0 .. n)] BY <1>1
<1>3. /\ pending' \in [Processes -> [Kinds -> Seq(0 .. n)]]
      /\ pending'[r] = pending[r] /\ pending'[p] = [s \in Kinds |-> <<>>]
  BY <1>2 DEF Types, Empties
<1>4. \A s \in Kinds : pending'[p][s] = <<>> BY <1>3
<1>5. pending'[p]["sig1"] = <<>> /\ pending'[p]["sig2"] = <<>> BY <1>4 DEF Kinds
<1> QED BY <1>3, <1>4, <1>5 DEF Waiting1, Waiting2

\* The top frame counts; and main, when no handler is above it, is all there is.
LEMMA TopCounts ==
    ASSUME Types, Stacks, NEW p \in Processes, NEW S
    PROVE  /\ Top(p).at \in S => Running(p, S) > 0
           /\ Top(p).at \notin HandlerLines(p) =>
                 Top(p).at = MainAt(p) /\ (MainAt(p) \notin S => Running(p, S) = 0)
           /\ Top(p).at \notin MainLines(p) => Top(p).at \in HandlerLines(p)
<1> DEFINE q == stack[p]
<1>1. /\ q \in Seq(FrameSet) /\ Len(q) \in Nat /\ Len(q) >= 1 /\ DOMAIN q = 1 .. Len(q)
      /\ q[1].at \in MainLines(p) /\ \A k \in DOMAIN q : k # 1 => q[k].at \in HandlerLines(p)
  BY DEF Stacks, Shape
<1>2. Top(p).at = q[Len(q)].at /\ MainAt(p) = q[1].at BY DEF Top, Last, MainAt
<1>3. /\ Running(p, S) > 0 <=> \E k \in DOMAIN q : q[k].at \in S
      /\ Running(p, S) = 0 <=> \A k \in DOMAIN q : q[k].at \notin S
  BY <1>1, SizeIsPositive, Zenon DEF Running
<1> HIDE DEF q
<1>4. Len(q) \in DOMAIN q BY <1>1
<1>5. Top(p).at \notin HandlerLines(p) => Len(q) = 1 BY <1>1, <1>2, <1>4
<1>6. Top(p).at \notin MainLines(p) => Len(q) # 1 BY <1>1, <1>2, <1>4
<1> QED BY <1>1, <1>2, <1>3, <1>4, <1>5, <1>6

\* What kill and sigqueue do to the signals that wait.
LEMMA Sent ==
    ASSUME Types, NEW to \in Processes, NEW s \in Kinds, NEW v \in 0 .. n, Send(to, s, v)
    PROVE  /\ pending' \in [Processes -> [Kinds -> Seq(0 .. n)]]
           /\ \A r \in Processes, k \in Kinds : <<r, k>> # <<to, s>> => pending'[r][k] = pending[r][k]
           /\ Len(pending'[to][s]) = IF Queues \/ Len(pending[to][s]) = 0
                                     THEN Len(pending[to][s]) + 1 ELSE Len(pending[to][s])
           /\ pending[to][s] = <<>> => pending'[to][s] = <<v>>
<1> DEFINE w == pending[to][s]
<1>1. w \in Seq(0 .. n) /\ (w = <<>> <=> Len(w) = 0) /\ Len(w) \in Nat BY DEF Types
<1>2. Append(w, v) \in Seq(0 .. n) /\ Len(Append(w, v)) = Len(w) + 1
      /\ (w = <<>> => Append(w, v) = <<v>>)
  <2>1. Append(w, v) \in Seq(0 .. n) /\ Len(Append(w, v)) = Len(w) + 1
    BY <1>1, AppendProperties
  <2>2. Append(<<>>, v) = <<v>> OBVIOUS
  <2> HIDE DEF w
  <2> QED BY <2>1, <2>2
<1>3. CASE Queues \/ w = <<>>
  <2>1. pending' = [pending EXCEPT ![to] = [pending[to] EXCEPT ![s] = Append(w, v)]]
    BY <1>3 DEF Send
  <2>2. pending'[to][s] = Append(w, v) BY <2>1 DEF Types
  <2>3. pending' \in [Processes -> [Kinds -> Seq(0 .. n)]]
    <3> HIDE DEF w
    <3> QED BY <1>2, <2>1 DEF Types
  <2>4. \A r \in Processes, k \in Kinds : <<r, k>> # <<to, s>> => pending'[r][k] = pending[r][k]
    BY <2>1 DEF Types
  <2> QED BY <1>1, <1>2, <1>3, <2>2, <2>3, <2>4
<1>4. CASE ~Queues /\ w # <<>>
  <2>1. pending' = pending BY <1>4 DEF Send
  <2> QED BY <1>1, <1>4, <2>1 DEF Types
<1> QED BY <1>3, <1>4

\* All that IInv counts is a number.
AreNumbers(p) ==
    /\ Newly(p) \in Nat /\ Counting(p) \in Nat /\ Inside(p) \in Nat
    /\ Answering(p) \in Nat /\ Ending(p) \in Nat /\ Height(p) \in Nat
    /\ Waiting1(p) \in Nat /\ Waiting2(p) \in Nat /\ counter[p] \in 0 .. n
Counts ==
    /\ AreNumbers("sender") /\ AreNumbers("catcher")
    /\ sent \in 0 .. n /\ answered \in 0 .. n /\ n \in Nat

\* The types of the variables give the numbers theirs.
LEMMA Naturals == ASSUME Types PROVE Counts
<1>1. ASSUME NEW p \in Processes PROVE AreNumbers(p)
  <2>1. Waiting1(p) \in Nat /\ Waiting2(p) \in Nat /\ counter[p] \in 0 .. n /\ Height(p) \in Nat
    BY DEF Types, Kinds, Waiting1, Waiting2, Height
  <2>2. \A S : Running(p, S) \in Nat BY FramesAreFinite DEF Types, Running
  <2> QED BY <2>1, <2>2 DEF AreNumbers, Newly, Counting, Inside, Answering, Ending
<1>2. "sender" \in Processes /\ "catcher" \in Processes BY DEF Processes
<1>3. sent \in 0 .. n /\ answered \in 0 .. n /\ n \in Nat BY DEF Types
<1> QED BY <1>1, <1>2, <1>3 DEF Counts

Numbers == Depth /\ OneToken /\ Merged /\ Known /\ Round

------------------------------------------------------------------------------
(* What the catcher has settled *)

\* The sender changes nothing of it, ...
LEMMA SenderSettled ==
    ASSUME Types, Stacks, Settled, Counts, UNCHANGED arguments,
           stack'["catcher"] = stack["catcher"], counter'["catcher"] = counter["catcher"],
           pending'["sender"]["sig2"] \in {pending["sender"]["sig2"], <<>>},
           \/ MainAt("sender") \in Sending
           \/ pending'["catcher"] = pending["catcher"] /\ MainAt("sender")' \notin Sending,
           Ending("sender")' <= Ending("sender"), Ending("sender")' \in Nat,
           \/ \E x \in Lines \ {"sig2"} : stack'["sender"] = Moved(stack["sender"], x)
           \/ stack'["sender"] = Front(stack["sender"])
    PROVE  Settled'
<1> SUFFICES ASSUME protocol = "burst" PROVE Settled' BY DEF Settled, arguments
<1>1. Quiet /\ Answered /\ (mode = "SIGQUEUE" => Values) BY DEF Settled
<1>2. Quiet'
  <2>1. \A k \in Frames(stack'["catcher"], Reporting) : k \in Frames(stack["catcher"], Reporting)
    OBVIOUS
  <2>2. \A k \in Frames(stack["catcher"], Reporting) : Reports(k)' BY <1>1 DEF Quiet, Reports
  <2> QED BY <2>1, <2>2, Zenon DEF Quiet, Reporting
<1>3. Answered' BY <1>1, SMTT(30) DEF Answered, Top, Counts, AreNumbers
<1>4. ASSUME mode = "SIGQUEUE" PROVE Values'
  <2> DEFINE q == stack["sender"]
             m == stack'["sender"]
  <2>1. q \in Seq(FrameSet) /\ q # <<>> BY DEF Stacks, Shape, Processes
  <2>2. \A k \in Frames(m, {"sig2"}) : k \in Frames(q, {"sig2"}) /\ m[k].value = q[k].value
    <3>1. CASE \E x \in Lines \ {"sig2"} : m = Moved(q, x)
      <4>1. PICK x \in Lines \ {"sig2"} : m = Moved(q, x) BY <3>1
      <4> HIDE DEF q, m
      <4>2. /\ DOMAIN m = DOMAIN q
            /\ \A k \in DOMAIN q : /\ m[k].value = q[k].value
                                   /\ m[k].at = IF k = Len(q) THEN x ELSE q[k].at
        BY <2>1, <4>1, MovedStack
      <4> QED BY <4>2 DEF Frames
    <3>2. CASE m = Front(q)
      <4> HIDE DEF q, m
      <4>1. Len(m) = Len(q) - 1 /\ m \in Seq(FrameSet) /\ \A k \in 1 .. Len(q) - 1 : m[k] = q[k]
        BY <2>1, <3>2, PoppedSize
      <4>2. DOMAIN m = 1 .. Len(q) - 1 /\ DOMAIN q = 1 .. Len(q) /\ Len(q) \in Nat BY <2>1, <4>1
      <4> QED BY <4>1, <4>2 DEF Frames
    <3> QED BY <3>1, <3>2
  <2>3. Values BY <1>1, <1>4
  <2>4. \A k \in Frames(m, {"sig2"}) : m[k].value = counter'["catcher"] BY <2>2, <2>3 DEF Values
  <2> QED BY <2>3, <2>4 DEF Values
<1> QED BY <1>2, <1>3, <1>4 DEF Settled, arguments

\* ... nor does the catcher before it handles sig2.
LEMMA CatcherSettled ==
    ASSUME Types, Stacks, Settled, Counts, UNCHANGED arguments,
           stack'["sender"] = stack["sender"], pending'["sender"] = pending["sender"],
           Ending("sender")' = Ending("sender"), Top("catcher").at \notin Reporting,
           \/ \E x \in Lines \ Reporting : stack'["catcher"] = Moved(stack["catcher"], x)
           \/ stack'["catcher"] = Front(stack["catcher"])
           \/ \E x \in Lines \ Reporting, f \in FrameSet :
                 /\ f.at \notin Reporting
                 /\ stack'["catcher"] = Append(Moved(stack["catcher"], x), f)
    PROVE  Settled'
<1> SUFFICES ASSUME protocol = "burst" PROVE Settled' BY DEF Settled, arguments
<1>1. Quiet /\ Answered BY DEF Settled
<1> DEFINE q == stack["catcher"]
           m == stack'["catcher"]
<1>2. q \in Seq(FrameSet) /\ q # <<>> BY DEF Stacks, Shape, Processes
<1>3. Frames(q, Reporting) = {}
  <2>1. \A k \in Frames(q, Reporting) : k = Len(q) /\ q[k].at \in Reporting
    BY <1>1 DEF Quiet, Reports, Frames
  <2>2. q[Len(q)].at \notin Reporting BY DEF Top, Last
  <2> HIDE DEF q
  <2> QED BY <2>1, <2>2
<1>4. Frames(m, Reporting) = {}
  <2>1. CASE \E x \in Lines \ Reporting : m = Moved(q, x)
    <3>1. PICK x \in Lines \ Reporting : m = Moved(q, x) BY <2>1
    <3> HIDE DEF q, m
    <3>2. /\ DOMAIN m = DOMAIN q
          /\ \A k \in DOMAIN q : m[k].at = IF k = Len(q) THEN x ELSE q[k].at
      BY <1>2, <3>1, MovedStack
    <3> QED BY <1>3, <3>2 DEF Frames
  <2>2. CASE m = Front(q)
    <3> HIDE DEF q, m
    <3>1. Len(m) = Len(q) - 1 /\ m \in Seq(FrameSet) /\ \A k \in 1 .. Len(q) - 1 : m[k] = q[k]
      BY <1>2, <2>2, PoppedSize
    <3>2. DOMAIN m = 1 .. Len(q) - 1 /\ DOMAIN q = 1 .. Len(q) /\ Len(q) \in Nat BY <1>2, <3>1
    <3> QED BY <1>3, <3>1, <3>2 DEF Frames
  <2>3. CASE \E x \in Lines \ Reporting, f \in FrameSet :
                f.at \notin Reporting /\ m = Append(Moved(q, x), f)
    <3>1. PICK x \in Lines \ Reporting, f \in FrameSet :
                 f.at \notin Reporting /\ m = Append(Moved(q, x), f)
      BY <2>3
    <3> HIDE DEF q, m
    <3>2. /\ Moved(q, x) \in Seq(FrameSet) /\ DOMAIN Moved(q, x) = DOMAIN q
          /\ \A k \in DOMAIN q : Moved(q, x)[k].at = IF k = Len(q) THEN x ELSE q[k].at
      BY <1>2, <3>1, MovedStack
    <3>3. \A k \in DOMAIN m : IF k \in DOMAIN q THEN m[k] = Moved(q, x)[k] ELSE m[k] = f
      BY <1>2, <3>1, <3>2, AppendProperties
    <3>4. \A k \in DOMAIN m : m[k].at \notin Reporting BY <1>3, <3>1, <3>2, <3>3 DEF Frames
    <3> QED BY <3>4 DEF Frames
  <2> QED BY <2>1, <2>2, <2>3
<1>5. Ending("sender") = 0 /\ pending["sender"]["sig2"] = <<>>
  <2>1. Top("catcher").at \notin {"prints", "ended"} BY DEF Reporting
  <2>2. ~(Ending("sender") > 0) /\ pending["sender"]["sig2"] = <<>>
    BY <1>1, <2>1, Zenon DEF Answered
  <2> QED BY <2>2, SMTT(30) DEF Counts, AreNumbers
<1>6. Quiet' BY <1>4, Zenon DEF Quiet, Reporting
<1>7. Answered' BY <1>5 DEF Answered
<1>8. Values'
  <2>1. \A k \in DOMAIN stack["sender"] : stack["sender"][k].at \notin {"sig2"}
    <3>1. stack["sender"] \in Seq(FrameSet) BY DEF Types, Processes
    <3> QED BY <1>5, <3>1, SizeIsPositive, Zenon DEF Ending, Running
  <2>2. Frames(stack'["sender"], {"sig2"}) = {} BY <2>1 DEF Frames
  <2> QED BY <1>5, <2>2, Zenon DEF Values
<1> QED BY <1>6, <1>7, <1>8 DEF Settled

------------------------------------------------------------------------------
(* The actions *)

\* The sender counts an answer.
LEMMA SenderCountsKeeps ==
    ASSUME IInv, SenderCounts
    PROVE  IInv'
<1>1. Types /\ Stacks /\ Numbers /\ Settled BY DEF IInv, Numbers
<1>2. "sig1" \in Lines /\ "sig1" \notin MainLines("sender")
      /\ "sender" \in Processes /\ "catcher" \in Processes /\ "sender" # "catcher"
  BY DEF Lines, MainLines, Sending, Processes
<1>3. UNCHANGED arguments /\ Return("sender", "sig1") BY DEF SenderCounts
<1>4. /\ Change("sender", "sig1", "none") /\ stack'["sender"] = Front(stack["sender"])
      /\ Top("sender").at = "sig1" /\ MainAt("sender")' = MainAt("sender")
  BY <1>1, <1>2, <1>3, Returning
<1>5. Newly("sender") > 0 BY <1>1, <1>2, <1>4, TopCounts DEF New, Newly
<1>6. Counts BY <1>1, Naturals
<1>7. /\ counter'["sender"] = counter["sender"] + 1 /\ counter'["catcher"] = counter["catcher"]
      /\ counter["sender"] + 1 <= n => counter' \in [Processes -> 0 .. n]
  BY <1>1, <1>2, <1>6 DEF SenderCounts, Types, Counts
<1>8. Stays("catcher") /\ Differs("sender", "sig1", "none")
  BY <1>1, <1>2, <1>4, NumbersChange
<1>9. /\ Stays("catcher") /\ Newly("sender")' = Newly("sender") - 1
      /\ Ending("sender")' = Ending("sender")
  BY <1>6, <1>8 DEF Differs, One, New, Counts, AreNumbers
<1>10. /\ UNCHANGED arguments /\ UNCHANGED pending
       /\ sent' = sent /\ answered' = answered /\ known' = known
       /\ Waiting1("sender")' = Waiting1("sender") /\ Waiting2("sender")' = Waiting2("sender")
       /\ Waiting1("catcher")' = Waiting1("catcher") /\ Waiting2("catcher")' = Waiting2("catcher")
  BY DEF SenderCounts, Waiting1, Waiting2
<1>11. Types'
  <2>1. counter["sender"] + 1 <= n
    BY <1>1, <1>5, <1>6 DEF Numbers, Merged, Sound, Arrived, Counts, AreNumbers
  <2> QED BY <1>1, <1>4, <1>7, <1>10, <2>1 DEF Types, Change, arguments, FrameSet
<1>12. Final BY <1>2, <1>3, <1>4, Persists DEF Ended, At, Goto, Top
<1>13. Numbers'
  <2>1. Depth' BY <1>1, <1>7, <1>9, <1>10 DEF Numbers, Depth, arguments, Stays
  <2>2. OneToken' BY <1>1, <1>4, <1>9, <1>10 DEF Numbers, OneToken, Token, Stays
  <2>3. Merged'
    <3>1. Merged BY <1>1 DEF Numbers
    <3>2. /\ counter'["sender"] = counter["sender"] + 1 /\ counter'["catcher"] = counter["catcher"]
          /\ Newly("sender")' = Newly("sender") - 1 /\ Stays("catcher")
      BY <1>7, <1>9
    <3> QED BY <1>6, <1>10, <1>12, <3>1, <3>2
            DEF Merged, Sound, Arrived, Counts, AreNumbers, Stays, arguments, Queues, Exact, Final
  <2>4. Known' BY <1>1, <1>7, <1>9, <1>10 DEF Numbers, Known, Stays
  <2>5. Round'
    BY <1>1, <1>12, <1>4, <1>5, <1>6, <1>7, <1>9, <1>10
    DEF Numbers, Round, Merged, Sound, Arrived, Counts, AreNumbers, arguments
  <2> QED BY <2>1, <2>2, <2>3, <2>4, <2>5 DEF Numbers
<1>14. Settled'
  <2>1. Ending("sender")' <= Ending("sender") /\ Ending("sender")' \in Nat
    BY <1>6, <1>9 DEF Counts, AreNumbers
  <2>2. \/ MainAt("sender") \in Sending
        \/ pending'["catcher"] = pending["catcher"] /\ MainAt("sender")' \notin Sending
    BY <1>4, <1>10
  <2>3. pending'["sender"]["sig2"] \in {pending["sender"]["sig2"], <<>>}
    BY <1>10
  <2> QED BY <1>1, <1>4, <1>6, <1>7, <1>9, <1>10, <2>1, <2>2, <2>3, SenderSettled, Zenon DEF Stays
<1> QED BY <1>4, <1>11, <1>13, <1>14 DEF IInv, Change, Numbers

\* The sender ends its report, after which it exits or returns to main.
LEMMA SenderReportsKeeps ==
    ASSUME IInv, SenderReports
    PROVE  IInv'
<1>1. Types /\ Stacks /\ Numbers /\ Settled BY DEF IInv, Numbers
<1>2. "sig2" \in Lines /\ "ended" \in Lines /\ "sig2" \notin MainLines("sender")
      /\ "sender" \in Processes /\ "catcher" \in Processes /\ "sender" # "catcher"
  BY DEF Lines, MainLines, Sending, Processes
<1>3. UNCHANGED arguments /\ sent' = sent /\ answered' = answered
      /\ counter' = counter /\ known' = known
  BY DEF SenderReports, counts
<1>4. PICK to \in {"ended", "none"} :
         /\ Change("sender", "sig2", to) /\ Top("sender").at = "sig2"
         /\ MainAt("sender")' = MainAt("sender")
         /\ \/ \E x \in Lines \ {"sig2"} : stack'["sender"] = Moved(stack["sender"], x)
            \/ stack'["sender"] = Front(stack["sender"])
         /\ \/ protocol = "burst" /\ HasExited("sender")' /\ Empties("sender")
            \/ protocol = "handshake" /\ UNCHANGED pending
  <2>1. CASE protocol = "burst" /\ Exit("sender", "sig2")
    <3>1. "ended" \in HandlerLines("sender") /\ ("sig2" \in New <=> "ended" \in New)
      BY <2>1 DEF HandlerLines, Reporting, New
    <3>2. /\ Change("sender", "sig2", "ended") /\ Top("sender").at = "sig2"
          /\ MainAt("sender")' = MainAt("sender") /\ stack'["sender"] = Moved(stack["sender"], "ended")
      BY <1>1, <1>2, <1>3, <2>1, <3>1, Going DEF Exit
    <3>3. HasExited("sender")' /\ Empties("sender") BY <1>1, <1>2, <1>3, <2>1, <3>2, Exiting
    <3> QED BY <1>2, <2>1, <3>2, <3>3
  <2>2. CASE protocol = "handshake" /\ Return("sender", "sig2") /\ UNCHANGED pending
    <3>1. /\ Change("sender", "sig2", "none") /\ Top("sender").at = "sig2"
          /\ MainAt("sender")' = MainAt("sender") /\ stack'["sender"] = Front(stack["sender"])
      BY <1>1, <1>2, <1>3, <2>2, Returning
    <3> QED BY <2>2, <3>1
  <2> QED BY <2>1, <2>2 DEF SenderReports
<1>5. Ending("sender") > 0 BY <1>1, <1>2, <1>4, TopCounts DEF Ending
<1>6. Counts BY <1>1, Naturals
<1>7. Stays("catcher") /\ Differs("sender", "sig2", to) BY <1>1, <1>2, <1>4, NumbersChange
<1>8. /\ Newly("sender")' = Newly("sender") /\ Ending("sender")' = Ending("sender") - 1
  BY <1>4, <1>6, <1>7 DEF Differs, One, New, Counts, AreNumbers
<1>9. /\ Waiting1("sender")' \in {Waiting1("sender"), 0}
      /\ Waiting2("sender")' \in {Waiting2("sender"), 0}
      /\ Waiting1("catcher")' = Waiting1("catcher") /\ Waiting2("catcher")' = Waiting2("catcher")
      /\ HasExited("sender")' \/ Waiting1("sender")' = Waiting1("sender")
      /\ pending' \in [Processes -> [Kinds -> Seq(0 .. n)]]
      /\ pending'["catcher"] = pending["catcher"]
      /\ pending'["sender"]["sig2"] \in {pending["sender"]["sig2"], <<>>}
  <2>1. CASE Empties("sender") /\ HasExited("sender")'
    BY <1>1, <1>2, <2>1, Emptied
  <2>2. CASE UNCHANGED pending BY <1>1, <2>2 DEF Waiting1, Waiting2, Types
  <2> QED BY <1>4, <2>1, <2>2
<1>10. Final BY <1>2, <1>3, <1>4, Persists DEF Ended, At
<1>11. Types' BY <1>1, <1>3, <1>4, <1>9 DEF Types, Change, arguments, FrameSet
<1>12. Numbers'
  <2>1. Depth' BY <1>1, <1>3, <1>7 DEF Numbers, Depth, arguments, Stays
  <2>0. /\ Waiting1("sender")' \in {Waiting1("sender"), 0}
        /\ Waiting2("sender")' \in {Waiting2("sender"), 0}
        /\ Waiting1("catcher")' = Waiting1("catcher") /\ Waiting2("catcher")' = Waiting2("catcher")
        /\ HasExited("sender")' \/ Waiting1("sender")' = Waiting1("sender")
    BY <1>9
  <2>2. OneToken'
    <3>1. MainAt("sender")' = MainAt("sender") BY <1>4
    <3> QED BY <1>1, <1>5, <1>6, <1>7, <1>8, <2>0, <3>1
            DEF Numbers, OneToken, Token, Stays, Counts, AreNumbers
  <2>3. Merged'
    <3>1. Merged BY <1>1 DEF Numbers
    <3> QED BY <1>3, <1>6, <1>7, <1>8, <1>10, <2>0, <3>1
            DEF Merged, Sound, Arrived, Stays, arguments, Queues, Exact, Final, Counts, AreNumbers
  <2>4. Known' BY <1>1, <1>3, <1>7 DEF Numbers, Known, Stays
  <2>5. Round' BY <1>1, <1>3, <1>4, <1>8 DEF Numbers, Round, Arrived, arguments
  <2> QED BY <2>1, <2>2, <2>3, <2>4, <2>5 DEF Numbers
<1>13. Settled'
  <2>1. Ending("sender")' <= Ending("sender") /\ Ending("sender")' \in Nat
    BY <1>5, <1>6, <1>8 DEF Counts, AreNumbers
  <2>2. \/ MainAt("sender") \in Sending
        \/ pending'["catcher"] = pending["catcher"] /\ MainAt("sender")' \notin Sending
    BY <1>4, <1>9
  <2>3. counter'["catcher"] = counter["catcher"] BY <1>3
  <2> QED BY <1>1, <1>3, <1>4, <1>6, <1>7, <1>9, <2>1, <2>2, <2>3, SenderSettled, Zenon DEF Stays
<1> QED BY <1>4, <1>11, <1>12, <1>13 DEF IInv, Change, Numbers

\* The sender begins to wait.
LEMMA SenderSuspendsKeeps ==
    ASSUME IInv, SenderSuspends
    PROVE  IInv'
<1>1. Types /\ Stacks /\ Numbers /\ Settled BY DEF IInv, Numbers
<1>2. "sender" \in Processes /\ "catcher" \in Processes /\ "sender" # "catcher" BY DEF Processes
<1>3. UNCHANGED arguments /\ UNCHANGED pending /\ sent' = sent /\ answered' = answered
      /\ counter' = counter /\ known' = known
  BY DEF SenderSuspends, counts
<1>4. PICK from \in {"hasSentOne", "hasSent"}, to \in {"waitsForAnswer", "waits"} :
         Goto("sender", from, to) /\ (from = "hasSent" <=> to = "waits")
  BY DEF SenderSuspends
<1>5. from \in Lines /\ to \in Lines /\ from \notin HandlerLines("sender") /\ from \notin New
      /\ to \notin New /\ to # "sig2" /\ from # "sig2"
  BY <1>4 DEF Lines, Suspended, HandlerLines, New, Reporting
<1>6. to \in MainLines("sender")
  <2>1. Top("sender").at = from BY <1>4 DEF Goto, At
  <2>2. from \in MainLines("sender") BY <1>1, <1>2, <1>5, <2>1, TopCounts
  <2> QED BY <1>4, <2>2 DEF MainLines, Sending
<1>7. /\ Change("sender", from, to) /\ stack'["sender"] = Moved(stack["sender"], to)
      /\ MainAt("sender") = from /\ MainAt("sender")' = to
  BY <1>1, <1>2, <1>3, <1>4, <1>5, <1>6, Going
<1>8. Counts BY <1>1, Naturals
<1>9. Stays("catcher") /\ Differs("sender", from, to) BY <1>1, <1>2, <1>7, NumbersChange
<1>10. /\ Newly("sender")' = Newly("sender") /\ Ending("sender")' = Ending("sender")
  BY <1>5, <1>8, <1>9 DEF Differs, One, Counts, AreNumbers
<1>11. /\ Waiting1("sender")' = Waiting1("sender") /\ Waiting2("sender")' = Waiting2("sender")
       /\ Waiting1("catcher")' = Waiting1("catcher") /\ Waiting2("catcher")' = Waiting2("catcher")
  BY <1>3 DEF Waiting1, Waiting2
<1>12. Types' BY <1>1, <1>3, <1>7 DEF Types, Change, arguments, FrameSet
<1>13. from \in Sending <=> to \in Sending BY <1>4 DEF Sending
<1>14. Final BY <1>2, <1>3, <1>4, <1>7, Persists DEF Ended, At, Goto, Top
<1>15. Numbers'
  <2>1. Depth' BY <1>1, <1>3, <1>9 DEF Numbers, Depth, arguments, Stays
  <2>2. OneToken' BY <1>1, <1>7, <1>9, <1>10, <1>11, <1>13 DEF Numbers, OneToken, Token, Stays
  <2>3. Merged'
    BY <1>1, <1>14, <1>3, <1>9, <1>10, <1>11
    DEF Numbers, Merged, Sound, Arrived, Stays, arguments, Queues, Exact, Final
  <2>4. Known' BY <1>1, <1>3, <1>9 DEF Numbers, Known, Stays
  <2>5. Round' BY <1>1, <1>3, <1>4, <1>7, <1>10, <1>13 DEF Numbers, Round, Arrived, arguments
  <2> QED BY <2>1, <2>2, <2>3, <2>4, <2>5 DEF Numbers
<1>16. Settled'
  <2>1. Ending("sender")' <= Ending("sender") /\ Ending("sender")' \in Nat
    BY <1>8, <1>10 DEF Counts, AreNumbers
  <2>2. \/ MainAt("sender") \in Sending
        \/ pending'["catcher"] = pending["catcher"] /\ MainAt("sender")' \notin Sending
    BY <1>3, <1>7, <1>13
  <2>3. pending'["sender"]["sig2"] \in {pending["sender"]["sig2"], <<>>}
        /\ counter'["catcher"] = counter["catcher"]
    BY <1>3
  <2>4. \E x \in Lines \ {"sig2"} : stack'["sender"] = Moved(stack["sender"], x) BY <1>5, <1>7
  <2> QED BY <1>1, <1>3, <1>8, <1>9, <2>1, <2>2, <2>3, <2>4, SenderSettled, Zenon DEF Stays
<1> QED BY <1>7, <1>12, <1>15, <1>16 DEF IInv, Change, Numbers

\* The sender sends a signal: the next sig1, or sig2 when all have been sent.
LEMMA SendsKeeps ==
    ASSUME IInv, NEW s \in Kinds, NEW next \in Lines, Sends(s, next),
           \/ s = "sig1" /\ sent < n /\ next = (IF protocol = "burst" THEN "send" ELSE "hasSentOne")
           \/ s = "sig2" /\ ~(sent < n) /\ next = "hasSent"
    PROVE  IInv'
<1>1. Types /\ Stacks /\ Numbers /\ Settled BY DEF IInv, Numbers
<1>2. "sender" \in Processes /\ "catcher" \in Processes /\ "sender" # "catcher"
      /\ "sig1" \in Kinds /\ "sig2" \in Kinds
  BY DEF Processes, Kinds
<1>3. UNCHANGED arguments /\ sent' = sent + (IF s = "sig1" THEN 1 ELSE 0) /\ answered' = answered
      /\ counter' = counter /\ known' = known /\ Goto("sender", "send", next)
      /\ Send("catcher", s, 0)
  BY DEF Sends
<1>4. /\ "send" \in Lines /\ "send" \notin HandlerLines("sender") /\ next \in MainLines("sender")
      /\ next \notin New /\ next # "sig2" /\ next \in {"send", "hasSentOne", "hasSent"}
      /\ protocol = "handshake" => next # "send"
  BY <1>1 DEF Lines, HandlerLines, MainLines, New, Reporting, Sending, Types
<1>5. /\ Change("sender", "send", next) /\ stack'["sender"] = Moved(stack["sender"], next)
      /\ Top("sender").at = "send" /\ MainAt("sender") = "send" /\ MainAt("sender")' = next
  BY <1>1, <1>2, <1>3, <1>4, Going
<1>6. Counts BY <1>1, Naturals
<1>7. Newly("sender") = 0
  <2>1. "send" \notin New BY DEF New
  <2> QED BY <1>1, <1>2, <1>4, <1>5, <2>1, TopCounts DEF Newly
<1>8. Stays("catcher") /\ Differs("sender", "send", next) BY <1>1, <1>2, <1>5, NumbersChange
<1>9. /\ Newly("sender")' = 0 /\ Ending("sender")' = Ending("sender")
  BY <1>4, <1>6, <1>7, <1>8 DEF Differs, One, Counts, AreNumbers, New
<1>10. 0 \in 0 .. n BY <1>6 DEF Counts
<1>11. /\ pending' \in [Processes -> [Kinds -> Seq(0 .. n)]]
       /\ \A r \in Processes, k \in Kinds :
            <<r, k>> # <<"catcher", s>> => pending'[r][k] = pending[r][k]
       /\ Len(pending'["catcher"][s]) = IF Queues \/ Len(pending["catcher"][s]) = 0
                                        THEN Len(pending["catcher"][s]) + 1
                                        ELSE Len(pending["catcher"][s])
  BY <1>1, <1>2, <1>3, <1>10, Sent
<1>12. pending'["sender"] = pending["sender"]
  <2>1. \A k \in Kinds : pending'["sender"][k] = pending["sender"][k] BY <1>2, <1>11
  <2>2. pending'["sender"] \in [Kinds -> Seq(0 .. n)] /\ pending["sender"] \in [Kinds -> Seq(0 .. n)]
    BY <1>1, <1>2, <1>11 DEF Types
  <2> QED BY <2>1, <2>2
<1>13. /\ Waiting1("sender")' = Waiting1("sender") /\ Waiting2("sender")' = Waiting2("sender")
  BY <1>12 DEF Waiting1, Waiting2
<1>14. /\ s = "sig1" => Waiting2("catcher")' = Waiting2("catcher")
       /\ s = "sig2" => Waiting1("catcher")' = Waiting1("catcher")
       /\ s = "sig1" => Waiting1("catcher")' = IF Queues \/ Waiting1("catcher") = 0
                                               THEN Waiting1("catcher") + 1 ELSE Waiting1("catcher")
       /\ s = "sig2" => Waiting2("catcher")' = IF Queues \/ Waiting2("catcher") = 0
                                               THEN Waiting2("catcher") + 1 ELSE Waiting2("catcher")
  BY <1>2, <1>11 DEF Waiting1, Waiting2
<1>15. Types'
  <2>1. sent' \in 0 .. n BY <1>3, <1>6 DEF Counts
  <2> QED BY <1>1, <1>3, <1>5, <1>11, <2>1 DEF Types, Change, arguments, FrameSet
<1>16. "send" \in Sending /\ (next \in Sending <=> next # "hasSent")
  BY <1>4 DEF Sending
<1>17. protocol = "handshake" => Waiting1("catcher") = 0 /\ Newly("catcher") = 0 /\ counter["catcher"] = sent
  <2> SUFFICES ASSUME protocol = "handshake"
               PROVE  Waiting1("catcher") = 0 /\ Newly("catcher") = 0 /\ counter["catcher"] = sent
    OBVIOUS
  <2>1. counter["sender"] = sent BY <1>1, <1>5, <1>6, <1>7 DEF Numbers, Round, Arrived, Counts, AreNumbers
  <2>2. /\ counter["sender"] <= answered
        /\ counter["catcher"] + Newly("catcher") + Waiting1("catcher") = sent
    BY <1>1, <1>6, <1>7
    DEF Numbers, Merged, Sound, Exact, HasExited, Arrived, Counts, AreNumbers
  <2>3. answered <= counter["catcher"] BY <1>1, <1>6 DEF Numbers, Depth, Counts, AreNumbers
  <2> QED BY <1>6, <2>1, <2>2, <2>3 DEF Counts, AreNumbers
<1>18. Final BY <1>2, <1>3, <1>5, Persists DEF Ended, At, Goto, Top
<1>19. Numbers'
  <2>1. Depth' BY <1>1, <1>3, <1>8 DEF Numbers, Depth, arguments, Stays
  <2>2. OneToken'
    BY <1>1, <1>4, <1>5, <1>6, <1>8, <1>9, <1>13, <1>14, <1>16
    DEF Numbers, OneToken, Token, Stays, Counts, AreNumbers
  <2>3. Sound(sent, "catcher")'
    <3>1. CASE s = "sig1"
      <4>1. Exact' <=> Exact BY <1>3 DEF Exact, Queues, arguments
      <4>2. Arrived("catcher")' = Arrived("catcher") /\ Arrived("catcher") \in Nat
        BY <1>3, <1>6, <1>8 DEF Arrived, Stays, Counts, AreNumbers
      <4>3. sent' = sent + 1 BY <1>3, <3>1
      <4>4. Sound(sent, "catcher") BY <1>1 DEF Numbers, Merged
      <4>5. Waiting1("catcher")' = IF Queues \/ Waiting1("catcher") = 0
                                   THEN Waiting1("catcher") + 1 ELSE Waiting1("catcher")
        BY <1>14, <3>1
      <4>6. Exact => Queues \/ Waiting1("catcher") = 0 BY <1>17 DEF Exact
      <4>7. Waiting1("catcher") \in Nat /\ sent \in Nat BY <1>6 DEF Counts, AreNumbers
      <4> QED BY <1>18, <4>1, <4>2, <4>3, <4>4, <4>5, <4>6, <4>7 DEF Sound, Final
    <3>2. CASE s = "sig2"
      BY <1>1, <1>18, <1>3, <1>6, <1>8, <1>14, <3>2
      DEF Numbers, Merged, Sound, Arrived, Stays, arguments, Queues, Exact, Counts, AreNumbers, Final
    <3> QED BY <3>1, <3>2 DEF Kinds
  <2>4. Merged'
    BY <1>1, <1>18, <1>3, <1>6, <1>7, <1>9, <1>13, <1>14, <2>3
    DEF Numbers, Merged, Sound, Arrived, arguments, Queues, Exact, Counts, AreNumbers, Final
  <2>5. Known' BY <1>1, <1>3, <1>8 DEF Numbers, Known, Stays
  <2>6. Round'
    <3>1. CASE s = "sig1"
      BY <1>1, <1>3, <1>4, <1>5, <1>6, <1>7, <1>9, <1>16, <3>1
      DEF Numbers, Round, Arrived, arguments, Counts, AreNumbers
    <3>2. CASE s = "sig2"
      BY <1>1, <1>3, <1>4, <1>5, <1>6, <1>7, <1>9, <1>16, <3>2
      DEF Numbers, Round, Arrived, arguments, Counts, AreNumbers
    <3> QED BY <3>1, <3>2 DEF Kinds
  <2> QED BY <2>1, <2>2, <2>4, <2>5, <2>6 DEF Numbers
<1>20. Settled'
  <2>1. Ending("sender")' <= Ending("sender") /\ Ending("sender")' \in Nat
    BY <1>6, <1>9 DEF Counts, AreNumbers
  <2>2. MainAt("sender") \in Sending BY <1>5, <1>16
  <2>3. /\ counter'["catcher"] = counter["catcher"]
        /\ pending'["sender"]["sig2"] \in {pending["sender"]["sig2"], <<>>}
    BY <1>3, <1>12
  <2>4. \E x \in Lines \ {"sig2"} : stack'["sender"] = Moved(stack["sender"], x) BY <1>4, <1>5
  <2> QED BY <1>1, <1>3, <1>6, <1>8, <1>12, <2>1, <2>2, <2>3, <2>4, SenderSettled, Zenon DEF Stays
<1> QED BY <1>5, <1>15, <1>19, <1>20 DEF IInv, Change, Numbers

\* The catcher begins to wait, in main or in a handler.
LEMMA CatcherSuspendsKeeps ==
    ASSUME IInv, CatcherSuspends
    PROVE  IInv'
<1>1. Types /\ Stacks /\ Numbers /\ Settled BY DEF IInv, Numbers
<1>2. "sender" \in Processes /\ "catcher" \in Processes /\ "sender" # "catcher" BY DEF Processes
<1>3. UNCHANGED arguments /\ UNCHANGED pending /\ sent' = sent /\ answered' = answered
      /\ counter' = counter /\ known' = known
  BY DEF CatcherSuspends, counts
<1>4. PICK from \in {"starts", "hasAnswered"}, to \in {"waits", "waitsInside"} :
         Goto("catcher", from, to) /\ (from = "starts" <=> to = "waits")
  BY DEF CatcherSuspends
<1>5. from \in Lines /\ to \in Lines \ Reporting /\ from \notin New /\ to \notin New
      /\ (from \in Counted <=> to \in Counted) /\ from \notin Reporting
  BY <1>4 DEF Lines, Suspended, Counted, New, Reporting
<1>6. Top("catcher").at = from BY <1>4 DEF Goto, At
<1>7. \/ from \notin HandlerLines("catcher") /\ to \in MainLines("catcher")
      \/ from \notin MainLines("catcher") /\ to \in HandlerLines("catcher")
  <2>1. CASE from = "starts" BY <1>4, <2>1 DEF HandlerLines, MainLines, New, Counted, Reporting
  <2>2. CASE from = "hasAnswered"
    <3>1. from \notin MainLines("catcher") BY <2>2 DEF MainLines
    <3>2. from \in HandlerLines("catcher") BY <1>1, <1>2, <1>6, <3>1, TopCounts
    <3>3. to = "waitsInside" BY <1>4, <2>2
    <3> QED BY <2>2, <3>1, <3>2, <3>3 DEF HandlerLines, New, Counted, Reporting
  <2> QED BY <2>1, <2>2
<1>8. /\ Change("catcher", from, to) /\ stack'["catcher"] = Moved(stack["catcher"], to)
      /\ Len(stack'["catcher"]) = Len(stack["catcher"])
  BY <1>1, <1>2, <1>3, <1>4, <1>5, <1>7, Going
<1>9. Counts BY <1>1, Naturals
<1>10. Stays("sender") /\ Differs("catcher", from, to) BY <1>1, <1>2, <1>8, NumbersChange
<1>11. /\ Newly("catcher")' = Newly("catcher") /\ Ending("catcher")' = Ending("catcher")
       /\ Counting("catcher")' = Counting("catcher") /\ Inside("catcher")' = Inside("catcher")
       /\ Answering("catcher")' = Answering("catcher") /\ Height("catcher")' = Height("catcher")
  BY SMTT(30), <1>4, <1>5, <1>8, <1>9, <1>10 DEF Differs, One, Counts, AreNumbers, Height
<1>12. /\ Waiting1("sender")' = Waiting1("sender") /\ Waiting2("sender")' = Waiting2("sender")
       /\ Waiting1("catcher")' = Waiting1("catcher") /\ Waiting2("catcher")' = Waiting2("catcher")
  BY <1>3 DEF Waiting1, Waiting2
<1>13. Types' BY <1>1, <1>3, <1>8 DEF Types, Change, arguments, FrameSet
<1>14. Final BY <1>2, <1>3, <1>4, <1>8, Persists DEF Ended, At, Goto, Top
<1>15. Numbers'
  <2>1. Depth' BY <1>1, <1>3, <1>11 DEF Numbers, Depth, arguments
  <2>2. OneToken' BY <1>1, <1>10, <1>11, <1>12 DEF Numbers, OneToken, Token, Stays
  <2>3. Merged'
    BY <1>1, <1>14, <1>3, <1>10, <1>11, <1>12
    DEF Numbers, Merged, Sound, Arrived, Stays, arguments, Queues, Exact, Final
  <2>4. Known' BY <1>1, <1>3, <1>11 DEF Numbers, Known
  <2>5. Round' BY <1>1, <1>3, <1>10 DEF Numbers, Round, Arrived, arguments, Stays
  <2> QED BY <2>1, <2>2, <2>3, <2>4, <2>5 DEF Numbers
<1>16. Settled'
  <2>1. pending'["sender"] = pending["sender"] BY <1>3
  <2>2. Top("catcher").at \notin Reporting BY <1>5, <1>6
  <2>3. \E x \in Lines \ Reporting : stack'["catcher"] = Moved(stack["catcher"], x) BY <1>5, <1>8
  <2> QED BY <1>1, <1>3, <1>9, <1>10, <2>1, <2>2, <2>3, CatcherSettled, Zenon DEF Stays
<1> QED BY <1>8, <1>13, <1>15, <1>16 DEF IInv, Change, Numbers

\* The catcher's handler of sig1 begins.
LEMMA CatcherLearnsKeeps ==
    ASSUME IInv, CatcherLearns
    PROVE  IInv'
<1>1. Types /\ Stacks /\ Numbers /\ Settled BY DEF IInv, Numbers
<1>2. "sender" \in Processes /\ "catcher" \in Processes /\ "sender" # "catcher" BY DEF Processes
<1>3. UNCHANGED arguments /\ UNCHANGED pending /\ sent' = sent /\ answered' = answered
      /\ counter' = counter /\ known' = TRUE /\ Goto("catcher", "sig1", "counts")
  BY DEF CatcherLearns
<1>4. /\ "sig1" \in Lines /\ "counts" \in Lines \ Reporting /\ "sig1" \in New /\ "counts" \in New
      /\ "sig1" \notin MainLines("catcher") /\ "counts" \in HandlerLines("catcher")
      /\ "sig1" \notin Reporting /\ "sig1" \notin Counted /\ "counts" \notin Counted
  BY DEF Lines, MainLines, HandlerLines, New, Reporting, Counted
<1>5. /\ Change("catcher", "sig1", "counts") /\ Top("catcher").at = "sig1"
      /\ stack'["catcher"] = Moved(stack["catcher"], "counts")
      /\ Len(stack'["catcher"]) = Len(stack["catcher"])
  BY <1>1, <1>2, <1>3, <1>4, Going
<1>6. Counts BY <1>1, Naturals
<1>7. Stays("sender") /\ Differs("catcher", "sig1", "counts") BY <1>1, <1>2, <1>5, NumbersChange
<1>8. /\ Newly("catcher")' = Newly("catcher") /\ Ending("catcher")' = Ending("catcher")
      /\ Inside("catcher")' = Inside("catcher") /\ Answering("catcher")' = Answering("catcher")
      /\ Height("catcher")' = Height("catcher")
  BY <1>4, <1>5, <1>6, <1>7 DEF Differs, One, Counts, AreNumbers, Height
<1>9. /\ Waiting1("sender")' = Waiting1("sender") /\ Waiting2("sender")' = Waiting2("sender")
      /\ Waiting1("catcher")' = Waiting1("catcher") /\ Waiting2("catcher")' = Waiting2("catcher")
  BY <1>3 DEF Waiting1, Waiting2
<1>10. Types' BY <1>1, <1>3, <1>5 DEF Types, Change, arguments, FrameSet
<1>11. Final BY <1>2, <1>3, <1>5, Persists DEF Ended, At, Goto, Top
<1>12. Numbers'
  <2>1. Depth' BY <1>1, <1>3, <1>8 DEF Numbers, Depth, arguments
  <2>2. OneToken' BY <1>1, <1>7, <1>8, <1>9 DEF Numbers, OneToken, Token, Stays
  <2>3. Merged'
    BY <1>1, <1>11, <1>3, <1>7, <1>8, <1>9
    DEF Numbers, Merged, Sound, Arrived, Stays, arguments, Queues, Exact, Final
  <2>4. Known' BY <1>3 DEF Known
  <2>5. Round' BY <1>1, <1>3, <1>7 DEF Numbers, Round, Arrived, arguments, Stays
  <2> QED BY <2>1, <2>2, <2>3, <2>4, <2>5 DEF Numbers
<1>13. Settled'
  <2>1. pending'["sender"] = pending["sender"] BY <1>3
  <2>2. Top("catcher").at \notin Reporting BY <1>4, <1>5
  <2>3. \E x \in Lines \ Reporting : stack'["catcher"] = Moved(stack["catcher"], x) BY <1>4, <1>5
  <2> QED BY <1>1, <1>3, <1>6, <1>7, <2>1, <2>2, <2>3, CatcherSettled, Zenon DEF Stays
<1> QED BY <1>5, <1>10, <1>12, <1>13 DEF IInv, Change, Numbers

\* The catcher counts a signal.
LEMMA CatcherCountsKeeps ==
    ASSUME IInv, CatcherCounts
    PROVE  IInv'
<1>1. Types /\ Stacks /\ Numbers /\ Settled BY DEF IInv, Numbers
<1>2. "sender" \in Processes /\ "catcher" \in Processes /\ "sender" # "catcher" BY DEF Processes
<1>3. UNCHANGED arguments /\ UNCHANGED pending /\ sent' = sent /\ answered' = answered
      /\ known' = known
  BY DEF CatcherCounts
<1>4. /\ "counts" \in Lines /\ "answers" \in Lines \ Reporting /\ "counts" \in New
      /\ "answers" \notin New /\ "counts" \notin MainLines("catcher")
      /\ "counts" \notin Reporting /\ "counts" \notin Counted /\ "answers" \in Counted
      /\ "none" \notin New /\ "none" \notin Counted
  BY DEF Lines, MainLines, New, Reporting, Counted
<1>5. /\ Top("catcher").at = "counts"
      /\ \/ /\ protocol = "burst" /\ Change("catcher", "counts", "none")
            /\ stack'["catcher"] = Front(stack["catcher"])
         \/ /\ protocol = "handshake" /\ Change("catcher", "counts", "answers")
            /\ stack'["catcher"] = Moved(stack["catcher"], "answers")
            /\ Len(stack'["catcher"]) = Len(stack["catcher"])
  <2>1. CASE protocol = "burst" /\ Return("catcher", "counts")
    BY <1>1, <1>2, <1>3, <1>4, <2>1, Returning
  <2>2. CASE protocol = "handshake" /\ Goto("catcher", "counts", "answers")
    BY <1>1, <1>2, <1>3, <1>4, <2>2, Going DEF HandlerLines
  <2> QED BY <2>1, <2>2 DEF CatcherCounts
<1>6. Newly("catcher") > 0 /\ Counting("catcher") > 0
  BY <1>1, <1>2, <1>4, <1>5, TopCounts DEF Newly, Counting
<1>7. Counts BY <1>1, Naturals
<1>8. Stays("sender") BY <1>1, <1>2, <1>5, NumbersChange
<1>9. /\ Newly("catcher")' = Newly("catcher") - 1 /\ Counting("catcher")' = Counting("catcher") - 1
      /\ Ending("catcher")' = Ending("catcher")
      /\ protocol = "handshake" =>
           /\ Inside("catcher")' = Inside("catcher") + 1
           /\ Answering("catcher")' = Answering("catcher") + 1
           /\ Height("catcher")' = Height("catcher")
  <2>1. CASE protocol = "burst"
    <3>1. Differs("catcher", "counts", "none") BY <1>1, <1>2, <1>5, <2>1, NumbersChange
    <3> QED BY <1>4, <1>7, <2>1, <3>1 DEF Differs, One, Counts, AreNumbers
  <2>2. CASE protocol = "handshake"
    <3>1. Differs("catcher", "counts", "answers") BY <1>1, <1>2, <1>5, <2>2, NumbersChange
    <3>2. Height("catcher")' = Height("catcher") BY <1>5, <2>2 DEF Height
    <3> QED BY <1>4, <1>7, <2>2, <3>1, <3>2 DEF Differs, One, Counts, AreNumbers
  <2> QED BY <1>5, <2>1, <2>2
<1>10. /\ Waiting1("sender")' = Waiting1("sender") /\ Waiting2("sender")' = Waiting2("sender")
       /\ Waiting1("catcher")' = Waiting1("catcher") /\ Waiting2("catcher")' = Waiting2("catcher")
  BY <1>3 DEF Waiting1, Waiting2
<1>11. counter["catcher"] + 1 <= n
  BY <1>1, <1>6, <1>7 DEF Numbers, Merged, Sound, Arrived, Counts, AreNumbers
<1>12. /\ counter'["catcher"] = counter["catcher"] + 1 /\ counter'["sender"] = counter["sender"]
       /\ counter' \in [Processes -> 0 .. n]
  BY <1>1, <1>2, <1>7, <1>11 DEF CatcherCounts, Types, Counts
<1>13. Types' BY <1>1, <1>3, <1>5, <1>12 DEF Types, Change, arguments, FrameSet
<1>14. Final BY <1>2, <1>3, <1>5, Persists DEF Ended, At, Goto, Top
<1>15. Numbers'
  <2>1. Depth' BY <1>1, <1>3, <1>7, <1>9, <1>12 DEF Numbers, Depth, arguments, Counts, AreNumbers
  <2>2. OneToken' BY <1>1, <1>8, <1>9, <1>10 DEF Numbers, OneToken, Token, Stays
  <2>3. Merged'
    <3>1. Sound(sent, "catcher")'
      BY <1>1, <1>14, <1>3, <1>7, <1>9, <1>10, <1>12
      DEF Numbers, Merged, Sound, Arrived, arguments, Queues, Exact, Counts, AreNumbers, Final
    <3>2. Sound(answered, "sender")'
      BY <1>1, <1>14, <1>3, <1>8, <1>10, <1>12
      DEF Numbers, Merged, Sound, Arrived, Stays, arguments, Queues, Exact, Final
    <3> QED BY <1>1, <1>3, <1>7, <1>10, <1>12, <3>1, <3>2
            DEF Numbers, Merged, arguments, Queues, Counts, AreNumbers
  <2>4. Known' BY <1>1, <1>3, <1>6 DEF Numbers, Known
  <2>5. Round' BY <1>1, <1>3, <1>8, <1>12 DEF Numbers, Round, Arrived, arguments, Stays
  <2> QED BY <2>1, <2>2, <2>3, <2>4, <2>5 DEF Numbers
<1>16. Settled'
  <2>1. pending'["sender"] = pending["sender"] BY <1>3
  <2>2. Top("catcher").at \notin Reporting BY <1>4, <1>5
  <2>3. \/ \E x \in Lines \ Reporting : stack'["catcher"] = Moved(stack["catcher"], x)
        \/ stack'["catcher"] = Front(stack["catcher"])
    BY <1>4, <1>5
  <2> QED BY <1>1, <1>3, <1>7, <1>8, <2>1, <2>2, <2>3, CatcherSettled, Zenon DEF Stays
<1> QED BY <1>5, <1>13, <1>15, <1>16 DEF IInv, Change, Numbers

\* In zad3b a handler that has been suspended ends after the next.
LEMMA CatcherReturnsKeeps ==
    ASSUME IInv, CatcherReturns
    PROVE  IInv'
<1>1. Types /\ Stacks /\ Numbers BY DEF IInv, Numbers
<1>2. "sender" \in Processes /\ "catcher" \in Processes /\ "sender" # "catcher" BY DEF Processes
<1>3. UNCHANGED arguments /\ UNCHANGED pending /\ sent' = sent /\ answered' = answered
      /\ counter' = counter /\ known' = known /\ Return("catcher", "returns")
  BY DEF CatcherReturns, counts
<1>4. "returns" \in Lines /\ "returns" \notin New /\ "returns" \in Counted
      /\ "returns" \notin MainLines("catcher") /\ "none" \notin New /\ "none" \notin Counted
  BY DEF Lines, MainLines, New, Counted
<1>5. /\ Change("catcher", "returns", "none") /\ Top("catcher").at = "returns"
      /\ Len(stack'["catcher"]) = Len(stack["catcher"]) - 1
  BY <1>1, <1>2, <1>3, <1>4, Returning
<1>6. protocol = "handshake"
  <2>1. "returns" \in HandlerLines("catcher") BY <1>1, <1>2, <1>4, <1>5, TopCounts
  <2> QED BY <1>1, <2>1 DEF HandlerLines, New, Reporting, Types
<1>7. Counts BY <1>1, Naturals
<1>8. Stays("sender") /\ Differs("catcher", "returns", "none") BY <1>1, <1>2, <1>5, NumbersChange
<1>9. /\ Newly("catcher")' = Newly("catcher") /\ Counting("catcher")' = Counting("catcher")
      /\ Ending("catcher")' = Ending("catcher") /\ Inside("catcher")' = Inside("catcher") - 1
      /\ Answering("catcher")' = Answering("catcher") /\ Height("catcher")' = Height("catcher") - 1
  BY <1>4, <1>5, <1>7, <1>8, SMTT(30) DEF Differs, One, Counts, AreNumbers, Height
<1>10. /\ Waiting1("sender")' = Waiting1("sender") /\ Waiting2("sender")' = Waiting2("sender")
       /\ Waiting1("catcher")' = Waiting1("catcher") /\ Waiting2("catcher")' = Waiting2("catcher")
  BY <1>3 DEF Waiting1, Waiting2
<1>11. Types' BY <1>1, <1>3, <1>5 DEF Types, Change, arguments, FrameSet
<1>12. Final BY <1>2, <1>3, <1>5, Persists DEF Ended, At, Goto, Top
<1>13. Numbers'
  <2>1. Depth' BY <1>1, <1>3, <1>7, <1>9 DEF Numbers, Depth, arguments, Counts, AreNumbers
  <2>2. OneToken' BY <1>1, <1>8, <1>9, <1>10 DEF Numbers, OneToken, Token, Stays
  <2>3. Merged'
    BY <1>1, <1>12, <1>3, <1>8, <1>9, <1>10
    DEF Numbers, Merged, Sound, Arrived, Stays, arguments, Queues, Exact, Final
  <2>4. Known' BY <1>1, <1>3, <1>9 DEF Numbers, Known
  <2>5. Round' BY <1>1, <1>3, <1>8 DEF Numbers, Round, Arrived, arguments, Stays
  <2> QED BY <2>1, <2>2, <2>3, <2>4, <2>5 DEF Numbers
<1>14. Settled' BY <1>3, <1>6 DEF Settled, arguments
<1> QED BY <1>5, <1>11, <1>13, <1>14 DEF IInv, Change, Numbers

\* What an answer of the catcher that knows the sender brings, when no other of
\* its kind waits.
LEMMA AnswerArrives ==
    ASSUME Types, NEW s \in Kinds, NEW r \in Kinds, r # s, Answer(s), known,
           pending["sender"][s] = <<>>
    PROVE  /\ pending' \in [Processes -> [Kinds -> Seq(0 .. n)]]
           /\ pending'["catcher"] = pending["catcher"]
           /\ pending'["sender"][r] = pending["sender"][r]
           /\ pending'["sender"][s] = <<IF mode = "SIGQUEUE" THEN counter["catcher"] ELSE 0>>
           /\ Len(pending'["sender"][s]) = 1
<1> DEFINE v == IF mode = "SIGQUEUE" THEN counter["catcher"] ELSE 0
<1>1. "sender" \in Processes /\ "catcher" \in Processes /\ "sender" # "catcher" BY DEF Processes
<1>2. v \in 0 .. n BY <1>1 DEF Types
<1>3. Send("sender", s, v) BY DEF Answer
<1> HIDE DEF v
<1>4. /\ pending' \in [Processes -> [Kinds -> Seq(0 .. n)]]
      /\ \A p \in Processes, k \in Kinds :
           <<p, k>> # <<"sender", s>> => pending'[p][k] = pending[p][k]
      /\ pending'["sender"][s] = <<v>>
  BY <1>1, <1>2, <1>3, Sent
<1>5. \A k \in Kinds : pending'["catcher"][k] = pending["catcher"][k] BY <1>1, <1>4
<1>6. pending'["catcher"] \in [Kinds -> Seq(0 .. n)] /\ pending["catcher"] \in [Kinds -> Seq(0 .. n)]
  BY <1>1, <1>4 DEF Types
<1>7. pending'["catcher"] = pending["catcher"] BY <1>5, <1>6
<1>8. Len(<<v>>) = 1 OBVIOUS
<1> QED BY <1>1, <1>4, <1>7, <1>8 DEF v

\* In zad3b the catcher answers a signal.
LEMMA CatcherAnswersKeeps ==
    ASSUME IInv, CatcherAnswers
    PROVE  IInv'
<1>1. Types /\ Stacks /\ Numbers BY DEF IInv, Numbers
<1>2. "sender" \in Processes /\ "catcher" \in Processes /\ "sender" # "catcher"
      /\ "sig1" \in Kinds /\ "sig2" \in Kinds
  BY DEF Processes, Kinds
<1>3. UNCHANGED arguments /\ sent' = sent /\ answered' = answered + 1
      /\ counter' = counter /\ known' = known /\ Goto("catcher", "answers", "hasAnswered")
      /\ Answer("sig1")
  BY DEF CatcherAnswers
<1>4. /\ "answers" \in Lines /\ "hasAnswered" \in Lines
      /\ "answers" \notin New /\ "hasAnswered" \notin New
      /\ "answers" \in Counted /\ "hasAnswered" \in Counted /\ "answers" \notin MainLines("catcher")
  BY DEF Lines, MainLines, New, Counted
<1>5. Top("catcher").at = "answers" BY <1>3 DEF Goto, At
<1>6. protocol = "handshake"
  <2>1. "answers" \in HandlerLines("catcher") BY <1>1, <1>2, <1>4, <1>5, TopCounts
  <2> QED BY <1>1, <2>1 DEF HandlerLines, New, Reporting, Types
<1>7. /\ Change("catcher", "answers", "hasAnswered")
      /\ Len(stack'["catcher"]) = Len(stack["catcher"])
  <2>1. "hasAnswered" \in HandlerLines("catcher") BY <1>4, <1>6 DEF HandlerLines
  <2> QED BY <1>1, <1>2, <1>3, <1>4, <2>1, Going
<1>8. Counts BY <1>1, Naturals
<1>9. Stays("sender") /\ Differs("catcher", "answers", "hasAnswered")
  BY <1>1, <1>2, <1>7, NumbersChange
<1>10. /\ Newly("catcher")' = Newly("catcher") /\ Counting("catcher")' = Counting("catcher")
       /\ Ending("catcher")' = Ending("catcher") /\ Inside("catcher")' = Inside("catcher")
       /\ Answering("catcher")' = Answering("catcher") - 1
       /\ Height("catcher")' = Height("catcher")
  BY <1>4, <1>7, <1>8, <1>9, SMTT(30) DEF Differs, One, Counts, AreNumbers, Height
<1>11. Answering("catcher") > 0 BY <1>1, <1>2, <1>5, TopCounts DEF Answering
<1>12. answered + 1 <= counter["catcher"] /\ counter["catcher"] <= sent
  <2>1. answered + 1 <= counter["catcher"]
    BY <1>1, <1>6, <1>8, <1>11 DEF Numbers, Depth, Counts, AreNumbers
  <2>2. counter["catcher"] <= sent
    BY <1>1, <1>8 DEF Numbers, Merged, Sound, Arrived, Counts, AreNumbers
  <2> QED BY <2>1, <2>2
<1>13. Waiting1("sender") = 0
  <2>1. counter["sender"] + Newly("sender") + Waiting1("sender") <= answered
    BY <1>1, <1>8 DEF Numbers, Merged, Sound, Arrived, Counts, AreNumbers
  <2>2. CASE MainAt("sender") \in Sending
    <3>1. counter["sender"] + Newly("sender") + 1 >= sent
      BY <1>1, <1>6, <2>2 DEF Numbers, Round, Arrived
    <3> QED BY <1>8, <1>12, <2>1, <3>1 DEF Counts, AreNumbers
  <2>3. CASE MainAt("sender") \notin Sending
    <3>1. counter["sender"] = n BY <1>1, <1>6, <2>3 DEF Numbers, Round
    <3> QED BY <1>8, <1>12, <2>1, <3>1 DEF Counts, AreNumbers
  <2> QED BY <2>2, <2>3
<1>14. /\ pending' \in [Processes -> [Kinds -> Seq(0 .. n)]]
       /\ pending'["catcher"] = pending["catcher"]
       /\ pending'["sender"]["sig2"] = pending["sender"]["sig2"]
       /\ Len(pending'["sender"]["sig1"]) = 1
  <2>1. known BY <1>1, <1>8, <1>12 DEF Numbers, Known, Counts, AreNumbers
  <2>2. pending["sender"]["sig1"] = <<>> BY <1>1, <1>2, <1>13 DEF Waiting1, Types
  <2>3. "sig1" # "sig2" OBVIOUS
  <2> QED BY <1>1, <1>2, <1>3, <2>1, <2>2, <2>3, AnswerArrives
<1>15. /\ Waiting1("sender")' = 1 /\ Waiting2("sender")' = Waiting2("sender")
       /\ Waiting1("catcher")' = Waiting1("catcher") /\ Waiting2("catcher")' = Waiting2("catcher")
  BY <1>14 DEF Waiting1, Waiting2
<1>16. Types'
  <2>1. answered' \in 0 .. n BY <1>3, <1>8, <1>12 DEF Counts, AreNumbers
  <2> QED BY <1>1, <1>3, <1>7, <1>14, <2>1 DEF Types, Change, arguments, FrameSet
<1>17. Final BY <1>2, <1>3, <1>5, <1>7, Persists DEF Ended, At, Goto, Top
<1>18. Numbers'
  <2>1. Depth' BY <1>1, <1>3, <1>8, <1>10 DEF Numbers, Depth, arguments, Counts, AreNumbers
  <2>2. OneToken' BY <1>1, <1>9, <1>10, <1>15 DEF Numbers, OneToken, Token, Stays
  <2>3. Merged'
    BY <1>1, <1>17, <1>3, <1>6, <1>8, <1>9, <1>10, <1>13, <1>15
    DEF Numbers, Merged, Sound, Arrived, Stays, arguments, Queues, Exact, Counts, AreNumbers, Final
  <2>4. Known' BY <1>1, <1>3, <1>10 DEF Numbers, Known
  <2>5. Round' BY <1>1, <1>3, <1>9 DEF Numbers, Round, Arrived, arguments, Stays
  <2> QED BY <2>1, <2>2, <2>3, <2>4, <2>5 DEF Numbers
<1>19. Settled' BY <1>3, <1>6 DEF Settled, arguments
<1> QED BY <1>7, <1>16, <1>18, <1>19 DEF IInv, Change, Numbers

\* In zad3b the catcher's handler of sig2 answers and ends.
LEMMA CatcherRepliesKeeps ==
    ASSUME IInv, CatcherReplies
    PROVE  IInv'
<1>1. Types /\ Stacks /\ Numbers BY DEF IInv, Numbers
<1>2. "sender" \in Processes /\ "catcher" \in Processes /\ "sender" # "catcher"
      /\ "sig1" \in Kinds /\ "sig2" \in Kinds
  BY DEF Processes, Kinds
<1>3. UNCHANGED arguments /\ sent' = sent /\ answered' = answered /\ counter' = counter
      /\ known' = known /\ Return("catcher", "sig2") /\ Answer("sig2") /\ protocol = "handshake"
  BY DEF CatcherReplies, counts
<1>4. "sig2" \in Lines /\ "sig2" \notin New /\ "sig2" \notin Counted
      /\ "sig2" \notin MainLines("catcher") /\ "none" \notin New /\ "none" \notin Counted
  BY DEF Lines, MainLines, New, Counted
<1>5. /\ Change("catcher", "sig2", "none") /\ Top("catcher").at = "sig2"
      /\ Len(stack'["catcher"]) = Len(stack["catcher"]) - 1
  BY <1>1, <1>2, <1>3, <1>4, Returning
<1>6. Counts BY <1>1, Naturals
<1>7. Stays("sender") /\ Differs("catcher", "sig2", "none") BY <1>1, <1>2, <1>5, NumbersChange
<1>8. /\ Newly("catcher")' = Newly("catcher") /\ Counting("catcher")' = Counting("catcher")
      /\ Ending("catcher")' = Ending("catcher") - 1 /\ Inside("catcher")' = Inside("catcher")
      /\ Answering("catcher")' = Answering("catcher") /\ Height("catcher")' = Height("catcher") - 1
  BY <1>4, <1>5, <1>6, <1>7, SMTT(30) DEF Differs, One, Counts, AreNumbers, Height
<1>9. Ending("catcher") > 0 BY <1>1, <1>2, <1>5, TopCounts DEF Ending
<1>10. Waiting2("sender") = 0
  BY <1>1, <1>6, <1>9 DEF Numbers, OneToken, Token, Counts, AreNumbers
<1>11. /\ pending' \in [Processes -> [Kinds -> Seq(0 .. n)]]
       /\ pending'["catcher"] = pending["catcher"]
       /\ pending'["sender"]["sig1"] = pending["sender"]["sig1"]
       /\ Len(pending'["sender"]["sig2"]) <= 1 /\ Len(pending'["sender"]["sig2"]) \in Nat
  <2>1. CASE known
    <3>1. pending["sender"]["sig2"] = <<>> BY <1>1, <1>2, <1>10 DEF Waiting2, Types
    <3>2. "sig1" # "sig2" OBVIOUS
    <3>3. /\ pending' \in [Processes -> [Kinds -> Seq(0 .. n)]]
          /\ pending'["catcher"] = pending["catcher"]
          /\ pending'["sender"]["sig1"] = pending["sender"]["sig1"]
          /\ Len(pending'["sender"]["sig2"]) = 1
      BY <1>1, <1>2, <1>3, <2>1, <3>1, <3>2, AnswerArrives
    <3> QED BY <3>3
  <2>2. CASE ~known
    <3>1. pending' = pending BY <1>3, <2>2 DEF Answer
    <3> QED BY <1>1, <1>10, <3>1 DEF Types, Waiting2
  <2> QED BY <2>1, <2>2
<1>12. /\ Waiting1("sender")' = Waiting1("sender")
       /\ Waiting2("sender")' <= 1 /\ Waiting2("sender")' \in Nat
       /\ Waiting1("catcher")' = Waiting1("catcher") /\ Waiting2("catcher")' = Waiting2("catcher")
  BY <1>11 DEF Waiting1, Waiting2
<1>13. Types' BY <1>1, <1>3, <1>5, <1>11 DEF Types, Change, arguments, FrameSet
<1>14. Final BY <1>2, <1>3, <1>5, Persists DEF Ended, At, Goto, Top
<1>15. Numbers'
  <2>1. Depth' BY <1>1, <1>3, <1>6, <1>8 DEF Numbers, Depth, arguments, Counts, AreNumbers
  <2>2. OneToken'
    BY <1>1, <1>6, <1>7, <1>8, <1>9, <1>10, <1>12
    DEF Numbers, OneToken, Token, Stays, Counts, AreNumbers
  <2>3. Merged'
    BY <1>1, <1>14, <1>3, <1>7, <1>8, <1>12
    DEF Numbers, Merged, Sound, Arrived, Stays, arguments, Queues, Exact, Final
  <2>4. Known' BY <1>1, <1>3, <1>8 DEF Numbers, Known
  <2>5. Round' BY <1>1, <1>3, <1>7 DEF Numbers, Round, Arrived, arguments, Stays
  <2> QED BY <2>1, <2>2, <2>3, <2>4, <2>5 DEF Numbers
<1>16. Settled' BY <1>3 DEF Settled, arguments
<1> QED BY <1>5, <1>13, <1>15, <1>16 DEF IInv, Change, Numbers

\* In zad3a the handler of sig2 of the catcher goes on.
LEMMA QuietMoves ==
    ASSUME Types, Stacks, Quiet, NEW to \in Reporting, Top("catcher").at \in Reporting,
           stack'["catcher"] = Moved(stack["catcher"], to),
           MainAt("sender")' = MainAt("sender"),
           pending'["catcher"]["sig1"] \in {pending["catcher"]["sig1"], <<>>}
    PROVE  Quiet' /\ Top("catcher").at' = to
<1> DEFINE q == stack["catcher"]
           m == stack'["catcher"]
<1>1. q \in Seq(FrameSet) /\ q # <<>> BY DEF Stacks, Shape, Processes
<1>2. to \in Lines BY DEF Reporting, Lines
<1>3. /\ m \in Seq(FrameSet) /\ Len(m) = Len(q) /\ DOMAIN m = DOMAIN q
      /\ m[Len(q)].at = to
      /\ \A k \in DOMAIN q : /\ m[k].mask = q[k].mask
                             /\ m[k].at = IF k = Len(q) THEN to ELSE q[k].at
  BY <1>1, <1>2, MovedStack
<1>4. q[Len(q)].at \in Reporting BY DEF Top, Last
<1>5. \A k \in Frames(m, Reporting) : k \in Frames(q, Reporting) /\ m[k].mask = q[k].mask
  <2> HIDE DEF q, m
  <2> QED BY <1>3, <1>4 DEF Frames
<1>6. \A k \in Frames(m, Reporting) :
         /\ k = Len(m) /\ MainAt("sender") \notin Sending
         /\ "sig1" \in m[k].mask \/ pending["catcher"]["sig1"] = <<>>
  BY <1>3, <1>5 DEF Quiet, Reports
<1>7. Quiet'
  <2>1. \A k \in Frames(m, Reporting) : Reports(k)' BY <1>6 DEF Reports, Sending
  <2> QED BY <2>1, Zenon DEF Quiet, Reporting
<1> QED BY <1>3, <1>7 DEF Top, Last

\* ... as long as it answers,
LEMMA CatcherSendsOneKeeps ==
    ASSUME IInv, protocol = "burst", answered < counter["catcher"],
           Goto("catcher", "sig2", "sig2"), Answer("sig1"), answered' = answered + 1,
           UNCHANGED <<arguments, sent, counter, known, early>>
    PROVE  IInv'
<1>1. Types /\ Stacks /\ Numbers /\ Settled BY DEF IInv, Numbers
<1>2. "sender" \in Processes /\ "catcher" \in Processes /\ "sender" # "catcher"
      /\ "sig1" \in Kinds /\ "sig2" \in Kinds
  BY DEF Processes, Kinds
<1>3. UNCHANGED arguments /\ sent' = sent /\ counter' = counter /\ known' = known
  OBVIOUS
<1>4. /\ "sig2" \in Lines /\ "sig2" \notin New /\ "sig2" \notin Counted /\ "sig2" \in Reporting
      /\ "sig2" \notin MainLines("catcher") /\ "sig2" \in HandlerLines("catcher")
  BY DEF Lines, MainLines, HandlerLines, New, Counted, Reporting
<1>5. /\ Change("catcher", "sig2", "sig2") /\ Top("catcher").at = "sig2"
      /\ stack'["catcher"] = Moved(stack["catcher"], "sig2")
  BY <1>1, <1>2, <1>3, <1>4, Going
<1>6. Counts BY <1>1, Naturals
<1>7. Stays("sender") /\ Differs("catcher", "sig2", "sig2") BY <1>1, <1>2, <1>5, NumbersChange
<1>8. /\ Newly("catcher")' = Newly("catcher") /\ Counting("catcher")' = Counting("catcher")
      /\ Ending("catcher")' = Ending("catcher")
  BY <1>4, <1>6, <1>7 DEF Differs, One, Counts, AreNumbers
<1> DEFINE v == IF mode = "SIGQUEUE" THEN counter["catcher"] ELSE 0
<1>9. Send("sender", "sig1", v) /\ v \in 0 .. n
  <2>1. known BY <1>1, <1>6 DEF Numbers, Known, Counts, AreNumbers
  <2> QED BY <1>1, <1>2, <2>1 DEF Answer, Types
<1> HIDE DEF v
<1>10. /\ pending' \in [Processes -> [Kinds -> Seq(0 .. n)]]
       /\ \A p \in Processes, k \in Kinds :
            <<p, k>> # <<"sender", "sig1">> => pending'[p][k] = pending[p][k]
       /\ Len(pending'["sender"]["sig1"]) = IF Queues \/ Len(pending["sender"]["sig1"]) = 0
                                            THEN Len(pending["sender"]["sig1"]) + 1
                                            ELSE Len(pending["sender"]["sig1"])
  BY <1>1, <1>2, <1>9, Sent
<1>11. pending'["catcher"] = pending["catcher"] /\ pending'["sender"]["sig2"] = pending["sender"]["sig2"]
  <2>1. \A k \in Kinds : pending'["catcher"][k] = pending["catcher"][k] BY <1>2, <1>10
  <2>2. pending'["catcher"] \in [Kinds -> Seq(0 .. n)] /\ pending["catcher"] \in [Kinds -> Seq(0 .. n)]
    BY <1>1, <1>2, <1>10 DEF Types
  <2>3. pending'["sender"]["sig2"] = pending["sender"]["sig2"] BY <1>2, <1>10
  <2> QED BY <2>1, <2>2, <2>3
<1>12. /\ Waiting1("sender")' = IF Queues \/ Waiting1("sender") = 0
                                THEN Waiting1("sender") + 1 ELSE Waiting1("sender")
       /\ Waiting2("sender")' = Waiting2("sender")
       /\ Waiting1("catcher")' = Waiting1("catcher") /\ Waiting2("catcher")' = Waiting2("catcher")
  BY <1>10, <1>11 DEF Waiting1, Waiting2
<1>13. Types'
  <2>1. answered' \in 0 .. n BY <1>6 DEF Counts, AreNumbers
  <2> QED BY <1>1, <1>3, <1>5, <1>10, <2>1 DEF Types, Change, arguments, FrameSet
<1>14. Final BY <1>2, <1>3, <1>5, Persists DEF Ended, At, Goto, Top
<1>15. Numbers'
  <2>1. Depth' BY <1>3 DEF Depth, arguments
  <2>2. OneToken' BY <1>1, <1>7, <1>8, <1>12 DEF Numbers, OneToken, Token, Stays
  <2>3. Sound(answered, "sender")'
    BY <1>1, <1>14, <1>3, <1>6, <1>7, <1>12
    DEF Numbers, Merged, Sound, Arrived, Stays, arguments, Queues, Exact, Counts, AreNumbers, Final
  <2>4. Merged'
    BY <1>1, <1>14, <1>3, <1>6, <1>8, <1>12, <2>3
    DEF Numbers, Merged, Sound, Arrived, arguments, Queues, Exact, Counts, AreNumbers, Final
  <2>5. Known' BY <1>1, <1>3, <1>8 DEF Numbers, Known
  <2>6. Round' BY <1>1, <1>3, <1>7 DEF Numbers, Round, Arrived, arguments, Stays
  <2> QED BY <2>1, <2>2, <2>4, <2>5, <2>6 DEF Numbers
<1>16. Settled'
  <2>1. Quiet /\ Answered /\ (mode = "SIGQUEUE" => Values) BY <1>1 DEF Settled
  <2>2. Quiet' BY <1>1, <1>4, <1>5, <1>7, <1>11, <2>1, QuietMoves DEF Stays
  <2>3. Ending("sender") = 0 /\ pending["sender"]["sig2"] = <<>>
    <3>1. "sig2" \notin {"prints", "ended"} OBVIOUS
    <3>2. ~(Ending("sender") > 0) /\ pending["sender"]["sig2"] = <<>>
      BY <1>5, <2>1, <3>1, Zenon DEF Answered
    <3> QED BY <1>6, <3>2, SMTT(30) DEF Counts, AreNumbers
  <2>4. Answered' BY <1>7, <1>11, <2>3 DEF Answered, Stays
  <2>5. mode = "SIGQUEUE" => Values' BY <1>3, <1>7, <1>11, <2>1 DEF Values, Stays
  <2> QED BY <1>3, <2>2, <2>4, <2>5 DEF Settled, arguments
<1> QED BY <1>5, <1>13, <1>15, <1>16 DEF IInv, Change, Numbers

\* ... when it has answered all,
LEMMA CatcherSendsLastKeeps ==
    ASSUME IInv, protocol = "burst", Goto("catcher", "sig2", "prints"), Answer("sig2"),
           UNCHANGED <<arguments, sent, answered, counter, known, early>>
    PROVE  IInv'
<1>1. Types /\ Stacks /\ Numbers /\ Settled BY DEF IInv, Numbers
<1>2. "sender" \in Processes /\ "catcher" \in Processes /\ "sender" # "catcher"
      /\ "sig1" \in Kinds /\ "sig2" \in Kinds
  BY DEF Processes, Kinds
<1>3. UNCHANGED arguments /\ sent' = sent /\ answered' = answered /\ counter' = counter
      /\ known' = known
  OBVIOUS
<1>4. /\ "sig2" \in Lines /\ "sig2" \notin New /\ "sig2" \notin Counted /\ "sig2" \in Reporting
      /\ "prints" \in Lines /\ "prints" \notin New /\ "prints" \notin Counted
      /\ "prints" \in Reporting /\ "prints" \in HandlerLines("catcher")
      /\ "sig2" \notin MainLines("catcher")
  BY DEF Lines, MainLines, HandlerLines, New, Counted, Reporting
<1>5. /\ Change("catcher", "sig2", "prints") /\ Top("catcher").at = "sig2"
      /\ stack'["catcher"] = Moved(stack["catcher"], "prints")
  BY <1>1, <1>2, <1>3, <1>4, Going
<1>6. Counts BY <1>1, Naturals
<1>7. Stays("sender") /\ Differs("catcher", "sig2", "prints") BY <1>1, <1>2, <1>5, NumbersChange
<1>8. /\ Newly("catcher")' = Newly("catcher") /\ Counting("catcher")' = Counting("catcher")
      /\ Ending("catcher")' = Ending("catcher") - 1
  BY <1>4, <1>6, <1>7 DEF Differs, One, Counts, AreNumbers
<1>9. Ending("catcher") > 0 BY <1>1, <1>2, <1>5, TopCounts DEF Ending
<1>10. Waiting2("sender") = 0 /\ Ending("sender") = 0
  BY <1>1, <1>6, <1>9 DEF Numbers, OneToken, Token, Counts, AreNumbers
<1>11. /\ pending' \in [Processes -> [Kinds -> Seq(0 .. n)]]
       /\ pending'["catcher"] = pending["catcher"]
       /\ pending'["sender"]["sig1"] = pending["sender"]["sig1"]
       /\ Len(pending'["sender"]["sig2"]) <= 1 /\ Len(pending'["sender"]["sig2"]) \in Nat
       /\ \/ pending'["sender"]["sig2"] = <<>>
          \/ pending'["sender"]["sig2"] = <<IF mode = "SIGQUEUE" THEN counter["catcher"] ELSE 0>>
  <2>0. pending["sender"]["sig2"] = <<>> BY <1>1, <1>2, <1>10 DEF Waiting2, Types
  <2>1. CASE known
    <3>1. "sig1" # "sig2" OBVIOUS
    <3>2. /\ pending' \in [Processes -> [Kinds -> Seq(0 .. n)]]
          /\ pending'["catcher"] = pending["catcher"]
          /\ pending'["sender"]["sig1"] = pending["sender"]["sig1"]
          /\ pending'["sender"]["sig2"] = <<IF mode = "SIGQUEUE" THEN counter["catcher"] ELSE 0>>
          /\ Len(pending'["sender"]["sig2"]) = 1
      BY <1>1, <1>2, <2>0, <2>1, <3>1, AnswerArrives
    <3> QED BY <3>2
  <2>2. CASE ~known
    <3>1. pending' = pending BY <2>2 DEF Answer
    <3> QED BY <1>1, <1>10, <2>0, <3>1 DEF Types, Waiting2
  <2> QED BY <2>1, <2>2
<1>12. /\ Waiting1("sender")' = Waiting1("sender")
       /\ Waiting2("sender")' <= 1 /\ Waiting2("sender")' \in Nat
       /\ Waiting1("catcher")' = Waiting1("catcher") /\ Waiting2("catcher")' = Waiting2("catcher")
  BY <1>11 DEF Waiting1, Waiting2
<1>13. Types' BY <1>1, <1>3, <1>5, <1>11 DEF Types, Change, arguments, FrameSet
<1>14. Final BY <1>2, <1>3, <1>5, Persists DEF Ended, At, Goto, Top
<1>15. Numbers'
  <2>1. Depth' BY <1>3 DEF Depth, arguments
  <2>2. OneToken'
    BY <1>1, <1>6, <1>7, <1>8, <1>9, <1>10, <1>12
    DEF Numbers, OneToken, Token, Stays, Counts, AreNumbers
  <2>3. Merged'
    BY <1>1, <1>14, <1>3, <1>7, <1>8, <1>12
    DEF Numbers, Merged, Sound, Arrived, Stays, arguments, Queues, Exact, Final
  <2>4. Known' BY <1>1, <1>3, <1>8 DEF Numbers, Known
  <2>5. Round' BY <1>1, <1>3, <1>7 DEF Numbers, Round, Arrived, arguments, Stays
  <2> QED BY <2>1, <2>2, <2>3, <2>4, <2>5 DEF Numbers
<1>16. Settled'
  <2>1. Quiet /\ Answered /\ (mode = "SIGQUEUE" => Values) BY <1>1 DEF Settled
  <2>2. Quiet' /\ Top("catcher").at' = "prints"
    BY <1>1, <1>4, <1>5, <1>7, <1>11, <2>1, QuietMoves DEF Stays
  <2>3. Answered' BY <2>2 DEF Answered
  <2>4. ASSUME mode = "SIGQUEUE" PROVE Values'
    <3>1. \A k \in DOMAIN stack["sender"] : stack["sender"][k].at \notin {"sig2"}
      <4>1. stack["sender"] \in Seq(FrameSet) BY <1>1, <1>2 DEF Types
      <4> QED BY <1>10, <4>1, SizeIsPositive, Zenon DEF Ending, Running
    <3>2. Frames(stack'["sender"], {"sig2"}) = {} BY <1>7, <3>1 DEF Frames, Stays
    <3>3. pending'["sender"]["sig2"] # <<>> => Head(pending'["sender"]["sig2"]) = counter["catcher"]
      BY <1>11, <2>4
    <3> QED BY <1>3, <3>2, <3>3, Zenon DEF Values
  <2> QED BY <1>3, <2>2, <2>3, <2>4 DEF Settled, arguments
<1> QED BY <1>5, <1>13, <1>15, <1>16 DEF IInv, Change, Numbers

\* ... and when it has printed.
LEMMA CatcherExitsKeeps ==
    ASSUME IInv, CatcherExits
    PROVE  IInv'
<1>1. Types /\ Stacks /\ Numbers /\ Settled BY DEF IInv, Numbers
<1>2. "sender" \in Processes /\ "catcher" \in Processes /\ "sender" # "catcher" BY DEF Processes
<1>3. UNCHANGED arguments /\ sent' = sent /\ answered' = answered
      /\ counter' = counter /\ known' = known /\ Goto("catcher", "prints", "ended")
      /\ Exit("catcher", "prints")
  BY DEF CatcherExits, counts, Exit
<1>4. /\ "prints" \in Lines /\ "prints" \notin New /\ "prints" \notin Counted
      /\ "ended" \in Lines /\ "ended" \notin New /\ "ended" \notin Counted
      /\ "prints" \in Reporting /\ "ended" \in Reporting /\ "prints" \notin MainLines("catcher")
  BY DEF Lines, MainLines, New, Counted, Reporting
<1>5. Top("catcher").at = "prints" BY <1>3 DEF Goto, At
<1>6. protocol = "burst" /\ "ended" \in HandlerLines("catcher")
  <2>1. "prints" \in HandlerLines("catcher") BY <1>1, <1>2, <1>4, <1>5, TopCounts
  <2> QED BY <1>1, <2>1 DEF HandlerLines, New, Counted, Reporting, Types
<1>7. /\ Change("catcher", "prints", "ended")
      /\ stack'["catcher"] = Moved(stack["catcher"], "ended")
  BY <1>1, <1>2, <1>3, <1>4, <1>6, Going
<1>8. Counts BY <1>1, Naturals
<1>9. Stays("sender") /\ Differs("catcher", "prints", "ended") BY <1>1, <1>2, <1>7, NumbersChange
<1>10. /\ Newly("catcher")' = Newly("catcher") /\ Counting("catcher")' = Counting("catcher")
       /\ Ending("catcher")' = Ending("catcher")
  BY <1>4, <1>8, <1>9 DEF Differs, One, Counts, AreNumbers
<1>11. HasExited("catcher")' /\ Empties("catcher") BY <1>1, <1>2, <1>3, <1>6, <1>7, Exiting
<1>12. /\ Waiting1("sender")' = Waiting1("sender") /\ Waiting2("sender")' = Waiting2("sender")
       /\ Waiting1("catcher")' = 0 /\ Waiting2("catcher")' = 0
       /\ pending' \in [Processes -> [Kinds -> Seq(0 .. n)]]
       /\ pending'["sender"] = pending["sender"] /\ pending'["catcher"]["sig1"] = <<>>
  BY <1>1, <1>2, <1>11, Emptied
<1>13. Final BY <1>2, <1>3, <1>5, <1>7, Persists DEF Ended, At
<1>14. Types' BY <1>1, <1>3, <1>7, <1>12 DEF Types, Change, arguments, FrameSet
<1>15. Numbers'
  <2>1. Depth' BY <1>3, <1>6 DEF Depth, arguments
  <2>0. /\ Waiting1("sender")' = Waiting1("sender") /\ Waiting2("sender")' = Waiting2("sender")
        /\ Waiting1("catcher")' = 0 /\ Waiting2("catcher")' = 0
    BY <1>12
  <2>2. OneToken'
    BY <1>1, <1>8, <1>9, <1>10, <2>0 DEF Numbers, OneToken, Token, Stays, Counts, AreNumbers
  <2>3. Merged'
    <3>1. Merged BY <1>1 DEF Numbers
    <3>2. HasExited("catcher")' BY <1>11
    <3> QED BY <1>3, <1>8, <1>9, <1>10, <1>13, <2>0, <3>1, <3>2
            DEF Merged, Sound, Arrived, Stays, arguments, Queues, Exact, Final, Counts, AreNumbers
  <2>4. Known' BY <1>1, <1>3, <1>10 DEF Numbers, Known
  <2>5. Round' BY <1>1, <1>3, <1>9 DEF Numbers, Round, Arrived, arguments, Stays
  <2> QED BY <2>1, <2>2, <2>3, <2>4, <2>5 DEF Numbers
<1>16. Settled'
  <2>1. Quiet /\ Answered /\ (mode = "SIGQUEUE" => Values) BY <1>1, <1>6 DEF Settled
  <2>2. pending'["catcher"]["sig1"] = <<>> /\ Top("catcher").at \in Reporting
    BY <1>4, <1>5, <1>12
  <2>3. Quiet' /\ Top("catcher").at' = "ended"
    BY <1>1, <1>4, <1>7, <1>9, <2>1, <2>2, QuietMoves DEF Stays
  <2>4. Answered' BY <2>3 DEF Answered
  <2>5. mode = "SIGQUEUE" => Values' BY <1>3, <1>9, <1>12, <2>1 DEF Values, Stays
  <2> QED BY <1>3, <2>3, <2>4, <2>5 DEF Settled, arguments
<1> QED BY <1>7, <1>14, <1>15, <1>16 DEF IInv, Change, Numbers

\* What a signal that is delivered takes from those that wait.
LEMMA Delivered ==
    ASSUME Types, NEW p \in Processes, NEW r \in Processes, r # p,
           NEW s \in Kinds, NEW k \in Kinds, k # s, Deliver(p, s)
    PROVE  /\ pending' \in [Processes -> [Kinds -> Seq(0 .. n)]]
           /\ pending'[r] = pending[r] /\ pending'[p][k] = pending[p][k]
           /\ pending[p][s] # <<>> /\ Len(pending'[p][s]) = Len(pending[p][s]) - 1
           /\ Head(pending[p][s]) \in 0 .. n
           /\ s \notin Blocked(p) /\ ("sig1" \in Deliverable(p) => s = "sig1")
           /\ UNCHANGED arguments /\ sent' = sent /\ answered' = answered
           /\ counter' = counter /\ known' = known
<1>1. pending[p][s] # <<>> /\ s \notin Blocked(p) /\ ("sig1" \in Deliverable(p) => s = "sig1")
  BY DEF Deliver, Deliverable
<1>2. pending[p][s] \in Seq(0 .. n) BY DEF Types
<1>3. /\ Tail(pending[p][s]) \in Seq(0 .. n) /\ Head(pending[p][s]) \in 0 .. n
      /\ Len(Tail(pending[p][s])) = Len(pending[p][s]) - 1
  BY <1>1, <1>2, HeadTailProperties
<1>4. pending' = [pending EXCEPT ![p] = [pending[p] EXCEPT ![s] = Tail(pending[p][s])]]
  BY DEF Deliver, Interrupt
<1>5. UNCHANGED arguments /\ sent' = sent /\ answered' = answered /\ counter' = counter
      /\ known' = known
  BY DEF Deliver, Interrupt, counts
<1>6. pending' \in [Processes -> [Kinds -> Seq(0 .. n)]] BY <1>3, <1>4 DEF Types
<1>7. pending'[r] = pending[r] /\ pending'[p][k] = pending[p][k]
      /\ pending'[p][s] = Tail(pending[p][s])
  BY <1>4 DEF Types
<1> QED BY <1>1, <1>3, <1>5, <1>6, <1>7

\* The place of the sender's main stays within its loop, or after it.
LEMMA SendingStays ==
    ASSUME Types, MainAt("sender")' \in {MainAt("sender"), Resumes(MainAt("sender"))}
    PROVE  /\ MainAt("sender")' \in Sending <=> MainAt("sender") \in Sending
           /\ MainAt("sender")' = "send" => MainAt("sender") \in {"send", "waitsForAnswer"}
BY DEF Resumes, Sending, Types

\* The sender is interrupted.
LEMMA SenderInterrupted ==
    ASSUME Types, Stacks, Settled, Counts, OneToken, NEW s \in Kinds, Deliver("sender", s)
    PROVE  Settled'
<1>1. "sender" \in Processes /\ "catcher" \in Processes /\ "sender" # "catcher"
      /\ "sig1" \in Kinds /\ "sig2" \in Kinds /\ "sig1" # "sig2"
  BY DEF Processes, Kinds
<1> DEFINE q == stack["sender"]
           a == Top("sender").at
           f == Frame(s, Blocked("sender") \cup {s}, Head(pending["sender"][s]))
           m == Append(Moved(q, Resumes(a)), f)
<1>2. /\ Change("sender", "none", s) /\ stack'["sender"] = m
      /\ MainAt("sender")' \in {MainAt("sender"), Resumes(MainAt("sender"))}
  BY <1>1, Interrupting
<1>3. /\ pending'["catcher"] = pending["catcher"] /\ counter' = counter /\ UNCHANGED arguments
      /\ s = "sig1" => pending'["sender"]["sig2"] = pending["sender"]["sig2"]
      /\ pending["sender"][s] # <<>>
      /\ Len(pending'["sender"][s]) = Len(pending["sender"][s]) - 1
      /\ pending' \in [Processes -> [Kinds -> Seq(0 .. n)]]
  BY <1>1, Delivered DEF Kinds
<1> SUFFICES ASSUME protocol = "burst" PROVE Settled' BY <1>3 DEF Settled, arguments
<1>4. Quiet /\ Answered /\ (mode = "SIGQUEUE" => Values) BY DEF Settled
<1>5. Stays("catcher") /\ Differs("sender", "none", s) BY <1>1, <1>2, NumbersChange
<1>6. s = "sig1" => Ending("sender")' = Ending("sender")
  BY <1>5 DEF Differs, One, Counts, AreNumbers
<1>7. Quiet'
  <2>1. \A k \in Frames(stack["catcher"], Reporting) : Reports(k)'
    BY <1>2, <1>3, <1>4, <1>5, SendingStays DEF Quiet, Reports, Stays
  <2>2. stack'["catcher"] = stack["catcher"] BY <1>5 DEF Stays
  <2> QED BY <2>1, <2>2, Zenon DEF Quiet, Reporting
<1>8. Answered'
  <2>1. Top("catcher")' = Top("catcher") BY <1>5 DEF Stays, Top
  <2>2. s = "sig2" => Top("catcher").at \in {"prints", "ended"} BY <1>3, <1>4 DEF Answered
  <2> QED BY <1>3, <1>4, <1>6, <2>1, <2>2 DEF Answered, Kinds
<1>9. s = "sig2" => pending'["sender"]["sig2"] = <<>>
  <2> SUFFICES ASSUME s = "sig2" PROVE pending'["sender"]["sig2"] = <<>> OBVIOUS
  <2>1. Waiting2("sender") <= 1 BY DEF OneToken, Token, Counts, AreNumbers
  <2>2. pending["sender"]["sig2"] \in Seq(0 .. n) /\ pending'["sender"]["sig2"] \in Seq(0 .. n)
    BY <1>1, <1>3 DEF Types
  <2>3. Len(pending["sender"]["sig2"]) <= 1 BY <2>1 DEF Waiting2
  <2> QED BY <1>3, <2>2, <2>3
<1>10. ASSUME mode = "SIGQUEUE" PROVE Values'
  <2>1. Values BY <1>4, <1>10
  <2>2. q \in Seq(FrameSet) /\ q # <<>> BY <1>1 DEF Stacks, Shape
  <2>3. f.at = s /\ f.value = Head(pending["sender"][s]) BY DEF Frame
  <2>4. /\ Resumes(a) \in Lines /\ (Resumes(a) = "sig2" <=> a = "sig2") /\ a = q[Len(q)].at
    <3>1. a = q[Len(q)].at BY DEF Top, Last
    <3> HIDE DEF a
    <3>2. a \in Lines
      <4>1. q[Len(q)] \in FrameSet BY <2>2
      <4> QED BY <3>1, <4>1 DEF FrameSet
    <3> QED BY <3>1, <3>2 DEF Resumes, Lines, Suspended
  <2> HIDE DEF f, a
  <2>5. /\ Moved(q, Resumes(a)) \in Seq(FrameSet) /\ DOMAIN Moved(q, Resumes(a)) = DOMAIN q
        /\ Len(Moved(q, Resumes(a))) = Len(q)
        /\ \A k \in DOMAIN q : /\ Moved(q, Resumes(a))[k].value = q[k].value
                               /\ Moved(q, Resumes(a))[k].at = IF k = Len(q) THEN Resumes(a) ELSE q[k].at
    BY <2>2, <2>4, MovedStack
  <2>6. /\ DOMAIN m = 1 .. Len(q) + 1 /\ m[Len(q) + 1] = f /\ DOMAIN q = 1 .. Len(q)
        /\ Len(q) \in Nat /\ \A k \in DOMAIN q : m[k] = Moved(q, Resumes(a))[k]
    BY <2>2, <2>5
  <2> HIDE DEF m, q
  <2>7. ASSUME NEW k \in Frames(m, {"sig2"}) PROVE m[k].value = counter["catcher"]
    <3>1. CASE k \in DOMAIN q
      <4>1. q[k].at = "sig2" BY <2>4, <2>5, <2>6, <3>1 DEF Frames
      <4> QED BY <2>1, <2>5, <2>6, <3>1, <4>1 DEF Values, Frames, q
    <3>2. CASE k \notin DOMAIN q
      <4>1. k = Len(q) + 1 BY <2>6, <3>2 DEF Frames
      <4>2. s = "sig2" BY <2>3, <2>6, <4>1 DEF Frames
      <4> QED BY <1>3, <2>1, <2>3, <2>6, <4>1, <4>2 DEF Values
    <3> QED BY <3>1, <3>2
  <2>8. pending'["sender"]["sig2"] # <<>> => Head(pending'["sender"]["sig2"]) = counter["catcher"]
    BY <1>3, <1>9, <2>1 DEF Values, Kinds
  <2> QED BY <1>2, <1>3, <2>7, <2>8 DEF Values
<1> QED BY <1>3, <1>7, <1>8, <1>10 DEF Settled, arguments

\* Nothing interrupts the catcher of zad3a that handles sig2.
LEMMA NothingInterruptsReport ==
    ASSUME Types, Stacks, Settled, protocol = "burst", NEW s \in Kinds, Deliver("catcher", s)
    PROVE  Top("catcher").at \notin Reporting /\ Frames(stack["catcher"], Reporting) = {}
<1> DEFINE q == stack["catcher"]
<1>1. "catcher" \in Processes BY DEF Processes
<1>2. /\ q \in Seq(FrameSet) /\ q # <<>> /\ Len(q) \in DOMAIN q /\ Len(q) \in Nat
      /\ Shape("catcher", q) /\ Nested("catcher", q) /\ q[1].at \in MainLines("catcher")
  BY <1>1 DEF Stacks, Shape
<1>3. Top("catcher") = q[Len(q)] BY DEF Top, Last
<1>4. \A k \in Frames(q, Reporting) :
         k = Len(q) /\ ("sig1" \in q[k].mask \/ pending["catcher"]["sig1"] = <<>>)
  BY DEF Settled, Quiet, Reports
<1>5. s \notin Blocked("catcher") /\ pending["catcher"][s] # <<>> BY DEF Deliver, Deliverable
<1>6. ASSUME q[Len(q)].at \in Reporting PROVE FALSE
  <2>1. Blocked("catcher") = q[Len(q)].mask BY <1>3, <1>6 DEF Blocked, Suspended, Reporting
  <2>2. Len(q) \in Frames(q, Reporting) BY <1>2, <1>6 DEF Frames
  <2>3. s # "sig1" BY <1>4, <1>5, <2>1, <2>2
  <2>4. s = "sig2" BY <2>3 DEF Kinds
  <2>5. Len(q) # 1 BY <1>2, <1>6 DEF MainLines, Reporting
  <2>6. Len(q) = 2 \/ Len(q) = 3
    <3>1. Len(q) <= 3 BY <1>2, <1>1 DEF Nested
    <3>2. Len(q) # 0 /\ Len(q) \in Nat BY <1>2
    <3>3. \A k \in Nat : k # 0 /\ k # 1 /\ k <= 3 => k = 2 \/ k = 3 OBVIOUS
    <3> QED BY <2>5, <3>1, <3>2, <3>3, Zenon
  <2>7. CASE Len(q) = 2
    <3>1. Own(q[2]) = "sig2" BY <1>6, <2>7 DEF Own, Reporting, New
    <3> QED BY <1>2, <1>5, <2>1, <2>4, <2>7, <3>1 DEF Nested
  <2>8. CASE Len(q) = 3 BY <1>2, <1>5, <2>1, <2>8 DEF Nested
  <2> QED BY <2>6, <2>7, <2>8
<1>7. Frames(q, Reporting) = {}
  <2>1. \A k \in Frames(q, Reporting) : k = Len(q) /\ q[k].at \in Reporting BY <1>4 DEF Frames
  <2> HIDE DEF q
  <2> QED BY <1>6, <2>1
<1> QED BY <1>3, <1>6, <1>7

\* The catcher is interrupted.
LEMMA CatcherInterrupted ==
    ASSUME Types, Stacks, Settled, Counts, OneToken, NEW s \in Kinds, Deliver("catcher", s)
    PROVE  Settled'
<1>1. "sender" \in Processes /\ "catcher" \in Processes /\ "sender" # "catcher"
      /\ "sig1" \in Kinds /\ "sig2" \in Kinds /\ "sig1" # "sig2"
  BY DEF Processes, Kinds
<1> DEFINE q == stack["catcher"]
           x == Resumes(Top("catcher").at)
           f == Frame(s, Blocked("catcher") \cup {s}, Head(pending["catcher"][s]))
           m == Append(Moved(q, x), f)
<1>2. Change("catcher", "none", s) /\ stack'["catcher"] = m BY <1>1, Interrupting
<1>3. /\ pending'["sender"] = pending["sender"] /\ counter' = counter /\ UNCHANGED arguments
      /\ s = "sig2" => pending'["catcher"]["sig1"] = pending["catcher"]["sig1"]
      /\ pending["catcher"][s] # <<>>
      /\ Head(pending["catcher"][s]) \in 0 .. n
      /\ "sig1" \in Deliverable("catcher") => s = "sig1"
  BY <1>1, Delivered DEF Kinds
<1> SUFFICES ASSUME protocol = "burst" PROVE Settled' BY <1>3 DEF Settled, arguments
<1>4. Quiet /\ Answered /\ (mode = "SIGQUEUE" => Values) BY DEF Settled
<1>5. Stays("sender") BY <1>1, <1>2, NumbersChange
<1>6. Top("catcher").at \notin Reporting /\ Frames(q, Reporting) = {} BY NothingInterruptsReport
<1>7. q \in Seq(FrameSet) /\ q # <<>> BY <1>1 DEF Stacks, Shape
<1>8. x \in Lines \ Reporting
  <2> DEFINE a == Top("catcher").at
  <2>1. a = q[Len(q)].at BY DEF Top, Last
  <2>2. a \notin Reporting BY <1>6
  <2> HIDE DEF a
  <2>3. a \in Lines
    <3>1. q[Len(q)] \in FrameSet BY <1>7
    <3> QED BY <2>1, <3>1 DEF FrameSet
  <2>4. Resumes(a) \in Lines \ Reporting BY <2>2, <2>3 DEF Resumes, Lines, Suspended, Reporting
  <2> QED BY <2>4 DEF a
<1>9. f \in FrameSet /\ f.at = s /\ f.mask = Blocked("catcher") \cup {s}
  <2>1. Blocked("catcher") \subseteq Kinds
    <3>1. Top("catcher") \in FrameSet BY <1>7 DEF Top, Last
    <3> QED BY <3>1 DEF Blocked, FrameSet, Suspended, Kinds
  <2>2. s \in Lines BY DEF Kinds, Lines
  <2> QED BY <1>3, <2>1, <2>2 DEF Frame, FrameSet
<1> HIDE DEF x, f
<1>10. CASE s = "sig1"
  <2>1. f.at \notin Reporting BY <1>9, <1>10 DEF Reporting
  <2>2. \E y \in Lines \ Reporting, g \in FrameSet :
           g.at \notin Reporting /\ stack'["catcher"] = Append(Moved(stack["catcher"], y), g)
    BY <1>2, <1>8, <1>9, <2>1
  <2> QED BY <1>3, <1>5, <1>6, <2>2, CatcherSettled, Zenon DEF Stays
<1>11. CASE s = "sig2"
  <2>1. /\ Moved(q, x) \in Seq(FrameSet) /\ DOMAIN Moved(q, x) = DOMAIN q
        /\ Len(Moved(q, x)) = Len(q)
        /\ \A k \in DOMAIN q : Moved(q, x)[k].at = IF k = Len(q) THEN x ELSE q[k].at
    BY <1>7, <1>8, MovedStack
  <2>2. /\ DOMAIN m = 1 .. Len(q) + 1 /\ m[Len(q) + 1] = f /\ DOMAIN q = 1 .. Len(q)
        /\ Len(q) \in Nat /\ Len(m) = Len(q) + 1
        /\ \A k \in DOMAIN q : m[k] = Moved(q, x)[k]
    BY <1>7, <1>9, <2>1
  <2> HIDE DEF m, q
  <2>3. \A k \in Frames(m, Reporting) : k = Len(m) /\ m[k] = f
    BY <1>6, <1>8, <2>1, <2>2 DEF Frames
  <2>4. MainAt("sender")' \notin Sending
    <3>1. Waiting2("catcher") > 0
      <4>1. pending["catcher"]["sig2"] \in Seq(0 .. n) BY <1>1 DEF Types
      <4>2. pending["catcher"]["sig2"] # <<>> BY <1>3, <1>11
      <4>3. Len(pending["catcher"]["sig2"]) # 0 BY <4>1, <4>2
      <4> QED BY <4>1, <4>3 DEF Waiting2
    <3>2. MainAt("sender") \notin Sending BY <3>1 DEF OneToken, Token, Counts, AreNumbers
    <3> QED BY <1>5, <3>2 DEF Stays
  <2>5. "sig1" \in f.mask \/ pending["catcher"]["sig1"] = <<>>
    <3>1. "sig1" \notin Deliverable("catcher") BY <1>1, <1>3, <1>11
    <3> QED BY <1>1, <1>9, <3>1 DEF Deliverable
  <2>6. Quiet'
    <3>1. \A k \in Frames(m, Reporting) : Reports(k)'
      BY <1>2, <1>3, <1>11, <2>3, <2>4, <2>5 DEF Reports, Sending
    <3> QED BY <1>2, <3>1, Zenon DEF Quiet, Reporting
  <2>7. ~(Ending("sender") > 0) /\ pending["sender"]["sig2"] = <<>>
    <3>1. Top("catcher").at \notin {"prints", "ended"} BY <1>6 DEF Reporting
    <3> QED BY <1>4, <3>1, Zenon DEF Answered
  <2>8. Ending("sender")' = Ending("sender") BY <1>5 DEF Stays
  <2>9. Answered' BY <1>3, <2>7, <2>8 DEF Answered
  <2>10. mode = "SIGQUEUE" => Values' BY <1>3, <1>4, <1>5 DEF Values, Stays
  <2> QED BY <1>3, <2>6, <2>9, <2>10 DEF Settled, arguments
<1> QED BY <1>10, <1>11 DEF Kinds

\* A signal interrupts the sender.
LEMMA SenderDeliveryKeeps ==
    ASSUME IInv, NEW s \in Kinds, Deliver("sender", s)
    PROVE  IInv'
<1>1. Types /\ Stacks /\ Numbers /\ Settled BY DEF IInv, Numbers
<1>2. "sender" \in Processes /\ "catcher" \in Processes /\ "sender" # "catcher"
      /\ "sig1" \in Kinds /\ "sig2" \in Kinds /\ "sig1" # "sig2"
  BY DEF Processes, Kinds
<1>3. /\ Change("sender", "none", s)
      /\ MainAt("sender")' \in {MainAt("sender"), Resumes(MainAt("sender"))}
  BY <1>1, <1>2, Interrupting
<1>4. /\ pending' \in [Processes -> [Kinds -> Seq(0 .. n)]]
      /\ pending'["catcher"] = pending["catcher"]
      /\ s = "sig1" => pending'["sender"]["sig2"] = pending["sender"]["sig2"]
      /\ s = "sig2" => pending'["sender"]["sig1"] = pending["sender"]["sig1"]
      /\ pending["sender"][s] # <<>>
      /\ Len(pending'["sender"][s]) = Len(pending["sender"][s]) - 1
      /\ UNCHANGED arguments /\ sent' = sent /\ answered' = answered
      /\ counter' = counter /\ known' = known
  BY <1>1, <1>2, Delivered DEF Kinds
<1>5. Counts BY <1>1, Naturals
<1>16. /\ UNCHANGED arguments /\ protocol' = protocol /\ n' = n /\ Queues' = Queues
       /\ sent' = sent /\ answered' = answered /\ known' = known
       /\ counter'["sender"] = counter["sender"] /\ counter'["catcher"] = counter["catcher"]
  BY <1>4 DEF arguments, Queues
<1>6. /\ s = "sig1" => Waiting1("sender") > 0 /\ Waiting1("sender")' = Waiting1("sender") - 1
                       /\ Waiting2("sender")' = Waiting2("sender")
      /\ s = "sig2" => Waiting2("sender") > 0 /\ Waiting2("sender")' = Waiting2("sender") - 1
                       /\ Waiting1("sender")' = Waiting1("sender")
      /\ Waiting1("catcher")' = Waiting1("catcher") /\ Waiting2("catcher")' = Waiting2("catcher")
  <2>1. pending["sender"][s] \in Seq(0 .. n) BY <1>1, <1>2 DEF Types
  <2>2. Len(pending["sender"][s]) # 0 /\ Len(pending["sender"][s]) \in Nat BY <1>4, <2>1
  <2>3. \A k \in Nat : k # 0 => k > 0 OBVIOUS
  <2>4. Len(pending["sender"][s]) > 0 BY <2>2, <2>3
  <2> QED BY <1>4, <2>4, Zenon DEF Waiting1, Waiting2
<1>7. Stays("catcher") /\ Differs("sender", "none", s) BY <1>1, <1>2, <1>3, NumbersChange
<1>8. /\ s = "sig1" => Newly("sender")' = Newly("sender") + 1
                       /\ Ending("sender")' = Ending("sender")
      /\ s = "sig2" => Newly("sender")' = Newly("sender")
                       /\ Ending("sender")' = Ending("sender") + 1
  BY <1>5, <1>7 DEF Differs, One, New, Counts, AreNumbers
<1>9. /\ MainAt("sender")' \in Sending <=> MainAt("sender") \in Sending
      /\ MainAt("sender")' = "send" => MainAt("sender") \in {"send", "waitsForAnswer"}
  BY <1>1, <1>3, SendingStays
<1>10. Types' BY <1>1, <1>3, <1>4 DEF Types, Change, arguments, FrameSet
<1>11. Depth' BY <1>1, <1>4, <1>7 DEF Numbers, Depth, arguments, Stays
<1>12. Known' BY <1>1, <1>4, <1>7 DEF Numbers, Known, Stays
<1>13. Final BY <1>2, <1>3, <1>4, Persists DEF Ended, At, Deliver
<1>14. Numbers'
  <2>1. CASE s = "sig1"
    <3>1. OneToken'
      BY <1>1, <1>6, <1>7, <1>8, <1>9, <2>1 DEF Numbers, OneToken, Token, Stays
    <3>0. /\ Waiting1("sender") > 0 /\ Waiting1("sender")' = Waiting1("sender") - 1
          /\ Waiting1("catcher")' = Waiting1("catcher")
          /\ Newly("sender")' = Newly("sender") + 1 /\ Newly("catcher")' = Newly("catcher")
      BY <1>6, <1>7, <1>8, <2>1 DEF Stays
    <3>2. Merged'
      <4>1. Sound(answered, "sender")'
        <5>1. Sound(answered, "sender") BY <1>1 DEF Numbers, Merged
        <5> QED BY <1>5, <1>13, <1>16, <3>0, <5>1
                DEF Sound, Arrived, Exact, Counts, AreNumbers, Final
      <4>2. Sound(sent, "catcher")'
        BY <1>1, <1>13, <1>16, <3>0 DEF Numbers, Merged, Sound, Arrived, Exact, Final
      <4> QED BY <1>1, <1>16, <1>5, <3>0, <4>1, <4>2
              DEF Numbers, Merged, Counts, AreNumbers
    <3>3. MainAt("sender")' \notin Sending => sent' = n' /\ (protocol' = "handshake" => counter'["sender"] = n')
      BY <1>1, <1>16, <1>9 DEF Numbers, Round, arguments
    <3>4. protocol = "handshake" => counter["sender"] + Newly("sender") + 1 <= sent
      <4> SUFFICES ASSUME protocol = "handshake"
                   PROVE  counter["sender"] + Newly("sender") + 1 <= sent
        OBVIOUS
      <4>1. counter["sender"] + Newly("sender") + Waiting1("sender") <= answered
        BY <1>1, <1>5 DEF Numbers, Merged, Sound, Arrived, Counts, AreNumbers
      <4>2. answered <= counter["catcher"] BY <1>1, <1>5 DEF Numbers, Depth, Counts, AreNumbers
      <4>3. counter["catcher"] <= sent
        BY <1>1, <1>5 DEF Numbers, Merged, Sound, Arrived, Counts, AreNumbers
      <4> QED BY <1>5, <1>6, <2>1, <4>1, <4>2, <4>3 DEF Counts, AreNumbers
    <3>5. ASSUME protocol = "handshake", MainAt("sender") \in Sending
          PROVE  counter["sender"] + Newly("sender") + 1 >= sent /\ MainAt("sender") # "send"
      <4>1. /\ counter["sender"] + Newly("sender") + 1 >= sent
            /\ MainAt("sender") = "send" => counter["sender"] + Newly("sender") = sent
        BY <1>1, <3>5 DEF Numbers, Round, Arrived
      <4> QED BY <1>5, <3>4, <3>5, <4>1 DEF Counts, AreNumbers
    <3>6. Round'
      <4> SUFFICES ASSUME protocol = "handshake", MainAt("sender")' \in Sending
                   PROVE  (Arrived("sender") = sent)'
        <5>1. sent' \in Nat BY <1>16, <1>5 DEF Counts
        <5>2. \A k \in Nat : k + 1 >= k OBVIOUS
        <5>3. sent' + 1 >= sent' BY <5>1, <5>2
        <5>4. ASSUME protocol' = "handshake", MainAt("sender")' \in Sending
              PROVE  Arrived("sender")' = sent' /\ Arrived("sender")' + 1 >= sent'
          BY <1>16, <5>3, <5>4
        <5>5. MainAt("sender")' \notin Sending => sent' = n' BY <3>3
        <5>6. "send" \in Sending BY DEF Sending
        <5> QED BY <3>3, <5>4, <5>5, <5>6, Zenon DEF Round
      <4>1. counter["sender"] + Newly("sender") + 1 = sent
        BY <1>5, <1>9, <3>4, <3>5 DEF Counts, AreNumbers
      <4>2. counter'["sender"] = counter["sender"] BY <1>4
      <4> QED BY <1>16, <1>5, <3>0, <4>1, <4>2 DEF Arrived, Counts, AreNumbers
    <3> QED BY <1>11, <1>12, <3>1, <3>2, <3>6 DEF Numbers
  <2>2. CASE s = "sig2"
    <3>1. OneToken'
      BY <1>1, <1>5, <1>6, <1>7, <1>8, <1>9, <2>2
      DEF Numbers, OneToken, Token, Stays, Counts, AreNumbers
    <3>2. Merged'
      BY <1>1, <1>13, <1>16, <1>6, <1>7, <1>8, <2>2
      DEF Numbers, Merged, Sound, Arrived, Stays, Exact, Final
    <3>3. MainAt("sender") \notin Sending
      BY <1>1, <1>5, <1>6, <2>2 DEF Numbers, OneToken, Token, Counts, AreNumbers
    <3>4. MainAt("sender")' # "send" BY <1>9, <3>3 DEF Sending
    <3>5. Round' BY <1>1, <1>16, <1>9, <3>3, <3>4 DEF Numbers, Round, arguments
    <3> QED BY <1>11, <1>12, <3>1, <3>2, <3>5 DEF Numbers
  <2> QED BY <2>1, <2>2 DEF Kinds
<1>15. Settled' BY <1>1, <1>5, SenderInterrupted DEF Numbers
<1> QED BY <1>3, <1>10, <1>14, <1>15 DEF IInv, Change, Numbers

\* A signal interrupts the catcher.
LEMMA CatcherDeliveryKeeps ==
    ASSUME IInv, NEW s \in Kinds, Deliver("catcher", s)
    PROVE  IInv'
<1>1. Types /\ Stacks /\ Numbers /\ Settled BY DEF IInv, Numbers
<1>2. "sender" \in Processes /\ "catcher" \in Processes /\ "sender" # "catcher"
      /\ "sig1" \in Kinds /\ "sig2" \in Kinds /\ "sig1" # "sig2"
  BY DEF Processes, Kinds
<1>3. /\ Change("catcher", "none", s) /\ Len(stack'["catcher"]) = Len(stack["catcher"]) + 1
  BY <1>1, <1>2, Interrupting
<1>4. /\ pending' \in [Processes -> [Kinds -> Seq(0 .. n)]]
      /\ pending'["sender"] = pending["sender"]
      /\ s = "sig1" => pending'["catcher"]["sig2"] = pending["catcher"]["sig2"]
      /\ s = "sig2" => pending'["catcher"]["sig1"] = pending["catcher"]["sig1"]
      /\ pending["catcher"][s] # <<>>
      /\ Len(pending'["catcher"][s]) = Len(pending["catcher"][s]) - 1
      /\ UNCHANGED arguments /\ sent' = sent /\ answered' = answered
      /\ counter' = counter /\ known' = known
  BY <1>1, <1>2, Delivered DEF Kinds
<1>5. Counts BY <1>1, Naturals
<1>16. /\ UNCHANGED arguments /\ protocol' = protocol /\ n' = n /\ Queues' = Queues
       /\ sent' = sent /\ answered' = answered /\ known' = known
       /\ counter'["sender"] = counter["sender"] /\ counter'["catcher"] = counter["catcher"]
  BY <1>4 DEF arguments, Queues
<1>6. /\ s = "sig1" => Waiting1("catcher") > 0 /\ Waiting1("catcher")' = Waiting1("catcher") - 1
                       /\ Waiting2("catcher")' = Waiting2("catcher")
      /\ s = "sig2" => Waiting2("catcher") > 0 /\ Waiting2("catcher")' = Waiting2("catcher") - 1
                       /\ Waiting1("catcher")' = Waiting1("catcher")
      /\ Waiting1("sender")' = Waiting1("sender") /\ Waiting2("sender")' = Waiting2("sender")
  <2>1. pending["catcher"][s] \in Seq(0 .. n) BY <1>1, <1>2 DEF Types
  <2>2. Len(pending["catcher"][s]) # 0 /\ Len(pending["catcher"][s]) \in Nat BY <1>4, <2>1
  <2>3. \A k \in Nat : k # 0 => k > 0 OBVIOUS
  <2>4. Len(pending["catcher"][s]) > 0 BY <2>2, <2>3
  <2> QED BY <1>4, <2>4, Zenon DEF Waiting1, Waiting2
<1>7. Stays("sender") /\ Differs("catcher", "none", s) BY <1>1, <1>2, <1>3, NumbersChange
<1>8. /\ s = "sig1" => Newly("catcher")' = Newly("catcher") + 1
                       /\ Ending("catcher")' = Ending("catcher")
      /\ s = "sig2" => Newly("catcher")' = Newly("catcher")
                       /\ Ending("catcher")' = Ending("catcher") + 1
      /\ Counting("catcher")' = Counting("catcher") /\ Answering("catcher")' = Answering("catcher")
      /\ Inside("catcher")' = Inside("catcher") /\ Height("catcher")' = Height("catcher") + 1
  BY <1>2, <1>3, <1>5, <1>7 DEF Differs, One, New, Counted, Counts, AreNumbers, Height, Kinds
<1>9. Types' BY <1>1, <1>3, <1>4 DEF Types, Change, arguments, FrameSet
<1>10. Round' BY <1>1, <1>4, <1>7 DEF Numbers, Round, Arrived, arguments, Stays
<1>11. Known' BY <1>1, <1>4, <1>8 DEF Numbers, Known
<1>12. Final BY <1>2, <1>3, <1>4, Persists DEF Ended, At, Deliver
<1>13. Numbers'
  <2>1. CASE s = "sig1"
    <3>1. OneToken' BY <1>1, <1>6, <1>7, <1>8, <2>1 DEF Numbers, OneToken, Token, Stays
    <3>0. /\ Waiting1("catcher") > 0 /\ Waiting1("catcher")' = Waiting1("catcher") - 1
          /\ Waiting1("sender")' = Waiting1("sender")
          /\ Newly("catcher")' = Newly("catcher") + 1 /\ Newly("sender")' = Newly("sender")
          /\ Ending("catcher")' = Ending("catcher") /\ Answering("catcher")' = Answering("catcher")
          /\ Inside("catcher")' = Inside("catcher") /\ Height("catcher")' = Height("catcher") + 1
      BY <1>6, <1>7, <1>8, <2>1 DEF Stays
    <3>2. Merged'
      <4>1. Sound(sent, "catcher")'
        BY <1>1, <1>12, <1>16, <1>5, <3>0
        DEF Numbers, Merged, Sound, Arrived, Exact, Counts, AreNumbers, Final
      <4>2. Sound(answered, "sender")'
        BY <1>1, <1>12, <1>16, <3>0 DEF Numbers, Merged, Sound, Arrived, Exact, Final
      <4> QED BY <1>1, <1>16, <1>5, <3>0, <4>1, <4>2
              DEF Numbers, Merged, Counts, AreNumbers
    <3>3. Depth' BY <1>1, <1>16, <1>5, <3>0 DEF Numbers, Depth, Counts, AreNumbers
    <3> QED BY <1>10, <1>11, <3>1, <3>2, <3>3 DEF Numbers
  <2>2. CASE s = "sig2"
    <3>1. OneToken'
      BY <1>1, <1>5, <1>6, <1>7, <1>8, <2>2
      DEF Numbers, OneToken, Token, Stays, Counts, AreNumbers
    <3>2. Merged'
      BY <1>1, <1>12, <1>16, <1>6, <1>7, <1>8, <2>2
      DEF Numbers, Merged, Sound, Arrived, Stays, Exact, Final
    <3>0. /\ Newly("catcher")' = Newly("catcher") /\ Ending("catcher")' = Ending("catcher") + 1
          /\ Answering("catcher")' = Answering("catcher")
          /\ Inside("catcher")' = Inside("catcher") /\ Height("catcher")' = Height("catcher") + 1
      BY <1>8, <2>2
    <3>3. Depth' BY <1>1, <1>16, <1>5, <3>0 DEF Numbers, Depth, Counts, AreNumbers
    <3> QED BY <1>10, <1>11, <3>1, <3>2, <3>3 DEF Numbers
  <2> QED BY <2>1, <2>2 DEF Kinds
<1>14. Settled' BY <1>1, <1>5, CatcherInterrupted DEF Numbers
<1> QED BY <1>3, <1>9, <1>13, <1>14 DEF IInv, Change, Numbers

------------------------------------------------------------------------------
(* The invariant *)

\* A stack of main alone has the frames that its line says.
LEMMA MainAlone ==
    ASSUME NEW f \in FrameSet, NEW S
    PROVE  /\ f.at \notin S => Size(<<f>>, S) = 0
           /\ <<f>> \in Seq(FrameSet) /\ Len(<<f>>) = 1 /\ <<f>>[1] = f
           /\ DOMAIN <<f>> = {1}
<1>1. <<f>> \in Seq(FrameSet) /\ Len(<<f>>) = 1 /\ <<f>>[1] = f /\ DOMAIN <<f>> = {1}
  OBVIOUS
<1>2. Size(<<f>>, S) = 0 <=> \A k \in DOMAIN <<f>> : <<f>>[k].at \notin S
  BY <1>1, SizeIsPositive, Zenon
<1> HIDE DEF FrameSet
<1> QED BY <1>1, <1>2

\* No handler runs, nothing waits and nothing is counted.
LEMMA Starts ==
    ASSUME Init
    PROVE  IInv
<1> USE SignalsAssumption
<1> DEFINE S0 == Frame("send", {}, 0)
           C0 == Frame("starts", {}, 0)
<1>0. /\ protocol \in {"burst", "handshake"} /\ mode \in {"KILL", "SIGQUEUE", "SIGRT"} /\ n \in Nat
      /\ sent = 0 /\ answered = 0 /\ known = FALSE
      /\ counter = [p \in Processes |-> 0]
      /\ pending = [p \in Processes |-> [s \in Kinds |-> <<>>]]
  BY DEF Init
<1>1. /\ S0 \in FrameSet /\ S0.at = "send" /\ C0 \in FrameSet /\ C0.at = "starts"
  BY <1>0 DEF Frame, FrameSet, Lines
<1>2. stack = [sender |-> <<S0>>, catcher |-> <<C0>>] BY DEF Init
<1> HIDE DEF S0, C0
<1>3. /\ <<S0>> \in Seq(FrameSet) /\ Len(<<S0>>) = 1 /\ <<S0>>[1] = S0 /\ DOMAIN <<S0>> = {1}
      /\ <<C0>> \in Seq(FrameSet) /\ Len(<<C0>>) = 1 /\ <<C0>>[1] = C0 /\ DOMAIN <<C0>> = {1}
      /\ \A S : "send" \notin S => Size(<<S0>>, S) = 0
      /\ \A S : "starts" \notin S => Size(<<C0>>, S) = 0
  BY ZenonT(60), <1>1, MainAlone
<1>4. stack["sender"] = <<S0>> /\ stack["catcher"] = <<C0>> BY <1>2
<1>5. stack \in [Processes -> Seq(FrameSet)]
  <2>1. \A x : x \in {"sender", "catcher"} <=> x \in Processes BY DEF Processes
  <2>2. DOMAIN stack = Processes BY <1>2, <2>1
  <2>3. stack = [p \in DOMAIN stack |-> stack[p]] BY <1>2
  <2>4. \A p \in Processes : stack[p] \in Seq(FrameSet) BY <1>3, <1>4 DEF Processes
  <2> QED BY <2>2, <2>3, <2>4, Zenon
<1>6. MainAt("sender") = "send" /\ MainAt("catcher") = "starts"
      /\ Height("sender") = 1 /\ Height("catcher") = 1
  BY <1>1, <1>3, <1>4 DEF MainAt, Height
<1>7. ASSUME NEW p \in Processes
      PROVE  /\ Newly(p) = 0 /\ Counting(p) = 0 /\ Inside(p) = 0 /\ Answering(p) = 0 /\ Ending(p) = 0
             /\ Running(p, Reporting) = 0
             /\ Waiting1(p) = 0 /\ Waiting2(p) = 0 /\ counter[p] = 0
             /\ pending[p]["sig1"] = <<>> /\ pending[p]["sig2"] = <<>>
  <2>1. \A S : "send" \notin S /\ "starts" \notin S => Running(p, S) = 0
    BY <1>3, <1>4 DEF Running, Processes
  <2>2. Newly(p) = 0 /\ Counting(p) = 0 BY <2>1 DEF Newly, Counting, New
  <2>3. Inside(p) = 0 /\ Answering(p) = 0 BY <2>1 DEF Inside, Answering, Counted
  <2>4. Ending(p) = 0 /\ Running(p, Reporting) = 0 BY <2>1 DEF Ending, Reporting
  <2>5. pending[p]["sig1"] = <<>> /\ pending[p]["sig2"] = <<>> BY <1>0 DEF Kinds
  <2>6. Waiting1(p) = 0 /\ Waiting2(p) = 0 BY <2>5 DEF Waiting1, Waiting2
  <2>7. counter[p] = 0 BY <1>0
  <2> QED BY <2>2, <2>3, <2>4, <2>5, <2>6, <2>7
<1>8. "sender" \in Processes /\ "catcher" \in Processes BY DEF Processes
<1>9. Types
  <2>1. pending \in [Processes -> [Kinds -> Seq(0 .. n)]] BY <1>0
  <2>2. counter \in [Processes -> 0 .. n] /\ sent \in 0 .. n /\ answered \in 0 .. n BY <1>0
  <2> QED BY <1>0, <1>5, <2>1, <2>2 DEF Types
<1>10. Stacks
  <2>1. "send" \in MainLines("sender") /\ "starts" \in MainLines("catcher")
    BY <1>8 DEF MainLines, Sending
  <2>2. <<S0>> # <<>> /\ <<C0>> # <<>> OBVIOUS
  <2>3. Shape("sender", <<S0>>) /\ Shape("catcher", <<C0>>)
    BY <1>1, <1>3, <2>1, <2>2 DEF Shape
  <2>4. Nested("sender", <<S0>>) /\ Nested("catcher", <<C0>>) BY <1>3 DEF Nested
  <2> QED BY <1>4, <2>3, <2>4 DEF Stacks, Processes
<1>11. Depth /\ OneToken /\ Known
  <2>1. Depth BY <1>0, <1>6, <1>7, <1>8 DEF Depth
  <2>2. OneToken BY <1>6, <1>7, <1>8 DEF OneToken, Token
  <2>3. Known BY <1>7, <1>8 DEF Known
  <2> QED BY <2>1, <2>2, <2>3
<1>12. Merged BY <1>0, <1>7, <1>8 DEF Merged, Sound, Arrived
<1>13. Round BY <1>0, <1>6, <1>7, <1>8 DEF Round, Arrived, Sending
<1>14. Settled
  <2>1. Frames(stack["catcher"], Reporting) = {} /\ Frames(stack["sender"], {"sig2"}) = {}
    <3>1. stack["catcher"] \in Seq(FrameSet) /\ stack["sender"] \in Seq(FrameSet)
      BY <1>3, <1>4
    <3>2. Size(stack["catcher"], Reporting) = 0 /\ Size(stack["sender"], {"sig2"}) = 0
      BY <1>7, <1>8 DEF Running, Ending
    <3> QED BY <3>1, <3>2, SizeIsPositive DEF Frames
  <2>2. Quiet BY <2>1 DEF Quiet
  <2>3. Answered /\ Values BY <1>7, <1>8, <2>1 DEF Answered, Values
  <2> QED BY <2>2, <2>3 DEF Settled
<1> QED BY <1>9, <1>10, <1>11, <1>12, <1>13, <1>14 DEF IInv

\* Every step keeps it.
LEMMA Steps ==
    ASSUME IInv, Next
    PROVE  IInv'
<1>0. "sig1" \in Kinds /\ "sig2" \in Kinds
      /\ "send" \in Lines /\ "hasSentOne" \in Lines /\ "hasSent" \in Lines
  BY DEF Kinds, Lines
<1>1. ASSUME Sender PROVE IInv'
  <2>1. CASE BurstSends
    <3>1. protocol = "burst" BY <2>1 DEF BurstSends
    <3>2. CASE sent < n
      <4>1. Sends("sig1", "send") BY <2>1, <3>2 DEF BurstSends
      <4> QED BY <1>0, <3>1, <3>2, <4>1, SendsKeeps
    <3>3. CASE ~(sent < n)
      <4>1. Sends("sig2", "hasSent") BY <2>1, <3>3 DEF BurstSends
      <4> QED BY <1>0, <3>3, <4>1, SendsKeeps
    <3> QED BY <3>2, <3>3
  <2>2. CASE HandshakeSends
    <3>1. protocol # "burst" BY <2>2 DEF HandshakeSends
    <3>2. CASE sent < n
      <4>1. Sends("sig1", "hasSentOne") BY <2>2, <3>2 DEF HandshakeSends
      <4> QED BY <1>0, <3>1, <3>2, <4>1, SendsKeeps
    <3>3. CASE ~(sent < n)
      <4>1. Sends("sig2", "hasSent") BY <2>2, <3>3 DEF HandshakeSends
      <4> QED BY <1>0, <3>3, <4>1, SendsKeeps
    <3> QED BY <3>2, <3>3
  <2>3. CASE SenderSuspends BY <2>3, SenderSuspendsKeeps
  <2>4. CASE SenderCounts BY <2>4, SenderCountsKeeps
  <2>5. CASE SenderReports BY <2>5, SenderReportsKeeps
  <2> QED BY <1>1, <2>1, <2>2, <2>3, <2>4, <2>5 DEF Sender
<1>2. ASSUME Catcher PROVE IInv'
  <2>1. CASE CatcherSuspends BY <2>1, CatcherSuspendsKeeps
  <2>2. CASE CatcherLearns BY <2>2, CatcherLearnsKeeps
  <2>3. CASE CatcherCounts BY <2>3, CatcherCountsKeeps
  <2>4. CASE CatcherAnswers BY <2>4, CatcherAnswersKeeps
  <2>5. CASE CatcherReturns BY <2>5, CatcherReturnsKeeps
  <2>6. CASE CatcherSendsBack
    <3>1. protocol = "burst" /\ UNCHANGED <<arguments, sent, counter, known, early>>
      BY <2>6 DEF CatcherSendsBack
    <3>2. CASE answered < counter["catcher"] /\ Goto("catcher", "sig2", "sig2")
               /\ Answer("sig1") /\ answered' = answered + 1
      BY <3>1, <3>2, CatcherSendsOneKeeps
    <3>3. CASE Goto("catcher", "sig2", "prints") /\ Answer("sig2") /\ UNCHANGED answered
      <4>1. UNCHANGED <<arguments, sent, answered, counter, known, early>> BY <3>1, <3>3
      <4> QED BY <3>1, <3>3, <4>1, CatcherSendsLastKeeps
    <3> QED BY <2>6, <3>2, <3>3 DEF CatcherSendsBack
  <2>7. CASE CatcherExits BY <2>7, CatcherExitsKeeps
  <2>8. CASE CatcherReplies BY <2>8, CatcherRepliesKeeps
  <2> QED BY <1>2, <2>1, <2>2, <2>3, <2>4, <2>5, <2>6, <2>7, <2>8 DEF Catcher
<1>3. ASSUME NEW p \in Processes, Delivery(p) PROVE IInv'
  <2>1. PICK s \in Kinds : Deliver(p, s) BY <1>3 DEF Delivery
  <2>2. p = "sender" \/ p = "catcher" BY DEF Processes
  <2> QED BY <2>1, <2>2, SenderDeliveryKeeps, CatcherDeliveryKeeps
<1> QED BY <1>1, <1>2, <1>3 DEF Next

\* ... and so does one that changes nothing.
LEMMA Stutters ==
    ASSUME IInv, UNCHANGED vars
    PROVE  IInv'
<1>1. /\ UNCHANGED arguments /\ UNCHANGED counts /\ pending' = pending /\ stack' = stack
      /\ protocol' = protocol /\ mode' = mode /\ n' = n
      /\ sent' = sent /\ answered' = answered /\ counter' = counter /\ known' = known
  BY DEF vars, arguments, counts
<1>2. Types' BY <1>1 DEF IInv, Types, FrameSet
<1>3. Stacks' BY <1>1 DEF IInv, Stacks, Shape, Nested, MainLines, HandlerLines, FrameSet
<1>4. \A p \in Processes : Stays(p) /\ Waiting1(p)' = Waiting1(p) /\ Waiting2(p)' = Waiting2(p)
  BY <1>1 DEF Stays, MainAt, Height, Newly, Counting, Inside, Answering, Ending, Running,
              New, Counted, Waiting1, Waiting2
<1>5. "sender" \in Processes /\ "catcher" \in Processes BY DEF Processes
<1>6. Depth' BY <1>1, <1>4, <1>5 DEF IInv, Depth, Stays
<1>7. OneToken' BY <1>1, <1>4, <1>5 DEF IInv, OneToken, Token, Stays
<1>8. Merged'
  BY <1>1, <1>4, <1>5
  DEF IInv, Merged, Sound, Arrived, Exact, Queues, Stays, HasExited, Ended, At, Top
<1>9. Known' BY <1>1, <1>4, <1>5 DEF IInv, Known, Stays
<1>10. Round' BY <1>1, <1>4, <1>5 DEF IInv, Round, Arrived, Stays
<1>11. Settled'
  <2>1. Quiet' <=> Quiet BY <1>1, <1>4, <1>5 DEF Quiet, Reports, Stays, Reporting
  <2>2. Answered' <=> Answered BY <1>1, <1>4, <1>5 DEF Answered, Top, Stays
  <2>3. Values' <=> Values BY <1>1 DEF Values
  <2> QED BY <1>1, <2>1, <2>2, <2>3 DEF IInv, Settled
<1> QED BY <1>2, <1>3, <1>6, <1>7, <1>8, <1>9, <1>10, <1>11 DEF IInv

\* The invariant holds: handlers nest as the masks allow, one sig2 is under way
\* at most, every sig1 is waiting, being counted or counted, and what a process
\* reports is settled.
THEOREM Invariance == Spec => []IInv
<1>1. Init => IInv BY Starts
<1>2. IInv /\ [Next]_vars => IInv' BY Steps, Stutters
<1> QED BY <1>1, <1>2, PTL DEF Spec

------------------------------------------------------------------------------
(* The properties *)

\* The invariant bounds what waits and how high handlers nest.
LEMMA Bounds ==
    ASSUME IInv
    PROVE  TypeOK
<1>1. Types /\ Stacks /\ Depth /\ OneToken /\ Merged BY DEF IInv
<1>2. Counts BY <1>1, Naturals
<1>3. "sender" \in Processes /\ "catcher" \in Processes BY DEF Processes
<1>4. Waiting2("sender") <= 1 /\ Waiting2("catcher") <= 1 /\ Ending("catcher") <= 1
  <2> DEFINE b == IF MainAt("sender") \in Sending THEN 1 ELSE 0
  <2>1. b \in Nat /\ b + Waiting2("catcher") + Ending("catcher") + Waiting2("sender") + Ending("sender") <= 1
    BY <1>1 DEF OneToken, Token
  <2> HIDE DEF b
  <2> QED BY <1>2, <2>1 DEF Counts, AreNumbers
<1>5. Waiting1("sender") <= n /\ Waiting1("catcher") <= n
      /\ Newly("catcher") + counter["catcher"] <= n
  BY <1>1, <1>2 DEF Merged, Sound, Arrived, Counts, AreNumbers
<1>6. ~Queues => Waiting1("sender") <= 1 /\ Waiting1("catcher") <= 1 BY <1>1 DEF Merged
<1>7. ASSUME NEW p \in Processes, NEW s \in Kinds
      PROVE  /\ pending[p][s] \in Seq(0 .. n)
             /\ Len(pending[p][s]) <= IF Queues /\ s = "sig1" THEN n ELSE 1
  <2>1. pending[p][s] \in Seq(0 .. n) BY <1>1 DEF Types
  <2>2. CASE s = "sig1"
    <3>1. Waiting1(p) <= n /\ (~Queues => Waiting1(p) <= 1) BY <1>5, <1>6 DEF Processes
    <3> QED BY <2>1, <2>2, <3>1 DEF Waiting1
  <2>3. CASE s = "sig2"
    <3>1. Waiting2(p) <= 1 BY <1>4 DEF Processes
    <3>2. s # "sig1" BY <2>3
    <3> QED BY <2>1, <2>3, <3>1, <3>2 DEF Waiting2
  <2> QED BY <2>2, <2>3 DEF Kinds
<1>8. ASSUME NEW p \in Processes
      PROVE  Len(stack[p]) <= 1 + (IF protocol = "burst" \/ p = "sender" THEN 2 ELSE n + 1)
  <2>1. CASE protocol = "burst" \/ p = "sender" BY <1>1, <2>1 DEF Stacks, Nested
  <2>2. CASE ~(protocol = "burst" \/ p = "sender")
    <3>1. protocol = "handshake" /\ p = "catcher" BY <1>1, <2>2 DEF Types, Processes
    <3>2. /\ Height("catcher") = 1 + Newly("catcher") + Inside("catcher") + Ending("catcher")
          /\ Inside("catcher") <= counter["catcher"]
      BY <1>1, <3>1 DEF Depth
    <3>3. Height("catcher") <= 1 + (n + 1) BY <1>2, <1>4, <1>5, <3>2 DEF Counts, AreNumbers
    <3> QED BY <2>2, <3>1, <3>3 DEF Height
  <2> QED BY <2>1, <2>2
<1>9. \A p \in Processes : stack[p] \in Seq([at : Lines, mask : SUBSET Kinds, value : 0 .. n])
  BY <1>1 DEF Types, FrameSet
<1>10. sent \in 0 .. n /\ answered \in 0 .. n /\ counter \in [Processes -> 0 .. n]
  BY <1>1 DEF Types
<1> QED BY <1>7, <1>8, <1>9, <1>10 DEF TypeOK

\* For every number of signals: when they queue, and in zad3b in every mode, each
\* sig1 that was sent is counted, being counted or waiting, on both sides, as long
\* as the process it was sent to has not exited; and handlers never nest further
\* than one for each signal.
THEOREM SignalsArrive == Spec => []NothingMerges
<1>1. ASSUME IInv PROVE NothingMerges
  <2>1. TypeOK BY <1>1, Bounds
  <2>2. Merged /\ Types BY <1>1 DEF IInv
  <2>3. Counts BY <2>2, Naturals
  <2>4. Uncounted("sender") = Newly("sender") /\ Uncounted("catcher") = Newly("catcher")
    BY DEF Uncounted, Newly, Running, Size, Frames, New
  <2>5. ASSUME Queues \/ protocol = "handshake"
        PROVE  /\ HasExited("catcher") \/ sent = counter["catcher"] + Uncounted("catcher")
                                                + Len(pending["catcher"]["sig1"])
               /\ HasExited("sender") \/ answered = counter["sender"] + Uncounted("sender")
                                                   + Len(pending["sender"]["sig1"])
    <3>1. /\ HasExited("catcher")
             \/ counter["catcher"] + Newly("catcher") + Waiting1("catcher") = sent
          /\ HasExited("sender")
             \/ counter["sender"] + Newly("sender") + Waiting1("sender") = answered
      BY <2>2, <2>5 DEF Merged, Sound, Exact, Arrived
    <3> QED BY <2>4, <3>1 DEF Waiting1
  <2> QED BY <2>1, <2>5 DEF NothingMerges
<1> QED BY <1>1, Invariance, PTL

\* What the sender prints is true: in zad3b all n signals have come to the catcher
\* and back, and in zad3a the count that came with sig2 is the final one.
THEOREM ReportsHold == Spec => []ReportsAreTrue
<1>1. ASSUME IInv PROVE ReportsAreTrue
  <2> SUFFICES ASSUME At("sender", "sig2") PROVE ReportsAreTrue BY DEF ReportsAreTrue
  <2>1. Types /\ Stacks /\ Depth /\ OneToken /\ Merged /\ Round /\ Settled BY <1>1 DEF IInv
  <2>2. Counts BY <2>1, Naturals
  <2>3. "sender" \in Processes /\ Top("sender").at = "sig2" BY DEF Processes, At
  <2>4. ASSUME protocol = "handshake"
        PROVE  counter["sender"] = n /\ counter["catcher"] = n
    <3>1. Ending("sender") > 0 BY <2>1, <2>3, TopCounts DEF Ending
    <3>2. MainAt("sender") \notin Sending
      BY <2>1, <2>2, <3>1 DEF OneToken, Token, Counts, AreNumbers
    <3>3. counter["sender"] = n BY <2>1, <2>4, <3>2 DEF Round
    <3>4. counter["sender"] <= answered
      BY <2>1, <2>2 DEF Merged, Sound, Arrived, Counts, AreNumbers
    <3>5. answered <= counter["catcher"] BY <2>1, <2>2, <2>4 DEF Depth, Counts, AreNumbers
    <3> QED BY <2>2, <3>3, <3>4, <3>5 DEF Counts, AreNumbers
  <2>5. ASSUME protocol = "burst", mode = "SIGQUEUE"
        PROVE  Top("sender").value = counter["catcher"]
    <3>1. Values BY <2>1, <2>5 DEF Settled
    <3>2. stack["sender"] \in Seq(FrameSet) /\ stack["sender"] # <<>>
      BY <2>1, <2>3 DEF Stacks, Shape
    <3>3. Len(stack["sender"]) \in DOMAIN stack["sender"] BY <3>2
    <3>4. Len(stack["sender"]) \in Frames(stack["sender"], {"sig2"})
      BY <2>3, <3>3 DEF Frames, Top, Last
    <3> QED BY <3>1, <3>4 DEF Values, Top, Last
  <2> QED BY <2>4, <2>5 DEF ReportsAreTrue
<1> QED BY <1>1, Invariance, PTL

==============================================================================
