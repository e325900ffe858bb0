------------------------------ MODULE Negative ------------------------------
(* lab8/zad1: threads compute the negative of an image.  In mode "numbers"    *)
(* each thread goes through the whole image and inverts the pixels of its     *)
(* range of values; in mode "blocks" it inverts the columns of its range.     *)
EXTENDS Integers

CONSTANTS
    Height, Width,  \* of the image
    Levels,         \* 256 in the code: pixels are 0 .. Levels - 1
    MaxThreads      \* bound: threads to start

ASSUME NegativeAssumption ==
    /\ Height \in Nat /\ Width \in Nat
    /\ Levels \in Nat \ {0}
    /\ MaxThreads \in Nat \ {0}

Pixels == (0 .. Height - 1) \X (0 .. Width - 1)
Images == [Pixels -> 0 .. Levels - 1]

VARIABLES
    mode, num_threads,  \* arguments of the program
    input_image, output_image,
    todo,               \* the pixels each thread has not come to
    created, joined,    \* threads main has started, and waited for
    saved               \* whether main has written output_image

arguments == <<mode, num_threads, input_image>>
vars == <<arguments, output_image, todo, created, joined, saved>>

Threads == 0 .. num_threads - 1

Init ==
    /\ mode \in {"numbers", "blocks"}
    /\ num_threads \in 1 .. MaxThreads
    /\ input_image \in Images
    /\ output_image = [p \in Pixels |-> 0]
    /\ todo = [t \in Threads |-> {}]
    /\ created = 0 /\ joined = 0
    /\ saved = FALSE

(* The range of a thread: the last one takes what the division leaves over.   *)
Whole == IF mode = "numbers" THEN Levels ELSE Width
range_size == Whole \div num_threads
lower_limit(t) == t * range_size

(* Not in the code: all ranges have the same size.                            *)
EvenLimit(t) == (t + 1) * range_size

upper_limit(t) == IF t = num_threads - 1 THEN Whole ELSE (t + 1) * range_size

InRange(t, x) == lower_limit(t) <= x /\ x < upper_limit(t)

Invert(x) == Levels - 1 - x

-----------------------------------------------------------------------------
(* The pixels the loops of a thread visit, and the order in which they do.    *)
Visits(t) == IF mode = "numbers" THEN Pixels ELSE {p \in Pixels : InRange(t, p[2])}

Before(p, q) == p[1] < q[1] \/ (p[1] = q[1] /\ p[2] < q[2])

(* main: invert_colors creates the threads and joins them, save_image writes. *)
CreateThread ==
    /\ created < num_threads
    /\ created' = created + 1
    /\ todo' = [todo EXCEPT ![created] = Visits(created)]
    /\ UNCHANGED <<arguments, output_image, joined, saved>>

JoinThread ==
    /\ created = num_threads /\ joined < num_threads
    /\ todo[joined] = {}
    /\ joined' = joined + 1
    /\ UNCHANGED <<arguments, output_image, todo, created, saved>>

SaveImage ==
    /\ joined = num_threads /\ ~saved
    /\ saved' = TRUE
    /\ UNCHANGED <<arguments, output_image, todo, created, joined>>

(* numbers and blocks: the next pixel in the thread's loops.                  *)
VisitPixel(t) ==
    \E p \in todo[t] :
        /\ \A q \in todo[t] : ~Before(q, p)
        /\ todo' = [todo EXCEPT ![t] = @ \ {p}]
        /\ output_image' =
             IF mode = "blocks" \/ InRange(t, input_image[p])
             THEN [output_image EXCEPT ![p] = Invert(input_image[p])]
             ELSE output_image
        /\ UNCHANGED <<arguments, created, joined, saved>>

Next == CreateThread \/ JoinThread \/ SaveImage \/ \E t \in Threads : VisitPixel(t)

Spec == Init /\ [][Next]_vars

-----------------------------------------------------------------------------
(* A thread works only between its creation and its join, within the image,   *)
(* and every inverted value is one a pixel can have.                          *)
TypeOK ==
    /\ mode \in {"numbers", "blocks"}
    /\ num_threads \in Nat \ {0}
    /\ input_image \in Images /\ output_image \in Images
    /\ todo \in [Threads -> SUBSET Pixels]
    /\ created \in 0 .. num_threads /\ joined \in 0 .. num_threads
    /\ joined > 0 => created = num_threads
    /\ saved \in BOOLEAN /\ (saved => joined = num_threads)
    /\ \A t \in Threads : todo[t] # {} => joined <= t /\ t < created

(* Whatever the number of threads - more than columns or values, or one that  *)
(* does not divide them - and whatever their order, the image that is saved   *)
(* is the negative of the whole input.                                        *)
SavedIsNegative ==
    saved => output_image = [p \in Pixels |-> Invert(input_image[p])]
==============================================================================
