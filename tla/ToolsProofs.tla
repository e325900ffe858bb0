------------------------------ MODULE ToolsProofs ------------------------------
(* The smaller programs, for any arguments.  Of any image and with any number *)
(* of threads, the image that is saved is the negative of the input.  Of any  *)
(* strips and with any number of children, the integral that is printed has   *)
(* every strip as often as it should.  After any options, a block on the heap *)
(* is in one entry of the table.  In any script, the shell forgets a          *)
(* descriptor for each command but the last of a line, and no others.  In any *)
(* tree of directories, the search prints the files in reach that it should.  *)
EXTENDS Negative, Integrals, Blocks, Pipelines, Searches, Sequences, FiniteSetTheorems,
        WellFoundedInduction, TLAPS

(* The ranges that a division into m parts makes leave nothing out: each of   *)
(* the first w numbers is in the range of some part (invert_colors, lines     *)
(* 68-74 and 80-86).                                                          *)
LEMMA Cover ==
  ASSUME NEW m \in Nat \ {0}, NEW w \in Nat, NEW x \in 0 .. w - 1
  PROVE  \E t \in 0 .. m - 1 :
           /\ t * (w \div m) <= x
           /\ x < IF t = m - 1 THEN w ELSE (t + 1) * (w \div m)
<1> DEFINE s == w \div m
           q == x \div s
<1>1. s \in Nat
  OBVIOUS
<1>2. CASE s = 0
  <2>1. m - 1 \in 0 .. m - 1
    OBVIOUS
  <2>2. (m - 1) * s <= x /\ x < w
    BY <1>2
  <2> QED
    BY <2>1, <2>2
<1>3. CASE s # 0
  <2> HIDE DEF s
  <2>1. s \in Nat /\ s > 0 /\ x \in Nat
    BY <1>1, <1>3
  <2>2. /\ q \in Nat
        /\ q * s <= x
        /\ x < (q + 1) * s
    BY <2>1
  <2> HIDE DEF q
  <2>3. CASE q < m - 1
    <3>1. q \in 0 .. m - 1 /\ q # m - 1
      BY <2>2, <2>3
    <3> QED
      BY <3>1, <2>2 DEF s
  <2>4. CASE q >= m - 1
    <3>1. m - 1 \in 0 .. m - 1 /\ x < w
      OBVIOUS
    <3>2. (m - 1) * s <= q * s
      BY <2>1, <2>2, <2>4
    <3>3. (m - 1) * s \in Int /\ q * s \in Int
      BY <2>1, <2>2
    <3>4. (m - 1) * s <= x
      BY <3>2, <3>3, <2>1, <2>2
    <3> QED
      BY <3>1, <3>4 DEF s
  <2> QED
    BY <2>2, <2>3, <2>4
<1> QED
  BY <1>2, <1>3

-------------------------------------------------------------------------------
(* The pixels that a thread has to write, visited or not.                     *)
Writes(t, p) ==
  IF mode = "numbers" THEN InRange(t, input_image[p]) ELSE InRange(t, p[2])

(* A thread visits only what it should, and what it has written stays right:  *)
(* whoever writes a pixel writes the same.                                    *)
Done ==
  \A t \in Threads :
    /\ todo[t] \subseteq Visits(t)
    /\ t < created =>
         \A p \in Pixels : 
           Writes(t, p) /\ p \notin todo[t] => output_image[p] = Invert(input_image[p])

IInv == TypeOK /\ Done

\* The negative of a level is a level.
LEMMA InvertType ==
  ASSUME NEW x \in 0 .. Levels - 1
  PROVE  Invert(x) \in 0 .. Levels - 1
  BY NegativeAssumption DEF Invert

(* What a division into ranges covers: every pixel has a thread to write it.  *)
LEMMA EveryPixel ==
  ASSUME TypeOK, NEW p \in Pixels
  PROVE  \E t \in Threads : Writes(t, p)
<1>1. num_threads \in Nat \ {0}
  BY DEF TypeOK
<1>2. CASE mode = "numbers"
  <2>1. input_image[p] \in 0 .. Levels - 1
    BY DEF TypeOK, Images
  <2> QED
    BY <1>1, <1>2, <2>1, Cover, NegativeAssumption
    DEF Threads, Writes, InRange, lower_limit, upper_limit, range_size, Whole
<1>3. CASE mode # "numbers"
  <2>1. p[2] \in 0 .. Width - 1
    BY DEF Pixels
  <2> QED
    BY <1>1, <1>3, <2>1, Cover, NegativeAssumption
    DEF Threads, Writes, InRange, lower_limit, upper_limit, range_size, Whole
<1> QED
  BY <1>2, <1>3

\* The invariant holds before the threads are created.
LEMMA InitInv == Init => IInv
<1> SUFFICES ASSUME Init PROVE IInv
  OBVIOUS
<1>1. num_threads \in Nat \ {0}
  BY NegativeAssumption DEF Init
<1>2. output_image \in Images
  BY NegativeAssumption DEF Init, Images
<1>3. TypeOK
  <2>1. todo \in [Threads -> SUBSET Pixels] /\ \A t \in Threads : todo[t] = {}
    BY DEF Init
  <2>2. created \in 0 .. num_threads /\ joined \in 0 .. num_threads /\ joined = 0
    BY <1>1 DEF Init
  <2>3. saved \in BOOLEAN /\ (saved => joined = num_threads)
    BY ZenonT(20) DEF Init
  <2>4. mode \in {"numbers", "blocks"} /\ input_image \in Images
    BY DEF Init
  <2> QED
    BY <1>1, <1>2, <2>1, <2>2, <2>3, <2>4 DEF TypeOK
<1>4. Done
  BY <1>1 DEF Init, Done, Threads
<1> QED
  BY <1>3, <1>4 DEF IInv

\* Every step keeps the invariant.
LEMMA StepInv == IInv /\ [Next]_vars => IInv'
<1> SUFFICES ASSUME IInv, [Next]_vars PROVE IInv'
  OBVIOUS
<1> USE DEF IInv
<1>0. num_threads \in Nat \ {0}
  BY DEF TypeOK
<1>1. CASE CreateThread
  <2>1. created \in Threads /\ created \in Nat /\ todo[created] = {}
    BY <1>0, <1>1 DEF CreateThread, TypeOK, Threads
  <2>2. Visits(created) \subseteq Pixels
    BY DEF Visits
  <2>3. TypeOK'
    BY <1>0, <1>1, <2>1, <2>2 DEF CreateThread, TypeOK, Threads, arguments
  <2>4. ASSUME NEW t \in Threads, t < created + 1, NEW p \in Pixels,
               Writes(t, p), p \notin todo'[t]
        PROVE  output_image[p] = Invert(input_image[p])
    <3>1. CASE t = created
      <4>1. todo'[t] = Visits(t)
        BY <1>1, <2>1, <3>1 DEF CreateThread, TypeOK
      <4>2. p \in Visits(t)
        BY <2>4 DEF Visits, Writes
      <4> QED
        BY <2>4, <4>1, <4>2
    <3>2. CASE t # created
      <4>1. t < created /\ todo'[t] = todo[t]
        BY <1>0, <1>1, <2>1, <2>4, <3>2 DEF CreateThread, TypeOK, Threads
      <4> QED
        BY <2>4, <4>1 DEF Done
    <3> QED
      BY <3>1, <3>2
  <2>5. \A t \in Threads : todo'[t] \subseteq Visits(t)
    BY <1>1, <2>1 DEF CreateThread, TypeOK, Done
  <2>6. Done'
    BY <1>1, <2>4, <2>5
    DEF CreateThread, Done, arguments, Threads, Visits, Writes, InRange,
        lower_limit, upper_limit, range_size, Whole, Invert
  <2> QED
    BY <2>3, <2>6
<1>2. CASE JoinThread
  <2>1. TypeOK'
    BY <1>0, <1>2 DEF JoinThread, TypeOK, Threads, arguments
  <2>2. Done'
    BY <1>2
    DEF JoinThread, Done, arguments, Threads, Visits, Writes, InRange,
        lower_limit, upper_limit, range_size, Whole, Invert
  <2> QED
    BY <2>1, <2>2
<1>3. CASE SaveImage
  <2>1. TypeOK'
    BY <1>0, <1>3 DEF SaveImage, TypeOK, Threads, arguments
  <2>2. Done'
    BY <1>3
    DEF SaveImage, Done, arguments, Threads, Visits, Writes, InRange,
        lower_limit, upper_limit, range_size, Whole, Invert
  <2> QED
    BY <2>1, <2>2
<1>4. ASSUME NEW u \in Threads, VisitPixel(u) PROVE IInv'
  <2>1. PICK p \in todo[u] :
          /\ todo' = [todo EXCEPT ![u] = @ \ {p}]
          /\ output_image' =
               IF mode = "blocks" \/ InRange(u, input_image[p])
               THEN [output_image EXCEPT ![p] = Invert(input_image[p])]
               ELSE output_image
    BY <1>4 DEF VisitPixel
  <2>2. UNCHANGED <<mode, num_threads, input_image, created, joined, saved>>
    BY <1>4 DEF VisitPixel, arguments
  <2>3. p \in Pixels /\ p \in Visits(u)
    BY <2>1 DEF TypeOK, Done
  <2>4. Invert(input_image[p]) \in 0 .. Levels - 1
    BY <2>3, InvertType DEF TypeOK, Images
  <2>5. output_image' \in Images
    BY <2>1, <2>3, <2>4 DEF TypeOK, Images
  <2>6. todo' \in [Threads -> SUBSET Pixels]
    BY <2>1, <2>3 DEF TypeOK
  <2>7. \A t \in Threads : todo'[t] \subseteq todo[t]
    BY <2>1 DEF TypeOK
  <2>8. TypeOK'
    BY <2>2, <2>5, <2>6, <2>7 DEF TypeOK, Threads
  <2>9. ASSUME NEW t \in Threads, t < created, NEW q \in Pixels,
               Writes(t, q), q \notin todo'[t]
        PROVE  output_image'[q] = Invert(input_image[q])
    <3>1. CASE q = p /\ output_image' = [output_image EXCEPT ![p] = Invert(input_image[p])]
      BY <2>3, <3>1 DEF TypeOK, Images
    <3>2. CASE q # p
      <4>1. output_image'[q] = output_image[q] /\ q \notin todo[t]
        BY <2>1, <2>3, <2>9, <3>2 DEF TypeOK, Images
      <4> QED
        BY <2>9, <4>1 DEF Done
    <3>3. CASE q = p /\ output_image' = output_image
      <4>1. CASE t = u
        <5>1. mode = "numbers" => InRange(u, input_image[p])
          BY <2>9, <3>3, <4>1 DEF Writes
        <5> QED
          BY <2>1, <2>3, <3>1, <3>3, <5>1 DEF TypeOK, Images
      <4>2. CASE t # u
        <5>1. q \notin todo[t]
          BY <2>1, <2>9, <4>2 DEF TypeOK
        <5> QED
          BY <2>9, <3>3, <5>1 DEF Done
      <4> QED
        BY <4>1, <4>2
    <3> QED
      BY <2>1, <3>1, <3>2, <3>3
  <2>10. \A t \in Threads : todo'[t] \subseteq Visits(t)
    BY <2>7 DEF Done
  <2>11. Done'
    BY <2>2, <2>9, <2>10
    DEF Done, Threads, Visits, Writes, InRange, lower_limit, upper_limit,
        range_size, Whole, Invert
  <2> QED
    BY <2>8, <2>11
<1>5. CASE UNCHANGED vars
  <2>1. TypeOK'
    BY <1>5 DEF vars, arguments, TypeOK, Threads
  <2>2. Done'
    BY <1>5
    DEF vars, Done, arguments, Threads, Visits, Writes, InRange,
        lower_limit, upper_limit, range_size, Whole, Invert
  <2> QED
    BY <2>1, <2>2
<1> QED
  BY <1>1, <1>2, <1>3, <1>4, <1>5 DEF Next

\* The invariant holds in every behaviour of the filter.
LEMMA Invariance == Spec => []IInv
  BY InitInv, StepInv, PTL DEF Spec

(* The types of the state, for every image and number of threads.             *)
THEOREM TypeCorrect == Spec => []TypeOK
<1>1. IInv => TypeOK
  BY DEF IInv
<1> QED
  BY <1>1, Invariance, PTL

(* save_image writes the negative of the whole input: the threads have covered *)
(* the image and have all been joined.                                        *)
THEOREM Negation == Spec => []SavedIsNegative
<1>1. IInv => SavedIsNegative
  <2> SUFFICES ASSUME IInv, saved
               PROVE  output_image = [p \in Pixels |-> Invert(input_image[p])]
    BY DEF SavedIsNegative
  <2> USE DEF IInv
  <2>1. num_threads \in Nat \ {0} /\ joined = num_threads /\ created = num_threads
    BY DEF TypeOK
  <2>2. \A t \in Threads : t < created /\ todo[t] = {}
    BY <2>1 DEF TypeOK, Threads
  <2>3. \A p \in Pixels : output_image[p] = Invert(input_image[p])
    BY <2>2, EveryPixel DEF Done
  <2> QED
    BY <2>3 DEF TypeOK, Images
<1> QED
  BY <1>1, Invariance, PTL

-------------------------------------------------------------------------------
(* The integral.                                                              *)

\* The instance counts as this module does.
LEMMA Counts == \A S : Strips!Cardinality(S) = Cardinality(S)
  BY DEF Strips!Cardinality, Cardinality

\* Products grow with their factors.
LEMMA Grows ==
    ASSUME NEW a \in Nat, NEW x \in Nat, NEW y \in Nat, x <= y
    PROVE  x * a <= y * a
<1>1. PICK d \in Nat : y = x + d
  <2>1. y - x \in Nat /\ y = x + (y - x) OBVIOUS
  <2> QED BY <2>1
<1>2. y * a = x * a + d * a BY <1>1
<1>3. d * a \in Nat /\ x * a \in Nat OBVIOUS
<1> QED BY <1>2, <1>3

\* What a division gives.
LEMMA Quotient ==
    ASSUME NEW a \in Nat \ {0}, NEW b \in Nat
    PROVE  /\ b \div a \in Nat /\ (b \div a) * a <= b /\ b < ((b \div a) + 1) * a
           /\ b % a \in 0 .. a - 1 /\ b = (b \div a) * a + (b % a)
           /\ \A c \in Nat : c * a <= b /\ b < (c + 1) * a <=> c = b \div a
<1> DEFINE q == b \div a
<1>1. /\ q \in Nat /\ q * a <= b /\ b < (q + 1) * a
      /\ b % a \in 0 .. a - 1 /\ b = q * a + (b % a)
  <2>1. q \in Nat /\ q * a <= b /\ b < (q + 1) * a OBVIOUS
  <2>2. b % a \in 0 .. a - 1
    <3>1. a \in Int /\ b \in Int /\ a > 0 OBVIOUS
    <3>2. 0 <= b % a /\ b % a < a /\ b % a \in Int BY <3>1
    <3> DEFINE r == b % a
    <3> HIDE DEF r
    <3>3. 0 <= r /\ r < a /\ r \in Int BY <3>2 DEF r
    <3>4. r \in 0 .. a - 1 BY <3>3
    <3> QED BY <3>4, Zenon DEF r
  <2>3. b = a * q + (b % a) OBVIOUS
  <2> HIDE DEF q
  <2> QED BY <2>1, <2>2, <2>3
<1> HIDE DEF q
<1>2. ASSUME NEW c \in Nat, c * a <= b, b < (c + 1) * a PROVE c = q
  <2>1. CASE c < q
    <3>1. (c + 1) * a <= q * a BY <1>1, <2>1, Grows
    <3> QED BY <1>1, <1>2, <3>1
  <2>2. CASE q < c
    <3>1. (q + 1) * a <= c * a BY <1>1, <2>2, Grows
    <3> QED BY <1>1, <1>2, <3>1
  <2> QED BY <1>1, <2>1, <2>2
<1> QED BY <1>1, <1>2 DEF q

\* The size of a block when w strips are divided among m children.
BlockSize(w, m) == (w \div m) + (IF w % m > 0 THEN 1 ELSE 0)

\* Blocks of this size, one for each child, are enough.
LEMMA BlocksReach ==
    ASSUME NEW w \in Nat \ {0}, NEW m \in Nat \ {0}
    PROVE  BlockSize(w, m) \in Nat \ {0} /\ w <= m * BlockSize(w, m)
<1> DEFINE q == w \div m
           r == w % m
<1>1. q \in Nat /\ r \in 0 .. m - 1 /\ w = q * m + r BY Quotient
<1>2. BlockSize(w, m) = q + (IF r > 0 THEN 1 ELSE 0) BY DEF BlockSize
<1> HIDE DEF q, r
<1>3. CASE r = 0
  <2>1. BlockSize(w, m) = q /\ w = q * m BY <1>1, <1>2, <1>3
  <2>2. q # 0 BY <1>1, <2>1
  <2> QED BY <1>1, <2>1, <2>2
<1>4. CASE r # 0
  <2>1. BlockSize(w, m) = q + 1 BY <1>1, <1>2, <1>4
  <2>2. (q + 1) * m = q * m + m BY <1>1
  <2>3. w <= (q + 1) * m BY <1>1, <2>2
  <2>4. m * (q + 1) = (q + 1) * m BY <1>1
  <2> QED BY <1>1, <2>1, <2>3, <2>4
<1> QED BY <1>3, <1>4

\* The strips that child number c + 1 adds.
BlockEnd(c) ==
    LET end == (c + 1) * Strips!block_size IN IF end = Strips!rectangles THEN end + 1 ELSE end
StripsOf(c) ==
    {k \in c * Strips!block_size .. BlockEnd(c) - 1 :
        c * Strips!block_size * width[1] < width[2] /\ k * width[1] <= width[2]}

\* The arguments, and whether the whole strips leave something over.
Arguments == width \in Widths /\ n \in 1 .. MaxChildren
IsLeft == Strips!rectangles * width[1] < width[2]

\* There is a strip, and the blocks of all children reach the last whole one.
LEMMA ArgumentsAre ==
    ASSUME Strips!IntegralAssumption, Arguments
    PROVE  /\ width[1] \in Nat \ {0} /\ width[2] \in Nat /\ n \in Nat \ {0}
           /\ Strips!rectangles \in Nat \ {0} /\ Strips!block_size \in Nat \ {0}
           /\ Strips!rectangles * width[1] <= width[2]
           /\ width[2] < (Strips!rectangles + 1) * width[1]
           /\ Strips!rectangles <= n * Strips!block_size
<1>1. width[1] \in Nat \ {0} /\ width[2] \in Nat /\ width[1] <= width[2] /\ n \in Nat \ {0}
  BY DEF Strips!IntegralAssumption, Arguments
<1> DEFINE a == width[1]
           b == width[2]
<1>2. Strips!rectangles = b \div a /\ Strips!block_size = BlockSize(Strips!rectangles, n)
  BY DEF Strips!rectangles, Strips!block_size, BlockSize
<1> HIDE DEF a, b
<1>3. a \in Nat \ {0} /\ b \in Nat /\ a <= b BY <1>1 DEF a, b
<1>4. Strips!rectangles \in Nat /\ Strips!rectangles * a <= b /\ b < (Strips!rectangles + 1) * a
  BY <1>2, <1>3, Quotient
<1>5. Strips!rectangles # 0 BY <1>3, <1>4
<1>6. Strips!block_size \in Nat \ {0} /\ Strips!rectangles <= n * Strips!block_size
  BY <1>1, <1>2, <1>4, <1>5, BlocksReach
<1> QED BY <1>1, <1>4, <1>5, <1>6 DEF a, b

\* A strip that begins up to 1 is one of the whole strips, or what is left over.
LEMMA Fits ==
    ASSUME Strips!IntegralAssumption, Arguments, NEW k \in Nat
    PROVE  /\ k * width[1] <= width[2] <=> k <= Strips!rectangles
           /\ k * width[1] < width[2] <=> k < Strips!rectangles \/ (k = Strips!rectangles /\ IsLeft)
<1> DEFINE a == width[1]
           b == width[2]
           w == Strips!rectangles
<1>1. a \in Nat \ {0} /\ b \in Nat /\ w \in Nat /\ w * a <= b /\ b < (w + 1) * a
  BY ArgumentsAre
<1>2. IsLeft <=> w * a < b BY DEF IsLeft
<1> HIDE DEF a, b, w
<1>3. CASE k < w
  <2>1. (k + 1) * a <= w * a BY <1>1, <1>3, Grows
  <2>2. (k + 1) * a = k * a + a BY <1>1
  <2>3. k * a \in Nat /\ w * a \in Nat BY <1>1
  <2>4. k * a < b BY <1>1, <2>1, <2>2, <2>3
  <2> QED BY <1>1, <1>3, <2>3, <2>4 DEF a, b, w
<1>4. CASE k = w BY <1>1, <1>2, <1>4 DEF a, b, w
<1>5. CASE k > w
  <2>1. (w + 1) * a <= k * a BY <1>1, <1>5, Grows
  <2>2. k * a \in Nat /\ (w + 1) * a \in Nat BY <1>1
  <2>3. b < k * a BY <1>1, <2>1, <2>2
  <2> QED BY <1>1, <1>5, <2>2, <2>3 DEF a, b, w
<1> QED BY <1>1, <1>3, <1>4, <1>5 DEF w

\* The children that add a strip: the one in whose block it is, and for the strip
\* that is left over one whose block ends where it begins.
LEMMA Adds ==
    ASSUME Strips!IntegralAssumption, Arguments, NEW c \in Nat, NEW k \in Nat,
           k < Strips!rectangles \/ (k = Strips!rectangles /\ IsLeft)
    PROVE  k \in StripsOf(c) <=>
              \/ c = k \div Strips!block_size
              \/ k = Strips!rectangles /\ (c + 1) * Strips!block_size = Strips!rectangles
<1> DEFINE B == Strips!block_size
           w == Strips!rectangles
           e == (c + 1) * B
<1>1. B \in Nat \ {0} /\ w \in Nat BY ArgumentsAre
<1>2. c * B \in Nat /\ e \in Nat /\ e = c * B + B BY <1>1
<1>3. c * B <= k /\ k < e <=> c = k \div B BY <1>1, Quotient
<1>4. k * width[1] <= width[2] <=> k <= w BY Fits
<1>5. c * B * width[1] < width[2] <=> c * B < w \/ (c * B = w /\ IsLeft) BY <1>2, Fits
<1>6. BlockEnd(c) = IF e = w THEN e + 1 ELSE e BY DEF BlockEnd
<1>7. k \in StripsOf(c) <=> /\ c * B <= k /\ k < BlockEnd(c)
                            /\ c * B * width[1] < width[2] /\ k * width[1] <= width[2]
  BY <1>1, <1>2, <1>6 DEF StripsOf
<1> DEFINE s == c * B
           q == k \div B
<1> HIDE DEF e, s, q, B, w
<1> QED BY <1>1, <1>2, <1>3, <1>4, <1>5, <1>6, <1>7 DEF B, w, q, s

\* Inductive: each child that main has started has written the strips of its
\* block, or has failed and left what was there.
StripsInv ==
    /\ Arguments /\ i \in 0 .. n /\ status \in {"divides", "error", "printed"}
    /\ files \in [1 .. n -> SUBSET Int] /\ failed \in SUBSET (1 .. i)
    /\ \A c \in 1 .. n : IF c <= i /\ c \notin failed
                         THEN files[c] = StripsOf(c - 1)
                         ELSE files[c] \in {Strips!Missing, Strips!Stale}
    /\ status = "printed" => i = n /\ \A c \in 1 .. n : files[c] # Strips!Missing

\* The invariant holds before the first child.
LEMMA InitStripsInv == Strips!IntegralAssumption /\ Strips!Init => StripsInv
<1> SUFFICES ASSUME Strips!IntegralAssumption, Strips!Init PROVE StripsInv
  OBVIOUS
<1>1. Arguments /\ n \in Nat \ {0} BY DEF Strips!Init, Arguments, Strips!IntegralAssumption
<1>2. PICK old \in {Strips!Missing, Strips!Stale} : files = [k \in 1 .. n |-> old]
  BY DEF Strips!Init
<1>3. old \in SUBSET Int BY DEF Strips!Missing, Strips!Stale
<1> QED BY <1>1, <1>2, <1>3 DEF Strips!Init, StripsInv

\* Every step keeps the invariant.
LEMMA StepStripsInv ==
    Strips!IntegralAssumption /\ StripsInv /\ [Strips!Next]_(Strips!vars) => StripsInv'
<1> SUFFICES ASSUME Strips!IntegralAssumption, StripsInv, [Strips!Next]_(Strips!vars)
             PROVE  StripsInv'
  OBVIOUS
<1>1. /\ Arguments /\ i \in 0 .. n
      /\ files \in [1 .. n -> SUBSET Int] /\ failed \in SUBSET (1 .. i)
      /\ \A c \in 1 .. n : IF c <= i /\ c \notin failed
                           THEN files[c] = StripsOf(c - 1)
                           ELSE files[c] \in {Strips!Missing, Strips!Stale}
  BY DEF StripsInv
<1>2. n \in Nat \ {0} BY <1>1, ArgumentsAre
<1>3. ASSUME width' = width, n' = n
      PROVE  Arguments' /\ \A c \in Nat : StripsOf(c)' = StripsOf(c)
  BY <1>1, <1>3 DEF Arguments, StripsOf, BlockEnd, Strips!block_size, Strips!rectangles
<1>4. CASE Strips!Child
  <2>1. /\ status = "divides" /\ i < n /\ i' = i + 1 /\ width' = width /\ n' = n
        /\ failed' = failed /\ status' = status
        /\ files' = [files EXCEPT ![i + 1] = Strips!Strips]
    BY <1>4 DEF Strips!Child
  <2>2. Strips!Strips = StripsOf((i + 1) - 1)
    <3>1. (i + 1) - 1 = i BY <1>1
    <3> QED BY <3>1 DEF Strips!Strips, StripsOf, BlockEnd, Strips!block_start, Strips!block_end
  <2>3. Strips!Strips \in SUBSET Int /\ i + 1 \in 1 .. n
    <3>1. i + 1 \in 1 .. n /\ i \in Nat BY <1>1, <1>2, <2>1
    <3>2. Strips!block_start \in Int /\ Strips!block_end \in Int
      BY <1>1, <3>1, ArgumentsAre DEF Strips!block_start, Strips!block_end
    <3> QED BY <3>1, <3>2 DEF Strips!Strips
  <2> HIDE DEF Strips!Strips
  <2>4. /\ files' \in [1 .. n -> SUBSET Int] /\ files'[i + 1] = Strips!Strips
        /\ \A c \in 1 .. n : c # i + 1 => files'[c] = files[c]
    BY <1>1, <2>1, <2>3
  <2>5. ASSUME NEW c \in 1 .. n
        PROVE  IF c <= i + 1 /\ c \notin failed
               THEN files'[c] = StripsOf(c - 1)
               ELSE files'[c] \in {Strips!Missing, Strips!Stale}
    <3>1. CASE c = i + 1
      <4>1. c \notin failed BY <1>1, <3>1
      <4> QED BY <1>1, <2>2, <2>4, <3>1, <4>1
    <3>2. CASE c # i + 1
      <4>1. c <= i + 1 <=> c <= i BY <1>1, <1>2, <3>2
      <4> QED BY <1>1, <2>4, <3>2, <4>1
    <3> QED BY <3>1, <3>2
  <2>6. \A c \in 1 .. n : StripsOf(c - 1)' = StripsOf(c - 1) BY <1>2, <1>3, <2>1
  <2>7. i + 1 \in 0 .. n /\ failed \in SUBSET (1 .. i + 1) BY <1>1, <1>2, <2>1
  <2>8. Arguments' BY <1>3, <2>1
  <2> QED BY <1>1, <2>1, <2>4, <2>5, <2>6, <2>7, <2>8 DEF StripsInv
<1>5. CASE Strips!ChildFails
  <2>1. /\ status = "divides" /\ i < n /\ i' = i + 1 /\ width' = width /\ n' = n
        /\ failed' = failed \cup {i + 1} /\ status' = status /\ files' = files
    BY <1>5 DEF Strips!ChildFails
  <2>2. ASSUME NEW c \in 1 .. n
        PROVE  IF c <= i + 1 /\ c \notin failed \cup {i + 1}
               THEN files[c] = StripsOf(c - 1)
               ELSE files[c] \in {Strips!Missing, Strips!Stale}
    BY <1>1, <1>2, <2>2
  <2>3. \A c \in 1 .. n : StripsOf(c - 1)' = StripsOf(c - 1) BY <1>2, <1>3, <2>1
  <2>4. i + 1 \in 0 .. n /\ failed \cup {i + 1} \in SUBSET (1 .. i + 1)
    BY <1>1, <1>2, <2>1
  <2>5. Arguments' BY <1>3, <2>1
  <2> QED BY <1>1, <2>1, <2>2, <2>3, <2>4, <2>5 DEF StripsInv
<1>6. CASE Strips!SumResults
  <2>1. /\ i = n /\ width' = width /\ n' = n /\ i' = i
        /\ files' = files /\ failed' = failed
        /\ status' = IF \E k \in 1 .. n : files[k] = Strips!Missing
                     THEN "error" ELSE "printed"
    BY <1>6 DEF Strips!SumResults
  <2>2. \A c \in 1 .. n : StripsOf(c - 1)' = StripsOf(c - 1) BY <1>2, <1>3, <2>1
  <2>3. Arguments' BY <1>3, <2>1
  <2> QED BY <1>1, <2>1, <2>2, <2>3 DEF StripsInv
<1>7. CASE UNCHANGED Strips!vars
  <2>1. /\ width' = width /\ n' = n /\ i' = i
        /\ files' = files /\ failed' = failed /\ status' = status
    BY <1>7 DEF Strips!vars
  <2>2. \A c \in 1 .. n : StripsOf(c - 1)' = StripsOf(c - 1) BY <1>2, <1>3, <2>1
  <2>3. Arguments' BY <1>3, <2>1
  <2> QED BY <2>1, <2>2, <2>3 DEF StripsInv
<1> QED BY <1>4, <1>5, <1>6, <1>7 DEF Strips!Next

\* How many children add a strip.
LEMMA HowOften ==
    ASSUME Strips!IntegralAssumption, Arguments, NEW k \in Nat,
           k < Strips!rectangles \/ (k = Strips!rectangles /\ IsLeft)
    PROVE  Cardinality({c \in 1 .. n : k \in StripsOf(c - 1)}) =
               IF /\ k = Strips!rectangles
                  /\ \E c \in 1 .. n - 1 : c * Strips!block_size = Strips!rectangles
               THEN 2 ELSE 1
<1> DEFINE B == Strips!block_size
           w == Strips!rectangles
           q == k \div B
           C == {c \in 1 .. n : k \in StripsOf(c - 1)}
<1>1. B \in Nat \ {0} /\ w \in Nat \ {0} /\ n \in Nat \ {0} /\ w <= n * B
  BY ArgumentsAre
<1>2. q \in Nat /\ q * B <= k /\ k < (q + 1) * B
  BY <1>1, Quotient
<1>3. \A c \in 1 .. n : c \in C <=> c = q + 1 \/ (k = w /\ c * B = w)
  <2>1. ASSUME NEW c \in 1 .. n PROVE c \in C <=> c = q + 1 \/ (k = w /\ c * B = w)
    <3>1. c - 1 \in Nat /\ (c - 1) + 1 = c BY <1>1
    <3>2. k \in StripsOf(c - 1) <=> c - 1 = q \/ (k = w /\ c * B = w) BY <3>1, Adds
    <3> HIDE DEF q
    <3>3. c - 1 = q <=> c = q + 1 BY <1>2
    <3> QED BY <3>2, <3>3
  <2> QED BY <2>1
<1> HIDE DEF q, C, B, w
<1>4. ASSUME NEW c \in Nat, NEW d \in Nat, c * B = d * B PROVE c = d
  <2>1. ASSUME NEW x \in Nat, NEW y \in Nat, x < y PROVE x * B # y * B
    <3>1. (x + 1) * B <= y * B BY <1>1, <2>1, Grows
    <3>2. (x + 1) * B = x * B + B /\ x * B \in Nat /\ y * B \in Nat BY <1>1
    <3> QED BY <1>1, <3>1, <3>2
  <2> QED BY <1>4, <2>1
<1>5. CASE k < w
  <2>1. q < n
    <3>1. SUFFICES ASSUME n <= q PROVE FALSE BY <1>1, <1>2
    <3>2. n * B <= q * B BY <1>1, <1>2, <3>1, Grows
    <3> QED BY <1>1, <1>2, <1>5, <3>2
  <2>2. C = {q + 1}
    <3>1. C \subseteq 1 .. n BY DEF C
    <3>2. q + 1 \in 1 .. n BY <1>1, <1>2, <2>1
    <3>3. \A c \in 1 .. n : c \in C <=> c = q + 1 BY <1>3, <1>1, <1>5
    <3>4. \A c : c \in C <=> c \in {q + 1} BY <3>1, <3>2, <3>3
    <3> QED BY <3>4, Zenon
  <2>3. Cardinality(C) = 1 BY <2>2, FS_Singleton
  <2>4. k # w BY <1>1, <1>5
  <2> QED BY <2>3, <2>4 DEF C, w
<1>6. CASE k = w /\ ~(\E d \in 1 .. n : d * B = w)
  <2>1. q < n
    <3>1. SUFFICES ASSUME n <= q PROVE FALSE BY <1>1, <1>2
    <3>2. n * B <= q * B BY <1>1, <1>2, <3>1, Grows
    <3>3. n * B = w BY <1>1, <1>2, <1>6, <3>2
    <3> QED BY <1>1, <1>6, <3>3
  <2>2. C = {q + 1}
    <3>1. C \subseteq 1 .. n BY DEF C
    <3>2. q + 1 \in 1 .. n BY <1>1, <1>2, <2>1
    <3>3. \A c \in 1 .. n : c \in C <=> c = q + 1 BY <1>3, <1>6
    <3>4. \A c : c \in C <=> c \in {q + 1} BY <3>1, <3>2, <3>3
    <3> QED BY <3>4, Zenon
  <2>3. ~(\E d \in 1 .. n - 1 : d * B = w)
    <3>1. \A d \in 1 .. n - 1 : d \in 1 .. n BY <1>1
    <3> QED BY <1>6, <3>1, Zenon
  <2>4. Cardinality(C) = 1 BY <2>2, FS_Singleton
  <2> QED BY <2>3, <2>4 DEF C, w, B
<1>7. ASSUME k = w, NEW d \in 1 .. n, d * B = w
      PROVE  Cardinality(C) = IF \E c \in 1 .. n - 1 : c * B = w THEN 2 ELSE 1
  <2>1. q = d
    <3>1. d * B <= k /\ k < (d + 1) * B /\ k \in Nat
      <4>1. (d + 1) * B = d * B + B BY <1>1
      <4> QED BY <1>1, <1>7, <4>1
    <3>2. d \in Nat /\ B \in Nat \ {0} BY <1>1
    <3>3. \A c \in Nat : c * B <= k /\ k < (c + 1) * B <=> c = k \div B
      BY <3>1, <3>2, Quotient
    <3> QED BY <3>1, <3>2, <3>3 DEF q
  <2>2. \A c \in 1 .. n : c * B = w => c = d BY <1>4, <1>7
  <2>3. \A c \in 1 .. n : c \in C <=> c = d + 1 \/ c = d BY <1>3, <1>7, <2>1, <2>2
  <2>4. CASE d = n
    <3>1. C = {n}
      <4>1. C \subseteq 1 .. n BY DEF C
      <4>2. n \in 1 .. n /\ d + 1 \notin 1 .. n BY <1>1, <2>4
      <4>3. \A c \in 1 .. n : c \in C <=> c = n BY <2>3, <2>4, <4>2
      <4>4. \A c : c \in C <=> c \in {n} BY <4>1, <4>2, <4>3
      <4> QED BY <4>4, Zenon
    <3>2. ~(\E c \in 1 .. n - 1 : c * B = w)
      <4>1. \A c \in 1 .. n - 1 : c \in 1 .. n /\ c # d BY <1>1, <2>4
      <4> QED BY <2>2, <4>1, Zenon
    <3> QED BY <3>1, <3>2, FS_Singleton
  <2>5. CASE d # n
    <3>1. C = {d, d + 1} BY <1>1, <2>3, <2>5 DEF C
    <3>2. Cardinality({d} \cup {d + 1}) = 2
      <4>1. IsFiniteSet({d}) /\ Cardinality({d}) = 1 BY FS_Singleton
      <4>2. d \in Nat /\ d + 1 \notin {d} BY <1>1
      <4>3. Cardinality({d} \cup {d + 1}) = Cardinality({d}) + 1
        BY <4>1, <4>2, FS_AddElement
      <4> QED BY <4>1, <4>3
    <3>3. C = {d} \cup {d + 1} BY <3>1
    <3>4. \E c \in 1 .. n - 1 : c * B = w BY <1>1, <1>7, <2>5
    <3> QED BY <3>2, <3>3, <3>4
  <2> QED BY <2>4, <2>5
<1> QED BY <1>1, <1>5, <1>6, <1>7 DEF C, w, B

(* The file of each child that has not failed holds the strips of its block,  *)
(* for any width of the strips and any number of children (lab3/zad2/main.c). *)
THEOREM IntegralInvariance ==
    ASSUME Strips!IntegralAssumption
    PROVE  Strips!Spec => []StripsInv
<1>1. Strips!Init => StripsInv BY InitStripsInv
<1>2. StripsInv /\ [Strips!Next]_(Strips!vars) => StripsInv' BY StepStripsInv
<1> QED BY <1>1, <1>2, PTL DEF Strips!Spec

(* The integral that main prints has every whole strip once and the strip     *)
(* that is left over once or, when a block ends where it begins, twice,       *)
(* unless a child has failed and an old file stands in for its own.           *)
THEOREM EachStripOnce ==
    ASSUME Strips!IntegralAssumption
    PROVE  Strips!Spec => []StripsAreCounted
<1>1. ASSUME StripsInv PROVE StripsAreCounted
  <2>1. SUFFICES ASSUME status = "printed",
                        ~(\E child \in failed : files[child] = Strips!Stale)
                 PROVE  /\ \A k \in 0 .. Strips!rectangles - 1 :
                               Cardinality({child \in 1 .. n : k \in files[child]}) = 1
                        /\ IsLeft =>
                             Cardinality({child \in 1 .. n : Strips!rectangles \in files[child]}) =
                             IF \E child \in 1 .. n - 1 : child * Strips!block_size = Strips!rectangles
                             THEN 2 ELSE 1
                        /\ failed = {}
    BY Counts DEF StripsAreCounted, Strips!StripsAreCounted, IsLeft
  <2>2. i = n /\ Arguments /\ \A c \in 1 .. n : files[c] # Strips!Missing
    BY <1>1, <2>1 DEF StripsInv
  <2>3. failed = {} BY <1>1, <2>1, <2>2 DEF StripsInv
  <2>4. \A c \in 1 .. n : files[c] = StripsOf(c - 1) BY <1>1, <2>2, <2>3 DEF StripsInv
  <2>5. Strips!rectangles \in Nat BY <2>2, ArgumentsAre
  <2>6. ASSUME NEW k \in Nat, k < Strips!rectangles \/ (k = Strips!rectangles /\ IsLeft)
        PROVE  Cardinality({child \in 1 .. n : k \in files[child]}) =
               IF /\ k = Strips!rectangles
                  /\ \E c \in 1 .. n - 1 : c * Strips!block_size = Strips!rectangles
               THEN 2 ELSE 1
    <3>1. {child \in 1 .. n : k \in files[child]} = {c \in 1 .. n : k \in StripsOf(c - 1)}
      BY <2>4
    <3> QED BY <2>2, <2>6, <3>1, HowOften
  <2>7. \A k \in 0 .. Strips!rectangles - 1 : k \in Nat /\ k < Strips!rectangles /\ k # Strips!rectangles
    BY <2>5
  <2>8. ASSUME NEW k \in 0 .. Strips!rectangles - 1
        PROVE Cardinality({child \in 1 .. n : k \in files[child]}) = 1
    <3>1. k \in Nat /\ k < Strips!rectangles /\ k # Strips!rectangles BY <2>7
    <3> QED BY <2>6, <3>1
  <2>9. ASSUME IsLeft
        PROVE  Cardinality({child \in 1 .. n : Strips!rectangles \in files[child]}) =
               IF \E child \in 1 .. n - 1 : child * Strips!block_size = Strips!rectangles
               THEN 2 ELSE 1
    BY <2>5, <2>6, <2>9
  <2> QED BY <2>3, <2>8, <2>9
<1> QED BY <1>1, IntegralInvariance, PTL

-------------------------------------------------------------------------------
(* The table of blocks.                                                       *)

\* The entries of the table that have a block.
Full == {k \in DOMAIN table : table[k] # Lib!Null}

\* Inductive: until the program has ended, entries and blocks correspond.
Entries ==
    /\ tableCreated \in BOOLEAN /\ table_size \in Nat
    /\ DOMAIN table = IF tableCreated THEN 0 .. table_size - 1 ELSE {}
    /\ table \in [DOMAIN table -> Nat]
    /\ heap \in SUBSET (Nat \ {0}) /\ IsFiniteSet(heap)
    /\ tableStatus \in {"running", "crashed", "failed", "exited"}
OneToOne ==
    /\ heap = {table[k] : k \in Full}
    /\ \A j, k \in Full : table[j] = table[k] => j = k
HeapInv == Entries /\ IF tableStatus = "exited" THEN heap = {} ELSE OneToOne

\* Some number of a set is the least.
LEMMA HasLeast ==
    ASSUME NEW S \in SUBSET Nat, S # {}
    PROVE  \E k \in S : \A m \in S : k <= m
<1>1. \E k \in S : \A m \in S : ~(<<m, k>> \in OpToRel(<, Nat))
  BY WFMin, NatLessThanWellFounded, Zenon
<1>2. \A k, m \in Nat : <<m, k>> \in OpToRel(<, Nat) <=> m < k
  BY DEF OpToRel
<1>3. \E k \in S : \A m \in S : ~(m < k)
  BY <1>1, <1>2, Zenon
<1>4. \A k, m \in Nat : ~(m < k) <=> k <= m
  OBVIOUS
<1> QED BY <1>3, <1>4, Zenon

\* Min takes that one.
LEMMA LeastOf ==
    ASSUME NEW S \in SUBSET Nat, S # {}
    PROVE  Lib!Min(S) \in S
<1>1. \E k \in S : \A m \in S : k <= m BY HasLeast
<1> QED BY <1>1 DEF Lib!Min

\* calloc gives a block that is not yet on the heap.
LEMMA NewBlock ==
    ASSUME NEW H \in SUBSET (Nat \ {0}), IsFiniteSet(H)
    PROVE  LET block == Lib!Min((1 .. Lib!Cardinality(H) + 1) \ H)
           IN  block \in Nat \ {0} /\ block \notin H
<1>1. Lib!Cardinality(H) = Cardinality(H) BY DEF Lib!Cardinality, Cardinality
<1> DEFINE c == Cardinality(H)
           S == 1 .. c + 1
<1>2. c \in Nat BY FS_CardinalityType
<1>3. IsFiniteSet(S) /\ Cardinality(S) = c + 1 BY <1>2, FS_Interval
<1>4. ASSUME S \subseteq H PROVE FALSE
  <2>1. Cardinality(S) <= c BY <1>4, FS_Subset
  <2> QED BY <1>2, <1>3, <2>1
<1>5. S \ H # {} /\ S \ H \in SUBSET Nat BY <1>2, <1>4
<1>6. Lib!Min(S \ H) \in S \ H BY <1>5, LeastOf
<1>7. Lib!Min(S \ H) \in Nat \ {0} BY <1>2, <1>6
<1> QED BY <1>1, <1>6, <1>7

\* An int becomes a number.
LEMMA ArgumentIsNumber ==
    ASSUME Lib!BlockTableAssumption, NEW x \in Int
    PROVE  Lib!size_t(x) \in Nat
BY DEF Lib!BlockTableAssumption, Lib!size_t

\* The invariant holds before the first option.
LEMMA InitHeapInv == Lib!Init => HeapInv
<1> SUFFICES ASSUME Lib!Init PROVE HeapInv
  OBVIOUS
<1>1. IsFiniteSet({}) BY FS_EmptySet
<1>2. DOMAIN table = {} BY DEF Lib!Init
<1>3. table \in [DOMAIN table -> Nat] BY <1>2 DEF Lib!Init
<1> QED BY <1>1, <1>2, <1>3 DEF Lib!Init, HeapInv, Entries, OneToOne, Full

\* Options that leave the pointers alone, and the end of a loop.
LEMMA PointersStay ==
    ASSUME HeapInv, UNCHANGED Lib!pointers,
           tableStatus' = tableStatus \/ (tableStatus = "running" /\ tableStatus' \in {"crashed", "failed"})
    PROVE  HeapInv'
BY DEF HeapInv, Entries, OneToOne, Full, Lib!pointers

\* A new table is empty, and nothing is on the heap before there is one.
LEMMA CreateKeeps ==
    ASSUME Lib!BlockTableAssumption, HeapInv, NEW x \in Int, Lib!create_table(x)
    PROVE  HeapInv'
<1>1. tableStatus = "running" /\ tableStatus' = tableStatus
  BY DEF Lib!create_table, Lib!Option, Lib!Idle
<1>2. CASE tableCreated
  BY <1>1, <1>2, PointersStay DEF Lib!create_table
<1>3. CASE ~tableCreated
  <2>1. table_size' = Lib!size_t(x) /\ tableCreated' \in BOOLEAN /\ heap' = heap
        /\ table' = IF tableCreated' THEN [k \in 0 .. table_size' - 1 |-> Lib!Null] ELSE <<>>
    BY <1>3 DEF Lib!create_table
  <2>2. table_size' \in Nat BY <2>1, ArgumentIsNumber
  <2>3. heap = {} BY <1>1, <1>3 DEF HeapInv, Entries, OneToOne, Full
  <2>4. /\ DOMAIN table' = IF tableCreated' THEN 0 .. table_size' - 1 ELSE {}
        /\ \A k \in DOMAIN table' : table'[k] = 0
    BY <2>1 DEF Lib!Null
  <2>5. table' \in [DOMAIN table' -> Nat] BY <2>1, <2>4 DEF Lib!Null
  <2>6. Full' = {} BY <2>4 DEF Full, Lib!Null
  <2> QED BY <1>1, <2>1, <2>2, <2>3, <2>4, <2>5, <2>6 DEF HeapInv, Entries, OneToOne
<1> QED BY <1>2, <1>3 DEF HeapInv, Entries

\* free_table frees all there is.
LEMMA EndKeeps ==
    ASSUME HeapInv, Lib!End
    PROVE  HeapInv'
<1>1. tableStatus = "running" /\ UNCHANGED <<tableCreated, table, table_size>>
  BY DEF Lib!End, Lib!Idle
<1>2. CASE Lib!NoEntries
  <2>1. tableStatus' = "crashed" /\ heap' = heap BY <1>2 DEF Lib!End, Lib!Crash
  <2> QED BY <1>1, <2>1, PointersStay DEF Lib!pointers
<1>3. CASE ~Lib!NoEntries
  <2>1. tableStatus' = "exited" /\ heap' = heap \ Lib!Range(table) BY <1>3 DEF Lib!End
  <2>2. heap \subseteq Lib!Range(table) BY <1>1 DEF HeapInv, OneToOne, Full, Lib!Range
  <2>3. heap' = {} BY <2>1, <2>2
  <2>4. IsFiniteSet({}) BY FS_EmptySet
  <2> QED BY <1>1, <2>1, <2>3, <2>4 DEF HeapInv, Entries
<1> QED BY <1>2, <1>3

\* A new block goes to an empty entry.
LEMMA SaveKeeps ==
    ASSUME HeapInv, Lib!save_block
    PROVE  HeapInv'
<1>1. tableStatus = "running" /\ UNCHANGED <<tableCreated, table_size>>
  BY DEF Lib!save_block, Lib!Calls
<1>2. CASE Lib!Empty = {}
  <2>1. UNCHANGED <<table, heap, tableStatus>> BY <1>2 DEF Lib!save_block
  <2> QED BY <1>1, <2>1, PointersStay DEF Lib!pointers
<1>3. CASE Lib!Empty # {} /\ temp = "none"
  <2>1. tableStatus' = "crashed" /\ UNCHANGED <<table, heap>> BY <1>3 DEF Lib!save_block, Lib!Crash
  <2> QED BY <1>1, <2>1, PointersStay DEF Lib!pointers
<1>4. CASE Lib!Empty # {} /\ temp # "none"
  <2> DEFINE block == Lib!Min((1 .. Lib!Cardinality(heap) + 1) \ heap)
             x == Lib!Min(Lib!Empty)
  <2>1. /\ table' = [table EXCEPT ![x] = block] /\ heap' = heap \cup {block}
        /\ tableStatus' = tableStatus
    BY <1>4 DEF Lib!save_block
  <2>2. Entries /\ OneToOne BY <1>1 DEF HeapInv
  <2>3. block \in Nat \ {0} /\ block \notin heap BY <2>2, NewBlock DEF Entries
  <2>4. Lib!Empty \in SUBSET Nat BY <2>2 DEF Entries, Lib!Empty
  <2>5. x \in DOMAIN table /\ table[x] = 0
    <3>1. x \in Lib!Empty BY <1>4, <2>4, LeastOf
    <3> QED BY <3>1 DEF Lib!Empty, Lib!Null
  <2>6. IsFiniteSet(heap \cup {block}) BY <2>2, FS_AddElement DEF Entries
  <2> HIDE DEF block, x
  <2>7. /\ DOMAIN table' = DOMAIN table /\ table' \in [DOMAIN table -> Nat]
        /\ table'[x] = block /\ \A k \in DOMAIN table : k # x => table'[k] = table[k]
    BY <2>1, <2>2, <2>3, <2>5 DEF Entries
  <2>8. Entries' BY <1>1, <2>1, <2>2, <2>3, <2>6, <2>7 DEF Entries
  <2>9. Full' = Full \cup {x} /\ x \notin Full
    BY <2>3, <2>5, <2>7 DEF Full, Lib!Null
  <2>10. \A k \in Full : k \in DOMAIN table /\ k # x /\ table'[k] = table[k] /\ table[k] \in heap
    BY <2>2, <2>7, <2>9 DEF Full, OneToOne
  <2>11. heap' = {table'[k] : k \in Full'}
    <3>1. heap = {table[k] : k \in Full} BY <2>2 DEF OneToOne
    <3>2. ASSUME NEW b \in heap' PROVE b \in {table'[k] : k \in Full'}
      <4>1. CASE b = block BY <2>7, <2>9, <4>1
      <4>2. CASE b \in heap
        <5>1. PICK k \in Full : b = table[k] BY <3>1, <4>2
        <5> QED BY <2>9, <2>10, <5>1
      <4> QED BY <2>1, <3>2, <4>1, <4>2
    <3>3. \A k \in Full' : table'[k] \in heap' BY <2>1, <2>7, <2>9, <2>10
    <3> QED BY <3>2, <3>3
  <2>12. ASSUME NEW j \in Full', NEW k \in Full', table'[j] = table'[k] PROVE j = k
    <3>1. \A l, m \in Full : table[l] = table[m] => l = m BY <2>2 DEF OneToOne
    <3> QED BY <2>3, <2>7, <2>9, <2>10, <2>12, <3>1
  <2> QED BY <1>1, <2>1, <2>8, <2>11, <2>12 DEF HeapInv, OneToOne
<1> QED BY <1>2, <1>3, <1>4

\* A block that is freed leaves its entry.
LEMMA DeleteKeeps ==
    ASSUME HeapInv, Lib!delete_block
    PROVE  HeapInv'
<1>1. tableStatus = "running" /\ UNCHANGED <<tableCreated, table_size, tableStatus>>
  BY DEF Lib!delete_block, Lib!Calls
<1>2. CASE loop.i \notin DOMAIN table
  <2>1. UNCHANGED <<table, heap>> BY <1>2 DEF Lib!delete_block
  <2> QED BY <1>1, <2>1, PointersStay DEF Lib!pointers
<1>3. CASE loop.i \in DOMAIN table
  <2> DEFINE x == loop.i
  <2>1. heap' = heap \ {table[x]} /\ table' = [table EXCEPT ![x] = 0]
    BY <1>3 DEF Lib!delete_block, Lib!Null
  <2>2. Entries /\ OneToOne BY <1>1 DEF HeapInv
  <2>3. IsFiniteSet(heap \ {table[x]}) BY <2>2, FS_RemoveElement DEF Entries
  <2>4. x \in DOMAIN table BY <1>3
  <2> HIDE DEF x
  <2>5. /\ DOMAIN table' = DOMAIN table /\ table' \in [DOMAIN table -> Nat]
        /\ table'[x] = 0 /\ \A k \in DOMAIN table : k # x => table'[k] = table[k]
    BY <2>1, <2>2, <2>4 DEF Entries
  <2>6. Entries' BY <1>1, <2>1, <2>2, <2>3, <2>5 DEF Entries
  <2>7. Full' = Full \ {x} BY <2>5 DEF Full, Lib!Null
  <2>8. heap = {table[k] : k \in Full} /\ \A j, k \in Full : table[j] = table[k] => j = k
    BY <2>2 DEF OneToOne
  <2>9. table[x] \in heap => x \in Full
    BY <2>2, <2>4 DEF Entries, Full, Lib!Null
  <2>10. \A k \in Full \ {x} : table'[k] = table[k] /\ table[k] \in heap /\ table[k] # table[x]
    <3>1. ASSUME NEW k \in Full \ {x} PROVE table'[k] = table[k] /\ table[k] \in heap
      BY <2>5, <2>8 DEF Full
    <3>2. ASSUME NEW k \in Full \ {x}, table[k] = table[x] PROVE FALSE
      BY <2>8, <2>9, <3>1, <3>2
    <3> QED BY <3>1, <3>2
  <2>11. heap' = {table'[k] : k \in Full'}
    <3>1. ASSUME NEW b \in heap' PROVE b \in {table'[k] : k \in Full'}
      <4>1. PICK k \in Full : b = table[k] BY <2>1, <2>8
      <4>2. k # x BY <2>1, <4>1
      <4> QED BY <2>7, <2>10, <4>1, <4>2
    <3>2. \A k \in Full' : table'[k] \in heap' BY <2>1, <2>7, <2>10
    <3> QED BY <3>1, <3>2
  <2>12. \A j, k \in Full' : table'[j] = table'[k] => j = k BY <2>7, <2>8, <2>10
  <2> QED BY <1>1, <2>6, <2>11, <2>12 DEF HeapInv, OneToOne
<1> QED BY <1>2, <1>3

\* The command of wc_files fits its buffer.
LEMMA CommandFits ==
    ASSUME Lib!BlockTableAssumption, NEW names \in FileLists
    PROVE  ~(Lib!CommandSize(names) > Lib!BufferSize(names))
BY DEF Lib!BlockTableAssumption, Lib!CommandSize, Lib!BufferSize, Lib!Names

\* Every step keeps the invariant.
LEMMA StepHeapInv ==
    ASSUME Lib!BlockTableAssumption
    PROVE  HeapInv /\ [Lib!Next]_(Lib!vars) => HeapInv'
<1> SUFFICES ASSUME HeapInv, [Lib!Next]_(Lib!vars) PROVE HeapInv'
  OBVIOUS
<1>1. ASSUME NEW x \in Sizes, Lib!create_table(x) PROVE HeapInv'
  BY <1>1, CreateKeeps DEF Lib!BlockTableAssumption
<1>2. ASSUME NEW x \in Sizes, Lib!save_block_n_times(x) \/ Lib!remove_block(x) PROVE HeapInv'
  BY <1>2, PointersStay DEF Lib!save_block_n_times, Lib!remove_block
<1>3. ASSUME NEW range \in Ranges, Lib!remove_m_blocks(range) PROVE HeapInv'
  BY <1>3, PointersStay DEF Lib!remove_m_blocks, Lib!Option, Lib!Idle, Lib!Crash
<1>4. ASSUME NEW names \in FileLists, Lib!wc_files(names) PROVE HeapInv'
  BY <1>4, PointersStay, CommandFits DEF Lib!wc_files, Lib!Option, Lib!Idle, Lib!Crash
<1>5. ASSUME Lib!print_table \/ Lib!WrongOption PROVE HeapInv'
  BY <1>5, PointersStay DEF Lib!print_table, Lib!WrongOption, Lib!Option, Lib!Idle, Lib!Crash
<1>6. ASSUME Lib!EndLoop PROVE HeapInv'
  BY <1>6, PointersStay DEF Lib!EndLoop
<1>7. ASSUME UNCHANGED Lib!vars PROVE HeapInv'
  BY <1>7, PointersStay DEF Lib!vars
<1> QED
  BY <1>1, <1>2, <1>3, <1>4, <1>5, <1>6, <1>7, EndKeeps, SaveKeeps, DeleteKeeps DEF Lib!Next

(* Entries of the table and blocks on the heap correspond one to one until    *)
(* the program ends, for options with any numbers (lib.c, main.c of           *)
(* lab1/zad2).                                                                *)
THEOREM HeapInvariance ==
    ASSUME Lib!BlockTableAssumption
    PROVE  Lib!Spec => []HeapInv
<1>1. Lib!Init => HeapInv BY InitHeapInv
<1>2. HeapInv /\ [Lib!Next]_(Lib!vars) => HeapInv' BY StepHeapInv
<1> QED BY <1>1, <1>2, PTL DEF Lib!Spec

(* No block is lost or freed twice, whatever numbers a size_t makes of the    *)
(* arguments; at the end all blocks are freed; no command of wc_files is      *)
(* longer than its buffer.                                                    *)
THEOREM HeapFollowsTable ==
    ASSUME Lib!BlockTableAssumption
    PROVE  Lib!Spec => []HeapIsTable
<1>1. ASSUME HeapInv PROVE HeapIsTable
  <2>1. Entries BY <1>1 DEF HeapInv
  <2>2. ASSUME tableStatus # "exited"
        PROVE  heap = {table[k] : k \in Full} /\ Lib!Cardinality(heap) = Lib!Cardinality(Full)
    <3>1. OneToOne BY <1>1, <2>2 DEF HeapInv
    <3>2. IsFiniteSet(Full)
      <4>1. Full \in SUBSET (0 .. table_size - 1) BY <2>1 DEF Entries, Full
      <4>2. 0 \in Int /\ table_size - 1 \in Int BY <2>1 DEF Entries
      <4>3. IsFiniteSet(0 .. table_size - 1) BY ONLY <4>2, FS_Interval
      <4> QED BY <4>1, <4>3, FS_Subset
    <3>3. ExistsBijection(Full, heap)
      <4> DEFINE f == [k \in Full |-> table[k]]
      <4>1. f \in Injection(Full, heap) BY <3>1 DEF OneToOne, Injection, IsInjective
      <4>2. f \in Surjection(Full, heap) BY <3>1 DEF OneToOne, Surjection
      <4> QED BY <4>1, <4>2 DEF ExistsBijection, Bijection
    <3>4. Cardinality(heap) = Cardinality(Full) BY <3>2, <3>3, FS_Bijection
    <3>5. \A S : Lib!Cardinality(S) = Cardinality(S) BY DEF Lib!Cardinality, Cardinality
    <3> QED BY <3>1, <3>4, <3>5 DEF OneToOne
  <2>3. tableStatus = "exited" => heap = {} BY <1>1 DEF HeapInv
  <2> QED BY <2>1, <2>2, <2>3 DEF HeapIsTable, Lib!HeapIsTable, Entries, Full
<1> QED BY <1>1, HeapInvariance, PTL

-------------------------------------------------------------------------------
(* The descriptors of the shell.                                              *)

\* The ends and the processes there are.
EndsOfPipes == {"closed", "terminal", "file", "read", "write"}
Numbers == 0 .. MaxFd
ProcessType ==
    [at : {"line", "component", "wait", "exec", "print"} \cup TheShell!Commands,
     line : Nat, k : Nat, prev : Numbers \X Numbers, current : Numbers \X Numbers,
     left : Nat, fds : [Numbers -> [pipe : Nat, end : EndsOfPipes]]]

\* The line, and the command of it, that a process has come to.
Where(s) ==
    /\ s.line \in 1 .. Len(script) + 1
    /\ s.at # "line" => s.line <= Len(script) /\ s.k \in 1 .. Len(script[s.line]) + 1
    /\ s.at \in {"wait", "exec"} => s.k <= Len(script[s.line])
    /\ s.at = "print" => s.k = Len(script[s.line]) + 1
Placed == {s \in ProcessType : Where(s)}

\* A sequence of anything.
AreListed(q) == q \in Seq({q[x] : x \in DOMAIN q})

ShellTypes ==
    /\ script \in Scripts
    /\ AreListed(pipes)
    /\ processes \in Seq(Placed)

\* What the shell has open beside its input and the terminal.
KeptBy(fds) == {f \in Numbers : f > 3 /\ fds[f] # TheShell!Closed}
KeptAt(s) ==
    Cardinality(TheShell!PassedOn(s.line - 1)) +
    CASE s.at = "line" -> 0
      [] s.at = "component" -> s.k - 1
      [] s.at = "wait" -> s.k + 1
      [] s.at = "print" -> s.k - 1

\* Inductive: how many descriptors the shell keeps at each line, and which of
\* them it still uses.
IsShell(s) ==
    /\ s.at \in {"line", "component", "wait", "print"}
    /\ \A f \in Numbers : f <= 3 => s.fds[f] # TheShell!Closed
    /\ \A f \in KeptBy(s.fds) :
           s.fds[f].end = IF s.at = "wait" /\ f = s.current[2] THEN "write" ELSE "read"
    /\ Cardinality(KeptBy(s.fds)) = KeptAt(s) /\ IsFiniteSet(TheShell!PassedOn(s.line - 1))
    /\ s.at = "wait" => /\ s.current[1] \in KeptBy(s.fds) /\ s.current[2] \in KeptBy(s.fds)
                        /\ s.current[1] # s.current[2]
    /\ (s.at = "component" /\ s.k > 1) \/ s.at = "print" => s.current[1] \in KeptBy(s.fds)
ShellInv == ShellTypes /\ (processes # <<>> => IsShell(processes[1]))

\* The instance counts, and takes the least, as this module does.
LEMMA SameOperators ==
    /\ \A S : TheShell!Cardinality(S) = Cardinality(S)
    /\ \A S : TheShell!Min(S) = Lib!Min(S)
BY DEF TheShell!Cardinality, Cardinality, TheShell!Min, Lib!Min

\* pipe() gives two different free numbers.
LEMMA TwoAreFree ==
    ASSUME NEW fds, DOMAIN fds = Numbers, TheShell!HasTwoFree(fds), TheShell!ShellAssumption
    PROVE  LET two == TheShell!TwoFree(fds)
           IN  /\ two \in Numbers \X Numbers /\ two[1] # two[2]
               /\ fds[two[1]] = TheShell!Closed /\ fds[two[2]] = TheShell!Closed
<1> DEFINE F == TheShell!Free(fds)
<1>1. F \in SUBSET Nat /\ F \in SUBSET Numbers BY DEF TheShell!Free, Numbers
<1>2. \E a, b \in F : a # b BY DEF TheShell!HasTwoFree
<1> HIDE DEF F
<1>3. Lib!Min(F) \in F
  <2>1. F # {} BY <1>2
  <2> QED BY ONLY <1>1, <2>1, LeastOf
<1>4. F \ {Lib!Min(F)} # {} /\ F \ {Lib!Min(F)} \in SUBSET Nat
  <2>1. PICK a \in F, b \in F : a # b BY <1>2
  <2>2. a # Lib!Min(F) \/ b # Lib!Min(F) BY <2>1
  <2> QED BY <1>1, <2>2
<1>5. Lib!Min(F \ {Lib!Min(F)}) \in F \ {Lib!Min(F)} BY <1>4, LeastOf
<1>6. TheShell!TwoFree(fds) = <<Lib!Min(F), Lib!Min(F \ {Lib!Min(F)})>>
  BY SameOperators DEF TheShell!TwoFree, F
<1>7. \A f \in F : f \in Numbers /\ fds[f] = TheShell!Closed BY <1>1 DEF F, TheShell!Free
<1> QED BY <1>3, <1>5, <1>6, <1>7

\* A pipeline of some commands passes on the output of all but one.
LEMMA PassedOnGrows ==
    ASSUME NEW l \in Nat \ {0}, Len(script[l]) \in Nat \ {0}, IsFiniteSet(TheShell!PassedOn(l - 1))
    PROVE  /\ IsFiniteSet(TheShell!PassedOn(l))
           /\ Cardinality(TheShell!PassedOn(l)) =
                  Cardinality(TheShell!PassedOn(l - 1)) + Len(script[l]) - 1
<1> DEFINE A == TheShell!PassedOn(l - 1)
           m == Len(script[l]) - 1
           B == {l} \X (1 .. m)
<1>1. TheShell!PassedOn(l) = A \cup B
  <2>1. 1 .. l = (1 .. l - 1) \cup {l} OBVIOUS
  <2> QED BY <2>1 DEF TheShell!PassedOn
<1>2. A \cap B = {}
  <2>1. \A x \in A : x[1] \in 1 .. l - 1 BY DEF TheShell!PassedOn
  <2>2. \A x \in B : x[1] = l OBVIOUS
  <2>3. l \notin 1 .. l - 1 OBVIOUS
  <2> QED BY <2>1, <2>2, <2>3
<1>3. IsFiniteSet(B) /\ Cardinality(B) = m
  <2>1. m \in Nat /\ 0 \in Int /\ 1 \in Int OBVIOUS
  <2> DEFINE f == [k \in 1 .. m |-> <<l, k>>]
  <2>2. f \in Injection(1 .. m, B)
    <3>1. f \in [1 .. m -> B] OBVIOUS
    <3>2. \A j, k \in 1 .. m : f[j] = f[k] => j = k OBVIOUS
    <3> QED BY <3>1, <3>2 DEF Injection, IsInjective
  <2>3. f \in Surjection(1 .. m, B)
    <3>1. f \in [1 .. m -> B] OBVIOUS
    <3>2. ASSUME NEW x \in B PROVE \E k \in 1 .. m : f[k] = x
      <4>1. PICK k \in 1 .. m : x = <<l, k>> OBVIOUS
      <4>2. f[k] = x BY <4>1
      <4> QED BY <4>2
    <3> QED BY <3>1, <3>2 DEF Surjection
  <2>4. ExistsBijection(1 .. m, B) BY <2>2, <2>3 DEF ExistsBijection, Bijection
  <2> HIDE DEF m, B
  <2>5. /\ IsFiniteSet(1 .. m)
        /\ Cardinality(1 .. m) = IF 1 > m THEN 0 ELSE m - 1 + 1
    <3>1. 1 \in Int /\ m \in Int BY <2>1
    <3> QED BY ONLY <3>1, FS_Interval
  <2>6. Cardinality(1 .. m) = m BY <2>1, <2>5
  <2> QED BY <2>4, <2>5, <2>6, FS_Bijection
<1>4. Cardinality(A \cap B) = 0 BY <1>2, FS_EmptySet
<1>5. IsFiniteSet(A) /\ Cardinality(A) \in Nat BY FS_CardinalityType
<1> HIDE DEF A, B
<1>6. IsFiniteSet(A \cup B) /\ Cardinality(A \cup B) = Cardinality(A) + Cardinality(B) - 0
  BY <1>3, <1>4, <1>5, FS_Union
<1>7. m \in Nat OBVIOUS
<1> QED BY <1>1, <1>3, <1>5, <1>6, <1>7 DEF A

\* An entry of a sequence changes, or one is added.
LEMMA Listed ==
    ASSUME NEW q, AreListed(q)
    PROVE  /\ Len(q) \in Nat
           /\ \A a, b : AreListed([q EXCEPT ![a] = b])
           /\ \A b : AreListed(Append(q, b))
<1> DEFINE S == {q[x] : x \in DOMAIN q}
<1>1. q \in Seq(S) BY DEF AreListed
<1>2. Len(q) \in Nat /\ DOMAIN q = 1 .. Len(q) BY <1>1
<1>3. ASSUME NEW a, NEW b PROVE AreListed([q EXCEPT ![a] = b])
  <2> DEFINE r == [q EXCEPT ![a] = b]
             T == {r[x] : x \in DOMAIN r}
  <2>1. r = [x \in 1 .. Len(q) |-> r[x]] /\ DOMAIN r = 1 .. Len(q) BY <1>2
  <2>2. r \in [1 .. Len(q) -> T]
    <3>1. \A x \in 1 .. Len(q) : r[x] \in T BY <2>1
    <3> HIDE DEF r, T
    <3> QED BY <2>1, <3>1
  <2>3. r \in Seq(T)
    <3> HIDE DEF r, T
    <3> QED BY <1>2, <2>2
  <2> QED BY <2>3 DEF AreListed
<1>4. ASSUME NEW b PROVE AreListed(Append(q, b))
  <2> DEFINE r == Append(q, b)
             T == {r[x] : x \in DOMAIN r}
  <2> DEFINE U == S \cup {b}
  <2>1. q \in Seq(U) /\ b \in U BY <1>1
  <2>2. r \in Seq(U)
    <3> HIDE DEF U
    <3> QED BY <2>1 DEF U
  <2>3. r \in [1 .. Len(r) -> T] /\ Len(r) \in Nat
    <3> HIDE DEF r, U
    <3> QED BY <2>2
  <2> HIDE DEF T, r
  <2>4. r \in Seq(T) BY <2>3
  <2> QED BY <2>4 DEF AreListed, r, T
<1> QED BY <1>2, <1>3, <1>4

\* What is written leaves the pipes listed.
LEMMA PutLists ==
    ASSUME NEW end, NEW unit, NEW contents, AreListed(contents), TheShell!Put(end, unit, contents)
    PROVE  AreListed(pipes)'
<1>1. CASE end.end = "terminal" BY <1>1 DEF TheShell!Put, AreListed
<1>2. CASE end.end # "terminal"
  <2>1. pipes' = [contents EXCEPT ![end.pipe] = Append(contents[end.pipe], unit)]
    BY <1>2 DEF TheShell!Put
  <2>2. AreListed([contents EXCEPT ![end.pipe] = Append(contents[end.pipe], unit)]) BY Listed
  <2> QED BY <2>1, <2>2 DEF AreListed
<1> QED BY <1>1, <1>2

\* A process that runs is the last of the stack.
LEMMA OnTop ==
    ASSUME ShellTypes, TheShell!p.at # "ended"
    PROVE  /\ processes # <<>> /\ Len(processes) \in Nat \ {0}
           /\ TheShell!p = processes[Len(processes)]
           /\ TheShell!p \in Placed /\ processes[1] \in Placed
<1>1. processes # <<>> BY DEF TheShell!p, TheShell!Nobody
<1>2. processes \in Seq(Placed) BY DEF ShellTypes
<1>3. TheShell!p = processes[Len(processes)] BY <1>1 DEF TheShell!p, TheShell!Last
<1>4. Len(processes) \in Nat \ {0} BY <1>1, <1>2
<1> QED BY <1>1, <1>2, <1>3, <1>4

\* When it changes, ends or forks, nothing changes below.
LEMMA SetIs ==
    ASSUME ShellTypes, processes # <<>>, NEW new \in Placed, TheShell!Set(new)
    PROVE  /\ processes' \in Seq(Placed) /\ processes' # <<>>
           /\ processes'[1] = IF Len(processes) = 1 THEN new ELSE processes[1]
<1>1. processes \in Seq(Placed) BY DEF ShellTypes
<1>2. processes' = [processes EXCEPT ![Len(processes)] = new] BY DEF TheShell!Set
<1>3. Len(processes) \in Nat \ {0} BY <1>1
<1>4. processes' \in Seq(Placed) /\ Len(processes') = Len(processes) BY <1>1, <1>2, <1>3
<1> QED BY <1>1, <1>2, <1>3, <1>4

\* The process on top ends.
LEMMA ExitIs ==
    ASSUME ShellTypes, processes # <<>>, TheShell!Exit
    PROVE  /\ processes' \in Seq(Placed)
           /\ processes' # <<>> => processes'[1] = processes[1]
<1>1. processes \in Seq(Placed) BY DEF ShellTypes
<1>2. processes' = SubSeq(processes, 1, Len(processes) - 1) BY DEF TheShell!Exit, TheShell!Front
<1>3. Len(processes) \in Nat \ {0} BY <1>1
<1> QED BY <1>1, <1>2, <1>3

\* It goes on and has a child.
LEMMA ForkIs ==
    ASSUME ShellTypes, processes # <<>>, NEW parent \in Placed, NEW child \in Placed,
           processes' = Append(TheShell!Front(processes), parent) \o <<child>>
    PROVE  /\ processes' \in Seq(Placed) /\ processes' # <<>>
           /\ processes'[1] = IF Len(processes) = 1 THEN parent ELSE processes[1]
<1>1. processes \in Seq(Placed) BY DEF ShellTypes
<1> DEFINE below == SubSeq(processes, 1, Len(processes) - 1)
<1>2. processes' = Append(below, parent) \o <<child>> BY DEF TheShell!Front
<1>3. Len(processes) \in Nat \ {0} BY <1>1
<1>4. /\ below \in Seq(Placed) /\ Len(below) = Len(processes) - 1
      /\ Len(processes) # 1 => below[1] = processes[1]
  BY <1>1, <1>3
<1> HIDE DEF below
<1> DEFINE q == Append(below, parent)
<1>5. /\ q \in Seq(Placed) /\ Len(q) = Len(processes)
      /\ q[1] = IF Len(processes) = 1 THEN parent ELSE processes[1]
  BY <1>3, <1>4
<1> HIDE DEF q
<1>6. /\ q \o <<child>> \in Seq(Placed) /\ Len(q \o <<child>>) = Len(processes) + 1
      /\ (q \o <<child>>)[1] = q[1]
  <2>1. <<child>> \in Seq(Placed) /\ Len(<<child>>) = 1 /\ 1 \in 1 .. Len(q) BY <1>3, <1>5
  <2> QED BY <1>3, <1>5, <2>1
<1>7. processes' = q \o <<child>> BY <1>2 DEF q
<1>8. q \o <<child>> # <<>> BY <1>3, <1>6
<1> QED BY <1>5, <1>6, <1>7, <1>8

\* An open descriptor is added, or one is closed.
LEMMA KeptIs ==
    ASSUME TheShell!ShellAssumption, NEW fds, DOMAIN fds = Numbers
    PROVE  /\ Cardinality(KeptBy(fds)) \in Nat
           /\ \A a \in Numbers : \A e : a > 3 /\ a \notin KeptBy(fds) /\ e # TheShell!Closed =>
                 /\ KeptBy([fds EXCEPT ![a] = e]) = KeptBy(fds) \cup {a}
                 /\ Cardinality(KeptBy([fds EXCEPT ![a] = e])) = Cardinality(KeptBy(fds)) + 1
           /\ \A a \in KeptBy(fds) :
                 /\ KeptBy(TheShell!Close(fds, a)) = KeptBy(fds) \ {a}
                 /\ Cardinality(KeptBy(TheShell!Close(fds, a))) = Cardinality(KeptBy(fds)) - 1
<1>1. IsFiniteSet(KeptBy(fds)) /\ Cardinality(KeptBy(fds)) \in Nat
  <2>1. 0 \in Int /\ MaxFd \in Int BY DEF TheShell!ShellAssumption
  <2>2. IsFiniteSet(0 .. MaxFd) BY ONLY <2>1, FS_Interval
  <2>3. KeptBy(fds) \in SUBSET (0 .. MaxFd) BY DEF KeptBy, Numbers
  <2>4. IsFiniteSet(KeptBy(fds)) BY <2>2, <2>3, FS_Subset
  <2> QED BY <2>4, FS_CardinalityType
<1>2. ASSUME NEW a \in Numbers, NEW e, a > 3, a \notin KeptBy(fds), e # TheShell!Closed
      PROVE  KeptBy([fds EXCEPT ![a] = e]) = KeptBy(fds) \cup {a}
  BY <1>2 DEF KeptBy
<1>3. ASSUME NEW a \in KeptBy(fds) PROVE KeptBy(TheShell!Close(fds, a)) = KeptBy(fds) \ {a}
  BY DEF KeptBy, TheShell!Close
<1>4. \A a : a \notin KeptBy(fds) =>
         Cardinality(KeptBy(fds) \cup {a}) = Cardinality(KeptBy(fds)) + 1
  BY <1>1, FS_AddElement
<1>5. \A a \in KeptBy(fds) :
         Cardinality(KeptBy(fds) \ {a}) = Cardinality(KeptBy(fds)) - 1
  BY <1>1, FS_RemoveElement
<1> QED BY <1>1, <1>2, <1>3, <1>4, <1>5

\* The same for one descriptor.
LEMMA KeptGrows ==
    ASSUME TheShell!ShellAssumption, NEW fds, DOMAIN fds = Numbers,
           NEW a \in Numbers, a > 3, a \notin KeptBy(fds), NEW e, e # TheShell!Closed
    PROVE  /\ KeptBy([fds EXCEPT ![a] = e]) = KeptBy(fds) \cup {a}
           /\ Cardinality(KeptBy([fds EXCEPT ![a] = e])) = Cardinality(KeptBy(fds)) + 1
BY KeptIs

\* The steps of the shell, or of a process that has become one.
ShellStep(s, t, two) ==
    \/ /\ s.at = "line" /\ s.line <= Len(script)
       /\ t = [s EXCEPT !.at = "component", !.k = 1, !.prev = two]
    \/ /\ s.at = "component" /\ s.k <= Len(script[s.line]) /\ TheShell!HasTwoFree(s.fds)
       /\ \E pipe \in Nat :
             t = [s EXCEPT !.at = "wait", !.current = two,
                           !.fds[two[1]] = [pipe |-> pipe, end |-> "read"],
                           !.fds[two[2]] = [pipe |-> pipe, end |-> "write"]]
    \/ /\ s.at = "wait"
       /\ t = [s EXCEPT !.at = "component", !.k = @ + 1, !.prev = s.current,
                        !.fds = TheShell!Close(@, s.current[2])]
    \/ /\ s.at = "component" /\ s.k > Len(script[s.line]) /\ t = [s EXCEPT !.at = "print"]
    \/ /\ s.at = "print"
       /\ t = [s EXCEPT !.at = "line", !.line = @ + 1,
                        !.fds = TheShell!Close(@, s.current[1])]

\* They keep the types ...
LEMMA ShellStepTypes ==
    ASSUME TheShell!ShellAssumption, NEW s \in ProcessType, NEW t, NEW two \in Numbers \X Numbers,
           ShellStep(s, t, two)
    PROVE  t \in ProcessType
<1>1. CASE /\ s.at = "line" /\ s.line <= Len(script)
           /\ t = [s EXCEPT !.at = "component", !.k = 1, !.prev = two]
  BY <1>1 DEF ProcessType
<1>2. ASSUME NEW pipe \in Nat,
             t = [s EXCEPT !.at = "wait", !.current = two,
                           !.fds[two[1]] = [pipe |-> pipe, end |-> "read"],
                           !.fds[two[2]] = [pipe |-> pipe, end |-> "write"]]
      PROVE t \in ProcessType
  <2> DEFINE fds == [s.fds EXCEPT ![two[1]] = [pipe |-> pipe, end |-> "read"],
                                  ![two[2]] = [pipe |-> pipe, end |-> "write"]]
  <2>1. fds \in [Numbers -> [pipe : Nat, end : EndsOfPipes]] BY DEF ProcessType, EndsOfPipes
  <2>2. t = [s EXCEPT !.at = "wait", !.current = two, !.fds = fds] BY <1>2 DEF ProcessType
  <2> HIDE DEF fds
  <2> QED BY <2>1, <2>2 DEF ProcessType
<1>3. ASSUME NEW a \in Numbers
      PROVE TheShell!Close(s.fds, a) \in [Numbers -> [pipe : Nat, end : EndsOfPipes]]
  BY DEF TheShell!Close, TheShell!Closed, ProcessType, EndsOfPipes
<1>4. CASE /\ s.at = "wait"
           /\ t = [s EXCEPT !.at = "component", !.k = @ + 1, !.prev = s.current,
                            !.fds = TheShell!Close(@, s.current[2])]
  <2> DEFINE fds == TheShell!Close(s.fds, s.current[2])
  <2>1. t = [s EXCEPT !.at = "component", !.k = s.k + 1, !.prev = s.current, !.fds = fds]
    BY <1>4 DEF ProcessType
  <2>2. s.current \in Numbers \X Numbers /\ s.current[2] \in Numbers /\ s.k + 1 \in Nat
    BY DEF ProcessType
  <2>3. fds \in [Numbers -> [pipe : Nat, end : EndsOfPipes]] BY <1>3, <2>2
  <2> HIDE DEF fds
  <2> QED BY <2>1, <2>2, <2>3 DEF ProcessType
<1>5. CASE s.at = "component" /\ t = [s EXCEPT !.at = "print"]
  BY <1>5 DEF ProcessType
<1>6. CASE /\ s.at = "print"
           /\ t = [s EXCEPT !.at = "line", !.line = @ + 1,
                            !.fds = TheShell!Close(@, s.current[1])]
  <2> DEFINE fds == TheShell!Close(s.fds, s.current[1])
  <2>1. t = [s EXCEPT !.at = "line", !.line = s.line + 1, !.fds = fds]
    BY <1>6 DEF ProcessType
  <2>2. s.current[1] \in Numbers /\ s.line + 1 \in Nat BY DEF ProcessType
  <2>3. fds \in [Numbers -> [pipe : Nat, end : EndsOfPipes]] BY <1>3, <2>2
  <2> HIDE DEF fds
  <2> QED BY <2>1, <2>2, <2>3 DEF ProcessType
<1> QED BY <1>1, <1>2, <1>4, <1>5, <1>6 DEF ShellStep

\* ... say at which command it is ...
LEMMA ShellStepWhere ==
    ASSUME TheShell!ShellAssumption, script \in Scripts, NEW s \in Placed, NEW t,
           NEW two \in Numbers \X Numbers, ShellStep(s, t, two)
    PROVE  t \in Placed
<1> s \in ProcessType /\ Where(s) BY DEF Placed
<1> SUFFICES Where(t)
  <2>1. t \in ProcessType BY ShellStepTypes
  <2> QED BY <2>1 DEF Placed
<1> DEFINE N == Len(script)
           m == Len(script[s.line])
<1>1. N \in Nat BY DEF TheShell!ShellAssumption
<1>2. s.k \in Nat /\ s.line \in 1 .. N + 1 BY DEF ProcessType, Where
<1>3. s.line <= N => m \in Nat \ {0}
  <2>1. \A l \in 1 .. N : Len(script[l]) \in Nat \ {0} BY DEF TheShell!ShellAssumption
  <2> QED BY <1>1, <1>2, <2>1
<1>4. /\ s.at # "line" => s.line <= N /\ s.k \in 1 .. m + 1
      /\ s.at = "wait" => s.k <= m
  BY DEF Where
<1>5. CASE /\ s.at = "line" /\ s.line <= Len(script)
           /\ t = [s EXCEPT !.at = "component", !.k = 1, !.prev = two]
  <2>1. t.at = "component" /\ t.k = 1 /\ t.line = s.line BY <1>5 DEF ProcessType
  <2>2. 1 \in 1 .. m + 1 BY <1>3, <1>5
  <2> QED BY ONLY <1>2, <1>5, <2>1, <2>2 DEF Where, N, m
<1>6. ASSUME NEW pipe, s.at = "component", s.k <= Len(script[s.line]),
             t = [s EXCEPT !.at = "wait", !.current = two,
                           !.fds[two[1]] = [pipe |-> pipe, end |-> "read"],
                           !.fds[two[2]] = [pipe |-> pipe, end |-> "write"]]
      PROVE Where(t)
  <2>1. t.at = "wait" /\ t.k = s.k /\ t.line = s.line BY <1>6 DEF ProcessType
  <2> QED BY <1>6, <2>1 DEF Where
<1>7. CASE /\ s.at = "wait"
           /\ t = [s EXCEPT !.at = "component", !.k = @ + 1, !.prev = s.current,
                            !.fds = TheShell!Close(@, s.current[2])]
  <2>1. t.at = "component" /\ t.k = s.k + 1 /\ t.line = s.line BY <1>7 DEF ProcessType
  <2>2. s.line <= N /\ m \in Nat /\ s.k \in 1 .. m BY <1>3, <1>4, <1>7
  <2>3. s.k + 1 \in 1 .. m + 1 BY <2>2
  <2> QED BY ONLY <1>2, <2>1, <2>2, <2>3 DEF Where, N, m
<1>8. CASE s.at = "component" /\ s.k > Len(script[s.line]) /\ t = [s EXCEPT !.at = "print"]
  <2>1. t.at = "print" /\ t.k = s.k /\ t.line = s.line BY <1>8 DEF ProcessType
  <2>2. s.line <= N /\ m \in Nat /\ s.k \in 1 .. m + 1 /\ s.k > m BY <1>3, <1>4, <1>8
  <2>3. s.k = m + 1 BY <2>2
  <2> QED BY ONLY <1>2, <2>1, <2>2, <2>3 DEF Where, N, m
<1>9. CASE /\ s.at = "print"
            /\ t = [s EXCEPT !.at = "line", !.line = @ + 1,
                             !.fds = TheShell!Close(@, s.current[1])]
  <2>1. t.at = "line" /\ t.line = s.line + 1 BY <1>9 DEF ProcessType
  <2>2. s.line + 1 \in 1 .. N + 1
    <3>1. s.line <= N BY <1>4, <1>9
    <3> QED BY <1>1, <1>2, <3>1
  <2> QED BY ONLY <2>1, <2>2 DEF Where, N, m
<1> QED BY <1>5, <1>6, <1>7, <1>8, <1>9 DEF ShellStep

\* ... and count what the shell keeps.
LEMMA ShellStepKeeps ==
    ASSUME TheShell!ShellAssumption, script \in Scripts, NEW s \in Placed, IsShell(s),
           NEW t, NEW two \in Numbers \X Numbers,
           TheShell!HasTwoFree(s.fds) =>
               /\ two[1] # two[2] /\ s.fds[two[1]] = TheShell!Closed
               /\ s.fds[two[2]] = TheShell!Closed,
           ShellStep(s, t, two)
    PROVE  IsShell(t)
<1> s \in ProcessType /\ Where(s) BY DEF Placed
<1>1. /\ s.fds \in [Numbers -> [pipe : Nat, end : EndsOfPipes]] /\ DOMAIN s.fds = Numbers
      /\ s.current \in Numbers \X Numbers
  BY DEF ProcessType
<1>2. \A l \in DOMAIN script : Len(script[l]) \in Nat \ {0}
  BY DEF TheShell!ShellAssumption
<1>3. Len(script) \in Nat /\ DOMAIN script = 1 .. Len(script)
  BY DEF TheShell!ShellAssumption
<1>4. s.line \in 1 .. Len(script) + 1 BY DEF IsShell, Where
<1>5. CASE /\ s.at = "line" /\ s.line <= Len(script)
           /\ t = [s EXCEPT !.at = "component", !.k = 1, !.prev = two]
  <2>1. /\ t.at = "component" /\ t.k = 1 /\ t.line = s.line /\ t.fds = s.fds
        /\ t.current = s.current
    BY <1>5 DEF ProcessType
  <2>2. Len(script[s.line]) \in Nat \ {0} BY <1>2, <1>3, <1>4, <1>5
  <2>3. KeptAt(t) = KeptAt(s)
    BY <1>5, <2>1 DEF KeptAt
  <2> QED BY <1>5, <2>1, <2>2, <2>3 DEF IsShell, Where
<1>6. ASSUME s.at = "component", s.k <= Len(script[s.line]), TheShell!HasTwoFree(s.fds),
             NEW pipe \in Nat,
             t = [s EXCEPT !.at = "wait", !.current = two,
                           !.fds[two[1]] = [pipe |-> pipe, end |-> "read"],
                           !.fds[two[2]] = [pipe |-> pipe, end |-> "write"]]
      PROVE IsShell(t)
  <2> DEFINE read == [pipe |-> pipe, end |-> "read"]
             write == [pipe |-> pipe, end |-> "write"]
             half == [s.fds EXCEPT ![two[1]] = read]
             fds == [half EXCEPT ![two[2]] = write]
  <2>1. /\ t.at = "wait" /\ t.k = s.k /\ t.line = s.line /\ t.fds = fds /\ t.current = two
    BY <1>6 DEF ProcessType
  <2>2. /\ two[1] \in Numbers /\ two[2] \in Numbers /\ two[1] # two[2]
        /\ s.fds[two[1]] = TheShell!Closed /\ s.fds[two[2]] = TheShell!Closed
    BY <1>6
  <2>3. \A f \in Numbers : s.fds[f] = TheShell!Closed => f > 3 /\ f \notin KeptBy(s.fds)
    BY DEF IsShell, Where, KeptBy, Numbers
  <2>4. read # TheShell!Closed /\ write # TheShell!Closed BY DEF TheShell!Closed
  <2>5. /\ DOMAIN half = Numbers /\ half[two[1]] = read /\ half[two[2]] = s.fds[two[2]]
        /\ \A f \in Numbers : f # two[1] => half[f] = s.fds[f]
    BY <1>1, <2>2
  <2>6. /\ DOMAIN fds = Numbers /\ fds[two[1]] = read /\ fds[two[2]] = write
        /\ \A f \in Numbers : f # two[1] /\ f # two[2] => fds[f] = s.fds[f]
    BY <1>1, <2>2
  <2>7. /\ KeptBy(half) = KeptBy(s.fds) \cup {two[1]}
        /\ Cardinality(KeptBy(half)) = Cardinality(KeptBy(s.fds)) + 1
    <3> HIDE DEF read
    <3> QED BY <1>1, <2>2, <2>3, <2>4, KeptGrows
  <2>8. two[2] \notin KeptBy(half) BY <2>2, <2>3, <2>7
  <2>9. /\ KeptBy(fds) = KeptBy(half) \cup {two[2]}
        /\ Cardinality(KeptBy(fds)) = Cardinality(KeptBy(half)) + 1
    <3> HIDE DEF half, write
    <3> QED BY <2>2, <2>3, <2>4, <2>5, <2>8, KeptGrows
  <2> HIDE DEF half, fds
  <2>10. Cardinality(KeptBy(fds)) = Cardinality(KeptBy(s.fds)) + 2
    BY <1>1, <2>7, <2>9, KeptIs
  <2>11. KeptAt(s) = Cardinality(TheShell!PassedOn(s.line - 1)) + (s.k - 1)
    BY <1>6 DEF KeptAt
  <2>12. KeptAt(t) = Cardinality(TheShell!PassedOn(s.line - 1)) + (s.k + 1)
    BY <2>1 DEF KeptAt
  <2>13. IsFiniteSet(TheShell!PassedOn(s.line - 1)) /\ s.k \in Nat /\ Cardinality(KeptBy(s.fds)) = KeptAt(s)
    BY DEF IsShell, Where, ProcessType
  <2>14. Cardinality(TheShell!PassedOn(s.line - 1)) \in Nat BY <2>13, FS_CardinalityType
  <2>15. Cardinality(KeptBy(t.fds)) = KeptAt(t) BY <2>1, <2>10, <2>11, <2>12, <2>13, <2>14
  <2>16. \A f \in KeptBy(fds) : fds[f].end = IF f = two[2] THEN "write" ELSE "read"
    <3>1. \A f \in KeptBy(s.fds) : s.fds[f].end = "read" /\ f \in Numbers
      BY <1>6 DEF IsShell, Where, KeptBy
    <3> QED BY <2>2, <2>3, <2>6, <2>7, <2>9, <3>1
  <2>17. \A f \in Numbers : f <= 3 => fds[f] # TheShell!Closed
    BY <2>4, <2>6 DEF IsShell, Where
  <2>18. two[1] \in KeptBy(fds) /\ two[2] \in KeptBy(fds) BY <2>7, <2>9
  <2>19. /\ s.line <= Len(script) /\ s.k \in 1 .. Len(script[s.line]) + 1
         /\ IsFiniteSet(TheShell!PassedOn(s.line - 1))
    BY <1>6 DEF IsShell, Where
  <2>20. \A f \in KeptBy(t.fds) :
             t.fds[f].end = IF t.at = "wait" /\ f = t.current[2] THEN "write" ELSE "read"
    BY <2>1, <2>16
  <2>21. /\ t.current[1] \in KeptBy(t.fds) /\ t.current[2] \in KeptBy(t.fds)
         /\ t.current[1] # t.current[2] /\ \A f \in Numbers : f <= 3 => t.fds[f] # TheShell!Closed
    BY <2>1, <2>2, <2>17, <2>18
  <2>22. /\ t.at = "wait" /\ t.line \in 1 .. Len(script) + 1 /\ t.line <= Len(script)
         /\ t.k \in 1 .. Len(script[t.line]) + 1 /\ t.k <= Len(script[t.line])
         /\ IsFiniteSet(TheShell!PassedOn(t.line - 1))
    BY <1>4, <1>6, <2>1, <2>19
  <2> QED BY ONLY <2>15, <2>20, <2>21, <2>22 DEF IsShell, Where
<1>7. CASE /\ s.at = "wait"
           /\ t = [s EXCEPT !.at = "component", !.k = @ + 1, !.prev = s.current,
                            !.fds = TheShell!Close(@, s.current[2])]
  <2> DEFINE x == s.current[2]
             fds == TheShell!Close(s.fds, x)
  <2>1. /\ t.at = "component" /\ t.k = s.k + 1 /\ t.line = s.line /\ t.fds = fds
        /\ t.current = s.current
    BY <1>7 DEF ProcessType
  <2>2. x \in KeptBy(s.fds) /\ s.current[1] \in KeptBy(s.fds) /\ s.current[1] # x
    BY <1>7 DEF IsShell, Where
  <2>3. /\ KeptBy(fds) = KeptBy(s.fds) \ {x}
        /\ Cardinality(KeptBy(fds)) = Cardinality(KeptBy(s.fds)) - 1
    BY <1>1, <2>2, KeptIs
  <2>4. \A f \in Numbers : f # x => fds[f] = s.fds[f] BY <1>1 DEF TheShell!Close
  <2>5. KeptAt(s) = Cardinality(TheShell!PassedOn(s.line - 1)) + (s.k + 1)
    BY <1>7 DEF KeptAt
  <2> HIDE DEF x, fds
  <2>6. KeptAt(t) = Cardinality(TheShell!PassedOn(s.line - 1)) + (t.k - 1)
    BY <2>1 DEF KeptAt
  <2>7. IsFiniteSet(TheShell!PassedOn(s.line - 1)) /\ s.k \in Nat /\ Cardinality(KeptBy(s.fds)) = KeptAt(s)
    BY DEF IsShell, Where, ProcessType
  <2>8. Cardinality(TheShell!PassedOn(s.line - 1)) \in Nat BY <2>7, FS_CardinalityType
  <2>9. Cardinality(KeptBy(t.fds)) = KeptAt(t) BY <2>1, <2>3, <2>5, <2>6, <2>7, <2>8
  <2>10. \A f \in KeptBy(s.fds) : f \in Numbers /\ f > 3 BY DEF KeptBy
  <2>11. \A f \in KeptBy(fds) : fds[f].end = "read"
    <3>1. \A f \in KeptBy(s.fds) : f # x => s.fds[f].end = "read"
      BY <1>7 DEF IsShell, Where, x
    <3> QED BY <2>3, <2>4, <2>10, <3>1
  <2>12. \A f \in Numbers : f <= 3 => fds[f] # TheShell!Closed
    <3>1. \A f \in Numbers : f <= 3 => s.fds[f] # TheShell!Closed /\ f # x
      BY <2>2, <2>10 DEF IsShell, Where, Numbers
    <3> QED BY <2>4, <3>1
  <2>13. s.k + 1 \in 1 .. Len(script[s.line]) + 1 /\ s.line <= Len(script)
    BY <1>2, <1>3, <1>4, <1>7, <2>7 DEF IsShell, Where
  <2> QED BY <1>4, <2>1, <2>2, <2>3, <2>7, <2>9, <2>11, <2>12, <2>13 DEF IsShell, Where
<1>8. CASE s.at = "component" /\ s.k > Len(script[s.line]) /\ t = [s EXCEPT !.at = "print"]
  <2>1. /\ t.at = "print" /\ t.k = s.k /\ t.line = s.line /\ t.fds = s.fds /\ t.current = s.current
    BY <1>8 DEF ProcessType
  <2>2. Len(script[s.line]) \in Nat \ {0} BY <1>2, <1>3, <1>4, <1>8 DEF IsShell, Where
  <2>3. s.k = Len(script[s.line]) + 1 /\ s.k > 1 BY <1>8, <2>2 DEF IsShell, Where
  <2>4. KeptAt(t) = KeptAt(s) BY <1>8, <2>1 DEF KeptAt
  <2> QED BY <1>8, <2>1, <2>3, <2>4 DEF IsShell, Where
<1>9. CASE /\ s.at = "print"
           /\ t = [s EXCEPT !.at = "line", !.line = @ + 1,
                            !.fds = TheShell!Close(@, s.current[1])]
  <2> DEFINE x == s.current[1]
             fds == TheShell!Close(s.fds, x)
             l == s.line
  <2>1. t.at = "line" /\ t.line = l + 1 /\ t.fds = fds /\ t.current = s.current
    BY <1>9 DEF ProcessType
  <2>2. x \in KeptBy(s.fds) BY <1>9 DEF IsShell, Where
  <2>3. /\ KeptBy(fds) = KeptBy(s.fds) \ {x}
        /\ Cardinality(KeptBy(fds)) = Cardinality(KeptBy(s.fds)) - 1
    BY <1>1, <2>2, KeptIs
  <2>4. \A f \in Numbers : f # x => fds[f] = s.fds[f] BY <1>1 DEF TheShell!Close
  <2>5. KeptAt(s) = Cardinality(TheShell!PassedOn(l - 1)) + (s.k - 1)
    BY <1>9 DEF KeptAt
  <2>6. /\ l \in 1 .. Len(script) /\ s.k = Len(script[l]) + 1
        /\ IsFiniteSet(TheShell!PassedOn(l - 1)) /\ Cardinality(KeptBy(s.fds)) = KeptAt(s)
    BY <1>3, <1>4, <1>9 DEF IsShell, Where
  <2>7. Len(script[l]) \in Nat \ {0} BY <1>2, <1>3, <2>6
  <2> HIDE DEF x, fds, l
  <2>8. l \in Nat \ {0} BY <1>3, <2>6
  <2>9. /\ IsFiniteSet(TheShell!PassedOn(l))
        /\ Cardinality(TheShell!PassedOn(l)) =
               Cardinality(TheShell!PassedOn(l - 1)) + Len(script[l]) - 1
    BY <2>6, <2>7, <2>8, PassedOnGrows
  <2>10. t.line - 1 = l BY <2>1, <2>8
  <2>11. KeptAt(t) = Cardinality(TheShell!PassedOn(l)) + 0
    BY <2>1, <2>10 DEF KeptAt
  <2>12. Cardinality(TheShell!PassedOn(l - 1)) \in Nat BY <2>6, FS_CardinalityType
  <2>13. Cardinality(KeptBy(t.fds)) = KeptAt(t)
    BY <2>1, <2>3, <2>5, <2>6, <2>7, <2>9, <2>11, <2>12
  <2>14. \A f \in KeptBy(s.fds) : f \in Numbers /\ f > 3 BY DEF KeptBy
  <2>15. \A f \in KeptBy(fds) : fds[f].end = "read"
    <3>1. \A f \in KeptBy(s.fds) : s.fds[f].end = "read" BY <1>9 DEF IsShell, Where
    <3> QED BY <2>3, <2>4, <2>14, <3>1
  <2>16. \A f \in Numbers : f <= 3 => fds[f] # TheShell!Closed
    <3>1. \A f \in Numbers : f <= 3 => s.fds[f] # TheShell!Closed /\ f # x
      BY <2>2, <2>14 DEF IsShell, Where, Numbers
    <3> QED BY <2>4, <3>1
  <2>17. l + 1 \in 1 .. Len(script) + 1 BY <1>3, <2>6
  <2> QED BY <2>1, <2>9, <2>10, <2>13, <2>15, <2>16, <2>17 DEF IsShell, Where
<1> QED BY <1>5, <1>6, <1>7, <1>8, <1>9 DEF ShellStep

\* Any table has two numbers that stand for what pipe() would give.
LEMMA SomeTwo ==
    ASSUME NEW fds, DOMAIN fds = Numbers, TheShell!ShellAssumption
    PROVE  \E two \in Numbers \X Numbers :
               TheShell!HasTwoFree(fds) =>
                   /\ two = TheShell!TwoFree(fds) /\ two[1] # two[2]
                   /\ fds[two[1]] = TheShell!Closed /\ fds[two[2]] = TheShell!Closed
<1>1. CASE TheShell!HasTwoFree(fds) BY <1>1, TwoAreFree
<1>2. CASE ~TheShell!HasTwoFree(fds)
  <2>1. <<0, 0>> \in Numbers \X Numbers BY DEF TheShell!ShellAssumption, Numbers
  <2> QED BY <1>2, <2>1
<1> QED BY <1>1, <1>2

\* What holds of the next stack, said of it as it is, holds in the next state.
LEMMA InTheNextState ==
    ASSUME script \in Scripts, script' = script, AreListed(pipes)', processes' \in Seq(Placed),
           processes' # <<>> => IsShell(processes'[1])
    PROVE  ShellInv'
<1>1. Placed' = Placed BY DEF Placed, Where
<1>2. ShellTypes' BY <1>1 DEF ShellTypes
<1>3. ASSUME processes' # <<>> PROVE IsShell(processes[1])'
  <2>1. \A l : TheShell!PassedOn(l)' = TheShell!PassedOn(l) BY DEF TheShell!PassedOn
  <2>2. \A x : KeptAt(x)' = KeptAt(x) BY <2>1 DEF KeptAt
  <2>3. \A x : IsShell(x)' <=> IsShell(x) BY <2>1, <2>2 DEF IsShell
  <2> QED BY <1>3, <2>3
<1> QED BY <1>2, <1>3 DEF ShellInv

\* The process on top takes a step of the shell.
LEMMA ShellMoves ==
    ASSUME TheShell!ShellAssumption, ShellInv, TheShell!p.at # "ended", NEW t,
           NEW two \in Numbers \X Numbers,
           TheShell!HasTwoFree(TheShell!p.fds) =>
               /\ two[1] # two[2] /\ TheShell!p.fds[two[1]] = TheShell!Closed
               /\ TheShell!p.fds[two[2]] = TheShell!Closed,
           ShellStep(TheShell!p, t, two)
    PROVE  t \in Placed /\ (Len(processes) = 1 => IsShell(t))
<1>1. ShellTypes /\ script \in Scripts BY DEF ShellInv, ShellTypes
<1>2. /\ TheShell!p \in Placed /\ processes # <<>>
      /\ TheShell!p = processes[Len(processes)]
  BY <1>1, OnTop
<1>3. t \in Placed BY <1>1, <1>2, ShellStepWhere
<1>4. Len(processes) = 1 => IsShell(TheShell!p) BY <1>2 DEF ShellInv
<1> QED BY <1>1, <1>2, <1>3, <1>4, ShellStepKeeps

\* The process on top becomes another, which is the shell where it was.
LEMMA TopChanges ==
    ASSUME ShellInv, processes # <<>>, NEW t \in Placed, Len(processes) = 1 => IsShell(t),
           TheShell!Set(t), script' = script, AreListed(pipes)'
    PROVE  ShellInv'
<1>1. ShellTypes /\ script \in Scripts /\ IsShell(processes[1]) BY DEF ShellInv, ShellTypes
<1>2. /\ processes' \in Seq(Placed) /\ processes' # <<>>
      /\ processes'[1] = IF Len(processes) = 1 THEN t ELSE processes[1]
  BY <1>1, SetIs
<1>3. IsShell(processes'[1]) BY <1>1, <1>2
<1> QED BY <1>1, <1>2, <1>3, InTheNextState

\* A process that runs a command, or is about to, is not the shell.
LEMMA NotTheShell ==
    ASSUME ShellInv, TheShell!p.at \in {"exec"} \cup TheShell!Commands
    PROVE  Len(processes) # 1 /\ processes # <<>> /\ TheShell!p \in Placed
<1>1. TheShell!p.at # "ended" BY DEF TheShell!Commands
<1>2. ShellTypes BY DEF ShellInv
<1>3. /\ processes # <<>> /\ TheShell!p \in Placed
      /\ TheShell!p = processes[Len(processes)]
  BY <1>1, <1>2, OnTop
<1>4. processes[1].at \in {"line", "component", "wait", "print"} BY <1>3 DEF ShellInv, IsShell
<1> QED BY <1>3, <1>4 DEF TheShell!Commands

\* The process on top ends.
LEMMA TopEnds ==
    ASSUME ShellInv, TheShell!p.at # "ended", TheShell!Exit, script' = script, pipes' = pipes
    PROVE  ShellInv'
<1>1. ShellTypes /\ script \in Scripts /\ AreListed(pipes) BY DEF ShellInv, ShellTypes
<1>2. processes # <<>> BY <1>1, OnTop
<1>3. processes' \in Seq(Placed) /\ (processes' # <<>> => processes'[1] = processes[1])
  BY <1>1, <1>2, ExitIs
<1>4. AreListed(pipes)' BY <1>1 DEF AreListed
<1>5. processes' # <<>> => IsShell(processes'[1]) BY <1>2, <1>3 DEF ShellInv
<1> QED BY <1>1, <1>3, <1>4, <1>5, InTheNextState

\* At the start the shell keeps nothing.
LEMMA InitShellInv ==
    ASSUME TheShell!ShellAssumption, TheShell!Init
    PROVE  ShellInv
<1> DEFINE fds == [f \in 0 .. MaxFd |-> IF f < 3 THEN TheShell!Terminal
                                       ELSE IF f = 3 THEN TheShell!InputFile ELSE TheShell!Closed]
           s == TheShell!Process(fds)
<1>1. /\ script \in Scripts /\ pipes = <<>> /\ processes = <<s>> BY DEF TheShell!Init
<1>2. Len(script) \in Nat BY <1>1 DEF TheShell!ShellAssumption
<1>3. fds \in [Numbers -> [pipe : Nat, end : EndsOfPipes]]
  BY DEF Numbers, EndsOfPipes, TheShell!Terminal, TheShell!InputFile, TheShell!Closed
<1>4. \A f \in Numbers : f <= 3 <=> fds[f] # TheShell!Closed
  BY DEF Numbers, TheShell!Terminal, TheShell!InputFile, TheShell!Closed
<1>5. /\ s.at = "line" /\ s.line = 1 /\ s.k = 1 /\ s.fds = fds /\ s.left = 0
      /\ s.prev = <<0, 0>> /\ s.current = <<0, 0>>
  BY DEF TheShell!Process
<1>6. 0 \in Numbers BY DEF Numbers, TheShell!ShellAssumption
<1> HIDE DEF fds
<1>7. s \in ProcessType BY <1>3, <1>6 DEF TheShell!Process, ProcessType
<1> HIDE DEF s
<1>8. s \in Placed BY <1>2, <1>5, <1>7 DEF Placed, Where
<1>9. AreListed(pipes) BY <1>1 DEF AreListed
<1>10. KeptBy(s.fds) = {} BY <1>4, <1>5 DEF KeptBy, Numbers
<1>11. TheShell!PassedOn(s.line - 1) = {} BY <1>5 DEF TheShell!PassedOn
<1>12. /\ Cardinality(KeptBy(s.fds)) = KeptAt(s) /\ IsFiniteSet(TheShell!PassedOn(s.line - 1))
  BY <1>5, <1>10, <1>11, FS_EmptySet DEF KeptAt
<1>13. IsShell(s) BY <1>4, <1>5, <1>10, <1>12 DEF IsShell
<1> QED BY <1>1, <1>8, <1>9, <1>13 DEF ShellInv, ShellTypes

\* The shell, or what has become one, starts a command and waits for it.
LEMMA ForkKeeps ==
    ASSUME TheShell!ShellAssumption, ShellInv, TheShell!Fork
    PROVE  ShellInv'
<1> DEFINE s == TheShell!p
           two == TheShell!TwoFree(s.fds)
           new == Len(pipes) + 1
           parent == [s EXCEPT !.at = "wait", !.current = two,
                               !.fds[two[1]] = [pipe |-> new, end |-> "read"],
                               !.fds[two[2]] = [pipe |-> new, end |-> "write"]]
           child == [parent EXCEPT !.at = "exec"]
<1>1. /\ s.at = "component" /\ s.k <= Len(script[s.line]) /\ TheShell!HasTwoFree(s.fds)
      /\ processes' = Append(TheShell!Front(processes), parent) \o <<child>>
      /\ pipes' = Append(pipes, <<>>) /\ script' = script
  BY DEF TheShell!Fork, TheShell!Line
<1>2. ShellTypes /\ script \in Scripts /\ AreListed(pipes) BY DEF ShellInv, ShellTypes
<1>3. s \in Placed /\ processes # <<>> BY <1>1, <1>2, OnTop
<1>4. DOMAIN s.fds = Numbers BY <1>3 DEF Placed, ProcessType
<1>5. /\ two \in Numbers \X Numbers /\ two[1] # two[2]
      /\ s.fds[two[1]] = TheShell!Closed /\ s.fds[two[2]] = TheShell!Closed
  BY <1>1, <1>4, TwoAreFree
<1>6. new \in Nat /\ AreListed(pipes)'
  <2>1. Len(pipes) \in Nat /\ AreListed(Append(pipes, <<>>)) BY <1>2, Listed
  <2> QED BY <1>1, <2>1 DEF AreListed
<1>7. ShellStep(s, parent, two) BY <1>1, <1>6 DEF ShellStep
<1> HIDE DEF s, two, new
<1>8. parent \in Placed /\ (Len(processes) = 1 => IsShell(parent))
  <2>1. s.at # "ended" BY <1>1
  <2> HIDE DEF parent
  <2> QED BY <1>5, <1>7, <2>1, ShellMoves DEF s
<1>9. child \in Placed
  <2>1. parent.at = "wait" BY <1>3 DEF Placed, ProcessType
  <2> HIDE DEF parent
  <2> QED BY <1>8, <2>1 DEF Placed, ProcessType, Where
<1> HIDE DEF parent, child
<1>10. /\ processes' \in Seq(Placed) /\ processes' # <<>>
       /\ processes'[1] = IF Len(processes) = 1 THEN parent ELSE processes[1]
  BY <1>1, <1>2, <1>3, <1>8, <1>9, ForkIs
<1>11. IsShell(processes'[1]) BY <1>3, <1>8, <1>10 DEF ShellInv
<1> QED BY <1>1, <1>2, <1>6, <1>10, <1>11, InTheNextState

\* A child gets its descriptors and runs its command, or goes on as a shell.
LEMMA ExecKeeps ==
    ASSUME TheShell!ShellAssumption, ShellInv, TheShell!Exec
    PROVE  ShellInv'
<1> DEFINE s == TheShell!p
           stdin == TheShell!Dup2(s.fds, s.prev[1], 0)
           stdout == TheShell!Dup2(stdin, s.current[2], 1)
           half == TheShell!Close(stdout, s.prev[2])
           fds == TheShell!Close(half, s.current[1])
           command == script[s.line][s.k]
           t == [s EXCEPT !.fds = fds,
                   !.at = IF command = "typo" THEN "wait" ELSE command,
                   !.left = IF command = "big" THEN PipeSize + 1 ELSE 1]
           Table == [Numbers -> [pipe : Nat, end : EndsOfPipes]]
<1>1. s.at = "exec" /\ TheShell!Set(t) /\ script' = script /\ pipes' = pipes
  BY DEF TheShell!Exec, TheShell!Line
<1>2. ShellTypes /\ script \in Scripts /\ AreListed(pipes) BY DEF ShellInv, ShellTypes
<1>3. Len(processes) # 1 /\ processes # <<>> /\ s \in Placed BY <1>1, NotTheShell
<1>4. s \in ProcessType /\ Where(s) BY <1>3 DEF Placed
<1>5. /\ s.fds \in Table /\ s.prev \in Numbers \X Numbers /\ s.current \in Numbers \X Numbers
  BY <1>4 DEF ProcessType
<1>6. \A x \in Table, a \in Numbers : \A b : TheShell!Dup2(x, a, b) \in Table
  BY DEF TheShell!Dup2
<1>7. \A x \in Table, a \in Numbers : TheShell!Close(x, a) \in Table
  BY DEF TheShell!Close, TheShell!Closed, EndsOfPipes
<1>8. command \in TheShell!Commands
  <2>1. s.line \in 1 .. Len(script) /\ s.k \in 1 .. Len(script[s.line])
    <3>1. Len(script) \in Nat BY <1>2 DEF TheShell!ShellAssumption
    <3>2. s.line \in 1 .. Len(script) + 1 /\ s.line <= Len(script) BY <1>1, <1>4 DEF Where
    <3>3. s.k \in 1 .. Len(script[s.line]) + 1 /\ s.k <= Len(script[s.line])
      BY <1>1, <1>4 DEF Where
    <3>4. Len(script[s.line]) \in Nat BY <1>2, <3>1, <3>2 DEF TheShell!ShellAssumption
    <3> QED BY ONLY <3>1, <3>2, <3>3, <3>4
  <2>2. script[s.line] \in Seq(TheShell!Commands)
    BY <1>2, <2>1 DEF TheShell!ShellAssumption
  <2> QED BY <2>1, <2>2
<1>9. fds \in Table
  <2> HIDE DEF Table
  <2>1. stdin \in Table BY <1>5, <1>6
  <2>2. stdout \in Table
    <3> HIDE DEF stdin
    <3> QED BY <1>5, <1>6, <2>1
  <2>3. half \in Table
    <3> HIDE DEF stdout
    <3> QED BY <1>5, <1>7, <2>2
  <2> HIDE DEF half
  <2> QED BY <1>5, <1>7, <2>3
<1>10. PipeSize + 1 \in Nat BY DEF TheShell!ShellAssumption
<1> HIDE DEF fds, command
<1>11. /\ t.line = s.line /\ t.k = s.k
       /\ t.at = IF command = "typo" THEN "wait" ELSE command
  BY <1>4 DEF ProcessType
<1>12. t \in ProcessType BY <1>4, <1>8, <1>9, <1>10 DEF ProcessType, TheShell!Commands
<1> HIDE DEF t
<1>13. Where(t)
  <2>1. t.at \notin {"line", "print"} BY <1>8, <1>11 DEF TheShell!Commands
  <2> QED BY <1>1, <1>4, <1>11, <2>1 DEF Where
<1>14. t \in Placed BY <1>12, <1>13 DEF Placed
<1>15. AreListed(pipes)' BY <1>1, <1>2 DEF AreListed
<1>16. TheShell!Set(t) BY <1>1
<1> QED BY <1>1, <1>3, <1>14, <1>15, <1>16, TopChanges

\* A step of the shell of which nobody else takes note.
LEMMA StepOfShell ==
    ASSUME TheShell!ShellAssumption, ShellInv, TheShell!p.at # "ended", script' = script,
           pipes' = pipes,
           NEW t, TheShell!Set(t), \A two : ShellStep(TheShell!p, t, two)
    PROVE  ShellInv'
<1> DEFINE s == TheShell!p
<1>1. ShellTypes /\ AreListed(pipes) BY DEF ShellInv, ShellTypes
<1>2. s \in Placed /\ processes # <<>> BY <1>1, OnTop
<1>3. DOMAIN s.fds = Numbers BY <1>2 DEF Placed, ProcessType
<1>4. PICK two \in Numbers \X Numbers :
          TheShell!HasTwoFree(s.fds) =>
              /\ two = TheShell!TwoFree(s.fds) /\ two[1] # two[2]
              /\ s.fds[two[1]] = TheShell!Closed /\ s.fds[two[2]] = TheShell!Closed
  BY <1>3, SomeTwo
<1>5. t \in Placed /\ (Len(processes) = 1 => IsShell(t)) BY <1>4, ShellMoves
<1>6. AreListed(pipes)' BY <1>1 DEF AreListed
<1> QED BY <1>2, <1>5, <1>6, TopChanges

\* Every step keeps it.
LEMMA StepShellInv ==
    ASSUME TheShell!ShellAssumption, ShellInv, TheShell!Next
    PROVE  ShellInv'
<1> DEFINE s == TheShell!p
<1>1. ShellTypes /\ script \in Scripts /\ AreListed(pipes) BY DEF ShellInv, ShellTypes
<1>2. CASE TheShell!StartLine
  <2> DEFINE two == TheShell!TwoFree(s.fds)
             t == [s EXCEPT !.at = "component", !.k = 1, !.prev = two]
  <2>1. /\ s.at = "line" /\ s.line <= Len(script) /\ TheShell!HasTwoFree(s.fds)
        /\ TheShell!Put(s.fds[1], TheShell!Announced, pipes) /\ TheShell!Set(t)
        /\ script' = script
    BY <1>2 DEF TheShell!StartLine
  <2>2. s \in Placed /\ processes # <<>> BY <1>1, <2>1, OnTop
  <2>3. DOMAIN s.fds = Numbers BY <2>2 DEF Placed, ProcessType
  <2>4. /\ two \in Numbers \X Numbers /\ two[1] # two[2]
        /\ s.fds[two[1]] = TheShell!Closed /\ s.fds[two[2]] = TheShell!Closed
    BY <2>1, <2>3, TwoAreFree
  <2>5. ShellStep(s, t, two) BY <2>1 DEF ShellStep
  <2>6. t \in Placed /\ (Len(processes) = 1 => IsShell(t))
    <3>1. s.at # "ended" BY <2>1
    <3> HIDE DEF t, two
    <3> QED BY <2>4, <2>5, <3>1, ShellMoves
  <2>7. AreListed(pipes)' BY <1>1, <2>1, PutLists
  <2> HIDE DEF t
  <2> QED BY <2>1, <2>2, <2>6, <2>7, TopChanges
<1>3. CASE TheShell!EndOfFile
  <2>1. s.at # "ended" /\ TheShell!Exit /\ script' = script /\ pipes' = pipes
    BY <1>3 DEF TheShell!EndOfFile
  <2> QED BY <2>1, TopEnds
<1>4. CASE TheShell!Fork BY <1>4, ForkKeeps
<1>5. CASE TheShell!Exec BY <1>5, ExecKeeps
<1>6. CASE TheShell!Reap
  <2> DEFINE t == [s EXCEPT !.at = "component", !.k = @ + 1, !.prev = s.current,
                            !.fds = TheShell!Close(@, s.current[2])]
  <2>1. s.at = "wait" /\ TheShell!Set(t) /\ script' = script /\ pipes' = pipes
    BY <1>6 DEF TheShell!Reap
  <2>2. \A two : ShellStep(s, t, two) BY <2>1 DEF ShellStep
  <2>3. s.at # "ended" BY <2>1
  <2> HIDE DEF t
  <2> QED BY <2>1, <2>2, <2>3, StepOfShell
<1>7. CASE TheShell!EndPipeline
  <2> DEFINE t == [s EXCEPT !.at = "print"]
  <2>1. /\ s.at = "component" /\ s.k > Len(script[s.line]) /\ TheShell!Set(t)
        /\ script' = script /\ pipes' = pipes
    BY <1>7 DEF TheShell!EndPipeline, TheShell!Line
  <2>2. \A two : ShellStep(s, t, two) BY <2>1 DEF ShellStep
  <2>3. s.at # "ended" BY <2>1
  <2> HIDE DEF t
  <2> QED BY <2>1, <2>2, <2>3, StepOfShell
<1>8. CASE TheShell!EndOfPrint
  <2> DEFINE t == [s EXCEPT !.at = "line", !.line = @ + 1,
                            !.fds = TheShell!Close(@, s.current[1])]
  <2>1. s.at = "print" /\ TheShell!Set(t) /\ script' = script /\ pipes' = pipes
    BY <1>8 DEF TheShell!EndOfPrint
  <2>2. \A two : ShellStep(s, t, two) BY <2>1 DEF ShellStep
  <2>3. s.at # "ended" BY <2>1
  <2> HIDE DEF t
  <2> QED BY <2>1, <2>2, <2>3, StepOfShell
<1>9. ASSUME AreListed(pipes)', script' = script, processes' = processes PROVE ShellInv'
  BY <1>1, <1>9, InTheNextState DEF ShellInv, ShellTypes
<1>10. CASE TheShell!PrintUnit
  <2> DEFINE from == s.fds[s.current[1]]
             rest == [pipes EXCEPT ![from.pipe] = Tail(@)]
  <2>1. /\ TheShell!Put(s.fds[1], Head(pipes[from.pipe]), rest)
        /\ script' = script /\ processes' = processes
    BY <1>10 DEF TheShell!PrintUnit
  <2>2. AreListed(rest) BY <1>1, Listed
  <2> HIDE DEF rest
  <2>3. AreListed(pipes)' BY <2>1, <2>2, PutLists
  <2> QED BY <1>9, <2>1, <2>3
<1>11. CASE TheShell!Copy
  <2> DEFINE from == s.fds[0].pipe
             rest == [pipes EXCEPT ![from] = Tail(@)]
  <2>1. /\ TheShell!Put(s.fds[1], Head(pipes[from]), rest)
        /\ script' = script /\ processes' = processes
    BY <1>11 DEF TheShell!Copy
  <2>2. AreListed(rest) BY <1>1, Listed
  <2> HIDE DEF rest
  <2>3. AreListed(pipes)' BY <2>1, <2>2, PutLists
  <2> QED BY <1>9, <2>1, <2>3
<1>12. CASE TheShell!Generate
  <2> DEFINE t == [s EXCEPT !.left = @ - 1]
  <2>1. /\ s.at \in {"gen", "big"} /\ s.left > 0 /\ TheShell!Set(t) /\ script' = script
        /\ TheShell!Put(s.fds[1], s.line, pipes)
    BY <1>12 DEF TheShell!Generate
  <2>2. Len(processes) # 1 /\ processes # <<>> /\ s \in Placed
    BY <2>1, NotTheShell DEF TheShell!Commands
  <2>3. s \in ProcessType /\ Where(s) BY <2>2 DEF Placed
  <2>4. s.left - 1 \in Nat BY <2>1, <2>3 DEF ProcessType
  <2>5. t \in ProcessType /\ t.at = s.at /\ t.line = s.line /\ t.k = s.k
    BY <2>3, <2>4 DEF ProcessType
  <2> HIDE DEF t
  <2>6. t \in Placed BY <2>3, <2>5 DEF Placed, Where
  <2>7. AreListed(pipes)' BY <1>1, <2>1, PutLists
  <2> QED BY <2>1, <2>2, <2>6, <2>7, TopChanges
<1>13. CASE TheShell!Generated
  <2>1. s.at # "ended" /\ TheShell!Exit /\ script' = script /\ pipes' = pipes
    BY <1>13 DEF TheShell!Generated
  <2> QED BY <2>1, TopEnds
<1>14. CASE TheShell!Copied
  <2>1. s.at # "ended" /\ TheShell!Exit /\ script' = script /\ pipes' = pipes
    BY <1>14 DEF TheShell!Copied
  <2> QED BY <2>1, TopEnds
<1> QED
  BY <1>2, <1>3, <1>4, <1>5, <1>6, <1>7, <1>8, <1>10, <1>11, <1>12, <1>13, <1>14
  DEF TheShell!Next

\* In every state it holds (lab5/zad1 main.c).
THEOREM ShellInvariance ==
    ASSUME TheShell!ShellAssumption PROVE TheShell!Spec => []ShellInv
<1>1. TheShell!Init => ShellInv BY InitShellInv
<1>2. ShellInv /\ [TheShell!Next]_TheShell!vars => ShellInv'
  <2> SUFFICES ASSUME ShellInv, [TheShell!Next]_TheShell!vars PROVE ShellInv'
    OBVIOUS
  <2>1. CASE TheShell!Next BY <2>1, StepShellInv
  <2>2. CASE UNCHANGED TheShell!vars
    <3>1. script' = script /\ pipes' = pipes /\ processes' = processes
      BY <2>2 DEF TheShell!vars
    <3> QED BY <3>1, InTheNextState DEF ShellInv, ShellTypes, AreListed
  <2> QED BY <2>1, <2>2
<1> QED BY <1>1, <1>2, PTL DEF TheShell!Spec

\* Whatever the script, and however often a command does not exist, between two
\* lines the shell has open for ever an end to read from for each output that a
\* command has passed on to the next, and no end to write to (lab5/zad1 main.c).
THEOREM ShellKeepsReadEnds ==
    ASSUME TheShell!ShellAssumption PROVE TheShell!Spec => []OnlyReadEndsLeak
<1>1. ShellInv => OnlyReadEndsLeak
  <2> SUFFICES ASSUME ShellInv, processes # <<>>, processes[1].at = "line"
               PROVE  LET kept == {f \in 4 .. MaxFd : processes[1].fds[f] # TheShell!Closed}
                      IN  /\ \A f \in kept : processes[1].fds[f].end = "read"
                          /\ TheShell!Cardinality(kept) =
                                 TheShell!Cardinality(TheShell!PassedOn(processes[1].line - 1))
    BY DEF OnlyReadEndsLeak, TheShell!OnlyReadEndsLeak, TheShell!Shell
  <2> DEFINE s == processes[1]
             kept == {f \in 4 .. MaxFd : s.fds[f] # TheShell!Closed}
  <2>1. IsShell(s) BY DEF ShellInv
  <2>2. kept = KeptBy(s.fds) BY DEF KeptBy, Numbers, TheShell!ShellAssumption
  <2>3. \A f \in kept : s.fds[f].end = "read" BY <2>1, <2>2 DEF IsShell
  <2>4. KeptAt(s) = Cardinality(TheShell!PassedOn(s.line - 1)) + 0 BY DEF KeptAt
  <2>5. Cardinality(TheShell!PassedOn(s.line - 1)) \in Nat
    BY <2>1, FS_CardinalityType DEF IsShell
  <2>6. Cardinality(KeptBy(s.fds)) = KeptAt(s) BY <2>1 DEF IsShell
  <2>7. Cardinality(kept) = Cardinality(TheShell!PassedOn(s.line - 1))
    <3> HIDE DEF kept, s
    <3> QED BY <2>2, <2>4, <2>5, <2>6
  <2> QED BY <2>3, <2>7, SameOperators
<1> QED BY <1>1, ShellInvariance, PTL

-------------------------------------------------------------------------------
(* The search, in any tree of directories.                                    *)

\* What a process can be, and what readdir returns of a directory in all.
ReaderType ==
    [at : {"none", "reads", "checks", "ended"}, left : Nat, file : Dirs \cup TextFiles,
     position : Nat, buffer : [TextFiles -> {0, 1}], entries : SUBSET (Dirs \cup TextFiles)]
SearchTypes ==
    /\ tty \in BOOLEAN /\ content \in [TextFiles -> Contents]
    /\ pattern \in Patterns /\ depth \in Depths
    /\ process \in [Dirs -> ReaderType] /\ printed \in [TextFiles -> Nat]
    /\ missed \in SUBSET ((Dirs \ {Root}) \cup TextFiles)
EntriesOf(d) == {e \in Dirs \ {Root} : Parent[e] = d} \cup {f \in TextFiles : Place[f] = d}

\* The pattern is not where check_file has looked.
NotBefore(f, position) ==
    \A k \in 0 .. position - 1 : pattern # SubSeq(content[f], k + 1, k + Len(pattern))

\* A process that reads d: its depth, what it has still to do, and its file.
Reads(d, r) ==
    /\ r.left + Cardinality(Above[d]) = depth
    /\ r.entries \subseteq EntriesOf(d)
    /\ r.at = "ended" => r.entries = {}
    /\ r.at = "checks" =>
          /\ r.file \in TextFiles /\ Place[r.file] = d /\ r.file \notin r.entries
          /\ NotBefore(r.file, r.position)

\* A directory has a process if its own directory has passed it in reach, and
\* no call that failed has kept it from having one.
Forked(d) ==
    /\ d = Root => process[d].at # "none"
    /\ d # Root =>
          IF process[d].at = "none"
          THEN \/ process[Parent[d]].at = "none" \/ d \in process[Parent[d]].entries
               \/ Cardinality(Above[d]) > depth
               \/ d \in missed
          ELSE /\ process[Parent[d]].at # "none" /\ d \notin process[Parent[d]].entries
               /\ d \notin missed
    /\ d \in missed => process[Parent[d]].at # "none" /\ d \notin process[Parent[d]].entries

\* A process is done with a file.
HasChecked(r, f) ==
    r.at # "none" /\ f \notin r.entries /\ ~(r.at = "checks" /\ r.file = f)

\* A line is in the buffer of who has found it, and of those forked after that.
Buffers(d, r) ==
    \A f \in TextFiles :
        /\ r.buffer[f] = 1 =>
              /\ ~tty /\ r.at # "none" /\ Tree!HasPattern(f)
              /\ Place[f] = d \/ Place[f] \in Above[d]
        /\ Place[f] = d /\ ~tty /\ HasChecked(r, f) /\ Tree!HasPattern(f) /\ f \notin missed =>
              r.buffer[f] = 1
        /\ Place[f] = d /\ r.buffer[f] = 1 => HasChecked(r, f)

\* What is missed is done with, and in no buffer.
Passed(f) == HasChecked(process[Place[f]], f)
Gone(f) ==
    /\ f \in missed => Passed(f)
    /\ \A d \in Dirs : process[d].buffer[f] = 1 => Passed(f) /\ f \notin missed

\* It has come out once on a terminal, else once of each such buffer.
Printers(f) == {d \in Dirs : process[d].at = "ended" /\ process[d].buffer[f] = 1}
ComesOut(f) ==
    printed[f] = IF tty THEN IF Passed(f) /\ Tree!HasPattern(f) /\ f \notin missed THEN 1 ELSE 0
                 ELSE Cardinality(Printers(f))

SearchInv ==
    /\ SearchTypes
    /\ \A d \in Dirs : Forked(d) /\ Buffers(d, process[d])
    /\ \A d \in Dirs : process[d].at # "none" => Reads(d, process[d])
    /\ \A f \in TextFiles : ComesOut(f) /\ Gone(f)

\* The smaller of two numbers.
LEMMA MinOfTwo ==
    ASSUME NEW a \in Nat, NEW b \in Nat
    PROVE  Tree!Min({a, b}) = IF a <= b THEN a ELSE b
<1> DEFINE m == IF a <= b THEN a ELSE b
<1>1. m \in {a, b} /\ \A y \in {a, b} : m <= y OBVIOUS
<1>2. \A x \in {a, b} : (\A y \in {a, b} : x <= y) => x = m OBVIOUS
<1> QED BY <1>1, <1>2 DEF Tree!Min

\* What fread gets, and what it means that it is as long as the pattern or not.
LEMMA WindowIs ==
    ASSUME Tree!SearchAssumption, SearchTypes, NEW d \in Dirs, process[d].file \in TextFiles
    PROVE  LET w == Tree!Window(d)
               f == process[d].file
               from == process[d].position
           IN  /\ w = pattern => Tree!HasPattern(f)
               /\ Len(w) = Len(pattern) /\ w # pattern =>
                     pattern # SubSeq(content[f], from + 1, from + Len(pattern))
               /\ Len(w) < Len(pattern) => from + Len(pattern) > Len(content[f])
<1> DEFINE w == Tree!Window(d)
           f == process[d].file
           text == content[f]
           from == process[d].position
           to == IF from + Len(pattern) <= Len(text) THEN from + Len(pattern) ELSE Len(text)
<1>1. text \in Seq(Characters) /\ pattern \in Seq(Characters)
  BY DEF SearchTypes, Tree!SearchAssumption
<1>2. from \in Nat BY DEF SearchTypes, ReaderType
<1>3. Len(text) \in Nat /\ Len(pattern) \in Nat /\ to \in Nat BY <1>1, <1>2
<1>4. w = SubSeq(text, from + 1, to)
  <2>1. from + Len(pattern) \in Nat BY <1>2, <1>3
  <2>2. Tree!Min({from + Len(pattern), Len(text)}) = to BY <1>3, <2>1, MinOfTwo
  <2>3. w = SubSeq(text, from + 1, Tree!Min({from + Len(pattern), Len(text)}))
    BY DEF Tree!Window
  <2> QED BY <2>2, <2>3, Zenon
<1> HIDE DEF w, text, from
<1>5. w \in Seq(Characters) /\ Len(w) = IF from + 1 <= to THEN to - from ELSE 0
  BY <1>1, <1>2, <1>3, <1>4
<1>6. CASE from + Len(pattern) <= Len(text)
  <2>1. w = SubSeq(text, from + 1, from + Len(pattern)) BY <1>4, <1>6
  <2>2. Len(w) = Len(pattern) BY <1>2, <1>3, <1>5, <1>6
  <2>3. from \in 0 .. Len(text) - Len(pattern) BY <1>2, <1>3, <1>6
  <2>4. w = pattern => Tree!HasPattern(f) BY <2>1, <2>3 DEF Tree!HasPattern, text
  <2>5. ~(Len(w) < Len(pattern)) BY <1>3, <2>2
  <2> QED BY <2>1, <2>4, <2>5, Zenon DEF w, text, from
<1>7. CASE from + Len(pattern) > Len(text)
  <2>1. to = Len(text) BY <1>2, <1>3, <1>7
  <2>2. CASE Len(pattern) = 0
    <3>1. Len(w) = 0 BY <1>2, <1>3, <1>5, <1>7, <2>1, <2>2
    <3>2. w = pattern BY <1>1, <1>5, <2>2, <3>1
    <3>3. 0 \in 0 .. Len(text) - Len(pattern) BY <1>3, <2>2
    <3>4. SubSeq(text, 0 + 1, 0 + Len(pattern)) = pattern BY <1>1, <2>2
    <3>5. Tree!HasPattern(f) BY <3>3, <3>4 DEF Tree!HasPattern, text
    <3> QED BY <1>3, <2>2, <3>1, <3>2, <3>5 DEF w, text, from
  <2>3. CASE Len(pattern) # 0
    <3>1. Len(w) < Len(pattern) BY <1>2, <1>3, <1>5, <1>7, <2>1, <2>3
    <3> QED BY <1>3, <1>7, <3>1 DEF w, text, from
  <2> QED BY <2>2, <2>3
<1> QED BY <1>2, <1>3, <1>6, <1>7

\* At the start nobody has read anything.
LEMMA InitSearchInv ==
    ASSUME Tree!SearchAssumption, Tree!Init
    PROVE  SearchInv
<1> DEFINE start(d) == Tree!Reader(IF d = Root THEN "reads" ELSE "none", d, depth, Tree!NoLines)
<1>1. /\ tty \in BOOLEAN /\ content \in [TextFiles -> Contents] /\ pattern \in Patterns
      /\ depth \in Depths /\ depth \in Nat /\ printed = [f \in TextFiles |-> 0] /\ missed = {}
      /\ process = [d \in Dirs |-> start(d)]
  BY DEF Tree!Init, Tree!NoLines, Tree!SearchAssumption
<1>2. ASSUME NEW d \in Dirs
      PROVE  /\ process[d].at = (IF d = Root THEN "reads" ELSE "none")
             /\ process[d].left = depth /\ process[d].entries = EntriesOf(d)
             /\ process[d].buffer = [f \in TextFiles |-> 0] /\ process[d].position = 0
             /\ process[d].file = d /\ process[d] \in ReaderType
  <2>1. EntriesOf(d) \in SUBSET (Dirs \cup TextFiles) BY DEF EntriesOf
  <2>2. process[d] = [at |-> IF d = Root THEN "reads" ELSE "none", left |-> depth, file |-> d,
                      position |-> 0, buffer |-> [f \in TextFiles |-> 0],
                      entries |-> EntriesOf(d)]
    BY <1>1 DEF Tree!Reader, Tree!Entries, Tree!NoLines, EntriesOf
  <2> QED BY <1>1, <2>1, <2>2 DEF ReaderType
<1> HIDE DEF start
<1>3. SearchTypes
  <2>1. process \in [Dirs -> ReaderType] BY <1>1, <1>2
  <2> QED BY <1>1, <2>1 DEF SearchTypes
<1>4. ASSUME NEW d \in Dirs PROVE Forked(d)
  <2>1. d = Root => process[d].at = "reads" BY <1>2
  <2>2. CASE d # Root
    <3>1. Parent[d] \in Dirs BY <2>2 DEF Tree!SearchAssumption
    <3>2. d \in process[Parent[d]].entries BY <1>2, <2>2, <3>1 DEF EntriesOf
    <3>3. process[d].at = "none" BY <1>2, <2>2
    <3> QED BY <1>1, <2>2, <3>2, <3>3 DEF Forked
  <2> QED BY <1>1, <2>1, <2>2 DEF Forked
<1>5. ASSUME NEW d \in Dirs, NEW f \in TextFiles, Place[f] = d
      PROVE  ~HasChecked(process[d], f)
  BY <1>2, <1>5 DEF HasChecked, EntriesOf
<1>6. ASSUME NEW d \in Dirs PROVE Buffers(d, process[d])
  <2>1. \A f \in TextFiles : process[d].buffer[f] = 0 BY <1>2
  <2> QED BY <1>5, <2>1 DEF Buffers
<1>7. ASSUME NEW d \in Dirs, process[d].at # "none" PROVE Reads(d, process[d])
  <2>1. d = Root /\ Cardinality(Above[d]) = 0
    BY <1>2, <1>7, FS_EmptySet DEF Tree!SearchAssumption
  <2> QED BY <1>1, <1>2, <2>1 DEF Reads
<1>8. ASSUME NEW f \in TextFiles PROVE ComesOut(f) /\ Gone(f)
  <2>1. Place[f] \in Dirs BY DEF Tree!SearchAssumption
  <2>2. Printers(f) = {} BY <1>2 DEF Printers
  <2> QED BY <1>1, <1>2, <1>5, <2>1, <2>2, FS_EmptySet DEF ComesOut, Gone, Passed
<1> QED BY <1>3, <1>4, <1>6, <1>7, <1>8 DEF SearchInv

\* The instance counts as this module does.
LEMMA SearchCounts ==
    /\ \A S : Tree!Cardinality(S) = Cardinality(S)
    /\ \A S : Tree!IsFiniteSet(S) <=> IsFiniteSet(S)
BY DEF Tree!Cardinality, Cardinality, Tree!IsFiniteSet, IsFiniteSet

\* A directory is one deeper than the one it is in.
LEMMA OneDeeper ==
    ASSUME Tree!SearchAssumption
    PROVE  /\ \A d \in Dirs : Cardinality(Above[d]) \in Nat
           /\ \A d \in Dirs \ {Root} :
                 Cardinality(Above[d]) = Cardinality(Above[Parent[d]]) + 1
<1>1. ASSUME NEW d \in Dirs PROVE IsFiniteSet(Above[d])
  <2>1. Above[d] \in SUBSET Dirs /\ IsFiniteSet(Dirs)
    BY SearchCounts DEF Tree!SearchAssumption
  <2> QED BY <2>1, FS_Subset
<1>2. ASSUME NEW d \in Dirs \ {Root}
      PROVE  Cardinality(Above[d]) = Cardinality(Above[Parent[d]]) + 1
  <2>1. Parent[d] \in Dirs BY DEF Tree!SearchAssumption
  <2>2. Parent[d] \notin Above[Parent[d]] BY <2>1 DEF Tree!SearchAssumption
  <2>3. Above[d] = Above[Parent[d]] \cup {Parent[d]} BY DEF Tree!SearchAssumption
  <2> QED BY <1>1, <2>1, <2>2, <2>3, FS_AddElement
<1> QED BY <1>1, <1>2, FS_CardinalityType

\* Two directories are not in each other.
LEMMA NoCycle ==
    ASSUME Tree!SearchAssumption, NEW e \in Dirs \ {Root}
    PROVE  /\ Parent[e] \in Dirs /\ Parent[e] # e
           /\ Parent[e] # Root => Parent[Parent[e]] # e
           /\ Above[e] = Above[Parent[e]] \cup {Parent[e]} /\ e \notin Above[Parent[e]]
<1>1. Parent[e] \in Dirs BY DEF Tree!SearchAssumption
<1>2. Above[e] = Above[Parent[e]] \cup {Parent[e]} /\ e \notin Above[e]
  BY DEF Tree!SearchAssumption
<1>3. Parent[e] # Root => Parent[Parent[e]] \in Above[Parent[e]]
  BY <1>1 DEF Tree!SearchAssumption
<1> QED BY <1>1, <1>2, <1>3

\* What holds of the next processes, said as it is, holds in the next state.
LEMMA NextSearch ==
    ASSUME SearchTypes, UNCHANGED Tree!arguments, missed' = missed,
           process' \in [Dirs -> ReaderType], printed' \in [TextFiles -> Nat],
           \A d \in Dirs : Forked(d)' /\ Buffers(d, process'[d]),
           \A d \in Dirs : process'[d].at # "none" => Reads(d, process'[d]),
           \A f \in TextFiles : ComesOut(f)' /\ Gone(f)'
    PROVE  SearchInv'
<1>1. tty' = tty /\ content' = content /\ pattern' = pattern /\ depth' = depth
  BY DEF Tree!arguments
<1>2. SearchTypes' BY <1>1 DEF SearchTypes
<1>3. \A f : Tree!HasPattern(f)' <=> Tree!HasPattern(f) BY <1>1 DEF Tree!HasPattern
<1>4. \A d, r : Reads(d, r)' <=> Reads(d, r) BY <1>1 DEF Reads, NotBefore
<1>5. \A d, r : Buffers(d, r)' <=> Buffers(d, r) BY <1>1, <1>3 DEF Buffers
<1>6. \A d \in Dirs : Buffers(d, process[d])' BY <1>5
<1>7. \A d \in Dirs : process'[d].at # "none" => Reads(d, process[d])' BY <1>4
<1> QED BY <1>2, <1>6, <1>7 DEF SearchInv

\* A process keeps what it is done with, and only then has another line.
GoesOn(d, t, f) ==
    /\ HasChecked(process[d], f) => HasChecked(t, f)
    /\ t.buffer[f] = 1 =>
          process[d].buffer[f] = 1 \/ (Place[f] = d /\ ~HasChecked(process[d], f))

\* One process takes a step and forks no other.
LEMMA OneChanges ==
    ASSUME Tree!SearchAssumption, SearchInv, UNCHANGED Tree!arguments, missed' = missed,
           NEW d \in Dirs, process[d].at # "none", NEW t \in ReaderType, t.at # "none",
           process' = [process EXCEPT ![d] = t], Reads(d, t), Buffers(d, t),
           t.entries \subseteq process[d].entries,
           \A e \in Dirs : e \in process[d].entries \ t.entries => process[d].left = 0,
           \A f \in TextFiles : GoesOn(d, t, f),
           printed' \in [TextFiles -> Nat], \A f \in TextFiles : ComesOut(f)'
    PROVE  SearchInv'
<1>1. SearchTypes /\ process \in [Dirs -> ReaderType] BY DEF SearchInv, SearchTypes
<1>2. process' \in [Dirs -> ReaderType] BY <1>1
<1>3. \A e \in Dirs : process'[e] = IF e = d THEN t ELSE process[e] BY <1>1
<1>4. tty' = tty /\ content' = content /\ pattern' = pattern /\ depth' = depth
  BY DEF Tree!arguments
<1>5. ASSUME NEW e \in Dirs PROVE Forked(e)'
  <2>1. Forked(e) BY DEF SearchInv
  <2>4. ASSUME e \in missed
        PROVE  process'[Parent[e]].at # "none" /\ e \notin process'[Parent[e]].entries
    <3>1. e # Root BY <1>1, <2>4 DEF SearchTypes, Tree!SearchAssumption
    <3>2. Parent[e] \in Dirs BY <3>1 DEF Tree!SearchAssumption
    <3>3. process[Parent[e]].at # "none" /\ e \notin process[Parent[e]].entries
      BY <2>1, <2>4 DEF Forked
    <3> QED BY <1>3, <3>2, <3>3
  <2>2. CASE e = Root
    <3>1. process[e].at # "none" BY <2>1, <2>2 DEF Forked
    <3> QED BY <1>3, <2>2, <2>4, <3>1 DEF Forked
  <2>3. CASE e # Root
    <3> DEFINE up == Parent[e]
    <3>1. up \in Dirs BY <2>3 DEF Tree!SearchAssumption
    <3>2. CASE process[e].at = "none"
      <4>1. \/ process[up].at = "none" \/ e \in process[up].entries
            \/ Cardinality(Above[e]) > depth \/ e \in missed
        BY <2>1, <2>3, <3>2 DEF Forked
      <4>2. process'[e] = process[e] BY <1>3, <3>2
      <4>3. \/ process'[up].at = "none" \/ e \in process'[up].entries
            \/ Cardinality(Above[e]) > depth \/ e \in missed
        <5>1. CASE up # d BY <1>3, <3>1, <4>1, <5>1
        <5>2. CASE up = d /\ e \in process[up].entries /\ e \notin t.entries
          <6>1. process[d].left = 0 BY <5>2
          <6>2. Reads(d, process[d]) BY DEF SearchInv
          <6>3. Cardinality(Above[d]) = depth /\ depth \in Nat
            BY <6>1, <6>2, OneDeeper DEF Reads
          <6>4. Cardinality(Above[e]) = Cardinality(Above[d]) + 1
            BY <2>3, <5>2, OneDeeper
          <6> QED BY <6>3, <6>4
        <5> QED BY <1>3, <3>1, <4>1, <5>1, <5>2
      <4> HIDE DEF up
      <4> QED BY <1>4, <2>3, <2>4, <3>2, <4>2, <4>3 DEF Forked, up
    <3>3. CASE process[e].at # "none"
      <4>1. process[up].at # "none" /\ e \notin process[up].entries /\ e \notin missed
        BY <2>1, <2>3, <3>3 DEF Forked
      <4>2. process'[e].at # "none" BY <1>3, <3>3
      <4>3. process'[up].at # "none" /\ e \notin process'[up].entries
        BY <1>3, <3>1, <4>1
      <4> QED BY <2>3, <2>4, <4>1, <4>2, <4>3 DEF Forked
    <3> QED BY <3>2, <3>3
  <2> QED BY <2>2, <2>3
<1>8. ASSUME NEW f \in TextFiles PROVE Gone(f)'
  <2>1. Gone(f) /\ Place[f] \in Dirs BY DEF SearchInv, Tree!SearchAssumption
  <2>2. Passed(f)' <=> HasChecked(process'[Place[f]], f) BY DEF Passed, HasChecked
  <2>3. Passed(f) => Passed(f)' BY <1>3, <2>1, <2>2 DEF Passed, GoesOn
  <2>4. t.buffer[f] = 1 => Passed(f)' /\ f \notin missed
    <3>1. CASE process[d].buffer[f] = 1 BY <2>1, <2>3, <3>1 DEF Gone
    <3>2. CASE t.buffer[f] = 1 /\ Place[f] = d /\ ~HasChecked(process[d], f)
      <4>1. HasChecked(t, f) BY <3>2 DEF Buffers
      <4> QED BY <1>3, <2>1, <2>2, <3>2, <4>1 DEF Gone, Passed
    <3> QED BY <3>1, <3>2 DEF GoesOn
  <2>5. ASSUME NEW e \in Dirs, process'[e].buffer[f] = 1 PROVE Passed(f)' /\ f \notin missed'
    <3>1. CASE e = d BY <1>3, <2>4, <2>5, <3>1
    <3>2. CASE e # d BY <1>3, <2>1, <2>3, <2>5, <3>2 DEF Gone
    <3> QED BY <3>1, <3>2
  <2> QED BY <2>1, <2>3, <2>5 DEF Gone
<1>6. \A e \in Dirs : Buffers(e, process'[e]) BY <1>3 DEF SearchInv
<1>7. \A e \in Dirs : process'[e].at # "none" => Reads(e, process'[e]) BY <1>3 DEF SearchInv
<1> QED BY <1>1, <1>2, <1>5, <1>6, <1>7, <1>8, NextSearch

\* What has come out stays right while a process that has not ended goes on.
LEMMA OutStays ==
    ASSUME Tree!SearchAssumption, SearchInv, UNCHANGED Tree!arguments, missed' = missed,
           NEW d \in Dirs, NEW t \in ReaderType, process' = [process EXCEPT ![d] = t],
           process[d].at # "ended", t.at # "ended", printed' = printed,
           NEW f \in TextFiles,
           tty /\ Place[f] = d /\ Tree!HasPattern(f) =>
               (HasChecked(t, f) <=> HasChecked(process[d], f))
    PROVE  ComesOut(f)'
<1>1. process \in [Dirs -> ReaderType] /\ ComesOut(f) BY DEF SearchInv, SearchTypes
<1>2. \A e \in Dirs : process'[e] = IF e = d THEN t ELSE process[e] BY <1>1
<1>3. tty' = tty /\ content' = content /\ pattern' = pattern BY DEF Tree!arguments
<1>4. Tree!HasPattern(f)' <=> Tree!HasPattern(f) BY <1>3 DEF Tree!HasPattern
<1>5. Printers(f)' = Printers(f) BY <1>2 DEF Printers
<1>6. \A r : HasChecked(r, f)' <=> HasChecked(r, f) BY DEF HasChecked
<1>7. Place[f] \in Dirs BY DEF Tree!SearchAssumption
<1>8. tty /\ Tree!HasPattern(f) =>
          (HasChecked(process'[Place[f]], f) <=> HasChecked(process[Place[f]], f))
  BY <1>2, <1>7
<1>9. HasChecked(process[Place[f]], f)' <=> HasChecked(process'[Place[f]], f) BY <1>6
<1> QED BY <1>1, <1>3, <1>4, <1>5, <1>8, <1>9 DEF ComesOut, Passed

\* A directory below the depth is passed.
LEMMA SkipKeeps ==
    ASSUME Tree!SearchAssumption, SearchInv, NEW d \in Dirs, NEW e \in Dirs, Tree!SkipEntry(d, e)
    PROVE  SearchInv'
<1> DEFINE r == process[d]
           t == [r EXCEPT !.entries = @ \ {e}]
<1>1. /\ r.at = "reads" /\ e \in r.entries /\ r.left = 0 /\ process' = [process EXCEPT ![d] = t]
      /\ UNCHANGED Tree!arguments /\ printed' = printed /\ missed' = missed
  BY DEF Tree!SkipEntry
<1>2. r \in ReaderType /\ printed \in [TextFiles -> Nat] BY DEF SearchInv, SearchTypes
<1>3. /\ t \in ReaderType /\ t.at = r.at /\ t.left = r.left /\ t.buffer = r.buffer
      /\ t.entries = r.entries \ {e}
  BY <1>2 DEF ReaderType
<1>4. Reads(d, r) /\ Buffers(d, r) BY <1>1 DEF SearchInv
<1> HIDE DEF t
<1>5. Reads(d, t) BY <1>1, <1>3, <1>4 DEF Reads
<1>6. \A f \in TextFiles : HasChecked(t, f) <=> HasChecked(r, f)
  <2>1. e \notin TextFiles BY DEF Tree!SearchAssumption
  <2> QED BY <1>1, <1>3, <2>1 DEF HasChecked
<1>7. Buffers(d, t) BY <1>3, <1>4, <1>6 DEF Buffers
<1>8. \A f \in TextFiles : ComesOut(f)' BY <1>1, <1>3, <1>6, OutStays
<1>9. \A f \in TextFiles : GoesOn(d, t, f) BY <1>3, <1>6 DEF GoesOn
<1> QED BY <1>1, <1>2, <1>3, <1>5, <1>7, <1>8, <1>9, OneChanges

\* A text file is opened.
LEMMA OpenKeeps ==
    ASSUME Tree!SearchAssumption, SearchInv, NEW d \in Dirs, NEW g \in TextFiles,
           Tree!OpenFile(d, g)
    PROVE  SearchInv'
<1> DEFINE r == process[d]
           t == [r EXCEPT !.entries = @ \ {g}, !.at = "checks", !.file = g, !.position = 0]
<1>1. /\ r.at = "reads" /\ g \in r.entries /\ UNCHANGED Tree!arguments
      /\ printed' = printed /\ missed' = missed
      /\ process' = [process EXCEPT ![d].entries = @ \ {g}, ![d].at = "checks",
                                    ![d].file = g, ![d].position = 0]
  BY DEF Tree!OpenFile
<1>2. r \in ReaderType /\ process \in [Dirs -> ReaderType] /\ printed \in [TextFiles -> Nat]
  BY DEF SearchInv, SearchTypes
<1>3. process' = [process EXCEPT ![d] = t] BY <1>1, <1>2
<1>4. /\ t \in ReaderType /\ t.at = "checks" /\ t.left = r.left /\ t.buffer = r.buffer
      /\ t.entries = r.entries \ {g} /\ t.file = g /\ t.position = 0
  BY <1>2 DEF ReaderType
<1>5. Reads(d, r) /\ Buffers(d, r) BY <1>1 DEF SearchInv
<1> HIDE DEF t
<1>6. g \notin Dirs BY DEF Tree!SearchAssumption
<1>7. Place[g] = d BY <1>1, <1>5, <1>6 DEF Reads, EntriesOf
<1>8. Reads(d, t)
  <2>1. NotBefore(g, 0) BY DEF NotBefore
  <2> QED BY <1>1, <1>4, <1>5, <1>7, <2>1 DEF Reads
<1>9. \A f \in TextFiles : HasChecked(t, f) <=> HasChecked(r, f)
  BY <1>1, <1>4 DEF HasChecked
<1>10. Buffers(d, t) BY <1>1, <1>4, <1>5, <1>9 DEF Buffers
<1>11. \A f \in TextFiles : ComesOut(f)' BY <1>1, <1>3, <1>4, <1>9, OutStays
<1>12. \A x \in Dirs : x \notin r.entries \ t.entries BY <1>4, <1>6
<1>13. \A f \in TextFiles : GoesOn(d, t, f) BY <1>4, <1>9 DEF GoesOn
<1> QED BY <1>1, <1>2, <1>3, <1>4, <1>8, <1>10, <1>11, <1>12, <1>13, OneChanges

\* The pattern is not where check_file looks.
LEMMA WindowKeeps ==
    ASSUME Tree!SearchAssumption, SearchInv, NEW d \in Dirs, Tree!NextWindow(d)
    PROVE  SearchInv'
<1> DEFINE r == process[d]
           t == [r EXCEPT !.position = @ + 1]
<1>1. /\ r.at = "checks" /\ UNCHANGED Tree!arguments /\ printed' = printed /\ missed' = missed
      /\ Len(Tree!Window(d)) = Len(pattern) /\ Tree!Window(d) # pattern
      /\ process' = [process EXCEPT ![d] = t]
  BY DEF Tree!NextWindow, Tree!Step
<1>2. r \in ReaderType /\ printed \in [TextFiles -> Nat] /\ SearchTypes
  BY DEF SearchInv, SearchTypes
<1>3. /\ t \in ReaderType /\ t.at = r.at /\ t.left = r.left /\ t.buffer = r.buffer
      /\ t.entries = r.entries /\ t.file = r.file /\ t.position = r.position + 1
      /\ r.position \in Nat
  BY <1>2 DEF ReaderType
<1>4. Reads(d, r) /\ Buffers(d, r) BY <1>1 DEF SearchInv
<1> HIDE DEF t
<1>5. r.file \in TextFiles /\ NotBefore(r.file, r.position) BY <1>1, <1>4 DEF Reads
<1>6. NotBefore(r.file, r.position + 1)
  <2>1. pattern # SubSeq(content[r.file], r.position + 1, r.position + Len(pattern))
    BY <1>1, <1>2, <1>5, WindowIs
  <2>2. \A k \in 0 .. (r.position + 1) - 1 : k = r.position \/ k \in 0 .. r.position - 1
    BY <1>3
  <2>3. ASSUME NEW k \in 0 .. (r.position + 1) - 1
        PROVE  pattern # SubSeq(content[r.file], k + 1, k + Len(pattern))
    <3>1. CASE k = r.position BY <2>1, <3>1, Zenon
    <3>2. CASE k \in 0 .. r.position - 1 BY <1>5, <3>2, Zenon DEF NotBefore
    <3> QED BY <2>2, <3>1, <3>2
  <2> QED BY <2>3, Zenon DEF NotBefore
<1>7. Reads(d, t) BY <1>1, <1>3, <1>4, <1>6 DEF Reads
<1>8. \A f \in TextFiles : HasChecked(t, f) <=> HasChecked(r, f) BY <1>3 DEF HasChecked
<1>9. Buffers(d, t) BY <1>3, <1>4, <1>8 DEF Buffers
<1>10. \A f \in TextFiles : ComesOut(f)' BY <1>1, <1>3, <1>8, OutStays
<1>11. \A x \in Dirs : x \notin r.entries \ t.entries BY <1>3
<1>12. \A f \in TextFiles : GoesOn(d, t, f) BY <1>3, <1>8 DEF GoesOn
<1> QED BY <1>1, <1>2, <1>3, <1>7, <1>9, <1>10, <1>11, <1>12, OneChanges

\* The pattern is nowhere in the file.
LEMMA NotFoundKeeps ==
    ASSUME Tree!SearchAssumption, SearchInv, NEW d \in Dirs, Tree!NotFound(d)
    PROVE  SearchInv'
<1> DEFINE r == process[d]
           t == [r EXCEPT !.at = "reads"]
<1>1. /\ r.at = "checks" /\ UNCHANGED Tree!arguments /\ printed' = printed /\ missed' = missed
      /\ Len(Tree!Window(d)) < Len(pattern) /\ process' = [process EXCEPT ![d] = t]
  <2>1. process' = [process EXCEPT ![d].at = "reads"] BY DEF Tree!NotFound
  <2> QED BY <2>1 DEF Tree!NotFound
<1>2. r \in ReaderType /\ printed \in [TextFiles -> Nat] /\ SearchTypes
  BY DEF SearchInv, SearchTypes
<1>3. /\ t \in ReaderType /\ t.at = "reads" /\ t.left = r.left /\ t.buffer = r.buffer
      /\ t.entries = r.entries /\ r.position \in Nat
  BY <1>2 DEF ReaderType
<1>4. Reads(d, r) /\ Buffers(d, r) BY <1>1 DEF SearchInv
<1> HIDE DEF t
<1>5. r.file \in TextFiles /\ NotBefore(r.file, r.position) BY <1>1, <1>4 DEF Reads
<1>6. ~Tree!HasPattern(r.file)
  <2>1. r.position + Len(pattern) > Len(content[r.file]) BY <1>1, <1>2, <1>5, WindowIs
  <2>2. Len(content[r.file]) \in Nat /\ Len(pattern) \in Nat
    BY <1>2, <1>5 DEF SearchTypes, Tree!SearchAssumption
  <2>3. \A k \in 0 .. Len(content[r.file]) - Len(pattern) : k \in 0 .. r.position - 1
    BY <1>3, <2>1, <2>2
  <2> QED BY <1>5, <2>3, Zenon DEF NotBefore, Tree!HasPattern
<1>7. Reads(d, t) BY <1>1, <1>3, <1>4 DEF Reads
<1>8. \A f \in TextFiles : /\ HasChecked(r, f) => HasChecked(t, f)
                           /\ f # r.file => (HasChecked(t, f) <=> HasChecked(r, f))
  BY <1>1, <1>3 DEF HasChecked
<1>9. Buffers(d, t)
  <2> SUFFICES ASSUME NEW f \in TextFiles
               PROVE  /\ t.buffer[f] = 1 =>
                           /\ ~tty /\ t.at # "none" /\ Tree!HasPattern(f)
                           /\ Place[f] = d \/ Place[f] \in Above[d]
                      /\ Place[f] = d /\ ~tty /\ HasChecked(t, f) /\ Tree!HasPattern(f)
                           /\ f \notin missed => t.buffer[f] = 1
                      /\ Place[f] = d /\ t.buffer[f] = 1 => HasChecked(t, f)
    BY DEF Buffers
  <2>1. t.buffer = r.buffer /\ t.at # "none" BY <1>3
  <2> QED BY <1>4, <1>6, <1>8, <2>1 DEF Buffers
<1>10. \A f \in TextFiles : ComesOut(f)'
  <2>1. \A f \in TextFiles : Tree!HasPattern(f) => (HasChecked(t, f) <=> HasChecked(r, f))
    BY <1>6, <1>8
  <2> QED BY <1>1, <1>3, <2>1, OutStays
<1>11. \A x \in Dirs : x \notin r.entries \ t.entries BY <1>3
<1>12. \A f \in TextFiles : GoesOn(d, t, f) BY <1>3, <1>8 DEF GoesOn
<1> QED BY <1>1, <1>2, <1>3, <1>7, <1>9, <1>10, <1>11, <1>12, OneChanges

\* The pattern is in the file: a line for the terminal or for the buffer.
LEMMA FoundKeeps ==
    ASSUME Tree!SearchAssumption, SearchInv, NEW d \in Dirs, Tree!Found(d)
    PROVE  SearchInv'
<1> DEFINE r == process[d]
           g == r.file
           buffer == IF tty THEN r.buffer ELSE [r.buffer EXCEPT ![g] = @ + 1]
           t == [r EXCEPT !.at = "reads", !.buffer = buffer]
<1>1. /\ r.at = "checks" /\ UNCHANGED Tree!arguments /\ missed' = missed
      /\ Tree!Window(d) = pattern
      /\ printed' = IF tty THEN [printed EXCEPT ![g] = @ + 1] ELSE printed
      /\ process' = [process EXCEPT ![d].at = "reads",
                                    ![d].buffer = IF tty THEN @ ELSE [r.buffer EXCEPT ![g] = @ + 1]]
  BY DEF Tree!Found
<1>2. /\ r \in ReaderType /\ printed \in [TextFiles -> Nat] /\ SearchTypes
      /\ process \in [Dirs -> ReaderType]
  BY DEF SearchInv, SearchTypes
<1>3. process' = [process EXCEPT ![d] = t] BY <1>1, <1>2
<1>4. Reads(d, r) /\ Buffers(d, r) BY <1>1 DEF SearchInv
<1>5. /\ g \in TextFiles /\ Place[g] = d /\ g \notin r.entries BY <1>1, <1>4 DEF Reads
<1>6. ~HasChecked(r, g) BY <1>1 DEF HasChecked
<1>7. r.buffer[g] = 0
  <2>1. r.buffer[g] # 1 BY <1>4, <1>5, <1>6 DEF Buffers
  <2>2. r.buffer[g] \in {0, 1} BY <1>2, <1>5 DEF ReaderType
  <2> QED BY <2>1, <2>2
<1>8. /\ buffer \in [TextFiles -> {0, 1}] /\ buffer[g] = IF tty THEN 0 ELSE 1
      /\ \A f \in TextFiles : f # g => buffer[f] = r.buffer[f]
  BY <1>2, <1>5, <1>7 DEF ReaderType
<1> HIDE DEF buffer
<1>9. /\ t \in ReaderType /\ t.at = "reads" /\ t.left = r.left /\ t.buffer = buffer
      /\ t.entries = r.entries
  BY <1>2, <1>8 DEF ReaderType
<1> HIDE DEF t
<1>10. Tree!HasPattern(g) BY <1>1, <1>2, <1>5, WindowIs
<1>11. Reads(d, t) BY <1>1, <1>4, <1>9 DEF Reads
<1>12. /\ HasChecked(t, g)
       /\ \A f \in TextFiles : f # g => (HasChecked(t, f) <=> HasChecked(r, f))
  BY <1>1, <1>5, <1>9 DEF HasChecked
<1>13. Buffers(d, t)
  <2> SUFFICES ASSUME NEW f \in TextFiles
               PROVE  /\ t.buffer[f] = 1 =>
                           /\ ~tty /\ t.at # "none" /\ Tree!HasPattern(f)
                           /\ Place[f] = d \/ Place[f] \in Above[d]
                      /\ Place[f] = d /\ ~tty /\ HasChecked(t, f) /\ Tree!HasPattern(f)
                           /\ f \notin missed => t.buffer[f] = 1
                      /\ Place[f] = d /\ t.buffer[f] = 1 => HasChecked(t, f)
    BY DEF Buffers
  <2>1. t.at # "none" BY <1>9
  <2>2. CASE f = g BY <1>5, <1>8, <1>9, <1>10, <1>12, <2>1, <2>2
  <2>3. CASE f # g
    <3>1. t.buffer[f] = r.buffer[f] /\ (HasChecked(t, f) <=> HasChecked(r, f))
      BY <1>8, <1>9, <1>12, <2>3
    <3> QED BY <1>4, <2>1, <3>1 DEF Buffers
  <2> QED BY <2>2, <2>3
<1>14. printed' \in [TextFiles -> Nat] BY <1>1, <1>2, <1>5
<1>15. ASSUME NEW f \in TextFiles PROVE ComesOut(f)'
  <2>1. tty' = tty /\ content' = content /\ pattern' = pattern BY <1>1 DEF Tree!arguments
  <2>2. Tree!HasPattern(f)' <=> Tree!HasPattern(f) BY <2>1 DEF Tree!HasPattern
  <2>3. \A x \in Dirs : process'[x] = IF x = d THEN t ELSE process[x] BY <1>2, <1>3
  <2>4. Printers(f)' = Printers(f) BY <1>1, <1>9, <2>3 DEF Printers
  <2>5. ComesOut(f) /\ ComesOut(g) /\ Place[f] \in Dirs
    BY <1>5 DEF SearchInv, Tree!SearchAssumption
  <2>6. \A x : HasChecked(x, f)' <=> HasChecked(x, f) BY DEF HasChecked
  <2>7. HasChecked(process[Place[f]], f)' <=> HasChecked(process'[Place[f]], f) BY <2>6
  <2>8. CASE ~tty
    <3>1. printed' = printed BY <1>1, <2>8
    <3> QED BY <2>1, <2>4, <2>5, <2>8, <3>1 DEF ComesOut
  <2>9. CASE tty /\ f = g
    <3>1. printed[g] = 0 BY <1>5, <1>6, <2>5, <2>9 DEF ComesOut, Passed
    <3>2. printed'[g] = 1 BY <1>1, <1>2, <1>5, <2>9, <3>1
    <3>3. HasChecked(process'[Place[f]], f) BY <1>5, <1>12, <2>3, <2>9
    <3>4. g \notin missed BY <1>5, <1>6 DEF SearchInv, Gone, Passed
    <3> QED BY <1>1, <1>10, <2>1, <2>2, <2>7, <2>9, <3>2, <3>3, <3>4 DEF ComesOut, Passed
  <2>10. CASE tty /\ f # g
    <3>1. printed'[f] = printed[f] BY <1>1, <1>2, <2>10
    <3>2. HasChecked(process'[Place[f]], f) <=> HasChecked(process[Place[f]], f)
      BY <1>12, <2>3, <2>5, <2>10
    <3> QED BY <1>1, <2>1, <2>2, <2>5, <2>7, <2>10, <3>1, <3>2 DEF ComesOut, Passed
  <2> QED BY <2>8, <2>9, <2>10
<1>16. \A x \in Dirs : x \notin r.entries \ t.entries BY <1>9
<1>17. \A f \in TextFiles : GoesOn(d, t, f)
  BY <1>5, <1>6, <1>8, <1>9, <1>12 DEF GoesOn
<1> QED BY <1>1, <1>3, <1>9, <1>11, <1>13, <1>14, <1>15, <1>16, <1>17, OneChanges

\* A process ends, and what is in its buffer comes out.
LEMMA ExitKeeps ==
    ASSUME Tree!SearchAssumption, SearchInv, NEW d \in Dirs, Tree!Exit(d)
    PROVE  SearchInv'
<1> DEFINE r == process[d]
           t == [r EXCEPT !.at = "ended"]
<1>1. /\ r.at = "reads" /\ r.entries = {} /\ UNCHANGED Tree!arguments /\ missed' = missed
      /\ printed' = [f \in TextFiles |-> printed[f] + r.buffer[f]]
      /\ process' = [process EXCEPT ![d] = t]
  <2>1. process' = [process EXCEPT ![d].at = "ended"] BY DEF Tree!Exit
  <2> QED BY <2>1 DEF Tree!Exit
<1>2. /\ r \in ReaderType /\ printed \in [TextFiles -> Nat]
      /\ process \in [Dirs -> ReaderType]
  BY DEF SearchInv, SearchTypes
<1>3. /\ t \in ReaderType /\ t.at = "ended" /\ t.left = r.left /\ t.buffer = r.buffer
      /\ t.entries = r.entries /\ r.buffer \in [TextFiles -> {0, 1}]
  BY <1>2 DEF ReaderType
<1>4. Reads(d, r) /\ Buffers(d, r) BY <1>1 DEF SearchInv
<1> HIDE DEF t
<1>5. Reads(d, t) BY <1>1, <1>3, <1>4 DEF Reads
<1>6. \A f \in TextFiles : HasChecked(t, f) <=> HasChecked(r, f)
  BY <1>1, <1>3 DEF HasChecked
<1>7. Buffers(d, t) BY <1>1, <1>3, <1>4, <1>6 DEF Buffers
<1>8. printed' \in [TextFiles -> Nat] BY <1>1, <1>2, <1>3
<1>9. ASSUME NEW f \in TextFiles PROVE ComesOut(f)'
  <2>1. tty' = tty /\ content' = content /\ pattern' = pattern BY <1>1 DEF Tree!arguments
  <2>2. Tree!HasPattern(f)' <=> Tree!HasPattern(f) BY <2>1 DEF Tree!HasPattern
  <2>3. \A x \in Dirs : process'[x] = IF x = d THEN t ELSE process[x] BY <1>1, <1>2
  <2>4. ComesOut(f) /\ Place[f] \in Dirs BY DEF SearchInv, Tree!SearchAssumption
  <2>5. \A x : HasChecked(x, f)' <=> HasChecked(x, f) BY DEF HasChecked
  <2>6. HasChecked(process[Place[f]], f)' <=> HasChecked(process[Place[f]], f)
    BY <1>6, <2>3, <2>4, <2>5
  <2>7. r.buffer[f] \in {0, 1} BY <1>3
  <2>8. printed'[f] = printed[f] + r.buffer[f] BY <1>1
  <2>9. CASE tty
    <3>1. r.buffer[f] = 0 BY <1>4, <2>7, <2>9 DEF Buffers
    <3>2. printed'[f] = printed[f] BY <1>2, <2>8, <3>1
    <3> QED BY <1>1, <2>1, <2>2, <2>4, <2>6, <2>9, <3>2 DEF ComesOut, Passed
  <2>10. CASE ~tty
    <3> DEFINE P == Printers(f)
    <3>1. IsFiniteSet(P)
      <4>1. IsFiniteSet(Dirs) BY SearchCounts DEF Tree!SearchAssumption
      <4>2. P \in SUBSET Dirs BY DEF Printers
      <4> QED BY <4>1, <4>2, FS_Subset
    <3>2. d \notin P BY <1>1 DEF Printers
    <3>3. printed[f] = Cardinality(P) BY <2>4, <2>10 DEF ComesOut
    <3>4. Printers(f)' = IF r.buffer[f] = 1 THEN P \cup {d} ELSE P
      BY <1>3, <2>3, <3>2 DEF Printers
    <3> HIDE DEF P
    <3>5. Cardinality(Printers(f)') = Cardinality(P) + r.buffer[f]
      <4>1. CASE r.buffer[f] = 1 BY <3>1, <3>2, <3>4, <4>1, FS_AddElement
      <4>2. CASE r.buffer[f] = 0
        <5>1. Cardinality(P) \in Nat BY <3>1, FS_CardinalityType
        <5> QED BY <3>4, <4>2, <5>1
      <4> QED BY <2>7, <4>1, <4>2
    <3> QED BY <2>1, <2>8, <2>10, <3>3, <3>5 DEF ComesOut
  <2> QED BY <2>9, <2>10
<1>10. \A x \in Dirs : x \notin r.entries \ t.entries BY <1>3
<1>11. \A f \in TextFiles : GoesOn(d, t, f) BY <1>3, <1>6 DEF GoesOn
<1> QED BY <1>1, <1>3, <1>5, <1>7, <1>8, <1>9, <1>10, <1>11, OneChanges

\* A directory in reach gets a process with a copy of the buffer.
LEMMA EnterKeeps ==
    ASSUME Tree!SearchAssumption, SearchInv, NEW d \in Dirs, NEW e \in Dirs,
           Tree!EnterDirectory(d, e)
    PROVE  SearchInv'
<1> DEFINE r == process[d]
           t == [r EXCEPT !.entries = @ \ {e}]
           u == [at |-> "reads", left |-> r.left - 1, file |-> e, position |-> 0,
                 buffer |-> r.buffer, entries |-> EntriesOf(e)]
<1>1. /\ r.at = "reads" /\ e \in r.entries /\ r.left > 0 /\ UNCHANGED Tree!arguments
      /\ printed' = printed /\ missed' = missed /\ process' = [process EXCEPT ![d] = t, ![e] = u]
  BY DEF Tree!EnterDirectory, Tree!Reader, Tree!Entries, EntriesOf
<1>2. /\ r \in ReaderType /\ printed \in [TextFiles -> Nat] /\ SearchTypes
      /\ process \in [Dirs -> ReaderType]
  BY DEF SearchInv, SearchTypes
<1>3. Reads(d, r) /\ Buffers(d, r) BY <1>1 DEF SearchInv
<1>4. e # Root /\ Parent[e] = d
  <2>1. e \notin TextFiles BY DEF Tree!SearchAssumption
  <2> QED BY <1>1, <1>3, <2>1 DEF Reads, EntriesOf
<1>5. /\ d # e /\ (d # Root => Parent[d] # e)
      /\ Above[e] = Above[d] \cup {d} /\ e \notin Above[d]
  BY <1>4, NoCycle
<1>6. process[e].at = "none" BY <1>1, <1>4 DEF SearchInv, Forked
<1>7. /\ t \in ReaderType /\ t.at = "reads" /\ t.left = r.left /\ t.buffer = r.buffer
      /\ t.entries = r.entries \ {e} /\ r.buffer \in [TextFiles -> {0, 1}] /\ r.left \in Nat
  BY <1>1, <1>2 DEF ReaderType
<1>8. /\ u \in ReaderType /\ u.at = "reads" /\ u.left = r.left - 1 /\ u.buffer = r.buffer
      /\ u.entries = EntriesOf(e)
  <2>1. EntriesOf(e) \in SUBSET (Dirs \cup TextFiles) /\ r.left - 1 \in Nat
    BY <1>1, <1>7 DEF EntriesOf
  <2> QED BY <1>7, <2>1 DEF ReaderType
<1> HIDE DEF t, u
<1>9. process' \in [Dirs -> ReaderType] BY <1>1, <1>2, <1>7, <1>8
<1>10. \A x \in Dirs : process'[x] = IF x = e THEN u ELSE IF x = d THEN t ELSE process[x]
  BY <1>1, <1>2
<1>11. tty' = tty /\ content' = content /\ pattern' = pattern /\ depth' = depth
  BY <1>1 DEF Tree!arguments
<1>23. e \notin missed BY <1>1, <1>4 DEF SearchInv, Forked
<1>12. ASSUME NEW x \in Dirs PROVE Forked(x)'
  <2>1. Forked(x) BY DEF SearchInv
  <2>2. x = Root => process'[x].at # "none"
    BY <1>4, <1>7, <1>10, <2>1 DEF Forked
  <2>4. ASSUME x \in missed
        PROVE  process'[Parent[x]].at # "none" /\ x \notin process'[Parent[x]].entries
    <3>1. x # Root BY <1>2, <2>4 DEF SearchTypes, Tree!SearchAssumption
    <3>2. Parent[x] \in Dirs BY <3>1 DEF Tree!SearchAssumption
    <3>3. process[Parent[x]].at # "none" /\ x \notin process[Parent[x]].entries
      BY <2>1, <2>4 DEF Forked
    <3>4. Parent[x] # e BY <1>6, <3>3
    <3> QED BY <1>1, <1>7, <1>10, <3>2, <3>3, <3>4
  <2>3. CASE x # Root
    <3>1. Parent[x] \in Dirs BY <2>3 DEF Tree!SearchAssumption
    <3>2. CASE x = e
      <4>1. process'[x].at # "none" /\ process'[d].at # "none" /\ x \notin process'[d].entries
        BY <1>5, <1>7, <1>8, <1>10, <3>2
      <4> QED BY <1>1, <1>4, <1>23, <2>3, <3>2, <4>1 DEF Forked
    <3>3. CASE x # e /\ Parent[x] = e
      <4>1. x # d BY <1>5, <2>3, <3>3
      <4>2. process'[x] = process[x] /\ process'[e] = u BY <1>10, <3>3, <4>1
      <4>3. process[x].at = "none" BY <1>6, <2>1, <2>3, <3>3 DEF Forked
      <4>4. x \in u.entries BY <1>8, <2>3, <3>3 DEF EntriesOf
      <4> QED BY <1>1, <2>3, <2>4, <3>3, <4>2, <4>3, <4>4 DEF Forked
    <3>4. CASE x # e /\ Parent[x] # e
      <4>1. process'[x].at = process[x].at BY <1>1, <1>7, <1>10, <3>4
      <4>2. process'[Parent[x]].at = process[Parent[x]].at BY <1>1, <1>7, <1>10, <3>1, <3>4
      <4>3. x \in process'[Parent[x]].entries <=> x \in process[Parent[x]].entries
        BY <1>7, <1>10, <3>1, <3>4
      <4> QED BY <1>1, <1>11, <2>1, <2>3, <2>4, <4>1, <4>2, <4>3 DEF Forked
    <3> QED BY <3>2, <3>3, <3>4
  <2> QED BY <1>1, <2>2, <2>3, <2>4 DEF Forked
<1>13. \A f \in TextFiles : ~HasChecked(u, f) \/ Place[f] # e
  BY <1>8 DEF HasChecked, EntriesOf
<1>14. \A f \in TextFiles : HasChecked(t, f) <=> HasChecked(r, f)
  <2>1. e \notin TextFiles BY DEF Tree!SearchAssumption
  <2> QED BY <1>1, <1>7, <2>1 DEF HasChecked
<1>15. Buffers(d, t) BY <1>1, <1>3, <1>7, <1>14 DEF Buffers
<1>16. Buffers(e, u)
  <2>1. ASSUME NEW f \in TextFiles, u.buffer[f] = 1
        PROVE  ~tty /\ Tree!HasPattern(f) /\ Place[f] \in Above[e] /\ Place[f] # e
    BY <1>3, <1>5, <1>8, <2>1 DEF Buffers
  <2> QED BY <1>8, <1>13, <2>1 DEF Buffers
<1>17. ASSUME NEW x \in Dirs PROVE Buffers(x, process'[x])
  <2>1. x \notin {d, e} => Buffers(x, process'[x]) BY <1>10 DEF SearchInv
  <2> QED BY <1>5, <1>10, <1>15, <1>16, <2>1
<1>18. Reads(d, t) BY <1>1, <1>3, <1>7 DEF Reads
<1>19. Reads(e, u)
  <2>1. Cardinality(Above[e]) = Cardinality(Above[d]) + 1 /\ Cardinality(Above[d]) \in Nat
    BY <1>4, OneDeeper
  <2>2. r.left + Cardinality(Above[d]) = depth BY <1>3 DEF Reads
  <2>3. r.left - 1 + Cardinality(Above[e]) = depth BY <1>7, <2>1, <2>2
  <2> QED BY <1>8, <2>3 DEF Reads
<1>20. ASSUME NEW x \in Dirs, process'[x].at # "none" PROVE Reads(x, process'[x])
  <2>1. x \notin {d, e} => Reads(x, process'[x]) BY <1>10, <1>20 DEF SearchInv
  <2> QED BY <1>5, <1>10, <1>18, <1>19, <2>1
<1>21. ASSUME NEW f \in TextFiles PROVE ComesOut(f)'
  <2>1. Tree!HasPattern(f)' <=> Tree!HasPattern(f) BY <1>11 DEF Tree!HasPattern
  <2>2. Printers(f)' = Printers(f) BY <1>1, <1>6, <1>7, <1>8, <1>10 DEF Printers
  <2>3. ComesOut(f) /\ Place[f] \in Dirs BY DEF SearchInv, Tree!SearchAssumption
  <2>4. \A x : HasChecked(x, f)' <=> HasChecked(x, f) BY DEF HasChecked
  <2>5. HasChecked(process[Place[f]], f)' <=> HasChecked(process'[Place[f]], f) BY <2>4
  <2>6. HasChecked(process'[Place[f]], f) <=> HasChecked(process[Place[f]], f)
    <3>1. Place[f] = e => ~HasChecked(process[e], f) BY <1>6 DEF HasChecked
    <3> QED BY <1>5, <1>10, <1>13, <1>14, <2>3, <3>1
  <2> QED BY <1>1, <1>11, <2>1, <2>2, <2>3, <2>5, <2>6 DEF ComesOut, Passed
<1>24. ASSUME NEW f \in TextFiles PROVE Gone(f)'
  <2>1. Gone(f) /\ Place[f] \in Dirs BY DEF SearchInv, Tree!SearchAssumption
  <2>2. Passed(f)' <=> HasChecked(process'[Place[f]], f) BY DEF Passed, HasChecked
  <2>3. Passed(f) => Passed(f)'
    <3>1. Place[f] = e => ~Passed(f) BY <1>6 DEF HasChecked, Passed
    <3> QED BY <1>10, <1>14, <2>1, <2>2, <3>1 DEF Passed
  <2>4. \A x \in Dirs : process'[x].buffer[f] = 1 => \E y \in Dirs : process[y].buffer[f] = 1
    BY <1>7, <1>8, <1>10
  <2> QED BY <1>1, <2>1, <2>3, <2>4 DEF Gone
<1>22. printed' \in [TextFiles -> Nat] BY <1>1, <1>2
<1> QED BY <1>1, <1>2, <1>9, <1>12, <1>17, <1>20, <1>21, <1>22, <1>24, NextSearch

\* What a call that fails keeps from being read: no line of it is anywhere.
LEMMA MissKeeps ==
    ASSUME Tree!SearchAssumption, SearchInv, NEW d \in Dirs, NEW lost,
           process[d].at = "reads", lost \subseteq process[d].entries, Tree!Misses(d, lost)
    PROVE  SearchInv'
<1> DEFINE r == process[d]
           t == [r EXCEPT !.entries = @ \ lost]
<1>1. /\ UNCHANGED Tree!arguments /\ printed' = printed /\ missed' = missed \cup lost
      /\ process' = [process EXCEPT ![d] = t]
  BY DEF Tree!Misses
<1>2. /\ r \in ReaderType /\ SearchTypes /\ process \in [Dirs -> ReaderType]
      /\ missed \in SUBSET ((Dirs \ {Root}) \cup TextFiles)
  BY DEF SearchInv, SearchTypes
<1>3. /\ t \in ReaderType /\ t.at = "reads" /\ t.left = r.left /\ t.buffer = r.buffer
      /\ t.entries = r.entries \ lost /\ t.file = r.file
  BY <1>2 DEF ReaderType
<1>4. Reads(d, r) /\ Buffers(d, r) BY DEF SearchInv
<1> HIDE DEF t
<1>5. \A x \in Dirs : process'[x] = IF x = d THEN t ELSE process[x] BY <1>1, <1>2
<1>6. tty' = tty /\ content' = content /\ pattern' = pattern /\ depth' = depth
  BY <1>1 DEF Tree!arguments
<1>7. lost \subseteq EntriesOf(d) BY <1>4 DEF Reads
<1>8. SearchTypes'
  <2>1. lost \subseteq (Dirs \ {Root}) \cup TextFiles BY <1>7 DEF EntriesOf
  <2>2. process' \in [Dirs -> ReaderType] BY <1>1, <1>2, <1>3
  <2> QED BY <1>1, <1>2, <1>6, <2>1, <2>2 DEF SearchTypes
<1>9. ASSUME NEW x \in Dirs PROVE Forked(x)'
  <2>1. Forked(x) BY DEF SearchInv
  <2>2. process'[x].at = process[x].at BY <1>3, <1>5
  <2>3. CASE x = Root
    <3>1. x \notin missed'
      BY <1>8, <2>3 DEF SearchTypes, Tree!SearchAssumption
    <3> QED BY <2>1, <2>2, <2>3, <3>1 DEF Forked
  <2>4. CASE x # Root
    <3>1. Parent[x] \in Dirs BY <2>4 DEF Tree!SearchAssumption
    <3>2. /\ process'[Parent[x]].at = process[Parent[x]].at
          /\ process'[Parent[x]].entries =
                IF Parent[x] = d THEN r.entries \ lost ELSE process[Parent[x]].entries
      BY <1>3, <1>5, <3>1
    <3>3. x \in lost => Parent[x] = d /\ x \in r.entries
      <4>1. x \notin TextFiles BY DEF Tree!SearchAssumption
      <4> QED BY <1>7, <4>1 DEF EntriesOf
    <3> QED BY <1>1, <1>6, <2>1, <2>2, <2>4, <3>2, <3>3 DEF Forked
  <2> QED BY <2>3, <2>4
<1>10. \A f \in TextFiles : f \in lost => Place[f] = d /\ ~Passed(f)
  <2>1. \A f \in TextFiles : f \notin Dirs BY DEF Tree!SearchAssumption
  <2> QED BY <1>7, <2>1 DEF EntriesOf, Passed, HasChecked
<1>11. \A f \in TextFiles : HasChecked(t, f) <=> HasChecked(r, f) \/ f \in lost
  BY <1>3 DEF HasChecked
<1>12. ASSUME NEW x \in Dirs PROVE Buffers(x, process[x])'
  <2> SUFFICES ASSUME NEW f \in TextFiles
               PROVE  /\ process'[x].buffer[f] = 1 =>
                           /\ ~tty /\ process'[x].at # "none" /\ Tree!HasPattern(f)
                           /\ Place[f] = x \/ Place[f] \in Above[x]
                      /\ Place[f] = x /\ ~tty /\ HasChecked(process'[x], f) /\ Tree!HasPattern(f)
                           /\ f \notin missed' => process'[x].buffer[f] = 1
                      /\ Place[f] = x /\ process'[x].buffer[f] = 1 => HasChecked(process'[x], f)
    BY <1>6 DEF Buffers, Tree!HasPattern, HasChecked
  <2>1. Buffers(x, process[x]) BY DEF SearchInv
  <2>2. process'[x].buffer = process[x].buffer /\ process'[x].at = process[x].at
    BY <1>3, <1>5
  <2>3. HasChecked(process'[x], f) <=> HasChecked(process[x], f) \/ (x = d /\ f \in lost)
    BY <1>5, <1>11
  <2> QED BY <1>1, <2>1, <2>2, <2>3 DEF Buffers
<1>13. ASSUME NEW x \in Dirs, process'[x].at # "none" PROVE Reads(x, process[x])'
  <2>1. Reads(d, t) BY <1>3, <1>4 DEF Reads
  <2>2. Reads(x, process'[x])
    <3>1. CASE x = d BY <1>5, <2>1, <3>1
    <3>2. CASE x # d BY <1>5, <1>13, <3>2 DEF SearchInv
    <3> QED BY <3>1, <3>2
  <2> QED BY <1>6, <2>2 DEF Reads, NotBefore
<1>14. ASSUME NEW f \in TextFiles PROVE ComesOut(f)' /\ Gone(f)'
  <2>1. ComesOut(f) /\ Gone(f) /\ Place[f] \in Dirs BY DEF SearchInv, Tree!SearchAssumption
  <2>2. Tree!HasPattern(f)' <=> Tree!HasPattern(f) BY <1>6 DEF Tree!HasPattern
  <2>3. Printers(f)' = Printers(f) BY <1>3, <1>5 DEF Printers
  <2>4. Passed(f)' <=> Passed(f) \/ f \in lost
    <3>1. Passed(f)' <=> HasChecked(process'[Place[f]], f) BY DEF Passed, HasChecked
    <3> QED BY <1>5, <1>10, <1>11, <2>1, <3>1 DEF Passed
  <2>5. \A x \in Dirs : process'[x].buffer[f] = process[x].buffer[f] BY <1>3, <1>5
  <2>6. ComesOut(f)' BY <1>1, <1>6, <1>10, <2>1, <2>2, <2>3, <2>4 DEF ComesOut
  <2>7. Gone(f)' BY <1>1, <1>10, <2>1, <2>4, <2>5 DEF Gone
  <2> QED BY <2>6, <2>7
<1> QED BY <1>8, <1>9, <1>12, <1>13, <1>14 DEF SearchInv

\* opendir, fork, popen or fopen fails.
LEMMA FailsKeeps ==
    ASSUME Tree!SearchAssumption, SearchInv, NEW d \in Dirs,
           \/ Tree!OpenDirectoryFails(d)
           \/ \E e \in Dirs : Tree!ForkFails(d, e)
           \/ \E f \in TextFiles : Tree!OpenFileFails(d, f)
    PROVE  SearchInv'
<1>1. \E lost : /\ process[d].at = "reads" /\ lost \subseteq process[d].entries
                /\ Tree!Misses(d, lost)
  BY DEF Tree!OpenDirectoryFails, Tree!ForkFails, Tree!OpenFileFails
<1> QED BY <1>1, MissKeeps

\* Every step keeps it.
LEMMA StepSearchInv ==
    ASSUME Tree!SearchAssumption, SearchInv, [Tree!Next]_(Tree!vars)
    PROVE  SearchInv'
<1>1. ASSUME NEW d \in Dirs, NEW e \in Dirs, Tree!EnterDirectory(d, e) PROVE SearchInv'
  BY <1>1, EnterKeeps
<1>2. ASSUME NEW d \in Dirs, NEW e \in Dirs, Tree!SkipEntry(d, e) PROVE SearchInv'
  BY <1>2, SkipKeeps
<1>3. ASSUME NEW d \in Dirs, NEW f \in TextFiles, Tree!OpenFile(d, f) PROVE SearchInv'
  BY <1>3, OpenKeeps
<1>4. ASSUME NEW d \in Dirs, Tree!NextWindow(d) PROVE SearchInv' BY <1>4, WindowKeeps
<1>5. ASSUME NEW d \in Dirs, Tree!NotFound(d) PROVE SearchInv' BY <1>5, NotFoundKeeps
<1>6. ASSUME NEW d \in Dirs, Tree!Found(d) PROVE SearchInv' BY <1>6, FoundKeeps
<1>7. ASSUME NEW d \in Dirs, Tree!Exit(d) PROVE SearchInv' BY <1>7, ExitKeeps
<1>9. ASSUME NEW d \in Dirs,
             \/ Tree!OpenDirectoryFails(d)
             \/ \E e \in Dirs : Tree!ForkFails(d, e)
             \/ \E f \in TextFiles : Tree!OpenFileFails(d, f)
      PROVE  SearchInv'
  BY <1>9, FailsKeeps
<1>8. CASE UNCHANGED Tree!vars
  <2>1. /\ UNCHANGED Tree!arguments /\ process' = process /\ printed' = printed
        /\ missed' = missed
    BY <1>8 DEF Tree!vars
  <2>2. tty' = tty /\ content' = content /\ pattern' = pattern /\ depth' = depth
    BY <2>1 DEF Tree!arguments
  <2>3. \A d \in Dirs : Forked(d)' BY <2>1, <2>2 DEF SearchInv, Forked
  <2>4. \A f \in TextFiles : ComesOut(f)' /\ Gone(f)'
    BY <2>1, <2>2 DEF SearchInv, ComesOut, Gone, Passed, Printers, HasChecked, Tree!HasPattern
  <2> QED BY <2>1, <2>3, <2>4, NextSearch DEF SearchInv, SearchTypes
<1> QED BY <1>1, <1>2, <1>3, <1>4, <1>5, <1>6, <1>7, <1>8, <1>9 DEF Tree!Next

\* In any tree each directory in reach has its process when its own directory
\* has passed it, unless a call failed on the way to it; a file's line is in the
\* buffers of its finder and of those forked after that, and it has come out of
\* each such buffer whose process has ended (traverse and check_file of
\* lab3/zad3 main.c).
THEOREM SearchInvariance ==
    ASSUME Tree!SearchAssumption PROVE Tree!Spec => []SearchInv
<1>1. Tree!Init => SearchInv BY InitSearchInv
<1>2. SearchInv /\ [Tree!Next]_(Tree!vars) => SearchInv' BY StepSearchInv
<1> QED BY <1>1, <1>2, PTL DEF Tree!Spec

\* Of some directories one is highest: what it is in is not among them.
LEMMA HighestOf ==
    ASSUME Tree!SearchAssumption, NEW D \in SUBSET Dirs, D # {}
    PROVE  \E d \in D : d # Root => Parent[d] \notin D
<1> DEFINE S == {Cardinality(Above[d]) : d \in D}
<1>1. S \in SUBSET Nat /\ S # {} BY OneDeeper
<1>2. PICK k \in S : \A m \in S : k <= m
  <2> HIDE DEF S
  <2> QED BY <1>1, HasLeast
<1>3. PICK d \in D : Cardinality(Above[d]) = k BY <1>2
<1>4. ASSUME d # Root, Parent[d] \in D PROVE FALSE
  <2>1. Cardinality(Above[Parent[d]]) \in Nat /\ k = Cardinality(Above[Parent[d]]) + 1
    BY <1>3, <1>4, OneDeeper
  <2>2. k <= Cardinality(Above[Parent[d]]) BY <1>2, <1>4
  <2> QED BY <2>1, <2>2
<1> QED BY <1>4

\* A directory with no failing call on the way to it.
IsOpen(d) == missed \cap ({d} \cup Above[d]) = {}

\* When all have ended, each directory in reach has been read, but for those
\* that a failing call has kept from it.
LEMMA ReachIsRead ==
    ASSUME Tree!SearchAssumption, SearchInv,
           \A d \in Dirs : process[d].at \in {"none", "ended"}
    PROVE  \A d \in Dirs : Tree!IsInReach(d) /\ IsOpen(d) <=> process[d].at = "ended"
<1>1. \A d \in Dirs : Tree!IsInReach(d) <=> Cardinality(Above[d]) <= depth
  BY SearchCounts DEF Tree!IsInReach
<1>2. process \in [Dirs -> ReaderType] /\ depth \in Nat
  BY DEF SearchInv, SearchTypes, Tree!SearchAssumption
<1>3. ASSUME NEW d \in Dirs, process[d].at = "ended"
      PROVE  Cardinality(Above[d]) <= depth /\ process[d].entries = {}
  <2>1. Reads(d, process[d]) BY <1>3 DEF SearchInv
  <2>2. process[d].left \in Nat /\ Cardinality(Above[d]) \in Nat
    BY <1>2, OneDeeper DEF ReaderType
  <2> QED BY <1>2, <1>3, <2>1, <2>2 DEF Reads
<1>5. \A d \in Dirs \ {Root} : IsOpen(d) <=> d \notin missed /\ IsOpen(Parent[d])
  BY NoCycle DEF IsOpen
<1> DEFINE D == {d \in Dirs : Cardinality(Above[d]) <= depth /\ IsOpen(d) /\ process[d].at = "none"}
<1>4. D = {}
  <2> SUFFICES ASSUME D # {} PROVE FALSE OBVIOUS
  <2>1. PICK d \in D : d # Root => Parent[d] \notin D BY HighestOf
  <2>2. Forked(d) BY DEF SearchInv
  <2>3. d # Root /\ d \in Dirs BY <2>1, <2>2 DEF Forked
  <2> DEFINE up == Parent[d]
  <2>4. up \in Dirs BY <2>3 DEF Tree!SearchAssumption
  <2>5. /\ Cardinality(Above[d]) = Cardinality(Above[up]) + 1
        /\ Cardinality(Above[up]) \in Nat
    BY <2>3, <2>4, OneDeeper
  <2>6. Cardinality(Above[d]) <= depth BY <2>1
  <2>7. Cardinality(Above[up]) <= depth BY <1>2, <2>5, <2>6
  <2>11. d \notin missed /\ IsOpen(up) BY <1>5, <2>1, <2>3
  <2>8. process[up].at = "ended" BY <2>1, <2>3, <2>4, <2>7, <2>11
  <2>9. process[up].entries = {} BY <1>3, <2>4, <2>8
  <2>10. Cardinality(Above[d]) > depth BY <2>1, <2>2, <2>3, <2>8, <2>9, <2>11 DEF Forked
  <2> QED BY <1>2, <2>5, <2>6, <2>10
<1> DEFINE E == {d \in Dirs : process[d].at = "ended" /\ ~IsOpen(d)}
<1>6. E = {}
  <2> SUFFICES ASSUME E # {} PROVE FALSE OBVIOUS
  <2>1. PICK d \in E : d # Root => Parent[d] \notin E BY HighestOf
  <2>2. d # Root
    <3>1. Root \notin missed
      BY DEF SearchInv, SearchTypes, Tree!SearchAssumption
    <3>2. IsOpen(Root) BY <3>1 DEF IsOpen, Tree!SearchAssumption
    <3> QED BY <2>1, <3>2
  <2>3. Forked(d) /\ d \in Dirs /\ process[d].at = "ended" BY <2>1 DEF SearchInv
  <2>4. d \notin missed /\ process[Parent[d]].at # "none" BY <2>2, <2>3 DEF Forked
  <2>5. Parent[d] \in Dirs BY <2>2, <2>3 DEF Tree!SearchAssumption
  <2>6. IsOpen(Parent[d]) BY <2>1, <2>2, <2>4, <2>5
  <2> QED BY <1>5, <2>1, <2>2, <2>3, <2>4, <2>6
<1> QED BY <1>1, <1>3, <1>4, <1>6

\* In any tree, whatever the files, the pattern and the depth, and in whatever
\* order the processes run, and whichever calls fail: when all have ended each
\* file in reach that has the pattern, with no failing call on the way to it, has
\* come out, once on a terminal, else at most once more for each directory below
\* its own; no other file has (lab3/zad3 main.c).
THEOREM SearchFinds ==
    ASSUME Tree!SearchAssumption PROVE Tree!Spec => []FoundIsPrinted
<1>1. SearchInv => FoundIsPrinted
  <2> SUFFICES ASSUME SearchInv, \A d \in Dirs : process[d].at \in {"none", "ended"},
                      NEW f \in TextFiles
               PROVE  LET Below == {d \in Dirs : Tree!IsInReach(d) /\ Place[f] \in Above[d]}
                      IN  IF Tree!IsInReach(Place[f]) /\ Tree!HasPattern(f) /\ ~Tree!IsMissed(f)
                          THEN printed[f] \in 1 .. 1 + (IF tty THEN 0 ELSE Tree!Cardinality(Below))
                          ELSE printed[f] = 0
    BY DEF FoundIsPrinted, Tree!FoundIsPrinted
  <2> DEFINE o == Place[f]
             Below == {d \in Dirs : Tree!IsInReach(d) /\ o \in Above[d]}
             P == Printers(f)
  <2>1. o \in Dirs /\ ComesOut(f) /\ Gone(f) BY DEF Tree!SearchAssumption, SearchInv
  <2>2. \A d \in Dirs : Tree!IsInReach(d) /\ IsOpen(d) <=> process[d].at = "ended" BY ReachIsRead
  <2>3. Passed(f) <=> Tree!IsInReach(o) /\ IsOpen(o)
    <3>1. CASE process[o].at = "ended"
      <4>1. process[o].entries = {} BY <2>1, <3>1 DEF SearchInv, Reads
      <4> QED BY <2>1, <2>2, <3>1, <4>1 DEF HasChecked, Passed
    <3>2. CASE process[o].at = "none" BY <2>1, <2>2, <3>2 DEF HasChecked, Passed
    <3> QED BY <2>1, <3>1, <3>2
  <2>6. ~Tree!IsMissed(f) <=> IsOpen(o) /\ f \notin missed BY DEF Tree!IsMissed, IsOpen
  <2> DEFINE comes == Tree!IsInReach(o) /\ Tree!HasPattern(f) /\ ~Tree!IsMissed(f)
  <2>4. CASE tty
    <3>1. printed[f] = IF comes THEN 1 ELSE 0
      BY <2>1, <2>3, <2>4, <2>6 DEF ComesOut
    <3> QED BY <2>4, <3>1
  <2>5. CASE ~tty
    <3>1. printed[f] = Cardinality(P) BY <2>1, <2>5 DEF ComesOut
    <3>2. P \in SUBSET Dirs BY DEF Printers
    <3>3. \A d \in P : /\ Tree!HasPattern(f) /\ Tree!IsInReach(d)
                       /\ d = o \/ o \in Above[d]
      BY <2>2 DEF Printers, SearchInv, Buffers
    <3>4. P # {} => comes
      <4>1. P # {} => Passed(f) /\ f \notin missed BY <2>1 DEF Printers, Gone
      <4> QED BY <2>3, <2>6, <3>3, <4>1
    <3>5. CASE ~comes
      <4>1. P = {} BY <3>4, <3>5
      <4>2. printed[f] = 0 BY <3>1, <4>1, FS_EmptySet
      <4> QED BY <3>5, <4>2
    <3>6. CASE comes
      <4>1. process[o].buffer[f] = 1 /\ process[o].at = "ended"
        BY <2>1, <2>2, <2>3, <2>5, <2>6, <3>6 DEF SearchInv, Buffers, Passed
      <4>2. o \in P BY <2>1, <4>1 DEF Printers
      <4>3. IsFiniteSet(Dirs) BY SearchCounts DEF Tree!SearchAssumption
      <4>4. Below \in SUBSET Dirs /\ o \notin Below BY <2>1 DEF Tree!SearchAssumption
      <4>5. P \subseteq Below \cup {o} BY <3>2, <3>3
      <4> HIDE DEF P, Below, o
      <4>6. IsFiniteSet(Below) /\ IsFiniteSet(P) BY <3>2, <4>3, <4>4, FS_Subset
      <4>7. /\ IsFiniteSet(Below \cup {o})
            /\ Cardinality(Below \cup {o}) = Cardinality(Below) + 1
        BY <4>4, <4>6, FS_AddElement
      <4>8. Cardinality(P) <= Cardinality(Below) + 1 BY <4>5, <4>7, FS_Subset
      <4>9. Cardinality(P) # 0 BY <4>2, <4>6, FS_EmptySet
      <4>10. Cardinality(P) \in Nat /\ Cardinality(Below) \in Nat BY <4>6, FS_CardinalityType
      <4>11. Cardinality(P) \in 1 .. 1 + Cardinality(Below) BY <4>8, <4>9, <4>10
      <4>12. printed[f] \in 1 .. 1 + Tree!Cardinality(Below) BY <3>1, <4>11, SearchCounts
      <4> QED BY <2>5, <3>6, <4>12 DEF o, Below
    <3> QED BY <3>5, <3>6
  <2> QED BY <2>4, <2>5
<1> QED BY <1>1, SearchInvariance, PTL
===============================================================================
