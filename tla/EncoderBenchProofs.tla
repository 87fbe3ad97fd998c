-------------------------- MODULE EncoderBenchProofs --------------------------
(***************************************************************************)
(* Proofs about the bench: either decoder is in step with the shaft once   *)
(* it has caught up.  For any number of positions, any range of the count  *)
(* and any room in the kernel for edges, and however the shaft, the        *)
(* threads and the signals interleave.                                     *)
(* And the test program of the DE10 reaches the motors' registers only.    *)
(***************************************************************************)
EXTENDS EncoderBench, SequenceTheorems, TLAPS

-----------------------------------------------------------------------------
(* Counting modulo N.                                                      *)

LEMMA PosBounds ==
    /\ Turns \in Nat \ {0} /\ Turns % 4 = 0 /\ Turns >= 4
    /\ ENCODER_MAX \in Nat \ {0} /\ Turns % ENCODER_MAX = 0
    /\ MaxEvents \in Nat \ {0}
  BY TurnsAssumption, EncoderAssumption, EventsAssumption

\* The remainder is the one number of the range that differs by a multiple.
LEMMA ModUnique ==
    ASSUME NEW N \in Nat \ {0}, NEW a \in Int, NEW q \in Int, NEW r \in 0 .. N - 1,
           a = N * q + r
    PROVE  a % N = r
  OBVIOUS

\* Adding a multiple of N changes no remainder.
LEMMA ModMultiple ==
    ASSUME NEW N \in Nat \ {0}, NEW a \in Int, NEW k \in Int
    PROVE  (a + N * k) % N = a % N
<1> DEFINE q == a \div N
           r == a % N
<1>1. q \in Int /\ r \in 0 .. N - 1 /\ a = N * q + r
  OBVIOUS
<1> HIDE DEF q, r
<1>2. a + N * k = N * (q + k) + r
  BY <1>1
<1>3. (a + N * k) % N = r
  BY <1>1, <1>2, ModUnique
<1>4. QED
  BY <1>3 DEF r

\* A remainder modulo T keeps its remainder modulo a divisor of T.
LEMMA ModMod ==
    ASSUME NEW N \in Nat \ {0}, NEW T \in Nat \ {0}, T % N = 0, NEW a \in Int
    PROVE  (a % T) % N = a % N
<1> DEFINE q == a \div T
           m == T \div N
           r == a % T
<1>1. q \in Int /\ a = T * q + r /\ r \in Int
  OBVIOUS
<1>2. m \in Int /\ T = N * m
  OBVIOUS
<1> HIDE DEF q, m, r
<1>3. a = r + N * (m * q) /\ m * q \in Int
  BY <1>1, <1>2
<1>4. (r + N * (m * q)) % N = r % N
  BY <1>1, <1>3, ModMultiple
<1>5. QED
  BY <1>3, <1>4 DEF r

\* A step up or down, before or after the remainder is taken.
LEMMA ModStep ==
    ASSUME NEW N \in Nat \ {0}, NEW a \in Int
    PROVE  /\ a % N \in 0 .. N - 1
           /\ (a + 1) % N = IF a % N = N - 1 THEN 0 ELSE (a % N) + 1
           /\ (a - 1) % N = IF a % N = 0 THEN N - 1 ELSE (a % N) - 1
<1> DEFINE q == a \div N
           r == a % N
<1>1. q \in Int /\ r \in 0 .. N - 1 /\ a = N * q + r
  OBVIOUS
<1> HIDE DEF q, r
<1>2. /\ a + 1 = N * q + (r + 1) /\ a + 1 = N * (q + 1) + (r + 1 - N)
      /\ a - 1 = N * q + (r - 1) /\ a - 1 = N * (q - 1) + (r - 1 + N)
  BY <1>1
<1>3. (a + 1) % N = IF r = N - 1 THEN 0 ELSE r + 1
  <2>1. CASE r = N - 1
    BY <1>1, <1>2, <2>1, ModUnique
  <2>2. CASE r # N - 1
    BY <1>1, <1>2, <2>2, ModUnique
  <2>3. QED BY <2>1, <2>2
<1>4. (a - 1) % N = IF r = 0 THEN N - 1 ELSE r - 1
  <2>1. CASE r = 0
    BY <1>1, <1>2, <2>1, ModUnique
  <2>2. CASE r # 0
    BY <1>1, <1>2, <2>2, ModUnique
  <2>3. QED BY <2>1, <2>2
<1>5. QED
  BY <1>1, <1>3, <1>4 DEF r

\* A remainder taken of one term of a sum first.
LEMMA ModSum ==
    ASSUME NEW N \in Nat \ {0}, NEW a \in Int, NEW b \in Int
    PROVE  ((a % N) + b) % N = (a + b) % N
<1> DEFINE q == a \div N
           r == a % N
<1>1. q \in Int /\ r \in 0 .. N - 1 /\ a = N * q + r
  OBVIOUS
<1> HIDE DEF q, r
<1>2. a + b = (r + b) + N * q /\ r + b \in Int
  BY <1>1
<1>3. ((r + b) + N * q) % N = (r + b) % N
  BY <1>1, <1>2, ModMultiple
<1>4. QED
  BY <1>2, <1>3 DEF r

-----------------------------------------------------------------------------
(* The lines.                                                              *)

\* The Gray code.
LEMMA LinesTable ==
    ASSUME NEW x \in Int
    PROVE  /\ x % 4 = 0 => Lines(x) = <<0, 0>>
           /\ x % 4 = 1 => Lines(x) = <<0, 1>>
           /\ x % 4 = 2 => Lines(x) = <<1, 1>>
           /\ x % 4 = 3 => Lines(x) = <<1, 0>>
           /\ x % 4 \in 0 .. 3
  BY DEF Lines

\* Delta on lines that are known.
LEMMA DeltaTable ==
    ASSUME NEW a \in 0 .. 1, NEW b \in 0 .. 1, NEW c \in 0 .. 1, NEW d \in 0 .. 1
    PROVE  Delta(<<a, b>>, <<c, d>>) =
             CASE <<a, b, c, d>> \in Forward -> 1
               [] <<a, b, c, d>> \in Backward -> -1
               [] OTHER -> 0
<1>1. <<a, b>> \o <<c, d>> = <<a, b, c, d>>
  <2> DEFINE s == <<a, b>>
             t == <<c, d>>
             u == <<a, b, c, d>>
  <2>1. /\ s \in Seq(0 .. 1) /\ Len(s) = 2 /\ s[1] = a /\ s[2] = b
        /\ t \in Seq(0 .. 1) /\ Len(t) = 2 /\ t[1] = c /\ t[2] = d
        /\ u \in Seq(0 .. 1) /\ Len(u) = 4
        /\ u[1] = a /\ u[2] = b /\ u[3] = c /\ u[4] = d
    OBVIOUS
  <2> HIDE DEF s, t, u
  <2>2. /\ s \o t \in Seq(0 .. 1) /\ Len(s \o t) = 4
        /\ \A i \in 1 .. 4 : (s \o t)[i] = IF i <= 2 THEN s[i] ELSE t[i - 2]
    <3>1. /\ s \o t \in Seq(0 .. 1)
          /\ Len(s \o t) = Len(s) + Len(t)
          /\ \A i \in 1 .. Len(s) + Len(t) :
               (s \o t)[i] = IF i <= Len(s) THEN s[i] ELSE t[i - Len(s)]
      BY <2>1, ConcatProperties, Zenon
    <3>2. Len(s) + Len(t) = 4
      BY <2>1
    <3>3. QED
      BY <2>1, <3>1, <3>2
  <2>3. \A i \in 1 .. 4 : (s \o t)[i] = u[i]
    <3>1. \A i \in 1 .. 4 : i = 1 \/ i = 2 \/ (i = 3 /\ i - 2 = 1) \/ (i = 4 /\ i - 2 = 2)
      OBVIOUS
    <3>2. QED
      BY <2>1, <2>2, <3>1
  <2>4. s \o t = u
    BY <2>1, <2>2, <2>3, SeqEqual
  <2>5. QED
    BY <2>4 DEF s, t, u
<1>2. QED
  BY <1>1 DEF Delta

LEMMA LinesMod ==
    ASSUME NEW x \in Int
    PROVE  Lines(x % Turns) = Lines(x)
<1>1. (x % Turns) % 4 = x % 4
  <2>1. \A N \in Nat \ {0} : Turns % N = 0 => (x % Turns) % N = x % N
    BY PosBounds, ModMod
  <2>2. 4 \in Nat \ {0}
    OBVIOUS
  <2>3. QED
    BY <2>1, <2>2, PosBounds, Zenon
<1>2. QED
  BY <1>1 DEF Lines

\* A step of the shaft is counted as one, in its direction, no step as none, and
\* the lines tell a position from those beside it.
LEMMA DeltaOfStep ==
    ASSUME NEW x \in Int
    PROVE  /\ Delta(Lines(x), Lines((x + 1) % Turns)) = 1
           /\ Delta(Lines(x), Lines((x - 1) % Turns)) = -1
           /\ Delta(Lines(x), Lines(x)) = 0
           /\ Lines((x + 1) % Turns) # Lines(x)
           /\ Lines((x - 1) % Turns) # Lines(x)
<1>1. /\ Lines((x + 1) % Turns) = Lines(x + 1)
      /\ Lines((x - 1) % Turns) = Lines(x - 1)
  BY LinesMod
<1>2. \/ /\ Lines(x) = <<0, 0>> /\ Lines(x + 1) = <<0, 1>> /\ Lines(x - 1) = <<1, 0>>
      \/ /\ Lines(x) = <<0, 1>> /\ Lines(x + 1) = <<1, 1>> /\ Lines(x - 1) = <<0, 0>>
      \/ /\ Lines(x) = <<1, 1>> /\ Lines(x + 1) = <<1, 0>> /\ Lines(x - 1) = <<0, 1>>
      \/ /\ Lines(x) = <<1, 0>> /\ Lines(x + 1) = <<0, 0>> /\ Lines(x - 1) = <<1, 1>>
  BY LinesTable
<1>3. QED
  BY <1>1, <1>2, DeltaTable DEF Forward, Backward

-----------------------------------------------------------------------------
(* The decoder of the FPGA.                                                *)

\* Positions that agree modulo Turns have the same count.
LEMMA CountOfTurns ==
    ASSUME NEW a \in Int, NEW b \in Int
    PROVE  (b + (a % Turns)) % ENCODER_MAX = (b + a) % ENCODER_MAX
<1>1. a % Turns \in Int
  BY PosBounds
<1>2. (b + (a % Turns)) % ENCODER_MAX = (((a % Turns) % ENCODER_MAX) + b) % ENCODER_MAX
  <2>1. (((a % Turns) % ENCODER_MAX) + b) % ENCODER_MAX = ((a % Turns) + b) % ENCODER_MAX
    BY <1>1, PosBounds, ModSum
  <2>2. (a % Turns) + b = b + (a % Turns)
    BY <1>1
  <2>3. QED
    BY <2>1, <2>2
<1>3. (a % Turns) % ENCODER_MAX = a % ENCODER_MAX
  BY PosBounds, ModMod
<1>4. ((a % ENCODER_MAX) + b) % ENCODER_MAX = (a + b) % ENCODER_MAX
  BY PosBounds, ModSum
<1>5. a + b = b + a
  OBVIOUS
<1>6. QED
  BY <1>2, <1>3, <1>4, <1>5

\* Counted adds a step to the count, through the ends of its range.
LEMMA CountedAdds ==
    ASSUME NEW a \in Int, NEW delta \in {-1, 0, 1}
    PROVE  /\ a % ENCODER_MAX \in 0 .. ENCODER_MAX - 1
           /\ Counted(a % ENCODER_MAX, delta) = (a + delta) % ENCODER_MAX
<1>1. /\ a % ENCODER_MAX \in 0 .. ENCODER_MAX - 1
      /\ (a + 1) % ENCODER_MAX
            = IF a % ENCODER_MAX = ENCODER_MAX - 1 THEN 0 ELSE (a % ENCODER_MAX) + 1
      /\ (a - 1) % ENCODER_MAX
            = IF a % ENCODER_MAX = 0 THEN ENCODER_MAX - 1 ELSE (a % ENCODER_MAX) - 1
  BY PosBounds, ModStep
<1>2. CASE delta = 1
  BY <1>1, <1>2 DEF Counted
<1>3. CASE delta = -1
  <2>1. a + delta = a - 1
    BY <1>3
  <2>2. QED
    BY <1>1, <1>3, <2>1 DEF Counted
<1>4. CASE delta = 0
  <2>1. a + delta = a
    BY <1>4
  <2>2. Counted(a % ENCODER_MAX, delta) = a % ENCODER_MAX
    BY <1>4 DEF Counted
  <2>3. QED
    BY <1>1, <2>1, <2>2
<1>5. QED
  BY <1>1, <1>2, <1>3, <1>4

\* Delta is a step or none.
LEMMA DeltaType ==
    ASSUME NEW p, NEW c
    PROVE  Delta(p, c) \in {-1, 0, 1}
  BY DEF Delta

\* The decoder counts a shaft that made a step, or none, between two positions.
LEMMA CountedFollows ==
    ASSUME NEW y \in Positions, NEW x, Follows(y, x), NEW b \in Int
    PROVE  /\ x \in Positions
           /\ Counted((b + y) % ENCODER_MAX, Delta(Lines(y), Lines(x)))
                  = (b + x) % ENCODER_MAX
           /\ Lines(x) = Lines(y) => x = y
<1> y \in Int /\ Turns \in Nat \ {0} /\ ENCODER_MAX \in Nat \ {0}
  BY PosBounds DEF Positions
<1>1. CASE x = y
  <2>1. Delta(Lines(y), Lines(x)) = 0
    BY <1>1, DeltaOfStep
  <2>2. b + y \in Int /\ (b + y) + 0 = b + y
    OBVIOUS
  <2>3. Counted((b + y) % ENCODER_MAX, 0) = ((b + y) + 0) % ENCODER_MAX
    BY <2>2, CountedAdds
  <2>4. QED
    BY <1>1, <2>1, <2>2, <2>3
<1>2. CASE x = (y + 1) % Turns
  <2>1. Delta(Lines(y), Lines(x)) = 1 /\ Lines(x) # Lines(y)
    BY <1>2, DeltaOfStep
  <2>2. b + y \in Int /\ (b + y) + 1 = b + (y + 1) /\ y + 1 \in Int
    OBVIOUS
  <2>3. Counted((b + y) % ENCODER_MAX, 1) = ((b + y) + 1) % ENCODER_MAX
    BY <2>2, CountedAdds
  <2>4. (b + x) % ENCODER_MAX = (b + (y + 1)) % ENCODER_MAX
    BY <1>2, <2>2, CountOfTurns
  <2>5. x \in Positions
    BY <1>2, <2>2, ModStep DEF Positions
  <2>6. QED
    BY <2>1, <2>2, <2>3, <2>4, <2>5
<1>3. CASE x = (y - 1) % Turns
  <2>1. Delta(Lines(y), Lines(x)) = -1 /\ Lines(x) # Lines(y)
    BY <1>3, DeltaOfStep
  <2>2. b + y \in Int /\ (b + y) + (-1) = b + (y - 1) /\ y - 1 \in Int
    OBVIOUS
  <2>3. Counted((b + y) % ENCODER_MAX, -1) = ((b + y) + (-1)) % ENCODER_MAX
    BY <2>2, CountedAdds
  <2>4. (b + x) % ENCODER_MAX = (b + (y - 1)) % ENCODER_MAX
    BY <1>3, <2>2, CountOfTurns
  <2>5. x \in Positions
    BY <1>3, <2>2, ModStep DEF Positions
  <2>6. QED
    BY <2>1, <2>2, <2>3, <2>4, <2>5
<1>4. QED
  BY <1>1, <1>2, <1>3 DEF Follows, Beside

\* A step of the shaft follows the position it is made from.
LEMMA TurnFollows ==
    ASSUME shaft \in Positions, NEW step \in {-1, 1}, Turn(step)
    PROVE  shaft' \in Positions /\ shaft' \in Beside(shaft) /\ Follows(shaft, shaft')
<1>1. shaft + (-1) = shaft - 1 /\ shaft \in Int
  BY DEF Positions
<1>2. shaft' \in Beside(shaft)
  BY <1>1 DEF Turn, Beside
<1>3. Follows(shaft, shaft')
  BY <1>2 DEF Follows
<1>4. shaft' \in Positions
  BY <1>3, CountedFollows
<1>5. QED
  BY <1>2, <1>3, <1>4

\* A clock edge moves each register on to the position of the one before it.
LEMMA TickStep ==
    ASSUME De10Inv, shaft \in Positions, EncoderTick, moved' = FALSE, shaft' = shaft
    PROVE  De10Inv'
<1> DEFINE D(x) == Delta(Unread, Lines(x))
           Is(x) == count' = (base' + x) % ENCODER_MAX
<1> PICK s : s = shaft
  OBVIOUS
<1> /\ ENCODER_MAX \in Nat \ {0} /\ s \in Positions
    /\ count \in 0 .. ENCODER_MAX - 1
    /\ base \in {NoBase} \cup 0 .. ENCODER_MAX - 1
    /\ \A x \in Positions : x \in Int
  BY PosBounds DEF De10Inv, Positions
<1>1. /\ A_B_sync_0' = Lines(s) /\ A_B_sync_1' = A_B_sync_0
      /\ prev_A_B' = A_B_sync_1
      /\ count' = Counted(count, Delta(prev_A_B, A_B_sync_1))
  BY DEF EncoderTick
<1>2. \A x : D(x) \in {-1, 0, 1}
  BY DeltaType
<1>3. Delta(Unread, Unread) = 0 /\ \A n : Counted(n, 0) = n
  <2>1. Lines(0) = Unread
    BY LinesTable DEF Unread
  <2>2. Delta(Unread, Unread) = 0
    BY <2>1, DeltaOfStep
  <2>3. QED
    BY <2>2 DEF Counted
<1> DEFINE Next1(y1) ==
             /\ A_B_sync_1' = Lines(y1) /\ Follows(y1, s)
             /\ \/ prev_A_B' = Unread /\ Is(y1 - D(y1))
                \/ \E y2 \in Positions :
                     prev_A_B' = Lines(y2) /\ Follows(y2, y1) /\ Is(y2)
           Next0 == \/ /\ A_B_sync_1' = Unread /\ prev_A_B' = Unread
                       /\ Is(s - D(s))
                    \/ \E y1 \in Positions : Next1(y1)
<1>4. ASSUME Next0 PROVE PipelineInv'
  <2>1. Positions' = Positions /\ Unread' = Unread
    BY DEF Positions, Unread
  <2>2. \A x, y : Lines(x)' = Lines(x) /\ Follows(y, x)' = Follows(y, x)
    BY DEF Lines, Follows, Beside
  <2>3. \A x : CountIs(x)' <=> Is(x)
    BY DEF CountIs
  <2>4. \A x : Delta(Unread, Lines(x))' = D(x)
    BY DEF Delta, Lines, Unread, Forward, Backward
  <2>5. moved' = FALSE /\ s = shaft' /\ A_B_sync_0' = Lines(s)
    BY <1>1
  <2> HIDE DEF D, Is
  <2>6. QED
    BY <1>4, <2>1, <2>2, <2>3, <2>4, <2>5 DEF PipelineInv
<1>5. CASE base = NoBase
  <2>1. base' = (count + D(s) - s) % ENCODER_MAX
    BY <1>5 DEF EncoderTick, Unread
  <2>2. A_B_sync_0 = Unread /\ A_B_sync_1 = Unread /\ prev_A_B = Unread
    BY <1>5 DEF De10Inv
  <2>3. count' = count
    BY <1>1, <1>3, <2>2
  <2> PICK e \in {-1, 0, 1} : e = D(s)
    BY <1>2
  <2> HIDE DEF D
  <2>4. /\ count + e - s \in Int /\ s - e \in Int
        /\ (count + e - s) + (s - e) = count
    OBVIOUS
  <2>5. (base' + (s - e)) % ENCODER_MAX = count
    <3>1. (((count + e - s) % ENCODER_MAX) + (s - e)) % ENCODER_MAX
              = ((count + e - s) + (s - e)) % ENCODER_MAX
      BY <2>4, ModSum
    <3>2. count % ENCODER_MAX = count
      <4>1. count = ENCODER_MAX * 0 + count
        OBVIOUS
      <4>2. QED
        BY <4>1, ModUnique
    <3>3. QED
      BY <2>1, <2>4, <3>1, <3>2
  <2>6. base' \in 0 .. ENCODER_MAX - 1
    BY <2>1, <2>4, ModStep
  <2>7. Is(s - D(s))
    BY <2>3, <2>5
  <2>8. PipelineInv'
    BY <1>1, <1>4, <2>2, <2>7
  <2>9. base' # NoBase /\ count' \in 0 .. ENCODER_MAX - 1
    BY <2>3, <2>6 DEF NoBase
  <2>10. moved' \in BOOLEAN
    OBVIOUS
  <2>11. QED
    BY <2>6, <2>8, <2>9, <2>10 DEF De10Inv
<1>6. CASE base # NoBase
  <2>1. base' = base /\ base \in Int
    BY <1>6 DEF EncoderTick
  <2>2. PICK y0 \in Positions :
          /\ A_B_sync_0 = Lines(y0)
          /\ IF moved THEN Follows(y0, shaft) ELSE y0 = shaft
          /\ \/ /\ A_B_sync_1 = Unread /\ prev_A_B = Unread
                /\ CountIs(y0 - D(y0))
             \/ \E y1 \in Positions :
                  /\ A_B_sync_1 = Lines(y1) /\ Follows(y1, y0)
                  /\ \/ prev_A_B = Unread /\ CountIs(y1 - D(y1))
                     \/ \E y2 \in Positions :
                          prev_A_B = Lines(y2) /\ Follows(y2, y1) /\ CountIs(y2)
    BY <1>6 DEF De10Inv, PipelineInv
  <2>3. A_B_sync_1' = Lines(y0) /\ Follows(y0, s)
    BY <1>1, <2>2 DEF Follows
  <2>4. ASSUME A_B_sync_1 = Unread, prev_A_B = Unread, CountIs(y0 - D(y0))
        PROVE  Next1(y0)
    <3>1. count' = count /\ prev_A_B' = Unread
      BY <1>1, <1>3, <2>4
    <3>2. Is(y0 - D(y0))
      BY <2>1, <2>4, <3>1 DEF CountIs
    <3>3. QED
      BY <2>3, <3>1, <3>2
  <2>5. ASSUME NEW y1 \in Positions, A_B_sync_1 = Lines(y1), Follows(y1, y0),
               prev_A_B = Unread, CountIs(y1 - D(y1))
        PROVE  Next1(y0)
    <3> PICK e \in {-1, 0, 1} : e = D(y1)
      BY <1>2
    <3> HIDE DEF D
    <3>1. count = (base + (y1 - e)) % ENCODER_MAX
      BY <2>5 DEF CountIs
    <3>2. base + (y1 - e) \in Int /\ (base + (y1 - e)) + e = base + y1
      BY <2>1
    <3>3. count' = Counted(count, e)
      BY <1>1, <2>5 DEF D
    <3>4. count' = (base + y1) % ENCODER_MAX
      BY <3>1, <3>2, <3>3, CountedAdds
    <3>5. prev_A_B' = Lines(y1) /\ Is(y1)
      BY <1>1, <2>1, <2>5, <3>4
    <3>6. QED
      BY <2>3, <2>5, <3>5
  <2>6. ASSUME NEW y1 \in Positions, A_B_sync_1 = Lines(y1), Follows(y1, y0),
               NEW y2 \in Positions,
               prev_A_B = Lines(y2), Follows(y2, y1), CountIs(y2)
        PROVE  Next1(y0)
    <3>1. count' = Counted((base + y2) % ENCODER_MAX, Delta(Lines(y2), Lines(y1)))
      BY <1>1, <2>6 DEF CountIs
    <3>2. count' = (base + y1) % ENCODER_MAX
      BY <2>1, <2>6, <3>1, CountedFollows
    <3>3. prev_A_B' = Lines(y1) /\ Is(y1)
      BY <1>1, <2>1, <2>6, <3>2
    <3>4. QED
      BY <2>3, <2>6, <3>3
  <2> HIDE DEF Next1
  <2>7. Next1(y0)
    BY <2>2, <2>4, <2>5, <2>6
  <2>8. PipelineInv'
    BY <1>4, <2>7
  <2>9. count' \in 0 .. ENCODER_MAX - 1
    <3>1. Delta(prev_A_B, A_B_sync_1) \in {-1, 0, 1}
      BY DeltaType
    <3>2. QED
      BY <1>1, <3>1 DEF Counted
  <2>10. QED
    BY <1>6, <2>1, <2>8, <2>9 DEF De10Inv
<1>7. QED
  BY <1>5, <1>6

\* The registers show where the shaft was, whatever it and the clock do.
LEMMA De10Step == De10Inv /\ shaft \in Positions /\ De10Next => De10Inv' /\ shaft' \in Positions
<1> SUFFICES ASSUME De10Inv, shaft \in Positions, De10Next
             PROVE  De10Inv' /\ shaft' \in Positions
  OBVIOUS
<1>1. ASSUME NEW step \in {-1, 1}, De10Turn(step)
      PROVE  De10Inv' /\ shaft' \in Positions
  <2>1. /\ ~moved /\ moved' = TRUE /\ Turn(step)
        /\ UNCHANGED <<A_B_sync_0, A_B_sync_1, prev_A_B, count, base>>
    BY <1>1 DEF De10Turn, decoderRegs
  <2>2. shaft' \in Positions /\ Follows(shaft, shaft')
    BY <2>1, TurnFollows
  <2>3. PipelineInv => PipelineInv'
    <3> SUFFICES ASSUME PipelineInv PROVE PipelineInv'
      OBVIOUS
    <3> PICK z : z = shaft'
      OBVIOUS
    <3>1. \A y : y = shaft => Follows(y, z)
      BY <2>2
    <3>2. \A y : Follows(y, shaft)' = Follows(y, z)
      BY DEF Follows, Beside
    <3>3. \A x : CountIs(x)' <=> CountIs(x)
      BY <2>1 DEF CountIs
    <3>4. QED
      BY <2>1, <3>1, <3>2, <3>3
      DEF PipelineInv, Positions, Unread, Lines, Follows, Beside, Delta, Forward, Backward
  <2>4. QED
    BY <2>1, <2>2, <2>3 DEF De10Inv, Unread
<1>2. CASE De10Tick
  BY <1>2, TickStep DEF De10Tick, Positions
<1>3. CASE ResetButton
  <2>1. ENCODER_MAX \div 2 \in 0 .. ENCODER_MAX - 1
    BY PosBounds
  <2>2. /\ count' \in 0 .. ENCODER_MAX - 1 /\ base' = NoBase /\ moved' = FALSE
        /\ A_B_sync_0' = Unread /\ A_B_sync_1' = Unread /\ prev_A_B' = Unread
        /\ shaft' = shaft
    BY <1>3, <2>1 DEF ResetButton, Unread
  <2>3. shaft' \in Positions
    BY <2>2
  <2>4. De10Inv'
    BY <2>2 DEF De10Inv, NoBase, Unread
  <2>5. QED
    BY <2>3, <2>4
<1>4. QED
  BY <1>1, <1>2, <1>3 DEF De10Next

\* Registers that show the lines as they are show where the shaft is.
LEMMA De10Caught == De10Inv /\ shaft \in Positions => De10InStep
<1> SUFFICES ASSUME De10Inv, shaft \in Positions, base # NoBase,
                    A_B_sync_0 = Lines(shaft), A_B_sync_1 = Lines(shaft),
                    prev_A_B = Lines(shaft)
             PROVE  CountIs(shaft)
  BY DEF De10InStep, CountIs
<1> PICK s \in Positions : s = shaft
  OBVIOUS
<1>1. PICK y0 \in Positions :
        /\ Lines(s) = Lines(y0)
        /\ IF moved THEN Follows(y0, s) ELSE y0 = s
        /\ \/ Lines(s) = Unread /\ CountIs(y0 - Delta(Unread, Lines(y0)))
           \/ \E y1 \in Positions :
                /\ Lines(s) = Lines(y1) /\ Follows(y1, y0)
                /\ \/ Lines(s) = Unread /\ CountIs(y1 - Delta(Unread, Lines(y1)))
                   \/ \E y2 \in Positions :
                        Lines(s) = Lines(y2) /\ Follows(y2, y1) /\ CountIs(y2)
  BY DEF De10Inv, PipelineInv
<1>2. \A y, x \in Positions : Follows(y, x) /\ Lines(x) = Lines(y) => x = y
  BY CountedFollows
<1>3. y0 = s
  BY <1>1, <1>2
<1>4. Lines(s) = Unread => s - Delta(Unread, Lines(s)) = s
  BY DeltaOfStep DEF Positions
<1>5. QED
  BY <1>1, <1>2, <1>3, <1>4

-----------------------------------------------------------------------------
(* The decoder on the CPU.                                                 *)

\* A pair of bits.
Bits == {<<a, b>> : a \in 0 .. 1, b \in 0 .. 1}

LEMMA PairOfBits ==
    ASSUME NEW p \in Bits
    PROVE  /\ p[1] \in 0 .. 1 /\ p[2] \in 0 .. 1 /\ p = <<p[1], p[2]>>
           /\ \A b \in 0 .. 1 : /\ [p EXCEPT ![1] = b] = <<b, p[2]>>
                                /\ [p EXCEPT ![2] = b] = <<p[1], b>>
  BY DEF Bits

LEMMA LinesType ==
    ASSUME NEW x \in Int
    PROVE  /\ Lines(x) \in Bits
           /\ Lines(x)[1] \in 0 .. 1 /\ Lines(x)[2] \in 0 .. 1
           /\ Lines(x) = <<Lines(x)[1], Lines(x)[2]>>
<1>1. Lines(x) \in Bits
  BY LinesTable DEF Bits
<1>2. QED
  BY <1>1, PairOfBits

\* A turn of the shaft is an edge of exactly one line.
LEMMA EdgesOfTurn ==
    ASSUME NEW step \in {-1, 1}, shaft \in Positions, Turn(step)
    PROVE  /\ \A t \in Watchers : t \in Edges(step) <=> Lines(shaft')[t] # Lines(shaft)[t]
           /\ \E t \in Watchers : t \in Edges(step) /\ 3 - t \notin Edges(step)
<1>1. shaft \in Int /\ shaft + step \in Int /\ Lines(shaft') = Lines(shaft + step)
  BY LinesMod DEF Turn, Positions
<1>2. \A t \in Watchers : t \in Edges(step) <=> Lines(shaft')[t] # Lines(shaft)[t]
  BY <1>1 DEF Edges, Watchers
<1>3. \/ /\ Lines(shaft + step)[1] # Lines(shaft)[1]
         /\ Lines(shaft + step)[2] = Lines(shaft)[2]
      \/ /\ Lines(shaft + step)[1] = Lines(shaft)[1]
         /\ Lines(shaft + step)[2] # Lines(shaft)[2]
  <2>1. \/ /\ Lines(shaft) = <<0, 0>> /\ Lines(shaft + step) \in {<<0, 1>>, <<1, 0>>}
        \/ /\ Lines(shaft) = <<0, 1>> /\ Lines(shaft + step) \in {<<1, 1>>, <<0, 0>>}
        \/ /\ Lines(shaft) = <<1, 1>> /\ Lines(shaft + step) \in {<<1, 0>>, <<0, 1>>}
        \/ /\ Lines(shaft) = <<1, 0>> /\ Lines(shaft + step) \in {<<0, 0>>, <<1, 1>>}
    BY <1>1, LinesTable
  <2>2. QED
    BY <2>1
<1>4. QED
  BY <1>1, <1>2, <1>3 DEF Watchers

\* A count changes the position by an odd number iff one of the lines changed.
LEMMA DeltaParity ==
    ASSUME NEW p \in Bits, NEW c \in Bits
    PROVE  (Delta(p, c) + p[1] + p[2] + c[1] + c[2]) % 2 = 0
<1>1. /\ p = <<p[1], p[2]>> /\ p[1] \in 0 .. 1 /\ p[2] \in 0 .. 1
      /\ c = <<c[1], c[2]>> /\ c[1] \in 0 .. 1 /\ c[2] \in 0 .. 1
  BY PairOfBits
<1>2. Delta(p, c) = CASE <<p[1], p[2], c[1], c[2]>> \in Forward -> 1
                      [] <<p[1], p[2], c[1], c[2]>> \in Backward -> -1
                      [] OTHER -> 0
  BY <1>1, DeltaTable
<1>3. QED
  BY <1>1, <1>2 DEF Forward, Backward

\* Every variable keeps its type.
LEMMA CpuTypeStep == CpuTypeOK /\ shaft \in Positions /\ CpuNext => CpuTypeOK'
<1> SUFFICES ASSUME CpuTypeOK, shaft \in Positions, CpuNext PROVE CpuTypeOK'
  OBVIOUS
<1>0. /\ Lines(shaft)[1] \in 0 .. 1 /\ Lines(shaft)[2] \in 0 .. 1
      /\ MaxEvents \in Nat \ {0} /\ Turns \in Nat \ {0}
  BY LinesType, PosBounds DEF Positions
<1> USE DEF CpuTypeOK, threads, decoder, Reading, Starting, None, Positions
<1>1. ASSUME NEW step \in {-1, 1}, CpuTurn(step) PROVE CpuTypeOK'
  <2>1. events' \in [Watchers -> 0 .. MaxEvents]
    BY <1>0, <1>1 DEF CpuTurn
  <2>2. slow' \in BOOLEAN /\ origin' \in 0 .. Turns - 1
    BY <1>0, <1>1 DEF CpuTurn, Quiet
  <2>3. UNCHANGED <<main, watcher, state_lock, new_a, last, position, parity>>
    BY <1>1 DEF CpuTurn
  <2>4. QED
    BY <2>1, <2>2, <2>3
<1>2. CASE handle_signal
  <2>1. watcher' \in [Watchers -> Reading \cup {"off", "test", "wait", "end"}]
    BY <1>2 DEF handle_signal
  <2>2. QED
    BY <1>2, <2>1 DEF handle_signal
<1>3. CASE Open
  BY <1>3 DEF Open
<1>4. CASE LastA
  <2>1. last' \in Bits
    BY <1>0, <1>4, PairOfBits DEF LastA, Bits
  <2>2. QED
    BY <1>4, <2>1 DEF LastA, Bits
<1>5. CASE LastB
  <2>1. last' \in Bits
    BY <1>0, <1>5, PairOfBits DEF LastB, Bits
  <2>2. parity' \in 0 .. 1
    <3>1. last'[1] \in 0 .. 1 /\ last'[2] \in 0 .. 1
      BY <2>1, PairOfBits
    <3>2. parity' = (last'[1] + last'[2]) % 2
      BY <1>5 DEF LastB
    <3>3. QED
      BY <3>1, <3>2
  <2>3. origin' \in 0 .. Turns - 1
    BY <1>0, <1>5 DEF LastB
  <2>4. QED
    BY <1>5, <2>1, <2>2, <2>3 DEF LastB, Bits
<1>6. CASE Create
  BY <1>6 DEF Create
<1>7. CASE Join
  BY <1>7 DEF Join
<1>8. CASE cleanup
  BY <1>8 DEF cleanup
<1>9. ASSUME NEW t \in Watchers, Test(t) PROVE CpuTypeOK'
  BY <1>9 DEF Test
<1>10. ASSUME NEW t \in Watchers, Event(t) PROVE CpuTypeOK'
  <2>1. events' \in [Watchers -> 0 .. MaxEvents]
    BY <1>0, <1>10 DEF Event
  <2>2. QED
    BY <1>10, <2>1 DEF Event
<1>11. ASSUME NEW t \in Watchers, Lock(t) PROVE CpuTypeOK'
  BY <1>11 DEF Lock, Locked
<1>12. ASSUME NEW t \in Watchers, ReadA(t) PROVE CpuTypeOK'
  BY <1>0, <1>12 DEF ReadA
<1>13. ASSUME NEW t \in Watchers, process_transition(t) PROVE CpuTypeOK'
  <2>1. last' \in Bits
    BY <1>0, <1>13 DEF process_transition, Bits
  <2>2. position' \in 0 .. Turns - 1
    <3>1. Delta(last, <<new_a[t], Lines(shaft)[2]>>) \in {-1, 0, 1}
      BY DeltaType
    <3>2. position + Delta(last, <<new_a[t], Lines(shaft)[2]>>) \in Int
      BY <3>1
    <3>3. QED
      BY <1>0, <1>13, <3>2, ModStep DEF process_transition
  <2>3. QED
    BY <1>13, <2>1, <2>2 DEF process_transition, Bits
<1>14. CASE controller_thread
  BY <1>14 DEF controller_thread
<1>15. QED
  BY <1>1, <1>2, <1>3, <1>4, <1>5, <1>6, <1>7, <1>8, <1>9, <1>10, <1>11,
     <1>12, <1>13, <1>14 DEF CpuNext, main_thread, watch_line

\* state_lock keeps the threads of the lines apart.
LEMMA LockStep == CpuTypeOK /\ LockInv /\ CpuNext => LockInv'
<1> SUFFICES ASSUME CpuTypeOK, LockInv, CpuNext PROVE LockInv'
  OBVIOUS
<1> watcher \in [Watchers -> Reading \cup {"off", "test", "wait", "end"}]
  BY DEF CpuTypeOK
<1> USE DEF LockInv, threads, decoder, Starting, Watchers, None
<1>1. ASSUME NEW step \in {-1, 1}, CpuTurn(step) PROVE LockInv'
  BY <1>1 DEF CpuTurn
<1>2. CASE handle_signal
  BY <1>2 DEF handle_signal
<1>3. CASE Open
  BY <1>3 DEF Open
<1>4. CASE LastA
  BY <1>4 DEF LastA
<1>5. CASE LastB
  BY <1>5 DEF LastB
<1>6. CASE Create
  BY <1>6 DEF Create
<1>7. CASE Join
  BY <1>7 DEF Join
<1>8. CASE cleanup
  BY <1>8 DEF cleanup
<1>9. ASSUME NEW t \in Watchers, Test(t) PROVE LockInv'
  BY <1>9 DEF Test
<1>10. ASSUME NEW t \in Watchers, Event(t) PROVE LockInv'
  BY <1>10 DEF Event
<1>11. ASSUME NEW t \in Watchers, Lock(t) PROVE LockInv'
  BY <1>11 DEF Lock, Locked
<1>12. ASSUME NEW t \in Watchers, ReadA(t) PROVE LockInv'
  BY <1>12 DEF ReadA
<1>13. ASSUME NEW t \in Watchers, process_transition(t) PROVE LockInv'
  BY <1>13 DEF process_transition
<1>14. CASE controller_thread
  BY <1>14 DEF controller_thread
<1>15. QED
  BY <1>1, <1>2, <1>3, <1>4, <1>5, <1>6, <1>7, <1>8, <1>9, <1>10, <1>11,
     <1>12, <1>13, <1>14 DEF CpuNext, main_thread, watch_line

\* A turn leaves an edge in the kernel's queue of every line that it changes,
\* while the lines are requested.
LEMMA TurnNotes ==
    ASSUME CpuTypeOK, shaft \in Positions, NEW step \in {-1, 1}, CpuTurn(step), Requested
    PROVE  \A t \in Watchers : events'[t] > 0 \/ (/\ Lines(shaft')[t] = Lines(shaft)[t]
                                                  /\ events'[t] = events[t])
<1>1. \A t \in Watchers : t \in Edges(step) <=> Lines(shaft')[t] # Lines(shaft)[t]
  BY EdgesOfTurn DEF CpuTurn
<1>2. \A t \in Watchers : events'[t] = IF t \in Edges(step) /\ events[t] < MaxEvents
                                       THEN events[t] + 1 ELSE events[t]
  BY DEF CpuTurn
<1>3. \A t \in Watchers : events[t] \in 0 .. MaxEvents
  BY DEF CpuTypeOK
<1>4. QED
  BY <1>1, <1>2, <1>3, PosBounds

\* A line that is not as the decoder knows it is going to be read.
LEMMA NoticedStep ==
    CpuTypeOK /\ LockInv /\ NoticedInv /\ shaft \in Positions /\ CpuNext => NoticedInv'
<1> SUFFICES ASSUME CpuTypeOK, LockInv, NoticedInv, shaft \in Positions, CpuNext
             PROVE  NoticedInv'
  OBVIOUS
<1> /\ watcher \in [Watchers -> Reading \cup {"off", "test", "wait", "end"}]
    /\ events \in [Watchers -> 0 .. MaxEvents]
    /\ new_a \in [Watchers -> 0 .. 1]
    /\ last \in Bits
    /\ main \in Starting \cup {"print", "join_control", "join_a", "join_b",
                               "cleanup", "done"}
  BY DEF CpuTypeOK, Bits
<1>0. Lines(shaft)[1] \in 0 .. 1 /\ Lines(shaft)[2] \in 0 .. 1
  BY LinesType DEF Positions
<1>a. \A x, t : (Lines(x)[t])' = Lines(x)[t]
  BY DEF Lines
<1> USE DEF NoticedInv, Noticed1, Noticed2, threads, decoder, Watchers, Reading
<1>1. ASSUME NEW step \in {-1, 1}, CpuTurn(step) PROVE NoticedInv'
  <2>1. UNCHANGED <<main, watcher, new_a, last>>
    BY <1>1 DEF CpuTurn
  <2>2. CASE Requested
    <3>1. /\ events'[1] > 0 \/ (/\ Lines(shaft')[1] = Lines(shaft)[1]
                               /\ events'[1] = events[1])
          /\ events'[2] > 0 \/ (/\ Lines(shaft')[2] = Lines(shaft)[2]
                               /\ events'[2] = events[2])
      <4>1. \A t \in Watchers :
              events'[t] > 0 \/ (/\ Lines(shaft')[t] = Lines(shaft)[t]
                                 /\ events'[t] = events[t])
        BY <1>1, <2>2, TurnNotes
      <4>2. QED
        BY <4>1
    <3>2. QED
      BY <2>1, <3>1
  <2>3. CASE ~Requested
    BY <2>1, <2>3 DEF Requested
  <2>4. QED
    BY <2>2, <2>3
<1>2. CASE handle_signal
  <2>1. /\ UNCHANGED <<main, new_a, last, shaft, events>>
        /\ \A t \in Watchers :
             watcher'[t] # watcher[t] => watcher[t] = "wait" /\ watcher'[t] = "test"
    <3>1. \/ watcher' = watcher
          \/ \E t \in Watchers : watcher[t] = "wait"
                                  /\ watcher' = [watcher EXCEPT ![t] = "test"]
      BY <1>2 DEF handle_signal
    <3>2. UNCHANGED <<main, new_a, last, shaft, events>>
      BY <1>2 DEF handle_signal
    <3>3. QED
      BY <3>1, <3>2
  <2>2. QED
    BY <2>1
<1>3. CASE Open
  BY <1>3 DEF Open
<1>4. CASE LastA
  <2>1. last'[1] = Lines(shaft)[1]
    <3>1. last' = [last EXCEPT ![1] = Lines(shaft)[1]]
      BY <1>4 DEF LastA
    <3>2. last' = <<Lines(shaft)[1], last[2]>>
      BY <1>0, <3>1, PairOfBits
    <3>3. QED
      BY <3>2
  <2>2. \A t \in Watchers : watcher[t] = "off"
    BY <1>4 DEF LastA, LockInv, Starting
  <2>3. QED
    BY <1>4, <2>1, <2>2 DEF LastA
<1>5. CASE LastB
  <2>1. last'[2] = Lines(shaft)[2] /\ last'[1] = last[1]
    <3>1. last' = [last EXCEPT ![2] = Lines(shaft)[2]]
      BY <1>5 DEF LastB
    <3>2. last' = <<last[1], Lines(shaft)[2]>>
      BY <1>0, <3>1, PairOfBits
    <3>3. QED
      BY <3>2
  <2>2. QED
    BY <1>5, <2>1 DEF LastB
<1>6. CASE Create
  <2>1. \A t \in Watchers : watcher[t] = "off"
    BY <1>6 DEF Create, LockInv, Starting
  <2>2. \/ main' = "done"
        \/ \A t \in Watchers : watcher'[t] = "test"
    BY <1>6 DEF Create
  <2>3. main = "create" /\ UNCHANGED <<new_a, last, shaft, events>>
    BY <1>6 DEF Create
  <2>4. QED
    BY <2>1, <2>2, <2>3
<1>7. CASE Join
  BY <1>7 DEF Join
<1>8. CASE cleanup
  BY <1>8 DEF cleanup
<1>9. ASSUME NEW t \in Watchers, Test(t) PROVE NoticedInv'
  <2>1. /\ UNCHANGED <<main, new_a, last, shaft, events>>
        /\ watcher[t] = "test" /\ watcher'[t] \in {"wait", "end"}
        /\ \A u \in Watchers \ {t} : watcher'[u] = watcher[u]
    BY <1>9 DEF Test
  <2>2. QED
    BY <2>1
<1>10. ASSUME NEW t \in Watchers, Event(t) PROVE NoticedInv'
  <2>1. /\ main' = main /\ watcher'[t] = "lock"
    BY <1>10 DEF Event
  <2>2. Noticed1' /\ Noticed2'
    BY <2>1
  <2>3. QED
    BY <2>2
<1>11. ASSUME NEW t \in Watchers, Lock(t) PROVE NoticedInv'
  <2>1. /\ main' = main /\ watcher'[t] = "read_a"
    BY <1>11 DEF Lock, Locked
  <2>2. Noticed1' /\ Noticed2'
    BY <2>1
  <2>3. QED
    BY <2>2
<1>12. ASSUME NEW t \in Watchers, ReadA(t) PROVE NoticedInv'
  <2>1. /\ main' = main /\ watcher'[t] = "read_b" /\ new_a'[t] = Lines(shaft)[1]
        /\ shaft' = shaft
    BY <1>12 DEF ReadA
  <2>2. Noticed1' /\ Noticed2'
    BY <2>1
  <2>3. QED
    BY <2>2
<1>13. ASSUME NEW t \in Watchers, process_transition(t) PROVE NoticedInv'
  <2>1. /\ watcher[t] = "read_b" /\ watcher'[t] = "test"
        /\ \A u \in Watchers \ {t} : watcher'[u] = watcher[u]
        /\ last' = <<new_a[t], Lines(shaft)[2]>>
        /\ UNCHANGED <<main, shaft, events>>
    BY <1>13 DEF process_transition
  <2>2. \A u \in Watchers \ {t} : watcher[u] \notin {"read_a", "read_b"}
    BY <2>1 DEF LockInv
  <2>3. last'[1] = new_a[t] /\ last'[2] = Lines(shaft)[2]
    BY <2>1
  <2>4. Noticed2'
    BY <2>1, <2>3
  <2>5. Noticed1 => Noticed1'
    BY <2>1, <2>2, <2>3
  <2>6. QED
    BY <2>1, <2>4, <2>5
<1>14. CASE controller_thread
  BY <1>14 DEF controller_thread
<1>15. QED
  BY <1>1, <1>2, <1>3, <1>4, <1>5, <1>6, <1>7, <1>8, <1>9, <1>10, <1>11,
     <1>12, <1>13, <1>14 DEF CpuNext, main_thread, watch_line

\* A remainder of Turns is even or odd as the number is.
LEMMA PositionStep ==
    ASSUME NEW p \in Positions, NEW delta \in {-1, 0, 1}
    PROVE  /\ (p + delta) % Turns \in Positions
           /\ ((p + delta) % Turns) % 2 = (p + delta) % 2
<1>1. Turns % 2 = 0 /\ Turns \in Nat \ {0} /\ p + delta \in Int
  BY PosBounds DEF Positions
<1>2. \A N \in Nat \ {0} : Turns % N = 0 => ((p + delta) % Turns) % N = (p + delta) % N
  BY <1>1, ModMod
<1>3. 2 \in Nat \ {0}
  OBVIOUS
<1>4. ((p + delta) % Turns) % 2 = (p + delta) % 2
  BY <1>1, <1>2, <1>3, Zenon
<1>5. QED
  BY <1>1, <1>4, ModStep DEF Positions

\* Two changes of the same parity.
LEMMA EvenSum ==
    ASSUME NEW a \in Int, NEW b \in Int, NEW d \in Int, NEW e \in Int,
           NEW k \in Int, NEW q \in Int,
           a % 2 = (b + d) % 2, (d + e + k) % 2 = 0, (b + q + e) % 2 = 0
    PROVE  (a + q + k) % 2 = 0
  OBVIOUS

\* The position slips by no single line.
LEMMA ParityStep ==
    CpuTypeOK /\ LockInv /\ ParityInv /\ shaft \in Positions /\ CpuNext => ParityInv'
<1> SUFFICES ASSUME CpuTypeOK, LockInv, ParityInv, shaft \in Positions, CpuNext
             PROVE  ParityInv'
  OBVIOUS
<1> /\ last \in Bits /\ position \in Positions /\ parity \in 0 .. 1
    /\ new_a \in [Watchers -> 0 .. 1]
  BY DEF CpuTypeOK, Bits, Positions
<1>0. Lines(shaft)[1] \in 0 .. 1 /\ Lines(shaft)[2] \in 0 .. 1
  BY LinesType DEF Positions
<1> USE DEF ParityInv, threads, decoder
<1>1. ASSUME NEW step \in {-1, 1}, CpuTurn(step) PROVE ParityInv'
  BY <1>1 DEF CpuTurn
<1>2. CASE handle_signal
  BY <1>2 DEF handle_signal
<1>3. CASE Open
  BY <1>3 DEF Open
<1>4. CASE LastA
  BY <1>4 DEF LastA
<1>5. CASE LastB
  <2>1. last'[1] \in 0 .. 1 /\ last'[2] \in 0 .. 1
    <3>1. last' = [last EXCEPT ![2] = Lines(shaft)[2]]
      BY <1>5 DEF LastB
    <3>2. last' = <<last[1], Lines(shaft)[2]>> /\ last[1] \in 0 .. 1
      BY <1>0, <3>1, PairOfBits
    <3>3. QED
      BY <1>0, <3>2
  <2>2. position' = 0 /\ parity' = (last'[1] + last'[2]) % 2
    BY <1>5 DEF LastB, LockInv, Starting
  <2>3. QED
    BY <2>1, <2>2
<1>6. CASE Create
  BY <1>6 DEF Create
<1>7. CASE Join
  BY <1>7 DEF Join
<1>8. CASE cleanup
  BY <1>8 DEF cleanup
<1>9. ASSUME NEW t \in Watchers, Test(t) PROVE ParityInv'
  BY <1>9 DEF Test
<1>10. ASSUME NEW t \in Watchers, Event(t) PROVE ParityInv'
  BY <1>10 DEF Event
<1>11. ASSUME NEW t \in Watchers, Lock(t) PROVE ParityInv'
  BY <1>11 DEF Lock, Locked
<1>12. ASSUME NEW t \in Watchers, ReadA(t) PROVE ParityInv'
  BY <1>12 DEF ReadA
<1>13. ASSUME NEW t \in Watchers, process_transition(t) PROVE ParityInv'
  <2> DEFINE curr == <<new_a[t], Lines(shaft)[2]>>
             delta == Delta(last, curr)
  <2>1. /\ curr \in Bits /\ delta \in {-1, 0, 1}
        /\ curr[1] \in 0 .. 1 /\ curr[2] \in 0 .. 1
        /\ last[1] \in 0 .. 1 /\ last[2] \in 0 .. 1
    BY <1>0, DeltaType, PairOfBits DEF Bits
  <2>2. /\ last' = curr /\ position' = (position + delta) % Turns
        /\ parity' = parity /\ main' = main
    BY <1>13 DEF process_transition
  <2>3. (delta + last[1] + last[2] + curr[1] + curr[2]) % 2 = 0
    BY <2>1, DeltaParity
  <2> HIDE DEF curr, delta
  <2>4. position' % 2 = (position + delta) % 2 /\ position' \in Positions
    BY <2>1, <2>2, PositionStep
  <2>5. main' \notin {"open", "last_a", "last_b", "done"}
          => (position + parity + last[1] + last[2]) % 2 = 0
    BY <2>2
  <2>6. position \in Int /\ position' \in Int
    BY <2>4 DEF Positions
  <2> DEFINE e == last[1] + last[2]
             k == curr[1] + curr[2]
  <2>7. e \in Int /\ k \in Int /\ delta \in Int
    BY <2>1
  <2>8. (delta + e + k) % 2 = 0
    <3>1. delta + e + k = delta + last[1] + last[2] + curr[1] + curr[2]
      BY <2>1, <2>7
    <3>2. QED
      BY <2>3, <3>1
  <2>9. main' \notin {"open", "last_a", "last_b", "done"} => (position + parity + e) % 2 = 0
    <3>1. position + parity + e = position + parity + last[1] + last[2]
      BY <2>1, <2>6
    <3>2. QED
      BY <2>5, <3>1
  <2>10. position' + parity' + last'[1] + last'[2] = position' + parity + k
    BY <2>1, <2>2, <2>6
  <2> HIDE DEF e, k
  <2>11. ASSUME main' \notin {"open", "last_a", "last_b", "done"}
         PROVE  (position' + parity + k) % 2 = 0
    <3>1. (position + parity + e) % 2 = 0
      BY <2>2, <2>9, <2>11
    <3>2. parity \in Int
      OBVIOUS
    <3> PICK a, b, q, d, f, g :
               /\ a = position' /\ b = position /\ q = parity
               /\ d = delta /\ f = e /\ g = k
      OBVIOUS
    <3>3. /\ a \in Int /\ b \in Int /\ d \in Int /\ f \in Int /\ g \in Int /\ q \in Int
          /\ a % 2 = (b + d) % 2 /\ (d + f + g) % 2 = 0 /\ (b + q + f) % 2 = 0
      BY <2>4, <2>6, <2>7, <2>8, <3>1, <3>2
    <3>4. (a + q + g) % 2 = 0
      BY ONLY <3>3, EvenSum
    <3>5. QED
      BY <3>4
  <2>12. main' \notin {"open", "last_a", "last_b", "done"}
           => (position' + parity' + last'[1] + last'[2]) % 2 = 0
    BY <2>10, <2>11
  <2>13. QED
    BY <2>12
<1>14. CASE controller_thread
  BY <1>14 DEF controller_thread
<1>15. QED
  BY <1>1, <1>2, <1>3, <1>4, <1>5, <1>6, <1>7, <1>8, <1>9, <1>10, <1>11,
     <1>12, <1>13, <1>14 DEF CpuNext, main_thread, watch_line

\* Steps that neither read a line nor count leave what is noticed as it is.
LEMMA SlowSame ==
    ASSUME SlowInv,
           UNCHANGED <<events, new_a, last, position, slow, origin, shaft>>,
           \A t \in Watchers : /\ watcher'[t] \in Reading <=> watcher[t] \in Reading
                               /\ watcher'[t] = "read_b" => watcher[t] = "read_b",
           main' \in Starting => main \in Starting,
           main' \notin {"open", "last_a", "last_b", "done"}
             => main \notin {"open", "last_a", "last_b", "done"}
    PROVE  SlowInv'
<1>1. NoneNoticed => NoneNoticed'
  BY DEF NoneNoticed, Reading
<1>2. OneNoticed => OneNoticed'
  <2>1. \A t \in Watchers : 3 - t \in Watchers
    BY DEF Watchers
  <2>2. \A x, t : (Lines(x)[t])' = Lines(x)[t]
    BY DEF Lines
  <2>3. Lines(shaft')[1] = Lines(shaft)[1]
    OBVIOUS
  <2>4. QED
    BY <2>1, <2>2, <2>3 DEF OneNoticed, Reading
<1>3. /\ DecodedTo(shaft) => DecodedTo(shaft)'
      /\ (\E y \in 0 .. Turns - 1 : shaft \in Beside(y) /\ DecodedTo(y))
           => (\E y \in 0 .. Turns - 1 : shaft \in Beside(y) /\ DecodedTo(y))'
  BY DEF DecodedTo, Beside, Lines
<1>4. QED
  BY <1>1, <1>2, <1>3 DEF SlowInv, Starting

\* The step that is under way is counted, and the shaft is where it says.
LEMMA CountedStep ==
    ASSUME NEW y \in Positions, NEW x \in Beside(y), NEW o \in Int
    PROVE  (((y - o) % Turns) + Delta(Lines(y), Lines(x))) % Turns = (x - o) % Turns
<1> y \in Int /\ Turns \in Nat \ {0}
  BY PosBounds DEF Positions
<1>1. ASSUME NEW d \in {-1, 1}, x = (y + d) % Turns
      PROVE  (((y - o) % Turns) + d) % Turns = (x - o) % Turns
  <2>1. /\ y - o \in Int /\ y + d \in Int /\ d \in Int /\ -o \in Int
        /\ (y - o) + d = (y + d) + (-o) /\ x + (-o) = x - o
    BY <1>1
  <2>2. (((y - o) % Turns) + d) % Turns = ((y - o) + d) % Turns
    BY <2>1, ModSum
  <2>3. (((y + d) % Turns) + (-o)) % Turns = ((y + d) + (-o)) % Turns
    BY <2>1, ModSum
  <2>4. QED
    BY <1>1, <2>1, <2>2, <2>3
<1>2. /\ y + (-1) = y - 1
      /\ Delta(Lines(y), Lines((y + 1) % Turns)) = 1
      /\ Delta(Lines(y), Lines((y - 1) % Turns)) = -1
  BY DeltaOfStep
<1>3. QED
  BY <1>1, <1>2 DEF Beside

\* A shaft that waits for each count is one step ahead at most.
LEMMA SlowStep == CpuInv /\ shaft \in Positions /\ CpuNext => SlowInv'
<1> SUFFICES ASSUME CpuInv, shaft \in Positions, CpuNext PROVE SlowInv'
  OBVIOUS
<1> /\ CpuTypeOK /\ LockInv /\ NoticedInv /\ SlowInv
  BY DEF CpuInv
<1> /\ watcher \in [Watchers -> Reading \cup {"off", "test", "wait", "end"}]
    /\ events \in [Watchers -> 0 .. MaxEvents]
    /\ new_a \in [Watchers -> 0 .. 1]
    /\ last \in Bits /\ origin \in Positions /\ slow \in BOOLEAN
  BY DEF CpuTypeOK, Bits, Positions
<1>0. /\ Lines(shaft)[1] \in 0 .. 1 /\ Lines(shaft)[2] \in 0 .. 1
      /\ Lines(shaft) = <<Lines(shaft)[1], Lines(shaft)[2]>>
  BY LinesType DEF Positions
<1>a. \A x, t : (Lines(x)[t])' = Lines(x)[t] /\ Lines(x)' = Lines(x)
  BY DEF Lines
<1>b. Watchers = {1, 2} /\ \A t \in Watchers : 3 - t \in Watchers /\ 3 - (3 - t) = t /\ 3 - t # t
  BY DEF Watchers
<1> USE DEF threads, decoder
<1>1. ASSUME NEW step \in {-1, 1}, CpuTurn(step) PROVE SlowInv'
  <2> SUFFICES ASSUME slow' PROVE SlowInv'
    BY DEF SlowInv
  <2>1. /\ Turn(step) /\ slow /\ Quiet /\ origin' = origin
        /\ UNCHANGED <<main, watcher, last, position>>
        /\ events' = [t \in Watchers |->
                        IF Requested /\ t \in Edges(step) /\ events[t] < MaxEvents
                        THEN events[t] + 1 ELSE events[t]]
    BY <1>1 DEF CpuTurn
  <2>2. /\ main \notin Starting /\ main # "done" /\ Requested
        /\ \A t \in Watchers : events[t] = 0 /\ watcher[t] \notin Reading
    BY <2>1 DEF Quiet, Starting, Reading, Requested
  <2>3. ~OneNoticed
    BY <1>b, <2>2 DEF OneNoticed
  <2>4. DecodedTo(shaft)
    BY <2>1, <2>2, <2>3 DEF SlowInv, Starting
  <2>5. PICK t \in Watchers : t \in Edges(step) /\ 3 - t \notin Edges(step)
    BY <2>1, EdgesOfTurn
  <2>6. events'[t] = 1 /\ events'[3 - t] = 0
    BY <1>b, <2>1, <2>2, <2>5, PosBounds
  <2>7. OneNoticed'
    BY <2>1, <2>2, <2>5, <2>6 DEF OneNoticed
  <2> PICK y \in Positions : y = shaft
    OBVIOUS
  <2>8. shaft' \in Beside(y)
    BY <2>1, TurnFollows
  <2>9. last' = Lines(y) /\ position' = (y - origin') % Turns
    BY <2>1, <2>4 DEF DecodedTo
  <2>10. (\E z \in 0 .. Turns - 1 : shaft \in Beside(z) /\ DecodedTo(z))'
    BY <2>8, <2>9 DEF DecodedTo, Positions, Beside, Lines
  <2>11. main' \notin Starting
    BY <2>1, <2>2
  <2>12. QED
    BY <2>7, <2>10, <2>11 DEF SlowInv, Starting
<1>2. CASE handle_signal
  <2>1. UNCHANGED <<events, new_a, last, position, slow, origin, shaft, main>>
    BY <1>2 DEF handle_signal
  <2>2. \A t \in Watchers : /\ watcher'[t] \in Reading <=> watcher[t] \in Reading
                            /\ watcher'[t] = "read_b" => watcher[t] = "read_b"
    BY <1>2 DEF handle_signal, Reading
  <2>3. QED
    BY <2>1, <2>2, SlowSame
<1>3. CASE Open
  BY <1>3, SlowSame DEF Open, Starting
<1>4. CASE LastA
  <2>1. /\ main = "last_a" /\ main' = "last_b"
        /\ UNCHANGED <<watcher, events, slow>>
    BY <1>4 DEF LastA
  <2>2. NoneNoticed => NoneNoticed'
    BY <2>1 DEF NoneNoticed
  <2>3. QED
    BY <2>1, <2>2 DEF SlowInv, Starting
<1>5. CASE LastB
  <2> SUFFICES ASSUME slow' PROVE SlowInv'
    BY DEF SlowInv
  <2>1. /\ main = "last_b" /\ main' = "create" /\ slow
        /\ last' = [last EXCEPT ![2] = Lines(shaft)[2]]
        /\ origin' = shaft
        /\ UNCHANGED <<watcher, events, slow, position, shaft>>
    BY <1>5 DEF LastB
  <2>2. /\ NoneNoticed /\ Noticed1 /\ position = 0
        /\ \A t \in Watchers : watcher[t] = "off"
    BY <2>1 DEF SlowInv, NoticedInv, LockInv, Starting
  <2>3. last[1] = Lines(shaft)[1]
    BY <1>b, <2>2 DEF NoneNoticed, Noticed1
  <2>4. last' = Lines(shaft)
    <3>1. last' = <<last[1], Lines(shaft)[2]>>
      BY <1>0, <2>1, PairOfBits
    <3>2. last' = <<Lines(shaft)[1], Lines(shaft)[2]>>
      BY <2>3, <3>1
    <3>3. QED
      BY <1>0, <3>2, Zenon
  <2>5. 0 = (shaft - shaft) % Turns
    BY PosBounds DEF Positions
  <2>6. DecodedTo(shaft)'
    BY <2>1, <2>2, <2>4, <2>5 DEF DecodedTo, Lines
  <2>7. NoneNoticed'
    BY <2>1, <2>2 DEF NoneNoticed
  <2>8. QED
    BY <2>6, <2>7 DEF SlowInv
<1>6. CASE Create
  <2>1. \A t \in Watchers : watcher[t] = "off" /\ watcher'[t] \in {"off", "test"}
    BY <1>6 DEF Create, LockInv, Starting
  <2>2. UNCHANGED <<events, new_a, last, position, slow, origin, shaft>> /\ main = "create"
    BY <1>6 DEF Create
  <2>3. QED
    BY <2>1, <2>2, SlowSame DEF Reading, Starting
<1>7. CASE Join
  BY <1>7, SlowSame DEF Join, Starting
<1>8. CASE cleanup
  BY <1>8, SlowSame DEF cleanup, Starting
<1>9. ASSUME NEW t \in Watchers, Test(t) PROVE SlowInv'
  <2>1. UNCHANGED <<events, new_a, last, position, slow, origin, shaft, main>>
    BY <1>9 DEF Test
  <2>2. \A u \in Watchers : /\ watcher'[u] \in Reading <=> watcher[u] \in Reading
                            /\ watcher'[u] = "read_b" => watcher[u] = "read_b"
    BY <1>9 DEF Test, Reading
  <2>3. QED
    BY <2>1, <2>2, SlowSame
<1>10. ASSUME NEW t \in Watchers, Event(t) PROVE SlowInv'
  <2>1. /\ watcher[t] = "wait" /\ events[t] > 0
        /\ watcher'[t] = "lock" /\ events'[t] = events[t] - 1
        /\ watcher'[3 - t] = watcher[3 - t] /\ events'[3 - t] = events[3 - t]
        /\ UNCHANGED <<main, last, position, slow, origin, shaft>>
    BY <1>10, <1>b DEF Event
  <2>2. main \notin Starting
    BY <2>1 DEF LockInv
  <2>3. ~NoneNoticed
    BY <2>1 DEF NoneNoticed
  <2>4. OneNoticed => OneNoticed'
    <3> SUFFICES ASSUME OneNoticed PROVE OneNoticed'
      OBVIOUS
    <3>1. events[t] = 1 /\ events[3 - t] = 0 /\ \A u \in Watchers : watcher[u] \notin Reading
      BY <1>b, <2>1 DEF OneNoticed
    <3>2. events'[t] = 0 /\ events'[3 - t] = 0 /\ watcher'[3 - t] \notin Reading
      BY <1>b, <2>1, <3>1
    <3>3. QED
      BY <2>1, <3>2 DEF OneNoticed, Reading
  <2>5. \A y : shaft \in Beside(y) /\ DecodedTo(y) => (shaft \in Beside(y) /\ DecodedTo(y))'
    BY <2>1 DEF DecodedTo, Lines, Beside
  <2>6. QED
    BY <2>1, <2>2, <2>3, <2>4, <2>5 DEF SlowInv
<1>11. ASSUME NEW t \in Watchers, Lock(t) PROVE SlowInv'
  <2>1. UNCHANGED <<events, new_a, last, position, slow, origin, shaft, main>>
    BY <1>11 DEF Lock, Locked
  <2>2. \A u \in Watchers : /\ watcher'[u] \in Reading <=> watcher[u] \in Reading
                            /\ watcher'[u] = "read_b" => watcher[u] = "read_b"
    BY <1>11 DEF Lock, Locked, Reading
  <2>3. QED
    BY <2>1, <2>2, SlowSame
<1>12. ASSUME NEW t \in Watchers, ReadA(t) PROVE SlowInv'
  <2>1. /\ watcher[t] = "read_a" /\ watcher'[t] = "read_b"
        /\ new_a'[t] = Lines(shaft)[1] /\ watcher'[3 - t] = watcher[3 - t]
        /\ UNCHANGED <<main, events, last, position, slow, origin, shaft>>
    BY <1>12, <1>b DEF ReadA
  <2>2. main \notin Starting /\ ~NoneNoticed
    BY <2>1 DEF LockInv, NoneNoticed, Reading
  <2>3. OneNoticed => OneNoticed'
    <3> SUFFICES ASSUME OneNoticed PROVE OneNoticed'
      OBVIOUS
    <3>1. events[t] = 0 /\ events[3 - t] = 0 /\ watcher[3 - t] \notin Reading
      BY <1>b, <2>1 DEF OneNoticed, Reading
    <3>2. Lines(shaft')[1] = Lines(shaft)[1]
      BY <2>1
    <3>3. QED
      BY <2>1, <3>1, <3>2 DEF OneNoticed, Reading
  <2>4. \A y : shaft \in Beside(y) /\ DecodedTo(y) => (shaft \in Beside(y) /\ DecodedTo(y))'
    BY <2>1 DEF DecodedTo, Lines, Beside
  <2>5. QED
    BY <2>1, <2>2, <2>3, <2>4 DEF SlowInv
<1>13. ASSUME NEW t \in Watchers, process_transition(t) PROVE SlowInv'
  <2> SUFFICES ASSUME slow', main' # "done" PROVE SlowInv'
    <3>1. main' = main /\ main \notin Starting
      BY <1>13 DEF process_transition, LockInv
    <3>2. QED
      BY <3>1 DEF SlowInv, Starting
  <2> DEFINE curr == <<new_a[t], Lines(shaft)[2]>>
  <2>1. /\ watcher[t] = "read_b" /\ watcher'[t] = "test"
        /\ watcher'[3 - t] = watcher[3 - t]
        /\ last' = curr /\ position' = (position + Delta(last, curr)) % Turns
        /\ UNCHANGED <<main, events, slow, origin, shaft>>
    BY <1>13, <1>b DEF process_transition
  <2>2. main \notin Starting /\ ~NoneNoticed
    BY <2>1 DEF LockInv, NoneNoticed, Reading
  <2>3. PICK y \in Positions : OneNoticed /\ shaft \in Beside(y) /\ DecodedTo(y)
    BY <2>1, <2>2 DEF SlowInv, Starting, Positions
  <2>4. /\ events[t] = 0 /\ events[3 - t] = 0 /\ watcher[3 - t] \notin Reading
        /\ new_a[t] = Lines(shaft)[1]
    BY <1>b, <2>1, <2>3 DEF OneNoticed, Reading
  <2>5. NoneNoticed'
    BY <1>b, <2>1, <2>4 DEF NoneNoticed, Reading
  <2>6. curr = Lines(shaft)
    BY <1>0, <2>4
  <2>7. position' = (((y - origin) % Turns) + Delta(Lines(y), Lines(shaft))) % Turns
    BY <2>1, <2>3, <2>6 DEF DecodedTo
  <2>8. position' = (shaft - origin) % Turns
    <3>1. origin \in Int
      BY DEF Positions
    <3>2. QED
      BY <2>3, <2>7, <3>1, CountedStep
  <2>9. DecodedTo(shaft)'
    BY <2>1, <2>6, <2>8 DEF DecodedTo, Lines
  <2>10. QED
    BY <2>1, <2>2, <2>5, <2>9 DEF SlowInv
<1>14. CASE controller_thread
  BY <1>14, SlowSame DEF controller_thread, Starting
<1>15. QED
  BY <1>1, <1>2, <1>3, <1>4, <1>5, <1>6, <1>7, <1>8, <1>9, <1>10, <1>11,
     <1>12, <1>13, <1>14 DEF CpuNext, main_thread, watch_line

\* When nothing is left to decode, the decoder knows where the shaft is.
LEMMA CpuCaught == CpuInv /\ shaft \in Positions => CpuInStep
<1> SUFFICES ASSUME CpuInv, shaft \in Positions, Quiet
             PROVE  /\ last = Lines(shaft)
                    /\ (position + parity + last[1] + last[2]) % 2 = 0
                    /\ slow => position = (shaft - origin) % Turns
  BY DEF CpuInStep
<1>1. /\ main \notin Starting /\ main # "done"
      /\ \A t \in Watchers : events[t] = 0 /\ watcher[t] \notin Reading
  BY DEF Quiet, Starting, Reading
<1>2. Watchers = {1, 2} /\ \A t \in Watchers : 3 - t \in Watchers
  BY DEF Watchers
<1>3. last = Lines(shaft)
  <2>1. Noticed1 /\ Noticed2
    BY <1>1 DEF CpuInv, NoticedInv, Starting
  <2>2. last[1] = Lines(shaft)[1] /\ last[2] = Lines(shaft)[2]
    BY <1>1, <1>2, <2>1 DEF Noticed1, Noticed2, Reading
  <2>3. last = <<last[1], last[2]>>
    BY PairOfBits DEF CpuInv, CpuTypeOK, Bits
  <2>4. Lines(shaft) = <<Lines(shaft)[1], Lines(shaft)[2]>>
    BY LinesType DEF Positions
  <2>5. QED
    BY <2>2, <2>3, <2>4, Zenon
<1>4. (position + parity + last[1] + last[2]) % 2 = 0
  BY <1>1 DEF CpuInv, ParityInv, Starting
<1>5. slow => position = (shaft - origin) % Turns
  <2>1. ~OneNoticed
    BY <1>1, <1>2 DEF OneNoticed
  <2>2. QED
    BY <1>1, <2>1 DEF CpuInv, SlowInv, DecodedTo, Starting
<1>6. QED
  BY <1>3, <1>4, <1>5

-----------------------------------------------------------------------------
(* The bench.                                                              *)

LEMMA BenchInit == Init => BenchInv
<1> SUFFICES ASSUME Init PROVE BenchInv
  OBVIOUS
<1>1. shaft \in Positions
  BY PosBounds DEF Init, Positions
<1>2. De10Inv
  <2>1. 0 \in 0 .. ENCODER_MAX - 1
    BY PosBounds
  <2>2. De10Init
    BY DEF Init
  <2>3. QED
    BY <2>1, <2>2 DEF De10Init, De10Inv, Unread
<1>3. CpuTypeOK
  <2>1. last \in Bits
    BY DEF Init, CpuInit, Bits
  <2>2. QED
    BY <2>1, PosBounds DEF Init, CpuInit, CpuTypeOK, Bits, Starting, Reading, Watchers, None
<1>4. LockInv /\ NoticedInv /\ ParityInv
  BY DEF Init, CpuInit, LockInv, NoticedInv, ParityInv, Starting, Watchers
<1>5. SlowInv
  BY DEF Init, CpuInit, SlowInv, NoneNoticed, Starting, Reading, Watchers
<1>6. QED
  BY <1>1, <1>2, <1>3, <1>4, <1>5 DEF Init, De10Init, CpuInit, BenchInv, CpuInv, Positions

LEMMA BenchStep == BenchInv /\ [Next]_vars => BenchInv'
<1> SUFFICES ASSUME BenchInv, [Next]_vars PROVE BenchInv'
  OBVIOUS
<1>1. shaft \in Positions /\ De10Inv /\ CpuInv
  BY DEF BenchInv, Positions
<1> USE DEF BenchInv, cpuVars, de10Vars
<1>2. CASE Cpu
  <2>1. /\ setup = "cpu" /\ setup' = "cpu" /\ base' = NoBase /\ CpuNext
        /\ UNCHANGED <<A_B_sync_0, A_B_sync_1, prev_A_B, count, moved>>
    BY <1>2 DEF Cpu, NoBase
  <2>2. CpuInv'
    BY <1>1, <2>1, CpuTypeStep, LockStep, NoticedStep, ParityStep, SlowStep DEF CpuInv
  <2>3. De10Inv'
    BY <1>1, <2>1 DEF De10Inv, NoBase, Unread
  <2>4. shaft' \in Positions
    <3>1. CASE \E step \in {-1, 1} : CpuTurn(step)
      BY <1>1, <3>1, TurnFollows DEF CpuTurn
    <3>2. CASE ~\E step \in {-1, 1} : CpuTurn(step)
      <4>1. shaft' = shaft
        BY <2>1, <3>2 DEF CpuNext, handle_signal, main_thread, Open, LastA, LastB,
           Create, Join, cleanup, watch_line, Test, Event, Lock, Locked, ReadA,
           process_transition, controller_thread
      <4>2. QED
        BY <1>1, <4>1
    <3>3. QED
      BY <3>1, <3>2
  <2>5. QED
    BY <2>1, <2>2, <2>3, <2>4 DEF Positions
<1>3. CASE De10
  <2>1. setup = "de10" /\ setup' = "de10" /\ main = "open" /\ main' = "open"
    BY <1>3 DEF De10
  <2>2. De10Inv' /\ shaft' \in Positions
    BY <1>1, <1>3, De10Step DEF De10
  <2>3. /\ CpuTypeOK' /\ LockInv' /\ ParityInv'
    BY <1>1, <1>3, <2>1
    DEF De10, CpuInv, CpuTypeOK, LockInv, ParityInv, Starting, Reading, Watchers, None
  <2>4. NoticedInv'
    BY <2>1 DEF NoticedInv
  <2>5. SlowInv'
    BY <1>1, <1>3, <2>1 DEF De10, CpuInv, SlowInv, NoneNoticed, Starting, Reading
  <2>6. QED
    BY <2>1, <2>2, <2>3, <2>4, <2>5 DEF CpuInv, Positions
<1>4. CASE UNCHANGED vars
  <2>1. /\ UNCHANGED <<shaft, setup, main, watcher, events, state_lock, new_a, last,
                       position, parity, slow, origin>>
        /\ UNCHANGED <<A_B_sync_0, A_B_sync_1, prev_A_B, count, base, moved>>
    BY <1>4 DEF vars
  <2>2. De10Inv'
    BY <1>1, <2>1 DEF De10Inv, PipelineInv, CountIs, Positions, Follows, Beside,
       Unread, Lines, Delta, Forward, Backward, NoBase
  <2>3. CpuInv'
    BY <1>1, <2>1 DEF CpuInv, CpuTypeOK, LockInv, NoticedInv, Noticed1, Noticed2,
       ParityInv, SlowInv, NoneNoticed, OneNoticed, DecodedTo, Lines, Beside,
       Starting, Reading, Watchers, None
  <2>4. QED
    BY <2>1, <2>2, <2>3 DEF NoBase
<1>5. QED
  BY <1>2, <1>3, <1>4 DEF Next

\* The inductive invariant of the bench: the registers of the FPGA show the last
\* positions of the shaft, and on the CPU every line that the decoder does not
\* know has an edge waiting or a thread that is about to read it.
THEOREM BenchInvariant == Spec => []BenchInv
<1>1. Init => BenchInv
  BY BenchInit
<1>2. BenchInv /\ [Next]_vars => BenchInv'
  BY BenchStep
<1>3. QED
  BY <1>1, <1>2, PTL DEF Spec

\* Either decoder is in step with the shaft once it has caught up, on the FPGA
\* (Encoder.v) and on the CPU (process_transition of encoder_reader.c and
\* motor_test.c).
THEOREM DecodersInStep == Spec => []InStep
<1>1. BenchInv => InStep
  BY CpuCaught, De10Caught DEF BenchInv, InStep, Positions
<1>2. QED
  BY <1>1, BenchInvariant, PTL

-----------------------------------------------------------------------------
(* The address map of the DE10.                                            *)

\* A device whose blocks are not among those of the motors' registers.
Apart(entry) ==
    /\ entry[1] \in Int /\ entry[2] \in Int
    /\ entry[1] > 16719875 \/ entry[1] + entry[2] - 1 < 16719872
ApartFrom(G) == \A d \in DOMAIN G : d # "mem_interface_0" /\ Apart(G[d])

\* The map of either core has one entry for the registers of the motors, and all
\* others are apart from it.
LEMMA MotorEntry ==
    ASSUME NEW G \in {Arm0Memory, Arm1Memory}
    PROVE  /\ "mem_interface_0" \in DOMAIN G /\ G["mem_interface_0"] = <<16719872, 4>>
           /\ \A d \in DOMAIN G \ {"mem_interface_0"} : Apart(G[d])
<1>1. CASE G = Arm0Memory
  BY <1>1, SMT DEF Arm0Memory, Apart
<1>2. CASE G = Arm1Memory
  BY <1>2, SMT DEF Arm1Memory, Apart
<1>3. QED
  BY <1>1, <1>2

LEMMA OtherEntries ==
    /\ ApartFrom(Arm0Io) /\ ApartFrom(Arm0Slow) /\ ApartFrom(Arm0System)
    /\ ApartFrom(Arm1Io) /\ ApartFrom(Arm1Slow) /\ ApartFrom(Arm1System)
<1>1. ApartFrom(Arm0Io)
  BY SMT DEF ApartFrom, Apart, Arm0Io
<1>2. ApartFrom(Arm0Slow)
  BY SMT DEF ApartFrom, Apart, Arm0Slow
<1>3. ApartFrom(Arm0System)
  BY SMT DEF ApartFrom, Apart, Arm0System
<1>4. ApartFrom(Arm1Io)
  BY SMT DEF ApartFrom, Apart, Arm1Io
<1>5. ApartFrom(Arm1Slow)
  BY SMT DEF ApartFrom, Apart, Arm1Slow
<1>6. ApartFrom(Arm1System)
  BY SMT DEF ApartFrom, Apart, Arm1System
<1>7. QED
  BY <1>1, <1>2, <1>3, <1>4, <1>5, <1>6

\* In the blocks of the motors' registers nothing else answers.
LEMMA MotorBlocks ==
    ASSUME NEW c \in Cores, NEW b \in 16719872 .. 16719875
    PROVE  Decode(c, b) = {"mem_interface_0"}
<1> DEFINE At(G) == {d \in DOMAIN G : b \in G[d][1] .. G[d][1] + G[d][2] - 1}
<1>1. \A G : ApartFrom(G) => At(G) = {}
  <2> SUFFICES ASSUME NEW G, ApartFrom(G), NEW d \in DOMAIN G
               PROVE  b \notin G[d][1] .. G[d][1] + G[d][2] - 1
    OBVIOUS
  <2>1. Apart(G[d])
    BY DEF ApartFrom
  <2>2. QED
    BY <2>1 DEF Apart
<1>2. \A G \in {Arm0Memory, Arm1Memory} : At(G) = {"mem_interface_0"}
  <2> SUFFICES ASSUME NEW G \in {Arm0Memory, Arm1Memory}
               PROVE  At(G) = {"mem_interface_0"}
    OBVIOUS
  <2>1. "mem_interface_0" \in At(G)
    BY MotorEntry
  <2>2. ASSUME NEW d \in DOMAIN G, d # "mem_interface_0"
        PROVE  b \notin G[d][1] .. G[d][1] + G[d][2] - 1
    <3>1. Apart(G[d])
      BY <2>2, MotorEntry
    <3>2. QED
      BY <3>1 DEF Apart
  <2>3. QED
    BY <2>1, <2>2
<1>3. Decode(c, b) = UNION {At(G) : G \in View[c]}
  BY DEF Decode
<1> HIDE DEF At
<1>4. CASE c = 0
  <2>1. View[c] = {Arm0Memory, Arm0Io, Arm0Slow, Arm0System}
    BY <1>4 DEF View, Cores
  <2>2. At(Arm0Io) = {} /\ At(Arm0Slow) = {} /\ At(Arm0System) = {}
    BY <1>1, OtherEntries
  <2>3. At(Arm0Memory) = {"mem_interface_0"}
    BY <1>2
  <2>4. QED
    BY <1>3, <2>1, <2>2, <2>3
<1>5. CASE c = 1
  <2>1. View[c] = {Arm1Memory, Arm1Io, Arm1Slow, Arm1System}
    BY <1>5 DEF View, Cores
  <2>2. At(Arm1Io) = {} /\ At(Arm1Slow) = {} /\ At(Arm1System) = {}
    BY <1>1, OtherEntries
  <2>3. At(Arm1Memory) = {"mem_interface_0"}
    BY <1>2
  <2>4. QED
    BY <1>3, <2>1, <2>2, <2>3
<1>6. QED
  BY <1>4, <1>5 DEF Cores

\* The words of the map, those of the loop among them, lie in these blocks.
LEMMA MotorWords ==
    ASSUME core \in Cores, NEW i \in {0, 1} \cup Fill
    PROVE  WordAt(i) = {"mem_interface_0"}
<1>1. Arm0Memory.mem_interface_0 = <<16719872, 4>>
  BY DEF Arm0Memory
<1>2. MAP_BASE = 16719872 /\ MAP_SIZE = 1024
  BY <1>1 DEF MAP_BASE, MAP_SIZE
<1>3. i \in 0 .. 255
  BY <1>2 DEF Fill
<1>4. 16719872 + (4 * i) \div 256 \in 16719872 .. 16719875
  BY <1>3
<1>5. QED
  BY <1>2, <1>4, MotorBlocks DEF WordAt

\* Every access of the DE10's test program reaches the registers of the motors and
\* nothing else, on either core ("Output Files/main.c", soc_system.h).
THEOREM OnlyMotorsReached == Spec => []OnlyMemInterface
<1> DEFINE Reach == core \in Cores /\ OnlyMemInterface
<1>1. Init => Reach
  BY DEF Init, De10Init, OnlyMemInterface
<1>2. Reach /\ [Next]_vars => Reach'
  <2> SUFFICES ASSUME Reach, [Next]_vars PROVE Reach'
    OBVIOUS
  <2>1. CASE Access /\ core' = core
    <3>1. \A S \in {{0}, {1}, Fill} : {WordAt(i) : i \in S} \subseteq {{"mem_interface_0"}}
      BY MotorWords
    <3>2. \/ \E S \in {{0}, {1}, Fill} : reached' = {WordAt(i) : i \in S}
          \/ reached' = {WordAt(1)}
      BY <2>1 DEF Access, Write, Read
    <3>3. WordAt(1) = {"mem_interface_0"}
      BY MotorWords
    <3>4. QED
      BY <2>1, <3>1, <3>2, <3>3 DEF OnlyMemInterface
  <2>2. CASE UNCHANGED <<core, reached>>
    BY <2>2 DEF OnlyMemInterface
  <2>3. core' = core /\ (Access \/ UNCHANGED reached)
    BY DEF Next, Cpu, De10, De10Next, De10Turn, De10Tick, ResetButton, MapDevice,
           de10Vars, vars
  <2>4. QED
    BY <2>1, <2>2, <2>3
<1>3. Reach => OnlyMemInterface
  OBVIOUS
<1>4. QED
  BY <1>1, <1>2, <1>3, PTL DEF Spec
=============================================================================
