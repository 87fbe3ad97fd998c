----------------------------- MODULE De10Board -----------------------------
(***************************************************************************)
(* The DE10: the quadrature decoder of one motor (Encoder.v, which the ICO *)
(* board has too), the registers through which a core reads its count and  *)
(* writes the PWM word (mem_interface.v) and the board's test program      *)
(* ("Output Files/main.c"), on either core, through the address map of     *)
(* SocSystem.  A step is one edge of the FPGA clock; the shaft turns at    *)
(* most once between two of them.                                          *)
(***************************************************************************)
EXTENDS QuadShaft, SocSystem

CONSTANT ENCODER_MAX  \* the counts of the decoder (64000)

ASSUME EncoderAssumption ==
    ENCODER_MAX \in Nat \ {0} /\ Turns % ENCODER_MAX = 0

NoBase == -1

VARIABLES
    A_B_sync_0, A_B_sync_1, prev_A_B,  \* the registers of the lines, <<A, B>>
    count,
    pwm_vals, slave_readdata,          \* registers of mem_interface
    core, pc,                          \* the program: its core, where it is
    reached,   \* the devices that answered each of the last accesses
    moved,     \* the shaft has turned since the last clock edge
    base       \* history: the count at position 0 by what the decoder began
               \* with, or NoBase until its first edge

decoderRegs == <<A_B_sync_0, A_B_sync_1, prev_A_B, count, base>>
de10Vars == <<A_B_sync_0, A_B_sync_1, prev_A_B, count, pwm_vals,
              slave_readdata, core, pc, reached, moved, base>>

-----------------------------------------------------------------------------
(* The decoder.                                                            *)

\* Mutant of Counted: the range has one count more on the way up.
CountedPastEnd(n, delta) ==
    CASE delta = 1 -> IF n = ENCODER_MAX THEN 0 ELSE n + 1
      [] delta = -1 -> IF n = 0 THEN ENCODER_MAX - 1 ELSE n - 1
      [] OTHER -> n

Counted(n, delta) ==
    CASE delta = 1 -> IF n = ENCODER_MAX - 1 THEN 0 ELSE n + 1
      [] delta = -1 -> IF n = 0 THEN ENCODER_MAX - 1 ELSE n - 1
      [] OTHER -> n

\* The decoder starts with both lines at 0, whatever they are: with one line at
\* 1 the first comparison is a step that the shaft did not make.
EncoderTick ==
    /\ A_B_sync_0' = Lines(shaft)
    /\ A_B_sync_1' = A_B_sync_0
    /\ prev_A_B' = A_B_sync_1
    /\ count' = Counted(count, Delta(prev_A_B, A_B_sync_1))
    /\ base' = IF base # NoBase THEN base
               ELSE (count + Delta(<<0, 0>>, Lines(shaft)) - shaft) % ENCODER_MAX

\* The reset button is down during an edge.  It does not reach mem_interface.
ResetButton ==
    /\ A_B_sync_0' = <<0, 0>> /\ A_B_sync_1' = <<0, 0>> /\ prev_A_B' = <<0, 0>>
    /\ count' = ENCODER_MAX \div 2
    /\ base' = NoBase
    /\ moved' = FALSE
    /\ UNCHANGED <<pwm_vals, slave_readdata, core, pc, reached, shaft>>

De10Turn(step) ==
    /\ ~moved /\ moved' = TRUE
    /\ Turn(step)
    /\ UNCHANGED <<decoderRegs, pwm_vals, slave_readdata, core, pc, reached>>

-----------------------------------------------------------------------------
(* The bus and the program.                                                *)

\* The devices behind base[i], a word of four bytes.
WordAt(i) == Decode(core, MAP_BASE + (4 * i) \div 256)

\* mem_interface looks at no address: whatever is written is the PWM word,
\* whatever is read is the count.
Write(words) ==
    /\ reached' = {WordAt(i) : i \in words}
    /\ pwm_vals' = "combined_pwm"
    /\ UNCHANGED slave_readdata

Read(i) ==
    /\ reached' = {WordAt(i)}
    /\ slave_readdata' = count
    /\ UNCHANGED pwm_vals

\* Mutant of Fill: a loop over the bytes of the map.
FillBytes == 0 .. MAP_SIZE - 1

\* The words that the loop fills.
Fill == 0 .. (MAP_SIZE \div 4) - 1

\* One access of the program.  The words of the loop are all written at one
\* edge: the registers are the same after each.
Access ==
    \/ pc = "write" /\ Write({0}) /\ pc' = "read"
    \/ pc = "read" /\ Read(1) /\ pc' = "fill"
    \/ pc = "fill" /\ Write(Fill) /\ pc' = "loop_read"
    \/ pc = "loop_read" /\ Read(1) /\ pc' = "loop_write"
    \/ pc = "loop_write" /\ Write({1}) /\ pc' = "loop_read"

\* /dev/mem is opened and mapped, or the program ends.
MapDevice ==
    /\ pc = "open" /\ pc' \in {"write", "done"}
    /\ UNCHANGED <<pwm_vals, slave_readdata, reached>>

\* A clock edge, with a step of the program or without.
De10Tick ==
    /\ EncoderTick
    /\ moved' = FALSE
    /\ Access \/ MapDevice \/ UNCHANGED <<pwm_vals, slave_readdata, pc, reached>>
    /\ UNCHANGED <<core, shaft>>

-----------------------------------------------------------------------------
\* After power-up the registers of the decoder are 0, the count too.
De10Init ==
    /\ A_B_sync_0 = <<0, 0>> /\ A_B_sync_1 = <<0, 0>> /\ prev_A_B = <<0, 0>>
    /\ count = 0 /\ base = NoBase
    /\ pwm_vals = "midpoint" /\ slave_readdata = 0
    /\ core \in Cores
    /\ pc = "open"
    /\ reached = {}
    /\ moved = FALSE

De10Next ==
    \/ \E step \in {-1, 1} : De10Turn(step)
    \/ De10Tick
    \/ ResetButton

-----------------------------------------------------------------------------
(* Properties.                                                             *)

\* Once the registers show the lines as they are, the count is the position of
\* the shaft from where the decoder began, through every wrap of the count and
\* however the shaft moved and the registers lagged before.
De10InStep ==
    base # NoBase /\ A_B_sync_0 = Lines(shaft) /\ A_B_sync_1 = Lines(shaft)
        /\ prev_A_B = Lines(shaft)
    => count = (base + shaft) % ENCODER_MAX

\* The inductive invariant behind it: the registers of the lines show the last
\* positions of the shaft, y0, y1 and y2, each a step from the next or the same,
\* and the count lacks what they have yet to add.  In the first two ticks the
\* older registers are still as they began.
Positions == 0 .. Turns - 1
Follows(y, x) == x \in {y} \cup Beside(y)
Unread == <<0, 0>>
CountIs(x) == count = (base + x) % ENCODER_MAX

PipelineInv ==
    \E y0 \in Positions :
        /\ A_B_sync_0 = Lines(y0)
        /\ IF moved THEN Follows(y0, shaft) ELSE y0 = shaft
        /\ \/ /\ A_B_sync_1 = Unread /\ prev_A_B = Unread
              /\ CountIs(y0 - Delta(Unread, Lines(y0)))
           \/ \E y1 \in Positions :
                /\ A_B_sync_1 = Lines(y1) /\ Follows(y1, y0)
                /\ \/ prev_A_B = Unread /\ CountIs(y1 - Delta(Unread, Lines(y1)))
                   \/ \E y2 \in Positions :
                        prev_A_B = Lines(y2) /\ Follows(y2, y1) /\ CountIs(y2)

De10Inv ==
    /\ count \in 0 .. ENCODER_MAX - 1
    /\ base \in {NoBase} \cup 0 .. ENCODER_MAX - 1
    /\ moved \in BOOLEAN
    /\ IF base = NoBase
       THEN A_B_sync_0 = Unread /\ A_B_sync_1 = Unread /\ prev_A_B = Unread
       ELSE PipelineInv

\* Every access of the program reaches the registers of the motors and nothing
\* else, on the core whose macros it uses and on the other one.
OnlyMemInterface == reached \subseteq {{"mem_interface_0"}}
=============================================================================
