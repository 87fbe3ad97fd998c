------------------------------ MODULE SpiSlave ------------------------------
(***************************************************************************)
(* The SPI slave of the ICO board (spi_slave_32bit.v) and the master that  *)
(* drives it, the Raspberry Pi's SPI controller under spiXfer              *)
(* (hw_interface.c), in mode 0: a transfer exchanges the word of the two   *)
(* PWM values for the word of the two encoder counts.                      *)
(*                                                                         *)
(* Tick is one edge of the FPGA clock: every register takes its new value  *)
(* from the old ones.  The lines of the master change between any two      *)
(* edges, but a line that changed stays as it is for MinTicks edges (the   *)
(* SPI clock runs at 1 kHz and the FPGA clock at 50 MHz).  A word is a     *)
(* sequence of bits, the most significant one first.                       *)
(***************************************************************************)
EXTENDS Naturals, Sequences

CONSTANTS WordBits,   \* bits of a word (32)
          PwmWords,   \* the PWM words that the master sends
          EncWords,   \* the words that the two encoders may show
          MidWord,    \* MAX_COUNT >> 1 in both halves, the word after reset
          MinTicks    \* clock edges between two changes of the SPI lines

Bit == {0, 1}
Word == [1 .. WordBits -> Bit]

ASSUME SpiAssumption ==
    /\ WordBits \in Nat \ {0, 1}
    /\ PwmWords \subseteq Word /\ EncWords \subseteq Word /\ MidWord \in Word
    /\ MinTicks \in Nat

\* The slave has taken in an edge of a line before the line changes again.
ASSUME SlowLinesAssumption == MinTicks >= 3

VARIABLES
    SPI_CS, SPI_CLK, SPI_PICO,     \* the lines of the master
    word, rx,                      \* master: the word it sends, the bits it has read
    since,                         \* edges since a line changed, up to MinTicks
    SPI_CLKr, SPI_CSr, SPI_PICOr,  \* synchronisers, newest bit first
    bitcnt, bytes_received, bytes_data_received, byte_data_sent,
    pwm,                           \* pitch_pwm and yaw_pwm
    enc,                           \* pitch_data and yaw_data, from the encoders
    seen,                          \* history: what enc was during this transfer
    last, before                   \* history: the last two words sent in full

masterVars == <<SPI_CS, SPI_CLK, SPI_PICO, word, rx, last, before>>
slaveVars == <<SPI_CLKr, SPI_CSr, SPI_PICOr, bitcnt, bytes_received,
               bytes_data_received, byte_data_sent, pwm>>
vars == <<SPI_CS, SPI_CLK, SPI_PICO, word, rx, since, SPI_CLKr, SPI_CSr,
          SPI_PICOr, bitcnt, bytes_received, bytes_data_received,
          byte_data_sent, pwm, enc, seen, last, before>>

Zero == [i \in 1 .. WordBits |-> 0]

-----------------------------------------------------------------------------
(* The slave.                                                              *)

\* A synchroniser of three registers takes in the line x.
Sync3(r, x) == <<x, r[1], r[2]>>

SPI_CLK_risingedge == SPI_CLKr[2] = 1 /\ SPI_CLKr[3] = 0
SPI_CLK_fallingedge == SPI_CLKr[2] = 0 /\ SPI_CLKr[3] = 1
SPI_CS_active == SPI_CSr[2] = 0
SPI_CS_startmessage == SPI_CSr[2] = 0 /\ SPI_CSr[3] = 1
SPI_PICO_data == SPI_PICOr[2]
SPI_POCI == byte_data_sent[1]

\* {w[30:0], b}
ShiftIn(w, b) == [i \in 1 .. WordBits |-> IF i = WordBits THEN b ELSE w[i + 1]]

\* Mutant of CountBits: the count goes on into the next transfer.
CountBitsOn ==
    IF SPI_CLK_risingedge THEN (bitcnt + 1) % WordBits ELSE bitcnt

\* Mutant of CountBits: the count has a bit more than the word needs.
CountBitsTooFar ==
    IF ~SPI_CS_active THEN 0
    ELSE IF SPI_CLK_risingedge THEN bitcnt + 1 ELSE bitcnt

\* The 5-bit counter, cleared between transfers.
CountBits ==
    IF ~SPI_CS_active THEN 0
    ELSE IF SPI_CLK_risingedge THEN (bitcnt + 1) % WordBits ELSE bitcnt

\* Mutant of SendBits: the answer is loaded until the first bit is counted, not
\* only when the transfer begins.
SendBitsReload ==
    CASE ~SPI_CS_active -> Zero
      [] SPI_CS_active /\ bitcnt = 0 -> enc
      [] SPI_CS_active /\ bitcnt # 0 /\ SPI_CLK_fallingedge ->
             ShiftIn(byte_data_sent, 0)
      [] OTHER -> byte_data_sent

\* The answer: loaded when a transfer begins, shifted when the clock falls.
SendBits ==
    CASE ~SPI_CS_active -> Zero
      [] SPI_CS_active /\ SPI_CS_startmessage -> enc
      [] SPI_CS_active /\ ~SPI_CS_startmessage /\ SPI_CLK_fallingedge ->
             ShiftIn(byte_data_sent, 0)
      [] OTHER -> byte_data_sent

\* Mutant of WordComplete: the count is compared with the number of bits.
WordCompleteLate == SPI_CS_active /\ SPI_CLK_risingedge /\ bitcnt = WordBits

\* The last bit of a word is being taken in.
WordComplete == SPI_CS_active /\ SPI_CLK_risingedge /\ bitcnt = WordBits - 1

\* One clock edge without reset; the encoders may show something else after it.
Tick ==
    /\ SPI_CLKr' = Sync3(SPI_CLKr, SPI_CLK)
    /\ SPI_CSr' = Sync3(SPI_CSr, SPI_CS)
    /\ SPI_PICOr' = <<SPI_PICO, SPI_PICOr[1]>>
    /\ bitcnt' = CountBits
    /\ bytes_data_received' = IF SPI_CS_active /\ SPI_CLK_risingedge
                              THEN ShiftIn(bytes_data_received, SPI_PICO_data)
                              ELSE bytes_data_received
    /\ bytes_received' = WordComplete
    /\ pwm' = IF bytes_received THEN bytes_data_received ELSE pwm
    /\ byte_data_sent' = SendBits
    /\ enc' \in EncWords
    /\ seen' = IF SPI_CS = 0 THEN seen \cup {enc'} ELSE seen
    /\ since' = IF since < MinTicks THEN since + 1 ELSE since
    /\ UNCHANGED masterVars

\* A clock edge with reset.  The application resets the board only between its
\* transfers (reset_fpga, called by init_fpga).
Reset ==
    /\ SPI_CS = 1 /\ since = MinTicks
    /\ SPI_CLKr' = <<0, 0, 0>> /\ SPI_CSr' = <<1, 1, 1>> /\ SPI_PICOr' = <<0, 0>>
    /\ bitcnt' = 0 /\ bytes_received' = FALSE
    /\ bytes_data_received' = Zero /\ byte_data_sent' = Zero
    /\ pwm' = MidWord
    /\ last' = MidWord /\ before' = MidWord
    /\ since' = 0
    /\ UNCHANGED <<SPI_CS, SPI_CLK, SPI_PICO, word, rx, enc, seen>>

-----------------------------------------------------------------------------
(* The master: the SPI controller in mode 0.                               *)

MayChange == since = MinTicks /\ since' = 0

Begin ==
    /\ SPI_CS = 1
    /\ SPI_CS' = 0
    /\ word' \in PwmWords
    /\ SPI_PICO' = word'[1]
    /\ rx' = <<>>
    /\ seen' = {enc}
    /\ UNCHANGED <<SPI_CLK, last, before, slaveVars, enc>>

\* The clock rises: the master reads a bit, the slave is to take one in.
Rise ==
    /\ SPI_CS = 0 /\ SPI_CLK = 0 /\ Len(rx) < WordBits
    /\ SPI_CLK' = 1
    /\ rx' = Append(rx, SPI_POCI)
    /\ IF Len(rx) = WordBits - 1 THEN last' = word /\ before' = last
                                 ELSE UNCHANGED <<last, before>>
    /\ UNCHANGED <<SPI_CS, SPI_PICO, word, slaveVars, enc, seen>>

\* The clock falls: both sides put out their next bit.
Fall ==
    /\ SPI_CLK = 1
    /\ SPI_CLK' = 0
    /\ SPI_PICO' = IF Len(rx) < WordBits THEN word[Len(rx) + 1] ELSE SPI_PICO
    /\ UNCHANGED <<SPI_CS, word, rx, last, before, slaveVars, enc, seen>>

\* The transfer ends, before its last bit if the controller gives up.
End ==
    /\ SPI_CS = 0 /\ SPI_CLK = 0
    /\ SPI_CS' = 1
    /\ UNCHANGED <<SPI_CLK, SPI_PICO, word, rx, last, before, slaveVars, enc, seen>>

Master == MayChange /\ (Begin \/ Rise \/ Fall \/ End)

-----------------------------------------------------------------------------
\* After power-up (the registers of the FPGA are 0) or after a reset.
Init ==
    /\ SPI_CS = 1 /\ SPI_CLK = 0 /\ SPI_PICO = 0
    /\ word = MidWord /\ rx = <<>> /\ since = 0
    /\ SPI_CLKr = <<0, 0, 0>> /\ SPI_PICOr = <<0, 0>>
    /\ SPI_CSr \in {<<0, 0, 0>>, <<1, 1, 1>>}
    /\ bitcnt = 0 /\ bytes_received = FALSE
    /\ bytes_data_received = Zero /\ byte_data_sent = Zero
    /\ pwm = MidWord
    /\ enc \in EncWords
    /\ seen = {}
    /\ last = MidWord /\ before = MidWord

Next == Tick \/ Reset \/ Master

\* The clock runs.  Nothing is assumed of the master.
Spec == Init /\ [][Next]_vars /\ WF_vars(Tick)

-----------------------------------------------------------------------------
(* Properties.                                                             *)

\* Every register holds a value of its width, the bit counter less than the
\* number of bits in a word.
SpiTypeOK ==
    /\ SPI_CS \in Bit /\ SPI_CLK \in Bit /\ SPI_PICO \in Bit
    /\ word \in Word /\ rx \in Seq(Bit) /\ Len(rx) <= WordBits
    /\ since \in 0 .. MinTicks
    /\ SPI_CLKr \in Bit \X Bit \X Bit /\ SPI_CSr \in Bit \X Bit \X Bit
    /\ SPI_PICOr \in Bit \X Bit
    /\ bitcnt \in 0 .. WordBits - 1 /\ bytes_received \in BOOLEAN
    /\ bytes_data_received \in Word /\ byte_data_sent \in Word
    /\ pwm \in Word /\ enc \in Word /\ seen \subseteq Word
    /\ last \in Word /\ before \in Word

\* The PWM registers never hold a shifted or mixed word: they hold the last
\* word that was sent in full or the one before it, and the last one as soon
\* as the master may begin again.  A transfer given up half-way leaves them.
WholeWords ==
    /\ pwm \in {last, before}
    /\ SPI_CS = 1 /\ since = MinTicks => pwm = last

\* What the master has read after a full transfer is one pair of counts that
\* the encoders showed together during this transfer, although they moved on.
AnswerIsOneSample == Len(rx) = WordBits => rx \in seen

\* The inductive invariant behind these.  MasterInv: what the lines show of the
\* word.  SyncInv: how far a change of a line has come in its synchroniser.
\* CountInv, WordInv, AnswerInv: the registers hold the bits of the transfer
\* under way, which the slave has taken in, or shifted out, but for the last
\* edge of the clock if that is less than three ticks ago.
Taken == IF SPI_CLK = 1 /\ since < 3 THEN Len(rx) - 1 ELSE Len(rx)
Shifted == IF rx # <<>> /\ (SPI_CLK = 1 \/ since < 3) THEN Len(rx) - 1 ELSE Len(rx)

MasterInv ==
    /\ SPI_CS = 1 => SPI_CLK = 0
    /\ SPI_CLK = 1 => rx # <<>> /\ SPI_PICO = word[Len(rx)]
    /\ SPI_CS = 0 /\ SPI_CLK = 0 /\ Len(rx) < WordBits => SPI_PICO = word[Len(rx) + 1]

SyncInv ==
    /\ SPI_CS = 1 \/ rx = <<>> => SPI_CLKr = <<0, 0, 0>>
    /\ SPI_CS = 0 /\ rx # <<>> =>
          /\ \A i \in 1 .. 3 : SPI_CLKr[i] = IF i <= since THEN SPI_CLK ELSE 1 - SPI_CLK
          /\ SPI_CSr = <<0, 0, 0>>
    /\ SPI_CS = 0 /\ rx = <<>> =>
          \A i \in 1 .. 3 : SPI_CSr[i] = IF i <= since THEN 0 ELSE 1
    /\ SPI_CS = 1 => \A i \in 1 .. 3 : i <= since => SPI_CSr[i] = 1
    /\ \A i \in 1 .. 2 : i <= since \/ SPI_CLK = 1 => SPI_PICOr[i] = SPI_PICO

CountInv ==
    /\ SPI_CS = 0 => bitcnt = IF Taken = WordBits THEN 0 ELSE Taken
    /\ SPI_CS = 1 /\ since >= 3 => bitcnt = 0
    /\ bytes_received => /\ SPI_CS = 0 /\ Len(rx) = WordBits
                         /\ IF SPI_CLK = 1 THEN since >= 3 ELSE since = 0

WordInv ==
    /\ SPI_CS = 0 =>
          \A i \in 1 .. Taken : bytes_data_received[WordBits - Taken + i] = word[i]
    /\ SPI_CS = 0 /\ Len(rx) = WordBits => last = word
    /\ pwm # last => /\ pwm = before /\ SPI_CS = 0 /\ Len(rx) = WordBits
                     /\ bytes_received \/ Taken < WordBits

\* w is the answer: the bits read are its first ones, the bits to be sent the
\* others.
Answer(w) ==
    /\ \A i \in 1 .. Len(rx) : rx[i] = w[i]
    /\ \A i \in 1 .. WordBits - Shifted : byte_data_sent[i] = w[i + Shifted]

AnswerInv ==
    /\ SPI_CS = 0 => enc \in seen
    /\ SPI_CS = 0 /\ (rx # <<>> \/ since >= 3) => \E w \in seen : Answer(w)

SpiInv ==
    SpiTypeOK /\ MasterInv /\ SyncInv /\ CountInv /\ WordInv /\ AnswerInv
        /\ AnswerIsOneSample

\* A word sent in full reaches the PWM registers.
WordArrives == pwm # last ~> pwm = last
=============================================================================
