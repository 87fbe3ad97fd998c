--------------------------- MODULE IcoBoardProofs ---------------------------
(***************************************************************************)
(* Proofs about the ICO board: the slave takes in whole words and sends    *)
(* back one sample of the counts, the motor is driven only as commanded,   *)
(* and a command that stays has its exact duty.  For any word width, any   *)
(* set of words and counts, any largest duty and any pace of the master    *)
(* not faster than three edges of the FPGA clock for each change of a line.*)
(***************************************************************************)
EXTENDS IcoBoard, SequenceTheorems, FunctionTheorems, FiniteSetTheorems,
        WellFoundedInduction, TLAPS

LEMMA PosWord == WordBits \in Nat /\ WordBits >= 2 /\ MinTicks \in Nat /\ MinTicks >= 3
  BY SpiAssumption, SlowLinesAssumption

-----------------------------------------------------------------------------
(* What the slave sees of the lines.                                       *)

\* A shifted word is a word.
LEMMA ShiftInType ==
    ASSUME NEW w \in Word, NEW b \in Bit
    PROVE  /\ ShiftIn(w, b) \in Word
           /\ ShiftIn(w, b)[WordBits] = b
           /\ \A i \in 1 .. WordBits - 1 : ShiftIn(w, b)[i] = w[i + 1]
<1>1. \A i \in 1 .. WordBits - 1 : i + 1 \in 1 .. WordBits /\ i \in 1 .. WordBits /\ i # WordBits
  BY PosWord
<1>2. WordBits \in 1 .. WordBits
  BY PosWord
<1>3. ASSUME NEW i \in 1 .. WordBits
      PROVE  (IF i = WordBits THEN b ELSE w[i + 1]) \in Bit
  <2>1. i # WordBits => i + 1 \in 1 .. WordBits
    BY PosWord
  <2>2. QED BY <2>1 DEF Word
<1>4. ShiftIn(w, b) \in Word
  BY <1>3 DEF ShiftIn, Word
<1>5. QED
  BY <1>1, <1>2, <1>4 DEF ShiftIn

\* Words with the same bits are the same.
LEMMA WordsEqual ==
    ASSUME NEW v \in Word, NEW w \in Word, \A i \in 1 .. WordBits : v[i] = w[i]
    PROVE  v = w
<1>1. v = [i \in 1 .. WordBits |-> v[i]] /\ w = [i \in 1 .. WordBits |-> w[i]]
  BY DEF Word
<1>2. QED BY <1>1, Zenon

\* The slave sees an edge of the clock when the line has been still for two
\* ticks, and the beginning of a transfer likewise.
LEMMA EdgesSeen ==
    ASSUME SpiTypeOK, MasterInv, SyncInv
    PROVE  /\ SPI_CLK_risingedge <=> SPI_CS = 0 /\ SPI_CLK = 1 /\ since = 2
           /\ SPI_CLK_fallingedge <=>
                SPI_CS = 0 /\ SPI_CLK = 0 /\ rx # <<>> /\ since = 2
           /\ SPI_CS = 0 => (SPI_CS_active <=> rx # <<>> \/ since >= 2)
           /\ SPI_CS = 0 => (SPI_CS_startmessage <=> rx = <<>> /\ since = 2)
           /\ SPI_CS = 1 /\ since >= 2 => ~SPI_CS_active
           /\ SPI_CLK_risingedge => SPI_PICO_data = word[Len(rx)]
           /\ SPI_CLK = 1 => SPI_CS = 0 /\ rx # <<>>
<1>1. since \in Nat /\ SPI_CLK \in {0, 1} /\ SPI_CS \in {0, 1}
  BY PosWord DEF SpiTypeOK, Bit
<1>2. SPI_CLK = 1 => SPI_CS = 0 /\ rx # <<>> /\ SPI_PICO = word[Len(rx)]
  BY <1>1 DEF MasterInv
<1>3. SPI_CS = 1 \/ rx = <<>> => SPI_CLKr[2] = 0 /\ SPI_CLKr[3] = 0
  BY DEF SyncInv
<1>4. SPI_CS = 0 /\ rx # <<>> =>
        /\ SPI_CLKr[2] = IF 2 <= since THEN SPI_CLK ELSE 1 - SPI_CLK
        /\ SPI_CLKr[3] = IF 3 <= since THEN SPI_CLK ELSE 1 - SPI_CLK
        /\ SPI_CSr[2] = 0 /\ SPI_CSr[3] = 0
  BY DEF SyncInv
<1>5. SPI_CS = 0 /\ rx = <<>> =>
        /\ SPI_CSr[2] = IF 2 <= since THEN 0 ELSE 1
        /\ SPI_CSr[3] = IF 3 <= since THEN 0 ELSE 1
  BY DEF SyncInv
<1>6. SPI_CS = 1 /\ since >= 2 => SPI_CSr[2] = 1
  BY <1>1 DEF SyncInv
<1>7. SPI_CLK = 1 => SPI_PICOr[2] = SPI_PICO
  BY DEF SyncInv
<1>8. SPI_CLK_risingedge <=> SPI_CS = 0 /\ SPI_CLK = 1 /\ since = 2
  BY <1>1, <1>2, <1>3, <1>4 DEF SPI_CLK_risingedge
<1>9. SPI_CLK_fallingedge <=>
        SPI_CS = 0 /\ SPI_CLK = 0 /\ rx # <<>> /\ since = 2
  BY <1>1, <1>2, <1>3, <1>4 DEF SPI_CLK_fallingedge
<1>10. SPI_CS = 0 => (SPI_CS_active <=> rx # <<>> \/ since >= 2)
  BY <1>1, <1>4, <1>5 DEF SPI_CS_active
<1>11. SPI_CS = 0 => (SPI_CS_startmessage <=> rx = <<>> /\ since = 2)
  BY <1>1, <1>4, <1>5 DEF SPI_CS_startmessage
<1>12. SPI_CS = 1 /\ since >= 2 => ~SPI_CS_active
  BY <1>6 DEF SPI_CS_active
<1>13. SPI_CLK_risingedge => SPI_PICO_data = word[Len(rx)]
  BY <1>2, <1>7, <1>8 DEF SPI_PICO_data
<1>14. QED
  BY <1>2, <1>8, <1>9, <1>10, <1>11, <1>12, <1>13

\* A tick counts the edges since a change, up to MinTicks.
LEMMA SinceTick ==
    ASSUME SpiTypeOK, Tick
    PROVE  /\ since \in Nat /\ since' \in 1 .. MinTicks
           /\ \/ since < MinTicks /\ since' = since + 1
              \/ since = MinTicks /\ since' = since
  BY PosWord DEF SpiTypeOK, Tick

-----------------------------------------------------------------------------
(* A tick of the clock.                                                    *)

LEMMA TickType ==
    ASSUME SpiTypeOK, Tick
    PROVE  SpiTypeOK'
<1>1. /\ (SPI_CS \in Bit /\ SPI_CLK \in Bit /\ SPI_PICO \in Bit)'
      /\ (word \in Word /\ rx \in Seq(Bit) /\ Len(rx) <= WordBits)'
      /\ (last \in Word /\ before \in Word)'
  BY DEF SpiTypeOK, Tick, masterVars
<1>2. (since \in 0 .. MinTicks)'
  BY SinceTick, PosWord
<1>3. /\ (SPI_CLKr \in Bit \X Bit \X Bit)' /\ (SPI_CSr \in Bit \X Bit \X Bit)'
      /\ (SPI_PICOr \in Bit \X Bit)'
  BY DEF SpiTypeOK, Tick, Sync3
<1>4. (bitcnt \in 0 .. WordBits - 1)'
  <2>1. CountBits \in 0 .. WordBits - 1
    BY PosWord DEF SpiTypeOK, CountBits
  <2>2. QED BY <2>1 DEF Tick
<1>5. (bytes_received \in BOOLEAN)'
  BY DEF Tick, WordComplete, SPI_CS_active, SPI_CLK_risingedge
<1>6. (bytes_data_received \in Word)'
  <2>1. SPI_PICO_data \in Bit
    BY DEF SPI_PICO_data, SpiTypeOK
  <2>2. ShiftIn(bytes_data_received, SPI_PICO_data) \in Word
    BY <2>1, ShiftInType DEF SpiTypeOK
  <2>3. QED BY <2>2 DEF Tick, SpiTypeOK
<1>7. (byte_data_sent \in Word)'
  <2>1. ShiftIn(byte_data_sent, 0) \in Word
    BY ShiftInType DEF SpiTypeOK, Bit
  <2>2. Zero \in Word
    BY DEF Zero, Word, Bit
  <2>3. SendBits \in Word
    BY <2>1, <2>2 DEF SendBits, SpiTypeOK
  <2>4. QED BY <2>3 DEF Tick
<1>8. (pwm \in Word)'
  BY DEF Tick, SpiTypeOK
<1>9. (enc \in Word /\ seen \subseteq Word)'
  BY SpiAssumption DEF Tick, SpiTypeOK
<1>10. QED
  BY <1>1, <1>2, <1>3, <1>4, <1>5, <1>6, <1>7, <1>8, <1>9 DEF SpiTypeOK

LEMMA TickSync ==
    ASSUME SpiTypeOK, MasterInv, SyncInv, Tick
    PROVE  MasterInv' /\ SyncInv'
<1>1. UNCHANGED <<SPI_CS, SPI_CLK, SPI_PICO, word, rx>>
  BY DEF Tick, masterVars
<1>2. MasterInv'
  BY <1>1 DEF MasterInv
<1>3. since \in Nat /\ SPI_CLK \in {0, 1} /\ SPI_CS \in {0, 1}
  BY PosWord DEF SpiTypeOK, Bit
<1>4. /\ SPI_CLKr' = <<SPI_CLK, SPI_CLKr[1], SPI_CLKr[2]>>
      /\ SPI_CSr' = <<SPI_CS, SPI_CSr[1], SPI_CSr[2]>>
      /\ SPI_PICOr' = <<SPI_PICO, SPI_PICOr[1]>>
  BY DEF Tick, Sync3
<1>5. /\ 1 <= since'
      /\ 2 <= since' <=> 1 <= since
      /\ 3 <= since' <=> 2 <= since
  BY SinceTick, PosWord
<1>6. (SPI_CS = 1 \/ rx = <<>> => SPI_CLKr = <<0, 0, 0>>)'
  <2>1. SPI_CS = 1 \/ rx = <<>> => SPI_CLK = 0
    BY <1>3 DEF MasterInv
  <2>2. SPI_CS = 1 \/ rx = <<>> => SPI_CLKr[1] = 0 /\ SPI_CLKr[2] = 0
    BY DEF SyncInv
  <2>3. QED BY <1>1, <1>4, <2>1, <2>2
<1>7. (SPI_CS = 0 /\ rx # <<>> =>
          /\ \A i \in 1 .. 3 : SPI_CLKr[i] = IF i <= since THEN SPI_CLK ELSE 1 - SPI_CLK
          /\ SPI_CSr = <<0, 0, 0>>)'
  <2> SUFFICES ASSUME SPI_CS = 0, rx # <<>>
               PROVE  /\ \A i \in 1 .. 3 : SPI_CLKr'[i] =
                            IF i <= since' THEN SPI_CLK ELSE 1 - SPI_CLK
                      /\ SPI_CSr' = <<0, 0, 0>>
    BY <1>1
  <2>1. /\ SPI_CLKr[1] = IF 1 <= since THEN SPI_CLK ELSE 1 - SPI_CLK
        /\ SPI_CLKr[2] = IF 2 <= since THEN SPI_CLK ELSE 1 - SPI_CLK
        /\ SPI_CSr[1] = 0 /\ SPI_CSr[2] = 0
    BY DEF SyncInv
  <2>2. SPI_CLKr'[1] = SPI_CLK /\ SPI_CLKr'[2] = SPI_CLKr[1] /\ SPI_CLKr'[3] = SPI_CLKr[2]
    BY <1>4
  <2>3. QED BY <1>4, <1>5, <2>1, <2>2
<1>8. (SPI_CS = 0 /\ rx = <<>> =>
          \A i \in 1 .. 3 : SPI_CSr[i] = IF i <= since THEN 0 ELSE 1)'
  <2> SUFFICES ASSUME SPI_CS = 0, rx = <<>>
               PROVE  \A i \in 1 .. 3 : SPI_CSr'[i] = IF i <= since' THEN 0 ELSE 1
    BY <1>1
  <2>1. /\ SPI_CSr[1] = IF 1 <= since THEN 0 ELSE 1
        /\ SPI_CSr[2] = IF 2 <= since THEN 0 ELSE 1
    BY DEF SyncInv
  <2>2. SPI_CSr'[1] = 0 /\ SPI_CSr'[2] = SPI_CSr[1] /\ SPI_CSr'[3] = SPI_CSr[2]
    BY <1>4
  <2>3. QED BY <1>5, <2>1, <2>2
<1>9. (SPI_CS = 1 => \A i \in 1 .. 3 : i <= since => SPI_CSr[i] = 1)'
  <2> SUFFICES ASSUME SPI_CS = 1
               PROVE  \A i \in 1 .. 3 : i <= since' => SPI_CSr'[i] = 1
    BY <1>1
  <2>1. /\ 1 <= since => SPI_CSr[1] = 1
        /\ 2 <= since => SPI_CSr[2] = 1
    BY DEF SyncInv
  <2>2. SPI_CSr'[1] = 1 /\ SPI_CSr'[2] = SPI_CSr[1] /\ SPI_CSr'[3] = SPI_CSr[2]
    BY <1>4
  <2>3. QED BY <1>5, <2>1, <2>2
<1>10. (\A i \in 1 .. 2 : i <= since \/ SPI_CLK = 1 => SPI_PICOr[i] = SPI_PICO)'
  <2>1. 1 <= since \/ SPI_CLK = 1 => SPI_PICOr[1] = SPI_PICO
    BY DEF SyncInv
  <2>2. SPI_PICOr'[1] = SPI_PICO /\ SPI_PICOr'[2] = SPI_PICOr[1]
    BY <1>4
  <2>3. QED BY <1>1, <1>5, <2>1, <2>2
<1>11. QED
  BY <1>2, <1>6, <1>7, <1>8, <1>9, <1>10 DEF SyncInv

LEMMA TickCount ==
    ASSUME SpiTypeOK, MasterInv, SyncInv, CountInv, Tick
    PROVE  CountInv'
<1>1. UNCHANGED <<SPI_CS, SPI_CLK, SPI_PICO, word, rx>>
  BY DEF Tick, masterVars
<1>2. /\ since \in Nat /\ SPI_CLK \in {0, 1} /\ SPI_CS \in {0, 1}
      /\ Len(rx) \in 0 .. WordBits /\ (rx = <<>> <=> Len(rx) = 0)
      /\ bitcnt \in 0 .. WordBits - 1
  BY PosWord, EmptySeq DEF SpiTypeOK, Bit
<1>3. bitcnt' = CountBits /\ bytes_received' = WordComplete
  BY DEF Tick
<1>4. since' >= 3 <=> since >= 2
  BY SinceTick, PosWord
<1>5. (SPI_CS = 0 => bitcnt = IF Taken = WordBits THEN 0 ELSE Taken)'
  <2> SUFFICES ASSUME SPI_CS = 0
               PROVE  bitcnt' = IF Taken' = WordBits THEN 0 ELSE Taken'
    BY <1>1
  <2>1. bitcnt = IF Taken = WordBits THEN 0 ELSE Taken
    BY DEF CountInv
  <2>2. Taken' = IF SPI_CLK = 1 /\ ~(since >= 2) THEN Len(rx) - 1 ELSE Len(rx)
    BY <1>1, <1>2, <1>4, SinceTick DEF Taken
  <2>3. CASE rx = <<>>
    BY <1>2, <1>3, <2>1, <2>2, <2>3, EdgesSeen, PosWord DEF Taken, CountBits
  <2>4. CASE rx # <<>> /\ SPI_CLK = 1 /\ since = 2
    <3>1. Taken = Len(rx) - 1 /\ Taken' = Len(rx) /\ bitcnt = Len(rx) - 1
      BY <1>2, <2>1, <2>2, <2>4, PosWord DEF Taken
    <3>2. bitcnt' = (bitcnt + 1) % WordBits
      BY <1>3, <2>4, EdgesSeen DEF CountBits
    <3>3. (bitcnt + 1) % WordBits = IF bitcnt + 1 = WordBits THEN 0 ELSE bitcnt + 1
      BY <1>2, PosWord
    <3>4. QED BY <1>2, <3>1, <3>2, <3>3, PosWord
  <2>5. CASE rx # <<>> /\ ~(SPI_CLK = 1 /\ since = 2)
    <3>1. bitcnt' = bitcnt
      BY <1>3, <2>5, EdgesSeen DEF CountBits
    <3>2. Taken' = Taken
      BY <1>2, <2>2, <2>5 DEF Taken
    <3>3. QED BY <2>1, <3>1, <3>2
  <2>6. QED BY <2>3, <2>4, <2>5
<1>6. (SPI_CS = 1 /\ since >= 3 => bitcnt = 0)'
  BY <1>1, <1>3, <1>4, EdgesSeen DEF CountBits
<1>7. (bytes_received => /\ SPI_CS = 0 /\ Len(rx) = WordBits
                         /\ IF SPI_CLK = 1 THEN since >= 3 ELSE since = 0)'
  <2> SUFFICES ASSUME WordComplete
               PROVE  SPI_CS = 0 /\ Len(rx) = WordBits /\ SPI_CLK = 1 /\ since' >= 3
    BY <1>1, <1>3
  <2>1. SPI_CS = 0 /\ SPI_CLK = 1 /\ since = 2 /\ bitcnt = WordBits - 1
    BY EdgesSeen DEF WordComplete
  <2>2. Len(rx) - 1 = WordBits - 1
    BY <1>2, <2>1, EdgesSeen, PosWord DEF CountInv, Taken
  <2>3. QED BY <1>2, <1>4, <2>1, <2>2, PosWord
<1>8. QED
  BY <1>5, <1>6, <1>7 DEF CountInv

LEMMA TickWord ==
    ASSUME SpiTypeOK, MasterInv, SyncInv, CountInv, WordInv, Tick
    PROVE  WordInv'
<1>1. UNCHANGED <<SPI_CS, SPI_CLK, SPI_PICO, word, rx, last, before>>
  BY DEF Tick, masterVars
<1>2. /\ since \in Nat /\ SPI_CLK \in {0, 1} /\ SPI_CS \in {0, 1}
      /\ Len(rx) \in 0 .. WordBits /\ (rx = <<>> <=> Len(rx) = 0)
      /\ bitcnt \in 0 .. WordBits - 1
  BY PosWord, EmptySeq DEF SpiTypeOK, Bit
<1>3. since' >= 3 <=> since >= 2
  BY SinceTick, PosWord
<1>4. Taken' = IF SPI_CLK = 1 /\ ~(since >= 2) THEN Len(rx) - 1 ELSE Len(rx)
  BY <1>1, <1>2, <1>3, SinceTick DEF Taken
<1>5. (SPI_CS = 0 => \A i \in 1 .. Taken :
                       bytes_data_received[WordBits - Taken + i] = word[i])'
  <2> SUFFICES ASSUME SPI_CS = 0, NEW i \in 1 .. Taken'
               PROVE  bytes_data_received'[WordBits - Taken' + i] = word[i]
    BY <1>1
  <2>1. CASE SPI_CLK_risingedge
    <3>1. /\ SPI_CLK = 1 /\ since = 2 /\ rx # <<>> /\ SPI_CS_active
          /\ SPI_PICO_data = word[Len(rx)]
      BY <2>1, EdgesSeen
    <3>2. Taken = Len(rx) - 1 /\ Taken' = Len(rx)
      BY <1>2, <1>4, <3>1 DEF Taken
    <3>3. bytes_data_received' = ShiftIn(bytes_data_received, SPI_PICO_data)
      BY <2>1, <3>1 DEF Tick
    <3>4. SPI_PICO_data \in Bit
      BY DEF SPI_PICO_data, SpiTypeOK
    <3>5. CASE i = Len(rx)
      <4>1. WordBits - Taken' + i = WordBits
        BY <1>2, <3>2, <3>5, PosWord
      <4>2. ShiftIn(bytes_data_received, SPI_PICO_data)[WordBits] = word[i]
        BY <3>1, <3>4, <3>5, ShiftInType DEF SpiTypeOK
      <4>3. QED BY <3>3, <4>1, <4>2
    <3>6. CASE i # Len(rx)
      <4> DEFINE k == WordBits - Len(rx) + i
      <4>1. k \in 1 .. WordBits - 1 /\ i \in 1 .. Taken
        BY <1>2, <3>2, <3>6, PosWord
      <4>2. k + 1 = WordBits - Taken + i /\ k = WordBits - Taken' + i
        BY <1>2, <3>2, PosWord
      <4>3. bytes_data_received'[k] = bytes_data_received[k + 1]
        <5>1. \A j \in 1 .. WordBits - 1 :
                ShiftIn(bytes_data_received, SPI_PICO_data)[j] = bytes_data_received[j + 1]
          BY <3>4, ShiftInType DEF SpiTypeOK
        <5>2. QED
          BY <3>3, <4>1, <5>1, Zenon
      <4>4. bytes_data_received[WordBits - Taken + i] = word[i]
        BY <4>1 DEF WordInv
      <4>5. QED BY <4>2, <4>3, <4>4
    <3>7. QED BY <3>5, <3>6
  <2>2. CASE ~SPI_CLK_risingedge
    <3>1. bytes_data_received' = bytes_data_received
      BY <2>2 DEF Tick
    <3>2. SPI_CLK = 1 => since # 2
      BY <2>2, EdgesSeen
    <3>3. Taken' = Taken
      BY <1>2, <1>4, <3>2 DEF Taken
    <3>4. QED BY <3>1, <3>3 DEF WordInv
  <2>3. QED BY <2>1, <2>2
<1>6. (SPI_CS = 0 /\ Len(rx) = WordBits => last = word)'
  BY <1>1 DEF WordInv
<1>7. (pwm # last => /\ pwm = before /\ SPI_CS = 0 /\ Len(rx) = WordBits
                     /\ bytes_received \/ Taken < WordBits)'
  <2>1. CASE bytes_received
    <3>1. pwm' = bytes_data_received
      BY <2>1 DEF Tick
    <3>2. SPI_CS = 0 /\ Len(rx) = WordBits /\ Taken = WordBits
      BY <1>2, <2>1, PosWord DEF CountInv, Taken
    <3>3. \A i \in 1 .. WordBits : bytes_data_received[WordBits - WordBits + i] = word[i]
      BY <3>2 DEF WordInv
    <3>4. \A i \in 1 .. WordBits : bytes_data_received[i] = word[i]
      BY <3>3, PosWord
    <3>5. bytes_data_received = word
      BY <3>4, WordsEqual DEF SpiTypeOK
    <3>6. last = word
      BY <3>2 DEF WordInv
    <3>7. QED BY <1>1, <3>1, <3>5, <3>6
  <2>2. CASE ~bytes_received
    <3>1. pwm' = pwm
      BY <2>2 DEF Tick
    <3> SUFFICES ASSUME pwm # last
                 PROVE  /\ pwm = before /\ SPI_CS = 0 /\ Len(rx) = WordBits
                        /\ bytes_received' \/ Taken' < WordBits
      BY <1>1, <3>1
    <3>2. pwm = before /\ SPI_CS = 0 /\ Len(rx) = WordBits /\ Taken < WordBits
      BY <2>2 DEF WordInv
    <3>3. SPI_CLK = 1 /\ since < 3
      BY <1>2, <3>2 DEF Taken
    <3>4. CASE since = 2
      <4>1. SPI_CLK_risingedge /\ SPI_CS_active
        BY <3>2, <3>3, <3>4, EdgesSeen
      <4>2. bitcnt = WordBits - 1
        BY <1>2, <3>2, <3>3, PosWord DEF CountInv, Taken
      <4>3. QED BY <3>2, <4>1, <4>2 DEF Tick, WordComplete
    <3>5. CASE since # 2
      BY <1>2, <1>4, <3>2, <3>3, <3>5, PosWord
    <3>6. QED BY <3>4, <3>5
  <2>3. QED BY <2>1, <2>2 DEF SpiTypeOK
<1>8. QED
  BY <1>5, <1>6, <1>7 DEF WordInv

LEMMA TickAnswer ==
    ASSUME SpiTypeOK, MasterInv, SyncInv, AnswerInv, AnswerIsOneSample, Tick
    PROVE  AnswerInv' /\ AnswerIsOneSample'
<1>1. UNCHANGED <<SPI_CS, SPI_CLK, SPI_PICO, word, rx>>
  BY DEF Tick, masterVars
<1>2. /\ since \in Nat /\ SPI_CLK \in {0, 1} /\ SPI_CS \in {0, 1}
      /\ Len(rx) \in 0 .. WordBits /\ (rx = <<>> <=> Len(rx) = 0)
  BY PosWord, EmptySeq DEF SpiTypeOK, Bit
<1>3. since' >= 3 <=> since >= 2
  BY SinceTick, PosWord
<1>4. byte_data_sent' = SendBits
  BY DEF Tick
<1>5. seen \subseteq seen'
  BY DEF Tick
<1>6. (SPI_CS = 0 => enc \in seen)'
  BY <1>1 DEF Tick
<1>7. (SPI_CS = 0 /\ (rx # <<>> \/ since >= 3) => \E w \in seen : Answer(w))'
  <2> SUFFICES ASSUME SPI_CS = 0, rx # <<>> \/ since >= 2
               PROVE  (\E w \in seen : Answer(w))'
    BY <1>1, <1>3
  <2>1. SPI_CS_active
    BY EdgesSeen
  <2>2. CASE SPI_CS_startmessage
    <3>1. rx = <<>> /\ byte_data_sent' = enc /\ enc \in seen
      BY <1>4, <2>1, <2>2, EdgesSeen DEF SendBits, AnswerInv
    <3>2. Shifted' = 0 /\ Len(rx) = 0
      BY <1>1, <1>2, <3>1 DEF Shifted
    <3>3. \A i \in 1 .. WordBits - Shifted' : byte_data_sent'[i] = enc[i + Shifted']
      BY <3>1, <3>2, PosWord
    <3>4. enc \in seen' /\ \A i \in 1 .. Len(rx') : rx'[i] = enc[i]
      BY <1>1, <1>5, <3>1, <3>2
    <3>5. QED BY <3>3, <3>4 DEF Answer
  <2>3. CASE ~SPI_CS_startmessage
    <3>1. rx # <<>> \/ since >= 3
      BY <1>2, <2>3, EdgesSeen
    <3>2. PICK w \in seen : Answer(w)
      BY <3>1 DEF AnswerInv
    <3>3. \A i \in 1 .. Len(rx') : rx'[i] = w[i]
      BY <1>1, <3>2 DEF Answer
    <3>4. \A i \in 1 .. WordBits - Shifted : byte_data_sent[i] = w[i + Shifted]
      BY <3>2 DEF Answer
    <3>5. \A i \in 1 .. WordBits - Shifted' : byte_data_sent'[i] = w[i + Shifted']
      <4>1. CASE SPI_CLK_fallingedge
        <5>1. rx # <<>> /\ SPI_CLK = 0 /\ since = 2
          BY <4>1, EdgesSeen
        <5>2. Shifted = Len(rx) - 1 /\ Shifted' = Len(rx)
          BY <1>1, <1>2, <1>3, <5>1, SinceTick DEF Shifted
        <5>3. byte_data_sent' = ShiftIn(byte_data_sent, 0)
          BY <1>4, <2>1, <2>3, <4>1 DEF SendBits
        <5> SUFFICES ASSUME NEW i \in 1 .. WordBits - Shifted'
                     PROVE  byte_data_sent'[i] = w[i + Shifted']
          OBVIOUS
        <5>4. i \in 1 .. WordBits - 1 /\ i + 1 \in 1 .. WordBits - Shifted
          BY <1>2, <5>1, <5>2, PosWord
        <5>5. byte_data_sent'[i] = byte_data_sent[i + 1]
          BY <5>3, <5>4, ShiftInType DEF SpiTypeOK, Bit
        <5>6. (i + 1) + Shifted = i + Shifted'
          BY <1>2, <5>2, <5>4
        <5>7. QED BY <3>4, <5>4, <5>5, <5>6
      <4>2. CASE ~SPI_CLK_fallingedge
        <5>1. byte_data_sent' = byte_data_sent
          BY <1>4, <2>1, <2>3, <4>2 DEF SendBits
        <5>2. ~(rx # <<>> /\ SPI_CLK = 0 /\ since = 2)
          BY <4>2, EdgesSeen
        <5>3. Shifted' = Shifted
          BY <1>1, <1>2, <1>3, <5>2, SinceTick, PosWord DEF Shifted
        <5>4. QED BY <3>4, <5>1, <5>3
      <4>3. QED BY <4>1, <4>2
    <3>6. QED BY <1>5, <3>2, <3>3, <3>5 DEF Answer
  <2>4. QED BY <2>2, <2>3
<1>8. AnswerIsOneSample'
  BY <1>1, <1>5 DEF AnswerIsOneSample
<1>9. QED
  BY <1>6, <1>7, <1>8 DEF AnswerInv

LEMMA TickKeeps ==
    ASSUME SpiInv, Tick
    PROVE  SpiInv'
  BY TickType, TickSync, TickCount, TickWord, TickAnswer DEF SpiInv

-----------------------------------------------------------------------------
(* The steps between two ticks: a line changes only when it has been still  *)
(* for MinTicks ticks, so that the slave has taken in its last change.      *)

LEMMA ResetKeeps ==
    ASSUME SpiInv, Reset
    PROVE  SpiInv'
<1>1. /\ UNCHANGED <<SPI_CS, SPI_CLK, SPI_PICO, word, rx, enc, seen>>
      /\ SPI_CS = 1 /\ SPI_CLK = 0 /\ since' = 0
  BY PosWord DEF Reset, SpiInv, SpiTypeOK, MasterInv, Bit
<1>2. SpiTypeOK'
  <2>1. Zero \in Word /\ MidWord \in Word
    BY SpiAssumption DEF Zero, Word, Bit
  <2>2. (since \in 0 .. MinTicks /\ bitcnt \in 0 .. WordBits - 1)'
    BY PosWord DEF Reset
  <2>3. QED BY <1>1, <2>1, <2>2 DEF Reset, SpiInv, SpiTypeOK, Bit
<1>3. MasterInv'
  BY <1>1 DEF MasterInv
<1>4. SyncInv'
  BY <1>1 DEF Reset, SyncInv
<1>5. CountInv'
  BY <1>1 DEF Reset, CountInv
<1>6. WordInv'
  BY <1>1 DEF Reset, WordInv
<1>7. AnswerInv'
  BY <1>1 DEF AnswerInv
<1>8. AnswerIsOneSample'
  BY <1>1 DEF SpiInv, AnswerIsOneSample
<1>9. QED
  BY <1>2, <1>3, <1>4, <1>5, <1>6, <1>7, <1>8 DEF SpiInv

LEMMA BeginKeeps ==
    ASSUME SpiInv, MayChange, Begin
    PROVE  SpiInv'
<1>1. /\ UNCHANGED <<SPI_CLKr, SPI_CSr, SPI_PICOr, bitcnt, bytes_received,
                     bytes_data_received, byte_data_sent, pwm, enc,
                     SPI_CLK, last, before>>
      /\ SPI_CS = 1 /\ SPI_CLK = 0 /\ since >= 3 /\ since' = 0
      /\ SPI_CS' = 0 /\ rx' = <<>> /\ seen' = {enc}
  BY PosWord DEF MayChange, Begin, slaveVars, SpiInv, SpiTypeOK, MasterInv, Bit
<1>2. Len(rx') = 0
  BY <1>1
<1>3. SpiTypeOK'
  <2>1. word' \in Word
    BY SpiAssumption DEF Begin
  <2>2. SPI_PICO' \in Bit
    BY <2>1, PosWord DEF Begin, Word
  <2>3. (since \in 0 .. MinTicks /\ Len(rx) <= WordBits /\ rx \in Seq(Bit))'
    BY <1>1, <1>2, PosWord
  <2>4. QED BY <1>1, <2>1, <2>2, <2>3 DEF SpiInv, SpiTypeOK, Bit
<1>4. MasterInv'
  BY <1>1, <1>2 DEF Begin, MasterInv
<1>5. SyncInv'
  <2>1. SPI_CLKr = <<0, 0, 0>>
    BY <1>1 DEF SpiInv, SyncInv
  <2>2. \A i \in 1 .. 3 : SPI_CSr[i] = 1
    BY <1>1, PosWord DEF SpiInv, SyncInv, SpiTypeOK
  <2>3. (\A i \in 1 .. 3 : SPI_CSr[i] = IF i <= since THEN 0 ELSE 1)'
    BY <1>1, <2>2
  <2>4. QED BY <1>1, <2>1, <2>3 DEF SyncInv
<1>6. Taken' = 0
  BY <1>1, <1>2 DEF Taken
<1>7. CountInv'
  <2>1. bitcnt = 0 /\ ~bytes_received
    BY <1>1 DEF SpiInv, CountInv
  <2>2. QED BY <1>1, <1>6, <2>1, PosWord DEF CountInv
<1>8. WordInv'
  <2>1. pwm = last
    BY <1>1 DEF SpiInv, WordInv
  <2>2. QED BY <1>1, <1>2, <1>6, <2>1, PosWord DEF WordInv
<1>9. AnswerInv'
  BY <1>1 DEF AnswerInv
<1>10. AnswerIsOneSample'
  BY <1>2, PosWord DEF AnswerIsOneSample
<1>11. QED
  BY <1>3, <1>4, <1>5, <1>7, <1>8, <1>9, <1>10 DEF SpiInv

LEMMA RiseKeeps ==
    ASSUME SpiInv, MayChange, Rise
    PROVE  SpiInv'
<1>1. /\ UNCHANGED <<SPI_CLKr, SPI_CSr, SPI_PICOr, bitcnt, bytes_received,
                     bytes_data_received, byte_data_sent, pwm, enc,
                     SPI_CS, SPI_PICO, word, seen>>
      /\ SPI_CS = 0 /\ SPI_CLK = 0 /\ since \in Nat /\ since >= 3 /\ since' = 0
      /\ SPI_CLK' = 1 /\ Len(rx) < WordBits
      /\ rx' = Append(rx, byte_data_sent[1])
  BY PosWord DEF MayChange, Rise, slaveVars, SPI_POCI
<1>2. /\ rx \in Seq(Bit) /\ byte_data_sent[1] \in Bit /\ Len(rx) \in 0 .. WordBits - 1
      /\ (rx = <<>> <=> Len(rx) = 0)
  BY <1>1, PosWord, EmptySeq DEF SpiInv, SpiTypeOK, Word
<1>3. /\ rx' \in Seq(Bit) /\ Len(rx') = Len(rx) + 1 /\ rx' # <<>>
      /\ \A i \in 1 .. Len(rx) : rx'[i] = rx[i]
      /\ rx'[Len(rx) + 1] = byte_data_sent[1]
  BY <1>1, <1>2, AppendProperties
<1>4. /\ \/ Len(rx') = WordBits /\ last' = word /\ before' = last
         \/ Len(rx') < WordBits /\ UNCHANGED <<last, before>>
  BY <1>2, <1>3, PosWord DEF Rise
<1>5. SpiTypeOK'
  <2>1. (last \in Word /\ before \in Word)'
    BY <1>4 DEF SpiInv, SpiTypeOK
  <2>2. (since \in 0 .. MinTicks /\ Len(rx) <= WordBits)'
    BY <1>1, <1>2, <1>3, PosWord
  <2>3. QED BY <1>1, <1>3, <2>1, <2>2 DEF SpiInv, SpiTypeOK, Bit
<1>6. MasterInv'
  <2>1. SPI_PICO = word[Len(rx) + 1]
    BY <1>1 DEF SpiInv, MasterInv
  <2>2. QED BY <1>1, <1>3, <2>1 DEF MasterInv
<1>7. SyncInv'
  <2>1. \A i \in 1 .. 3 : SPI_CLKr[i] = 0
    BY <1>1 DEF SpiInv, SyncInv
  <2>2. (\A i \in 1 .. 3 : SPI_CLKr[i] = IF i <= since THEN SPI_CLK ELSE 1 - SPI_CLK)'
    BY <1>1, <2>1
  <2>3. SPI_CSr = <<0, 0, 0>>
    <3>1. \A i \in 1 .. 3 : SPI_CSr[i] = 0
      BY <1>1 DEF SpiInv, SyncInv
    <3>2. QED BY <3>1 DEF SpiInv, SpiTypeOK
  <2>4. \A i \in 1 .. 2 : SPI_PICOr[i] = SPI_PICO
    BY <1>1 DEF SpiInv, SyncInv
  <2>5. QED BY <1>1, <1>3, <2>2, <2>3, <2>4 DEF SyncInv
<1>8. Taken = Len(rx) /\ Taken' = Len(rx)
  BY <1>1, <1>2, <1>3 DEF Taken
<1>9. CountInv'
  <2>1. bitcnt = IF Taken = WordBits THEN 0 ELSE Taken
    BY <1>1 DEF SpiInv, CountInv
  <2>2. ~bytes_received
    BY <1>1 DEF SpiInv, CountInv
  <2>3. QED BY <1>1, <1>8, <2>1, <2>2 DEF CountInv
<1>10. WordInv'
  <2>1. \A i \in 1 .. Taken : bytes_data_received[WordBits - Taken + i] = word[i]
    BY <1>1 DEF SpiInv, WordInv
  <2>2. pwm = last
    BY <1>1, <1>2, PosWord DEF SpiInv, WordInv
  <2>3. (pwm # last => /\ pwm = before /\ SPI_CS = 0 /\ Len(rx) = WordBits
                       /\ bytes_received \/ Taken < WordBits)'
    BY <1>1, <1>2, <1>4, <1>8, <2>2, PosWord
  <2>4. (SPI_CS = 0 /\ Len(rx) = WordBits => last = word)'
    BY <1>1, <1>4, <1>3, <1>2, PosWord
  <2>5. QED BY <1>1, <1>8, <2>1, <2>3, <2>4 DEF WordInv
<1>11. PICK w \in seen : Answer(w)
  BY <1>1 DEF SpiInv, AnswerInv
<1>12. Shifted = Len(rx) /\ Shifted' = Len(rx)
  BY <1>1, <1>2, <1>3 DEF Shifted
<1>13. \A i \in 1 .. Len(rx') : rx'[i] = w[i]
  <2>1. byte_data_sent[1] = w[1 + Shifted]
    BY <1>2, <1>11, <1>12, PosWord DEF Answer
  <2>2. \A i \in 1 .. Len(rx) : rx[i] = w[i]
    BY <1>11 DEF Answer
  <2>3. QED BY <1>2, <1>3, <1>12, <2>1, <2>2
<1>14. AnswerInv'
  <2>1. (Answer(w))'
    BY <1>1, <1>11, <1>12, <1>13 DEF Answer
  <2>2. QED BY <1>1, <2>1 DEF SpiInv, AnswerInv
<1>15. AnswerIsOneSample'
  <2> SUFFICES ASSUME Len(rx') = WordBits
               PROVE  rx' \in seen
    BY <1>1 DEF AnswerIsOneSample
  <2>1. rx' \in Word
    BY <1>3 DEF Word
  <2>2. w \in Word
    BY DEF SpiInv, SpiTypeOK
  <2>3. rx' = w
    BY <1>13, <2>1, <2>2, WordsEqual
  <2>4. QED BY <2>3
<1>16. QED
  BY <1>5, <1>6, <1>7, <1>9, <1>10, <1>14, <1>15 DEF SpiInv

LEMMA FallKeeps ==
    ASSUME SpiInv, MayChange, Fall
    PROVE  SpiInv'
<1>1. /\ UNCHANGED <<SPI_CLKr, SPI_CSr, SPI_PICOr, bitcnt, bytes_received,
                     bytes_data_received, byte_data_sent, pwm, enc,
                     SPI_CS, word, rx, last, before, seen>>
      /\ SPI_CS = 0 /\ SPI_CLK = 1 /\ since \in Nat /\ since >= 3 /\ since' = 0
      /\ SPI_CLK' = 0 /\ rx # <<>> /\ Len(rx) \in 1 .. WordBits
  BY PosWord, EmptySeq DEF MayChange, Fall, slaveVars, SpiInv, SpiTypeOK, MasterInv, Bit
<1>2. SpiTypeOK'
  <2>1. SPI_PICO' \in Bit
    <3>1. Len(rx) < WordBits => Len(rx) + 1 \in 1 .. WordBits
      BY <1>1, PosWord
    <3>2. QED BY <3>1 DEF Fall, SpiInv, SpiTypeOK, Word
  <2>2. (since \in 0 .. MinTicks)'
    BY <1>1, PosWord
  <2>3. QED BY <1>1, <2>1, <2>2 DEF SpiInv, SpiTypeOK, Bit
<1>3. MasterInv'
  BY <1>1 DEF Fall, MasterInv
<1>4. SyncInv'
  <2>1. (\A i \in 1 .. 3 : SPI_CLKr[i] = IF i <= since THEN SPI_CLK ELSE 1 - SPI_CLK)'
    BY <1>1 DEF SpiInv, SyncInv
  <2>2. SPI_CSr = <<0, 0, 0>>
    BY <1>1 DEF SpiInv, SyncInv
  <2>3. QED BY <1>1, <2>1, <2>2 DEF SyncInv
<1>5. Taken = Len(rx) /\ Taken' = Len(rx) /\ Shifted' = Shifted
  BY <1>1 DEF Taken, Shifted
<1>6. CountInv'
  <2>1. bitcnt = IF Taken = WordBits THEN 0 ELSE Taken
    BY <1>1 DEF SpiInv, CountInv
  <2>2. bytes_received => Len(rx) = WordBits
    BY DEF SpiInv, CountInv
  <2>3. QED BY <1>1, <1>5, <2>1, <2>2 DEF CountInv
<1>7. WordInv'
  BY <1>1, <1>5 DEF SpiInv, WordInv
<1>8. AnswerInv'
  BY <1>1, <1>5 DEF SpiInv, AnswerInv, Answer
<1>9. AnswerIsOneSample'
  BY <1>1 DEF SpiInv, AnswerIsOneSample
<1>10. QED
  BY <1>2, <1>3, <1>4, <1>6, <1>7, <1>8, <1>9 DEF SpiInv

LEMMA EndKeeps ==
    ASSUME SpiInv, MayChange, End
    PROVE  SpiInv'
<1>1. /\ UNCHANGED <<SPI_CLKr, SPI_CSr, SPI_PICOr, bitcnt, bytes_received,
                     bytes_data_received, byte_data_sent, pwm, enc,
                     SPI_CLK, SPI_PICO, word, rx, last, before, seen>>
      /\ SPI_CS = 0 /\ SPI_CLK = 0 /\ since \in Nat /\ since >= 3 /\ since' = 0
      /\ SPI_CS' = 1
  BY PosWord DEF MayChange, End, slaveVars
<1>2. SpiTypeOK'
  <2>1. (since \in 0 .. MinTicks)'
    BY <1>1, PosWord
  <2>2. QED BY <1>1, <2>1 DEF SpiInv, SpiTypeOK, Bit
<1>3. MasterInv'
  BY <1>1 DEF MasterInv
<1>4. SyncInv'
  <2>1. \A i \in 1 .. 3 : SPI_CLKr[i] = 0
    BY <1>1 DEF SpiInv, SyncInv
  <2>2. SPI_CLKr = <<0, 0, 0>>
    BY <2>1 DEF SpiInv, SpiTypeOK
  <2>3. QED BY <1>1, <2>2 DEF SyncInv
<1>5. CountInv'
  <2>1. ~bytes_received
    BY <1>1 DEF SpiInv, CountInv
  <2>2. QED BY <1>1, <2>1 DEF CountInv
<1>6. WordInv'
  <2>1. Taken = Len(rx)
    BY <1>1 DEF Taken
  <2>2. ~bytes_received
    BY <1>1 DEF SpiInv, CountInv
  <2>3. pwm = last
    BY <2>1, <2>2, PosWord DEF SpiInv, WordInv
  <2>4. QED BY <1>1, <2>3 DEF WordInv
<1>7. AnswerInv'
  BY <1>1 DEF AnswerInv
<1>8. AnswerIsOneSample'
  BY <1>1 DEF SpiInv, AnswerIsOneSample
<1>9. QED
  BY <1>2, <1>3, <1>4, <1>5, <1>6, <1>7, <1>8 DEF SpiInv

-----------------------------------------------------------------------------
(* The invariant of the slave and the master.                              *)

LEMMA SpiStarts == Init => SpiInv
<1> SUFFICES ASSUME Init PROVE SpiInv
  OBVIOUS
<1>1. Len(rx) = 0 /\ rx = <<>> /\ SPI_CS = 1 /\ SPI_CLK = 0 /\ since = 0
  BY DEF Init
<1>2. SpiTypeOK
  <2>1. Zero \in Word /\ MidWord \in Word /\ enc \in Word
    BY SpiAssumption DEF Zero, Word, Bit, Init
  <2>2. since \in 0 .. MinTicks /\ bitcnt \in 0 .. WordBits - 1
    BY PosWord DEF Init
  <2>3. rx \in Seq(Bit) /\ Len(rx) <= WordBits
    BY <1>1, EmptySeq, PosWord
  <2>4. /\ SPI_CLKr \in Bit \X Bit \X Bit /\ SPI_CSr \in Bit \X Bit \X Bit
        /\ SPI_PICOr \in Bit \X Bit
    BY DEF Init, Bit
  <2>5. QED BY <1>1, <2>1, <2>2, <2>3, <2>4 DEF SpiTypeOK, Init, Bit
<1>3. MasterInv
  BY <1>1 DEF MasterInv
<1>4. SyncInv
  BY <1>1 DEF SyncInv, Init
<1>5. CountInv /\ WordInv /\ AnswerInv
  BY <1>1, PosWord DEF CountInv, WordInv, AnswerInv, Init
<1>6. AnswerIsOneSample
  BY <1>1, PosWord DEF AnswerIsOneSample
<1>7. QED
  BY <1>2, <1>3, <1>4, <1>5, <1>6 DEF SpiInv

LEMMA SpiKeeps ==
    ASSUME SpiInv, [Next]_vars
    PROVE  SpiInv'
<1>1. CASE Tick
  BY <1>1, TickKeeps
<1>2. CASE Reset
  BY <1>2, ResetKeeps
<1>3. CASE Master
  BY <1>3, BeginKeeps, RiseKeeps, FallKeeps, EndKeeps DEF Master
<1>4. CASE UNCHANGED vars
  BY <1>4 DEF vars, SpiInv, SpiTypeOK, MasterInv, SyncInv, CountInv, WordInv,
              AnswerInv, AnswerIsOneSample, Answer, Taken, Shifted
<1>5. QED
  BY <1>1, <1>2, <1>3, <1>4 DEF Next

\* Alone or behind it the PWM generator, the slave keeps its invariant: the
\* board's steps are steps of the slave.
THEOREM SpiInvariant == (Spec => []SpiInv) /\ (IcoSpec => []SpiInv)
<1>1. Spec => []SpiInv
  BY SpiStarts, SpiKeeps, PTL DEF Spec
<1>2. IcoInit => SpiInv
  BY SpiStarts DEF IcoInit
<1>3. SpiInv /\ [IcoNext]_icoVars => SpiInv'
  <2>1. [IcoNext]_icoVars => [Next]_vars
    BY DEF IcoNext, icoVars, BoardTick, BoardReset, Next
  <2>2. QED BY <2>1, SpiKeeps
<1>4. IcoSpec => []SpiInv
  BY <1>2, <1>3, PTL DEF IcoSpec
<1>5. QED
  BY <1>1, <1>4

\* Every register of the slave keeps its width (CountBits, SendBits).
THEOREM SpiTypeCorrect == IcoSpec => []SpiTypeOK
<1>1. SpiInv => SpiTypeOK
  BY DEF SpiInv
<1>2. QED
  BY <1>1, SpiInvariant, PTL

\* The PWM registers hold whole words, the last one or the one before it, and
\* the last one before the next transfer begins (WordComplete, Tick).
THEOREM PwmWordsWhole == IcoSpec => []WholeWords
<1>1. SpiInv => WholeWords
  <2> SUFFICES ASSUME SpiInv PROVE WholeWords
    OBVIOUS
  <2>1. pwm # last => pwm = before /\ SPI_CS = 0
    BY DEF SpiInv, WordInv
  <2>2. QED BY <2>1 DEF WholeWords
<1>2. QED
  BY <1>1, SpiInvariant, PTL

\* The master reads one pair of counts of the time of its transfer (SendBits).
THEOREM AnswerWhole == IcoSpec => []AnswerIsOneSample
<1>1. SpiInv => AnswerIsOneSample
  BY DEF SpiInv
<1>2. QED
  BY <1>1, SpiInvariant, PTL

-----------------------------------------------------------------------------
(* The value of a command.                                                 *)

\* A non-empty set of natural numbers has a least one: the form in which the
\* proofs below do induction.
LEMMA LeastNat ==
    ASSUME NEW T, T \subseteq Nat, T # {}
    PROVE  \E x \in T : \A y \in T : x <= y
<1>1. PICK x \in T : \A y \in T : ~(<<y, x>> \in OpToRel(<, Nat))
  BY NatLessThanWellFounded, WFMin, Zenon
<1>2. \A y \in T : ~(y < x)
  BY <1>1 DEF OpToRel
<1>3. QED
  BY <1>2

\* The value of a word's first half exists and is a natural number.
LEMMA PitchType ==
    ASSUME NEW w \in Word
    PROVE  Pitch(w) \in Nat
<1> DEFINE K == WordBits \div 2
           Eq(g) == g = [n \in 0 .. K |-> IF n = 0 THEN 0 ELSE 2 * g[n - 1] + w[n]]
           Upto(n, g) == \A m \in 0 .. n : /\ g[m] \in Nat
                                           /\ g[m] = IF m = 0 THEN 0 ELSE 2 * g[m - 1] + w[m]
           f == CHOOSE g : Eq(g)
<1>1. K \in Nat /\ K <= WordBits
  BY SpiAssumption
<1>2. \A n \in 1 .. K : w[n] \in Nat
  BY <1>1, SpiAssumption DEF Word, Bit
<1> HIDE DEF K
<1>3. \E g \in [0 .. K -> Nat] : Upto(K, g)
  <2> SUFFICES ASSUME ~ \E g \in [0 .. K -> Nat] : Upto(K, g)
               PROVE  FALSE
    OBVIOUS
  <2> DEFINE T == {n \in 0 .. K : ~ \E g \in [0 .. K -> Nat] : Upto(n, g)}
  <2>1. PICK n \in T : \A m \in T : n <= m
    <3>1. T \subseteq Nat /\ K \in T
      BY <1>1
    <3>2. QED BY <3>1, LeastNat
  <2>2. n # 0
    <3>1. Upto(0, [m \in 0 .. K |-> 0])
      BY <1>1
    <3>2. [m \in 0 .. K |-> 0] \in [0 .. K -> Nat]
      OBVIOUS
    <3>3. QED BY <2>1, <3>1, <3>2
  <2>3. n - 1 \in 0 .. K /\ n \in 1 .. K
    BY <1>1, <2>1, <2>2
  <2>4. PICK g \in [0 .. K -> Nat] : Upto(n - 1, g)
    BY <2>1, <2>3
  <2> DEFINE h == [g EXCEPT ![n] = 2 * g[n - 1] + w[n]]
  <2>5. h \in [0 .. K -> Nat]
    BY <1>2, <2>3
  <2>6. Upto(n, h)
    <3> SUFFICES ASSUME NEW m \in 0 .. n
                 PROVE  h[m] = IF m = 0 THEN 0 ELSE 2 * h[m - 1] + w[m]
      BY <2>3, <2>5, <1>1
    <3>1. CASE m = n
      BY <2>3, <3>1
    <3>2. CASE m # n
      <4>1. m \in 0 .. n - 1 /\ m \in 0 .. K /\ (m # 0 => m - 1 \in 0 .. K /\ m - 1 # n)
        BY <2>3, <3>2, <1>1
      <4>2. h[m] = g[m] /\ (m # 0 => h[m - 1] = g[m - 1])
        BY <4>1, <3>2
      <4>3. g[m] = IF m = 0 THEN 0 ELSE 2 * g[m - 1] + w[m]
        BY <2>4, <4>1
      <4>4. QED BY <4>2, <4>3
    <3>3. QED BY <3>1, <3>2
  <2>7. QED BY <2>1, <2>5, <2>6
<1>4. PICK g \in [0 .. K -> Nat] : Upto(K, g)
  BY <1>3
<1>5. Eq(g)
  <2>1. \A m \in 0 .. K : g[m] = IF m = 0 THEN 0 ELSE 2 * g[m - 1] + w[m]
    BY <1>4
  <2>2. g = [m \in 0 .. K |-> g[m]]
    OBVIOUS
  <2>3. QED BY <2>1, <2>2
<1>6. Eq(f)
  BY <1>5
<1>7. \A n \in 0 .. K : f[n] \in Nat
  <2> SUFFICES ASSUME NEW k \in 0 .. K, f[k] \notin Nat
               PROVE  FALSE
    OBVIOUS
  <2> DEFINE T == {n \in 0 .. K : f[n] \notin Nat}
  <2>1. PICK n \in T : \A m \in T : n <= m
    <3>1. T \subseteq Nat /\ k \in T
      BY <1>1
    <3>2. QED BY <3>1, LeastNat
  <2> HIDE DEF f
  <2>2. \A m \in 0 .. K : f[m] = IF m = 0 THEN 0 ELSE 2 * f[m - 1] + w[m]
    BY <1>6
  <2>3. CASE n = 0
    BY <2>1, <2>2, <2>3, <1>1
  <2>4. CASE n # 0
    <3>1. n \in 1 .. K /\ n - 1 \in 0 .. K /\ ~(n <= n - 1)
      BY <1>1, <2>1, <2>4
    <3>2. f[n - 1] \in Nat
      BY <2>1, <3>1
    <3>3. f[n] = 2 * f[n - 1] + w[n]
      BY <2>2, <2>4, <3>1
    <3>4. QED BY <1>2, <2>1, <3>1, <3>2, <3>3
  <2>5. QED BY <2>3, <2>4
<1>8. Pitch(w) = f[K]
  BY DEF Pitch, K
<1>9. QED
  BY <1>1, <1>7, <1>8

LEMMA PosMax ==
    /\ MAX_COUNT \in Nat /\ MIDPOINT \in Nat /\ MIDPOINT >= 1
    /\ MAX_COUNT = 2 * MIDPOINT
  BY PwmAssumption DEF MIDPOINT

\* The value that the generator takes over, on the side that the word asks for.
LEMMA DutyType ==
    ASSUME NEW w \in Word
    PROVE  /\ Duty(w) \in 0 .. MAX_COUNT
           /\ Distance(Duty(w)) \in 0 .. MIDPOINT
           /\ Duty(w) > MIDPOINT <=> Pitch(w) > MIDPOINT
           /\ Duty(w) < MIDPOINT <=> Pitch(w) < MIDPOINT
<1>1. Pitch(w) \in Nat
  BY PitchType
<1>2. Duty(w) \in 0 .. MAX_COUNT
  BY <1>1, PosMax DEF Duty
<1>3. QED
  BY <1>1, <1>2, PosMax DEF Duty, Distance

LEMMA MidDuty == Duty(MidWord) = MIDPOINT
  BY PwmAssumption, PosMax DEF Duty

-----------------------------------------------------------------------------
(* The drive.                                                              *)

LEMMA DriveStarts == IcoInit => DriveInv
<1> SUFFICES ASSUME IcoInit PROVE DriveInv
  OBVIOUS
<1>1. Side(MIDPOINT) = <<0, 0>>
  BY PosMax DEF Side
<1>2. QED
  BY <1>1, MidDuty DEF IcoInit, Init, PwmInit, DriveInv

LEMMA DriveTick ==
    ASSUME SpiInv, DriveInv, BoardTick
    PROVE  DriveInv'
<1>1. /\ UNCHANGED <<SPI_CS, SPI_CLK, rx, last, before>>
      /\ local_duty' = Duty(pwm) /\ dir' = Side(local_duty)
  BY DEF BoardTick, Tick, masterVars, PwmTick, Duty, Side, Direction
<1>2. /\ since \in Nat /\ since' \in 1 .. MinTicks
      /\ since' >= 2 <=> since >= 1
      /\ since' >= 3 <=> since >= 2
  BY SinceTick, PosWord DEF BoardTick, SpiInv
<1>3. /\ \E w \in {last, before} : pwm = w
      /\ Settled(1) => pwm = last
  <2>1. pwm # last => /\ pwm = before /\ SPI_CS = 0 /\ Len(rx) = WordBits
                      /\ bytes_received \/ Taken < WordBits
    BY DEF SpiInv, WordInv
  <2>2. Settled(1) /\ Len(rx) = WordBits /\ SPI_CS = 0 =>
          ~bytes_received /\ Taken = WordBits
    BY <1>2, PosWord DEF Settled, Taken, SpiInv, CountInv
  <2>3. QED BY <2>1, <2>2, PosWord DEF Settled
<1>4. (\E w \in {last, before} : local_duty = Duty(w))'
  BY <1>1, <1>3
<1>5. (\E w \in {last, before} : dir = Side(Duty(w)))'
  BY <1>1 DEF DriveInv
<1>6. (Settled(2) => local_duty = Duty(last))'
  BY <1>1, <1>2, <1>3 DEF Settled
<1>7. (Settled(3) => dir = Side(Duty(last)))'
  BY <1>1, <1>2 DEF Settled, DriveInv
<1>8. QED
  BY <1>4, <1>5, <1>6, <1>7 DEF DriveInv

LEMMA DriveReset ==
    ASSUME BoardReset
    PROVE  DriveInv'
<1>1. Side(MIDPOINT) = <<0, 0>>
  BY PosMax DEF Side
<1>2. last' = MidWord /\ local_duty' = MIDPOINT /\ dir' = <<0, 0>>
  BY DEF BoardReset, Reset, PwmReset
<1>3. QED
  BY <1>1, <1>2, MidDuty DEF DriveInv

\* What the drive shows is settled when the last word is replaced by another.
LEMMA DriveMaster ==
    ASSUME SpiInv, DriveInv, Master, UNCHANGED pwmVars
    PROVE  DriveInv'
<1>1. UNCHANGED <<local_duty, dir>>
  BY DEF pwmVars
<1>2. since = MinTicks /\ since' = 0
  BY DEF Master, MayChange
<1>3. CASE Begin
  <2>1. SPI_CS = 1 /\ UNCHANGED <<last, before>>
    BY <1>3 DEF Begin
  <2>2. QED BY <1>1, <2>1 DEF DriveInv, Settled
<1>4. CASE Rise
  <2>1. /\ SPI_CS = 0 /\ SPI_CS' = 0 /\ SPI_CLK = 0 /\ SPI_CLK' = 1
        /\ Len(rx) < WordBits
    BY <1>4 DEF Rise
  <2>2. local_duty = Duty(last) /\ dir = Side(Duty(last))
    BY <2>1 DEF DriveInv, Settled
  <2>3. /\ Len(rx) \in 0 .. WordBits /\ Len(rx') = Len(rx) + 1
    BY <1>4, PosWord, AppendProperties DEF Rise, SPI_POCI, SpiInv, SpiTypeOK, Word
  <2>4. CASE Len(rx) = WordBits - 1
    <3>1. before' = last
      BY <1>4, <2>4 DEF Rise
    <3>2. ~Settled(2)' /\ ~Settled(3)'
      BY <2>1, <2>3, <2>4, PosWord DEF Settled
    <3>3. QED BY <1>1, <2>2, <3>1, <3>2 DEF DriveInv
  <2>5. CASE Len(rx) # WordBits - 1
    BY <1>1, <1>4, <2>2, <2>5 DEF Rise, DriveInv
  <2>6. QED BY <2>4, <2>5
<1>5. CASE Fall
  <2>1. UNCHANGED <<SPI_CS, rx, last, before>>
    BY <1>5 DEF Fall
  <2>2. QED BY <1>1, <1>2, <2>1 DEF DriveInv, Settled
<1>6. CASE End
  <2>1. UNCHANGED <<last, before>> /\ Settled(2) /\ Settled(3)
    BY <1>2, <1>6, PosWord DEF End, Settled
  <2>2. QED BY <1>1, <2>1 DEF DriveInv
<1>7. QED
  BY <1>3, <1>4, <1>5, <1>6 DEF Master

\* The motor turns only a way that one of the last two whole words asks for
\* (Direction, PwmTick, with the pace of the master).
THEOREM DriveOnlyCommanded == IcoSpec => []DriveCommanded
<1>1. SpiInv /\ DriveInv /\ [IcoNext]_icoVars => DriveInv'
  <2> SUFFICES ASSUME SpiInv, DriveInv, [IcoNext]_icoVars
               PROVE  DriveInv'
    OBVIOUS
  <2>1. CASE UNCHANGED icoVars
    BY <2>1 DEF icoVars, vars, pwmVars, DriveInv, Settled
  <2>2. QED BY <2>1, DriveTick, DriveReset, DriveMaster DEF IcoNext
<1>2. SpiInv /\ DriveInv => DriveCommanded
  <2> SUFFICES ASSUME SpiInv, DriveInv PROVE DriveCommanded
    OBVIOUS
  <2>1. PICK w \in {last, before} : dir = Side(Duty(w))
    BY DEF DriveInv
  <2>2. w \in Word
    BY DEF SpiInv, SpiTypeOK
  <2>3. /\ dir[1] = IF Duty(w) > MIDPOINT THEN 1 ELSE 0
        /\ dir[2] = IF Duty(w) < MIDPOINT THEN 1 ELSE 0
    BY <2>1 DEF Side
  <2>4. ~(dir[1] = 1 /\ dir[2] = 1)
    BY <2>2, <2>3, DutyType, PosMax
  <2>5. dir[1] = 1 => Pitch(w) > MIDPOINT
    BY <2>2, <2>3, DutyType
  <2>6. dir[2] = 1 => Pitch(w) < MIDPOINT
    BY <2>2, <2>3, DutyType
  <2>7. QED BY <2>4, <2>5, <2>6 DEF DriveCommanded
<1>3. QED
  BY <1>1, <1>2, DriveStarts, SpiInvariant, PTL DEF IcoSpec

-----------------------------------------------------------------------------
(* The pin.                                                                *)

LEMMA PinStarts == IcoInit => PinInv
<1> SUFFICES ASSUME IcoInit PROVE PinInv
  OBVIOUS
<1>1. counter = 0 /\ stable = 0
  BY DEF IcoInit, PwmInit
<1>2. \A i \in 1 .. MIDPOINT : ~(i + 2 <= stable)
  BY <1>1, PosMax
<1>3. QED
  BY <1>1, <1>2, PosMax DEF PinInv

\* An edge moves the count on by one and the pins of the past by one place.
LEMMA PinTick ==
    ASSUME SpiInv, PinInv, BoardTick
    PROVE  PinInv'
<1>1. /\ local_duty' = Duty(pwm)
      /\ counter_set_point' = Distance(local_duty) /\ dir' = Side(local_duty)
  BY DEF BoardTick, PwmTick, Duty, Side, Direction, SetPoint, Distance
<1>2. /\ counter \in 0 .. MIDPOINT - 1
      /\ counter' = IF counter = MIDPOINT - 1 THEN 0 ELSE counter + 1
      /\ counter' \in 0 .. MIDPOINT - 1
  BY PosMax DEF PinInv, BoardTick, PwmTick
<1>3. /\ stable \in 0 .. MIDPOINT + 2 /\ stable' \in 0 .. MIDPOINT + 2
      /\ stable' >= 1 => /\ Pitch(pwm') = Pitch(pwm)
                         /\ stable' <= stable + 1
  BY PosMax DEF PinInv, BoardTick, PwmTick
<1>4. stable' >= 1 => Duty(pwm') = Duty(pwm)
  BY <1>3 DEF Duty
<1>5. (stable >= 1 => local_duty = Duty(pwm))'
  BY <1>1, <1>4
<1>6. (stable >= 2 => /\ counter_set_point = Distance(Duty(pwm))
                      /\ dir = Side(Duty(pwm)))'
  <2>1. stable' >= 2 => stable >= 1
    BY <1>3
  <2>2. QED BY <1>1, <1>3, <1>4, <2>1 DEF PinInv
<1>7. (\A i \in 1 .. MIDPOINT :
          i + 2 <= stable =>
             outs[i] = IF CountAgo(i) < Distance(Duty(pwm)) THEN 1 ELSE 0)'
  <2> SUFFICES ASSUME NEW i \in 1 .. MIDPOINT, i + 2 <= stable'
               PROVE  outs'[i] = IF (CountAgo(i))' < Distance(Duty(pwm'))
                                 THEN 1 ELSE 0
    BY PosMax
  <2>1. stable >= 2 /\ Duty(pwm') = Duty(pwm)
    BY <1>3, <1>4, PosMax
  <2>2. (CountAgo(i))' = IF i = 1 THEN counter ELSE CountAgo(i - 1)
    BY <1>2, PosMax DEF CountAgo
  <2>3. CASE i = 1
    <3>1. outs'[i] = IF counter < counter_set_point THEN 1 ELSE 0
      BY <2>3, PosMax DEF BoardTick, PwmTick
    <3>2. counter_set_point = Distance(Duty(pwm))
      BY <2>1 DEF PinInv
    <3>3. QED BY <2>1, <2>2, <2>3, <3>1, <3>2
  <2>4. CASE i # 1
    <3>1. i - 1 \in 1 .. MIDPOINT /\ (i - 1) + 2 <= stable
      BY <1>3, <2>4, PosMax
    <3>2. outs'[i] = outs[i - 1]
      BY <2>4, PosMax DEF BoardTick, PwmTick
    <3>3. outs[i - 1] = IF CountAgo(i - 1) < Distance(Duty(pwm)) THEN 1 ELSE 0
      BY <3>1 DEF PinInv
    <3>4. QED BY <2>1, <2>2, <2>4, <3>2, <3>3
  <2>5. QED BY <2>3, <2>4
<1>8. QED
  BY <1>2, <1>3, <1>5, <1>6, <1>7 DEF PinInv

LEMMA PinReset ==
    ASSUME BoardReset
    PROVE  PinInv'
<1>1. counter' = 0 /\ stable' = 0
  BY DEF BoardReset, PwmReset
<1>2. \A i \in 1 .. MIDPOINT : ~(i + 2 <= stable')
  BY <1>1, PosMax
<1>3. QED
  BY <1>1, <1>2, PosMax DEF PinInv

LEMMA PinMaster ==
    ASSUME PinInv, UNCHANGED <<pwm, pwmVars>>
    PROVE  PinInv'
  BY DEF pwmVars, PinInv, CountAgo

\* In a period the count passes through every value below MIDPOINT once, so
\* that it is below the distance of the command that many times.
LEMMA HighsOfPeriod ==
    ASSUME NEW d \in 0 .. MIDPOINT, counter \in 0 .. MIDPOINT - 1
    PROVE  Cardinality({i \in 1 .. MIDPOINT : CountAgo(i) < d}) = d
<1> DEFINE S == {i \in 1 .. MIDPOINT : CountAgo(i) < d}
           f == [c \in 0 .. d - 1 |->
                   IF c < counter THEN counter - c ELSE counter - c + MIDPOINT]
<1>1. \A c \in 0 .. d - 1 : f[c] \in 1 .. MIDPOINT /\ CountAgo(f[c]) = c
  BY PosMax DEF CountAgo
<1>2. \A i \in S : CountAgo(i) \in 0 .. d - 1 /\ f[CountAgo(i)] = i
  BY PosMax DEF CountAgo
<1>3. f \in [0 .. d - 1 -> S]
  BY <1>1
<1>4. \A a, b \in 0 .. d - 1 : f[a] = f[b] => a = b
  BY <1>1
<1>5. \A i \in S : \E c \in 0 .. d - 1 : f[c] = i
  BY <1>2
<1> HIDE DEF f, S
<1>6. f \in Bijection(0 .. d - 1, S)
  BY <1>3, <1>4, <1>5, Fun_IsBij
<1>7. ExistsBijection(0 .. d - 1, S)
  BY <1>6, Fun_ExistsBij
<1>8. IsFiniteSet(0 .. d - 1) /\ Cardinality(0 .. d - 1) = d
  BY FS_Interval, PosMax
<1>9. Cardinality(S) = d
  BY <1>7, <1>8, FS_Bijection
<1>10. QED
  BY <1>9 DEF S

\* A command that stays is on the pin with its exact duty, at every phase of
\* the period (SetPoint, Direction, PwmTick).
THEOREM DutyAlwaysExact == IcoSpec => []DutyExact
<1>1. SpiInv /\ PinInv /\ [IcoNext]_icoVars => PinInv'
  <2> SUFFICES ASSUME SpiInv, PinInv, [IcoNext]_icoVars
               PROVE  PinInv'
    OBVIOUS
  <2>1. CASE Master /\ UNCHANGED pwmVars
    <3>1. UNCHANGED pwm
      BY <2>1 DEF Master, Begin, Rise, Fall, End, slaveVars
    <3>2. QED BY <2>1, <3>1, PinMaster
  <2>2. CASE UNCHANGED icoVars
    BY <2>2, PinMaster DEF icoVars, vars
  <2>3. QED BY <2>1, <2>2, PinTick, PinReset DEF IcoNext
<1>2. SpiInv /\ PinInv => DutyExact
  <2> SUFFICES ASSUME SpiInv, PinInv, stable = MIDPOINT + 2
               PROVE  /\ Cardinality({i \in 1 .. MIDPOINT : outs[i] = 1})
                           = Distance(Duty(pwm))
                      /\ dir[1] = 1 <=> Duty(pwm) > MIDPOINT
                      /\ dir[2] = 1 <=> Duty(pwm) < MIDPOINT
    BY DutyType, PosMax DEF DutyExact, Distance, SpiInv, SpiTypeOK
  <2>1. Distance(Duty(pwm)) \in 0 .. MIDPOINT
    BY DutyType DEF SpiInv, SpiTypeOK
  <2>2. \A i \in 1 .. MIDPOINT : outs[i] = 1 <=> CountAgo(i) < Distance(Duty(pwm))
    BY PosMax DEF PinInv
  <2>3. {i \in 1 .. MIDPOINT : outs[i] = 1}
          = {i \in 1 .. MIDPOINT : CountAgo(i) < Distance(Duty(pwm))}
    BY <2>2
  <2>4. Cardinality({i \in 1 .. MIDPOINT : outs[i] = 1}) = Distance(Duty(pwm))
    BY <2>1, <2>3, HighsOfPeriod DEF PinInv
  <2>5. dir = Side(Duty(pwm))
    BY PosMax DEF PinInv
  <2>6. QED BY <2>4, <2>5 DEF Side
<1>3. QED
  BY <1>1, <1>2, PinStarts, SpiInvariant, PTL DEF IcoSpec
=============================================================================
