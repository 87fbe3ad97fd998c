-------------------------- MODULE DebugStreamProofs --------------------------
(***************************************************************************)
(* Proofs about the debug video stream: what the client shows is one mask  *)
(* that was sent, and without faults its table is empty between two        *)
(* frames.  For any size of a mask and of a chunk, any number of frames    *)
(* and any number of datagrams lost or duplicated.                         *)
(***************************************************************************)
EXTENDS DebugStream, SequenceTheorems, FiniteSetTheorems,
        WellFoundedInduction, TLAPS

-----------------------------------------------------------------------------
(* The chunks of a mask and their join.                                    *)

\* The chunks reach the end of the mask, and the last one is needed for it.
LEMMA Ceiling ==
    /\ total_chunks \in Nat \ {0}
    /\ FrameSize <= total_chunks * CHUNK_DATA_SIZE
    /\ (total_chunks - 1) * CHUNK_DATA_SIZE < FrameSize
<1> DEFINE a == FrameSize + CHUNK_DATA_SIZE - 1
           q == a \div CHUNK_DATA_SIZE
           r == a % CHUNK_DATA_SIZE
<1>1. FrameSize \in Nat \ {0} /\ CHUNK_DATA_SIZE \in Nat \ {0}
  BY StreamAssumption
<1>2. /\ a = CHUNK_DATA_SIZE * q + r
      /\ q \in Int /\ r \in 0 .. CHUNK_DATA_SIZE - 1
  BY <1>1
<1>3. total_chunks = q
  BY DEF total_chunks
<1> HIDE DEF q, r
<1>4. q > 0
  <2>1. q <= 0 => CHUNK_DATA_SIZE * q <= 0
    BY <1>1, <1>2
  <2>2. QED BY <1>1, <1>2, <2>1
<1>5. (q - 1) * CHUNK_DATA_SIZE = CHUNK_DATA_SIZE * q - CHUNK_DATA_SIZE
  BY <1>1, <1>2
<1>6. q * CHUNK_DATA_SIZE = CHUNK_DATA_SIZE * q
  BY <1>1, <1>2
<1>7. QED
  BY <1>1, <1>2, <1>3, <1>4, <1>5, <1>6

\* Where a chunk ends in its mask: where the next one begins, or at the end.
End(c) == c * CHUNK_DATA_SIZE + chunk_size(c)

LEMMA ChunkEnds ==
    ASSUME NEW c \in Chunks
    PROVE  /\ c * CHUNK_DATA_SIZE \in Nat
           /\ End(c) \in c * CHUNK_DATA_SIZE + 1 .. FrameSize
           /\ c + 1 \in Chunks => End(c) = (c + 1) * CHUNK_DATA_SIZE
           /\ c = total_chunks - 1 => End(c) = FrameSize
<1>1. FrameSize \in Nat \ {0} /\ CHUNK_DATA_SIZE \in Nat \ {0}
  BY StreamAssumption
<1>2. c \in Nat /\ c <= total_chunks - 1 /\ total_chunks \in Nat
  BY Ceiling DEF Chunks
<1>3. \A m, n \in Nat : m <= n => m * CHUNK_DATA_SIZE <= n * CHUNK_DATA_SIZE
  BY <1>1
<1>4. c * CHUNK_DATA_SIZE \in Nat /\ c * CHUNK_DATA_SIZE < FrameSize
  BY <1>1, <1>2, <1>3, Ceiling
<1>5. (c + 1) * CHUNK_DATA_SIZE = c * CHUNK_DATA_SIZE + CHUNK_DATA_SIZE
  BY <1>1, <1>2
<1>6. End(c) = IF c * CHUNK_DATA_SIZE + CHUNK_DATA_SIZE > FrameSize
               THEN FrameSize ELSE c * CHUNK_DATA_SIZE + CHUNK_DATA_SIZE
  BY <1>1, <1>4 DEF End, chunk_size
<1>7. c + 1 \in Chunks => (c + 1) * CHUNK_DATA_SIZE < FrameSize
  <2>1. c + 1 \in Chunks => c + 1 <= total_chunks - 1
    BY <1>2 DEF Chunks
  <2>2. QED
    BY <1>1, <1>2, <1>3, <2>1, Ceiling
<1>8. c = total_chunks - 1 => FrameSize <= c * CHUNK_DATA_SIZE + CHUNK_DATA_SIZE
  BY <1>5, Ceiling
<1>9. QED
  BY <1>1, <1>4, <1>5, <1>6, <1>7, <1>8

\* A mask is a sequence, and each chunk a part of it.
LEMMA MaskBytes ==
    ASSUME NEW i
    PROVE  /\ Bytes(i) \in Seq({<<i, j>> : j \in 1 .. FrameSize})
           /\ Len(Bytes(i)) = FrameSize
<1>1. FrameSize \in Nat
  BY StreamAssumption
<1>2. Bytes(i) \in [1 .. FrameSize -> {<<i, j>> : j \in 1 .. FrameSize}]
  BY DEF Bytes
<1>3. QED
  BY <1>1, <1>2

\* Every set of natural numbers that is not empty has a least one.
LEMMA LeastNat ==
    ASSUME NEW T, T \subseteq Nat, T # {}
    PROVE  \E x \in T : \A y \in T : x <= y
<1>1. PICK x \in T : \A y \in T : ~(<<y, x>> \in OpToRel(<, Nat))
  BY NatLessThanWellFounded, WFMin, Zenon
<1>2. \A y \in T : ~(y < x)
  BY <1>1 DEF OpToRel
<1>3. QED
  BY <1>2

\* assemble_frame: the chunks of one mask, joined in their order, are the mask.
LEMMA JoinOfPayloads ==
    ASSUME NEW i, NEW f, \A c \in Chunks : f[c] = Payload(i, c)
    PROVE  Join(f, total_chunks) = Bytes(i)
<1> DEFINE N == total_chunks
           B == Bytes(i)
           S == [k \in 1 .. N |-> f[k - 1]]
           G(g) == g = [k \in 1 .. N |-> IF k = 1 THEN S[k] ELSE g[k - 1] \o S[k]]
           p == [k \in 1 .. N |-> SubSeq(B, 1, End(k - 1))]
           h == CHOOSE g : G(g)
<1>1. N \in Nat /\ N # 0 /\ Len(S) = N
  BY Ceiling
<1>2. /\ B \in Seq({<<i, j>> : j \in 1 .. FrameSize}) /\ Len(B) = FrameSize
  BY MaskBytes
<1>3. ASSUME NEW k \in 1 .. N
      PROVE  /\ k - 1 \in Chunks
             /\ S[k] = SubSeq(B, (k - 1) * CHUNK_DATA_SIZE + 1, End(k - 1))
  <2>1. k - 1 \in Chunks
    BY <1>1, <1>3 DEF Chunks
  <2>2. S[k] = Payload(i, k - 1)
    BY <2>1
  <2>3. QED
    BY <2>1, <2>2 DEF Payload, End
<1> HIDE DEF N, B, S
<1>4. G(p)
  <2>1. ASSUME NEW k \in 1 .. N
        PROVE  p[k] = IF k = 1 THEN S[k] ELSE p[k - 1] \o S[k]
    <3>1. CASE k = 1
      <4>1. S[1] = SubSeq(B, 0 * CHUNK_DATA_SIZE + 1, End(0))
        BY <1>3, <3>1
      <4>2. 0 * CHUNK_DATA_SIZE + 1 = 1 /\ 1 - 1 = 0
        BY StreamAssumption
      <4>3. p[1] = SubSeq(B, 1, End(0))
        BY <2>1, <3>1, <4>2
      <4> HIDE DEF p
      <4>4. QED
        BY <3>1, <4>1, <4>2, <4>3
    <3>2. CASE k # 1
      <4>1. k - 1 \in 1 .. N /\ k - 2 \in Chunks /\ (k - 2) + 1 \in Chunks
        BY <1>1, <1>3, <3>2 DEF N, Chunks
      <4>2. /\ End(k - 2) = (k - 1) * CHUNK_DATA_SIZE
            /\ End(k - 2) \in 1 .. FrameSize
        <5>1. /\ (k - 2) * CHUNK_DATA_SIZE \in Nat
              /\ End(k - 2) \in (k - 2) * CHUNK_DATA_SIZE + 1 .. FrameSize
              /\ End(k - 2) = ((k - 2) + 1) * CHUNK_DATA_SIZE
          BY <4>1, ChunkEnds
        <5>2. (k - 2) + 1 = k - 1
          BY <2>1
        <5>3. QED
          BY <5>1, <5>2, StreamAssumption
      <4>3. End(k - 1) \in End(k - 2) + 1 .. FrameSize
        BY <1>3, <4>2, ChunkEnds
      <4>4. SubSeq(B, 1, End(k - 2)) \o SubSeq(B, End(k - 2) + 1, End(k - 1))
                = SubSeq(B, 1, End(k - 1))
        <5>1. /\ 1 \in 1 .. Len(B) + 1 /\ End(k - 2) \in 1 - 1 .. Len(B)
              /\ End(k - 1) \in End(k - 2) .. Len(B)
          BY <1>2, <4>2, <4>3, StreamAssumption
        <5>2. QED
          BY <1>2, <5>1, ConcatAdjacentSubSeq, Zenon
      <4>5. p[k - 1] = SubSeq(B, 1, End(k - 2))
        <5>1. (k - 1) - 1 = k - 2
          BY <2>1
        <5>2. QED
          BY <4>1, <5>1
      <4>6. QED
        BY <1>3, <3>2, <4>2, <4>4, <4>5
    <3>3. QED
      BY <3>1, <3>2
  <2>2. p = [k \in 1 .. N |-> p[k]]
    OBVIOUS
  <2> HIDE DEF p
  <2>3. QED
    BY <2>1, <2>2
<1>5. G(h)
  BY <1>4
<1>6. \A k \in 1 .. N : h[k] = p[k]
  <2> SUFFICES ASSUME NEW k \in 1 .. N, h[k] # p[k]
               PROVE  FALSE
    OBVIOUS
  <2> HIDE DEF h, p
  <2> DEFINE T == {n \in 1 .. N : h[n] # p[n]}
  <2>1. PICK n \in T : \A m \in T : n <= m
    <3>1. T \subseteq Nat /\ k \in T
      BY <1>1
    <3>2. QED BY <3>1, LeastNat
  <2>2. /\ h[n] = IF n = 1 THEN S[n] ELSE h[n - 1] \o S[n]
        /\ p[n] = IF n = 1 THEN S[n] ELSE p[n - 1] \o S[n]
    BY <1>4, <1>5, <2>1
  <2>3. n # 1 => h[n - 1] = p[n - 1]
    BY <1>1, <2>1
  <2>4. QED
    BY <2>1, <2>2, <2>3
<1>7. FlattenSeq(S) = h[N]
  BY <1>1 DEF FlattenSeq
<1>8. p[N] = B
  <2>1. N \in 1 .. N /\ N - 1 \in Chunks
    BY <1>1, <1>3
  <2>2. End(N - 1) = FrameSize
    BY <2>1, ChunkEnds DEF N
  <2>3. QED
    BY <1>2, <2>1, <2>2, SubSeqFull
<1> HIDE DEF h, p
<1>9. FlattenSeq(S) = B
  BY <1>1, <1>6, <1>7, <1>8
<1>10. QED
  BY <1>9 DEF Join, S, N, B

-----------------------------------------------------------------------------
(* Chunks that were sent.                                                  *)

\* The counters keep to their bounds, and before the handshake nothing is sent.
LEMMA ServerStep == ServerInv /\ [Next]_vars => ServerInv'
<1> SUFFICES ASSUME ServerInv, [Next]_vars PROVE ServerInv'
  OBVIOUS
<1> total_chunks \in Nat \ {0} /\ MaxFrames \in Nat
  BY Ceiling, StreamAssumption
<1> USE DEF ServerInv, Threads, clientVars
<1>1. ASSUME NEW t \in Threads, udp_server_create(t) PROVE ServerInv'
  BY <1>1 DEF udp_server_create
<1>2. ASSUME NEW t \in Threads, Handshake(t) PROVE ServerInv'
  BY <1>2 DEF Handshake
<1>3. ASSUME NEW t \in Threads, Refuse(t) PROVE ServerInv'
  BY <1>3 DEF Refuse
<1>4. CASE SendChunk
  BY <1>4 DEF SendChunk
<1>5. CASE FrameSent
  BY <1>5 DEF FrameSent
<1>6. CASE udp_server_send
  BY <1>6 DEF udp_server_send
<1>7. CASE udp_client
  BY <1>7 DEF udp_client
<1>8. ASSUME NEW d \in net, Lose(d) PROVE ServerInv'
  BY <1>8 DEF Lose
<1>9. ASSUME NEW d \in net, NEW again \in BOOLEAN, Receive(d, again) PROVE ServerInv'
  <2>1. dup' \in Nat
    BY <1>9 DEF Receive
  <2>2. UNCHANGED <<pc, sockfd, frame_id, chunk_id>>
    BY <1>9 DEF Receive
  <2>3. QED
    BY <2>1, <2>2
<1>10. CASE UNCHANGED vars
  BY <1>10 DEF vars
<1>11. QED
  BY <1>1, <1>2, <1>3, <1>4, <1>5, <1>6, <1>7, <1>8, <1>9, <1>10
  DEF Next, Server, Sending

\* Only SendChunk sends a chunk, and only the next one of the current frame.
SentNow(i, c) == SendChunk /\ sockfd["mask"] /\ i = frame_id /\ c = chunk_id

LEMMA SentStep ==
    ServerInv /\ [Next]_vars
        => \A i, c : Sent(i, c)' <=> (Sent(i, c) \/ SentNow(i, c))
<1> SUFFICES ASSUME ServerInv, [Next]_vars, NEW i, NEW c
             PROVE  Sent(i, c)' <=> (Sent(i, c) \/ SentNow(i, c))
  OBVIOUS
<1> total_chunks \in Nat \ {0} /\ Chunks = 0 .. total_chunks - 1 /\ MaxFrames \in Nat
  BY Ceiling, StreamAssumption DEF Chunks
<1> /\ frame_id \in Nat /\ chunk_id \in 0 .. total_chunks
    /\ sockfd \in [Threads -> BOOLEAN]
  BY DEF ServerInv
<1> USE DEF Sent, clientVars
<1>1. CASE SendChunk
  <2>1. /\ frame_id' = frame_id /\ chunk_id' = chunk_id + 1 /\ sockfd' = sockfd
        /\ chunk_id < total_chunks
    BY <1>1 DEF SendChunk
  <2>2. QED
    BY <1>1, <2>1 DEF SentNow
<1>2. CASE FrameSent
  <2>1. /\ frame_id' = frame_id + 1 /\ chunk_id' = 0 /\ sockfd' = sockfd
        /\ chunk_id = total_chunks
    BY <1>2 DEF FrameSent
  <2>2. ~SendChunk
    BY <2>1 DEF SendChunk
  <2>3. QED
    BY <2>1, <2>2 DEF SentNow
<1>3. CASE UNCHANGED <<frame_id, chunk_id>> /\ sockfd'["mask"] = sockfd["mask"]
  <2>1. ~SendChunk
    BY <1>3 DEF SendChunk
  <2>2. QED
    BY <1>3, <2>1 DEF SentNow
<1>4. CASE /\ UNCHANGED <<frame_id, chunk_id>>
           /\ frame_id = 0 /\ chunk_id = 0
  <2>1. ~SendChunk
    BY <1>4 DEF SendChunk
  <2>2. QED
    BY <1>4, <2>1 DEF SentNow
<1>5. ASSUME NEW t \in Threads, udp_server_create(t)
      PROVE  \/ UNCHANGED <<frame_id, chunk_id>> /\ sockfd'["mask"] = sockfd["mask"]
             \/ UNCHANGED <<frame_id, chunk_id>> /\ frame_id = 0 /\ chunk_id = 0
  BY <1>5 DEF udp_server_create, ServerInv, Threads
<1>6. ASSUME NEW t \in Threads, Handshake(t)
      PROVE  \/ UNCHANGED <<frame_id, chunk_id>> /\ sockfd'["mask"] = sockfd["mask"]
             \/ UNCHANGED <<frame_id, chunk_id>> /\ frame_id = 0 /\ chunk_id = 0
  BY <1>6 DEF Handshake, ServerInv, Threads
<1>7. ASSUME \/ \E t \in Threads : Refuse(t)
             \/ udp_server_send \/ udp_client
             \/ \E d \in net : Lose(d) \/ \E again \in BOOLEAN : Receive(d, again)
             \/ UNCHANGED vars
      PROVE  UNCHANGED <<frame_id, chunk_id, sockfd>>
  BY <1>7 DEF Refuse, udp_server_send, udp_client, Lose, Receive, vars
<1>8. QED
  BY <1>1, <1>2, <1>3, <1>4, <1>5, <1>6, <1>7 DEF Next, Server, Sending

\* A chunk that was sent belongs to one of the MaxFrames frames.
LEMMA SentBounds ==
    ASSUME ServerInv, NEW i, NEW c, Sent(i, c)
    PROVE  i \in 0 .. frame_id /\ i \in 0 .. MaxFrames - 1 /\ c \in Chunks
  BY StreamAssumption, Ceiling DEF ServerInv, Sent, Chunks

\* Datagrams of different chunks differ, and from those of the COM thread.
LEMMA DatagramFields ==
    ASSUME NEW i, NEW c
    PROVE  /\ Datagram(i, c).to = "client" /\ Datagram(i, c).from = "mask"
           /\ Datagram(i, c).frame_id = i /\ Datagram(i, c).chunk_id = c
           /\ Datagram(i, c).total_chunks = total_chunks
           /\ Datagram(i, c).payload = Payload(i, c)
  BY DEF Datagram, Chunk

LEMMA OtherFields ==
    /\ \A t \in Threads : Hello(t).to # "client"
    /\ \A n : ComMsg(n).to = "client" /\ ComMsg(n).from = "com"
  BY DEF Hello, ComMsg, Threads

-----------------------------------------------------------------------------
(* What the client makes of a chunk.                                       *)

\* The chunks that the table holds of a frame.
Held(i) == IF i \in DOMAIN frames THEN DOMAIN frames[i] ELSE {}

\* A chunk that completes its frame shows it and empties its entry; another one
\* is added to its entry.
LEMMA Assembled ==
    ASSUME TableInv, NEW i, NEW c \in Chunks, assemble_frame(Datagram(i, c))
    PROVE  /\ \A j \in DOMAIN frames' \ {i} : frames'[j] = frames[j]
           /\ Held(i) \cup {c} = Chunks
                => /\ DOMAIN frames' = DOMAIN frames \ {i}
                   /\ shown' \subseteq shown \cup {Bytes(i)}
           /\ Held(i) \cup {c} # Chunks
                => /\ DOMAIN frames' = DOMAIN frames \cup {i}
                   /\ DOMAIN frames'[i] = Held(i) \cup {c}
                   /\ \A x \in DOMAIN frames'[i] : frames'[i][x] = Payload(i, x)
                   /\ shown' = shown
<1> DEFINE d == Datagram(i, c)
           f == Filled(d)
<1>1. DOMAIN f = Held(i) \cup {c}
  BY DatagramFields DEF Filled, Held
<1>2. Held(i) \subseteq Chunks
  <2>1. \A j, x : Sent(j, x) => x \in Chunks
    BY DEF Sent
  <2>2. QED
    BY <2>1 DEF Held, TableInv
<1>3. \A x \in DOMAIN f : f[x] = Payload(i, x)
  <2>1. ASSUME NEW x \in Held(i) \cup {c}, x # c
        PROVE  f[x] = Payload(i, x)
    <3>1. i \in DOMAIN frames /\ x \in DOMAIN frames[i]
      BY <2>1 DEF Held
    <3>2. f[x] = frames[i][x]
      BY <2>1, <3>1, DatagramFields DEF Filled
    <3>3. QED
      BY <3>1, <3>2 DEF TableInv
  <2>2. f[c] = Payload(i, c)
    BY DatagramFields DEF Filled
  <2>3. QED
    BY <1>1, <2>1, <2>2
<1>4. Cardinality(DOMAIN f) = total_chunks <=> Held(i) \cup {c} = Chunks
  <2>1. IsFiniteSet(Chunks) /\ Cardinality(Chunks) = total_chunks
    BY FS_Interval, Ceiling DEF Chunks
  <2>2. Held(i) \cup {c} \in SUBSET Chunks
    BY <1>2
  <2>3. Cardinality(Chunks) = Cardinality(Held(i) \cup {c}) => Chunks = Held(i) \cup {c}
    BY <2>1, <2>2, FS_Subset
  <2>4. QED
    BY <1>1, <2>1, <2>3
<1> HIDE DEF f, d
<1>5. /\ d.frame_id = i /\ d.total_chunks = total_chunks
  BY DatagramFields DEF d
<1>6. CASE Held(i) \cup {c} = Chunks
  <2>1. Cardinality(DOMAIN f) = total_chunks
    BY <1>4, <1>6
  <2>2. Join(f, total_chunks) = Bytes(i)
    BY <1>1, <1>3, <1>6, JoinOfPayloads
  <2>3. /\ frames' = [j \in DOMAIN frames \ {i} |-> frames[j]]
        /\ shown' = IF Len(Join(f, total_chunks)) = FrameSize
                    THEN shown \cup {Join(f, total_chunks)} ELSE shown
    BY <1>5, <2>1 DEF assemble_frame, f, d
  <2>4. QED
    BY <1>6, <2>2, <2>3
<1>7. CASE Held(i) \cup {c} # Chunks
  <2>1. Cardinality(DOMAIN f) # total_chunks
    BY <1>4, <1>7
  <2>2. /\ frames' = [j \in DOMAIN frames \cup {i} |-> IF j = i THEN f ELSE frames[j]]
        /\ shown' = shown
    BY <1>5, <2>1 DEF assemble_frame, f, d
  <2>3. QED
    BY <1>1, <1>3, <1>7, <2>2
<1>8. QED
  BY <1>6, <1>7

-----------------------------------------------------------------------------
(* The invariant.                                                          *)

\* A chunk received is one that was sent.
LEMMA ReceivedWasSent ==
    ASSUME NetInv, NEW d \in net, d.to = "client", d.from = "mask"
    PROVE  \E i \in 0 .. frame_id, c \in Chunks : Sent(i, c) /\ d = Datagram(i, c)
  BY DEF NetInv

\* Whatever is under way is one of the datagrams that the program sends.
LEMMA NetStep == ServerInv /\ NetInv /\ [Next]_vars => NetInv'
<1> SUFFICES ASSUME ServerInv, NetInv, [Next]_vars PROVE NetInv'
  OBVIOUS
<1> DEFINE Good(d) == \/ d.to # "client"
                      \/ d.to = "client" /\ d.from = "com"
                      \/ \E i, c : Sent(i, c)' /\ d = Datagram(i, c)
<1>1. \A i, c : Sent(i, c) => Sent(i, c)'
  BY SentStep
<1>2. \A d \in net : Good(d)
  BY <1>1 DEF NetInv
<1>3. \A d \in net' : Good(d)
  <2>1. CASE SendChunk
    <3> PICK i, c : i = frame_id /\ c = chunk_id
      OBVIOUS
    <3>1. \A d \in net' : d \in net \/ (d = Datagram(i, c) /\ sockfd["mask"])
      BY <2>1 DEF SendChunk, SendTo, Datagram
    <3>2. sockfd["mask"] => Sent(i, c)'
      BY <2>1, SentStep DEF SentNow
    <3>3. QED
      BY <1>2, <3>1, <3>2
  <2>2. CASE udp_server_send
    <3>1. \A d \in net' : d \in net \/ d = ComMsg(NextCom)
      BY <2>2 DEF udp_server_send, SendTo
    <3>2. QED
      BY <1>2, <3>1, OtherFields
  <2>3. CASE udp_client
    <3>1. \A d \in net' : d \in net \/ \E t \in Threads : d = Hello(t)
      BY <2>3 DEF udp_client
    <3>2. QED
      BY <1>2, <3>1, OtherFields
  <2>4. CASE net' \subseteq net
    BY <1>2, <2>4
  <2>5. ASSUME \/ \E t \in Threads : Server(t) \/ Refuse(t)
               \/ FrameSent
               \/ \E d \in net : Lose(d) \/ \E again \in BOOLEAN : Receive(d, again)
               \/ UNCHANGED vars
        PROVE  net' \subseteq net
    BY <2>5 DEF Server, udp_server_create, Handshake, Refuse, FrameSent, Lose,
                Receive, vars
  <2>6. QED
    BY <2>1, <2>2, <2>3, <2>4, <2>5 DEF Next, Sending
<1>4. ServerInv'
  BY ServerStep
<1>5. \A i, c : Sent(i, c)' => i \in 0 .. frame_id' /\ c \in Chunks
  BY DEF Sent
<1>6. \A i, c : Datagram(i, c)' = Datagram(i, c)
  BY DEF Datagram, Chunk, Payload, Bytes, chunk_size, total_chunks
<1>7. Chunks' = Chunks
  BY DEF Chunks, total_chunks
<1>8. QED
  BY <1>3, <1>5, <1>6, <1>7 DEF NetInv

\* A step that receives no chunk leaves the client's table as it is.
LEMMA TableChange ==
    ASSUME NetInv, [Next]_vars
    PROVE  \/ UNCHANGED <<frames, shown>>
           \/ \E i \in 0 .. frame_id, c \in Chunks, again \in BOOLEAN :
                /\ Sent(i, c) /\ Datagram(i, c) \in net
                /\ Receive(Datagram(i, c), again)
                /\ assemble_frame(Datagram(i, c))
<1>1. ASSUME NEW d \in net, NEW again \in BOOLEAN, Receive(d, again)
      PROVE  \/ UNCHANGED <<frames, shown>>
             \/ d.from = "mask" /\ d.to = "client" /\ assemble_frame(d)
  BY <1>1 DEF Receive
<1>2. ASSUME NEW d \in net, NEW again \in BOOLEAN, Receive(d, again),
             d.from = "mask", d.to = "client", assemble_frame(d)
      PROVE  \E i \in 0 .. frame_id, c \in Chunks :
                /\ Sent(i, c) /\ Datagram(i, c) \in net
                /\ Receive(Datagram(i, c), again)
                /\ assemble_frame(Datagram(i, c))
  BY <1>2, ReceivedWasSent
<1>3. ASSUME \/ \E t \in Threads : Server(t) \/ Refuse(t)
             \/ Sending \/ udp_client
             \/ \E d \in net : Lose(d)
             \/ UNCHANGED vars
      PROVE  UNCHANGED <<frames, shown>>
  BY <1>3 DEF Server, udp_server_create, Handshake, Refuse, Sending, SendChunk,
              FrameSent, udp_server_send, udp_client, Lose, vars, clientVars
<1>4. QED
  BY <1>1, <1>2, <1>3 DEF Next

\* The table holds chunks that were sent, each with its data.
LEMMA TableStep == ServerInv /\ NetInv /\ TableInv /\ [Next]_vars => TableInv'
<1> SUFFICES ASSUME ServerInv, NetInv, TableInv, [Next]_vars PROVE TableInv'
  OBVIOUS
<1>1. \A i, c : Sent(i, c) => Sent(i, c)'
  BY SentStep
<1>2. \A i, c : Payload(i, c)' = Payload(i, c)
  BY DEF Payload, Bytes, chunk_size
<1> DEFINE Good(i) == /\ DOMAIN frames'[i] # {}
                      /\ \A c \in DOMAIN frames'[i] :
                            Sent(i, c)' /\ frames'[i][c] = Payload(i, c)
<1>3. SUFFICES \A i \in DOMAIN frames' : Good(i)
  BY <1>2 DEF TableInv
<1>4. CASE UNCHANGED <<frames, shown>>
  BY <1>1, <1>4 DEF TableInv
<1>5. ASSUME NEW i, NEW c \in Chunks, Sent(i, c), assemble_frame(Datagram(i, c))
      PROVE  \A j \in DOMAIN frames' : Good(j)
  <2>1. ASSUME NEW j \in DOMAIN frames', j # i
        PROVE  Good(j)
    <3>1. frames'[j] = frames[j] /\ j \in DOMAIN frames
      <4>1. j \in DOMAIN frames' \ {i}
        BY <2>1
      <4>2. frames'[j] = frames[j]
        BY <1>5, <4>1, Assembled
      <4>3. DOMAIN frames' \subseteq DOMAIN frames \cup {i}
        BY <1>5, Assembled
      <4>4. QED
        BY <4>1, <4>2, <4>3
    <3>2. QED
      BY <1>1, <3>1 DEF TableInv
  <2>2. ASSUME i \in DOMAIN frames'
        PROVE  Good(i)
    <3>1. /\ DOMAIN frames'[i] = Held(i) \cup {c}
          /\ \A x \in DOMAIN frames'[i] : frames'[i][x] = Payload(i, x)
      BY <1>5, <2>2, Assembled
    <3>2. \A x \in Held(i) : Sent(i, x)
      BY DEF Held, TableInv
    <3>3. QED
      BY <1>1, <1>5, <3>1, <3>2
  <2>3. QED
    BY <2>1, <2>2
<1>6. QED
  BY <1>4, <1>5, TableChange

\* A frame is shown when all its chunks are there.
LEMMA ShownStep ==
    ServerInv /\ NetInv /\ TableInv /\ ShownIsSent /\ [Next]_vars => ShownIsSent'
<1> SUFFICES ASSUME ServerInv, NetInv, TableInv, ShownIsSent, [Next]_vars
             PROVE  shown' \subseteq {Bytes(i) : i \in 0 .. MaxFrames - 1}
  BY DEF ShownIsSent, Bytes
<1>1. CASE UNCHANGED <<frames, shown>>
  BY <1>1 DEF ShownIsSent
<1>2. ASSUME NEW i, NEW c \in Chunks, Sent(i, c), assemble_frame(Datagram(i, c))
      PROVE  shown' \subseteq {Bytes(j) : j \in 0 .. MaxFrames - 1}
  <2>1. i \in 0 .. MaxFrames - 1
    BY <1>2, SentBounds
  <2>2. shown' \subseteq shown \cup {Bytes(i)}
    BY <1>2, Assembled
  <2>3. QED
    BY <2>1, <2>2 DEF ShownIsSent
<1>3. QED
  BY <1>1, <1>2, TableChange

\* Nothing is under way or in the table of a frame that has not begun.
LEMMA WholeOfAll ==
    ASSUME ServerInv, NetInv, TableInv, FaultlessInv, lost = {}, dup = 0, NEW i
    PROVE  Whole(i)
<1>1. CASE i \in 0 .. frame_id
  BY <1>1 DEF FaultlessInv
<1>2. CASE i \notin 0 .. frame_id
  <2>1. \A c : ~Sent(i, c)
    BY <1>2 DEF Sent
  <2>2. SentOf(i) = {}
    BY <2>1 DEF SentOf
  <2>3. \A c : Datagram(i, c) \notin net
    <3> SUFFICES ASSUME NEW c, Datagram(i, c) \in net PROVE FALSE
      OBVIOUS
    <3>1. PICK j \in 0 .. frame_id, x \in Chunks : Datagram(i, c) = Datagram(j, x)
      BY DatagramFields, ReceivedWasSent
    <3>2. Datagram(i, c).frame_id = i /\ Datagram(j, x).frame_id = j
      BY DatagramFields
    <3>3. QED
      BY <1>2, <3>1, <3>2
  <2>4. UnderWay(i) = {}
    BY <2>3 DEF UnderWay
  <2>5. i \notin DOMAIN frames
    BY <2>1 DEF TableInv
  <2>6. QED
    BY <2>2, <2>4, <2>5 DEF Whole
<1>3. QED
  BY <1>1, <1>2

\* Without faults a chunk is in one place from when it is sent until its frame
\* is over.
LEMMA FaultlessStep ==
    ServerInv /\ NetInv /\ TableInv /\ FaultlessInv /\ [Next]_vars => FaultlessInv'
<1> SUFFICES ASSUME ServerInv, NetInv, TableInv, FaultlessInv, [Next]_vars,
                    lost' = {}, dup' = 0, NEW i \in 0 .. frame_id'
             PROVE  Whole(i)'
  BY DEF FaultlessInv
<1>1. /\ lost = {} /\ dup = 0
      /\ \A d : ~Lose(d) /\ ~Receive(d, TRUE)
  <2>1. dup \in Nat
    BY DEF ServerInv
  <2>2. \A d : ~Lose(d) /\ ~Receive(d, TRUE)
    BY <2>1 DEF Lose, Receive
  <2>3. lost' = lost /\ dup' = dup
    <3>1. ASSUME \/ \E t \in Threads : Server(t) \/ Refuse(t)
                 \/ Sending \/ udp_client
                 \/ \E d \in net : Receive(d, FALSE)
                 \/ UNCHANGED vars
          PROVE  lost' = lost /\ dup' = dup
      BY <3>1 DEF Server, udp_server_create, Handshake, Refuse, Sending, SendChunk,
                  FrameSent, udp_server_send, udp_client, Receive, vars
    <3>2. \A b \in BOOLEAN : b = TRUE \/ b = FALSE
      OBVIOUS
    <3>3. QED
      BY <2>2, <3>1, <3>2 DEF Next
  <2>4. QED
    BY <2>2, <2>3
<1>2. Whole(i)
  BY <1>1, WholeOfAll
<1>3. /\ Chunks' = Chunks
      /\ \A c : Datagram(i, c)' = Datagram(i, c)
  BY DEF Chunks, Datagram, Chunk, Payload, Bytes, chunk_size, total_chunks
<1>4. /\ SentOf(i)' = {c \in Chunks : Sent(i, c) \/ SentNow(i, c)}
      /\ UnderWay(i)' = {c \in Chunks : Datagram(i, c) \in net'}
  <2>1. \A c : Sent(i, c)' <=> (Sent(i, c) \/ SentNow(i, c))
    BY SentStep
  <2>2. SentOf(i)' = {c \in Chunks : Sent(i, c)'}
    BY <1>3 DEF SentOf
  <2>3. UnderWay(i)' = {c \in Chunks : Datagram(i, c) \in net'}
    BY <1>3 DEF UnderWay
  <2>4. QED
    BY <2>1, <2>2, <2>3
<1>5. Whole(i)' = IF i \in DOMAIN frames'
                  THEN UnderWay(i)' = SentOf(i)' \ DOMAIN frames'[i] /\ DOMAIN frames'[i] # Chunks
                  ELSE UnderWay(i)' = SentOf(i)' \/ (SentOf(i)' = Chunks /\ UnderWay(i)' = {})
  BY <1>3 DEF Whole
<1>6. CASE /\ UNCHANGED frames
           /\ \A c : SentNow(i, c) = FALSE
           /\ \A c : Datagram(i, c) \in net' <=> Datagram(i, c) \in net
  <2>1. SentOf(i)' = SentOf(i) /\ UnderWay(i)' = UnderWay(i)
    BY <1>4, <1>6 DEF SentOf, UnderWay
  <2>2. QED
    BY <1>2, <1>5, <1>6, <2>1 DEF Whole
<1>7. CASE SendChunk /\ sockfd["mask"] /\ i = frame_id
  <2> PICK k : k = chunk_id
    OBVIOUS
  <2>1. /\ k \in Chunks /\ ~Sent(i, k)
        /\ frames' = frames
        /\ net' = net \cup {Datagram(i, k)}
    BY <1>7, Ceiling DEF SendChunk, SendTo, Datagram, clientVars, Chunks, Sent, ServerInv
  <2>2. \A c : SentNow(i, c) <=> c = k
    BY <1>7 DEF SentNow
  <2>3. \A c : Datagram(i, c) = Datagram(i, k) => c = k
    BY DatagramFields
  <2>4. /\ SentOf(i)' = SentOf(i) \cup {k} /\ k \notin SentOf(i)
        /\ UnderWay(i)' = UnderWay(i) \cup {k}
    BY <1>4, <2>1, <2>2, <2>3 DEF SentOf, UnderWay
  <2>5. i \in DOMAIN frames => k \notin DOMAIN frames[i]
    BY <2>1 DEF TableInv
  <2>6. SentOf(i) # Chunks
    BY <2>1, <2>4
  <2>7. QED
    BY <1>2, <1>5, <2>1, <2>4, <2>5, <2>6 DEF Whole
<1>8. ASSUME NEW j \in 0 .. frame_id, NEW k \in Chunks,
             Sent(j, k), Datagram(j, k) \in net,
             Receive(Datagram(j, k), FALSE), assemble_frame(Datagram(j, k))
      PROVE  Whole(i)'
  <2>1. net' = net \ {Datagram(j, k)} /\ UNCHANGED <<frame_id, chunk_id>>
    BY <1>8 DEF Receive
  <2>2. \A c : ~SentNow(i, c)
    BY <2>1 DEF SentNow, SendChunk, ServerInv
  <2>3. SentOf(i)' = SentOf(i)
    BY <1>4, <2>2 DEF SentOf
  <2>a. /\ \A x \in DOMAIN frames' \ {j} : frames'[x] = frames[x]
        /\ Held(j) \cup {k} = Chunks => DOMAIN frames' = DOMAIN frames \ {j}
        /\ Held(j) \cup {k} # Chunks => /\ DOMAIN frames' = DOMAIN frames \cup {j}
                                       /\ DOMAIN frames'[j] = Held(j) \cup {k}
    <3>1. TableInv /\ k \in Chunks /\ assemble_frame(Datagram(j, k))
      BY <1>8
    <3>2. QED
      BY ONLY <3>1, Assembled
  <2>4. CASE i # j
    <3>1. \A c : Datagram(i, c) # Datagram(j, k)
      BY <2>4, DatagramFields
    <3>2. UnderWay(i)' = UnderWay(i)
      BY <1>4, <2>1, <3>1 DEF UnderWay
    <3>3. /\ i \in DOMAIN frames' <=> i \in DOMAIN frames
          /\ i \in DOMAIN frames' => frames'[i] = frames[i]
      <4>1. DOMAIN frames' = DOMAIN frames \ {j} \/ DOMAIN frames' = DOMAIN frames \cup {j}
        BY <2>a
      <4>2. QED
        BY <2>4, <2>a, <4>1
    <3>4. QED
      BY <1>2, <1>5, <2>3, <3>2, <3>3 DEF Whole
  <2>5. CASE i = j
    <3>1. \A c : Datagram(i, c) = Datagram(i, k) => c = k
      BY DatagramFields
    <3>2. UnderWay(i)' = UnderWay(i) \ {k} /\ k \in UnderWay(i) /\ k \in SentOf(i)
      BY <1>4, <1>8, <2>1, <2>5, <3>1 DEF UnderWay, SentOf
    <3>3. UnderWay(i) = SentOf(i) \ Held(i) /\ Held(i) \subseteq SentOf(i)
      BY <1>2, <3>2, SentBounds DEF Whole, Held, SentOf, TableInv
    <3>4. CASE Held(i) \cup {k} = Chunks
      <4>1. i \notin DOMAIN frames'
        BY ONLY <2>a, <2>5, <3>4
      <4>2. SentOf(i) = Chunks /\ UnderWay(i)' = {}
        BY <3>2, <3>3, <3>4 DEF SentOf
      <4>3. QED
        BY <1>5, <2>3, <4>1, <4>2
    <3>5. CASE Held(i) \cup {k} # Chunks
      <4>1. i \in DOMAIN frames' /\ DOMAIN frames'[i] = Held(i) \cup {k}
        BY ONLY <2>a, <2>5, <3>5
      <4>2. QED
        BY <1>5, <2>3, <3>2, <3>3, <3>5, <4>1
    <3>6. QED
      BY <3>4, <3>5
  <2>6. QED
    BY <2>4, <2>5
<1>9. CASE SendChunk /\ ~(sockfd["mask"] /\ i = frame_id)
  <2>1. frames' = frames /\ net' \subseteq net \cup {Datagram(frame_id, chunk_id)}
        /\ net \subseteq net' /\ (~sockfd["mask"] => net' = net)
    BY <1>9 DEF SendChunk, SendTo, Datagram, clientVars
  <2>2. \A c : i # frame_id => Datagram(i, c) # Datagram(frame_id, chunk_id)
    BY DatagramFields
  <2>3. \A c : SentNow(i, c) = FALSE
    BY <1>9 DEF SentNow
  <2>4. QED
    BY <1>6, <1>9, <2>1, <2>2, <2>3
<1>10. ASSUME ~SendChunk,
              \/ \E t \in Threads : Server(t) \/ Refuse(t)
              \/ FrameSent \/ udp_server_send \/ udp_client
              \/ UNCHANGED vars
       PROVE  Whole(i)'
  <2>1. UNCHANGED frames
    BY <1>10 DEF Server, udp_server_create, Handshake, Refuse, FrameSent,
                 udp_server_send, udp_client, vars, clientVars
  <2>2. ASSUME NEW c
        PROVE  Datagram(i, c) \in net' <=> Datagram(i, c) \in net
    <3> PICK d : d = Datagram(i, c)
      OBVIOUS
    <3>1. d.to = "client" /\ d.from = "mask"
      BY DatagramFields
    <3>2. /\ \A t \in Threads : d # Hello(t)
          /\ \A n : d # ComMsg(n)
      BY <3>1, OtherFields
    <3>3. ASSUME NEW t \in Threads, udp_server_create(t) PROVE d \in net' <=> d \in net
      BY <3>3 DEF udp_server_create
    <3>4. ASSUME NEW t \in Threads, Handshake(t) \/ Refuse(t) PROVE d \in net' <=> d \in net
      BY <3>2, <3>4 DEF Handshake, Refuse
    <3>5. CASE FrameSent
      BY <3>5 DEF FrameSent
    <3>6. CASE udp_server_send
      <4>1. net' = net \/ net' = net \cup {ComMsg(NextCom)}
        BY <3>6 DEF udp_server_send, SendTo
      <4>2. d # ComMsg(NextCom)
        BY <3>2
      <4>3. QED
        BY <4>1, <4>2
    <3>7. CASE udp_client
      <4>1. net' = net \cup {Hello(t) : t \in Threads}
        BY <3>7 DEF udp_client
      <4>2. QED
        BY <3>2, <4>1
    <3>8. CASE UNCHANGED vars
      BY <3>8 DEF vars
    <3>9. d \in net' <=> d \in net
      <4>1. (\E t \in Threads : Server(t) \/ Refuse(t)) => (d \in net' <=> d \in net)
        BY <3>3, <3>4 DEF Server
      <4>2. QED
        BY <1>10, <3>5, <3>6, <3>7, <3>8, <4>1
    <3>10. QED
      BY <3>9
  <2>3. \A c : SentNow(i, c) = FALSE
    BY <1>10 DEF SentNow
  <2>4. QED
    BY <1>6, <2>1, <2>2, <2>3
<1>11. ASSUME NEW d \in net, Receive(d, FALSE)
       PROVE  Whole(i)'
  <2>1. /\ d.to = "client" /\ net' = net \ {d} /\ UNCHANGED <<frame_id, chunk_id>>
        /\ d.from = "mask" => assemble_frame(d)
        /\ d.from # "mask" => UNCHANGED frames
    BY <1>11 DEF Receive
  <2>2. CASE d.from = "mask"
    <3>1. PICK j \in 0 .. frame_id, k \in Chunks : Sent(j, k) /\ d = Datagram(j, k)
      BY <2>1, <2>2, ReceivedWasSent
    <3>2. QED
      BY <1>8, <1>11, <2>1, <2>2, <3>1
  <2>3. CASE d.from # "mask"
    <3>1. \A c : Datagram(i, c) # d
      BY <2>3, DatagramFields
    <3>2. \A c : Datagram(i, c) \in net' <=> Datagram(i, c) \in net
      BY <2>1, <3>1
    <3>3. \A c : SentNow(i, c) = FALSE
      BY <2>1 DEF SentNow, SendChunk, ServerInv
    <3>4. QED
      BY <1>6, <2>1, <2>3, <3>2, <3>3
  <2>4. QED
    BY <2>2, <2>3
<1>12. \/ \E d \in net : Receive(d, FALSE)
       \/ SendChunk
       \/ \E t \in Threads : Server(t) \/ Refuse(t)
       \/ FrameSent \/ udp_server_send \/ udp_client
       \/ UNCHANGED vars
  <2>1. \A again \in BOOLEAN : again = TRUE \/ again = FALSE
    OBVIOUS
  <2>2. QED
    BY <1>1, <2>1 DEF Next, Sending
<1>13. QED
  BY <1>7, <1>9, <1>10, <1>11, <1>12

\* The stream starts in StreamInv.
LEMMA StreamInit == Init => StreamInv
<1> SUFFICES ASSUME Init PROVE StreamInv
  OBVIOUS
<1>1. ServerInv
  BY StreamAssumption, Ceiling DEF Init, ServerInv, Threads
<1>2. NetInv /\ TableInv /\ ShownIsSent
  BY DEF Init, NetInv, TableInv, ShownIsSent
<1>3. \A i : SentOf(i) = {} /\ UnderWay(i) = {} /\ i \notin DOMAIN frames
  BY DEF Init, SentOf, Sent, UnderWay, Threads
<1>4. FaultlessInv
  BY <1>3 DEF FaultlessInv, Whole
<1>5. QED
  BY <1>1, <1>2, <1>4 DEF StreamInv

\* StreamInv holds of every state of the stream.
THEOREM StreamInvariant == Spec => []StreamInv
<1>1. StreamInv /\ [Next]_vars => StreamInv'
  BY ServerStep, NetStep, TableStep, ShownStep, FaultlessStep DEF StreamInv
<1>2. QED
  BY <1>1, StreamInit, PTL DEF Spec

\* assemble_frame (debug_video_master.py:20-51) never puts chunks of two frames
\* together: what it shows is one of the masks that were sent.
THEOREM OnlySentShown == Spec => []ShownIsSent
<1>1. StreamInv => ShownIsSent
  BY DEF StreamInv
<1>2. QED
  BY <1>1, StreamInvariant, PTL

\* The client's table (debug_video_master.py:36-48) is empty between two frames
\* unless a datagram was lost or came twice.
THEOREM TableEmptyUnlessFault == Spec => []TableOnlyByFault
<1>1. StreamInv => TableOnlyByFault
  <2> SUFFICES ASSUME StreamInv, lost = {}, dup = 0, chunk_id = 0,
                      \A d \in net : d.to # "client" \/ d.from = "com",
                      NEW i \in DOMAIN frames
               PROVE  FALSE
    BY DEF TableOnlyByFault
  <2> ServerInv /\ NetInv /\ TableInv /\ FaultlessInv
    BY DEF StreamInv
  <2>1. Whole(i)
    BY WholeOfAll
  <2>2. UnderWay(i) = {}
    BY DatagramFields DEF UnderWay
  <2>3. PICK c \in DOMAIN frames[i] : Sent(i, c)
    BY DEF TableInv
  <2>4. i \in 0 .. frame_id /\ i # frame_id /\ sockfd["mask"]
    BY <2>3 DEF Sent, Chunks
  <2>5. SentOf(i) = Chunks
    BY <2>4 DEF SentOf, Sent
  <2>6. DOMAIN frames[i] \subseteq Chunks
    BY DEF TableInv, Sent
  <2>7. QED
    BY <2>1, <2>2, <2>5, <2>6 DEF Whole
<1>2. QED
  BY <1>1, StreamInvariant, PTL
=============================================================================
