---------------------------- MODULE DebugStream ----------------------------
(***************************************************************************)
(* The debug video stream (udp_server.c with DEBUG_VIDEO, and its client   *)
(* debug_video_master.py).  Each image thread opens a port and waits for a *)
(* first datagram of the client; then the mask thread sends every mask in  *)
(* numbered chunks and the COM thread every center of mass, and the client *)
(* puts the frames together again.  The network loses, duplicates and      *)
(* reorders datagrams.                                                     *)
(*                                                                         *)
(* Byte number j of frame i is <<i, j>>: a frame shown can be told from    *)
(* every mixture of frames.  GreenMaskQueue has the hand-over of masks     *)
(* between the two threads; here it is a count.                            *)
(***************************************************************************)
EXTENDS Integers, FiniteSets, SequencesExt

CONSTANTS FrameSize,         \* bytes of a mask (640 * 480)
          CHUNK_DATA_SIZE,   \* bytes of data in a datagram (1392)
          MaxFrames,         \* bound: frames sent
          MaxFaults          \* bound: datagrams lost, and duplicated

ASSUME StreamAssumption ==
    /\ FrameSize \in Nat \ {0} /\ CHUNK_DATA_SIZE \in Nat \ {0}
    /\ MaxFrames \in Nat /\ MaxFaults \in Nat

Threads == {"mask", "com"}   \* GREEN_MASK_DEBUG_PORT and COM_THREAD_DEBUG_PORT

VARIABLES
    pc,          \* per thread: "create", "recvfrom", "run"
    sockfd,      \* per thread: the descriptor in its handler is a bound socket
    frame_id, chunk_id,
    masks,       \* masks handed over to the COM thread and not yet taken
    hello,       \* the client has sent its handshakes
    net,         \* datagrams under way
    frames,      \* client: per frame, the payload of each chunk received
    latest_com,
    lost, dup,   \* history: datagrams lost and duplicated
    shown        \* history: the data of the frames shown

vars == <<pc, sockfd, frame_id, chunk_id, masks, hello, net, frames,
          latest_com, lost, dup, shown>>
clientVars == <<hello, frames, latest_com, shown>>

Hello(t) == [to |-> t]
Chunk(id, chunk, total, data) ==
    [to |-> "client", from |-> "mask", frame_id |-> id, chunk_id |-> chunk,
     total_chunks |-> total, payload |-> data]
ComMsg(n) == [to |-> "client", from |-> "com", com |-> n]

Bytes(i) == [j \in 1 .. FrameSize |-> <<i, j>>]

-----------------------------------------------------------------------------
(* udp_server.c.                                                           *)

\* The socket is created and bound, or one of the two fails: the handler stays
\* as it is, uninitialised, and the thread goes on.
udp_server_create(t) ==
    /\ pc[t] = "create"
    /\ \/ pc' = [pc EXCEPT ![t] = "recvfrom"] /\ UNCHANGED sockfd
       \/ pc' = [pc EXCEPT ![t] = "run"] /\ sockfd' = [sockfd EXCEPT ![t] = FALSE]
    /\ UNCHANGED <<frame_id, chunk_id, masks, net, lost, dup, clientVars>>

\* recvfrom blocks until a datagram is there, whatever it is.
Handshake(t) ==
    /\ pc[t] = "recvfrom"
    /\ Hello(t) \in net
    /\ net' = net \ {Hello(t)}
    /\ pc' = [pc EXCEPT ![t] = "run"]
    /\ sockfd' = [sockfd EXCEPT ![t] = TRUE]
    /\ UNCHANGED <<frame_id, chunk_id, masks, lost, dup, clientVars>>

\* sendto through a handler that was never filled in reaches nobody.
SendTo(t, d) == IF sockfd[t] THEN net \cup {d} ELSE net

\* Mutant of total_chunks: the last chunk, if it is not full, is forgotten.
total_chunks_floor == FrameSize \div CHUNK_DATA_SIZE

total_chunks == (FrameSize + CHUNK_DATA_SIZE - 1) \div CHUNK_DATA_SIZE

chunk_size(chunk) ==
    LET offset == chunk * CHUNK_DATA_SIZE
    IN IF offset + CHUNK_DATA_SIZE > FrameSize THEN FrameSize - offset
                                               ELSE CHUNK_DATA_SIZE

Payload(frame, chunk) ==
    SubSeq(Bytes(frame), chunk * CHUNK_DATA_SIZE + 1,
           chunk * CHUNK_DATA_SIZE + chunk_size(chunk))

\* Mutant of SendChunk: frame_id is not static, every call begins with 0.
SendChunkSameId ==
    /\ pc["mask"] = "run" /\ frame_id < MaxFrames /\ chunk_id < total_chunks
    /\ net' = SendTo("mask", Chunk(0, chunk_id, total_chunks,
                                 Payload(frame_id, chunk_id)))
    /\ chunk_id' = chunk_id + 1
    /\ UNCHANGED <<pc, sockfd, frame_id, masks, lost, dup, clientVars>>

\* One pass through the loop of udp_server_send_large for the current mask.
SendChunk ==
    /\ pc["mask"] = "run" /\ frame_id < MaxFrames /\ chunk_id < total_chunks
    /\ net' = SendTo("mask", Chunk(frame_id, chunk_id, total_chunks,
                                 Payload(frame_id, chunk_id)))
    /\ chunk_id' = chunk_id + 1
    /\ UNCHANGED <<pc, sockfd, frame_id, masks, lost, dup, clientVars>>

\* The frame is out; the mask goes to the COM thread.
FrameSent ==
    /\ pc["mask"] = "run" /\ frame_id < MaxFrames /\ chunk_id = total_chunks
    /\ frame_id' = frame_id + 1
    /\ chunk_id' = 0
    /\ masks' = masks + 1
    /\ UNCHANGED <<pc, sockfd, net, lost, dup, clientVars>>

\* The COM of the next mask, 0 standing for the (-1, -1) of a mask without object.
NextCom == frame_id - masks

udp_server_send ==
    /\ pc["com"] = "run" /\ masks > 0
    /\ net' = SendTo("com", ComMsg(NextCom))
    /\ masks' = masks - 1
    /\ UNCHANGED <<pc, sockfd, frame_id, chunk_id, lost, dup, clientVars>>

-----------------------------------------------------------------------------
(* The client.                                                             *)

\* One handshake to each port, never repeated.
udp_client ==
    /\ ~hello
    /\ hello' = TRUE
    /\ net' = net \cup {Hello(t) : t \in Threads}
    /\ UNCHANGED <<pc, sockfd, frame_id, chunk_id, masks, frames, latest_com,
                   lost, dup, shown>>

\* The frame of chunk d with its payload put in.
Filled(d) ==
    LET old == IF d.frame_id \in DOMAIN frames THEN frames[d.frame_id] ELSE <<>>
    IN [c \in DOMAIN old \cup {d.chunk_id} |->
          IF c = d.chunk_id THEN d.payload ELSE old[c]]

\* b''.join over the chunks 0 to n - 1.
Join(f, n) == FlattenSeq([i \in 1 .. n |-> f[i - 1]])

\* Mutant of assemble_frame: the entry of a frame that was shown stays.
assemble_frame_keep(d) ==
    LET f == Filled(d)
        data == Join(f, d.total_chunks)
    IN /\ frames' = [i \in DOMAIN frames \cup {d.frame_id} |->
                       IF i = d.frame_id THEN f ELSE frames[i]]
       /\ IF Cardinality(DOMAIN f) = d.total_chunks /\ Len(data) = FrameSize
          THEN shown' = shown \cup {data} ELSE UNCHANGED shown

\* The chunk is stored.  A frame with all its chunks is shown, if it has the
\* size of a mask (else reshape raises and nothing is shown), and deleted.
assemble_frame(d) ==
    LET f == Filled(d)
        data == Join(f, d.total_chunks)
    IN IF Cardinality(DOMAIN f) = d.total_chunks
       THEN /\ frames' = [i \in DOMAIN frames \ {d.frame_id} |-> frames[i]]
            /\ shown' = IF Len(data) = FrameSize THEN shown \cup {data} ELSE shown
       ELSE /\ frames' = [i \in DOMAIN frames \cup {d.frame_id} |->
                            IF i = d.frame_id THEN f ELSE frames[i]]
            /\ UNCHANGED shown

\* The client reads a datagram, of which the network may keep a copy.
Receive(d, again) ==
    /\ d.to = "client"
    /\ net' = IF again THEN net ELSE net \ {d}
    /\ again => dup < MaxFaults
    /\ dup' = IF again THEN dup + 1 ELSE dup
    /\ IF d.from = "mask" THEN assemble_frame(d) /\ UNCHANGED latest_com
                          ELSE latest_com' = d.com /\ UNCHANGED <<frames, shown>>
    /\ UNCHANGED <<pc, sockfd, frame_id, chunk_id, masks, hello, lost>>

-----------------------------------------------------------------------------
(* The network.                                                            *)

\* What is lost of a frame; a handshake has no frame.
LostOf(d) == IF d.to = "client" /\ d.from = "mask" THEN {d.frame_id} ELSE {}

Lose(d) ==
    /\ Cardinality(lost) < MaxFaults
    /\ net' = net \ {d}
    /\ lost' = lost \cup {d}
    /\ UNCHANGED <<pc, sockfd, frame_id, chunk_id, masks, dup, clientVars>>

\* A handshake that comes to a port not bound is refused.
Refuse(t) ==
    /\ Hello(t) \in net
    /\ pc[t] = "create" \/ (pc[t] = "run" /\ ~sockfd[t])
    /\ net' = net \ {Hello(t)}
    /\ UNCHANGED <<pc, sockfd, frame_id, chunk_id, masks, lost, dup, clientVars>>

-----------------------------------------------------------------------------
Init ==
    /\ pc = [t \in Threads |-> "create"]
    /\ sockfd = [t \in Threads |-> FALSE]
    /\ frame_id = 0 /\ chunk_id = 0 /\ masks = 0
    /\ hello = FALSE
    /\ net = {}
    /\ frames = <<>> /\ latest_com = 0
    /\ lost = {} /\ dup = 0 /\ shown = {}

Server(t) == udp_server_create(t) \/ Handshake(t)
Sending == SendChunk \/ FrameSent \/ udp_server_send
Receiving == \E d \in net : Receive(d, FALSE)

Next ==
    \/ \E t \in Threads : Server(t) \/ Refuse(t)
    \/ Sending
    \/ udp_client
    \/ \E d \in net : Lose(d) \/ \E again \in BOOLEAN : Receive(d, again)

\* The threads run and the client keeps reading, so that a datagram that is not
\* lost is read.  Nothing is assumed of the start of the client, of the binding
\* or of the faults.
Fairness ==
    /\ WF_vars(SendChunk) /\ WF_vars(FrameSent) /\ WF_vars(udp_server_send)
    /\ \A t \in Threads : WF_vars(Handshake(t))
    /\ WF_vars(Receiving)

Spec == Init /\ [][Next]_vars /\ Fairness

-----------------------------------------------------------------------------
(* Properties.                                                             *)

\* What the client shows is, byte for byte, one mask that was sent: whatever is
\* lost, late or there twice, chunks of two frames are never put together.
ShownIsSent == shown \subseteq {Bytes(i) : i \in 0 .. MaxFrames - 1}

\* The client's table grows only by faults: with no datagram lost or duplicated
\* and none under way, it is empty between two frames.  (A frame that lost a
\* chunk, or a late copy of a chunk, stays for ever.)
TableOnlyByFault ==
    lost = {} /\ dup = 0 /\ chunk_id = 0
    /\ (\A d \in net : d.to # "client" \/ d.from = "com")
        => DOMAIN frames = {}

\* The inductive invariant behind these two.  ServerInv: frames and chunks are
\* counted within their bounds, from the handshake on.  NetInv and TableInv:
\* what is under way or in the table is a chunk that was sent, with its data.
\* FaultlessInv: without faults the chunks of a frame that were sent are under
\* way or in the table, never in both and never all in the table, or the frame
\* is over.
Chunks == 0 .. total_chunks - 1

Sent(frame, chunk) ==
    /\ sockfd["mask"]
    /\ frame \in 0 .. frame_id /\ chunk \in Chunks
    /\ frame = frame_id => chunk < chunk_id

Datagram(frame, chunk) == Chunk(frame, chunk, total_chunks, Payload(frame, chunk))

ServerInv ==
    /\ pc \in [Threads -> {"create", "recvfrom", "run"}]
    /\ sockfd \in [Threads -> BOOLEAN]
    /\ frame_id \in 0 .. MaxFrames /\ chunk_id \in 0 .. total_chunks
    /\ frame_id = MaxFrames => chunk_id = 0
    /\ pc["mask"] # "run" => ~sockfd["mask"] /\ frame_id = 0 /\ chunk_id = 0
    /\ dup \in Nat

NetInv ==
    \A d \in net :
        \/ d.to # "client"
        \/ d.to = "client" /\ d.from = "com"
        \/ \E i \in 0 .. frame_id, c \in Chunks : Sent(i, c) /\ d = Datagram(i, c)

TableInv ==
    \A i \in DOMAIN frames :
        /\ DOMAIN frames[i] # {}
        /\ \A c \in DOMAIN frames[i] : Sent(i, c) /\ frames[i][c] = Payload(i, c)

SentOf(i) == {c \in Chunks : Sent(i, c)}
UnderWay(i) == {c \in Chunks : Datagram(i, c) \in net}

Whole(i) ==
    IF i \in DOMAIN frames
    THEN UnderWay(i) = SentOf(i) \ DOMAIN frames[i] /\ DOMAIN frames[i] # Chunks
    ELSE UnderWay(i) = SentOf(i) \/ (SentOf(i) = Chunks /\ UnderWay(i) = {})

FaultlessInv == lost = {} /\ dup = 0 => \A i \in 0 .. frame_id : Whole(i)

StreamInv ==
    ServerInv /\ NetInv /\ TableInv /\ FaultlessInv /\ ShownIsSent

\* Once the mask thread has its handshake, every frame is sent, and shown unless
\* one of its datagrams was lost.
EveryFrameShown ==
    \A i \in 0 .. MaxFrames - 1 :
        sockfd["mask"] ~> Bytes(i) \in shown \/ \E d \in lost : i \in LostOf(d)
=============================================================================
