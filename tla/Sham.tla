-------------------------------- MODULE Sham --------------------------------
(***************************************************************************)
(* A SHAM connection: the client (ShamClient) and the server (ShamServer)  *)
(* run concurrently over the lossy, reordering UDP channel (ShamNet).      *)
(* Both are started for a file transfer or both with --chat; main()       *)
(* chooses between the two after the handshake.  Each program is one      *)
(* thread; a step of one leaves the other program's state alone, and the  *)
(* channel may lose any datagram at any time.                             *)
(***************************************************************************)
EXTENDS ShamClient, ShamServer

vars == <<clientVars, serverVars, netVars>>

FileOffsets == 0..FileSize - 1

Init ==
    /\ ClientInit
    /\ ServerInit
    /\ toServer = EmptyBag
    /\ toClient = EmptyBag
    /\ chat_mode \in BOOLEAN

Next ==
    \/ ClientSendSyn \/ ClientRecvSynAck
    \/ ClientSynAckTimeout
    \/ ClientFillSegment \/ ClientFillEof \/ ClientFillStop
    \/ ClientPollAck \/ ClientPollTimeout
    \/ ClientScanIdle \/ ClientRetransmit
    \/ ClientRetriesExhausted \/ ClientSendFin
    \/ ClientRecvFinAck \/ ClientFinAckTimeout
    \/ ClientRecvPeerFin \/ ClientPeerFinTimeout
    \/ ServerRecvSyn \/ ServerRecvAck
    \/ ServerRecvFin \/ ServerDropData
    \/ ServerRecvData \/ ServerDiscard
    \/ ServerRecvLastAck \/ ServerLastAckTimeout
    \/ ClientChatLine \/ ClientChatQuit \/ ClientChatRecv
    \/ ServerChatLine \/ ServerChatQuit \/ ServerChatRecv
    \/ Lose

Spec == Init /\ [][Next]_vars

(* Each thread keeps running while it has a step to take; a segment     *)
(* (ClientNext and ServerNext hold no step of a user typing in chat)    *)
(* timer that keeps being found in the scan eventually expires (real    *)
(* time passes while the client polls).  The channel is not fair: it    *)
(* may lose everything.                                                  *)
FairSpec ==
    /\ Spec
    /\ WF_vars(ClientNext)
    /\ SF_vars(ClientTimeout)
    /\ WF_vars(ServerNext)

-----------------------------------------------------------------------------
SegmentType ==
    [flags: SUBSET Flags, seq: Nat, ack: Nat, data: Seq(FileOffsets)]

TypeOK ==
    /\ cpc \in {"Start", "SynSent", "Fill", "Poll", "Scan", "Chat",
                "FinWait1", "FinWait2", "Closed", "Failed"}
    /\ next_seq_num \in Nat /\ window_base \in Nat
    /\ done_sending \in BOOLEAN
    /\ window \in [Slots -> [seq: Nat, data: Seq(FileOffsets),
                             retries: 0..MaxRetries]]
    /\ spc \in {"WaitSyn", "WaitAck", "Data", "Chat", "LastAck", "Closed", "Aborted"}
    /\ next_expected_seq \in Nat
    /\ recv_buffer \in Seq(FileOffsets)
    /\ IsABag(toServer) /\ BagToSet(toServer) \subseteq SegmentType
    /\ IsABag(toClient) /\ BagToSet(toClient) \subseteq SegmentType
    /\ chat_mode \in BOOLEAN

(* The receiver holds exactly the first bytes of the file, in order, and *)
(* its next_expected_seq is the client's offset just past them: the     *)
(* in-order check of handle_data_transfer together with the ISN the      *)
(* handshake agreed on, under any loss and reordering of segments and    *)
(* any retransmission the client makes.  In chat mode nothing is         *)
(* buffered and next_expected_seq counts the server's own lines.         *)
StreamIntegrity ==
    /\ recv_buffer = [k \in 1..Len(recv_buffer) |-> k - 1]
    /\ ~chat_mode /\ spc \in {"Data", "LastAck", "Closed"} =>
         next_expected_seq = ClientISS + 1 + Len(recv_buffer)

(* The transfer implements StreamSpec: the client's next_seq_num and     *)
(* window_base, and the server's receive buffer, only grow, and the      *)
(* client never counts a byte as acknowledged (window_base) that the     *)
(* server has not accepted.  This is what lets send_file return success  *)
(* only once the whole file has reached the server.  A chat sends no     *)
(* byte of the file.                                                     *)
StreamOffset(x) == IF x > ClientISS /\ ~chat_mode THEN x - (ClientISS + 1) ELSE 0

Stream == INSTANCE StreamSpec
            WITH sent <- StreamOffset(next_seq_num),
                 delivered <- Len(recv_buffer),
                 acked <- StreamOffset(window_base)

StreamRefinement == Stream!Spec

(* send_file always returns: under the timers' fairness the client of a  *)
(* file transfer ends, closed or failed, whatever the channel loses,     *)
(* because every resend of a slot counts against SHAM_MAX_RETRIES.  A    *)
(* chat lasts as long as its users type.                                 *)
ClientTerminates == ~chat_mode => <>(cpc \in {"Closed", "Failed"})

(* send_file prints "File sent successfully" and the client tears down  *)
(* only once the server has accepted the handshake and holds the whole  *)
(* file: a server that aborted on a segment overtaking the handshake ACK *)
(* (handle_handshake) never acknowledges data, so the client can only   *)
(* fail.  It takes the break test of send_file, the cumulative ACKs and *)
(* the server's in-order acceptance together, under loss and resends.   *)
SuccessMeansDelivered ==
    ~chat_mode /\ cpc \in {"FinWait1", "FinWait2", "Closed"} =>
        /\ spc \in {"Data", "LastAck", "Closed"}
        /\ Len(recv_buffer) = FileSize

-----------------------------------------------------------------------------
(* Properties the code is found to violate.                               *)

(* spec.md 3 and 8: the retransmission scan resends the unacknowledged   *)
(* segment at each offset it checks.  The code looks for offset          *)
(* window_base + i * SHAM_DATA_SIZE in slot i, but fills slots relative  *)
(* to the window_base of the moment, so after the base moves slot i      *)
(* holds another segment.                                                *)
SlotHoldsScannedSegment ==
    cpc = "Scan" =>
        \A i \in Scanned : window[i].seq = window_base + i * DataSize

(* spec.md 4.5: the closer's last segment is ACK(ack = T + 1) for the   *)
(* peer's FIN(seq = T); the server's FIN carries next_expected_seq.      *)
FinalAckAcksPeerFin ==
    ~chat_mode /\ cpc = "Closed" =>
        \A m \in BagToSet(toServer) :
            m.flags = {"ACK"} => m.ack = next_expected_seq + 1

(* spec.md 4.5: teardown is four segments and both sides close; its     *)
(* waits are bounded.  Once the client has closed, the server should    *)
(* close too.  The client sends its FIN once and moves on after two     *)
(* timeouts; the server's data loop re-enters its receive on every      *)
(* timeout, so a lost FIN leaves it waiting forever.                    *)
ServerClosesAfterClient ==
    ~chat_mode => (cpc = "Closed" ~> spc \in {"Closed", "Aborted"})

=============================================================================
