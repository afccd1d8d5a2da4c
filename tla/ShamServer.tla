----------------------------- MODULE ShamServer -----------------------------
(***************************************************************************)
(* The SHAM passive opener, src/networking/server.c in file mode:          *)
(* handle_handshake and handle_data_transfer, one sequential thread.       *)
(* Every receive blocks with a 2 s socket timeout and loops on it, so      *)
(* only the wait for the final ACK ever gives up.                          *)
(***************************************************************************)
EXTENDS ShamNet

CONSTANTS ServerISS,   \* server_seq (5000 in the code)
          LossSim      \* loss_rate > 0: should_drop_packet may drop data


ServerInit ==
    /\ spc = "WaitSyn"
    /\ next_expected_seq = 0
    /\ recv_buffer = <<>>

-----------------------------------------------------------------------------
(* handle_handshake.  The first datagram must carry SYN and the next one *)
(* ACK, else the handshake fails and the server exits.  Only the client's *)
(* SYN can arrive first, so the first check never fails here.             *)

ServerRecvSyn ==
    /\ spc = "WaitSyn"
    /\ \E m \in BagToSet(toServer) :
         /\ toServer' = BagRemove(toServer, m)
         /\ toClient' = IF "SYN" \in m.flags
                        THEN Sendto(toClient, Segment({"SYN", "ACK"}, ServerISS,
                                                      m.seq + 1, <<>>))
                        ELSE toClient
         /\ spc' = IF "SYN" \in m.flags THEN "WaitAck" ELSE "Aborted"
    /\ UNCHANGED <<next_expected_seq, recv_buffer, clientVars>>

(* The handshake ACK sets next_expected_seq to its seq_num; any segment   *)
(* without ACK, such as a data segment overtaking a delayed ACK, aborts.  *)
ServerRecvAck ==
    /\ spc = "WaitAck"
    /\ \E m \in BagToSet(toServer) :
         /\ toServer' = BagRemove(toServer, m)
         /\ \/ /\ "ACK" \in m.flags
               /\ next_expected_seq' = m.seq
               /\ spc' = IF chat_mode THEN "Chat" ELSE "Data"
            \/ /\ "ACK" \notin m.flags
               /\ spc' = "Aborted"
               /\ UNCHANGED next_expected_seq
    /\ UNCHANGED <<recv_buffer, toClient, clientVars>>

-----------------------------------------------------------------------------
(* handle_data_transfer: one received datagram.                           *)

(* FIN: ACK it, send our own FIN carrying next_expected_seq, then wait   *)
(* for the final ACK.                                                     *)
ServerRecvFin ==
    /\ spc = "Data"
    /\ \E m \in BagToSet(toServer) :
         /\ "FIN" \in m.flags
         /\ toServer' = BagRemove(toServer, m)
         /\ toClient' = Sendto(Sendto(toClient,
                                  Segment({"ACK"}, 0, m.seq + 1, <<>>)),
                               Segment({"FIN"}, next_expected_seq, 0, <<>>))
    /\ spc' = "LastAck"
    /\ UNCHANGED <<next_expected_seq, recv_buffer, clientVars>>

(* should_drop_packet: the loss simulator discards a data segment.       *)
ServerDropData ==
    /\ spc = "Data"
    /\ LossSim
    /\ \E m \in BagToSet(toServer) :
         /\ "FIN" \notin m.flags
         /\ m.data # <<>>
         /\ toServer' = BagRemove(toServer, m)
    /\ UNCHANGED <<spc, next_expected_seq, recv_buffer, toClient, clientVars>>

(* Mutant: any segment at or beyond next_expected_seq is accepted.       *)
InOrderAtOrAfter(m) == m.seq >= next_expected_seq

InOrder(m) == m.seq = next_expected_seq

(* The segment at next_expected_seq is appended and cumulatively acked.  *)
ServerRecvData ==
    /\ spc = "Data"
    /\ \E m \in BagToSet(toServer) :
         /\ "FIN" \notin m.flags
         /\ m.data # <<>>
         /\ InOrder(m)
         /\ toServer' = BagRemove(toServer, m)
         /\ recv_buffer' = recv_buffer \o m.data
         /\ next_expected_seq' = next_expected_seq + Len(m.data)
         /\ toClient' = Sendto(toClient,
                          Segment({"ACK"}, 0, next_expected_seq + Len(m.data), <<>>))
    /\ UNCHANGED <<spc, clientVars>>

(* Out-of-order data and payload-free non-FIN segments are discarded     *)
(* without an ACK.                                                        *)
ServerDiscard ==
    /\ spc = "Data"
    /\ \E m \in BagToSet(toServer) :
         /\ "FIN" \notin m.flags
         /\ m.data = <<>> \/ ~InOrder(m)
         /\ toServer' = BagRemove(toServer, m)
    /\ UNCHANGED <<spc, next_expected_seq, recv_buffer, toClient, clientVars>>

(* The wait for the final ACK takes any datagram, or times out.          *)
ServerRecvLastAck ==
    /\ spc = "LastAck"
    /\ \E m \in BagToSet(toServer) : toServer' = BagRemove(toServer, m)
    /\ spc' = "Closed"
    /\ UNCHANGED <<next_expected_seq, recv_buffer, toClient, clientVars>>

ServerLastAckTimeout ==
    /\ spc = "LastAck"
    /\ spc' = "Closed"
    /\ UNCHANGED <<next_expected_seq, recv_buffer, netVars, clientVars>>

-----------------------------------------------------------------------------
(* handle_chat_mode: the server's lines are sent at next_expected_seq,    *)
(* which goes on from the seq_num of the ACK that ended the handshake:    *)
(* the client's ISN + 1, or 0 when the client's FIN was lost and its     *)
(* final ACK, sent after it has left, is taken for the handshake ACK.    *)

\* next_expected_seq while fewer than ChatLines lines have been sent
ChatSeqs == {s + k : s \in {0, ClientISS + 1}, k \in 0..(ChatLines - 1) * (DataSize - 1)}

ServerChatLine ==
    /\ spc = "Chat"
    /\ next_expected_seq \in ChatSeqs
    /\ \E n \in 1..DataSize - 1 :
         /\ toClient' = Sendto(toClient, Segment({}, next_expected_seq, 0, [k \in 1..n |-> 0]))
         /\ next_expected_seq' = next_expected_seq + n
    /\ UNCHANGED <<spc, recv_buffer, toServer, clientVars>>

\* /quit sends a FIN and leaves, waiting for nothing
ServerChatQuit ==
    /\ spc = "Chat"
    /\ toClient' = Sendto(toClient, Segment({"FIN"}, next_expected_seq, 0, <<>>))
    /\ spc' = "Closed"
    /\ UNCHANGED <<next_expected_seq, recv_buffer, toServer, clientVars>>

\* a FIN from the client ends the loop, unacknowledged; other datagrams
\* are printed
ServerChatRecv ==
    /\ spc = "Chat"
    /\ \E m \in BagToSet(toServer) :
         /\ toServer' = BagRemove(toServer, m)
         /\ spc' = IF "FIN" \in m.flags THEN "Closed" ELSE "Chat"
    /\ UNCHANGED <<next_expected_seq, recv_buffer, toClient, clientVars>>

ServerNext ==
    \/ ServerRecvSyn \/ ServerRecvAck
    \/ ServerRecvFin \/ ServerDropData \/ ServerRecvData \/ ServerDiscard
    \/ ServerRecvLastAck \/ ServerLastAckTimeout
    \/ ServerChatRecv

=============================================================================
