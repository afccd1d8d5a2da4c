----------------------------- MODULE ShamClient -----------------------------
(***************************************************************************)
(* The SHAM active opener, src/networking/client.c in file mode:           *)
(* perform_handshake, send_file (fill / poll / retransmit scan) and        *)
(* perform_termination, run by one sequential thread.  cpc is the point    *)
(* of that thread: the receive it blocks in, or the loop phase it is in.   *)
(* Time is abstract: a bounded receive may time out whenever it waits,     *)
(* and a slot may be found timed out by any scan.                          *)
(***************************************************************************)
EXTENDS ShamNet, FiniteSetsExt

CONSTANTS WindowSize,   \* SHAM_WINDOW_SIZE: slots of the send window
          MaxRetries,   \* SHAM_MAX_RETRIES
          FileSize      \* bytes of the input file


Slots == 0..WindowSize - 1

(* The file position: next_seq_num advances by exactly what fread read.  *)
BytesRead == next_seq_num - (ClientISS + 1)

EmptySlot == [seq |-> 0, data |-> <<>>, retries |-> 0]

ClientInit ==
    /\ cpc = "Start"
    /\ next_seq_num = 0
    /\ window_base = 0
    /\ done_sending = FALSE
    /\ window = [i \in Slots |-> EmptySlot]

-----------------------------------------------------------------------------
(* perform_handshake                                                      *)

ClientSendSyn ==
    /\ cpc = "Start"
    /\ toServer' = Sendto(toServer, Segment({"SYN"}, ClientISS, 0, <<>>))
    /\ cpc' = "SynSent"
    /\ UNCHANGED <<next_seq_num, window_base, done_sending, window, toClient, serverVars>>

(* Whatever datagram arrives first is taken as the answer to the SYN; one *)
(* without SYN and ACK fails the handshake.  Only the server's SYN-ACK can *)
(* be in flight at this point, so the failure branch is never taken here. *)
ClientRecvSynAck ==
    /\ cpc = "SynSent"
    /\ \E m \in BagToSet(toClient) :
         LET ok == {"SYN", "ACK"} \subseteq m.flags
         IN /\ toClient' = BagRemove(toClient, m)
            /\ toServer' = IF ok THEN Sendto(toServer,
                              Segment({"ACK"}, ClientISS + 1, m.seq + 1, <<>>))
                          ELSE toServer
            /\ next_seq_num' = IF ok THEN ClientISS + 1 ELSE next_seq_num
            /\ window_base' = IF ok THEN ClientISS + 1 ELSE window_base
            /\ cpc' = CASE ~ok      -> "Failed"
                        [] chat_mode -> "Chat"
                        [] OTHER     -> "Fill"
    /\ UNCHANGED <<done_sending, window, serverVars>>

ClientSynAckTimeout ==
    /\ cpc = "SynSent"
    /\ cpc' = "Failed"
    /\ UNCHANGED <<next_seq_num, window_base, done_sending, window, netVars, serverVars>>

-----------------------------------------------------------------------------
(* send_file: one iteration of the fill loop                              *)

CanFill ==
    /\ ~done_sending
    /\ next_seq_num - window_base < WindowSize * DataSize

(* The slot a new segment is written to, relative to window_base.        *)
FillIndex == ((next_seq_num - window_base) \div DataSize) % WindowSize

(* Mutant: every fill reads a full SHAM_DATA_SIZE, ignoring the short   *)
(* count fread returns at the end of the file.                           *)
ClientFillSegmentFullRead ==
    /\ cpc = "Fill"
    /\ CanFill
    /\ BytesRead < FileSize
    /\ LET data == [k \in 1..DataSize |-> BytesRead + k - 1]
       IN /\ window' = [window EXCEPT ![FillIndex] =
                          [seq |-> next_seq_num, data |-> data, retries |-> 0]]
          /\ toServer' = Sendto(toServer, Segment({}, next_seq_num, 0, data))
          /\ next_seq_num' = next_seq_num + DataSize
    /\ UNCHANGED <<cpc, window_base, done_sending, toClient, serverVars>>

ClientFillSegment ==
    /\ cpc = "Fill"
    /\ CanFill
    /\ BytesRead < FileSize
    /\ LET n    == Min({DataSize, FileSize - BytesRead})
           data == [k \in 1..n |-> BytesRead + k - 1]
       IN /\ window' = [window EXCEPT ![FillIndex] =
                          [seq |-> next_seq_num, data |-> data, retries |-> 0]]
          /\ toServer' = Sendto(toServer, Segment({}, next_seq_num, 0, data))
          /\ next_seq_num' = next_seq_num + n
    /\ UNCHANGED <<cpc, window_base, done_sending, toClient, serverVars>>

ClientFillEof ==
    /\ cpc = "Fill"
    /\ CanFill
    /\ BytesRead = FileSize
    /\ done_sending' = TRUE
    /\ cpc' = "Poll"
    /\ UNCHANGED <<next_seq_num, window_base, window, netVars, serverVars>>

ClientFillStop ==
    /\ cpc = "Fill"
    /\ ~CanFill
    /\ cpc' = "Poll"
    /\ UNCHANGED <<next_seq_num, window_base, done_sending, window, netVars, serverVars>>

-----------------------------------------------------------------------------
(* send_file: wait up to 100 ms for an ACK                                *)

(* Mutant: the base follows every ACK, without the ack_num > base test. *)
CumulativeAckUnguarded(base, m) ==
    IF "ACK" \in m.flags THEN m.ack ELSE base

CumulativeAck(base, m) ==
    IF "ACK" \in m.flags /\ m.ack > base THEN m.ack ELSE base

ClientPollAck ==
    /\ cpc = "Poll"
    /\ \E m \in BagToSet(toClient) :
         /\ toClient' = BagRemove(toClient, m)
         /\ window_base' = CumulativeAck(window_base, m)
    /\ cpc' = "Scan"
    /\ UNCHANGED <<next_seq_num, done_sending, window, toServer, serverVars>>

ClientPollTimeout ==
    /\ cpc = "Poll"
    /\ cpc' = "Scan"
    /\ UNCHANGED <<next_seq_num, window_base, done_sending, window, netVars, serverVars>>

-----------------------------------------------------------------------------
(* send_file: the retransmission scan.  Slot i is taken to hold offset   *)
(* window_base + i * DataSize; the scan stops at next_seq_num.  The       *)
(* acked flag is never set by the code, so it never excuses a slot.       *)

Scanned == {i \in Slots : window_base + i * DataSize < next_seq_num}

SlotSegment(i) == Segment({}, window[i].seq, 0, window[i].data)

RECURSIVE SendSlots(_, _)
SendSlots(ch, S) ==
    IF S = {} THEN ch
    ELSE SendSlots(Sendto(ch, SlotSegment(Min(S))), S \ {Min(S)})

(* Mutant: a resend does not count against the slot's retries.        *)
ResendUncounted(S) ==
    /\ toServer' = SendSlots(toServer, S)
    /\ UNCHANGED window

Resend(S) ==
    /\ toServer' = SendSlots(toServer, S)
    /\ window' = [i \in Slots |->
                    IF i \in S THEN [window[i] EXCEPT !.retries = @ + 1]
                    ELSE window[i]]

Exhausted(T) == {i \in T : window[i].retries >= MaxRetries}

(* Mutant: the loop breaks once all input is read, acknowledged or not. *)
SendFileDoneUnacked == done_sending

(* All input read and acknowledged: the loop's break.  The while         *)
(* condition itself adds nothing since window_base <= next_seq_num.      *)
SendFileDone == done_sending /\ window_base >= next_seq_num

ClientScanIdle ==
    /\ cpc = "Scan"
    /\ ~SendFileDone
    /\ cpc' = "Fill"
    /\ UNCHANGED <<next_seq_num, window_base, done_sending, window, netVars, serverVars>>

ClientRetransmit ==
    /\ cpc = "Scan"
    /\ \E T \in SUBSET Scanned :
         /\ T # {}
         /\ Exhausted(T) = {}
         /\ Resend(T)
    /\ cpc' = "Fill"
    /\ UNCHANGED <<next_seq_num, window_base, done_sending, toClient, serverVars>>

(* The first timed-out slot at its retry limit aborts send_file; the     *)
(* slots scanned before it have already been resent.                     *)
ClientRetriesExhausted ==
    /\ cpc = "Scan"
    /\ \E T \in SUBSET Scanned :
         /\ Exhausted(T) # {}
         /\ Resend({i \in T : i < Min(Exhausted(T))})
    /\ cpc' = "Failed"
    /\ UNCHANGED <<next_seq_num, window_base, done_sending, toClient, serverVars>>

-----------------------------------------------------------------------------
(* send_file returns 0 and perform_termination sends FIN.                *)

ClientSendFin ==
    /\ cpc = "Scan"
    /\ SendFileDone
    /\ toServer' = Sendto(toServer, Segment({"FIN"}, next_seq_num, 0, <<>>))
    /\ cpc' = "FinWait1"
    /\ UNCHANGED <<next_seq_num, window_base, done_sending, window, toClient, serverVars>>

(* The waits for the ACK and for the peer FIN take any datagram, or time *)
(* out, and go on either way.                                             *)
ClientRecvFinAck ==
    /\ cpc = "FinWait1"
    /\ \E m \in BagToSet(toClient) : toClient' = BagRemove(toClient, m)
    /\ cpc' = "FinWait2"
    /\ UNCHANGED <<next_seq_num, window_base, done_sending, window, toServer, serverVars>>

ClientFinAckTimeout ==
    /\ cpc = "FinWait1"
    /\ cpc' = "FinWait2"
    /\ UNCHANGED <<next_seq_num, window_base, done_sending, window, netVars, serverVars>>

(* The final ACK is built after memset(&pkt, 0): its ack_num is 0 + 1.   *)
FinalAck == Segment({"ACK"}, 0, 0 + 1, <<>>)

ClientRecvPeerFin ==
    /\ cpc = "FinWait2"
    /\ \E m \in BagToSet(toClient) : toClient' = BagRemove(toClient, m)
    /\ toServer' = Sendto(toServer, FinalAck)
    /\ cpc' = "Closed"
    /\ UNCHANGED <<next_seq_num, window_base, done_sending, window, serverVars>>

ClientPeerFinTimeout ==
    /\ cpc = "FinWait2"
    /\ toServer' = Sendto(toServer, FinalAck)
    /\ cpc' = "Closed"
    /\ UNCHANGED <<next_seq_num, window_base, done_sending, window, toClient, serverVars>>

-----------------------------------------------------------------------------
(* handle_chat_mode: one pass of the select loop, stdin first.  A line   *)
(* fgets reads is at most SHAM_DATA_SIZE - 1 bytes; its content is not   *)
(* modelled.  Nothing is acknowledged or resent.                         *)

\* the user types a line other than /quit; it is sent at next_seq_num
ClientChatLine ==
    /\ cpc = "Chat"
    /\ next_seq_num - (ClientISS + 1) < ChatLines * (DataSize - 1)
    /\ \E n \in 1..DataSize - 1 :
         /\ toServer' = Sendto(toServer, Segment({}, next_seq_num, 0, [k \in 1..n |-> 0]))
         /\ next_seq_num' = next_seq_num + n
    /\ UNCHANGED <<cpc, window_base, done_sending, window, toClient, serverVars>>

\* /quit: perform_termination, as after a file transfer
ClientChatQuit ==
    /\ cpc = "Chat"
    /\ toServer' = Sendto(toServer, Segment({"FIN"}, next_seq_num, 0, <<>>))
    /\ cpc' = "FinWait1"
    /\ UNCHANGED <<next_seq_num, window_base, done_sending, window, toClient, serverVars>>

\* a datagram from the server: a FIN ends the loop and the program, any
\* other is printed
ClientChatRecv ==
    /\ cpc = "Chat"
    /\ \E m \in BagToSet(toClient) :
         /\ toClient' = BagRemove(toClient, m)
         /\ cpc' = IF "FIN" \in m.flags THEN "Closed" ELSE "Chat"
    /\ UNCHANGED <<next_seq_num, window_base, done_sending, window, toServer, serverVars>>

-----------------------------------------------------------------------------
(* A retransmission timer fires in a scan.                                *)
ClientTimeout == ClientRetransmit \/ ClientRetriesExhausted

ClientNext ==
    \/ ClientSendSyn \/ ClientRecvSynAck \/ ClientSynAckTimeout
    \/ ClientFillSegment \/ ClientFillEof \/ ClientFillStop
    \/ ClientPollAck \/ ClientPollTimeout
    \/ ClientScanIdle \/ ClientTimeout \/ ClientSendFin
    \/ ClientRecvFinAck \/ ClientFinAckTimeout
    \/ ClientRecvPeerFin \/ ClientPeerFinTimeout
    \/ ClientChatRecv

=============================================================================
