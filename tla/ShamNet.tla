------------------------------ MODULE ShamNet ------------------------------
(***************************************************************************)
(* The state of one SHAM connection: the variables of the client and      *)
(* server programs (src/networking/client.c, server.c), written by         *)
(* ShamClient and ShamServer, and the UDP socket pair between them.        *)
(* Each direction of the channel is a bag of                               *)
(* segments: datagrams are delivered in any order, may be lost, and are    *)
(* never duplicated (spec.md section 6).  A datagram sent while the        *)
(* channel already holds ChannelCap segments is dropped, as a full UDP     *)
(* socket buffer does.                                                     *)
(***************************************************************************)
EXTENDS Naturals, Sequences, Bags, BagsExt

CONSTANTS ClientISS,   \* the client's initial_seq (100 in the code)
          DataSize,    \* SHAM_DATA_SIZE: payload bytes per segment
          ChannelCap,  \* datagrams a direction can hold before it drops
          ChatLines    \* lines each user types in chat mode, at most

VARIABLES cpc,           \* client: control point of its thread
          next_seq_num,  \* client: next byte offset to send
          window_base,   \* client: lowest offset not cumulatively acked
          done_sending,  \* client: fread has returned 0
          window         \* client: slot -> [seq, data, retries]

VARIABLES spc,               \* server: control point of its thread
          next_expected_seq, \* server: next byte offset accepted
          recv_buffer        \* server: file offsets of the bytes received

VARIABLES toServer,   \* bag of segments from client to server
          toClient    \* bag of segments from server to client

VARIABLE chat_mode    \* both programs were started with --chat

(* chat_mode is a global of each program, set from its arguments and     *)
(* never written again; both were given the same, so one variable is     *)
(* each program's copy and stays unchanged in the other's steps.         *)
clientVars == <<cpc, next_seq_num, window_base, done_sending, window, chat_mode>>
serverVars == <<spc, next_expected_seq, recv_buffer, chat_mode>>
netVars == <<toServer, toClient>>

Flags == {"SYN", "ACK", "FIN"}

(* struct sham_packet: the header fields the protocol reads, and the      *)
(* payload as the sequence of file offsets whose bytes it carries; its    *)
(* length is the datagram length minus the header (recv_packet).          *)
Segment(flags, seq, ack, data) ==
    [flags |-> flags, seq |-> seq, ack |-> ack, data |-> data]

(* send_packet: sendto() of the header and data_len payload bytes.        *)
Sendto(ch, m) ==
    IF BagCardinality(ch) < ChannelCap THEN BagAdd(ch, m) ELSE ch

(* The channel loses a datagram in flight.                                *)
LoseToServer ==
    /\ \E m \in BagToSet(toServer) : toServer' = BagRemove(toServer, m)
    /\ UNCHANGED toClient

LoseToClient ==
    /\ \E m \in BagToSet(toClient) : toClient' = BagRemove(toClient, m)
    /\ UNCHANGED toServer

Lose ==
    /\ LoseToServer \/ LoseToClient
    /\ UNCHANGED <<clientVars, serverVars>>

=============================================================================
