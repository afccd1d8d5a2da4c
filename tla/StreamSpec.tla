----------------------------- MODULE StreamSpec -----------------------------
(***************************************************************************)
(* What SHAM promises of a file transfer (spec.md sections 1, 4.3, 4.4):  *)
(* the file's bytes are handed to the network in order, delivered to the  *)
(* receiver in order, and acknowledged to the sender only once delivered. *)
(* Each counter is a prefix length of the file; none ever shrinks.        *)
(***************************************************************************)
EXTENDS Naturals

CONSTANT FileSize

VARIABLES sent,       \* bytes of the file the sender has transmitted
          delivered,  \* bytes the receiver has accepted, as a prefix
          acked       \* bytes the sender knows to be delivered

vars == <<sent, delivered, acked>>

Init == sent = 0 /\ delivered = 0 /\ acked = 0

Send ==
    /\ \E n \in sent + 1..FileSize : sent' = n
    /\ UNCHANGED <<delivered, acked>>

Deliver ==
    /\ \E n \in delivered + 1..sent : delivered' = n
    /\ UNCHANGED <<sent, acked>>

Ack ==
    /\ \E n \in acked + 1..delivered : acked' = n
    /\ UNCHANGED <<sent, delivered>>

Next == Send \/ Deliver \/ Ack

Spec == Init /\ [][Next]_vars

=============================================================================
