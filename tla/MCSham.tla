------------------------------- MODULE MCSham -------------------------------
(* Sham instantiated for TLC: the code's initial sequence numbers, a     *)
(* 3-slot window of 2-byte segments and a 7-byte file (segments of 2, 2, *)
(* 2 and 1 bytes), so the window fills, slides and wraps, the last        *)
(* segment is short, and each slot may be resent twice before the client *)
(* gives up.  A channel direction holds at most 3 datagrams.  In chat     *)
(* mode each user types one line (of 1 byte, as fgets reads at most      *)
(* SHAM_DATA_SIZE - 1) before /quit.                                     *)
EXTENDS Sham

MCClientISS == 100
MCServerISS == 5000
MCDataSize == 2
MCWindowSize == 3
MCMaxRetries == 2
MCFileSize == 7
MCChannelCap == 3
MCChatLines == 1

=============================================================================
