----------------------------- MODULE HistorySpec -----------------------------
(***************************************************************************)
(* What the shell's `log` promises, across shell sessions: the newest      *)
(* MaxLog commands entered, oldest first, without a command repeated       *)
(* back to back; `log purge` empties it; `log execute i` runs the i-th     *)
(* newest.  `ran` is the last command run by `log execute`.                *)
(***************************************************************************)
EXTENDS Naturals, Sequences

CONSTANTS MaxLog, Cmds, NoCmd

VARIABLES hist, ran

Newest(s) == IF Len(s) > MaxLog THEN SubSeq(s, Len(s) - MaxLog + 1, Len(s)) ELSE s

Init == hist = <<>> /\ ran = NoCmd

Record(c) ==
    /\ hist' = IF hist # <<>> /\ hist[Len(hist)] = c THEN hist
               ELSE Newest(Append(hist, c))
    /\ UNCHANGED ran

Purge == hist' = <<>> /\ UNCHANGED ran

Execute(i) ==
    /\ i \in 1..Len(hist)
    /\ ran' = hist[Len(hist) + 1 - i]
    /\ UNCHANGED hist

Next == (\E c \in Cmds : Record(c)) \/ Purge \/ (\E i \in 1..MaxLog : Execute(i))

Spec == Init /\ [][Next]_<<hist, ran>>
=============================================================================
