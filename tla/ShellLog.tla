------------------------------ MODULE ShellLog ------------------------------
(***************************************************************************)
(* The shell's command history (src/shell/src/log.c): a ring buffer of     *)
(* MAX_LOG_ENTRIES entries, loaded from ~/.shell_log on first use and      *)
(* written back after every change, and the `log` intrinsic.  A restart    *)
(* of the shell forgets the buffer and keeps the file.                     *)
(*                                                                         *)
(* A command is a member of Cmds; a command whose first word is `log` is   *)
(* never recorded and is one of the Log* actions instead.                  *)
(***************************************************************************)
EXTENDS Naturals, Sequences

CONSTANTS MaxLog,   \* MAX_LOG_ENTRIES
          Cmds,     \* commands other than log
          NoCmd     \* an entry never written; nothing executed

Idx == 0..MaxLog-1

VARIABLES log_entries, log_count, log_start, log_loaded,  \* statics of log.c
          file_exists, file,                              \* ~/.shell_log
          ran                                             \* last `log execute`d command

vars == <<log_entries, log_count, log_start, log_loaded, file_exists, file, ran>>

\* the buffer as a record, so that a handler can be written as a function of it
Current == [e |-> log_entries, n |-> log_count, st |-> log_start]

\* what `log` prints, oldest first
Contents(b) == [k \in 1..b.n |-> b.e[(b.st + k - 1) % MaxLog]]

\* load_log: without a file, fopen fails and the buffer is kept
Load(b) ==
    IF ~file_exists THEN b
    ELSE LET n == IF Len(file) < MaxLog THEN Len(file) ELSE MaxLog IN
         [e |-> [i \in Idx |-> IF i < n THEN file[i + 1] ELSE b.e[i]], n |-> n, st |-> 0]

\* "Load log on first use"
Loaded == IF log_loaded THEN Current ELSE Load(Current)

Store(b) ==
    /\ log_entries' = b.e /\ log_count' = b.n /\ log_start' = b.st
    /\ log_loaded' = TRUE

\* save_log: the file is rewritten with the contents
Save(b) == file_exists' = TRUE /\ file' = Contents(b)

Init ==
    /\ log_entries = [i \in Idx |-> NoCmd]
    /\ log_count = 0 /\ log_start = 0 /\ log_loaded = FALSE
    /\ file_exists = FALSE /\ file = <<>>
    /\ ran = NoCmd

\* Advances log_start without the wrap.
PushNoWrap(b, c) ==
    IF b.n < MaxLog THEN [b EXCEPT !.e[b.n] = c, !.n = b.n + 1]
    ELSE [b EXCEPT !.e[b.st] = c, !.st = b.st + 1]

\* add to the ring buffer, overwriting the oldest entry when full
Push(b, c) ==
    IF b.n < MaxLog THEN [b EXCEPT !.e[b.n] = c, !.n = b.n + 1]
    ELSE [b EXCEPT !.e[b.st] = c, !.st = (b.st + 1) % MaxLog]

\* main() calls log_add_command with each non-empty line it reads
AddCommand(c) ==
    LET b   == Loaded
        dup == b.n > 0 /\ b.e[(b.st + b.n - 1) % MaxLog] = c
    IN /\ IF dup THEN Store(b) /\ UNCHANGED <<file_exists, file>>
          ELSE Store(Push(b, c)) /\ Save(Push(b, c))
       /\ UNCHANGED ran

\* `log`: log_add_command loads and returns at its "log" test; cmd_log prints
LogPrint ==
    /\ Store(Loaded)
    /\ UNCHANGED <<file_exists, file, ran>>

\* Empties the buffer without save_log.
LogPurgeUnsaved ==
    /\ Store([Loaded EXCEPT !.n = 0, !.st = 0])
    /\ UNCHANGED <<file_exists, file, ran>>

\* `log purge`
LogPurge ==
    LET b == [Loaded EXCEPT !.n = 0, !.st = 0] IN
    /\ Store(b) /\ Save(b)
    /\ UNCHANGED ran

\* `log execute i`, i counted from the newest; an index outside
\* 1..log_count prints "log: Invalid index"
LogExecute(i) ==
    LET b == Loaded IN
    /\ Store(b)
    /\ ran' = IF i \in 1..b.n THEN b.e[(b.st + b.n - i) % MaxLog] ELSE ran
    /\ UNCHANGED <<file_exists, file>>

\* the shell exits and is started again: the statics are initial again
Restart ==
    /\ log_entries' = [i \in Idx |-> NoCmd]
    /\ log_count' = 0 /\ log_start' = 0 /\ log_loaded' = FALSE
    /\ UNCHANGED <<file_exists, file, ran>>

Next ==
    \/ \E c \in Cmds : AddCommand(c)
    \/ LogPrint \/ LogPurge \/ \E i \in 0..MaxLog + 1 : LogExecute(i)
    \/ Restart

Spec == Init /\ [][Next]_vars

-----------------------------------------------------------------------------
TypeOK ==
    /\ log_entries \in [Idx -> Cmds \cup {NoCmd}]
    /\ log_count \in 0..MaxLog /\ log_start \in Idx
    /\ log_loaded \in BOOLEAN /\ file_exists \in BOOLEAN
    /\ file \in Seq(Cmds) /\ Len(file) <= MaxLog
    /\ ran \in Cmds \cup {NoCmd}

History == INSTANCE HistorySpec WITH hist <- Contents(Loaded)

\* Over any sequence of commands, `log purge`, `log execute` and restarts of
\* the shell, the ring buffer together with ~/.shell_log behaves as the
\* history of the newest MaxLog commands: what `log` would show, once
\* loaded, is that history, and `log execute i` runs its i-th newest entry.
HistoryRefinement == History!Spec
=============================================================================
