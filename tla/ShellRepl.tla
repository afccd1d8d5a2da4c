------------------------------ MODULE ShellRepl ------------------------------
(***************************************************************************)
(* The shell's read-execute loop (src/shell/src/main.c) with what it runs  *)
(* inside the shell process: execute_full_command splitting a line into    *)
(* command groups, execute_pipeline and parse_command choosing between an  *)
(* intrinsic run in the shell and a forked child, and the two intrinsics   *)
(* that change the shell's own state: hop (hop.c) and log (log.c, through  *)
(* the ShellLog module), and reveal (reveal.c), which lists a directory.   *)
(*                                                                         *)
(* A line is a sequence of characters, where a word may stand as one       *)
(* character (see ShellParser).  `log execute` calls execute_full_command  *)
(* from inside execute_full_command: `frames` is that C call stack, one    *)
(* frame per execute_full_command holding the command groups it has not    *)
(* run yet.  MaxDepth frames are what the process's stack holds; a call    *)
(* past them overflows it and the shell dies (`crashed`).                  *)
(*                                                                         *)
(* Forked children, jobs and background waiting are ShellJobs' part; here  *)
(* a command run in a child leaves the shell's state as it was, but for    *)
(* the file its output redirection creates, which reveal may list.        *)
(***************************************************************************)
EXTENDS Naturals, Sequences, ShellParser

CONSTANTS Lines,      \* the lines the user may type
          Home,       \* home_dir: the directory the shell starts in
          Dirs,       \* the directories that exist, as sequences of names
          NoDir,      \* prev_dir[0] == '\0'
          MaxDepth,   \* execute_full_command frames the stack holds
          MaxLog, NoCmd,
          LogFile,    \* LOG_FILE, the name of ~/.shell_log, as characters
          CharCode    \* the byte value of each character of an entry name

VARIABLES log_entries, log_count, log_start, log_loaded, file_exists, file, ran,
          cwd, prev_dir, frames, crashed,
          printed,    \* what reveal printed in the last step
          created     \* <<dir, name>>: files the children's O_CREAT made

logVars == <<log_entries, log_count, log_start, log_loaded, file_exists, file, ran>>
vars == <<logVars, cwd, prev_dir, frames, crashed, printed, created>>

SeqX == INSTANCE SequencesExt

\* main: skip leading blanks
RECURSIVE TrimLeading(_)
TrimLeading(s) == IF s # <<>> /\ IsSpace(Head(s)) THEN TrimLeading(Tail(s)) ELSE s

\* main skips an empty line and a comment
Skipped(t) == t = <<>> \/ t[1] = "#"

\* log_add_command's test for "log" as the first command name: the line
\* starts with `log` followed by the end or a blank
StartsWithLog(t) == t # <<>> /\ t[1] = "log" /\ Ch(t, 2) \in {NUL, " ", "\t"}

\* the lines log_add_command records
LoggedLines == {TrimLeading(l) : l \in {l \in Lines : ~Skipped(TrimLeading(l))
                                                     /\ ~StartsWithLog(TrimLeading(l))}}

Log == INSTANCE ShellLog WITH Cmds <- LoggedLines

-----------------------------------------------------------------------------
(* execute_full_command: split on `;` and `&`, dropping the blanks around   *)
(* each group and the empty groups.  The `&` flag is not kept: it only     *)
(* decides whether a forked child is waited for, which is ShellJobs' part. *)

RECURSIVE TrimTrailing(_)
TrimTrailing(s) ==
    IF s # <<>> /\ IsSpace(s[Len(s)]) THEN TrimTrailing(SubSeq(s, 1, Len(s) - 1)) ELSE s

Group(cur) == IF TrimTrailing(cur) = <<>> THEN <<>> ELSE <<TrimTrailing(cur)>>

RECURSIVE SplitFrom(_, _, _)

\* Splits on `;` only, leaving `&` inside a group.
SplitFromSemicolonOnly(s, i, cur) ==
    CASE i > Len(s)          -> Group(cur)
      [] s[i] = ";"          -> Group(cur) \o SplitFrom(s, i + 1, <<>>)
      [] cur = <<>> /\ IsSpace(s[i]) -> SplitFrom(s, i + 1, cur)
      [] OTHER               -> SplitFrom(s, i + 1, Append(cur, s[i]))

SplitFrom(s, i, cur) ==
    CASE i > Len(s)           -> Group(cur)
      [] s[i] \in {";", "&"}  -> Group(cur) \o SplitFrom(s, i + 1, <<>>)
      [] cur = <<>> /\ IsSpace(s[i]) -> SplitFrom(s, i + 1, cur)
      [] OTHER                -> SplitFrom(s, i + 1, Append(cur, s[i]))

CommandGroups(s) == SplitFrom(s, 1, <<>>)

(* parse_command: the words of a command, whether it has a redirection     *)
(* with a file name, and the last output file name (NoFile if none).      *)
IsWordChar(c) == c # NUL /\ ~IsSpace(c) /\ c \notin {"<", ">"}

RECURSIVE WordEnd(_, _)
WordEnd(s, i) == IF IsWordChar(Ch(s, i)) THEN WordEnd(s, i + 1) ELSE i

RECURSIVE ParseCommandFrom(_, _, _)
ParseCommandFrom(s, i, cmd) ==
    LET j  == SkipWhitespace(s, i)
        k  == SkipWhitespace(s, IF Ch(s, j) = ">" /\ Ch(s, j + 1) = ">" THEN j + 2 ELSE j + 1)
        e  == WordEnd(s, k)
        we == WordEnd(s, j)
    IN CASE Ch(s, j) = NUL        -> cmd
         [] Ch(s, j) \in {"<", ">"} ->
                ParseCommandFrom(s, e,
                  CASE e = k          -> cmd
                    [] Ch(s, j) = ">" -> [cmd EXCEPT !.redirected = TRUE, !.out = SubSeq(s, k, e - 1)]
                    [] OTHER          -> [cmd EXCEPT !.redirected = TRUE])
         [] OTHER -> ParseCommandFrom(s, we, [cmd EXCEPT !.args = Append(@, SubSeq(s, j, we - 1))])

NoFile == <<>>

ParseCommand(s) == ParseCommandFrom(s, 1, [args |-> <<>>, redirected |-> FALSE, out |-> NoFile])

\* execute_pipeline: the commands between the `|`s, blanks kept
RECURSIVE PipeFrom(_, _, _)
PipeFrom(s, i, cur) ==
    CASE i > Len(s)  -> <<cur>>
      [] s[i] = "|"  -> <<cur>> \o PipeFrom(s, i + 1, <<>>)
      [] OTHER       -> PipeFrom(s, i + 1, Append(cur, s[i]))

PipeCommands(s) == PipeFrom(s, 1, <<>>)

\* execute_pipeline with one command and execute_single_command: an
\* intrinsic without redirection runs in the shell, backgrounded or not
InShell(seg, name) ==
    /\ Len(PipeCommands(seg)) = 1
    /\ LET cmd == ParseCommand(seg) IN
       cmd.args # <<>> /\ cmd.args[1] = <<name>> /\ ~cmd.redirected

(* The lines, their groups and the groups' commands are fixed by Lines:    *)
(* the tables below hold what the functions above make of each, so that   *)
(* they are computed once.                                                 *)
Typed == {TrimLeading(l) : l \in Lines}
Syntax == [t \in Typed |-> ParseInput(t)]
GroupsOf == [t \in Typed |-> CommandGroups(t)]
Segments == UNION {{GroupsOf[t][k] : k \in DOMAIN GroupsOf[t]} : t \in Typed}
ArgsOf == [g \in Segments |-> ParseCommand(g).args]
RunsHop == [g \in Segments |-> InShell(g, "hop")]
RunsLog == [g \in Segments |-> InShell(g, "log")]
RunsReveal == [g \in Segments |-> InShell(g, "reveal")]

\* the output file of a group run in children: execute_single_command's
\* command, or the last command of the pipeline, if it has a name
OutputOf == [g \in Segments |->
               LET last == ParseCommand(PipeCommands(g)[Len(PipeCommands(g))])
               IN IF last.args # <<>> THEN last.out ELSE NoFile]

-----------------------------------------------------------------------------
(* cmd_hop, over the shell's [cwd, prev] and the argument words.  chdir    *)
(* fails on a directory that does not exist; getcwd never fails, as no     *)
(* directory is removed here.                                              *)

Parent(d) == IF d = <<>> THEN d ELSE SubSeq(d, 1, Len(d) - 1)

\* the loop over the arguments, from argument i; the first failing chdir
\* returns with what the earlier arguments did
RECURSIVE HopFrom(_, _, _)
HopFrom(st, args, i) ==
    LET arg    == args[i]
        target == CASE arg = <<"~">>  -> Home
                    [] arg = <<"..">> -> Parent(st.cwd)
                    [] arg = <<"-">>  -> st.prev
                    [] OTHER          -> st.cwd \o <<arg>>
        skip   == arg = <<".">> \/ (arg = <<"-">> /\ st.prev = NoDir)
    IN CASE i > Len(args)      -> st
         [] skip               -> HopFrom(st, args, i + 1)
         [] target \notin Dirs -> st
         [] OTHER              -> HopFrom([cwd |-> target, prev |-> st.cwd], args, i + 1)

\* hop without arguments goes home and sets prev_dir to the new getcwd
CmdHop(st, args) ==
    IF Len(args) = 1 THEN [cwd |-> Home, prev |-> Home] ELSE HopFrom(st, args, 2)

\* atoi: the value of the leading digits
DigitChars == <<"0", "1", "2", "3", "4", "5", "6", "7", "8", "9">>

DigitValue(c) == CHOOSE v \in 0..9 : DigitChars[v + 1] = c

RECURSIVE AtoiFrom(_, _, _)
AtoiFrom(w, i, acc) ==
    IF i <= Len(w) /\ \E v \in 0..9 : DigitChars[v + 1] = w[i]
    THEN AtoiFrom(w, i + 1, 10 * acc + DigitValue(w[i]))
    ELSE acc

Atoi(w) == AtoiFrom(w, 1, 0)

-----------------------------------------------------------------------------
(* cmd_reveal.  A directory entry is named by a sequence of characters;    *)
(* the entries of a directory are `.`, `..`, its subdirectories, the      *)
(* files children created in it, and in the home directory ~/.shell_log   *)
(* once log.c has written it.  readdir                                    *)
(* returns them in an order the file system chooses.  What is printed is  *)
(* kept as [err, dir, names]: an error message, or the directory listed    *)
(* and the names in the order printed; -l only changes the separator.     *)

DirEntries(d, fe, fs) ==
    {<<".">>, <<".", ".">>}
    \cup {c[Len(c)] : c \in {c \in Dirs : c # <<>> /\ Parent(c) = d}}
    \cup {f[2] : f \in {f \in fs : f[1] = d}}
    \cup (IF d = Home /\ fe THEN {LogFile} ELSE {})

\* the entries skipped without -a
Hidden(n) == n[1] = "."

\* strcmp: the difference of the first differing bytes, the terminating
\* NUL counting as 0
RECURSIVE StrcmpFrom(_, _, _)
StrcmpFrom(s, t, i) ==
    LET a == IF i <= Len(s) THEN CharCode[s[i]] ELSE 0
        b == IF i <= Len(t) THEN CharCode[t[i]] ELSE 0
    IN IF a # b \/ a = 0 THEN a - b ELSE StrcmpFrom(s, t, i + 1)

\* Compares the first bytes only.
CompareFirstByte(a, b) == CharCode[a[1]] - CharCode[b[1]]

\* compare_entries, the comparator qsort is given
CompareEntries(a, b) == StrcmpFrom(a, b, 1)

\* the entries kept, without the hidden ones unless -a is given
Shown(d, all, fe, fs) == {n \in DirEntries(d, fe, fs) : all \/ ~Hidden(n)}

\* the files a child may create: a group's output file in any directory
Creatable == Dirs \X ({OutputOf[g] : g \in Segments} \ {NoFile})

\* the entries read, in any order readdir returns them, then sorted by
\* qsort; computed once for every set of entries a directory can hold
ListingTable ==
    [S \in {Shown(d, all, fe, fs) : d \in Dirs, all \in BOOLEAN, fe \in BOOLEAN,
                                   fs \in SUBSET Creatable} |->
       {SeqX!SortSeq(o, LAMBDA a, b : CompareEntries(a, b) < 0) : o \in SeqX!SetToSeqs(S)}]

IsFlag(w) == Len(w) > 1 /\ w[1] = "-"

\* the loop over the arguments from argument i: flags set show_hidden, a
\* word that is not a flag is resolved as the target; it returns at the
\* first invalid flag, second directory, or `-` with no prev_dir
RECURSIVE RevealFrom(_, _, _, _)
RevealFrom(st, args, i, r) ==
    LET w      == args[i]
        target == CASE w = <<"~">>  -> Home
                    [] w = <<".">>  -> st.cwd
                    [] w = <<"..">> -> Parent(st.cwd)
                    [] w = <<"-">>  -> st.prev
                    [] OTHER        -> st.cwd \o <<w>>
    IN CASE i > Len(args) -> r
         [] IsFlag(w) /\ \E j \in 2..Len(w) : w[j] \notin {"a", "l"} ->
               [r EXCEPT !.err = "InvalidFlag"]
         [] IsFlag(w) ->
               RevealFrom(st, args, i + 1, [r EXCEPT !.all = @ \/ "a" \in SeqX!Range(w)])
         [] r.count = 1 -> [r EXCEPT !.err = "InvalidSyntax"]
         [] w = <<"-">> /\ st.prev = NoDir -> [r EXCEPT !.err = "NoSuchDirectory"]
         [] OTHER -> RevealFrom(st, args, i + 1, [r EXCEPT !.count = 1, !.dir = target])

NoOutput == [err |-> "", dir |-> <<>>, names |-> <<>>]

Error(e) == [NoOutput EXCEPT !.err = e]

\* with no directory argument the target is getcwd; opendir fails on a
\* directory that does not exist
CmdReveal(st, args, fe, fs) ==
    LET r == RevealFrom(st, args, 2, [err |-> "", all |-> FALSE, count |-> 0, dir |-> st.cwd])
    IN CASE r.err # ""       -> {Error(r.err)}
         [] r.dir \notin Dirs -> {Error("NoSuchDirectory")}
         [] OTHER            -> {[err |-> "", dir |-> r.dir, names |-> n] :
                                    n \in ListingTable[Shown(r.dir, r.all, fe, fs)]}

-----------------------------------------------------------------------------
(* display_prompt: the path getcwd returns, with home_dir replaced by `~`  *)
(* where it is a prefix of it.  User and host name are left out.           *)

\* getcwd: `/` and each name, or `/` alone for the root
PathChars(d) ==
    IF d = <<>> THEN <<"/">>
    ELSE SeqX!FoldLeft(LAMBDA acc, n : acc \o <<"/">> \o n, <<>>, d)

\* Replaces home_dir by `~` wherever it is a prefix of the path.
DisplayPathPrefixOnly(d) ==
    LET c == PathChars(d)
        n == Len(PathChars(Home))
    IN IF Len(c) >= n /\ SubSeq(c, 1, n) = PathChars(Home)
       THEN <<"~">> \o SubSeq(c, n + 1, Len(c))
       ELSE c

\* the strncmp test, then the byte after home_dir: the end, a `/`, or
\* another byte of a longer name
DisplayPath(d) ==
    LET c == PathChars(d)
        n == Len(PathChars(Home))
    IN CASE ~(Len(c) >= n /\ SubSeq(c, 1, n) = PathChars(Home)) -> c
         [] Len(c) = n     -> <<"~">>
         [] c[n + 1] = "/" -> <<"~">> \o SubSeq(c, n + 1, Len(c))
         [] OTHER          -> c

-----------------------------------------------------------------------------
Init ==
    /\ Log!Init
    /\ cwd = Home /\ prev_dir = NoDir
    /\ frames = <<>> /\ crashed = FALSE
    /\ printed = NoOutput
    /\ created = {}

\* the command group the innermost execute_full_command runs next, and the
\* stack once it is taken
NextGroup == Head(frames[Len(frames)])
Taken == [frames EXCEPT ![Len(frames)] = Tail(@)]

\* A line is read at the prompt: main trims it, skips it if empty or a
\* comment, has log_add_command record it, and runs it through
\* process_input: parse_input, then execute_full_command.
ReadLine(l) ==
    LET t == TrimLeading(l) IN
    /\ ~crashed /\ frames = <<>>
    /\ ~Skipped(t)
    /\ IF StartsWithLog(t)
       THEN Log!Store(Log!Loaded) /\ UNCHANGED <<file_exists, file, ran>>
       ELSE Log!AddCommand(t)
    /\ frames' = IF Syntax[t] THEN <<GroupsOf[t]>> ELSE <<>>
    /\ printed' = NoOutput
    /\ UNCHANGED <<cwd, prev_dir, crashed, created>>

\* execute_full_command has run its last group and returns
Return ==
    /\ ~crashed /\ frames # <<>> /\ frames[Len(frames)] = <<>>
    /\ frames' = SubSeq(frames, 1, Len(frames) - 1)
    /\ printed' = NoOutput
    /\ UNCHANGED <<logVars, cwd, prev_dir, crashed, created>>

\* a group that runs in a forked child (a pipeline, an external command, a
\* redirected intrinsic), an empty one, or an intrinsic other than hop,
\* log and reveal: nothing of the shell's state modelled here changes but
\* the file system.  A child with an output file opens it with O_CREAT in
\* the directory it was forked in, the shell's, before it execs.
RunElsewhere ==
    LET out == OutputOf[NextGroup] IN
    /\ ~crashed /\ frames # <<>> /\ frames[Len(frames)] # <<>>
    /\ ~RunsHop[NextGroup] /\ ~RunsLog[NextGroup] /\ ~RunsReveal[NextGroup]
    /\ frames' = Taken
    /\ printed' = NoOutput
    /\ created' = IF out # NoFile THEN created \cup {<<cwd, out>>} ELSE created
    /\ UNCHANGED <<logVars, cwd, prev_dir, crashed>>

RunHop ==
    LET st == CmdHop([cwd |-> cwd, prev |-> prev_dir], ArgsOf[NextGroup]) IN
    /\ ~crashed /\ frames # <<>> /\ frames[Len(frames)] # <<>>
    /\ RunsHop[NextGroup]
    /\ cwd' = st.cwd /\ prev_dir' = st.prev
    /\ frames' = Taken
    /\ printed' = NoOutput
    /\ UNCHANGED <<logVars, crashed, created>>

\* cmd_log: print, purge, or execute the index-th newest entry, which
\* parse_input checks and execute_full_command runs in a new frame; any
\* other arguments print "log: Invalid Syntax!"
RunLog ==
    LET args  == ArgsOf[NextGroup]
        b     == Log!Loaded
        index == Atoi(args[3])
        entry == b.e[(b.st + b.n - index) % MaxLog]
    IN
    /\ ~crashed /\ frames # <<>> /\ frames[Len(frames)] # <<>>
    /\ RunsLog[NextGroup]
    /\ CASE Len(args) = 2 /\ args[2] = <<"purge">> ->
              Log!LogPurge /\ frames' = Taken /\ UNCHANGED crashed
         [] Len(args) = 3 /\ args[2] = <<"execute">> /\ index \in 1..b.n
                          /\ Syntax[entry] ->
              /\ Log!LogExecute(index)
              /\ IF Len(frames) < MaxDepth
                 THEN frames' = Append(Taken, GroupsOf[entry]) /\ UNCHANGED crashed
                 ELSE crashed' = TRUE /\ UNCHANGED frames
         [] Len(args) = 3 /\ args[2] = <<"execute">> ->
              Log!LogExecute(index) /\ frames' = Taken /\ UNCHANGED crashed
         [] OTHER ->
              Log!LogPrint /\ frames' = Taken /\ UNCHANGED crashed
    /\ printed' = NoOutput
    /\ UNCHANGED <<cwd, prev_dir, created>>

\* cmd_reveal, run in the shell; it reads the directories and the log file
\* and changes nothing
RunReveal ==
    /\ ~crashed /\ frames # <<>> /\ frames[Len(frames)] # <<>>
    /\ RunsReveal[NextGroup]
    /\ printed' \in CmdReveal([cwd |-> cwd, prev |-> prev_dir], ArgsOf[NextGroup],
                              file_exists, created)
    /\ frames' = Taken
    /\ UNCHANGED <<logVars, cwd, prev_dir, crashed, created>>

\* fgets reads EOF: the shell logs out; or it died; it is started again in
\* its home directory.  Its children and their files outlive it.
Restart ==
    /\ frames = <<>> \/ crashed
    /\ Log!Restart
    /\ cwd' = Home /\ prev_dir' = NoDir
    /\ frames' = <<>> /\ crashed' = FALSE
    /\ printed' = NoOutput
    /\ UNCHANGED created

Step == Return \/ RunElsewhere \/ RunHop \/ RunLog \/ RunReveal

Next == (\E l \in Lines : ReadLine(l)) \/ Step \/ Restart

\* The shell runs its own steps whenever it can; the user may stop typing.
Spec == Init /\ [][Next]_vars /\ WF_vars(Step)

-----------------------------------------------------------------------------
TypeOK ==
    /\ Log!TypeOK
    /\ cwd \in Dirs /\ prev_dir \in Dirs \cup {NoDir}
    /\ frames \in Seq(Seq(Seq(STRING))) /\ Len(frames) <= MaxDepth
    /\ crashed \in BOOLEAN
    /\ printed.err \in {"", "InvalidFlag", "InvalidSyntax", "NoSuchDirectory"}
    /\ printed.dir \in Dirs \cup {<<>>}
    /\ created \subseteq Creatable

\* The log ring buffer and ~/.shell_log, driven by the lines the shell
\* reads and the `log` commands they contain, behave as the history of the
\* newest MaxLog lines (HistorySpec).
HistoryRefinement == Log!HistoryRefinement

\* Every line the shell reads is run to its end and the shell comes back
\* to the prompt: execute_full_command, and every `log execute` nested in
\* it, returns.
LineReturns == (frames # <<>>) ~> (frames = <<>> /\ ~crashed)

\* s comes before t in the order of their bytes: a proper prefix first,
\* else by the first byte where they differ
ByteBefore(s, t) ==
    \/ Len(s) < Len(t) /\ s = SubSeq(t, 1, Len(s))
    \/ \E k \in 1..Len(s) : /\ k <= Len(t)
                            /\ SubSeq(s, 1, k - 1) = SubSeq(t, 1, k - 1)
                            /\ CharCode[s[k]] < CharCode[t[k]]

\* the directory `hop` enters when given reveal's directory argument, and
\* the current directory when there is none
HopTarget(args) ==
    LET dirs == SelectSeq(Tail(args), LAMBDA w : ~IsFlag(w)) IN
    IF dirs = <<>> THEN cwd
    ELSE HopFrom([cwd |-> cwd, prev |-> prev_dir], <<<<"hop">>>> \o dirs, 2).cwd

\* A listing reveal prints is that of the directory hop would enter with
\* the same argument (~, ., .., -, or a name, resolved by the two commands'
\* separate code), holds every entry of it except the hidden ones (all of
\* them with -a) once, and is in strictly increasing byte order.
RevealListsTarget ==
    [][printed' # NoOutput /\ printed'.err = "" =>
         LET args  == ArgsOf[NextGroup]
             all   == \E k \in 2..Len(args) : IsFlag(args[k]) /\ "a" \in SeqX!Range(args[k])
             names == printed'.names
         IN /\ printed'.dir = HopTarget(args)
            /\ SeqX!Range(names) = {n \in DirEntries(printed'.dir, file_exists, created) : all \/ ~Hidden(n)}
            /\ \A i \in 1..Len(names) - 1 : ByteBefore(names[i], names[i + 1])]_vars

\* The prompt the shell shows before reading a line starts with `~` exactly
\* when the working directory is home_dir or beneath it, and then shows
\* the rest of the path below home_dir; display_prompt decides this by a
\* prefix test on the two strings.
PromptShowsHome ==
    frames = <<>> =>
        LET p == DisplayPath(cwd)
            beneath == Len(cwd) >= Len(Home) /\ SubSeq(cwd, 1, Len(Home)) = Home
        IN /\ (p[1] = "~") <=> beneath
           /\ beneath => p = <<"~">> \o SeqX!FoldLeft(LAMBDA acc, n : acc \o <<"/">> \o n,
                                                  <<>>, SubSeq(cwd, Len(Home) + 1, Len(cwd)))
====
