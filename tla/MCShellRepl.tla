----------------------------- MODULE MCShellRepl -----------------------------
(* The shell started in /h, where /h/a and /h/B exist, beside /hh, whose  *)
(* path has /h as a string prefix; a three-entry log, so that the ring     *)
(* wraps; a stack of three execute_full_command frames, one more than a    *)
(* typed `log execute` needs.                                              *)
(*                                                                         *)
(* The lines: hop into a directory; hop up, back with `-` and home in two  *)
(* groups; home, then a pipeline and a redirected hop in the background,  *)
(* which run in children, the second creating b in home; a line          *)
(* parse_input refuses (it is logged first); the three    *)
(* forms of `log`; a comment; a line whose second group is `log execute   *)
(* 1`, which log_add_command records; and two lines of reveal, with -a,    *)
(* -l, an invalid flag, two directories and each form of argument, the    *)
(* second ending with a hop to /hh.                                        *)
EXTENDS ShellRepl, FiniteSets

MCHome == <<<<"h">>>>
MCDirs == {<<>>, MCHome, MCHome \o <<<<"a">>>>, MCHome \o <<<<"B">>>>, <<<<"h", "h">>>>}

\* ".shell_log", and the ASCII code of every character of an entry name
MCLogFile == <<".", "s", "h", "e", "l", "l", "_", "l", "o", "g">>
MCCharCode == [c \in {".", "B", "_", "a", "b", "e", "g", "h", "l", "o", "s"} |->
                 CASE c = "." -> 46 [] c = "B" -> 66  [] c = "_" -> 95
                   [] c = "a" -> 97 [] c = "b" -> 98 [] c = "e" -> 101 [] c = "g" -> 103
                   [] c = "h" -> 104 [] c = "l" -> 108 [] c = "o" -> 111
                   [] c = "s" -> 115]

ReplLines ==
    { <<"hop", " ", "a">>,
      <<"hop", " ", "..", " ", "-", ";", "hop">>,
      <<"hop", ";", "a", "|", "b", ";", "hop", " ", "a", ">", "b", "&">>,
      <<"hop", " ", "<">>,
      <<"log">>,
      <<"log", " ", "purge">>,
      <<"log", " ", "execute", " ", "1">>,
      <<" ", "#">>,
      <<"a", " ", ";", " ", "log", " ", "execute", " ", "1">>,
      <<"reveal", " ", "-", "a", " ", "~", ";", "reveal", " ", "-", ";",
        "reveal", " ", "a">>,
      <<"reveal", " ", "-", "l", " ", "..", ";", "reveal", " ", "-", "x", "a", ";",
        "reveal", " ", ".", " ", "a", ";", "hop", " ", "..", " ", "h", "h">> }

\* the strings of length at most n over a small alphabet of one name
\* character, a blank and the five special characters
ParserAlphabet == {"a", " ", "|", "&", ";", "<", ">"}

RECURSIVE Strings(_)
Strings(n) == IF n = 0 THEN {<<>>}
              ELSE Strings(n - 1) \cup {s \o <<c>> : s \in Strings(n - 1), c \in ParserAlphabet}

ParserInputs == Strings(6)

\* the lines in the history, which `log execute` parses and runs again
Entries == {log_entries[k] : k \in Log!Idx} \ {NoCmd}

GrammarMismatches == {s \in ParserInputs : ParseInput(s) # GrammarAccepts(s)}

\* parse_input, parse_cmd_group, parse_atomic and the redirection parsers
\* accept exactly the strings of the grammar in parser.c's comments: every
\* string of up to six characters, and every line in the history.
ParserMatchesGrammar ==
    /\ GrammarMismatches = {}
    /\ \A e \in Entries : Syntax[e] = GrammarAccepts(e)

\* the number of command groups in the grammar's reading of s: one more
\* than its `&` and `;` tokens, less a trailing `&`
GrammarGroupCount(s) ==
    LET t == Tokens(s) IN
    IF t = <<>> THEN 0
    ELSE Cardinality({k \in 1..Len(t) : t[k] \in {"&", ";"}}) + 1
         - (IF t[Len(t)] = "&" THEN 1 ELSE 0)

\* execute_full_command runs the grammar's groups of s, each a whole
\* cmd_group, and execute_pipeline hands parse_command only commands with
\* a name
SplitAgrees(s) ==
    /\ Len(CommandGroups(s)) = GrammarGroupCount(s)
    /\ \A k \in DOMAIN CommandGroups(s) :
          LET g == CommandGroups(s)[k] IN
          /\ ParseCmdGroup(g, 1) = Len(g) + 1
          /\ \A j \in DOMAIN PipeCommands(g) : ParseCommand(PipeCommands(g)[j]).args # <<>>

SplitMismatches == {s \in ParserInputs : ParseInput(s) /\ ~SplitAgrees(s)}

\* On every line parse_input accepts (the strings of up to six characters
\* and the lines in the history), execute_full_command runs exactly the
\* command groups of the grammar, so no group is lost, merged, or run as
\* an empty command.
ExecutorAgreesWithParser ==
    /\ SplitMismatches = {}
    /\ \A e \in Entries : Syntax[e] => SplitAgrees(e)
====
