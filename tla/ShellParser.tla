----------------------------- MODULE ShellParser -----------------------------
(***************************************************************************)
(* The shell's syntax check (src/shell/src/parser.c): parse_input and the  *)
(* recursive-descent functions it calls, over an input given as a          *)
(* sequence of characters.  A function returning the pointer past what it  *)
(* read returns a position here (1-based), and 0 where it returns NULL.    *)
(*                                                                         *)
(* A "character" is any string other than NUL: the shell model uses whole  *)
(* words such as "hop" as one character, which parse_name reads exactly   *)
(* as it reads the word's letters, since all of them are name characters. *)
(*                                                                         *)
(* GrammarAccepts is the grammar stated in the comments of parser.c,       *)
(* written over tokens, as the reference the functions are checked         *)
(* against.                                                                *)
(***************************************************************************)
EXTENDS Naturals, Sequences

NUL == ""

\* the character at position i, NUL past the end of the string
Ch(s, i) == IF i \in 1..Len(s) THEN s[i] ELSE NUL

IsSpecialChar(c) == c \in {"|", "&", ">", "<", ";"}

IsSpace(c) == c \in {" ", "\t"}

IsNameChar(c) == c # NUL /\ ~IsSpace(c) /\ ~IsSpecialChar(c)

RECURSIVE SkipWhitespace(_, _)
SkipWhitespace(s, i) == IF IsSpace(Ch(s, i)) THEN SkipWhitespace(s, i + 1) ELSE i

RECURSIVE NameEnd(_, _)
NameEnd(s, i) == IF IsNameChar(Ch(s, i)) THEN NameEnd(s, i + 1) ELSE i

\* parse_name: NULL when no name character is read (malloc is not modelled
\* to fail)
ParseName(s, i) == IF NameEnd(s, i) = i THEN 0 ELSE NameEnd(s, i)

ParseInputRedir(s, i) ==
    IF Ch(s, i) # "<" THEN 0 ELSE ParseName(s, SkipWhitespace(s, i + 1))

\* Reads `>>` as `>` and then a name, so `>>` never parses.
ParseOutputRedirNoAppend(s, i) ==
    IF Ch(s, i) # ">" THEN 0 ELSE ParseName(s, SkipWhitespace(s, i + 1))

ParseOutputRedir(s, i) ==
    IF Ch(s, i) # ">" THEN 0
    ELSE LET j == IF Ch(s, i + 1) = ">" THEN i + 2 ELSE i + 1
         IN ParseName(s, SkipWhitespace(s, j))

\* the loop of parse_atomic, from position i
RECURSIVE AtomicRest(_, _)
AtomicRest(s, i) ==
    LET j == SkipWhitespace(s, i)
        r == ParseInputRedir(s, j)
        o == ParseOutputRedir(s, j)
        n == ParseName(s, j)
    IN CASE Ch(s, j) \in {NUL, "|", "&", ";"} -> j
         [] r # 0 -> AtomicRest(s, r)
         [] o # 0 -> AtomicRest(s, o)
         [] n # 0 -> AtomicRest(s, n)
         [] OTHER -> 0

ParseAtomic(s, i) ==
    LET n == ParseName(s, SkipWhitespace(s, i)) IN
    IF n = 0 THEN 0 ELSE AtomicRest(s, n)

\* the loop of parse_cmd_group: (`|` atomic)*
RECURSIVE GroupRest(_, _)
GroupRest(s, i) ==
    LET j == SkipWhitespace(s, i)
        n == ParseAtomic(s, SkipWhitespace(s, j + 1))
    IN IF Ch(s, j) # "|" THEN j
       ELSE IF n = 0 THEN 0 ELSE GroupRest(s, n)

ParseCmdGroup(s, i) ==
    LET n == ParseAtomic(s, SkipWhitespace(s, i)) IN
    IF n = 0 THEN 0 ELSE GroupRest(s, n)

\* the loop of parse_input after the first group; TRUE where it breaks
\* at the end of the input
RECURSIVE InputRest(_, _)
InputRest(s, i) ==
    LET j == SkipWhitespace(s, i)
        k == SkipWhitespace(s, j + 1)
        n == ParseCmdGroup(s, k)
    IN CASE Ch(s, j) = NUL -> TRUE
         [] Ch(s, j) = "&" /\ Ch(s, k) = NUL -> TRUE
         [] Ch(s, j) \in {"&", ";"} -> n # 0 /\ InputRest(s, n)
         [] OTHER -> FALSE

ParseInput(s) ==
    LET i == SkipWhitespace(s, 1) IN
    \/ Ch(s, i) = NUL
    \/ ParseCmdGroup(s, i) # 0 /\ InputRest(s, ParseCmdGroup(s, i))

-----------------------------------------------------------------------------
(* The grammar of the comments of parser.c:                                *)
(*   shell_cmd -> cmd_group ((& | ;) cmd_group)* &?                        *)
(*   cmd_group -> atomic (| atomic)*                                       *)
(*   atomic    -> name (name | input | output)*                            *)
(*   input -> < name        output -> > name | >> name                     *)
(* with whitespace allowed between tokens, and `>>` a token of its own.    *)

\* the tokens of s: maximal runs of name characters, `>>`, and the
\* special characters; whitespace separates them
RECURSIVE Tokens(_)
Tokens(s) ==
    IF s = <<>> THEN <<>>
    ELSE IF IsSpace(Head(s)) THEN Tokens(Tail(s))
    ELSE IF Head(s) = ">" /\ Len(s) > 1 /\ s[2] = ">"
         THEN <<">>">> \o Tokens(SubSeq(s, 3, Len(s)))
    ELSE IF IsSpecialChar(Head(s)) THEN <<Head(s)>> \o Tokens(Tail(s))
    ELSE LET e == NameEnd(s, 1) IN
         <<"name">> \o Tokens(SubSeq(s, e, Len(s)))

Drop(t, k) == SubSeq(t, k + 1, Len(t))

RECURSIVE Items(_)
Items(t) ==
    \/ t = <<>>
    \/ t[1] = "name" /\ Items(Tail(t))
    \/ Len(t) > 1 /\ t[1] \in {"<", ">", ">>"} /\ t[2] = "name" /\ Items(Drop(t, 2))

Atomic(t) == t # <<>> /\ t[1] = "name" /\ Items(Tail(t))

\* t is a list of items of form Item separated by one of the tokens Seps
RECURSIVE SepList(_, _, _)
SepList(Item(_), Seps, t) ==
    \/ Item(t)
    \/ \E k \in 1..Len(t) : /\ t[k] \in Seps
                            /\ Item(SubSeq(t, 1, k - 1))
                            /\ SepList(Item, Seps, Drop(t, k))

CmdGroup(t) == SepList(Atomic, {"|"}, t)

GrammarAccepts(s) ==
    LET t == Tokens(s) IN
    \/ t = <<>>
    \/ SepList(CmdGroup, {"&", ";"}, t)
    \/ t[Len(t)] = "&" /\ SepList(CmdGroup, {"&", ";"}, SubSeq(t, 1, Len(t) - 1))
====
