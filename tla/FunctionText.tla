---------------------------- MODULE FunctionText ----------------------------
(***************************************************************************)
(* isSafeArgs and isSafeReturns of pkg/postgres/customrole_functions.go:   *)
(* which texts may stand in a CREATE FUNCTION statement.  A text is a      *)
(* sequence of characters; the letters SETOF, in either case, count as     *)
(* one, and so does every other run of letters.                            *)
(***************************************************************************)
EXTENDS Integers, Sequences, SequencesExt

pairIn(s, pair) == \E i \in 1..(Len(s) - 1) : SubSeq(s, i, i + 1) = pair

\* Quotes, ends of statements and comments.
forbidden(s) ==
    \/ \E i \in DOMAIN s : s[i] \in {";", "'"}
    \/ pairIn(s, <<"-", "-">>) \/ pairIn(s, <<"/", "*">>)

opening == "("
closing == ")"
blank == " "
setof == "SETOF"

Refused == -1

\* One turn of the loop over the characters: the depth of the parentheses, or
\* Refused for good.
nesting(blanks, depth, c) ==
    IF depth = Refused \/ (depth = 0 /\ c \in blanks) THEN Refused
    ELSE CASE c = opening -> depth + 1
           [] c = closing -> depth - 1
           [] OTHER -> depth

nestingOf(blanks, s) ==
    LET depth[n \in 0..Len(s)] == IF n = 0 THEN 0 ELSE nesting(blanks, depth[n - 1], s[n])
    IN  depth[Len(s)]

isSafeArgs(s) == ~forbidden(s) /\ nestingOf({}, s) = 0

whiteSpace == {blank, "\t", "\n", "\r"}

\* Mutant: the end of the text is not looked at.
neverClosed(s) ==
    LET rest == IF IsPrefix(<<setof, blank>>, s) THEN SubSeq(s, 3, Len(s)) ELSE s
    IN  ~forbidden(s) /\ nestingOf(whiteSpace, rest) # Refused

isSafeReturns(s) ==
    LET rest == IF IsPrefix(<<setof, blank>>, s) THEN SubSeq(s, 3, Len(s)) ELSE s
    IN  ~forbidden(s) /\ nestingOf(whiteSpace, rest) = 0

-----------------------------------------------------------------------------
(* The same by counting, in the text as PostgreSQL reads it.               *)

quote == "\""
formFeed == "\f"

count(s, c, n) == Cardinality({i \in 1..n : s[i] = c})
open(s, n) == count(s, opening, n) - count(s, closing, n)

\* No parenthesis closes what the text has not opened, and none is left open.
balanced(s) == (\A n \in 0..Len(s) : open(s, n) >= 0) /\ open(s, Len(s)) = 0

\* What the loops take for other characters: double quotes, which make a name of
\* everything between two of them, the $ of dollar quotes, and a form feed.
plain(s) == \A i \in DOMAIN s : s[i] \notin {quote, "$", formFeed}

\* In a quoted name, parentheses and blanks are letters.
quotedName(s, i) == count(s, quote, i) % 2 = 1
read(s) == [i \in 1..Len(s) |-> IF quotedName(s, i) THEN quote ELSE s[i]]

\* Every blank is inside parentheses, but for the one after SETOF.
oneWord(s) ==
    \A i \in DOMAIN s :
        s[i] \in whiteSpace \cup {formFeed} => open(s, i) > 0 \/ (i = 2 /\ s[1] = setof)
=============================================================================
