------------------------------- MODULE MC_Shell -------------------------------
(***************************************************************************)
(* Instances of Shell for TLC.                                             *)
(***************************************************************************)
EXTENDS Shell

All      == {"V", "_", "1", "2", " ", "'", "\"", "\\", "$", "{", "}", "#", "=", "<", ">", "&",
             "|", "~", "bq"}
Quoting  == {"V", "'", "\"", "\\", "$", " "}
Redirecting == {"V", "1", "2", "<", ">", "&", " "}

Seqs(S, n) == UNION {[1 .. k -> S] : k \in 0 .. n}

\* A command and up to three redirections, among them copies of copies.
Lexemes == {<<">", "V">>, <<"2", ">", "&", "1">>, <<"1", ">", "&", "2">>, <<"3", ">", "&", "2">>,
            <<"2", ">", "&", "3">>, <<"3", "<", " ", "V">>, <<"2", ">", ">", "V">>, <<"<", "&", "3">>}
Commands == {<<"V">> \o FlattenSeq([k \in 1 .. Len(r) |-> <<" ">> \o r[k]]) :
               r \in Seqs(Lexemes, 3)}
\* Three words: assignments, values that vanish or are split, empty words, a command.
Piece    == {<<"V", "=", "$", "V">>, <<"_", "=", "V">>, <<"V", "=">>, <<"$", "V">>, <<"V">>,
             <<"V", "\"", "$", "V", "\"", "$", "V">>, <<"$", "{", "V", "}", "1">>,
             <<"V", "=", "\"", "$", "V", "\"">>, <<"\"", "\"">>}
Assigned == {a \o <<" ">> \o b \o <<" ">> \o c : a, b, c \in Piece}

MCLines  == Seqs(All, 3) \cup Seqs(Quoting, 5) \cup Seqs(Redirecting, 5) \cup Commands \cup Assigned
MCValues == {Unset, << >>, <<"V", " ", "1">>, <<" ", "V">>, <<"*">>}
\* Lines with an operator after >&1.
Few      == {<<"V", " ", ">", "&", "1">> \o s \o <<"V">> : s \in Seqs({" ", ">", "&", "|"}, 2) \ {<< >>}}
NoValues == {Unset, << >>}
\* Lines and values for patterns.
Patterns == {<<"V", " ">> \o s : s \in Seqs(Quoting, 3)}
Globs    == {Unset, << >>, <<"V">>, <<"V", " ", "*">>}
===============================================================================
