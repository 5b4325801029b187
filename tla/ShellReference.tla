--------------------------- MODULE ShellReference ---------------------------
(***************************************************************************)
(* What a POSIX shell makes of a line that is a simple command: tokens,    *)
(* then expansions, then redirections one by one.  yc-shell.c reads the    *)
(* line once, character by character; this says the same in phases.        *)
(*                                                                         *)
(* A line is a sequence of characters, each a string: " " is any blank,    *)
(* "V" any letter, "bq" the backquote.  V is the only variable that is set;  *)
(* value is what it holds.                                                 *)
(***************************************************************************)
EXTENDS Integers, SequencesExt

Blank    == {" "}
Digits   == {"0", "1", "2", "3"}
Letters  == {"V", "_"}
NameChar == Letters \cup Digits
Glob     == {"*", "?", "["}
Special  == {"|", "&", ";", "(", ")", "*", "?", "[", "]", "{", "}", "bq", "!"}
Operator == {"<", ">", "|", "&", ";", "(", ")"}

Number(text) ==
  LET d == [c \in Digits |-> CASE c = "0" -> 0 [] c = "1" -> 1 [] c = "2" -> 2 [] c = "3" -> 3]
  IN  FoldLeft(LAMBDA v, c : v * 10 + d[c], 0, text)

(***************************************************************************)
(* Quoting.  Each character is bare, double (in double quotes, where $ and *)
(* ` are still special), quoted, or a mark that is removed in the end.     *)
(***************************************************************************)
Marked(line) ==
  LET At(i)    == IF i <= Len(line) THEN line[i] ELSE "end"
      Put(s, how, state) ==
        [out |-> Append(s.out, [ch |-> At(Len(s.out) + 1), how |-> how]), state |-> state]
      Start(s) == s.out = << >> \/ (Last(s.out).how = "bare"
                                    /\ Last(s.out).ch \in Blank \cup Operator)
      Char(s, c) ==
        LET next == At(Len(s.out) + 2)
        IN  CASE s.state = "comment" -> Put(s, "comment", "comment")
              [] s.state = "escaped" -> Put(s, "quoted", "bare")
              [] s.state = "escaped in double" -> Put(s, "quoted", "double")
              [] s.state = "single" -> IF c = "'" THEN Put(s, "mark", "bare")
                                       ELSE Put(s, "quoted", "single")
              [] s.state = "double" ->
                   IF c = "\"" THEN Put(s, "mark", "bare")
                   ELSE IF c = "\\" /\ next \in {"$", "\"", "\\", "bq"}
                        THEN Put(s, "mark", "escaped in double")
                   ELSE Put(s, IF c \in {"$", "bq"} \cup NameChar \cup {"{", "}"}
                               THEN "double" ELSE "quoted", "double")
              [] s.state = "bare" ->
                   IF c = "'" THEN Put(s, "mark", "single")
                   ELSE IF c = "\"" THEN Put(s, "mark", "double")
                   ELSE IF c = "\\" THEN (IF next = "end" THEN Put(s, "quoted", "bare")
                                          ELSE Put(s, "mark", "escaped"))
                   ELSE IF c = "#" /\ Start(s) THEN Put(s, "comment", "comment")
                   ELSE Put(s, "bare", "bare")
  IN  FoldLeft(Char, [out |-> << >>, state |-> "bare"], line)

(***************************************************************************)
(* Tokens: operators, the digits right before a redirection, words.        *)
(***************************************************************************)
TwoCharOps == {<<">", ">">>, <<"<", "<">>, <<">", "&">>, <<"<", "&">>, <<"<", ">">>, <<">", "|">>}

Chars(text) == [i \in DOMAIN text |-> text[i].ch]

TokensOf(m) ==
  LET Bare(i, S) == i <= Len(m) /\ m[i].how = "bare" /\ m[i].ch \in S
      WordEnd(i) == CHOOSE j \in i .. Len(m) : /\ j = Len(m) \/ Bare(j + 1, Blank \cup Operator)
                                               /\ \A k \in i .. j : ~ Bare(k, Blank \cup Operator)
      Token(i, j, kind) == [kind |-> kind, text |-> SubSeq(m, i, j)]
      From[i \in 1 .. Len(m) + 1] ==
        IF i > Len(m) THEN << >>
        ELSE IF Bare(i, Blank) THEN From[i + 1]
        ELSE IF Bare(i, {"<", ">"}) /\ Bare(i + 1, {"<", ">", "&", "|"})
                /\ <<m[i].ch, m[i + 1].ch>> \in TwoCharOps
             THEN <<Token(i, i + 1, "op")>> \o From[i + 2]
        ELSE IF Bare(i, Operator) THEN <<Token(i, i, "op")>> \o From[i + 1]
        ELSE LET j == WordEnd(i)
             IN  <<Token(i, j, IF /\ \A k \in i .. j : Bare(k, Digits)
                                  /\ Bare(j + 1, {"<", ">"})
                               THEN "io" ELSE "word")>> \o From[j + 1]
  IN  From[1]

Tokens(line) == TokensOf(SelectSeq(Marked(line).out, LAMBDA x : x.how # "comment"))

(***************************************************************************)
(* Lines that no shell runs, and lines that are more than a simple command *)
(* without substitutions.                                                  *)
(***************************************************************************)
Redirects(tokens) == {i \in DOMAIN tokens : /\ tokens[i].kind = "op"
                                            /\ tokens[i].text[1].ch \in {"<", ">"}}

NoTarget(t)  == \E i \in Redirects(t) : i = Len(t) \/ t[i + 1].kind # "word"
Open(line)   == Marked(line).state \notin {"bare", "comment"}
Broken(line) == Open(line) \/ NoTarget(Tokens(line))

AllDigits(text) == \A i \in DOMAIN text : text[i].how = "bare" /\ text[i].ch \in Digits

\* Where the name after the $ at i of a word begins and ends, if it is one.
NameFrom(text, i) == IF i < Len(text) /\ text[i + 1].ch = "{" THEN i + 2 ELSE i + 1
NameTo(text, i) ==
  LET from == NameFrom(text, i)
      ok(j) == \A k \in from .. j : text[k].ch \in NameChar /\ text[k].how = text[i].how
  IN  CHOOSE j \in from - 1 .. Len(text) : ok(j) /\ (j < Len(text) => ~ ok(j + 1))
IsDollar(text, i) == text[i].ch = "$" /\ text[i].how \in {"bare", "double"}
IsName(text, i) == /\ NameFrom(text, i) <= NameTo(text, i)
                   /\ text[NameFrom(text, i)].ch \in Letters

ComplexDollar(text, i) ==
  LET next == IF i < Len(text) /\ text[i + 1].how = text[i].how THEN text[i + 1].ch ELSE "end"
  IN  /\ IsDollar(text, i)
      /\ \/ next \in {"(", "$", "?", "!", "#", "@", "*"} \cup Digits
         \/ next = "{" /\ (\/ ~ IsName(text, i) \/ NameTo(text, i) = Len(text)
                           \/ text[NameTo(text, i) + 1].ch # "}")

ComplexWord(text) ==
  \/ text[1].how = "bare" /\ text[1].ch = "~"
  \/ \E i \in DOMAIN text :
       \/ ComplexDollar(text, i)
       \/ text[i].ch = "bq" /\ text[i].how \in {"bare", "double"}
       \/ /\ text[i].how = "bare" /\ text[i].ch \in Special
          /\ ~ \E k \in 1 .. i - 1 : IsDollar(text, k) /\ i \in {k + 1, NameTo(text, k) + 1}
                                     /\ NameFrom(text, k) = k + 2

Complex(t) ==
  \E i \in DOMAIN t :
    IF t[i].kind = "op"
    THEN \/ Chars(t[i].text) \notin {<<"<">>, <<">">>, <<">", ">">>, <<">", "&">>, <<"<", "&">>}
         \/ /\ Last(t[i].text).ch = "&"
            /\ i < Len(t) => ~ AllDigits(t[i + 1].text)
    ELSE ComplexWord(t[i].text)

(***************************************************************************)
(* Expansions, field splitting and quote removal.                          *)
(***************************************************************************)
Expanded(text, value) ==
  LET From[i \in 1 .. Len(text) + 1] ==
        IF i > Len(text) THEN << >>
        ELSE IF IsDollar(text, i) /\ IsName(text, i)
        THEN LET end  == NameTo(text, i)
                 held == IF Chars(SubSeq(text, NameFrom(text, i), end)) = <<"V">>
                         THEN value ELSE << >>
                 how  == IF text[i].how = "bare" THEN "value" ELSE "quoted"
             IN  [k \in DOMAIN held |-> [ch |-> held[k], how |-> how]]
                   \o From[IF NameFrom(text, i) = i + 2 THEN end + 2 ELSE end + 1]
        ELSE <<text[i]>> \o From[i + 1]
  IN  From[1]

\* The fields: at the blanks of a bare value; nothing at all is no field.
Plain(x) == Chars(SelectSeq(x, LAMBDA c : c.how # "mark"))
Cuts(x)  == {0, Len(x) + 1} \cup {i \in DOMAIN x : x[i].how = "value" /\ x[i].ch \in Blank}
Between(cuts) ==
  {<<a, b>> \in cuts \X cuts : a + 1 < b /\ \A k \in cuts : k <= a \/ k >= b}
InOrder(all) ==
  [k \in 1 .. Cardinality(all) |->
     CHOOSE f \in all : Cardinality({g \in all : g[1] < f[1]}) = k - 1]

SplitAt(x, fields) == [k \in DOMAIN fields |-> Plain(SubSeq(x, fields[k][1] + 1, fields[k][2] - 1))]
FieldsOf(x)          == SplitAt(x, InOrder(Between(Cuts(x))))
Fields(text, value)  == FieldsOf(Expanded(text, value))
Unsplit(text, value) == Plain(Expanded(text, value))

\* Pathname expansion.  A bare * ? or [ makes a line Complex; one that comes out of a
\* bare value makes the field that holds it a pattern, which stands for the files it
\* matches.
IsPattern(text, value) ==
  \E c \in ToSet(Expanded(text, value)) : c.how = "value" /\ c.ch \in Glob

(***************************************************************************)
(* The simple command: its words, and its redirections in order.           *)
(***************************************************************************)
WordAt(t, w) ==
  [k \in 1 .. Cardinality(w) |-> t[CHOOSE i \in w : Cardinality({j \in w : j < i}) = k - 1].text]
WordsOf(t)  == WordAt(t, {i \in DOMAIN t : t[i].kind = "word" /\ (i - 1) \notin Redirects(t)})
Words(line) == WordsOf(Tokens(line))

\* NAME= with nothing of it quoted
EqualsAt(text) == {i \in 2 .. Len(text) : /\ text[i].ch = "=" /\ text[1].ch \in Letters
                                          /\ \A k \in 1 .. i : text[k].how = "bare"
                                          /\ \A k \in 1 .. i - 1 : text[k].ch \in NameChar}
IsAssignment(text) == EqualsAt(text) # {}

\* How many of the words w assign.
Assignments(w) == CHOOSE n \in 0 .. Len(w) : /\ \A k \in 1 .. n : IsAssignment(w[k])
                                             /\ n < Len(w) => ~ IsAssignment(w[n + 1])

Arguments(w, n, value) == FlattenSeq([k \in 1 .. Len(w) - n |-> Fields(w[k + n], value)])
ArgsOf(w, value)       == Arguments(w, Assignments(w), value)
RefArgs(line, value)   == ArgsOf(Words(line), value)

\* Does an argument depend on what files there are?  (Values that are assigned and, in
\* a shell that is not interactive, the names of files are no patterns.)
Globbed(line, value) ==
  LET w == Words(line)
  IN  \E k \in Assignments(w) + 1 .. Len(w) : IsPattern(w[k], value)

\* What the command sees of each name that is assigned: the last value.
EnvOf(w, value) ==
  LET At(k) == CHOOSE i \in EqualsAt(w[k]) : TRUE
      Name(k) == Chars(SubSeq(w[k], 1, At(k) - 1))
  IN  [n \in {Name(k) : k \in DOMAIN w} |->
         LET k == Max({i \in DOMAIN w : Name(i) = n})
         IN  Unsplit(SubSeq(w[k], At(k) + 1, Len(w[k])), value)]
Assigning(w)        == SubSeq(w, 1, Assignments(w))
RefEnv(line, value) == EnvOf(Assigning(Words(line)), value)

\* The redirections, applied one by one to the descriptors start: to what each
\* refers then.  A file is known by the redirection that opened it.
FdsOf(t, r, value, start) ==
  LET Nth(k) == CHOOSE i \in r : Cardinality({j \in r : j <= i}) = k
      Fd(i)  == IF i > 1 /\ t[i - 1].kind = "io" THEN Number(Chars(t[i - 1].text))
                ELSE IF t[i].text[1].ch = "<" THEN 0 ELSE 1
      Step(fds, k) ==
        LET i == Nth(k)
            op == Chars(t[i].text)
            to == IF Last(op) = "&"
                  THEN LET m == Number(Chars(t[i + 1].text))
                       IN  IF m \in DOMAIN fds THEN fds[m] ELSE <<"closed">>
                  ELSE <<"file", k, Unsplit(t[i + 1].text, value), op>>
        IN  [fd \in DOMAIN fds \cup {Fd(i)} |-> IF fd = Fd(i) THEN to ELSE fds[fd]]
  IN  FoldLeft(Step, start, [k \in 1 .. Cardinality(r) |-> k])
FdsAfter(t, value, start)    == FdsOf(t, Redirects(t), value, start)
RefFds(line, value, start) == FdsAfter(Tokens(line), value, start)
=============================================================================
