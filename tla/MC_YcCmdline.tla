--------------------------- MODULE MC_YcCmdline ---------------------------
(***************************************************************************)
(* Command lines of up to three items, for the options of main, of which   *)
(* those that are handled alike appear once, and beside them letters with  *)
(* no value and with one that is not optional, which yapara has none of.   *)
(***************************************************************************)
EXTENDS YcCmdline

Of(type, takes, optional, mandatory) ==
  [type |-> type, takes |-> takes, optional |-> optional, mandatory |-> mandatory]

MCTable ==
  [input |-> Of("string", TRUE, FALSE, TRUE),
   max |-> Of("uint", TRUE, FALSE, FALSE),
   colorize |-> Of("colorize", TRUE, TRUE, FALSE),
   recorder |-> Of("recorder", TRUE, FALSE, FALSE),
   uioption |-> Of("ui-option", TRUE, FALSE, FALSE),
   listuis |-> Of("list", FALSE, FALSE, FALSE),
   helpui |-> Of("help-ui", TRUE, FALSE, FALSE),
   hex |-> Of("boolean", FALSE, FALSE, FALSE),
   pad |-> Of("boolean", FALSE, FALSE, FALSE)]

MCShortcut == [c |-> "colorize", m |-> "max", x |-> "hex", z |-> "pad"]
MCExclusions == {[options |-> {"hex", "max"}, one_required |-> FALSE]}

MCNumberOf(value) == IF value = Text("3") THEN 3 ELSE IF value = Text("9") THEN 9
                     ELSE IF value = Text("5") THEN 5 ELSE Bad
MCColorOf(value) == IF value = Text("never") THEN "never" ELSE Bad
MCPairOf(value) ==
  CASE value = Text("k=3") -> [key |-> "k", value |-> "3"]
    [] value = Text("k=4") -> [key |-> "k", value |-> "4"]
    [] OTHER -> Bad
MCKnownUIs == {Text("plain")}
MCKnownRecorders == {Text("jobs")}

Joined(o, t) == [form |-> "joined", option |-> o, value |-> Text(t)]
Separate(o, w) == [form |-> "separate", option |-> o, value |-> w]
Alone(o) == [form |-> "alone", option |-> o]
AWord(w) == [form |-> "word", word |-> w]

Items ==
  {Joined("input", "jobs"), Separate("input", Text("3")),
   Separate("input", Long("hex", NoValue)), Separate("input", Dash),
   Joined("max", "5"), Separate("max", Text("3")), Joined("max", "never"),
   [form |-> "letter", letter |-> "m", value |-> Text("5")],
   Joined("colorize", "never"), Alone("colorize"),
   [form |-> "letter", letter |-> "c", value |-> Text("never")],
   [form |-> "letter", letter |-> "c", value |-> Long("hex", NoValue)],
   Joined("recorder", "jobs"), Separate("recorder", Text("9")),
   Joined("uioption", "k=3"), Separate("uioption", Text("k=4")), Joined("uioption", "k"),
   Alone("listuis"), Joined("helpui", "plain"), Joined("helpui", "jobs"),
   Alone("hex"), [form |-> "letters", letters |-> <<"x">>],
   [form |-> "letters", letters |-> <<"z", "x">>],
   AWord(Text("jobs")), AWord(Text("never")), AWord(Long("what", NoValue)), AWord(Long("help", NoValue)), AWord(Dash)}

\* A line, whose last item may lack its value; or that has letters that do not go together.
MCLines ==
  UNION {[1 .. n -> Items] : n \in 1 .. 3}
    \cup {<<item, AWord(Letters(<<"x", "c">>))>> : item \in Items}
    \cup {<<item, AWord(w)>> : item \in Items,
            w \in {Long("max", NoValue), Letters(<<"m">>), Long("hex", Text("3"))}}

\* Lines with -c by itself, at the end and before another item; with a number of
\* jobs that is beyond an unsigned.
Minus == [form |-> "letters", letters |-> <<"c">>]
LoneLines  == {<<Joined("input", "jobs"), Minus>>, <<Joined("input", "jobs"), Minus, Alone("hex")>>}
RangeLines == {<<Joined("input", "jobs"), Joined("max", n)>> : n \in {"5", "9"}}

MCModes ==
  {[unknown |-> FALSE, extra |-> FALSE, swallow |-> TRUE],
   [unknown |-> TRUE, extra |-> TRUE, swallow |-> TRUE],
   [unknown |-> FALSE, extra |-> TRUE, swallow |-> FALSE]}
=============================================================================
