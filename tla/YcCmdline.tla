----------------------------- MODULE YcCmdline -----------------------------
(***************************************************************************)
(* The command line: yc_cmdline_try_process_args (yc-cmdline.c) and what   *)
(* main (yapara-main.c) makes of the options.  A step is a round of its    *)
(* loop.  A word is an option with two dashes and maybe a value, letters   *)
(* behind one dash, a lone dash, or a text; any of them can be the value   *)
(* of the option before it.  Modes are left out, since nothing defines     *)
(* yc_cmdline_begin_mode, and so is an argument_handler, which yapara      *)
(* never sets.                                                             *)
(***************************************************************************)
EXTENDS Integers, Sequences, FiniteSets, SequencesExt

CONSTANTS
  Table,        \* [option -> [type, takes, optional, mandatory]]
  Shortcut,     \* [letter -> option]
  Exclusions,   \* the sets of options that exclude each other
  NumberOf(_), ColorOf(_), PairOf(_),   \* strtoul, yc_ui_parse_color_when, KEY=VALUE
  KnownUIs, KnownRecorders,
  MAX_RECORDERS,
  UIntMax,      \* an unsigned holds 0 .. UIntMax - 1
  Lines,        \* what users write
  Modes,        \* what the program permits: [unknown, extra, swallow]
  NoValue, Bad

VARIABLES
  line,       \* what the user wrote, as it was meant
  permit,     \* the flags of yc_cmdline_init
  argv, i,    \* the words that are left, without argv[0], and the next one
  used,       \* the options that carry _YC_CMDLINE_OPTION_USED
  settings,   \* what the options were set to
  outcome     \* "processing", and then "checking", "accepted", "refused" or an exit status

vars == <<line, permit, argv, i, used, settings, outcome>>

Options == DOMAIN Table
Text(t) == [kind |-> "text", text |-> t]
Long(name, value) == [kind |-> "long", name |-> name, value |-> value]
Letters(ls) == [kind |-> "letters", letters |-> ls]
Dash == [kind |-> "dash"]

-----------------------------------------------------------------------------
\* The functions of the options: [settings, outcome], given a word or NoValue.

Done(s) == [settings |-> s, outcome |-> "processing"]
Ended(s, how) == [settings |-> s, outcome |-> how]

\* strtoul into an unsigned: whatever is out of its range is cut off.
HandleUint(s, o, value) ==
  IF NumberOf(value) = Bad THEN Ended(s, "refused")
  ELSE Done([s EXCEPT ![o] = NumberOf(value) % UIntMax])

HandleColorize(s, o, value) ==
  IF value = NoValue THEN Done([s EXCEPT ![o] = "always"])
  ELSE IF ColorOf(value) = Bad THEN Ended(s, "refused")
  ELSE Done([s EXCEPT ![o] = ColorOf(value)])

HandleRecorder(s, o, value) ==
  IF Len(s[o]) = MAX_RECORDERS \/ value \notin KnownRecorders THEN Ended(s, "refused")
  ELSE Done([s EXCEPT ![o] = Append(@, value)])

\* A later value of the same key wins.
HandleUIOption(s, o, value) ==
  LET pair == PairOf(value) IN
  IF pair = Bad THEN Ended(s, "refused")
  ELSE Done([s EXCEPT ![o] = [k \in DOMAIN @ \cup {pair.key} |->
                                IF k = pair.key THEN pair.value ELSE @[k]]])

Handle(s, o, value) ==
  CASE Table[o].type = "string" -> Done([s EXCEPT ![o] = value])
    [] Table[o].type = "boolean" -> Done([s EXCEPT ![o] = TRUE])
    [] Table[o].type = "uint" -> HandleUint(s, o, value)
    [] Table[o].type = "colorize" -> HandleColorize(s, o, value)
    [] Table[o].type = "recorder" -> HandleRecorder(s, o, value)
    [] Table[o].type = "ui-option" -> HandleUIOption(s, o, value)
    [] Table[o].type = "list" -> Ended(s, "exit 0")
    [] Table[o].type = "help-ui" -> Ended(s, IF value \in KnownUIs THEN "exit 0" ELSE "exit 1")

\* One option after another, until one of them fails or ends the program.
Step(done, set) ==
  IF done.outcome # "processing" THEN done ELSE Handle(done.settings, set.option, set.value)

HandleAll(done, sets) == FoldLeft(Step, done, sets)

Default ==
  [o \in Options |->
     CASE Table[o].type = "boolean" -> FALSE
       [] Table[o].type = "recorder" -> <<>>
       [] Table[o].type = "ui-option" -> <<>>
       [] OTHER -> NoValue]

-----------------------------------------------------------------------------
\* The loop.

Word == argv[i]
Processing == outcome = "processing" /\ i <= Len(argv)

SkipOrSwallow_One(n) ==
  IF permit.swallow
    THEN argv' = SubSeq(argv, 1, i - 1) \o SubSeq(argv, i + 1, Len(argv)) /\ i' = i + n - 1
    ELSE i' = i + n /\ UNCHANGED argv

\* n words were used: they leave argv, or are passed over.
SkipOrSwallow(n) ==
  IF permit.swallow
    THEN argv' = SubSeq(argv, 1, i - 1) \o SubSeq(argv, i + n, Len(argv)) /\ UNCHANGED i
    ELSE i' = i + n /\ UNCHANGED argv

Ends(how) == outcome' = how /\ UNCHANGED <<line, permit, argv, i, used, settings>>

\* Option o is given value, which with the option takes n words.
Use(o, value, n) ==
  LET done == Handle(settings, o, value) IN
  IF done.outcome # "processing" THEN Ends(done.outcome)
  ELSE /\ settings' = done.settings
       /\ used' = used \cup {o}
       /\ SkipOrSwallow(n)
       /\ UNCHANGED <<line, permit, outcome>>

Unknown ==
  /\ Processing /\ Word.kind = "long" /\ Word.name \notin Options
  /\ IF permit.unknown
       THEN i' = i + 1 /\ UNCHANGED <<line, permit, argv, used, settings, outcome>>
       ELSE Ends(IF Word.name = "help" /\ Word.value = NoValue THEN "exit 1" ELSE "refused")

ValueFollows_EvenOptional(o) == Table[o].takes

\* Whether --o without = has its value in the next word.
ValueFollows(o) == Table[o].takes /\ ~Table[o].optional

LongOption ==
  /\ Processing /\ Word.kind = "long" /\ Word.name \in Options
  /\ LET o == Word.name IN
     IF Word.value = NoValue /\ ValueFollows(o)
       THEN IF i = Len(argv) THEN Ends("refused") ELSE Use(o, argv[i + 1], 2)
     ELSE IF Word.value # NoValue /\ ~Table[o].takes
       THEN Ends("refused")
     ELSE Use(o, Word.value, 1)

\* A lone dash: the rest are arguments.
LoneDash ==
  /\ Processing /\ Word.kind = "dash"
  /\ IF permit.extra
       THEN /\ SkipOrSwallow(1)
            /\ outcome' = "checking"
            /\ UNCHANGED <<line, permit, used, settings>>
       ELSE Ends("refused")

ShortOption ==
  /\ Processing /\ Word.kind = "letters" /\ Len(Word.letters) = 1
  /\ LET c == Word.letters[1] IN
     IF c \notin DOMAIN Shortcut THEN Ends("refused")
     ELSE IF ~Table[Shortcut[c]].takes THEN Use(Shortcut[c], NoValue, 1)
     ELSE IF i = Len(argv) THEN Ends("refused")
     ELSE Use(Shortcut[c], argv[i + 1], 2)

\* Letters together: all are looked at before the first is used.
ShortOptions ==
  /\ Processing /\ Word.kind = "letters" /\ Len(Word.letters) > 1
  /\ LET cs == Word.letters
         sets == [k \in DOMAIN cs |-> [option |-> Shortcut[cs[k]], value |-> NoValue]]
     IN IF \E c \in ToSet(cs) : c \notin DOMAIN Shortcut \/ Table[Shortcut[c]].takes
          THEN Ends("refused")
        ELSE LET done == HandleAll(Done(settings), sets) IN
             IF done.outcome # "processing" THEN Ends(done.outcome)
             ELSE /\ settings' = done.settings
                  /\ used' = used \cup {Shortcut[c] : c \in ToSet(cs)}
                  /\ SkipOrSwallow(1)
                  /\ UNCHANGED <<line, permit, outcome>>

Argument ==
  /\ Processing /\ Word.kind = "text"
  /\ IF permit.extra
       THEN i' = i + 1 /\ UNCHANGED <<line, permit, argv, used, settings, outcome>>
       ELSE Ends("refused")

Check_OnlyRequired ==
  /\ outcome = "checking" \/ (outcome = "processing" /\ i > Len(argv))
  /\ Ends(IF \/ \E o \in Options : Table[o].mandatory /\ o \notin used
             \/ \E x \in Exclusions : x.one_required /\ Cardinality(x.options \cap used) # 1
          THEN "refused" ELSE "accepted")

\* check_mandatory_args_recursive and check_mutually_exclusive_args
Check ==
  /\ outcome = "checking" \/ (outcome = "processing" /\ i > Len(argv))
  /\ Ends(IF \/ \E o \in Options : Table[o].mandatory /\ o \notin used
             \/ \E x \in Exclusions :
                  \/ Cardinality(x.options \cap used) > 1
                  \/ x.one_required /\ x.options \cap used = {}
          THEN "refused" ELSE "accepted")

-----------------------------------------------------------------------------
\* What users write: options in the forms that the usage text shows.

Words(item) ==
  CASE item.form = "joined" -> <<Long(item.option, item.value)>>
    [] item.form = "separate" -> <<Long(item.option, NoValue), item.value>>
    [] item.form = "alone" -> <<Long(item.option, NoValue)>>
    [] item.form = "letter" -> <<Letters(<<item.letter>>), item.value>>
    [] item.form = "letters" -> <<Letters(item.letters)>>
    [] item.form = "word" -> <<item.word>>

\* Whether an option is written with its value behind it.
NeedsWord(o) == Table[o].takes /\ ~Table[o].optional

\* The letter of an option whose value is optional, without one: the README (line 71)
\* has `--colorize[=WHEN]', `-c', and yapara-main.c (145) "given ('-c')".
LoneLetter(item) ==
  item.form = "letters" /\ Len(item.letters) = 1 /\
    LET o == Shortcut[item.letters[1]] IN Table[o].takes /\ Table[o].optional

\* The forms of an option, and the words that are none: texts, options that the
\* program does not have, and what can be nobody's option.
IsOption(item) ==
  \/ item.form = "joined" /\ item.option \in Options
     /\ Table[item.option].takes /\ item.value # NoValue
  \/ item.form = "separate" /\ item.option \in Options /\ NeedsWord(item.option)
  \/ item.form = "alone" /\ item.option \in Options /\ ~NeedsWord(item.option)
  \/ item.form = "letter" /\ item.letter \in DOMAIN Shortcut /\ Table[Shortcut[item.letter]].takes
  \/ item.form = "letters" /\ item.letters \in Seq(DOMAIN Shortcut) \ {<< >>}
     /\ (LoneLetter(item) \/ \A c \in ToSet(item.letters) : ~Table[Shortcut[c]].takes)

Unusable(c) == c \notin DOMAIN Shortcut \/ Table[Shortcut[c]].takes

IsWord(item) ==
  item.form = "word" /\ LET w == item.word IN
    \/ w.kind = "text" \/ w = Dash
    \/ w.kind = "long" /\ (w.name \notin Options \/ (w.value # NoValue /\ ~Table[w.name].takes))
    \/ w.kind = "letters" /\ w.letters \in Seq(ToSet(w.letters))
       /\ IF Len(w.letters) = 1 THEN w.letters[1] \notin DOMAIN Shortcut
          ELSE \E c \in ToSet(w.letters) : Unusable(c)

\* An option that lacks its value: were it not the last word, the next were the value.
IsCutShort(item) ==
  item.form = "word" /\ LET w == item.word IN
    \/ w.kind = "long" /\ w.name \in Options /\ w.value = NoValue /\ NeedsWord(w.name)
    \/ \E c \in DOMAIN Shortcut : w = Letters(<<c>>) /\ NeedsWord(Shortcut[c])

\* Any words can be told apart into such items.
ASSUME CmdlineAssumption ==
  /\ \A o \in Options :
       /\ Table[o].type \in {"string", "boolean", "uint", "colorize", "recorder", "ui-option",
                             "list", "help-ui"}
       /\ {Table[o].takes, Table[o].optional, Table[o].mandatory} \subseteq BOOLEAN
  /\ Shortcut \in [DOMAIN Shortcut -> Options]
  /\ \A x \in Exclusions : x.one_required \in BOOLEAN
  /\ \A p \in Modes : {p.unknown, p.extra, p.swallow} \subseteq BOOLEAN
  /\ \A l \in Lines :
       /\ l \in Seq(ToSet(l))
       /\ \A k \in DOMAIN l : IsOption(l[k]) \/ IsWord(l[k]) \/ (k = Len(l) /\ IsCutShort(l[k]))

Given == FlattenSeq([k \in DOMAIN line |-> Words(line[k])])

Init ==
  /\ line \in Lines /\ permit \in Modes
  /\ argv = Given /\ i = 1 /\ used = {} /\ settings = Default /\ outcome = "processing"

Next == Unknown \/ LongOption \/ LoneDash \/ ShortOption \/ ShortOptions \/ Argument \/ Check

Spec == Init /\ [][Next]_vars

-----------------------------------------------------------------------------
\* What it should mean: item by item, without looking at words.

\* The options that an item sets, with their values.
Sets(item) ==
  CASE item.form \in {"joined", "separate"} -> <<[option |-> item.option, value |-> item.value]>>
    [] item.form = "alone" -> <<[option |-> item.option, value |-> NoValue]>>
    [] item.form = "letter" -> <<[option |-> Shortcut[item.letter], value |-> item.value]>>
    [] item.form = "letters" -> [k \in DOMAIN item.letters |->
                                   [option |-> Shortcut[item.letters[k]], value |-> NoValue]]
    [] item.form = "word" -> <<>>

DashAt == SelectInSeq(line, LAMBDA item : item.form = "word" /\ item.word = Dash)
Heeded == IF DashAt = 0 THEN line ELSE SubSeq(line, 1, DashAt - 1)
AllSet == FlattenSeq([k \in DOMAIN Heeded |-> Sets(Heeded[k])])

Meant == HandleAll(Done(Default), AllSet)
MeantOptions == {set.option : set \in ToSet(AllSet)}

\* A number, if it is one, is one that the option can be set to.
Fits(set) ==
  LET n == NumberOf(set.value) IN
  Table[set.option].type = "uint" /\ n # Bad => n \in 0 .. UIntMax - 1

\* The lines that are read as the documents say.  A letter by itself is refused, or
\* takes the next word, and numbers are cut: for these AcceptedIfRight fails.
Regular(l) ==
  \A k \in DOMAIN l : ~LoneLetter(l[k]) /\ \A set \in ToSet(Sets(l[k])) : Fits(set)

\* The command line is understood as it was meant: whatever the order, the
\* forms and the words that serve as values, each option that was written, and
\* no other, is used, and the settings are those that the items make one by one.
Understood ==
  outcome = "accepted" =>
    used = MeantOptions /\ settings = Meant.settings

\* What is no option and no value is left for the program, in its order, and
\* nothing else is; without swallowing, all words are.
Remains ==
  outcome = "accepted" =>
    argv = IF ~permit.swallow THEN Given
           ELSE FlattenSeq([k \in DOMAIN line |->
                  IF \/ DashAt # 0 /\ k > DashAt
                     \/ line[k].form = "word" /\ line[k].word # Dash
                    THEN Words(line[k]) ELSE <<>>])

\* Every item is right, and they go together.
Wanted ==
  /\ Meant.outcome = "processing"
  /\ \A set \in ToSet(AllSet) : Fits(set)
  /\ \A o \in Options : Table[o].mandatory => o \in MeantOptions
  /\ \A x \in Exclusions : LET n == Cardinality(x.options \cap MeantOptions) IN
                             n <= 1 /\ (x.one_required => n = 1)
  /\ \A item \in ToSet(Heeded) :
       item.form = "word" =>
         \/ item.word.kind = "text" /\ permit.extra
         \/ item.word.kind = "long" /\ item.word.name \notin Options /\ permit.unknown
  /\ DashAt # 0 => permit.extra

\* A command line is accepted if and only if every item of it is right and they
\* go together; main then runs, and otherwise it ends before it starts anything.
\* Right is what the option table of the README and the usage text show: a letter by
\* itself where the value is optional (README.md:71), and N jobs at once for --max=N.
AcceptedIfRight ==
  /\ outcome = "accepted" => Wanted
  /\ outcome = "refused" => ~Wanted
=============================================================================
