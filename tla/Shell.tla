-------------------------------- MODULE Shell --------------------------------
(***************************************************************************)
(* One line of commands, from its text to the descriptors of the child:    *)
(* yc_shell_parse (yc-shell.c), what yc_ui_spawn makes of descriptors that *)
(* are not redirected, and how yc_child_new resolves duplicates.           *)
(*                                                                         *)
(* The parser reads the line character by character; ParseLine is one      *)
(* round of its loop: one word, assignment or redirection.  Characters are *)
(* those of ShellReference; position p counts from 1, and after the line   *)
(* there is only "end".                                                    *)
(***************************************************************************)
EXTENDS ShellReference, FiniteSets

CONSTANTS
  Lines,      \* bound: the lines; each is a sequence of characters
  Values,     \* bound: what V may hold; Unset, or a sequence of characters
  Unset,
  MaxFd,      \* 1024, the largest descriptor that is plausible
  MaxName     \* 127, the longest name of a variable

ASSUME ShellAssumption == {<< >>, Unset} \subseteq Values /\ {MaxFd, MaxName} \subseteq Nat

VARIABLES
  line, value,          \* the line, and the environment
  capture,              \* does the UI show output?
  p, args, assigns,     \* parse_line: where it is, the fields, the assignments
  fdmap, order,         \*   the redirections by descriptor, and how many
  result,               \* parsing; direct or sh, if a child can be made;
                        \*   spawned, bad fd; or an error code
  env, fds              \* what the child gets

vars == <<line, value, capture, p, args, assigns, fdmap, order, result, env, fds>>

At(i) == IF i <= Len(line) THEN line[i] ELSE "end"
Held  == IF value = Unset THEN << >> ELSE value

Init ==
  /\ line \in Lines /\ value \in Values /\ capture \in BOOLEAN
  /\ "$" \notin ToSet(line) => value = Unset
  /\ p = 1 /\ args = << >> /\ assigns = << >>
  /\ fdmap = << >> /\ order = 0
  /\ result = "parsing" /\ env = << >> /\ fds = << >>

-----------------------------------------------------------------------------
\* Lexical helpers: the first position from i on that is not in S.
Skip(i, S) == CHOOSE j \in i .. Len(line) + 1 :
                /\ \A k \in i .. j - 1 : line[k] \in S
                /\ At(j) \notin S

\* assignment_name_length, as the position of the =, or 0.
AssignmentEquals(i) ==
  LET e == Skip(i, NameChar)
  IN  IF At(i) \in Letters /\ At(e) = "=" THEN e ELSE 0

IsRedirectStart(i) == At(Skip(i, Digits)) \in {"<", ">"}

(***************************************************************************)
(* parse_word.  s is its state: the position, the field so far, whether    *)
(* there is one, the fields before it, where the loop is, and the error.   *)
(***************************************************************************)
Error(s, code)  == [s EXCEPT !.in = "done", !.error = code]
Literal(s, c, n) == [s EXCEPT !.word = Append(@, c), !.has = TRUE, !.p = @ + n]

\* The loop that splits a value into fields.
SplitValue(s, text) ==
  FoldLeft(LAMBDA t, c :
             IF c \notin Blank THEN [t EXCEPT !.word = Append(@, c), !.has = TRUE]
             ELSE IF t.has THEN [t EXCEPT !.out = Append(@, t.word), !.word = << >>,
                                          !.has = FALSE]
             ELSE t,
           s, text)

\* Mutant: a value in double quotes is split, too.
Expand_Splits(s, next, text, split) == SplitValue([s EXCEPT !.p = next], text)

\* The value of a variable; next is the position after its name.
Expand(s, next, text, split) ==
  IF split THEN SplitValue([s EXCEPT !.p = next], text)
  ELSE [s EXCEPT !.p = next, !.word = @ \o text]

\* expand_dollar
ExpandDollar(s, split) ==
  LET braced == At(s.p + 1) = "{"
      from   == IF braced THEN s.p + 2 ELSE s.p + 1
      to     == Skip(from, NameChar) - 1
      name   == SubSeq(line, from, to)
  IN  IF At(s.p + 1) = "(" THEN Error(s, "UNSUPPORTED")
      ELSE IF At(from) \notin Letters
      THEN IF braced \/ At(from) \in {"$", "?", "!", "#", "@", "*"} \cup Digits
           THEN Error(s, "UNSUPPORTED")
           ELSE Literal(s, "$", 1)
      ELSE IF Len(name) > MaxName \/ (braced /\ At(to + 1) # "}")
      THEN Error(s, "UNSUPPORTED")
      ELSE Expand(s, IF braced THEN to + 2 ELSE to + 1,
                  IF name = <<"V">> THEN Held ELSE << >>, split)

\* The loop of a double quote.
InDouble(s) ==
  LET c    == At(s.p)
      next == At(s.p + 1)
  IN  CASE c = "end"  -> Error(s, "SYNTAX")
        [] c = "\""   -> [s EXCEPT !.in = "word", !.p = @ + 1]
        [] c = "\\"   -> IF next \in {"$", "\"", "\\", "bq"} THEN Literal(s, next, 2)
                         ELSE Literal(s, c, 1)
        [] c = "bq"   -> Error(s, "UNSUPPORTED")
        [] c = "$"    -> ExpandDollar(s, FALSE)
        [] OTHER      -> Literal(s, c, 1)

InSingle(s) ==
  LET c == At(s.p)
  IN  CASE c = "end" -> Error(s, "SYNTAX")
        [] c = "'"   -> [s EXCEPT !.in = "word", !.p = @ + 1]
        [] OTHER     -> Literal(s, c, 1)

InWord(s, split) ==
  LET c == At(s.p)
  IN  CASE c \in {"end", "<", ">"} \cup Blank -> [s EXCEPT !.in = "done"]
        [] c = "'"  -> [s EXCEPT !.in = "single", !.has = TRUE, !.p = @ + 1]
        [] c = "\"" -> [s EXCEPT !.in = "double", !.has = TRUE, !.p = @ + 1]
        [] c = "\\" -> IF At(s.p + 1) = "end" THEN Error(s, "SYNTAX")
                       ELSE Literal(s, At(s.p + 1), 2)
        [] c = "$"  -> ExpandDollar(s, split)
        [] c = "~"  -> IF ~ s.has /\ s.word = << >> THEN Error(s, "UNSUPPORTED")
                       ELSE Literal(s, c, 1)
        [] c \in Special -> Error(s, "UNSUPPORTED")
        [] OTHER    -> Literal(s, c, 1)

\* What parse_word returns: `""' is a field too.
Parsed(s) == [p |-> s.p, error |-> s.error,
              out |-> IF s.has \/ s.word # << >> THEN Append(s.out, s.word) ELSE s.out]

\* The fields of the word at i, if error is "none".
ParseWord(i, split) ==
  LET Char(s) == CASE s.in = "word"   -> InWord(s, split)
                   [] s.in = "single" -> InSingle(s)
                   [] s.in = "double" -> InDouble(s)
                   [] s.in = "done"   -> s
      After[k \in 0 .. Len(line) + 1] ==
        IF k = 0 THEN [p |-> i, word |-> << >>, has |-> FALSE, out |-> << >>,
                       in |-> "word", error |-> "none"]
        ELSE Char(After[k - 1])
  IN  Parsed(After[Len(line) + 1])

(***************************************************************************)
(* Redirections.  A slot of the map says what is to become of a descriptor *)
(* and which redirection of the line said so; a later one replaces it.     *)
(***************************************************************************)
FdmapSet(fd, slot) ==
  [f \in DOMAIN fdmap \cup {fd} |-> IF f = fd THEN slot ELSE fdmap[f]]

Redirected(error, next, map) == [error |-> error, p |-> next, fdmap |-> map]
Refused(code)                == Redirected(code, p, fdmap)

\* >&M and <&M, at the first digit of M.
ParseDup(fd, from, input) ==
  LET to == Skip(from, Digits)
      m  == Number(SubSeq(line, from, to - 1))
  IN  IF At(from) \notin Digits \/ m > MaxFd THEN Refused("UNSUPPORTED")
      ELSE IF At(to) \notin {"end", "<", ">"} \cup Blank THEN Refused("SYNTAX")
      ELSE IF m = fd THEN Redirected("none", to, fdmap)
      ELSE Redirected("none", to,
             FdmapSet(fd, [mode |-> "DUP", dup_fd |-> m, input |-> input,
                           order |-> order + 1]))

ParseFile(fd, from, input, append) ==
  LET target == ParseWord(Skip(from, Blank), FALSE)
  IN  IF target.error # "none" THEN Refused(target.error)
      ELSE IF target.out = << >> \/ target.out[1] = << >> THEN Refused("SYNTAX")
      ELSE Redirected("none", target.p,
             FdmapSet(fd, [mode |-> "FILE", filename |-> target.out[1], append |-> append,
                           input |-> input, order |-> order + 1]))

\* parse_redirect
ParseRedirect(i) ==
  LET op     == Skip(i, Digits)
      number == Number(SubSeq(line, i, op - 1))
      input  == At(op) = "<"
      append == ~ input /\ At(op + 1) = ">"
      fd     == IF op > i THEN number ELSE IF input THEN 0 ELSE 1
      next   == IF append THEN op + 2 ELSE op + 1
  IN  IF \/ op > i /\ number > MaxFd
         \/ input /\ At(next) \in {"<", ">"}
         \/ ~ input /\ ~ append /\ At(next) = "|"
      THEN Refused("UNSUPPORTED")
      ELSE IF At(next) = "&" THEN ParseDup(fd, next + 1, input)
      ELSE ParseFile(fd, next, input, append)

\* Mutant: a duplicate may come before what it copies is redirected.
DupOrderOK_Any == TRUE

\* check_dup_order
DupOrderOK ==
  \A fd \in DOMAIN fdmap :
    (fdmap[fd].mode = "DUP" /\ fdmap[fd].dup_fd \in DOMAIN fdmap)
      => fdmap[fdmap[fd].dup_fd].order <= fdmap[fd].order

(***************************************************************************)
(* yc_shell_parse                                                          *)
(***************************************************************************)
\* A failure that needs a real shell is left to sh -c.
Fail(code) ==
  /\ result' = IF code = "UNSUPPORTED" THEN "sh" ELSE code
  /\ UNCHANGED <<line, value, capture, p, args, assigns, fdmap, order, env, fds>>

Redirect(i) ==
  LET r == ParseRedirect(i)
  IN  IF r.error # "none" THEN Fail(r.error)
      ELSE /\ p' = r.p /\ fdmap' = r.fdmap /\ order' = order + 1
           /\ UNCHANGED <<line, value, capture, args, assigns, result, env, fds>>

Assignment(i) ==
  LET e == AssignmentEquals(i)
      w == ParseWord(e + 1, FALSE)
      text == IF w.out = << >> THEN << >> ELSE w.out[1]
  IN  IF w.error # "none" THEN Fail(w.error)
      ELSE /\ p' = w.p
           /\ assigns' = Append(assigns, [name |-> SubSeq(line, i, e - 1), text |-> text])
           /\ UNCHANGED <<line, value, capture, args, fdmap, order, result, env, fds>>

Word(i) ==
  LET w == ParseWord(i, TRUE)
  IN  IF w.error # "none" THEN Fail(w.error)
      ELSE /\ p' = w.p /\ args' = args \o w.out
           /\ UNCHANGED <<line, value, capture, assigns, fdmap, order, result, env, fds>>

\* build_env: the assignments in order, each over the one of its name.
BuildEnv ==
  FoldLeft(LAMBDA e, a : [n \in DOMAIN e \cup {a.name} |-> IF n = a.name THEN a.text ELSE e[n]],
           << >>, assigns)

\* build_create_info, over set_default_fd_infos.
Inherit == [mode |-> "INHERIT"]
FdInfos == [fd \in 0 .. 2 \cup DOMAIN fdmap |->
              IF fd \in DOMAIN fdmap THEN fdmap[fd] ELSE Inherit]

EndOfLine ==
  /\ IF ~ DupOrderOK
     THEN result' = "sh" /\ UNCHANGED <<env, fds>>
     ELSE IF args = << >>
     THEN /\ result' = IF assigns # << >> \/ fdmap # << >> THEN "NO_COMMAND" ELSE "EMPTY"
          /\ UNCHANGED <<env, fds>>
     ELSE result' = "direct" /\ env' = BuildEnv /\ fds' = FdInfos
  /\ UNCHANGED <<line, value, capture, p, args, assigns, fdmap, order>>

\* One round of parse_line, and what yc_shell_parse does after its last.
ParseLine ==
  /\ result = "parsing"
  /\ LET i == Skip(p, Blank)
     IN  IF At(i) \in {"end", "#"} THEN EndOfLine
         ELSE IF IsRedirectStart(i) THEN Redirect(i)
         ELSE IF args = << >> /\ AssignmentEquals(i) > 0 THEN Assignment(i)
         ELSE Word(i)

-----------------------------------------------------------------------------
\* yc_ui_spawn: output that is not redirected goes to a pipe of ours, if it is
\* shown; input that is not redirected is empty.
Spawned(fd, info) ==
  IF info # Inherit THEN info
  ELSE IF fd = 0 THEN [mode |-> "NULL"]
  ELSE IF capture THEN [mode |-> "PIPE"] ELSE info

\* resolve_dup_fds: the descriptor at the end of a chain of duplicates, or -1:
\* not configured, or a circle.
Resolve(infos, fd) ==
  LET Hop[k \in 0 .. Cardinality(DOMAIN infos) + 1] ==
        IF k = 0 THEN fd
        ELSE LET src == Hop[k - 1]
             IN  IF src \notin DOMAIN infos THEN -1
                 ELSE IF infos[src].mode = "DUP" THEN infos[src].dup_fd ELSE src
      last == Hop[Cardinality(DOMAIN infos) + 1]
  IN  IF last \in DOMAIN infos THEN (IF infos[last].mode = "DUP" THEN -1 ELSE last) ELSE -1

\* yc_ui_spawn and yc_child_new.  A descriptor refers to what its source was
\* set to, under the source's number.
Spawn ==
  /\ result = "direct"
  /\ LET infos == [fd \in DOMAIN fds |-> Spawned(fd, fds[fd])]
         src   == [fd \in DOMAIN fds |-> Resolve(infos, fd)]
     IN  IF -1 \in Range(src)
         THEN result' = "bad fd" /\ UNCHANGED fds
         ELSE result' = "spawned"
              /\ fds' = [fd \in DOMAIN fds |-> <<src[fd], infos[src[fd]]>>]
  /\ UNCHANGED <<line, value, capture, p, args, assigns, fdmap, order, env>>

\* make_sh_c
SpawnShell ==
  /\ result = "sh"
  /\ result' = "shell" /\ env' = << >>
  /\ fds' = [fd \in 0 .. 2 |-> <<fd, Spawned(fd, Inherit)>>]
  /\ UNCHANGED <<line, value, capture, p, args, assigns, fdmap, order>>

Next == ParseLine \/ Spawn \/ SpawnShell

Spec == Init /\ [][Next]_vars

-----------------------------------------------------------------------------
\* The parser and a shell agree on lines that are not broken.  (It runs three
\* kinds that are: # after a redirection is the name of a file here, >>& is read as
\* >&, and the digits in <1<V are a name.)
\*
\* A word that expands to nothing ends the assignments of a shell, not those of
\* parse_line: an assignment after it, and before the first field, is late.
LateAssignment ==
  LET w == Words(line)
  IN  \E m \in DOMAIN w :
        /\ IsAssignment(w[m]) /\ m > Assignments(w)
        /\ \A n \in Assignments(w) + 1 .. m - 1 : IsAssignment(w[n]) \/ Fields(w[n], Held) = << >>
Agreed == ~ Broken(line) /\ ~ LateAssignment

\* To what the child's descriptors refer, in the terms of the reference.
Refers(f) ==
  IF f[2].mode = "FILE"
  THEN <<"file", f[2].order, f[2].filename,
         IF f[2].input THEN <<"<">> ELSE IF f[2].append THEN <<">", ">">> ELSE <<">">> >>
  ELSE <<f[1], f[2].mode>>

RefFinal == RefFds(line, Held, [fd \in 0 .. 2 |-> <<fd, Spawned(fd, Inherit).mode>>])

\* A line that is said to hold no command has none for a shell either: no line is
\* dropped (yc_shell_parse).
NothingDropped ==
  (result \in {"EMPTY", "NO_COMMAND"} /\ Agreed) => RefArgs(line, Held) = << >>

\* A line that is run without a shell is run as a shell would run it: it is a
\* simple command, and gets the same arguments and the same assignments; and no
\* quote of it is open (yc-shell.h, yc_shell_parse).  Nor is one left out that a
\* shell would run, and the parser looks no further than the zero at its end.  Lines
\* of which a shell makes a pattern, and then the names of files, are excepted
\* (Globbed): for these it does not hold, see PatternsLeftToShell.
DirectIsShells ==
  /\ p \in 1 .. Len(line) + 1
  /\ NothingDropped
  /\ result \in {"spawned", "bad fd"}
       => /\ ~ Open(line)
          /\ (Agreed /\ ~ Globbed(line, Held))
                    => /\ ~ Complex(Tokens(line))
                       /\ args = RefArgs(line, Held)
                       /\ env = RefEnv(line, Held)

\* The descriptors of the child are what a shell leaves after it has applied the
\* redirections one by one, though the parser keeps only the last of each
\* descriptor and yc_child_new resolves the duplicates in no order; and what it
\* refuses as no descriptor is closed in the shell as well (check_dup_order,
\* resolve_dup_fds).
DescriptorsAreShells ==
  /\ (result = "spawned" /\ Agreed)
       => \A fd \in DOMAIN fds \cup DOMAIN RefFinal :
            IF fd \in DOMAIN fds THEN Refers(fds[fd]) = RefFinal[fd]
            ELSE RefFinal[fd] = <<"closed">>
  /\ (result = "bad fd" /\ Agreed)
       => \E fd \in DOMAIN RefFinal : RefFinal[fd] = <<"closed">>

\* yc-shell.h (lines 15 to 18) says that glob characters are not guessed at but left to
\* sh -c: no argument of a line that is run without a shell is a pattern.  It is not so,
\* with the lines and values Patterns and Globs of MC_Shell.
PatternsLeftToShell ==
  (result = "direct" /\ Agreed) => ~ Globbed(line, Held)

\* yc-shell.h says that a syntax error is a line that is broken for any shell.
SyntaxIsBroken == result = "SYNTAX" => Broken(line)
=============================================================================
