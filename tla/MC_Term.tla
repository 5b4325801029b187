------------------------------- MODULE MC_Term -------------------------------
(***************************************************************************)
(* Instances of Term for TLC.                                              *)
(***************************************************************************)
EXTENDS Term

Strings(S, n) == UNION {[1 .. k -> S] : k \in 0 .. n}

\* a; a wide character; a combining mark; the largest codepoint; overlong
\* forms; a surrogate; and what is left of such when bytes are lost.
Wide  == <<\hE4, \hB8, \h80>>
Mark  == <<\hCC, \h81>>
Bytes == {\h61, \h1B, \h80, \hCC, \hE0, \hE4, \hB8, \hED, \hA0}
Long  == {<<\hF0, \h9F, \h98, \h80>>, <<\hF4, \h8F, \hBF, \hBF>>, <<\hF0, \h80, \h80, \h80>>,
          <<\hF0, \h9F, \h98>>, <<\hF0, \h9F, \h98, \h61>>, <<\hF8, \h80, \h80, \h80>>,
          <<\h61, \hF0, \h9F, \h98, \h80>>, <<\h61, \h7F>>, <<\h00, \hC0, \hAF>>,
          Wide \o Wide, <<\h61>> \o Wide, <<\h61>> \o Mark \o <<\h62>>, Wide \o Mark}

None == [sizes |-> {<<2, 1>>}, texts |-> {}, sgr |-> {}, cols |-> {}, ops |-> 0,
         frames |-> 0, typed |-> {<< >>}]

\* One text in a row of one or three columns, or of two by default.
Texts(columns) ==
         [None EXCEPT !.sizes = {<<columns, 1>>}, !.ops = 1, !.frames = 1, !.sgr = {REVERSE},
                      !.texts = Strings(Bytes, 3) \cup Long]

\* Frames of one or two rows, and resizes.
Frames == [None EXCEPT !.sizes = {<<3, 2>>, <<2, 1>>}, !.ops = 1, !.frames = 2,
                       !.texts = {Wide}, !.cols = {9}]

\* Keys: any four bytes, and longer sequences.
Keys == [None EXCEPT !.typed = Strings({"esc", "[", "O", "A", "1", "6", "~", "x"}, 4)
                               \cup [1 .. 6 -> {"esc", "[", "5", "~"}]]

AllSessions == [texts |-> Texts(3), narrow |-> Texts(1), frames |-> Frames, keys |-> Keys]
DefaultSize == <<2, 1>>
SmallSize   == <<1, 1>>
=============================================================================
