-------------------------------- MODULE Term --------------------------------
(***************************************************************************)
(* The terminal layer (yc-term.c): frames that are drawn by difference,    *)
(* resizes, keys, and who owns the terminal.                               *)
(*                                                                         *)
(* A row is the items sent for it, bytes and escape sequences, and the     *)
(* columns they take.  tty, screen, raw and alt are the terminal itself:   *)
(* its size, what each row of it shows, and its modes.  The client is any  *)
(* program that draws within frames; one callback runs at a time, so that  *)
(* keys and resizes come between frames.                                   *)
(***************************************************************************)
EXTENDS TermText, TermKeys

CONSTANTS
  MaxHeight,    \* bound: rows of any screen
  Default,      \* <<DEFAULT_WIDTH, DEFAULT_HEIGHT>>
  Bounce,       \* a terminal may return to its old size before the resize is
                \*   noticed
  EveryRow,     \* the client ends every row of a frame, if only with a reset
  Sessions      \* bounds: by name, what a client, a user and a terminal may do

\* Texts are bytes, and what sets colours is not: it takes no columns.
ASSUME TermAssumption ==
  /\ MaxHeight \in Nat \ {0} /\ Bounce \in BOOLEAN /\ EveryRow \in BOOLEAN
  /\ Default \in Nat \X (1 .. MaxHeight)
  /\ \A s \in DOMAIN Sessions :
       /\ Sessions[s].typed \subseteq Seq(STRING)
       /\ Sessions[s].texts \subseteq Seq(0 .. 255)
       /\ \A sgr \in Sessions[s].sgr : sgr \in Nat /\ sgr > 255
       /\ Sessions[s].cols \subseteq Nat
       /\ Sessions[s].sizes \subseteq Nat \X (0 .. MaxHeight)

\* Escape sequences, as items of a row; a row that shows none of our frames.
RESET   == 256
REVERSE == 257
Junk    == <<-1>>

Row   == 0 .. MaxHeight - 1
Empty == [bytes |-> << >>, cols |-> 0]

VARIABLES
  session, frames,    \* the bounds of this behaviour, and the frames left of it
  life,               \* the object: none, failed, ready, stopped, freed
  width, height, back, front, current_row, in_frame,
  asked,              \* what the client asked for in the current row
  tty, winch, screen, \* the terminal: its size, SIGWINCH due, what it shows
  raw, alt,
  fresh,              \* a frame was completed since the size was last set
  lost,               \* a write failed since then
  typed, n_read, pending, keys   \* the input, what was read of it, what is held,
                      \*   and the keys that came out

frame == <<back, current_row, in_frame, asked>>
modes == <<life, raw, alt>>
input == <<typed, n_read, pending, keys>>
size  == <<width, height>>
world == <<tty, winch, screen>>
vars  == <<session, frames, life, width, height, back, front, current_row, in_frame, asked,
           tty, winch, screen, raw, alt, fresh, lost, typed, n_read, pending,
           keys>>

bounds == <<session, frames>>

\* The sizes of the terminal, the texts and attributes, the columns to pad to,
\* the operations in a row, the frames, and what the user types.
Limit == Sessions[session]

Init ==
  /\ session \in DOMAIN Sessions /\ frames = Limit.frames
  /\ life = "none"
  /\ width = Default[1] /\ height = Default[2]
  /\ back = [r \in Row |-> Empty] /\ front = [r \in Row |-> Empty]
  /\ current_row = 0 /\ in_frame = FALSE /\ asked = << >>
  /\ tty \in Limit.sizes /\ winch = FALSE /\ screen = [r \in Row |-> Junk]
  /\ raw = FALSE /\ alt = FALSE
  /\ fresh = FALSE /\ lost = FALSE
  /\ typed \in Limit.typed /\ n_read = 0 /\ pending = << >> /\ keys = << >>

\* Mutant: the front buffer is kept across a resize.
SetSize_KeepsFront(s) ==
  /\ width' = s[1] /\ height' = s[2]
  /\ IF s = size THEN UNCHANGED <<front, fresh, lost>>
     ELSE front' = front /\ fresh' = FALSE /\ lost' = FALSE

\* yc_term_set_size; new rows are empty, too.
SetSize(s) ==
  /\ width' = s[1] /\ height' = s[2]
  /\ IF s = size THEN UNCHANGED <<front, fresh, lost>>
     ELSE front' = [r \in Row |-> Empty] /\ fresh' = FALSE /\ lost' = FALSE

\* yc_term_new: the alternate screen is cleared.
New ==
  /\ life = "none"
  /\ life' = "ready" /\ raw' = TRUE /\ alt' = TRUE
  /\ screen' = [r \in Row |-> << >>]
  /\ \E s \in {tty, Default} : SetSize(s)     \* uv_tty_get_winsize may fail
  /\ UNCHANGED <<bounds, frame, tty, winch, input>>

\* No terminal, no handle for it, or no raw mode.
NewFails ==
  /\ life = "none" /\ life' = "failed"
  /\ UNCHANGED <<bounds, size, front, frame, world, raw, alt, fresh, lost, input>>

BeginFrame ==
  /\ life \in {"ready", "stopped"} /\ ~ in_frame /\ frames > 0
  /\ frames' = frames - 1
  /\ back' = [r \in Row |-> IF r < height THEN Empty ELSE back[r]]
  /\ in_frame' = TRUE /\ current_row' = 0 /\ asked' = << >>
  /\ UNCHANGED <<session, modes, size, front, world, fresh, lost, input>>

RowBegin(r) ==
  /\ in_frame
  /\ current_row' = r /\ asked' = << >>
  /\ back' = IF r < height THEN [back EXCEPT ![r] = Empty] ELSE back
  /\ UNCHANGED <<bounds, modes, size, front, in_frame, world, fresh, lost, input>>

\* The client draws in the current row; what is off the screen is left out.
Draw(request, row) ==
  /\ in_frame /\ Len(asked) < Limit.ops /\ current_row < height
  /\ asked' = Append(asked, request)
  /\ back' = [back EXCEPT ![current_row] = row]
  /\ UNCHANGED <<bounds, modes, size, front, current_row, in_frame, world, fresh, lost,
                 input>>

Current == back[current_row]

\* yc_term_row_attr; yc_term_row_end is one with a reset.
Attr(row, sgr) == [row EXCEPT !.bytes = Append(@, sgr)]

RowAttr(sgr) == Draw(<<sgr>>, Attr(Current, sgr))

\* Mutant: a wide character may straddle the right edge.
PutChar_Straddles(row, bytes, cols) ==
  IF row.cols >= width THEN [row EXCEPT !.cols = width]
  ELSE [bytes |-> row.bytes \o bytes, cols |-> row.cols + cols]

\* One round of the loop of yc_term_row_puts, if it is reached.
PutChar(row, bytes, cols) ==
  IF row.cols >= width \/ row.cols + cols > width THEN row
  ELSE [bytes |-> row.bytes \o bytes, cols |-> row.cols + cols]

\* What is shown as a question mark.
Replaced(d) == d.used = 0 \/ d.cp < \h20 \/ d.cp = \h7F

\* A round: the character of text at s.i.  The loop ends at the first that
\* does not fit.
PutNext(text, s) ==
  LET d    == Utf8Decode(SubSeq(text, s.i, Len(text)))
      n    == IF d.used = 0 THEN 1 ELSE d.used
      next == IF Replaced(d) THEN PutChar(s.row, QuestionMark, 1)
              ELSE PutChar(s.row, SubSeq(text, s.i, s.i + n - 1), CodepointColumns(d.cp))
  IN  IF s.i > Len(text) THEN s
      ELSE [i |-> IF next = s.row THEN Len(text) + 1 ELSE s.i + n, row |-> next]

\* yc_term_row_puts: up to the right edge.
Puts(row, text) ==
  LET Rounds[k \in 0 .. Len(text)] ==
        IF k = 0 THEN [i |-> 1, row |-> row] ELSE PutNext(text, Rounds[k - 1])
  IN  Rounds[Len(text)].row

RowPuts(text) == Draw(text, Puts(Current, text))

\* yc_term_row_pad
Pad(row, col) ==
  LET n == IF col > width THEN width - row.cols ELSE col - row.cols
  IN  IF n <= 0 THEN row
      ELSE [bytes |-> row.bytes \o [i \in 1 .. n |-> \h20], cols |-> row.cols + n]

RowPad(col) == Draw([i \in 1 .. col |-> \h20], Pad(Current, col))

RowEnd ==
  /\ in_frame /\ current_row < height /\ <<RESET>> \notin ToSet(asked)
  /\ asked' = Append(asked, <<RESET>>)
  /\ back' = [back EXCEPT ![current_row] = Attr(Current, RESET)]
  /\ UNCHANGED <<bounds, modes, size, front, current_row, in_frame, world, fresh, lost,
                 input>>

\* What of a row is text.
TextOf(bytes) == FlattenSeq([i \in DOMAIN bytes |-> IF bytes[i] < 256 THEN <<bytes[i]>> ELSE << >>])

\* Does the terminal show these bytes in one row?
Fits(bytes) ==
  LET chars == Shown(TextOf(bytes))
  IN  FlattenSeq(chars) = TextOf(bytes) /\ TotalColumns(chars) <= tty[1]

\* rows_differ
Changed == {r \in 0 .. height - 1 : back[r].bytes # front[r].bytes}

\* yc_term_end_frame; of the changed rows, those below cut were written.
\* write() may fail at any row.
EndFrame(cut) ==
  /\ in_frame
  /\ EveryRow => \A r \in 0 .. height - 1 : back[r].bytes # << >>
  /\ in_frame' = FALSE
  /\ front' = [r \in Row |-> IF r \in Changed THEN back[r] ELSE front[r]]
  /\ screen' = IF Changed # {} /\ size # tty THEN [r \in Row |-> Junk]
               ELSE [r \in Row |->
                       IF r \notin Changed \/ r > cut THEN screen[r]
                       ELSE IF r = cut \/ ~ Fits(back[r].bytes) THEN Junk
                       ELSE back[r].bytes]
  /\ fresh' = TRUE
  /\ lost' = (lost \/ \E r \in Changed : r >= cut)
  /\ asked' = << >>
  /\ UNCHANGED <<bounds, modes, size, back, current_row, tty, winch, input>>

\* yc_term_stop: the input ended, or the client wants no more keys.
Stop ==
  /\ life = "ready" /\ ~ in_frame
  /\ life' = "stopped"
  /\ UNCHANGED <<bounds, raw, alt, size, front, frame, world, fresh, lost, input>>

\* Mutant: the terminal is given back only while keys are read.
Free_WhenReading ==
  /\ life \in {"ready", "stopped"} /\ ~ in_frame
  /\ life' = "freed"
  /\ IF life = "ready" THEN raw' = FALSE /\ alt' = FALSE ELSE UNCHANGED <<raw, alt>>
  /\ UNCHANGED <<bounds, size, front, frame, world, fresh, lost, input>>

\* yc_term_free
Free ==
  /\ life \in {"ready", "stopped"} /\ ~ in_frame
  /\ life' = "freed" /\ raw' = FALSE /\ alt' = FALSE
  /\ UNCHANGED <<bounds, size, front, frame, world, fresh, lost, input>>

\* on_tty_read, with the next n bytes.
TtyRead(n) ==
  /\ life = "ready" /\ ~ in_frame
  /\ n_read' = n_read + n /\ n_read' <= Len(typed)
  /\ LET s == FeedInput([pending |-> pending, keys |-> keys],
                        SubSeq(typed, n_read + 1, n_read'))
     IN  pending' = s.pending /\ keys' = s.keys
  /\ UNCHANGED <<bounds, typed, modes, size, front, frame, world, fresh, lost>>

\* on_winch
OnWinch ==
  /\ life = "ready" /\ ~ in_frame /\ winch
  /\ winch' = FALSE
  /\ \E s \in {tty, Default} : SetSize(s)
  /\ UNCHANGED <<bounds, modes, frame, tty, screen, input>>

\* The terminal gets another size; what it shows then is up to it.
SizeChanges(s) ==
  /\ life \in {"ready", "stopped"} /\ s # tty /\ (s = size => Bounce)
  /\ tty' = s /\ winch' = TRUE
  /\ \E shown \in {screen, [r \in Row |-> Junk]} : screen' = shown
  /\ UNCHANGED <<bounds, modes, size, front, frame, fresh, lost, input>>

Next ==
  \/ New \/ NewFails \/ Stop \/ Free \/ OnWinch
  \/ BeginFrame \/ RowEnd
  \/ \E r \in 0 .. MaxHeight : RowBegin(r)
  \/ \E text \in Limit.texts : RowPuts(text)
  \/ \E sgr \in Limit.sgr : RowAttr(sgr)
  \/ \E col \in Limit.cols : RowPad(col)
  \/ \E cut \in 0 .. MaxHeight : EndFrame(cut)
  \/ \E n \in 1 .. Len(typed) : TtyRead(n)
  \/ \E s \in Limit.sizes : SizeChanges(s)

Spec == Init /\ [][Next]_vars

-----------------------------------------------------------------------------
\* After a frame the screen shows the frame, although only the rows that
\* changed were sent, whatever was on the screen before, and across resizes:
\* unless a resize was not yet noticed, its new size is not known, or a write
\* failed since the last resize.
ScreenShowsFrame ==
  (/\ life \in {"ready", "stopped"} /\ ~ in_frame /\ fresh
   /\ ~ winch /\ size = tty /\ ~ lost)
    => \A r \in 0 .. height - 1 : screen[r] = front[r].bytes /\ front[r] = back[r]

\* A text is clipped at the right edge, never wrapped and never inside a
\* character: a row that shows one text shows as many of its characters as
\* fit, ill-formed bytes and control characters as question marks, and the row
\* counts the columns the terminal will.
Clipped ==
  (in_frame /\ Len(asked) = 1 /\ asked[1] \in Limit.texts /\ current_row < height) =>
    LET chars == Shown(asked[1])
        row   == back[current_row]
    IN  \E k \in 0 .. Len(chars) :
          LET cols(n) == TotalColumns(SubSeq(chars, 1, n))
          IN  /\ row.bytes = FlattenSeq(SubSeq(chars, 1, k))
              /\ row.cols = cols(k) /\ cols(k) <= width
              /\ k < Len(chars) => cols(k) = width \/ cols(k + 1) > width

\* The keys are those of the whole stream, however the reads cut it: inside
\* an escape sequence, or after an ESC that may start one; what waits for the
\* rest of a sequence has room where it is kept.
KeysWhole ==
  LET got == SubSeq(typed, 1, n_read)
  IN  /\ Len(pending) <= MaxPending
      /\ SequencesFit(got) => keys = KeysOf(got)

\* The terminal is given back as it was found, also when the input ended
\* first.
Restored == life \in {"none", "failed", "freed"} => ~ raw /\ ~ alt
=============================================================================
