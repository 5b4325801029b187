------------------------------ MODULE TermText ------------------------------
(***************************************************************************)
(* How yc-term.c takes text apart: bytes to codepoints, codepoints to      *)
(* columns.  Bytes and codepoints are numbers.                             *)
(***************************************************************************)
EXTENDS Integers, SequencesExt

\* What the first byte says: the bytes of the sequence, and its first bits.
Lead(b) ==
  CASE b < \h80                -> [need |-> 1, bits |-> b]
    [] b >= \hC2 /\ b < \hE0   -> [need |-> 2, bits |-> b % 32]
    [] b >= \hE0 /\ b < \hF0   -> [need |-> 3, bits |-> b % 16]
    [] b >= \hF0 /\ b < \hF5   -> [need |-> 4, bits |-> b % 8]
    [] OTHER                   -> [need |-> 0, bits |-> 0]

Continuation(b) == b \div 64 = 2

\* Overlong forms and surrogates.
IllFormed(need, cp) ==
  \/ need = 3 /\ cp < \h800
  \/ need = 4 /\ cp < \h10000
  \/ cp \in \hD800 .. \hDFFF

\* utf8_decode: the bytes used (0: ill-formed) and the codepoint.
Utf8Decode(text) ==
  LET lead == Lead(text[1])
      Bits[n \in 1 .. lead.need] ==
        IF n = 1 THEN lead.bits ELSE Bits[n - 1] * 64 + (text[n] % 64)
      cp   == Bits[lead.need]
  IN  IF \/ lead.need = 0 \/ Len(text) < lead.need
         \/ \E i \in 2 .. lead.need : ~ Continuation(text[i])
         \/ IllFormed(lead.need, cp)
      THEN [used |-> 0, cp |-> 0]
      ELSE [used |-> lead.need, cp |-> cp]

zero_width_ranges == <<
  <<\h0300, \h036F>>, <<\h0483, \h0489>>, <<\h0591, \h05BD>>, <<\h05BF, \h05BF>>, <<\h05C1, \h05C2>>,
  <<\h05C4, \h05C5>>, <<\h05C7, \h05C7>>, <<\h0610, \h061A>>, <<\h064B, \h065F>>, <<\h0670, \h0670>>,
  <<\h06D6, \h06DC>>, <<\h06DF, \h06E4>>, <<\h06E7, \h06E8>>, <<\h06EA, \h06ED>>, <<\h0711, \h0711>>,
  <<\h0730, \h074A>>, <<\h07A6, \h07B0>>, <<\h07EB, \h07F3>>, <<\h0816, \h0819>>, <<\h081B, \h0823>>,
  <<\h0825, \h0827>>, <<\h0829, \h082D>>, <<\h0900, \h0903>>, <<\h093A, \h093C>>, <<\h0941, \h0948>>,
  <<\h094D, \h094D>>, <<\h0951, \h0957>>, <<\h0E31, \h0E31>>, <<\h0E34, \h0E3A>>, <<\h0E47, \h0E4E>>,
  <<\h135D, \h135F>>, <<\h1AB0, \h1AFF>>, <<\h1DC0, \h1DFF>>, <<\h200B, \h200F>>, <<\h2028, \h202E>>,
  <<\h2060, \h2064>>, <<\h2066, \h206F>>, <<\h20D0, \h20F0>>, <<\h302A, \h302F>>, <<\h3099, \h309A>>,
  <<\hFE00, \hFE0F>>, <<\hFE20, \hFE2F>>, <<\hFEFF, \hFEFF>>, <<\hFFF9, \hFFFB>>, <<\hE0100, \hE01EF>> >>

wide_ranges == <<
  <<\h1100, \h115F>>, <<\h2E80, \h303E>>, <<\h3041, \h33FF>>, <<\h3400, \h4DBF>>, <<\h4E00, \h9FFF>>,
  <<\hA000, \hA4CF>>, <<\hAC00, \hD7A3>>, <<\hF900, \hFAFF>>, <<\hFE10, \hFE19>>, <<\hFE30, \hFE6F>>,
  <<\hFF00, \hFF60>>, <<\hFFE0, \hFFE6>>, <<\h1F300, \h1F64F>>, <<\h1F680, \h1F6FF>>, <<\h1F900, \h1F9FF>>,
  <<\h1FA70, \h1FAFF>>, <<\h20000, \h2FFFD>>, <<\h30000, \h3FFFD>> >>

\* in_ranges: a binary search.
InRanges(cp, ranges) ==
  LET Place == 0 .. Len(ranges)
      Search[s \in Place \X Place] ==
        LET lo  == s[1]
            hi  == s[2]
            mid == lo + (hi - lo) \div 2
        IN  /\ lo < hi
            /\ IF cp < ranges[mid + 1][1] THEN Search[<<lo, mid>>]
               ELSE IF cp > ranges[mid + 1][2] THEN Search[<<mid + 1, hi>>]
               ELSE TRUE
  IN  Search[<<0, Len(ranges)>>]

\* codepoint_columns
CodepointColumns(cp) ==
  IF cp = 0 \/ InRanges(cp, zero_width_ranges) THEN 0
  ELSE IF InRanges(cp, wide_ranges) THEN 2 ELSE 1

-----------------------------------------------------------------------------
\* What a terminal makes of bytes, said independently of the code above.

\* The Unicode standard's table of well-formed byte sequences.
WellFormed(s) ==
  LET Rest(i) == \A k \in i .. Len(s) : s[k] \in \h80 .. \hBF
  IN  \/ Len(s) = 1 /\ s[1] < \h80
      \/ Len(s) = 2 /\ s[1] \in \hC2 .. \hDF /\ Rest(2)
      \/ /\ Len(s) = 3 /\ Rest(3)
         /\ \/ s[1] = \hE0 /\ s[2] \in \hA0 .. \hBF
            \/ s[1] \in (\hE1 .. \hEC) \cup {\hEE, \hEF} /\ Rest(2)
            \/ s[1] = \hED /\ s[2] \in \h80 .. \h9F
      \/ /\ Len(s) = 4 /\ Rest(3)
         /\ \/ s[1] = \hF0 /\ s[2] \in \h90 .. \hBF
            \/ s[1] \in \hF1 .. \hF3 /\ Rest(2)
            \/ s[1] = \hF4 /\ s[2] \in \h80 .. \h8F

Codepoint(s) ==
  CASE Len(s) = 1 -> s[1]
    [] Len(s) = 2 -> (s[1] - \hC0) * 64 + (s[2] - \h80)
    [] Len(s) = 3 -> (s[1] - \hE0) * \h1000 + (s[2] - \h80) * 64 + (s[3] - \h80)
    [] Len(s) = 4 -> (s[1] - \hF0) * \h40000 + (s[2] - \h80) * \h1000
                       + (s[3] - \h80) * 64 + (s[4] - \h80)

Control(s) == Len(s) = 1 /\ (s[1] < \h20 \/ s[1] = \h7F)

QuestionMark == <<\h3F>>

\* How long a character may be that begins at i.
CharacterAt(text, i) ==
  {n \in 1 .. 4 : i + n - 1 <= Len(text) /\ WellFormed(SubSeq(text, i, i + n - 1))}

\* The characters to show from each place of a text on: a question mark for
\* each byte that is not part of a character, and for each control character.
ShownFrom(text) ==
  LET From[i \in 1 .. Len(text) + 1] ==
        IF i > Len(text) THEN << >>
        ELSE IF CharacterAt(text, i) = {} THEN <<QuestionMark>> \o From[i + 1]
        ELSE LET n == CHOOSE n \in CharacterAt(text, i) : TRUE
                 s == SubSeq(text, i, i + n - 1)
             IN  <<IF Control(s) THEN QuestionMark ELSE s>> \o From[i + n]
  IN  From

Shown(text) == ShownFrom(text)[1]

InTable(cp, ranges) == \E r \in ToSet(ranges) : r[1] <= cp /\ cp <= r[2]

Columns(s) ==
  LET cp == Codepoint(s)
  IN  IF cp = 0 \/ InTable(cp, zero_width_ranges) THEN 0
      ELSE IF InTable(cp, wide_ranges) THEN 2 ELSE 1

TotalColumns(chars) ==
  LET Sum[n \in 0 .. Len(chars)] == IF n = 0 THEN 0 ELSE Sum[n - 1] + Columns(chars[n])
  IN  Sum[Len(chars)]
=============================================================================
