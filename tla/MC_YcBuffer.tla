---------------------------- MODULE MC_YcBuffer ----------------------------
(***************************************************************************)
(* Two buffers with up to four bytes between them, in fragments of two.    *)
(***************************************************************************)
EXTENDS YcBuffer

MCFragment == 1 .. 7
MCByte == {"NUL", "nl"}
MCTexts == {<<>>, <<"nl">>, <<"NUL", "nl">>, <<"nl", "nl", "nl", "nl">>}
MCForeignData == [o \in Foreign |-> <<"NUL", "nl">>]

\* States that differ in the names of their fragments, in the call that led to
\* them, or by an exchange of the buffers have the same future: while every
\* fragment is in one place, a state is seen as what its chains hold.
Seen ==
  LET chains == [b \in Buffer |-> Chained(m, b)]
      stack == Chain(m, m.recycling_stack)
      all == chains["a"] \o chains["b"] \o stack
      Place(b, f) == SelectInSeq(chains[b], LAMBDA g : g = f)
      Content(b) ==
        <<[i \in DOMAIN chains[b] |-> [m.heap[chains[b][i]] EXCEPT !.next = NIL]],
          Place(b, m.last_frag[b]), m.size[b],
          IF placeholder = NIL \/ placeholder.buffer # b THEN NIL
            ELSE <<Place(b, placeholder.fragment), placeholder.offset, placeholder.length>> >>
  IN IF IsInjective(all) /\ ToSet(all) = {f \in Fragment : m.heap[f] # NIL}
       THEN <<{Content(b) : b \in Buffer}, Len(stack), m.num_recycled, m.destroyed, m.lent>>
       ELSE <<m, placeholder>>
=============================================================================
