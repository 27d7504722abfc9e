----------------------------- MODULE CounterViews -----------------------------
(***************************************************************************)
(* What a replicated grow-only counter promises, without connections,      *)
(* deltas or datagrams.  view[p][h][q] is what peer p believes node q has  *)
(* counted in half h.  Only q makes q's count grow; everybody else learns  *)
(* counts q really had, never forgets them and never invents more.         *)
(***************************************************************************)
EXTENDS Integers

CONSTANTS Node, Half, Amounts

VARIABLE view

Counts == [Half -> [Node -> Nat]]

Init == view = [p \in Node |-> [h \in Half |-> [q \in Node |-> 0]]]

\* The owner counts.
Grow(p) ==
    \E h \in Half, a \in Amounts :
        view' = [view EXCEPT ![p][h][p] = @ + a]

\* p learns more about the other nodes, at most what they have counted.
Learn(p) ==
    /\ view' \in [Node -> Counts]
    /\ \A r \in Node \ {p} : view'[r] = view[r]
    /\ \A h \in Half, q \in Node :
          /\ view[p][h][q] <= view'[p][h][q]
          /\ view'[p][h][q] <= view[q][h][q]

Next == \E p \in Node : Grow(p) \/ Learn(p)

Spec == Init /\ [][Next]_view
=============================================================================
