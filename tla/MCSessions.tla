----------------------------- MODULE MCSessions -----------------------------
(***************************************************************************)
(* Sessions for TLC.  The clock stops at the tick MaxTick, when the        *)
(* sessions of the first tick can have expired and their slots and the     *)
(* pointers at them be used again; the connections go on.                  *)
(***************************************************************************)
EXTENDS Sessions, TLC

\* Contexts are interchangeable, and so are browsers: no action and no property
\* chooses one.
Symmetry == Permutations(Contexts) \cup Permutations(Users)

\* Bound: all contexts but one are as at start, and no request comes behind another.
OneContext ==
  /\ \E c \in Contexts : \A d \in Contexts \ {c} : ctx[d] = Closed
  /\ \A c \in Contexts : ctx[c].phase # "queued"

\* Bound: no slot but the first is in use or pointed at, and all contexts but one are
\* between two requests.
OneSlot ==
  /\ \A s \in Slots : sessions[s] # Empty => s = 1
  /\ \A c \in Contexts : ctx[c].session \in {1, NULL}
  /\ \E c \in Contexts : \A d \in Contexts \ {c} : ctx[d].phase \in {"closed", "idle"}

\* The behaviours of Spec within this bound, up to a clash: what is checked claims
\* nothing behind it.
SpecToClash == Init /\ [][Next /\ ~clash /\ (OneContext \/ OneSlot)']_vars
=============================================================================
