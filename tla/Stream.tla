------------------------------- MODULE Stream -------------------------------
(***************************************************************************)
(* What a lossy, ordered hop of the media pipeline promises: items are     *)
(* offered with the numbers 1, 2, 3, ..., and what is seen at the other    *)
(* end are some of them, each at most once, in the order of the numbers,   *)
(* and never before it was offered.                                        *)
(***************************************************************************)
EXTENDS Naturals

VARIABLES
  offered,   \* the number of items offered
  seen       \* the last item seen

Init == offered = 0 /\ seen = 0

Offer == offered' = offered + 1 /\ UNCHANGED seen

See == seen' \in seen + 1 .. offered /\ UNCHANGED offered

Next == Offer \/ See

Spec == Init /\ [][Next]_<<offered, seen>>
=============================================================================
