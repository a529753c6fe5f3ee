-------------------------- MODULE ReleaseSelection --------------------------
(***************************************************************************)
(* What the selection of one library item promises, whatever the searches, *)
(* the workers, the user and the housekeeping do to its rows.  There is an *)
(* active release and there are staged ones beside it, of which files of   *)
(* some are served.  A release enters as the active one, alone, or as the  *)
(* only staged one; a staged release becomes active only by being          *)
(* published, and nothing is served beside what is published then; and a   *)
(* release that is gone never comes back.                                  *)
(***************************************************************************)
EXTENDS Integers

VARIABLES
  active,  \* the release the queue points to, or None
  staged,  \* the other releases the item has
  served,  \* those whose files are published
  offered, \* whether the item counts as available
  last     \* the last release there was

vars == <<active, staged, served, offered, last>>

None == 0
All == (staged \cup {active}) \ {None}

Init ==
  /\ active = None
  /\ staged = {}
  /\ served = {}
  /\ offered = FALSE
  /\ last = 0

\* Nothing is served that was not.
NoneAdded == served' \subseteq served

\* What is left of the item is a and s.
Leave(a, s) ==
  /\ active' = a
  /\ staged' = s
  /\ NoneAdded

Same == UNCHANGED <<offered, last>>
MayWithdraw == offered' \in {offered, FALSE}

\* A new release becomes the only one.
Select ==
  /\ last' = last + 1
  /\ Leave(last', {})
  /\ MayWithdraw

\* An upgrade is put beside the active release, in the place of an earlier one.
Stage ==
  /\ active # None
  /\ last' = last + 1
  /\ Leave(active, {last'})
  /\ UNCHANGED offered

\* Staged releases go, or are imported anew; the rest of the item is not touched.
Withdraw == Same /\ active' = active /\ staged' \subseteq staged /\ NoneAdded

\* The item loses its active release.
Drop ==
  /\ active' = None
  /\ staged' \subseteq staged
  /\ NoneAdded
  /\ MayWithdraw
  /\ UNCHANGED last

\* A release goes and a new one becomes active, or none does; what else there is stays.
GiveWay ==
  \E gone \in All, next \in {None, last + 1} :
    /\ Leave(next, All \ {gone})
    /\ last' = IF next = None THEN last ELSE next
    /\ MayWithdraw

\* A release of the item becomes the only one, and is served.
Publish ==
  \E r \in All :
    /\ active' = r
    /\ staged' = {}
    /\ served' = {r}
    /\ offered' = TRUE
    /\ UNCHANGED last

Next == Withdraw \/ Select \/ Stage \/ Drop \/ GiveWay \/ Publish

Spec == Init /\ [][Next]_vars
=============================================================================
