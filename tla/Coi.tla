-------------------------------- MODULE Coi ---------------------------------
(***************************************************************************)
(* ConstraintIndex.slice_indices: the breadth-first fixpoint that computes *)
(* the boundary-stopped cone of influence of a set of seed variables.  One *)
(* round takes the variables of the frontier one at a time, in any order,  *)
(* and collects the next frontier on the side.                             *)
(***************************************************************************)
EXTENDS Slices

VARIABLES
  seed,        \* the argument
  picked,      \* conjuncts picked so far
  active,      \* variables seen so far
  frontier,    \* variables of this round still to be expanded
  newFrontier  \* variables to be expanded in the next round

vars == <<seed, picked, active, frontier, newFrontier>>

TypeOK ==
  /\ picked \subseteq Ctx
  /\ {seed, active, frontier, newFrontier} \subseteq SUBSET Vars

Init ==
  /\ seed \in SUBSET Vars
  /\ picked = {}
  /\ active = seed
  /\ frontier = seed \ Boundary
  /\ newFrontier = {}

\* The variables to expand in the next round, once unseen ones were found.
\* In the mutant the round forgets the variables that an earlier conjunct of it
\* contributed.
NextFrontierLast(unseen) == unseen \ Boundary
NextFrontier(unseen) == newFrontier \cup (unseen \ Boundary)

\* Pick every conjunct of v not picked yet; its unseen variables become
\* active, and the ones off the boundary join the next frontier.
Expand(v) ==
  LET new    == Touching({v}) \ picked
      unseen == VarsOf(new) \ active
  IN  /\ v \in frontier
      /\ picked' = picked \cup new
      /\ active' = active \cup unseen
      /\ newFrontier' = NextFrontier(unseen)
      /\ frontier' = frontier \ {v}
      /\ UNCHANGED seed

\* In the mutant the next frontier is not cleared when it is taken over.
NextRoundKeeps ==
  /\ frontier = {} /\ newFrontier # {}
  /\ frontier' = newFrontier
  /\ UNCHANGED <<seed, picked, active, newFrontier>>

NextRound ==
  /\ frontier = {}
  /\ newFrontier # {}
  /\ frontier' = newFrontier
  /\ newFrontier' = {}
  /\ UNCHANGED <<seed, picked, active>>

Next == NextRound \/ \E v \in frontier : Expand(v)

Spec == Init /\ [][Next]_vars /\ WF_vars(Next)

-----------------------------------------------------------------------------
Done == frontier = {} /\ newFrontier = {}

\* The worklist invariant: the picked conjuncts belong to the cone, and a
\* variable off the boundary that was seen is either still to be expanded or
\* has all its conjuncts picked.
WorklistInv ==
  /\ picked \subseteq Cone(seed)
  /\ active = seed \cup VarsOf(picked)
  /\ frontier \cup newFrontier \subseteq active \ Boundary
  /\ \A v \in active \ Boundary :
       v \in frontier \cup newFrontier \/ Touching({v}) \subseteq picked

\* What slice_indices returns is exactly the least boundary-stopped closed
\* set: no conjunct is missed because two frontier variables share it, none
\* is pulled in through a boundary variable.
ReturnsTheCone == Done => picked = Cone(seed)

\* slice_seed drops the boundary variables before the result is cached under
\* the seed: the cache key is complete because they never change the cone.
CacheKeyComplete == Done => picked = Cone(seed \ Boundary)

\* The fixpoint is reached: no variable enters the frontier twice.
Terminates == <>Done
=============================================================================
