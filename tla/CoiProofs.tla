----------------------------- MODULE CoiProofs ------------------------------
(***************************************************************************)
(* slice_indices computes the least boundary-stopped closed set, for every *)
(* index, boundary and seed.                                               *)
(***************************************************************************)
EXTENDS Coi, TLAPS

\* The cone of a seed is itself closed: a conjunct that shares a non-boundary
\* variable with it belongs to every closed set.
LEMMA ConeIsClosed ==
  ASSUME NEW s
  PROVE  Cone(s) \subseteq Ctx /\ ClosedUnder(Cone(s), s)
<1>1. Cone(s) \subseteq Ctx
  BY DEF Cone
<1>2. SUFFICES ASSUME NEW i \in Touching((s \cup VarsOf(Cone(s))) \ Boundary),
                      NEW S \in SUBSET Ctx, ClosedUnder(S, s)
               PROVE  i \in S
  BY <1>1 DEF ClosedUnder, Cone, Touching
<1>3. Cone(s) \subseteq S
  BY <1>2 DEF Cone
<1>4. VarsOf(Cone(s)) \subseteq VarsOf(S)
  BY <1>3 DEF VarsOf
<1>5. i \in Touching((s \cup VarsOf(S)) \ Boundary)
  BY <1>4 DEF Touching
<1>6. QED
  BY <1>2, <1>5 DEF ClosedUnder

\* Growing through a variable of the cone that is off the boundary stays in
\* the cone.
LEMMA ConeGrows ==
  ASSUME NEW s, NEW P, P \subseteq Cone(s),
         NEW v \in (s \cup VarsOf(P)) \ Boundary
  PROVE  Touching({v}) \subseteq Cone(s)
<1>1. VarsOf(P) \subseteq VarsOf(Cone(s))
  BY DEF VarsOf
<1>2. Touching({v}) \subseteq Touching((s \cup VarsOf(Cone(s))) \ Boundary)
  BY <1>1 DEF Touching
<1>3. QED
  BY <1>2, ConeIsClosed DEF ClosedUnder

\* The boundary part of a seed does not matter: the seed of slice_seed is a
\* complete key for the slice cache.
LEMMA BoundarySeedIrrelevant ==
  ASSUME NEW s
  PROVE  Cone(s) = Cone(s \ Boundary)
<1>1. ASSUME NEW S
      PROVE  ClosedUnder(S, s) <=> ClosedUnder(S, s \ Boundary)
  <2>1. (s \cup VarsOf(S)) \ Boundary = ((s \ Boundary) \cup VarsOf(S)) \ Boundary
    OBVIOUS
  <2>2. QED
    BY <2>1 DEF ClosedUnder
<1>2. QED
  BY <1>1 DEF Cone

\* Type correctness of the worklist.
THEOREM CoiTypeCorrect == Spec => []TypeOK
<1>1. Init => TypeOK
  BY DEF Init, TypeOK
<1>2. TypeOK /\ [Next]_vars => TypeOK'
  <2> SUFFICES ASSUME TypeOK, [Next]_vars PROVE TypeOK'
    OBVIOUS
  <2>1. ASSUME NEW S \in SUBSET Ctx PROVE VarsOf(S) \subseteq Vars
    BY SlicesAssumption DEF VarsOf
  <2>2. ASSUME NEW v \in frontier, Expand(v) PROVE TypeOK'
    <3>1. Touching({v}) \in SUBSET Ctx
      BY DEF Touching
    <3>2. VarsOf(Touching({v}) \ picked) \subseteq Vars
      BY <2>1, <3>1
    <3>3. QED
      BY <2>2, <3>1, <3>2 DEF Expand, NextFrontier, TypeOK
  <2>3. CASE NextRound
    BY <2>3 DEF NextRound, TypeOK
  <2>4. CASE UNCHANGED vars
    BY <2>4 DEF vars, TypeOK
  <2>5. QED
    BY <2>2, <2>3, <2>4 DEF Next
<1>3. QED
  BY <1>1, <1>2, PTL DEF Spec

\* The worklist invariant holds in every reachable state.
THEOREM WorklistCorrect == Spec => []WorklistInv
<1>1. Init => WorklistInv
  BY DEF Init, WorklistInv, VarsOf
<1>2. WorklistInv /\ [Next]_vars => WorklistInv'
  <2> SUFFICES ASSUME WorklistInv, [Next]_vars PROVE WorklistInv'
    OBVIOUS
  <2>1. ASSUME NEW v \in frontier, Expand(v) PROVE WorklistInv'
    <3> DEFINE new == Touching({v}) \ picked
    <3>1. /\ picked' = picked \cup new
          /\ active' = active \cup (VarsOf(new) \ active)
          /\ newFrontier' = newFrontier \cup ((VarsOf(new) \ active) \ Boundary)
          /\ frontier' = frontier \ {v}
          /\ seed' = seed
      BY <2>1 DEF Expand, NextFrontier
    <3>2. v \in (seed \cup VarsOf(picked)) \ Boundary
      BY DEF WorklistInv
    <3>3. picked' \subseteq Cone(seed)
      BY <3>1, <3>2, ConeGrows DEF WorklistInv
    <3>4. VarsOf(picked') = VarsOf(picked) \cup VarsOf(new)
      BY <3>1 DEF VarsOf
    <3>5. active' = seed' \cup VarsOf(picked')
      BY <3>1, <3>4 DEF WorklistInv
    <3>6. frontier' \cup newFrontier' \subseteq active' \ Boundary
      BY <3>1 DEF WorklistInv
    <3>7. ASSUME NEW w \in active' \ Boundary
          PROVE  w \in frontier' \cup newFrontier' \/ Touching({w}) \subseteq picked'
      <4>1. CASE w = v
        BY <4>1, <3>1
      <4>2. CASE w # v /\ w \in active
        BY <4>2, <3>1, <3>7 DEF WorklistInv
      <4>3. CASE w \notin active
        BY <4>3, <3>1, <3>7
      <4>4. QED
        BY <4>1, <4>2, <4>3
    <3>8. QED
      BY <3>1, <3>3, <3>5, <3>6, <3>7 DEF WorklistInv
  <2>2. CASE NextRound
    BY <2>2 DEF NextRound, WorklistInv
  <2>3. CASE UNCHANGED vars
    BY <2>3 DEF vars, WorklistInv
  <2>4. QED
    BY <2>1, <2>2, <2>3 DEF Next
<1>3. QED
  BY <1>1, <1>2, PTL DEF Spec

\* What slice_indices returns is the cone, no more and no less.
THEOREM SliceIsTheCone == Spec => []ReturnsTheCone
<1>1. WorklistInv => ReturnsTheCone
  <2> SUFFICES ASSUME WorklistInv, Done PROVE picked = Cone(seed)
    BY DEF ReturnsTheCone
  <2>1. ASSUME NEW i \in Touching((seed \cup VarsOf(picked)) \ Boundary)
        PROVE  i \in picked
    <3>1. PICK w \in (seed \cup VarsOf(picked)) \ Boundary : i \in Touching({w})
      BY DEF Touching
    <3>2. QED
      BY <3>1 DEF WorklistInv, Done
  <2>2. ClosedUnder(picked, seed)
    BY <2>1 DEF ClosedUnder
  <2>3. picked \subseteq Ctx
    BY ConeIsClosed DEF WorklistInv
  <2>4. Cone(seed) \subseteq picked
    BY <2>2, <2>3 DEF Cone
  <2>5. QED
    BY <2>4 DEF WorklistInv
<1>2. QED
  BY <1>1, WorklistCorrect, PTL

\* slice_seed drops the boundary variables of a disjunct, and _slice_for caches
\* the slice under what is left: no two disjuncts with one key need two slices.
THEOREM CacheKeyIsComplete == Spec => []CacheKeyComplete
<1>1. ReturnsTheCone => CacheKeyComplete
  BY BoundarySeedIrrelevant DEF ReturnsTheCone, CacheKeyComplete
<1>2. QED
  BY <1>1, SliceIsTheCone, PTL
=============================================================================
