------------------------------- MODULE Slices -------------------------------
(***************************************************************************)
(* The constraint index of the sliced checker: ctx is a finite set of      *)
(* conjuncts, each known only by its free variables and by the set of      *)
(* assignments that satisfy it.  The boundary variables are the ones the   *)
(* cone of influence does not propagate through.                           *)
(***************************************************************************)
EXTENDS Integers, FiniteSets

CONSTANTS
  Ctx,         \* the conjuncts of the context
  Formulas,    \* the formulas a goal can be split into
  Vars,        \* the free variables of the script
  Boundary,    \* the variables the boundary regex selects
  WitnessVars, \* internal witness variables, the ones with a "!" in their name
  FV           \* FV[f]: the free variables of a conjunct or a formula

ASSUME SlicesAssumption ==
  /\ IsFiniteSet(Ctx)
  /\ Ctx \cap Formulas = {}
  /\ Boundary \subseteq Vars
  /\ WitnessVars \subseteq Vars
  /\ FV \in [Ctx \cup Formulas -> SUBSET Vars]

\* The conjuncts in which a variable of S occurs (the inverted index var2c).
Touching(S) == {i \in Ctx : FV[i] \cap S # {}}

\* The "memory argument": every conjunct that touches a boundary variable.
MemIndices == Touching(Boundary)

\* The part of a formula's variables that can expand its cone.
SliceSeed(d) == FV[d] \ Boundary

VarsOf(S) == UNION {FV[i] : i \in S}

\* S holds every conjunct it should once it is grown from seed: no conjunct
\* outside S shares a non-boundary variable with the seed or with S.
ClosedUnder(S, seed) == Touching((seed \cup VarsOf(S)) \ Boundary) \subseteq S

\* The boundary-stopped cone of influence of seed: the least closed set.
Cone(seed) == {i \in Ctx : \A S \in SUBSET Ctx : ClosedUnder(S, seed) => i \in S}

\* The conjuncts all of whose variables are variables of d or witness
\* variables that occur together with one of them.
ClosedSlice(d) ==
  LET witnesses  == VarsOf(Touching(FV[d])) \cap WitnessVars
      candidates == Touching(FV[d] \cup witnesses)
  IN  {i \in candidates : FV[i] \subseteq FV[d] \cup witnesses}
=============================================================================
