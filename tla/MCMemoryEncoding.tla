-------------------------- MODULE MCMemoryEncoding --------------------------
(* The scenes of MCMembusAnalysis, and some in which no alignment ran (with a *)
(* guess, right or wrong), keys have a symbolic base or the checks of the     *)
(* interface encoding are on; worlds that differ from the trace in at most    *)
(* two interactions.                                                          *)
EXTENDS MCMembusAnalysis, MemoryEncoding

MCBytes == {0, 1}
MCLimbs(s) == [i \in DOMAIN s.facts |-> [term |-> i, checked |-> FALSE]]

\* What one interaction may be like: multiplicities and pointers vary where
\* they are not known, data is a byte or not.
Like(s, i) ==
  {[mult |-> m, ptr |-> p, data |-> d] :
     m \in IF s.facts[i].mult = "sym" THEN {s.trace.mult[i], 0} ELSE {s.trace.mult[i]},
     p \in {s.trace.ptr[i], 8}, d \in {0, 1, 2}}
Changed(s, c, J, r) ==
  LET rows == ById(s, c)
      col(j, own, k) == IF j \in J THEN r[j][k] ELSE own
  IN  [mult |-> [j \in rows |-> col(j, s.trace.mult[j], "mult")],
       ptr |-> [j \in rows |-> col(j, s.trace.ptr[j], "ptr")],
       data |-> [j \in rows |-> col(j, s.trace.data[j], "data")],
       space |-> [j \in rows |-> s.trace.space[j]], time |-> [j \in rows |-> s.trace.time[j]],
       base |-> s.trace.base, stamp |-> s.trace.stamp]
MCWorlds(s, c) ==
  UNION {{Changed(s, c, {i, j}, r) : r \in {f \in [{i, j} -> Like(s, i) \cup Like(s, j)] :
                                             f[i] \in Like(s, i) /\ f[j] \in Like(s, j)}} :
           <<i, j>> \in ById(s, c) \X ById(s, c)}

Whole(t) == [b |-> {1, 2, 3, 4}, a |-> {1, 2, 3, 4}, t |-> t]
Half(t) == [b |-> {1, 2, 3, 4}, a |-> {1, 4}, t |-> t]
Bare == Know({"kinds", "times"}, {"before"}, {}, TRUE)

\* No alignment: a guess that is right, that swaps two rows, or none.
Guessed(bl, g) == [Scene(bl, Bare, FALSE) EXCEPT !.kept = <<>>, !.ran = FALSE, !.guess = g]
Straight == [i \in {"b0", "b3"} |-> A[Pos(i)]]
Swapped == [i \in {"b0", "b2"} |-> IF i = "b0" THEN "a2" ELSE "a0"]
Rebased(s) ==
  [s EXCEPT !.facts = [i \in DOMAIN s.facts |->
                         [s.facts[i] EXCEPT !.key = [base |-> "rs", offset |-> s.trace.ptr[i] - 8]]],
            !.trace.base = [b \in {"const", "rs"} |-> IF b = "rs" THEN 8 ELSE 0]]

MoreScenes ==
  {Guessed(Whole(Chain), Straight), Guessed(Whole(TwoCells), Swapped), Guessed(Half(Chain), <<>>),
   Rebased(Scene(Whole(TwoCells), Bare, FALSE))}
  \cup {[Scene(Half(Chain), Know({"kinds"}, sides, {}, TRUE), FALSE) EXCEPT !.lax = FALSE] :
          sides \in SUBSET Circuits}
EncScenes == MCScenes \cup MoreScenes

\* The premise of the theorem about TraceAdmitted.
ASSUME TracesAssumption == TracesExecute

\* The premise of its part about arrays.
ASSUME ReplayAssumption == TracesReplay

\* The premise of the theorem about InternalPairsRecovered.
ASSUME RemovedAssumption == RemovedInPairs
=============================================================================
