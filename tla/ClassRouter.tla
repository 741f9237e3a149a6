----------------------------- MODULE ClassRouter ----------------------------
(***************************************************************************)
(* The structure-keyed strategy table of the sliced checker: when a        *)
(* fallback strategy refutes a disjunct, later disjuncts of the same       *)
(* structure class try that strategy first, until its misses dominate.     *)
(* A router is a record of the four tables of _ClassRouter, all indexed by *)
(* structure class.                                                        *)
(***************************************************************************)
EXTENDS Integers

CONSTANTS
  Classes,          \* the structure classes disjuncts fall into
  NoClass,          \* the class of a plain disjunct, which is never routed
  DisableMinMisses  \* misses a class is allowed whatever its hits

ASSUME RouterAssumption ==
  /\ NoClass \notin Classes
  /\ DisableMinMisses \in Nat

Strategies == {"closed", "closed_int", "tactic"}
None == "none"
Choice == Strategies \cup {None}

NewRouter == [pref     |-> [c \in Classes |-> None],
              hits     |-> [c \in Classes |-> 0],
              misses   |-> [c \in Classes |-> 0],
              disabled |-> {}]

Routers == [pref : [Classes -> Choice], hits : [Classes -> Nat],
            misses : [Classes -> Nat], disabled : SUBSET Classes]

Route(r, c) == IF c \in Classes \ r.disabled THEN r.pref[c] ELSE None

Dominated(hits, misses) == misses >= DisableMinMisses /\ misses > 2 * hits

\* The disabled classes after class c has missed once more.  In the mutant the
\* miss that makes the misses dominate is not counted yet.
DisabledLate(r, c, misses) ==
  IF Dominated(r.hits[c], misses - 1) THEN r.disabled \cup {c} ELSE r.disabled
Disabled(r, c, misses) ==
  IF Dominated(r.hits[c], misses) THEN r.disabled \cup {c} ELSE r.disabled

\* Learn the strategy via that refuted a disjunct of class c (or None); hit
\* says whether the routed strategy was the one that won.
Learn(r, c, via, routed, hit) ==
  IF c \notin Classes THEN r
  ELSE LET pref   == IF via # None THEN [r.pref EXCEPT ![c] = via] ELSE r.pref
           hits   == [r.hits EXCEPT ![c] = @ + 1]
           misses == [r.misses EXCEPT ![c] = @ + 1]
       IN  IF ~routed THEN [r EXCEPT !.pref = pref]
           ELSE IF hit THEN [r EXCEPT !.pref = pref, !.hits = hits]
           ELSE [r EXCEPT !.pref = pref, !.misses = misses,
                          !.disabled = Disabled(r, c, misses[c])]
=============================================================================
