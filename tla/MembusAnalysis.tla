--------------------------- MODULE MembusAnalysis ---------------------------
(***************************************************************************)
(* The memory-bus analysis that runs before a pair of circuits is encoded. *)
(* Every memory interaction has a set of interactions it may be matched    *)
(* with (itself, if it is an input, an output or disabled) and one         *)
(* three-valued flag per role.  The facts that membus reports rule out     *)
(* pairs and roles; a worklist propagates what follows, and its items are  *)
(* popped in no particular order.  When the two circuits are aligned, what *)
(* is known of an interaction is then exchanged with its kept counterpart, *)
(* and the worklists run once more.                                        *)
(*                                                                         *)
(* A scene holds what was reported together with a trace it is true of:    *)
(* the analysis must never rule that trace out.                            *)
(***************************************************************************)
EXTENDS Integers, FiniteSets, Sequences

CONSTANT Scenes

VARIABLES
  scene,    \* the facts, the alignment and the trace of this analysis
  phase,    \* "before", "after": the side whose worklist runs; then
            \* "flags", "to_after", "to_before": the exchange; "done"
  again,    \* the worklists run for the second time
  changed,  \* the exchange has moved something
  left,     \* kept interactions whose matches are still to be exchanged
  matches,  \* candidate partners of every interaction
  status,   \* flags of every interaction
  work      \* the worklist: pairs of an interaction and a channel

vars == <<scene, phase, again, changed, left, matches, status, work>>

Roles == {"input", "output", "disabled", "match"}
Boundary == {"input", "output"}
Flags == {"yes", "no", "open"}
Channels == {"targets", "status"}
Circuits == {"before", "after"}

-----------------------------------------------------------------------------
\* The facts about one interaction: its circuit, kind, address space (0 when
\* unknown), key (a constant has the base "const"), time, abstract timestamp,
\* constant multiplicity, whether membus solve reports it as an input or an
\* output and whether that is forced, its interior partners, and whether the
\* alignment calls it inert or removed.
FactTypes(I, Bases, Stamps) ==
  [side : Circuits, kind : {"recv", "send", "disabled", "none"}, space : Nat,
   key : [base : Bases \cup {"none"}, offset : Int],
   time : [kind : {"none", "exact", "upper"}, at : Int], stamp : Stamps \cup {"none"},
   mult : {"minus", "zero", "plus", "sym"}, io : {"none", "in", "out"}, forced : BOOLEAN,
   partners : SUBSET I, inert : BOOLEAN, removed : BOOLEAN]

Facts == scene.facts
Edges == scene.edges

\* The interactions of a circuit in their order on the bus.  Where no alignment
\* ran, a guess takes the place of the kept rows.  When both sides have as many,
\* the map is completed by position; with the option interface-ignore-checks
\* (lax), the completed map replaces the kept rows if only it is a bijection.
ById(s, c) == {s.rows[c][n] : n \in 1..Len(s.rows[c])}
SameCount(s) == Len(s.rows["before"]) = Len(s.rows["after"])
SameRow(s, b) ==
  s.rows["after"][CHOOSE n \in 1..Len(s.rows["before"]) : s.rows["before"][n] = b]
Reported(s) == IF s.ran THEN s.kept ELSE s.guess
BeforeToAfter(s) ==
  IF ~SameCount(s) THEN Reported(s)
  ELSE [b \in ById(s, "before") |-> IF b \in DOMAIN Reported(s) THEN Reported(s)[b]
                                    ELSE SameRow(s, b)]
IsBijection(s, m) == /\ DOMAIN m = ById(s, "before")
                     /\ {m[b] : b \in DOMAIN m} = ById(s, "after")
KeptPairs(s) ==
  IF s.lax /\ SameCount(s) /\ ~IsBijection(s, s.kept) /\ IsBijection(s, BeforeToAfter(s))
  THEN BeforeToAfter(s) ELSE s.kept
Alignment == KeptPairs(scene)
Ids == DOMAIN Facts
Side(i) == Facts[i].side
Peers(i) == {j \in Ids : Side(j) = Side(i)}

-----------------------------------------------------------------------------
\* Pairs that cannot be matched.

SameKey(f, g) == f.key.base # "none" /\ f.key = g.key

KeysCannotMatch(f, g) ==
  \/ f.space # 0 /\ g.space # 0 /\ f.space # g.space
  \/ f.kind = g.kind /\ f.kind \in {"send", "recv"}
  \/ f.key.base # "none" /\ f.key.base = g.key.base /\ f.key.offset # g.key.offset

\* In the mutant an upper bound is taken for a strict one.
TooLate(s, t) == s.kind = "exact" /\ t.kind \in {"exact", "upper"} /\ s.at > t.at
TooLateStrict(s, t) == s.kind = "exact" /\ t.kind \in {"exact", "upper"} /\ s.at >= t.at
TimesCannotMatchStrict(f, g) == TooLateStrict(f.time, g.time) \/ TooLateStrict(g.time, f.time)
TimesCannotMatch(f, g) == TooLate(f.time, g.time) \/ TooLate(g.time, f.time)

\* The transitive closure of the order between abstract timestamps.
OrderedStamps == {e[1] : e \in Edges} \cup {e[2] : e \in Edges}
Precedes(a, b) ==
  /\ b \in OrderedStamps
  /\ \A S \in SUBSET OrderedStamps :
       (\A e \in Edges : e[1] \in S \cup {a} => e[2] \in S) => b \in S

RuledOut(i, j) ==
  LET f == Facts[i]
      g == Facts[j]
  IN  i # j /\ \/ KeysCannotMatch(f, g)
               \/ TimesCannotMatch(f, g)
               \/ Precedes(f.stamp, g.stamp) \/ Precedes(g.stamp, f.stamp)

\* With interior partners, an interaction matches nothing else; itself only
\* while its multiplicity may be zero.  In the mutant only the partners that
\* membus solve forces are taken.
NonZero(f) == f.mult \in {"minus", "plus"}
RestrictedIfForced(i, j) == Facts[i].forced => j \in Facts[i].partners
Restricted(i, j) ==
  LET f == Facts[i]
  IN  \/ f.partners = {}
      \/ j \in f.partners /\ ~(j = i /\ NonZero(f))
      \/ j = i /\ ~NonZero(f) /\ ~f.forced

FirstMatches == [i \in Ids |-> {j \in Peers(i) : /\ ~RuledOut(i, j)
                                                /\ Restricted(i, j) /\ Restricted(j, i)}]

-----------------------------------------------------------------------------
\* The flags an interaction starts with.

ForcedRole(f) == IF f.io = "in" THEN "input" ELSE "output"

Denied(f) ==
  {r \in Roles :
     \/ r = "input" /\ (f.kind = "send" \/ f.mult = "plus" \/ f.io = "out")
     \/ r = "output" /\ (f.kind = "recv" \/ f.mult = "minus" \/ f.io = "in")
     \/ r = "disabled" /\ NonZero(f)
     \/ r = "match" /\ f.io # "none"}
Granted(f) ==
  {r \in {"disabled"} : ~NonZero(f) /\ (f.kind = "disabled" \/ f.inert \/ f.mult = "zero")}

Ingested(f) ==
  [r \in Roles |-> IF f.io # "none" /\ f.forced
                   THEN IF r = ForcedRole(f) THEN "yes" ELSE "no"
                   ELSE IF r \in Granted(f) THEN "yes"
                   ELSE IF r \in Denied(f) THEN "no" ELSE "open"]

FirstStatus(i) ==
  LET f == Facts[i]
  IN  IF f.partners # {} /\ NonZero(f)
      THEN [Ingested(f) EXCEPT !["match"] = "yes"] ELSE Ingested(f)

-----------------------------------------------------------------------------
\* The worklist.

\* Exactly one of the four flags holds: what follows for the others.
Having(st, flag) == {r \in Roles : st[r] = flag}
ExactlyOne(st) ==
  [r \in Roles |->
     IF Having(st, "yes") = {r} \/ (Having(st, "yes") = {} /\ Having(st, "no") = Roles \ {r})
     THEN "yes"
     ELSE IF \E q \in Roles \ {r} : Having(st, "yes") = {q} THEN "no" ELSE st[r]]

AllWork(c) == {i \in Ids : Side(i) = c} \X Channels

Started ==
  /\ phase = "before" /\ again = FALSE /\ changed = FALSE /\ left = {}
  /\ matches = FirstMatches
  /\ status = [i \in Ids |-> FirstStatus(i)]
  /\ work = AllWork("before")
Init == scene \in Scenes /\ Started

\* A flag that is set is enqueued only when that changed it; in the mutant an
\* item is enqueued again whenever its flags are looked at.
NewlyPinnedAlways(i, st) == TRUE
NewlyPinned(i, st) == st # status[i]

\* The boundary roles that k loses to i: one input and one output per key.
\* In the mutant only inputs are looked at.
ClashOfInputs(i, st, k) ==
  {r \in {"input"} : /\ k # i /\ Side(k) = Side(i) /\ SameKey(Facts[i], Facts[k])
                     /\ st[r] = "yes" /\ status[k][r] # "no"}
Clash(i, st, k) ==
  {r \in Boundary : /\ k # i /\ Side(k) = Side(i) /\ SameKey(Facts[i], Facts[k])
                    /\ st[r] = "yes" /\ status[k][r] # "no"}

PopStatus(i) ==
  LET st   == ExactlyOne(status[i])
      old  == matches[i]
      lost == CASE st["match"] = "yes" -> {i} [] st["match"] = "no" -> old \ {i} [] OTHER -> {}
  IN  /\ status' = [k \in Ids |->
                      IF k = i THEN st
                      ELSE [r \in Roles |-> IF r \in Clash(i, st, k) THEN "no" ELSE status[k][r]]]
      /\ matches' = [matches EXCEPT ![i] = IF st["match"] = "no" THEN {i} ELSE old \ lost]
      /\ work' = (work \ {<<i, "status">>})
                   \cup (IF NewlyPinned(i, st) THEN {i} \X Channels ELSE {})
                   \cup (IF st["match"] = "no" THEN lost \X {"targets"}
                         ELSE (lost \cap old) \X {"targets"})
                   \cup {k \in Ids : Clash(i, st, k) # {}} \X {"status"}

\* Whether i is matched for certain: with itself, or with j and j with i.
SettledWith(i) ==
  IF matches[i] = {i} THEN {i}
  ELSE IF \E j \in Ids : matches[i] = {j} /\ matches[j] = {i} THEN {i} \cup matches[i]
  ELSE {}

PopTargets(i) ==
  LET pair   == SettledWith(i)
      match  == IF matches[i] = {i} THEN "no" ELSE IF i \notin matches[i] THEN "yes"
                ELSE status[i]["match"]
      new    == [k \in Ids |-> IF k = i THEN match
                               ELSE IF k \in pair THEN "yes" ELSE status[k]["match"]]
      losers == {k \in Peers(i) \ pair : matches[k] \cap pair # {}}
  IN  /\ status' = [k \in Ids |-> [status[k] EXCEPT !["match"] = new[k]]]
      /\ matches' = [k \in Ids |-> IF k \in losers THEN matches[k] \ pair ELSE matches[k]]
      /\ work' = (work \ {<<i, "targets">>})
                   \cup {k \in Ids : new[k] # status[k]["match"]} \X {"status"}
                   \cup losers \X {"targets"}

Pop ==
  /\ phase \in Circuits
  /\ \/ \E i \in Ids : <<i, "status">> \in work /\ PopStatus(i)
     \/ \E i \in Ids : <<i, "targets">> \in work /\ PopTargets(i)
  /\ UNCHANGED <<scene, phase, again, changed, left>>

\* The worklist is empty: the other side, the exchange, or the end.
Exchanging == scene.ran /\ scene.active /\ DOMAIN Alignment # {}
NextSide ==
  /\ phase \in Circuits /\ work = {}
  /\ phase' = IF phase = "before" THEN "after"
              ELSE IF Exchanging /\ ~again THEN "flags" ELSE "done"
  /\ work' = IF phase = "before" THEN AllWork("after") ELSE {}
  /\ status' = IF phase' = "done" THEN [i \in Ids |-> ExactlyOne(status[i])] ELSE status
  /\ UNCHANGED <<scene, again, changed, left, matches>>

-----------------------------------------------------------------------------
\* The exchange across the kept pairs of the alignment.

Kept == DOMAIN Alignment
KeptAfter == {Alignment[b] : b \in Kept}
Origin(a) == CHOOSE b \in Kept : Alignment[b] = a
Partnered(i) == IF i \in Kept THEN Alignment[i] ELSE Origin(i)
Image(J) == {Partnered(j) : j \in J \cap (Kept \cup KeptAfter)}

\* Open flags are filled in from the other side.  Mutants: every flag of the
\* before side is taken over; only the before side is filled in.
FilledBeforeOnly(i, r) == IF i \in Kept /\ status[i][r] = "open"
                          THEN status[Partnered(i)][r] ELSE status[i][r]
FilledFromBefore(i, r) == IF i \in Kept \cup KeptAfter /\ Side(i) = "after"
                          THEN status[Partnered(i)][r] ELSE status[i][r]
Filled(i, r) == IF i \in Kept \cup KeptAfter /\ status[i][r] = "open"
                THEN status[Partnered(i)][r] ELSE status[i][r]

ExchangeFlags ==
  /\ phase = "flags"
  /\ phase' = "to_after" /\ left' = Kept
  /\ status' = [i \in Ids |-> [r \in Roles |-> Filled(i, r)]]
  /\ changed' = (status' # status)
  /\ UNCHANGED <<scene, again, matches, work>>

\* Candidates of d that do not correspond to a candidate of s are dropped,
\* unless d or the candidate would be left with none.
Dropped(s, d) ==
  IF Image(matches[s]) \cap matches[d] = {} THEN {}
  ELSE {k \in matches[d] \ Image(matches[s]) : matches[k] # {d}}

ExchangeMatches ==
  /\ phase \in {"to_after", "to_before"}
  /\ \E b \in left :
       LET s    == IF phase = "to_after" THEN b ELSE Alignment[b]
           d    == IF phase = "to_after" THEN Alignment[b] ELSE b
           drop == Dropped(s, d)
       IN  /\ matches' = [k \in Ids |-> IF k = d THEN matches[k] \ drop
                                        ELSE IF k \in drop THEN matches[k] \ {d}
                                        ELSE matches[k]]
           /\ changed' = (changed \/ drop # {})
           /\ left' = left \ {b}
  /\ UNCHANGED <<scene, phase, again, status, work>>

\* One pass in either direction; the worklists run again if it moved anything.
NextDirection ==
  /\ phase \in {"to_after", "to_before"} /\ left = {}
  /\ IF phase = "to_after"
     THEN phase' = "to_before" /\ left' = Kept /\ UNCHANGED <<again, work, status>>
     ELSE IF changed
     THEN /\ phase' = "before" /\ again' = TRUE /\ work' = AllWork("before")
          /\ UNCHANGED <<left, status>>
     ELSE /\ phase' = "done"
          /\ status' = [i \in Ids |-> ExactlyOne(status[i])]
          /\ UNCHANGED <<again, left, work>>
  /\ UNCHANGED <<scene, changed, matches>>

Next == Pop \/ NextSide \/ ExchangeFlags \/ ExchangeMatches \/ NextDirection

Spec == Init /\ [][Next]_vars /\ WF_vars(Next)

-----------------------------------------------------------------------------
\* What it means that a scene is true of its trace.

Trace == scene.trace

\* A trace: multiplicities of at most one, a perfect matching between sends
\* and receives of one cell and time, and at most one unmatched receive (an
\* input) and one unmatched send (an output) per cell.
RoleIn(w, i) == IF w.partner[i] # i THEN "match"
                ELSE IF w.mult[i] = 0 THEN "disabled"
                ELSE IF w.mult[i] = -1 THEN "input" ELSE "output"
Role(i) == RoleIn(Trace, i)

OneCell(w, i, j) == w.space[i] = w.space[j] /\ w.ptr[i] = w.ptr[j]

IsTrace(w, facts) ==
  \A i \in DOMAIN facts :
    LET p == w.partner[i]
    IN  /\ w.mult[i] \in {-1, 0, 1} /\ w.ptr[i] \in Int /\ w.time[i] \in Int
        /\ p \in DOMAIN facts /\ facts[p].side = facts[i].side
        /\ w.partner[p] = i
        /\ p # i => /\ w.mult[i] # 0 /\ w.mult[p] = -w.mult[i]
                    /\ OneCell(w, i, p) /\ w.time[i] = w.time[p] /\ w.data[i] = w.data[p]
        /\ \A j \in DOMAIN facts \ {i} :
             facts[j].side = facts[i].side /\ RoleIn(w, i) \in Boundary /\ OneCell(w, i, j)
               => RoleIn(w, j) # RoleIn(w, i)

\* What a fact says of the columns of an interaction (times only bind active
\* ones), and of its role and partner.
ColumnsFit(f, w, i) ==
  /\ f.kind = "recv" => w.mult[i] \in {-1, 0}
  /\ f.kind = "send" => w.mult[i] \in {0, 1}
  /\ f.kind = "disabled" \/ f.inert \/ f.mult = "zero" => w.mult[i] = 0
  /\ f.mult = "minus" => w.mult[i] = -1
  /\ f.mult = "plus" => w.mult[i] = 1
  /\ f.space # 0 => w.space[i] = f.space
  /\ f.key.base # "none" => w.ptr[i] = w.base[f.key.base] + f.key.offset
  /\ w.mult[i] # 0 => /\ f.time.kind = "exact" => w.time[i] = f.time.at
                      /\ f.time.kind = "upper" => w.time[i] <= f.time.at
                      /\ f.stamp # "none" => w.time[i] = w.stamp[f.stamp]
RoleFits(f, w, i) ==
  /\ f.io # "none" => RoleIn(w, i) \in IF f.forced THEN {ForcedRole(f)}
                                       ELSE {ForcedRole(f), "disabled"}
  /\ f.partners # {} => \/ w.partner[i] \in f.partners \ {i}
                        \/ ~f.forced /\ w.mult[i] = 0
FactHolds(s, i) == ColumnsFit(s.facts[i], s.trace, i) /\ RoleFits(s.facts[i], s.trace, i)

\* Kept interactions are the same operation on both sides.
AlignmentHolds(s, kept) ==
  \A b \in DOMAIN kept :
    /\ b \in DOMAIN s.facts /\ s.facts[b].side = "before"
    /\ kept[b] \in DOMAIN s.facts /\ s.facts[kept[b]].side = "after"
    /\ \A c \in DOMAIN kept \ {b} : kept[c] # kept[b]
    /\ s.trace.partner[b] \in DOMAIN kept
    /\ kept[s.trace.partner[b]] = s.trace.partner[kept[b]]
    /\ RoleIn(s.trace, b) = RoleIn(s.trace, kept[b])

Truthful(s) ==
  /\ IsTrace(s.trace, s.facts)
  /\ \A i \in DOMAIN s.facts :
       /\ FactHolds(s, i)
       /\ s.facts[i] \in FactTypes(DOMAIN s.facts, DOMAIN s.trace.base, DOMAIN s.trace.stamp)
  /\ \A b \in DOMAIN s.trace.base : s.trace.base[b] \in Int
  /\ \A t \in DOMAIN s.trace.stamp : s.trace.stamp[t] \in Int
  /\ "none" \notin DOMAIN s.trace.stamp
  /\ \A e \in s.edges : /\ {e[1], e[2]} \subseteq DOMAIN s.trace.stamp
                        /\ s.trace.stamp[e[1]] < s.trace.stamp[e[2]]
  /\ AlignmentHolds(s, s.kept)
  /\ s.rows \in [Circuits -> Seq(DOMAIN s.facts)]
  /\ \A c \in Circuits : ById(s, c) = {i \in DOMAIN s.facts : s.facts[i].side = c}
  /\ s.active \in BOOLEAN /\ s.ran \in BOOLEAN /\ s.lax \in BOOLEAN
  /\ ~s.ran => DOMAIN s.kept = {}
  /\ \A b \in DOMAIN s.guess : b \in ById(s, "before") /\ s.guess[b] \in ById(s, "after")

ASSUME SceneAssumption == \A s \in Scenes : Truthful(s)

\* Interactions with the same key access the same address space.
KeysNameOneCell ==
  \A s \in Scenes : \A i, j \in DOMAIN s.facts :
    s.facts[i].side = s.facts[j].side /\ SameKey(s.facts[i], s.facts[j])
      => s.trace.space[i] = s.trace.space[j]

\* Where the alignment was completed by position, the pass did not reorder.
PositionsCorrespond == \A s \in Scenes : AlignmentHolds(s, KeptPairs(s))

ScenesAllow == KeysNameOneCell /\ PositionsCorrespond
\* The shape that is required of the removed interactions: each is inert, or one
\* leg of an interior pair of removed ones, which is a pair of the trace.
RemovedInPairs ==
  \A s \in Scenes : \A i \in DOMAIN s.facts :
    s.facts[i].removed
      => \/ s.facts[i].inert
         \/ \E j \in DOMAIN s.facts \ {i} :
              /\ s.facts[j].removed /\ s.trace.partner[i] = j
              /\ s.facts[i].partners = {j} /\ s.facts[j].partners = {i}

-----------------------------------------------------------------------------
\* Properties.

\* Every variable has its type; candidates are of the same circuit.
TypeOK ==
  /\ phase \in Circuits \cup {"flags", "to_after", "to_before", "done"}
  /\ again \in BOOLEAN /\ changed \in BOOLEAN /\ left \subseteq Kept
  /\ matches \in [Ids -> SUBSET Ids] /\ \A i \in Ids : \A j \in matches[i] : Side(j) = Side(i)
  /\ status \in [Ids -> [Roles -> Flags]]
  /\ work \subseteq Ids \X Channels

\* The analysis never rules out the trace: the true partner of every
\* interaction stays a candidate, and every flag that is set is right.  The
\* encoders turn what is ruled out into constants of the formula, so a wrong
\* one makes it unsatisfiable and the check vacuous.
TraceFits ==
  \A i \in Ids :
    /\ Trace.partner[i] \in matches[i]
    /\ \A r \in Roles : status[i][r] \in {"open", IF r = Role(i) THEN "yes" ELSE "no"}

\* What is known is never given up: candidates are only removed and a flag
\* that is set keeps its value, across the worklists and the exchange.
Narrows == \A i \in Ids : /\ matches'[i] \subseteq matches[i]
                          /\ \A r \in Roles : status[i][r] \in {"open", status'[i][r]}
OnlyNarrows == [][Narrows]_vars

\* Whatever the order of the worklist, nothing that its rules imply is left
\* undone when it is empty.
RulesSettled ==
  phase = "done" =>
    \A i \in Ids :
      /\ ExactlyOne(status[i]) = status[i]
      /\ (status[i]["match"] = "yes") <=> i \notin matches[i]
      /\ (status[i]["match"] = "no") <=> matches[i] = {i}
      /\ \A k \in Peers(i) \ {i}, r \in Boundary :
           SameKey(Facts[i], Facts[k]) /\ status[i][r] = "yes" => status[k][r] = "no"
      /\ \A k \in Ids \ SettledWith(i) :
           matches[i] = {i} \/ matches[k] \cap SettledWith(i) = {}

\* The pairs of removed interactions, which become equations of the encoding,
\* are recovered from the match sets: no leg is left with another candidate,
\* on which the recovery would raise.
Leg(i) == Facts[i].removed /\ status[i]["disabled"] # "yes"
InternalPairsRecovered ==
  phase = "done" =>
    \A i \in {k \in Ids : Leg(k)} :
      LET j == Trace.partner[i]
      IN  Leg(j) /\ matches[i] \ {i} = {j} /\ matches[j] \ {j} = {i}

\* One pass of the exchange is enough when the before side is resolved: when all
\* of it went to the after side, kept counterparts have the same flags and the
\* same candidates, and it stays so, so that a second pass would move nothing.
BeforeResolved ==
  \A b \in Kept : (\E j \in Ids : matches[b] = {j}) /\ \A r \in Roles : status[b][r] # "open"
Transferred ==
  \A b \in Kept :
    LET a == Alignment[b]
    IN  /\ status[a] = status[b]
        /\ matches[a] \cap KeptAfter = {Alignment[c] : c \in matches[b] \cap Kept}
OnePass ==
  BeforeResolved /\ (Transferred \/ (phase = "to_after" /\ phase' = "to_before")) => Transferred'
OnePassSuffices == [][OnePass]_vars

\* The analysis ends.
Terminates == <>(phase = "done")
=============================================================================
