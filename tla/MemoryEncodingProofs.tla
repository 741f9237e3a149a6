------------------------ MODULE MemoryEncodingProofs ------------------------
(***************************************************************************)
(* The memory-bus analysis is sound: for all scenes, and whatever the      *)
(* order in which its worklists and its exchange proceed, it never rules   *)
(* out the trace its facts are true of.                                    *)
(*                                                                         *)
(* The plain and the interface encoding admit the trace: for all scenes    *)
(* and every order of the analysis, nothing that really happens is encoded *)
(* away.  What the analysis leaves open contains the true matching; the    *)
(* formulas follow from the facts and from what executions are taken to be *)
(* like (TracesExecute).                                                   *)
(***************************************************************************)
EXTENDS MemoryEncoding, TLAPS, FiniteSetTheorems, WellFoundedInduction

Inv == scene \in Scenes /\ TypeOK /\ TraceFits

-----------------------------------------------------------------------------
\* What the assumption says of the scene at hand.
LEMMA SceneTruthful == scene \in Scenes => Truthful(scene)
BY SceneAssumption

\* The trace is a perfect matching within each circuit.
LEMMA TraceShape ==
  ASSUME scene \in Scenes, NEW i \in Ids
  PROVE  /\ Trace.partner[i] \in Peers(i)
         /\ Trace.partner[Trace.partner[i]] = i
         /\ Role(i) \in Roles
         /\ Role(i) = "match" <=> Trace.partner[i] # i
<1>1. IsTrace(Trace, Facts)
  BY SceneTruthful DEF Truthful, Trace, Facts
<1>2. QED
  BY <1>1 DEF IsTrace, Peers, Side, Ids, Role, RoleIn, Roles

\* Interactions with the same key never play the same boundary role.
LEMMA SameKeyClashes ==
  ASSUME scene \in Scenes, KeysNameOneCell, NEW i \in Ids, NEW k \in Peers(i) \ {i},
         SameKey(Facts[i], Facts[k]), Role(i) \in Boundary
  PROVE  Role(k) # Role(i)
<1>1. IsTrace(Trace, Facts) /\ FactHolds(scene, i) /\ FactHolds(scene, k)
  BY SceneTruthful DEF Truthful, Trace, Facts, Ids, Peers
<1>2. k \in Ids /\ Facts[k].side = Facts[i].side
  BY DEF Peers, Side
<1>3. Trace.space[i] = Trace.space[k]
  BY <1>2 DEF KeysNameOneCell, Trace, Facts, Ids
<1>4. Trace.ptr[i] = Trace.ptr[k]
  BY <1>1 DEF FactHolds, ColumnsFit, RoleFits, SameKey, Facts, Trace
<1>5. OneCell(Trace, i, k)
  BY <1>3, <1>4 DEF OneCell
<1>6. QED
  BY <1>1, <1>2, <1>5 DEF IsTrace, Role, Ids

-----------------------------------------------------------------------------
\* A flag that fits the role ro: open, or right.
Fits(st, ro) == \A r \in Roles : st[r] \in {"open", IF r = ro THEN "yes" ELSE "no"}

\* Closing the flags under "exactly one holds" keeps them right and decided.
LEMMA ExactlyOneFits ==
  ASSUME NEW st \in [Roles -> Flags], NEW ro \in Roles, Fits(st, ro)
  PROVE  /\ ExactlyOne(st) \in [Roles -> Flags]
         /\ Fits(ExactlyOne(st), ro)
         /\ \A r \in Roles : ExactlyOne(st)[r] = "open" => st[r] = "open"
<1> DEFINE e == ExactlyOne(st)
<1>1. e \in [Roles -> Flags]
  BY DEF ExactlyOne, Flags
<1>2. ASSUME NEW r \in Roles
      PROVE  e[r] \in {"open", IF r = ro THEN "yes" ELSE "no"} /\ (e[r] = "open" => st[r] = "open")
  <2>1. e[r] = IF Having(st, "yes") = {r} \/ (Having(st, "yes") = {} /\ Having(st, "no") = Roles \ {r})
               THEN "yes"
               ELSE IF \E q \in Roles \ {r} : Having(st, "yes") = {q} THEN "no" ELSE st[r]
    BY DEF ExactlyOne
  <2>2. CASE Having(st, "yes") = {r} \/ (Having(st, "yes") = {} /\ Having(st, "no") = Roles \ {r})
    <3>1. r = ro
      BY <2>2 DEF Having, Fits
    <3>2. QED
      BY <2>1, <2>2, <3>1
  <2>3. CASE /\ ~(Having(st, "yes") = {r} \/ (Having(st, "yes") = {} /\ Having(st, "no") = Roles \ {r}))
             /\ \E q \in Roles \ {r} : Having(st, "yes") = {q}
    <3>1. r # ro
      BY <2>3 DEF Having, Fits
    <3>2. QED
      BY <2>1, <2>3, <3>1
  <2>4. QED
    BY <2>1, <2>2, <2>3 DEF Fits
<1>3. QED
  BY <1>1, <1>2 DEF Fits

-----------------------------------------------------------------------------
\* The facts rule nothing out that holds in the trace.

LEMMA PrecedesIsEarlier ==
  ASSUME scene \in Scenes, NEW a, NEW b, Precedes(a, b)
  PROVE  /\ a \in DOMAIN Trace.stamp /\ b \in DOMAIN Trace.stamp
         /\ Trace.stamp[a] < Trace.stamp[b]
<1>1. /\ \A t \in DOMAIN Trace.stamp : Trace.stamp[t] \in Int
      /\ \A e \in Edges : /\ {e[1], e[2]} \subseteq DOMAIN Trace.stamp
                          /\ Trace.stamp[e[1]] < Trace.stamp[e[2]]
  BY SceneTruthful DEF Truthful, Trace, Edges
<1>2. OrderedStamps \subseteq DOMAIN Trace.stamp
  BY <1>1 DEF OrderedStamps
<1>3. \A S \in SUBSET OrderedStamps :
        (\A e \in Edges : e[1] \in S \cup {a} => e[2] \in S) => b \in S
  BY DEF Precedes
<1>4. \A e \in Edges : e[2] \in OrderedStamps
  BY DEF OrderedStamps
<1>5. a \in DOMAIN Trace.stamp
  <2>1. SUFFICES ASSUME a \notin DOMAIN Trace.stamp PROVE FALSE
    OBVIOUS
  <2>2. \A e \in Edges : e[1] \notin {} \cup {a}
    BY <1>1, <2>1
  <2>3. QED
    BY <1>3, <2>2
<1>6. DEFINE S == {t \in OrderedStamps : Trace.stamp[a] < Trace.stamp[t]}
<1>7. ASSUME NEW e \in Edges, e[1] \in S \cup {a}
      PROVE  e[2] \in S
  <2>1. Trace.stamp[e[1]] < Trace.stamp[e[2]] /\ e[2] \in OrderedStamps
    BY <1>1, <1>4
  <2>2. Trace.stamp[a] \in Int /\ Trace.stamp[e[1]] \in Int /\ Trace.stamp[e[2]] \in Int
    BY <1>1, <1>5
  <2>3. e[1] = a \/ Trace.stamp[a] < Trace.stamp[e[1]]
    BY <1>7
  <2>4. QED
    BY <2>1, <2>2, <2>3
<1>8. b \in S
  <2>1. S \in SUBSET OrderedStamps
    OBVIOUS
  <2>2. QED
    BY <1>3, <1>7, <2>1
<1>9. QED
  BY <1>2, <1>5, <1>8

LEMMA PartnerNotRuledOut ==
  ASSUME scene \in Scenes, NEW i \in Ids
  PROVE  ~RuledOut(i, Trace.partner[i])
<1> DEFINE j == Trace.partner[i]
           f == Facts[i]
           g == Facts[j]
<1>1. SUFFICES ASSUME i # j, \/ KeysCannotMatch(f, g)
                             \/ TimesCannotMatch(f, g)
                             \/ Precedes(f.stamp, g.stamp) \/ Precedes(g.stamp, f.stamp)
               PROVE  FALSE
  BY DEF RuledOut
<1>2. j \in Ids /\ IsTrace(Trace, Facts) /\ FactHolds(scene, i) /\ FactHolds(scene, j)
  BY SceneTruthful, TraceShape DEF Truthful, Trace, Facts, Ids, Peers
<1>3. /\ Trace.mult[i] \in {-1, 1} /\ Trace.mult[j] = -Trace.mult[i]
      /\ Trace.space[i] = Trace.space[j] /\ Trace.ptr[i] = Trace.ptr[j]
      /\ Trace.time[i] = Trace.time[j] /\ Trace.time[i] \in Int
  BY <1>1, <1>2 DEF IsTrace, Ids, OneCell
<1>3a. Trace.mult[i] # 0 /\ Trace.mult[j] # 0
  BY <1>3
<1>4. f \in FactTypes(Ids, DOMAIN Trace.base, DOMAIN Trace.stamp)
      /\ g \in FactTypes(Ids, DOMAIN Trace.base, DOMAIN Trace.stamp)
      /\ "none" \notin DOMAIN Trace.stamp /\ \A b \in DOMAIN Trace.base : Trace.base[b] \in Int
  BY <1>2, SceneTruthful DEF Truthful, Trace, Facts, Ids
<1>5. CASE KeysCannotMatch(f, g)
  <2>1. CASE f.space # 0 /\ g.space # 0 /\ f.space # g.space
    BY <2>1, <1>2, <1>3 DEF FactHolds, ColumnsFit, RoleFits, Trace, Facts
  <2>2. CASE f.kind = g.kind /\ f.kind \in {"send", "recv"}
    <3>1. \/ Trace.mult[i] \in {-1, 0} /\ Trace.mult[j] \in {-1, 0}
          \/ Trace.mult[i] \in {0, 1} /\ Trace.mult[j] \in {0, 1}
      BY <2>2, <1>2 DEF FactHolds, ColumnsFit, RoleFits, Trace, Facts
    <3>2. QED
      BY <3>1, <1>3
  <2>3. CASE f.key.base # "none" /\ f.key.base = g.key.base /\ f.key.offset # g.key.offset
    <3>1. Trace.ptr[i] = Trace.base[f.key.base] + f.key.offset
          /\ Trace.ptr[j] = Trace.base[f.key.base] + g.key.offset
      BY <2>3, <1>2 DEF FactHolds, ColumnsFit, RoleFits, Trace, Facts
    <3>2. f.key.offset \in Int /\ g.key.offset \in Int /\ f.key.base \in DOMAIN Trace.base
      BY <2>3, <1>4 DEF FactTypes
    <3>3. Trace.base[f.key.base] \in Int
      BY <3>2, <1>4
    <3>4. Trace.base[f.key.base] + f.key.offset = Trace.base[f.key.base] + g.key.offset
      BY <3>1, <1>3
    <3>5. QED
      BY <2>3, <3>2, <3>3, <3>4
  <2>4. QED
    BY <1>5, <2>1, <2>2, <2>3 DEF KeysCannotMatch
<1>6. CASE TimesCannotMatch(f, g)
  <2>1. f.time.at \in Int /\ g.time.at \in Int
    BY <1>4 DEF FactTypes
  <2>2. /\ f.time.kind = "exact" => Trace.time[i] = f.time.at
        /\ f.time.kind = "upper" => Trace.time[i] <= f.time.at
        /\ g.time.kind = "exact" => Trace.time[j] = g.time.at
        /\ g.time.kind = "upper" => Trace.time[j] <= g.time.at
    BY <1>2, <1>3a DEF FactHolds, ColumnsFit, RoleFits, Trace, Facts
  <2>3. QED
    BY <1>6, <2>1, <2>2, <1>3 DEF TimesCannotMatch, TooLate
<1>7. CASE Precedes(f.stamp, g.stamp) \/ Precedes(g.stamp, f.stamp)
  <2>1. /\ f.stamp \in DOMAIN Trace.stamp /\ g.stamp \in DOMAIN Trace.stamp
        /\ Trace.stamp[f.stamp] < Trace.stamp[g.stamp] \/ Trace.stamp[g.stamp] < Trace.stamp[f.stamp]
    BY <1>7, PrecedesIsEarlier
  <2>2. Trace.time[i] = Trace.stamp[f.stamp] /\ Trace.time[j] = Trace.stamp[g.stamp]
    BY <2>1, <1>2, <1>3a, <1>4 DEF FactHolds, ColumnsFit, RoleFits, Trace, Facts
  <2>3. QED
    BY <2>1, <2>2, <1>3
<1>8. QED
  BY <1>1, <1>5, <1>6, <1>7

LEMMA PartnerAllowed ==
  ASSUME scene \in Scenes, NEW i \in Ids
  PROVE  Restricted(i, Trace.partner[i])
<1>1. IsTrace(Trace, Facts) /\ FactHolds(scene, i)
  BY SceneTruthful DEF Truthful, Trace, Facts, Ids
<1>2. Trace.partner[i] # i => Trace.mult[i] # 0
  BY <1>1 DEF IsTrace, Ids
<1>3. NonZero(Facts[i]) => Trace.mult[i] # 0
  BY <1>1 DEF FactHolds, ColumnsFit, RoleFits, NonZero, Trace, Facts
<1>4. \/ Facts[i].partners = {}
      \/ Trace.partner[i] \in Facts[i].partners \ {i}
      \/ ~Facts[i].forced /\ Trace.mult[i] = 0
  BY <1>1 DEF FactHolds, ColumnsFit, RoleFits, Trace, Facts
<1>5. QED
  BY <1>2, <1>3, <1>4 DEF Restricted

LEMMA FirstFlagsFit ==
  ASSUME scene \in Scenes, NEW i \in Ids
  PROVE  FirstStatus(i) \in [Roles -> Flags] /\ Fits(FirstStatus(i), Role(i))
<1> DEFINE f == Facts[i]
<1>1. IsTrace(Trace, Facts) /\ FactHolds(scene, i)
  BY SceneTruthful DEF Truthful, Trace, Facts, Ids
<1>2. /\ Trace.mult[i] \in {-1, 0, 1}
      /\ Role(i) = IF Trace.partner[i] # i THEN "match"
                   ELSE IF Trace.mult[i] = 0 THEN "disabled"
                   ELSE IF Trace.mult[i] = -1 THEN "input" ELSE "output"
      /\ Trace.partner[i] # i => Trace.mult[i] # 0
  BY <1>1 DEF IsTrace, Ids, Role, RoleIn
<1>3. /\ f.kind = "recv" => Trace.mult[i] \in {-1, 0}
      /\ f.kind = "send" => Trace.mult[i] \in {0, 1}
      /\ f.kind = "disabled" \/ f.inert \/ f.mult = "zero" => Trace.mult[i] = 0
      /\ f.mult = "minus" => Trace.mult[i] = -1
      /\ f.mult = "plus" => Trace.mult[i] = 1
      /\ f.io # "none" => Role(i) \in IF f.forced THEN {ForcedRole(f)} ELSE {ForcedRole(f), "disabled"}
      /\ f.partners # {} => Trace.partner[i] # i \/ Trace.mult[i] = 0
  BY <1>1 DEF FactHolds, ColumnsFit, RoleFits, Trace, Facts, Role
<1>4. f.io \in {"none", "in", "out"}
  BY SceneTruthful DEF Truthful, Facts, Ids, FactTypes
<1>5. Ingested(f) \in [Roles -> Flags]
  BY DEF Ingested, Flags
<1>6. Fits(Ingested(f), Role(i))
  <2>1. CASE f.io # "none" /\ f.forced
    <3>1. Role(i) = ForcedRole(f)
      BY <1>3, <2>1
    <3>2. Ingested(f) = [r \in Roles |-> IF r = ForcedRole(f) THEN "yes" ELSE "no"]
      BY <2>1 DEF Ingested
    <3>3. QED
      BY <3>1, <3>2 DEF Fits
  <2>2. CASE ~(f.io # "none" /\ f.forced)
    <3>1. \A r \in Granted(f) : r = Role(i)
      BY <1>2, <1>3 DEF Granted, NonZero
    <3>2. ASSUME NEW r \in Denied(f) PROVE r # Role(i)
      <4>1. CASE r = "input"
        BY <3>2, <4>1, <1>2, <1>3, <1>4 DEF Denied, ForcedRole
      <4>2. CASE r = "output"
        BY <3>2, <4>2, <1>2, <1>3, <1>4 DEF Denied, ForcedRole
      <4>3. CASE r = "disabled"
        BY <3>2, <4>3, <1>2, <1>3 DEF Denied, NonZero
      <4>4. CASE r = "match"
        BY <3>2, <4>4, <1>3 DEF Denied, ForcedRole
      <4>5. QED
        BY <3>2, <4>1, <4>2, <4>3, <4>4 DEF Denied, Roles
    <3>3. Ingested(f) = [r \in Roles |-> IF r \in Granted(f) THEN "yes"
                                        ELSE IF r \in Denied(f) THEN "no" ELSE "open"]
      BY <2>2 DEF Ingested
    <3>4. QED
      BY <3>1, <3>2, <3>3 DEF Fits
  <2>3. QED
    BY <2>1, <2>2
<1>8. f.partners # {} /\ NonZero(f) => Role(i) = "match"
  BY <1>2, <1>3 DEF NonZero
<1>9. CASE f.partners # {} /\ NonZero(f)
  <2>1. FirstStatus(i) = [Ingested(f) EXCEPT !["match"] = "yes"]
    BY <1>9 DEF FirstStatus
  <2>2. QED
    BY <2>1, <1>5, <1>6, <1>8, <1>9 DEF Fits, Flags
<1>10. CASE ~(f.partners # {} /\ NonZero(f))
  BY <1>5, <1>6, <1>10 DEF FirstStatus
<1>11. QED
  BY <1>9, <1>10

LEMMA InitFits == Init => Inv
<1> SUFFICES ASSUME Init PROVE Inv
  OBVIOUS
<1>1. scene \in Scenes
  BY DEF Init
<1>2. ASSUME NEW i \in Ids
      PROVE  Trace.partner[i] \in FirstMatches[i]
  <2> DEFINE j == Trace.partner[i]
  <2>1. j \in Peers(i) /\ j \in Ids /\ Trace.partner[j] = i
    BY <1>1, TraceShape DEF Peers
  <2>2. ~RuledOut(i, j) /\ Restricted(i, j) /\ Restricted(j, i)
    BY <1>1, <2>1, PartnerNotRuledOut, PartnerAllowed
  <2>3. QED
    BY <2>1, <2>2 DEF FirstMatches
<1>3. \A i \in Ids : FirstStatus(i) \in [Roles -> Flags] /\ Fits(FirstStatus(i), Role(i))
  BY <1>1, FirstFlagsFit
<1>4. TypeOK
  BY <1>3 DEF Init, Started, TypeOK, FirstMatches, Peers, AllWork, Circuits, Channels
<1>5. TraceFits
  BY <1>2, <1>3 DEF Init, Started, TraceFits, Fits
<1>6. QED
  BY <1>1, <1>4, <1>5 DEF Inv

-----------------------------------------------------------------------------
\* The worklist.

\* A step is sound that keeps the types and true partners, removes candidates
\* only, and changes flags only to right values.
LEMMA FitStepIsSound ==
  ASSUME Inv, scene' = scene,
         phase' \in Circuits \cup {"flags", "to_after", "to_before", "done"},
         again' \in BOOLEAN, changed' \in BOOLEAN, left' \subseteq Kept,
         work' \subseteq Ids \X Channels,
         matches' \in [Ids -> SUBSET Ids], status' \in [Ids -> [Roles -> Flags]],
         \A k \in Ids : /\ matches'[k] \subseteq matches[k] /\ Trace.partner[k] \in matches'[k]
                        /\ Fits(status'[k], Role(k))
                        /\ \A r \in Roles : status'[k][r] = "open" => status[k][r] = "open"
  PROVE  Inv' /\ Narrows
<1>1. /\ Ids' = Ids /\ Trace' = Trace /\ Kept' = Kept
      /\ \A k \in Ids : Role(k)' = Role(k) /\ Side(k)' = Side(k)
  BY DEF Ids, Facts, Trace, Role, Side, Kept, Alignment
<1>2. TypeOK'
  <2>1. \A k \in Ids : \A j \in matches'[k] : Side(j) = Side(k) /\ j \in Ids
    BY DEF Inv, TypeOK
  <2>2. \A k \in Ids' : \A j \in matches'[k] : Side(j)' = Side(k)'
    BY <1>1, <2>1
  <2>3. QED
    BY <1>1, <2>2 DEF TypeOK
<1>3. TraceFits'
  BY <1>1 DEF TraceFits, Fits
<1>4. Narrows
  <2>1. ASSUME NEW k \in Ids, NEW r \in Roles
        PROVE  status[k][r] \in {"open", status'[k][r]}
    BY DEF Inv, TraceFits, Fits
  <2>2. QED
    BY <2>1 DEF Narrows
<1>5. QED
  BY <1>2, <1>3, <1>4 DEF Inv

\* What a popped status item leaves behind fits, and decides only more.
LEMMA PopStatusFits ==
  ASSUME Inv, KeysNameOneCell, NEW i \in Ids, <<i, "status">> \in work, PopStatus(i),
         UNCHANGED <<scene, phase, again, changed, left>>
  PROVE  Inv' /\ Narrows
<1> DEFINE st == ExactlyOne(status[i])
<1>1. /\ scene \in Scenes /\ scene' = scene /\ Ids' = Ids /\ Trace' = Trace
      /\ \A k \in Ids : Role(k)' = Role(k) /\ Side(k)' = Side(k)
  BY DEF Inv, Ids, Facts, Trace, Role, Side
<1>2. /\ matches \in [Ids -> SUBSET Ids] /\ \A k \in Ids : \A j \in matches[k] : Side(j) = Side(k)
      /\ status \in [Ids -> [Roles -> Flags]] /\ work \subseteq Ids \X Channels
  BY DEF Inv, TypeOK
<1>3. \A k \in Ids : /\ Trace.partner[k] \in matches[k] /\ Fits(status[k], Role(k))
                     /\ Role(k) \in Roles
                     /\ Role(k) = "match" <=> Trace.partner[k] # k
  BY <1>1, TraceShape DEF Inv, TraceFits, Fits
<1>4. /\ st \in [Roles -> Flags] /\ Fits(st, Role(i))
      /\ \A r \in Roles : st[r] = "open" => status[i][r] = "open"
  BY <1>2, <1>3, ExactlyOneFits
<1>5. /\ st["match"] = "yes" => Trace.partner[i] # i
      /\ st["match"] = "no" => Trace.partner[i] = i
  BY <1>3, <1>4 DEF Fits, Roles
<1>6. matches' = [matches EXCEPT ![i] = IF st["match"] = "no" THEN {i}
                                        ELSE IF st["match"] = "yes" THEN matches[i] \ {i}
                                        ELSE matches[i]]
  BY DEF PopStatus
<1>7. \A k \in Ids : matches'[k] \subseteq matches[k] /\ Trace.partner[k] \in matches'[k]
  BY <1>2, <1>3, <1>5, <1>6
<1>8. status' = [k \in Ids |->
                   IF k = i THEN st
                   ELSE [r \in Roles |-> IF r \in Clash(i, st, k) THEN "no" ELSE status[k][r]]]
  BY DEF PopStatus
<1>9. ASSUME NEW k \in Ids, k # i, NEW r \in Clash(i, st, k)
      PROVE  r # Role(k)
  <2>1. r \in Roles /\ r \in Boundary /\ st[r] = "yes"
    BY <1>9 DEF Clash, Boundary, Roles
  <2>2. r = Role(i)
    BY <2>1, <1>4 DEF Fits
  <2>3. k \in Peers(i) \ {i} /\ SameKey(Facts[i], Facts[k])
    BY <1>9 DEF Clash, Peers
  <2>4. QED
    BY <2>1, <2>2, <2>3, <1>1, SameKeyClashes
<1>10. ASSUME NEW k \in Ids
       PROVE  /\ status'[k] \in [Roles -> Flags] /\ Fits(status'[k], Role(k))
              /\ \A r \in Roles : status'[k][r] = "open" => status[k][r] = "open"
  <2>1. CASE k = i
    BY <2>1, <1>4, <1>8
  <2>2. CASE k # i
    <3>1. status'[k] = [r \in Roles |-> IF r \in Clash(i, st, k) THEN "no" ELSE status[k][r]]
      BY <2>2, <1>8
    <3>2. status[k] \in [Roles -> Flags] /\ Fits(status[k], Role(k))
      BY <1>2, <1>3
    <3>3. QED
      BY <3>1, <3>2, <2>2, <1>9 DEF Fits, Flags
  <2>3. QED
    BY <2>1, <2>2
<1>11. work' \subseteq Ids \X Channels
  BY <1>2 DEF PopStatus, Channels
<1>12. matches' \in [Ids -> SUBSET Ids] /\ status' \in [Ids -> [Roles -> Flags]]
  BY <1>2, <1>6, <1>8, <1>10
<1>13. /\ phase' \in Circuits \cup {"flags", "to_after", "to_before", "done"}
       /\ again' \in BOOLEAN /\ changed' \in BOOLEAN /\ left' \subseteq Kept
  BY DEF Inv, TypeOK
<1>14. QED
  BY <1>1, <1>7, <1>10, <1>11, <1>12, <1>13, FitStepIsSound

\* Interactions that are matched for certain are each other's true partners.
LEMMA SettledIsTrue ==
  ASSUME Inv, NEW i \in Ids
  PROVE  /\ SettledWith(i) \subseteq {i} \cup matches[i]
         /\ \A k \in Ids : k \in SettledWith(i) <=> Trace.partner[k] \in SettledWith(i)
         /\ \A k \in SettledWith(i) \ {i} : Role(k) = "match"
         /\ matches[i] = {i} => Role(i) # "match"
         /\ i \notin matches[i] => Role(i) = "match"
<1>1. \A k \in Ids : /\ Trace.partner[k] \in matches[k] /\ Trace.partner[k] \in Ids
                     /\ Trace.partner[Trace.partner[k]] = k
                     /\ Role(k) = "match" <=> Trace.partner[k] # k
  BY TraceShape DEF Inv, TraceFits, Peers
<1>2. CASE matches[i] = {i}
  <2>1. SettledWith(i) = {i} /\ Trace.partner[i] = i
    BY <1>1, <1>2 DEF SettledWith
  <2>2. QED
    BY <1>1, <1>2, <2>1
<1>3. CASE matches[i] # {i} /\ \E j \in Ids : matches[i] = {j} /\ matches[j] = {i}
  <2>1. PICK j \in Ids : matches[i] = {j} /\ matches[j] = {i}
    BY <1>3
  <2>2. /\ SettledWith(i) = {i, j} /\ j # i
        /\ Trace.partner[i] = j /\ Trace.partner[j] = i
    BY <1>1, <1>3, <2>1 DEF SettledWith
  <2>3. QED
    BY <1>1, <1>3, <2>1, <2>2
<1>4. CASE matches[i] # {i} /\ ~\E j \in Ids : matches[i] = {j} /\ matches[j] = {i}
  <2>1. SettledWith(i) = {}
    BY <1>4 DEF SettledWith
  <2>2. QED
    BY <1>1, <1>4, <2>1
<1>5. QED
  BY <1>2, <1>3, <1>4

\* What a popped targets item leaves behind fits, and decides only more.
LEMMA PopTargetsFits ==
  ASSUME Inv, NEW i \in Ids, <<i, "targets">> \in work, PopTargets(i),
         UNCHANGED <<scene, phase, again, changed, left>>
  PROVE  Inv' /\ Narrows
<1> DEFINE pair   == SettledWith(i)
           match  == IF matches[i] = {i} THEN "no" ELSE IF i \notin matches[i] THEN "yes"
                     ELSE status[i]["match"]
           new    == [k \in Ids |-> IF k = i THEN match
                                    ELSE IF k \in pair THEN "yes" ELSE status[k]["match"]]
           losers == {k \in Peers(i) \ pair : matches[k] \cap pair # {}}
<1>1. scene' = scene /\ scene \in Scenes
  BY DEF Inv
<1>2. /\ matches \in [Ids -> SUBSET Ids]
      /\ status \in [Ids -> [Roles -> Flags]] /\ work \subseteq Ids \X Channels
  BY DEF Inv, TypeOK
<1>3. \A k \in Ids : /\ Trace.partner[k] \in matches[k] /\ Fits(status[k], Role(k))
                     /\ Role(k) \in Roles
  BY <1>1, TraceShape DEF Inv, TraceFits, Fits
<1>4. /\ status' = [k \in Ids |-> [status[k] EXCEPT !["match"] = new[k]]]
      /\ matches' = [k \in Ids |-> IF k \in losers THEN matches[k] \ pair ELSE matches[k]]
      /\ work' = (work \ {<<i, "targets">>})
                   \cup {k \in Ids : new[k] # status[k]["match"]} \X {"status"}
                   \cup losers \X {"targets"}
  BY DEF PopTargets
<1>5. ASSUME NEW k \in Ids
      PROVE  new[k] \in {"open", IF "match" = Role(k) THEN "yes" ELSE "no"}
             /\ (new[k] = "open" => status[k]["match"] = "open")
  <2>1. status[k]["match"] \in {"open", IF "match" = Role(k) THEN "yes" ELSE "no"}
    BY <1>3 DEF Fits, Roles
  <2>2. CASE k = i
    <3>1. new[k] = match
      BY <2>2
    <3>2. QED
      BY <2>1, <2>2, <3>1, SettledIsTrue
  <2>3. CASE k # i /\ k \in pair
    BY <2>3, SettledIsTrue
  <2>4. CASE k # i /\ k \notin pair
    BY <2>1, <2>4
  <2>5. QED
    BY <2>2, <2>3, <2>4
<1> HIDE DEF new
<1>6. ASSUME NEW k \in Ids
      PROVE  /\ status'[k] \in [Roles -> Flags] /\ Fits(status'[k], Role(k))
             /\ \A r \in Roles : status'[k][r] = "open" => status[k][r] = "open"
  <2>1. status'[k] = [status[k] EXCEPT !["match"] = new[k]]
    BY <1>4
  <2>2. status[k] \in [Roles -> Flags] /\ Fits(status[k], Role(k)) /\ new[k] \in Flags
    BY <1>2, <1>3, <1>5 DEF Flags
  <2>3. "match" \in Roles /\ status'[k] \in [Roles -> Flags]
    BY <2>1, <2>2 DEF Roles
  <2>4. /\ status'[k]["match"] = new[k]
        /\ \A r \in Roles \ {"match"} : status'[k][r] = status[k][r]
    BY <2>1, <2>2, <2>3
  <2>5. Fits(status'[k], Role(k))
    BY <2>2, <2>4, <1>5 DEF Fits
  <2>6. QED
    BY <2>3, <2>4, <2>5, <1>5
<1>7. ASSUME NEW k \in Ids
      PROVE  matches'[k] \subseteq matches[k] /\ Trace.partner[k] \in matches'[k]
  <2>1. k \in losers => Trace.partner[k] \notin pair
    BY SettledIsTrue
  <2>2. QED
    BY <1>3, <1>4, <2>1
<1>8. status' \in [Ids -> [Roles -> Flags]] /\ matches' \in [Ids -> SUBSET Ids]
  BY <1>2, <1>4, <1>6
<1>9. losers \subseteq Ids
  BY DEF Peers
<1>10. work' \subseteq Ids \X Channels
  BY <1>2, <1>4, <1>9 DEF Channels
<1>11. /\ phase' \in Circuits \cup {"flags", "to_after", "to_before", "done"}
       /\ again' \in BOOLEAN /\ changed' \in BOOLEAN /\ left' \subseteq Kept
  BY DEF Inv, TypeOK
<1>12. QED
  BY <1>1, <1>6, <1>7, <1>8, <1>10, <1>11, FitStepIsSound

\* Turning to the other side, the exchange or the end fits.
LEMMA NextSideFits ==
  ASSUME Inv, NextSide
  PROVE  Inv' /\ Narrows
<1>1. scene' = scene /\ scene \in Scenes
  BY DEF Inv, NextSide
<1>2. /\ matches \in [Ids -> SUBSET Ids] /\ status \in [Ids -> [Roles -> Flags]]
  BY DEF Inv, TypeOK
<1>3. \A k \in Ids : /\ Trace.partner[k] \in matches[k] /\ Fits(status[k], Role(k))
                     /\ Role(k) \in Roles
  BY <1>1, TraceShape DEF Inv, TraceFits, Fits
<1>4. status' = status \/ status' = [i \in Ids |-> ExactlyOne(status[i])]
  BY DEF NextSide
<1>5. ASSUME NEW k \in Ids
      PROVE  /\ status'[k] \in [Roles -> Flags] /\ Fits(status'[k], Role(k))
             /\ \A r \in Roles : status'[k][r] = "open" => status[k][r] = "open"
  BY <1>2, <1>3, <1>4, ExactlyOneFits
<1>6. status' \in [Ids -> [Roles -> Flags]] /\ matches' \in [Ids -> SUBSET Ids] /\ matches' = matches
  BY <1>2, <1>4, <1>5 DEF NextSide
<1>7. /\ phase' \in Circuits \cup {"flags", "to_after", "to_before", "done"}
      /\ again' \in BOOLEAN /\ changed' \in BOOLEAN /\ left' \subseteq Kept
      /\ work' \subseteq Ids \X Channels
  BY DEF Inv, TypeOK, NextSide, AllWork, Channels, Circuits
<1>8. QED
  BY <1>1, <1>3, <1>5, <1>6, <1>7, FitStepIsSound

\* So does turning from one direction of the exchange to the next.
LEMMA NextDirectionFits ==
  ASSUME Inv, NextDirection
  PROVE  Inv' /\ Narrows
<1>1. scene' = scene /\ scene \in Scenes
  BY DEF Inv, NextDirection
<1>2. /\ matches \in [Ids -> SUBSET Ids] /\ status \in [Ids -> [Roles -> Flags]]
  BY DEF Inv, TypeOK
<1>3. \A k \in Ids : /\ Trace.partner[k] \in matches[k] /\ Fits(status[k], Role(k))
                     /\ Role(k) \in Roles
  BY <1>1, TraceShape DEF Inv, TraceFits, Fits
<1>4. status' = status \/ status' = [i \in Ids |-> ExactlyOne(status[i])]
  BY DEF NextDirection
<1>5. ASSUME NEW k \in Ids
      PROVE  /\ status'[k] \in [Roles -> Flags] /\ Fits(status'[k], Role(k))
             /\ \A r \in Roles : status'[k][r] = "open" => status[k][r] = "open"
  BY <1>2, <1>3, <1>4, ExactlyOneFits
<1>6. status' \in [Ids -> [Roles -> Flags]] /\ matches' \in [Ids -> SUBSET Ids] /\ matches' = matches
  BY <1>2, <1>4, <1>5 DEF NextDirection
<1>7. /\ phase' \in Circuits \cup {"flags", "to_after", "to_before", "done"}
      /\ again' \in BOOLEAN /\ changed' \in BOOLEAN /\ left' \subseteq Kept
      /\ work' \subseteq Ids \X Channels
  <2>1. CASE phase = "to_after"
    BY <2>1 DEF Inv, TypeOK, NextDirection, Circuits
  <2>2. CASE phase # "to_after" /\ changed
    BY <2>2 DEF Inv, TypeOK, NextDirection, AllWork, Channels, Circuits
  <2>3. CASE phase # "to_after" /\ ~changed
    BY <2>3 DEF Inv, TypeOK, NextDirection
  <2>4. QED
    BY <2>1, <2>2, <2>3
<1>8. QED
  BY <1>1, <1>3, <1>5, <1>6, <1>7, FitStepIsSound

-----------------------------------------------------------------------------
\* The exchange.

\* The alignment is injective and respects the roles and partners of the trace.
LEMMA KeptIsTrue ==
  ASSUME scene \in Scenes, PositionsCorrespond, NEW b \in Kept
  PROVE  /\ b \in Ids /\ Alignment[b] \in Ids /\ Role(Alignment[b]) = Role(b)
         /\ Trace.partner[b] \in Kept /\ Alignment[Trace.partner[b]] = Trace.partner[Alignment[b]]
         /\ Partnered(b) = Alignment[b] /\ Partnered(Alignment[b]) = b
<1>1. AlignmentHolds(scene, Alignment)
  BY DEF PositionsCorrespond, Alignment
<1>2. \A c \in Kept : /\ c \in Ids /\ Side(c) = "before"
                      /\ Alignment[c] \in Ids /\ Side(Alignment[c]) = "after"
                      /\ \A e \in Kept \ {c} : Alignment[e] # Alignment[c]
                      /\ Trace.partner[c] \in Kept
                      /\ Alignment[Trace.partner[c]] = Trace.partner[Alignment[c]]
                      /\ Role(c) = Role(Alignment[c])
  BY <1>1 DEF AlignmentHolds, Kept, Ids, Facts, Side, Trace, Role
<1>3. Alignment[b] \notin Kept
  BY <1>2
<1>4. Origin(Alignment[b]) = b
  BY <1>2 DEF Origin
<1>5. QED
  BY <1>2, <1>3, <1>4 DEF Partnered

\* Filling in open flags from a kept counterpart fits.
LEMMA ExchangeFlagsFit ==
  ASSUME Inv, PositionsCorrespond, ExchangeFlags
  PROVE  Inv' /\ Narrows
<1>1. scene' = scene /\ scene \in Scenes
  BY DEF Inv, ExchangeFlags
<1>2. /\ matches \in [Ids -> SUBSET Ids] /\ status \in [Ids -> [Roles -> Flags]]
  BY DEF Inv, TypeOK
<1>3. \A k \in Ids : Trace.partner[k] \in matches[k] /\ Fits(status[k], Role(k))
  BY DEF Inv, TraceFits, Fits
<1>4. status' = [i \in Ids |-> [r \in Roles |-> Filled(i, r)]]
  BY DEF ExchangeFlags
<1>5. ASSUME NEW k \in Kept \cup KeptAfter
      PROVE  k \in Ids /\ Partnered(k) \in Ids /\ Role(Partnered(k)) = Role(k)
  BY <1>1, KeptIsTrue DEF KeptAfter
<1>6. ASSUME NEW k \in Ids
      PROVE  /\ status'[k] \in [Roles -> Flags] /\ Fits(status'[k], Role(k))
             /\ \A r \in Roles : status'[k][r] = "open" => status[k][r] = "open"
  <2>1. status'[k] = [r \in Roles |-> IF k \in Kept \cup KeptAfter /\ status[k][r] = "open"
                                      THEN status[Partnered(k)][r] ELSE status[k][r]]
    BY <1>4 DEF Filled
  <2>2. CASE k \in Kept \cup KeptAfter
    <3>1. /\ status[Partnered(k)] \in [Roles -> Flags]
          /\ Fits(status[Partnered(k)], Role(k))
      BY <1>2, <1>3, <1>5, <2>2
    <3>2. QED
      BY <1>2, <1>3, <2>1, <2>2, <3>1 DEF Fits
  <2>3. CASE k \notin Kept \cup KeptAfter
    BY <1>2, <1>3, <2>1, <2>3 DEF Fits
  <2>4. QED
    BY <2>2, <2>3
<1>7. status' \in [Ids -> [Roles -> Flags]] /\ matches' \in [Ids -> SUBSET Ids] /\ matches' = matches
  BY <1>2, <1>4, <1>6 DEF ExchangeFlags
<1>8. /\ phase' \in Circuits \cup {"flags", "to_after", "to_before", "done"}
      /\ again' \in BOOLEAN /\ changed' \in BOOLEAN /\ left' \subseteq Kept
      /\ work' \subseteq Ids \X Channels
  BY DEF Inv, TypeOK, ExchangeFlags
<1>9. QED
  BY <1>1, <1>3, <1>6, <1>7, <1>8, FitStepIsSound

\* Dropping candidates that have no counterpart on the other side fits: the
\* true partner of a kept interaction is the counterpart of the true partner.
LEMMA ExchangeMatchesFits ==
  ASSUME Inv, PositionsCorrespond, ExchangeMatches
  PROVE  Inv' /\ Narrows
<1>1. scene' = scene /\ scene \in Scenes
  BY DEF Inv, ExchangeMatches
<1>2. /\ matches \in [Ids -> SUBSET Ids] /\ status \in [Ids -> [Roles -> Flags]]
  BY DEF Inv, TypeOK
<1>3. \A k \in Ids : /\ Trace.partner[k] \in matches[k] /\ Fits(status[k], Role(k))
                     /\ Trace.partner[k] \in Ids /\ Trace.partner[Trace.partner[k]] = k
  BY <1>1, TraceShape DEF Inv, TraceFits, Fits, Peers
<1>4. PICK b \in left :
        LET s    == IF phase = "to_after" THEN b ELSE Alignment[b]
            d    == IF phase = "to_after" THEN Alignment[b] ELSE b
            drop == Dropped(s, d)
        IN  /\ matches' = [k \in Ids |-> IF k = d THEN matches[k] \ drop
                                         ELSE IF k \in drop THEN matches[k] \ {d}
                                         ELSE matches[k]]
            /\ changed' = (changed \/ drop # {})
            /\ left' = left \ {b}
  BY DEF ExchangeMatches
<1> DEFINE s    == IF phase = "to_after" THEN b ELSE Alignment[b]
           d    == IF phase = "to_after" THEN Alignment[b] ELSE b
           drop == Dropped(s, d)
<1>5. b \in Kept
  BY DEF Inv, TypeOK
<1>6. /\ s \in Ids /\ d \in Ids /\ Trace.partner[s] \in Kept \cup KeptAfter
      /\ Partnered(Trace.partner[s]) = Trace.partner[d]
  <2>1. CASE phase = "to_after"
    BY <1>1, <1>5, <2>1, KeptIsTrue
  <2>2. CASE phase # "to_after"
    <3>1. Trace.partner[b] \in Kept /\ Trace.partner[s] = Alignment[Trace.partner[b]]
      BY <1>1, <1>5, <2>2, KeptIsTrue
    <3>2. Trace.partner[s] \in KeptAfter /\ Partnered(Trace.partner[s]) = Trace.partner[b]
      BY <1>1, <3>1, KeptIsTrue DEF KeptAfter
    <3>3. QED
      BY <1>1, <1>5, <2>2, <3>2, KeptIsTrue
  <2>3. QED
    BY <2>1, <2>2
<1>7. Trace.partner[d] \in Image(matches[s])
  BY <1>3, <1>6 DEF Image
<1>8. drop \subseteq matches[d] /\ Trace.partner[d] \notin drop
  BY <1>7 DEF Dropped
<1>9. /\ matches' = [k \in Ids |-> IF k = d THEN matches[k] \ drop
                                   ELSE IF k \in drop THEN matches[k] \ {d}
                                   ELSE matches[k]]
      /\ changed' = (changed \/ drop # {})
      /\ left' = left \ {b}
  BY <1>4
<1> HIDE DEF drop, s, d
<1>10. ASSUME NEW k \in Ids
       PROVE  matches'[k] \subseteq matches[k] /\ Trace.partner[k] \in matches'[k]
  <2>1. CASE k = d
    BY <1>3, <1>8, <1>9, <2>1
  <2>2. CASE k # d /\ k \in drop
    <3>1. Trace.partner[k] # d
      BY <1>3, <1>8, <2>2
    <3>2. QED
      BY <1>3, <1>9, <2>2, <3>1
  <2>3. CASE k # d /\ k \notin drop
    BY <1>3, <1>9, <2>3
  <2>4. QED
    BY <2>1, <2>2, <2>3
<1>11. status' = status /\ matches' \in [Ids -> SUBSET Ids]
  BY <1>2, <1>9, <1>10 DEF ExchangeMatches
<1>12. /\ phase' \in Circuits \cup {"flags", "to_after", "to_before", "done"}
       /\ again' \in BOOLEAN /\ changed' \in BOOLEAN /\ left' \subseteq Kept
       /\ work' \subseteq Ids \X Channels
  BY <1>9 DEF Inv, TypeOK, ExchangeMatches
<1>13. QED
  BY <1>1, <1>2, <1>3, <1>10, <1>11, <1>12, FitStepIsSound

-----------------------------------------------------------------------------
\* The theorems.

\* A step that changes nothing fits.
LEMMA StutterFits == Inv /\ UNCHANGED vars => Inv' /\ Narrows
<1> SUFFICES ASSUME Inv, UNCHANGED vars PROVE Inv' /\ Narrows
  OBVIOUS
<1>1. scene' = scene /\ matches' = matches /\ status' = status
  BY DEF vars
<1>2. Inv'
  BY DEF Inv, vars, TypeOK, TraceFits, Kept, Alignment, Ids, Facts, Side, Trace, Role
<1>3. Narrows
  BY <1>1 DEF Inv, TypeOK, Narrows
<1>4. QED
  BY <1>2, <1>3

\* Every step fits.
LEMMA StepFits == Inv /\ ScenesAllow /\ [Next]_vars => Inv' /\ Narrows
<1> SUFFICES ASSUME Inv, ScenesAllow, [Next]_vars PROVE Inv' /\ Narrows
  OBVIOUS
<1>1. CASE Pop
  <2>1. CASE \E i \in Ids : <<i, "status">> \in work /\ PopStatus(i)
    BY <1>1, <2>1, PopStatusFits DEF Pop, ScenesAllow
  <2>2. CASE \E i \in Ids : <<i, "targets">> \in work /\ PopTargets(i)
    BY <1>1, <2>2, PopTargetsFits DEF Pop
  <2>3. QED
    BY <1>1, <2>1, <2>2 DEF Pop
<1>2. CASE NextSide
  BY <1>2, NextSideFits
<1>3. CASE ExchangeFlags
  BY <1>3, ExchangeFlagsFit DEF ScenesAllow
<1>4. CASE ExchangeMatches
  BY <1>4, ExchangeMatchesFits DEF ScenesAllow
<1>5. CASE NextDirection
  BY <1>5, NextDirectionFits
<1>6. CASE UNCHANGED vars
  BY <1>6, StutterFits
<1>7. QED
  BY <1>1, <1>2, <1>3, <1>4, <1>5, <1>6 DEF Next

\* The analysis keeps its types: candidates stay within their own circuit.
THEOREM AnalysisTypeCorrect == ScenesAllow /\ Spec => []TypeOK
<1>1. Init => Inv
  BY InitFits
<1>2. Inv /\ ScenesAllow /\ [Next]_vars => Inv'
  BY StepFits
<1>3. Inv => TypeOK
  BY DEF Inv
<1>4. ScenesAllow => ScenesAllow'
  BY DEF ScenesAllow, KeysNameOneCell, PositionsCorrespond
<1>5. QED
  BY <1>1, <1>2, <1>3, <1>4, PTL DEF Spec

\* The true partner of every interaction stays a candidate and every flag that
\* is set is right, for every scene in which equal keys name one memory cell
\* (the code compares the pointers of keys, not their address spaces) and an
\* alignment that is completed by position pairs equal operations (the code
\* does not look).
THEOREM TraceNeverRuledOut == ScenesAllow /\ Spec => []TraceFits
<1>1. Init => Inv
  BY InitFits
<1>2. Inv /\ ScenesAllow /\ [Next]_vars => Inv'
  BY StepFits
<1>3. Inv => TraceFits
  BY DEF Inv
<1>4. ScenesAllow => ScenesAllow'
  BY DEF ScenesAllow, KeysNameOneCell, PositionsCorrespond
<1>5. QED
  BY <1>1, <1>2, <1>3, <1>4, PTL DEF Spec

\* No step of the worklists or of the exchange gives a candidate back or
\* changes a flag that is set: a flag that two facts set must have been right
\* both times.
THEOREM AnalysisOnlyNarrows == ScenesAllow /\ Spec => OnlyNarrows
<1>1. Init => Inv
  BY InitFits
<1>2. Inv /\ ScenesAllow /\ [Next]_vars => Inv' /\ Narrows
  BY StepFits
<1>3. Narrows => [Narrows]_vars
  OBVIOUS
<1>4. ScenesAllow => ScenesAllow'
  BY DEF ScenesAllow, KeysNameOneCell, PositionsCorrespond
<1>5. QED
  BY <1>1, <1>2, <1>3, <1>4, PTL DEF Spec, OnlyNarrows

-----------------------------------------------------------------------------
\* The worklist settles its rules: a rule is closed, or an item that will look
\* at it again is still to be popped.

\* An item is to be popped: it is in the worklist, or in the one that comes
\* next, or the exchange has moved something, so that the worklists run again.
Open(i, c) ==
  \/ phase \in Circuits /\ <<i, c>> \in work
  \/ phase = "before" /\ Side(i) = "after"
  \/ phase \in {"to_after", "to_before"} /\ changed
StatusRules(i) ==
  /\ ExactlyOne(status[i]) = status[i]
  /\ status[i]["match"] = "yes" => i \notin matches[i]
  /\ status[i]["match"] = "no" => matches[i] = {i}
  /\ \A k \in Peers(i) \ {i}, r \in Boundary :
       SameKey(Facts[i], Facts[k]) /\ status[i][r] = "yes" => status[k][r] = "no"
TargetsRules(i) ==
  /\ i \notin matches[i] => status[i]["match"] = "yes"
  /\ matches[i] = {i} => status[i]["match"] = "no"
Paired(i, j) == i # j /\ matches[i] = {j} /\ matches[j] = {i}
PairRules(i, j) == Paired(i, j) => \A k \in Ids \ {i, j} : matches[k] \cap {i, j} = {}

RulesInv ==
  /\ \A i \in Ids : Open(i, "status") \/ StatusRules(i)
  /\ \A i \in Ids : Open(i, "targets") \/ TargetsRules(i)
  /\ \A i, j \in Ids : Open(i, "targets") \/ Open(j, "targets") \/ PairRules(i, j)
  /\ phase \in Circuits => \A w \in work : Side(w[1]) = phase

\* What is fixed for an analysis.
LEMMA SceneFixed ==
  ASSUME scene' = scene
  PROVE  /\ Ids' = Ids /\ Facts' = Facts /\ Kept' = Kept
         /\ \A i : Side(i)' = Side(i) /\ Peers(i)' = Peers(i)
BY DEF Ids, Facts, Kept, Alignment, Side, Peers

\* Nothing is given up, in the form in which the rules use it.
LEMMA NothingGivenUp ==
  ASSUME TypeOK, Narrows, NEW k \in Ids
  PROVE  /\ matches'[k] \subseteq matches[k]
         /\ \A r \in Roles : status[k][r] # "open" => status'[k][r] = status[k][r]
         /\ matches[k] \subseteq Ids /\ \A j \in matches[k] : Side(j) = Side(k)
BY DEF TypeOK, Narrows

\* A popped status item closes its rule or comes back.
LEMMA PopStatusSettles ==
  ASSUME Inv, Inv', Narrows, RulesInv, NEW i \in Ids, <<i, "status">> \in work, PopStatus(i),
         phase \in Circuits, UNCHANGED <<scene, phase, again, changed, left>>
  PROVE  RulesInv'
<1> DEFINE st == ExactlyOne(status[i])
<1>1. /\ Ids' = Ids /\ Facts' = Facts /\ (\A k : Side(k)' = Side(k) /\ Peers(k)' = Peers(k))
      /\ TypeOK /\ TypeOK' /\ matches \in [Ids -> SUBSET Ids] /\ status \in [Ids -> [Roles -> Flags]]
  BY SceneFixed DEF Inv, TypeOK
<1>2. /\ matches' = [matches EXCEPT ![i] = IF st["match"] = "no" THEN {i}
                                          ELSE IF st["match"] = "yes" THEN matches[i] \ {i}
                                          ELSE matches[i]]
      /\ status' = [k \in Ids |->
                      IF k = i THEN st
                      ELSE [r \in Roles |-> IF r \in Clash(i, st, k) THEN "no" ELSE status[k][r]]]
      /\ work \ {<<i, "status">>} \subseteq work'
      /\ \A k \in Ids : Clash(i, st, k) # {} => <<k, "status">> \in work'
      /\ st # status[i] => <<i, "status">> \in work' /\ <<i, "targets">> \in work'
      /\ st["match"] = "yes" /\ i \in matches[i] => <<i, "targets">> \in work'
  BY DEF PopStatus, NewlyPinned, Channels
<1>3. /\ \A k \in Ids : Open(k, "targets") => Open(k, "targets")'
      /\ \A k \in Ids \ {i} : Open(k, "status") => Open(k, "status")'
  BY <1>1, <1>2 DEF Open
<1>4. \A w \in work' : Side(w[1]) = phase
  <2>1. Side(i) = phase
    BY DEF RulesInv
  <2>2. \A k \in matches[i] : Side(k) = phase
    BY <1>1, <2>1 DEF TypeOK
  <2>3. \A k : Clash(i, st, k) # {} => Side(k) = phase
    BY <2>1 DEF Clash
  <2>4. PICK lost \in SUBSET ({i} \cup matches[i]) :
          work' = (work \ {<<i, "status">>})
                    \cup (IF NewlyPinned(i, st) THEN {i} \X Channels ELSE {})
                    \cup (IF st["match"] = "no" THEN lost \X {"targets"}
                          ELSE (lost \cap matches[i]) \X {"targets"})
                    \cup {k \in Ids : Clash(i, st, k) # {}} \X {"status"}
    <3> DEFINE lost == CASE st["match"] = "yes" -> {i}
                         [] st["match"] = "no" -> matches[i] \ {i} [] OTHER -> {}
    <3>1. lost \in SUBSET ({i} \cup matches[i])
      OBVIOUS
    <3> HIDE DEF st
    <3>2. QED
      BY <3>1 DEF PopStatus, st
  <2>5. \A w \in work : Side(w[1]) = phase
    BY DEF RulesInv
  <2> HIDE DEF st
  <2>6. QED
    BY <2>1, <2>2, <2>3, <2>4, <2>5
<1>5. ASSUME NEW k \in Ids, ~Open(k, "status")' PROVE StatusRules(k)'
  <2>1. CASE k = i
    <3>1. st = status[i]
      BY <1>1, <1>2, <1>5, <2>1 DEF Open
    <3>2. status'[i] = status[i] /\ ExactlyOne(status[i]) = status[i]
      BY <1>2, <3>1
    <3>3. /\ status[i]["match"] = "yes" => i \notin matches'[i]
          /\ status[i]["match"] = "no" => matches'[i] = {i}
      BY <1>1, <1>2, <3>1
    <3>4. ASSUME NEW l \in Peers(i) \ {i}, NEW r \in Boundary,
                 SameKey(Facts[i], Facts[l]), status[i][r] = "yes"
          PROVE  status'[l][r] = "no"
      <4>1. l \in Ids /\ Side(l) = Side(i) /\ r \in Roles
        BY DEF Peers, Boundary, Roles
      <4>2. st[r] = "yes" /\ status'[l] = [q \in Roles |-> IF q \in Clash(i, st, l) THEN "no"
                                                          ELSE status[l][q]]
        BY <1>2, <3>1, <3>4, <4>1
      <4>3. r \in Clash(i, st, l) \/ status[l][r] = "no"
        BY <3>4, <4>1, <4>2 DEF Clash
      <4>4. QED
        BY <4>1, <4>2, <4>3
    <3>5. QED
      BY <1>1, <2>1, <3>2, <3>3, <3>4 DEF StatusRules
  <2>2. CASE k # i
    <3>1. ~Open(k, "status") /\ Clash(i, st, k) = {}
      BY <1>1, <1>2, <1>3, <1>5, <2>2 DEF Open
    <3>2. StatusRules(k)
      BY <3>1 DEF RulesInv
    <3>3. matches'[k] = matches[k] /\ status'[k] = status[k]
      BY <1>1, <1>2, <2>2, <3>1
    <3>4. ASSUME NEW l \in Peers(k) \ {k}, NEW r \in Boundary,
                 SameKey(Facts[k], Facts[l]), status[k][r] = "yes"
          PROVE  status'[l][r] = "no"
      <4>1. l \in Ids /\ r \in Roles /\ status[l][r] = "no"
        BY <3>2, <3>4 DEF StatusRules, Peers, Boundary, Roles
      <4>2. QED
        BY <1>1, <4>1, NothingGivenUp
    <3>5. QED
      BY <1>1, <3>2, <3>3, <3>4 DEF StatusRules
  <2>3. QED
    BY <2>1, <2>2
<1>6. ASSUME NEW k \in Ids, ~Open(k, "targets")' PROVE TargetsRules(k)'
  <2>1. TargetsRules(k)
    BY <1>3, <1>6 DEF RulesInv
  <2>2. CASE k = i
    <3>1. st = status[i] /\ status'[i] = status[i] /\ ~(st["match"] = "yes" /\ i \in matches[i])
      BY <1>1, <1>2, <1>6, <2>2 DEF Open
    <3>2. matches'[i] = IF st["match"] = "no" THEN {i} ELSE matches[i]
      BY <1>1, <1>2, <3>1
    <3>3. QED
      BY <2>1, <2>2, <3>1, <3>2 DEF TargetsRules
  <2>3. CASE k # i
    <3>1. matches'[k] = matches[k]
      BY <1>1, <1>2, <2>3
    <3>2. status[k]["match"] \in {"yes", "no"} => status'[k]["match"] = status[k]["match"]
      BY <1>1, NothingGivenUp DEF Roles
    <3>3. QED
      BY <2>1, <3>1, <3>2 DEF TargetsRules
  <2>4. QED
    BY <2>2, <2>3
<1>7. ASSUME NEW k \in Ids, NEW j \in Ids, ~Open(k, "targets")', ~Open(j, "targets")'
      PROVE  PairRules(k, j)'
  <2>1. PairRules(k, j)
    BY <1>3, <1>7 DEF RulesInv
  <2>2. SUFFICES ASSUME k # j, matches'[k] = {j}, matches'[j] = {k}
                 PROVE  \A l \in Ids \ {k, j} : matches'[l] \cap {k, j} = {}
    BY <1>1 DEF PairRules, Paired
  <2>3. matches[k] = {j} /\ matches[j] = {k}
    <3>1. ASSUME NEW l \in {k, j} PROVE matches'[l] = matches[l]
      <4>1. CASE l # i
        BY <1>1, <1>2, <3>1, <4>1
      <4>2. CASE l = i
        <5>1. st = status[i] /\ ~(st["match"] = "yes" /\ i \in matches[i])
          BY <1>1, <1>2, <1>7, <3>1, <4>2 DEF Open
        <5>2. matches'[i] # {i}
          BY <2>2, <3>1, <4>2
        <5>3. QED
          BY <1>1, <1>2, <4>2, <5>1, <5>2
      <4>3. QED
        BY <4>1, <4>2
    <3>2. QED
      BY <2>2, <3>1
  <2>4. \A l \in Ids \ {k, j} : matches[l] \cap {k, j} = {}
    BY <2>1, <2>2, <2>3 DEF PairRules, Paired
  <2>5. QED
    BY <1>1, <2>4, NothingGivenUp
<1>8. QED
  BY <1>1, <1>4, <1>5, <1>6, <1>7 DEF RulesInv

\* A popped targets item closes its rule, also for the pairs it is part of.
LEMMA PopTargetsSettles ==
  ASSUME Inv, Inv', Narrows, RulesInv, NEW i \in Ids, <<i, "targets">> \in work, PopTargets(i),
         phase \in Circuits, UNCHANGED <<scene, phase, again, changed, left>>
  PROVE  RulesInv'
<1> DEFINE pair   == SettledWith(i)
           match  == IF matches[i] = {i} THEN "no" ELSE IF i \notin matches[i] THEN "yes"
                     ELSE status[i]["match"]
           new    == [k \in Ids |-> IF k = i THEN match
                                    ELSE IF k \in pair THEN "yes" ELSE status[k]["match"]]
           losers == {k \in Peers(i) \ pair : matches[k] \cap pair # {}}
<1>1. /\ Ids' = Ids /\ Facts' = Facts /\ (\A k : Side(k)' = Side(k) /\ Peers(k)' = Peers(k))
      /\ TypeOK /\ TypeOK' /\ matches \in [Ids -> SUBSET Ids] /\ status \in [Ids -> [Roles -> Flags]]
  BY SceneFixed DEF Inv, TypeOK
<1>2. /\ status' = [k \in Ids |-> [status[k] EXCEPT !["match"] = new[k]]]
      /\ matches' = [k \in Ids |-> IF k \in losers THEN matches[k] \ pair ELSE matches[k]]
      /\ work' = (work \ {<<i, "targets">>})
                   \cup {k \in Ids : new[k] # status[k]["match"]} \X {"status"}
                   \cup losers \X {"targets"}
  BY DEF PopTargets
<1>3. /\ \A k \in Ids : Open(k, "status") => Open(k, "status")'
      /\ \A k \in Ids \ {i} : Open(k, "targets") => Open(k, "targets")'
      /\ \A k \in losers : Open(k, "targets")'
      /\ \A k \in Ids : new[k] # status[k]["match"] => Open(k, "status")'
  <2> HIDE DEF new, losers
  <2>1. QED
    BY <1>1, <1>2 DEF Open
<1>4. /\ pair \subseteq {i} \cup matches[i] /\ i \notin losers
      /\ losers \subseteq Ids /\ \A k \in losers : Side(k) = Side(i)
  BY SettledIsTrue DEF Peers, SettledWith
<1>5. \A w \in work' : Side(w[1]) = phase
  <2>1. Side(i) = phase /\ \A w \in work : Side(w[1]) = phase
    BY DEF RulesInv
  <2>2. \A k \in Ids : new[k] # status[k]["match"] => k \in {i} \cup pair
    OBVIOUS
  <2>3. \A k \in {i} \cup pair : Side(k) = phase
    BY <1>1, <1>4, <2>1 DEF TypeOK
  <2> HIDE DEF new, losers, pair
  <2>4. QED
    BY <1>2, <1>4, <2>1, <2>2, <2>3
<1>6. ASSUME NEW k \in Ids, ~Open(k, "status")' PROVE StatusRules(k)'
  <2>1. StatusRules(k) /\ new[k] = status[k]["match"]
    BY <1>3, <1>6 DEF RulesInv
  <2>2. status'[k] = status[k]
    <3> HIDE DEF new
    <3>1. QED
      BY <1>1, <1>2, <2>1 DEF Roles
  <2>3. matches'[k] \subseteq matches[k] /\ (matches[k] = {k} => matches'[k] = {k})
    <3>1. matches[k] = {k} => k \notin losers
      OBVIOUS
    <3> HIDE DEF losers
    <3>2. QED
      BY <1>2, <3>1
  <2>4. ASSUME NEW l \in Peers(k) \ {k}, NEW r \in Boundary,
               SameKey(Facts[k], Facts[l]), status[k][r] = "yes"
        PROVE  status'[l][r] = "no"
    <3>1. l \in Ids /\ r \in Roles /\ status[l][r] = "no"
      BY <2>1, <2>4 DEF StatusRules, Peers, Boundary, Roles
    <3>2. QED
      BY <1>1, <3>1, NothingGivenUp
  <2>5. QED
    BY <1>1, <2>1, <2>2, <2>3, <2>4 DEF StatusRules
<1>7. ASSUME NEW k \in Ids, ~Open(k, "targets")' PROVE TargetsRules(k)'
  <2>1. matches'[k] = matches[k]
    <3> HIDE DEF losers
    <3>1. QED
      BY <1>1, <1>2, <1>3, <1>7
  <2>2. CASE k = i
    <3>1. status'[i]["match"] = match
      BY <1>1, <1>2 DEF Roles
    <3>2. QED
      BY <2>1, <2>2, <3>1 DEF TargetsRules
  <2>3. CASE k # i
    <3>1. TargetsRules(k)
      BY <1>3, <1>7, <2>3 DEF RulesInv
    <3>2. status[k]["match"] \in {"yes", "no"} => status'[k]["match"] = status[k]["match"]
      BY <1>1, NothingGivenUp DEF Roles
    <3>3. QED
      BY <2>1, <3>1, <3>2 DEF TargetsRules
  <2>4. QED
    BY <2>2, <2>3
<1>8. ASSUME NEW k \in Ids, NEW j \in Ids, ~Open(k, "targets")', ~Open(j, "targets")'
      PROVE  PairRules(k, j)'
  <2>1. SUFFICES ASSUME k # j, matches'[k] = {j}, matches'[j] = {k}
                 PROVE  \A l \in Ids \ {k, j} : matches'[l] \cap {k, j} = {}
    BY <1>1 DEF PairRules, Paired
  <2>2. matches[k] = {j} /\ matches[j] = {k}
    <3> HIDE DEF losers
    <3>1. QED
      BY <1>1, <1>2, <1>3, <1>8, <2>1
  <2>3. CASE i \in {k, j}
    <3>1. pair = {k, j}
      BY <2>1, <2>2, <2>3 DEF SettledWith
    <3>2. ASSUME NEW l \in Ids \ {k, j} PROVE matches'[l] \cap {k, j} = {}
      <4>1. CASE l \in losers
        <5>1. matches'[l] = matches[l] \ pair
          BY <1>2, <4>1
        <5>2. QED
          BY <3>1, <5>1
      <4>2. CASE l \notin losers /\ l \in Peers(i)
        <5>1. matches'[l] = matches[l] /\ matches[l] \cap pair = {}
          BY <1>2, <3>1, <3>2, <4>2
        <5>2. QED
          BY <3>1, <5>1
      <4>3. CASE l \notin Peers(i)
        <5>1. Side(l) # Side(i) /\ Side(k) = Side(i) /\ Side(j) = Side(i)
          BY <1>1, <2>2, <2>3, <4>3 DEF Peers, TypeOK
        <5>2. \A x \in matches[l] : Side(x) = Side(l)
          BY <1>1 DEF TypeOK
        <5>3. QED
          BY <1>1, <5>1, <5>2, NothingGivenUp
      <4>4. QED
        BY <4>1, <4>2, <4>3
    <3>3. QED
      BY <3>2
  <2>4. CASE i \notin {k, j}
    <3>1. PairRules(k, j)
      BY <1>3, <1>8, <2>4 DEF RulesInv
    <3>2. \A l \in Ids \ {k, j} : matches[l] \cap {k, j} = {}
      BY <2>1, <2>2, <3>1 DEF PairRules, Paired
    <3>3. QED
      BY <1>1, <3>2, NothingGivenUp
  <2>5. QED
    BY <2>3, <2>4
<1>9. QED
  BY <1>1, <1>5, <1>6, <1>7, <1>8 DEF RulesInv

\* Rules that are closed stay closed as long as nothing moves.
LEMMA NothingMoves ==
  ASSUME RulesInv, scene' = scene, TypeOK, Narrows,
         \/ matches' = matches /\ (status' = status \/ status' = [i \in Ids |-> ExactlyOne(status[i])])
         \/ \A i \in Ids, c \in Channels : Open(i, c)',
         \A i \in Ids, c \in Channels : Open(i, c) => Open(i, c)',
         phase' \in Circuits => \A w \in work' : Side(w[1]) = phase'
  PROVE  RulesInv'
<1>1. /\ Ids' = Ids /\ Facts' = Facts /\ (\A k : Side(k)' = Side(k) /\ Peers(k)' = Peers(k))
  BY SceneFixed
<1>2. CASE \A i \in Ids, c \in Channels : Open(i, c)'
  BY <1>1, <1>2 DEF RulesInv, Channels
<1>3. CASE matches' = matches /\ (status' = status \/ status' = [i \in Ids |-> ExactlyOne(status[i])])
  <2>1. ASSUME NEW i \in Ids, StatusRules(i) PROVE StatusRules(i)'
    <3>1. status'[i] = status[i] /\ matches'[i] = matches[i]
      BY <1>3, <2>1 DEF StatusRules
    <3>2. ASSUME NEW k \in Peers(i) \ {i}, NEW r \in Boundary, status[k][r] = "no"
          PROVE  status'[k][r] = "no"
      BY <3>2, NothingGivenUp DEF Peers, Boundary, Roles
    <3>3. QED
      BY <1>1, <2>1, <3>1, <3>2 DEF StatusRules
  <2>2. ASSUME NEW i \in Ids, TargetsRules(i) PROVE TargetsRules(i)'
    <3>1. matches'[i] = matches[i]
          /\ (status[i]["match"] # "open" => status'[i]["match"] = status[i]["match"])
      BY <1>3, NothingGivenUp DEF Roles
    <3>2. QED
      BY <2>2, <3>1 DEF TargetsRules
  <2>3. ASSUME NEW i \in Ids, NEW j \in Ids, PairRules(i, j) PROVE PairRules(i, j)'
    BY <1>1, <1>3, <2>3 DEF PairRules, Paired
  <2>4. QED
    BY <1>1, <2>1, <2>2, <2>3 DEF RulesInv, Channels
<1>4. QED
  BY <1>2, <1>3

LEMMA RulesStep == ASSUME Inv, Inv', Narrows, RulesInv, [Next]_vars PROVE RulesInv'
<1>0. TypeOK /\ \A i \in Ids : Side(i) \in Circuits
  BY SceneTruthful DEF Inv, Truthful, FactTypes, Side, Facts, Ids
<1>1. CASE Pop
  <2>1. CASE \E i \in Ids : <<i, "status">> \in work /\ PopStatus(i)
    BY <1>1, <2>1, PopStatusSettles DEF Pop
  <2>2. CASE \E i \in Ids : <<i, "targets">> \in work /\ PopTargets(i)
    BY <1>1, <2>2, PopTargetsSettles DEF Pop
  <2>3. QED
    BY <1>1, <2>1, <2>2 DEF Pop
<1>2. CASE NextSide
  <2>1. CASE phase = "before"
    <3>1. phase' = "after" /\ work' = AllWork("after") /\ work = {}
          /\ UNCHANGED <<scene, status, matches>>
      BY <1>2, <2>1 DEF NextSide
    <3>2. \A i \in Ids, c \in Channels : Open(i, c) => Open(i, c)'
      BY <2>1, <3>1, SceneFixed DEF Open, AllWork, Circuits, Channels
    <3>3. \A w \in work' : Side(w[1]) = "after"
      BY <3>1 DEF AllWork
    <3>4. QED
      BY <1>0, <3>1, <3>2, <3>3, NothingMoves
  <2>2. CASE phase = "after"
    <3>1. /\ phase' \in {"flags", "done"} /\ work = {} /\ UNCHANGED <<scene, matches>>
          /\ status' = status \/ status' = [i \in Ids |-> ExactlyOne(status[i])]
      BY <1>2, <2>2 DEF NextSide
    <3>2. \A i \in Ids, c \in Channels : ~Open(i, c)
      BY <2>2, <3>1 DEF Open
    <3>3. QED
      BY <1>0, <3>1, <3>2, NothingMoves DEF Circuits
  <2>3. QED
    BY <1>2, <2>1, <2>2 DEF NextSide, Circuits
<1>3. CASE ExchangeFlags
  <2>1. /\ phase = "flags" /\ phase' = "to_after" /\ UNCHANGED <<scene, matches>>
        /\ changed' = (status' # status)
    BY <1>3 DEF ExchangeFlags
  <2>2. \A i \in Ids, c \in Channels : ~Open(i, c) /\ (status' # status => Open(i, c)')
    BY <2>1 DEF Open, Circuits
  <2>3. phase' \notin Circuits
    BY <2>1 DEF Circuits
  <2>4. CASE status' = status
    BY <1>0, <2>1, <2>2, <2>3, <2>4, NothingMoves
  <2>5. CASE status' # status
    <3>1. \A i \in Ids, c \in Channels : Open(i, c)'
      BY <2>2, <2>5
    <3>2. QED
      BY <1>0, <2>1, <2>2, <2>3, <3>1, NothingMoves
  <2>6. QED
    BY <2>4, <2>5
<1>4. CASE ExchangeMatches
  <2>1. /\ phase \in {"to_after", "to_before"} /\ UNCHANGED <<scene, phase, status>>
        /\ changed => changed'
        /\ changed' = FALSE => matches' = matches
        /\ changed' \in BOOLEAN
    <3>1. phase \in {"to_after", "to_before"} /\ UNCHANGED <<scene, phase, status>>
      BY <1>4 DEF ExchangeMatches
    <3>2. changed \in BOOLEAN /\ matches \in [Ids -> SUBSET Ids]
      BY <1>0 DEF TypeOK
    <3>3. PICK b \in left :
            LET s    == IF phase = "to_after" THEN b ELSE Alignment[b]
                d    == IF phase = "to_after" THEN Alignment[b] ELSE b
                drop == Dropped(s, d)
            IN  /\ matches' = [k \in Ids |-> IF k = d THEN matches[k] \ drop
                                             ELSE IF k \in drop THEN matches[k] \ {d}
                                             ELSE matches[k]]
                /\ changed' = (changed \/ drop # {})
      BY <1>4 DEF ExchangeMatches
    <3> DEFINE s    == IF phase = "to_after" THEN b ELSE Alignment[b]
               d    == IF phase = "to_after" THEN Alignment[b] ELSE b
               drop == Dropped(s, d)
    <3>4. /\ matches' = [k \in Ids |-> IF k = d THEN matches[k] \ drop
                                       ELSE IF k \in drop THEN matches[k] \ {d}
                                       ELSE matches[k]]
          /\ changed' = (changed \/ drop # {})
      BY <3>3
    <3> HIDE DEF s, d, drop
    <3>5. drop = {} => matches' = matches
      BY <3>2, <3>4
    <3>6. QED
      BY <3>1, <3>2, <3>4, <3>5
  <2>2. \A i \in Ids, c \in Channels : Open(i, c) => Open(i, c)'
    BY <2>1 DEF Open, Circuits
  <2>3. phase' \notin Circuits
    BY <2>1 DEF Circuits
  <2>4. CASE changed'
    <3>1. \A i \in Ids, c \in Channels : Open(i, c)'
      BY <2>1, <2>4 DEF Open
    <3>2. QED
      BY <1>0, <2>1, <2>2, <2>3, <3>1, NothingMoves
  <2>5. CASE ~changed'
    <3>1. matches' = matches /\ status' = status /\ scene' = scene
      BY <2>1, <2>5
    <3>2. QED
      BY <1>0, <2>2, <2>3, <3>1, NothingMoves
  <2>6. QED
    BY <2>4, <2>5
<1>5. CASE NextDirection
  <2>1. phase \in {"to_after", "to_before"} /\ UNCHANGED <<scene, changed, matches>>
    BY <1>5 DEF NextDirection
  <2>2. CASE phase = "to_after"
    <3>1. phase' = "to_before" /\ status' = status
      BY <1>5, <2>2 DEF NextDirection
    <3>2. \A i \in Ids, c \in Channels : Open(i, c) => Open(i, c)'
      BY <2>1, <2>2, <3>1 DEF Open, Circuits
    <3>3. QED
      BY <1>0, <2>1, <3>1, <3>2, NothingMoves DEF Circuits
  <2>3. CASE phase = "to_before" /\ changed
    <3>1. phase' = "before" /\ work' = AllWork("before")
      BY <1>5, <2>3 DEF NextDirection
    <3>2. \A i \in Ids, c \in Channels : Open(i, c)'
      <4>1. \A i \in Ids : Side(i)' = Side(i) /\ Side(i) \in {"before", "after"}
        BY <1>0, <2>1, SceneFixed DEF Circuits
      <4>2. QED
        BY <3>1, <4>1 DEF Open, AllWork, Circuits
    <3>3. \A w \in work' : Side(w[1]) = "before"
      BY <3>1 DEF AllWork
    <3>4. QED
      BY <1>0, <2>1, <3>1, <3>2, <3>3, NothingMoves
  <2>4. CASE phase = "to_before" /\ ~changed
    <3>1. phase' = "done" /\ status' = [i \in Ids |-> ExactlyOne(status[i])]
      BY <1>5, <2>4 DEF NextDirection
    <3>2. \A i \in Ids, c \in Channels : ~Open(i, c)
      BY <2>4 DEF Open, Circuits
    <3>3. QED
      BY <1>0, <2>1, <3>1, <3>2, NothingMoves DEF Circuits
  <2>5. QED
    BY <2>1, <2>2, <2>3, <2>4
<1>6. CASE UNCHANGED vars
  <2>1. \A i \in Ids, c \in Channels : Open(i, c) => Open(i, c)'
    BY <1>6, SceneFixed DEF Open, vars
  <2>2. QED
    BY <1>0, <1>6, <2>1, NothingMoves DEF vars, RulesInv
<1>7. QED
  BY <1>1, <1>2, <1>3, <1>4, <1>5, <1>6 DEF Next

LEMMA InitRules == Init => RulesInv
<1> SUFFICES ASSUME Init PROVE RulesInv
  OBVIOUS
<1>1. \A i \in Ids : Side(i) \in {"before", "after"}
  BY SceneTruthful DEF Init, Truthful, FactTypes, Side, Facts, Ids, Circuits
<1>2. \A i \in Ids, c \in Channels : Open(i, c)
  BY <1>1 DEF Init, Started, AllWork, Open, Circuits
<1>3. QED
  BY <1>2 DEF Init, Started, AllWork, RulesInv, Channels

\* With every rule closed, the worklist has nothing left to do.
LEMMA ClosedIsSettled == ASSUME Inv, RulesInv PROVE RulesSettled
<1>1. SUFFICES ASSUME phase = "done", NEW i \in Ids
               PROVE  /\ ExactlyOne(status[i]) = status[i]
                      /\ (status[i]["match"] = "yes") <=> i \notin matches[i]
                      /\ (status[i]["match"] = "no") <=> matches[i] = {i}
                      /\ \A k \in Peers(i) \ {i}, r \in Boundary :
                           SameKey(Facts[i], Facts[k]) /\ status[i][r] = "yes" => status[k][r] = "no"
                      /\ \A k \in Ids \ SettledWith(i) :
                           matches[i] = {i} \/ matches[k] \cap SettledWith(i) = {}
  BY DEF RulesSettled
<1>2. \A k \in Ids, c \in Channels : ~Open(k, c)
  BY <1>1 DEF Open, Circuits
<1>3. StatusRules(i) /\ TargetsRules(i)
  BY <1>2 DEF RulesInv, Channels
<1>4. ASSUME NEW k \in Ids \ SettledWith(i), matches[i] # {i}
      PROVE  matches[k] \cap SettledWith(i) = {}
  <2>1. CASE \E j \in Ids : matches[i] = {j} /\ matches[j] = {i}
    <3>1. PICK j \in Ids : Paired(i, j) /\ SettledWith(i) = {i, j}
      BY <1>4, <2>1 DEF SettledWith, Paired
    <3>2. PairRules(i, j)
      BY <1>2 DEF RulesInv, Channels
    <3>3. QED
      BY <1>4, <3>1, <3>2 DEF PairRules
  <2>2. CASE ~\E j \in Ids : matches[i] = {j} /\ matches[j] = {i}
    BY <1>4, <2>2 DEF SettledWith
  <2>3. QED
    BY <2>1, <2>2
<1>5. QED
  BY <1>3, <1>4 DEF StatusRules, TargetsRules

\* When the analysis ends, no rule of its worklists implies anything that is not
\* known yet, in whatever order the items were popped: an item that a later
\* change could concern is enqueued by it, also across the two circuits and the
\* exchange.
THEOREM WorklistSettles == ScenesAllow /\ Spec => []RulesSettled
<1>1. Init => Inv /\ RulesInv
  BY InitFits, InitRules
<1>2. Inv /\ RulesInv /\ ScenesAllow /\ [Next]_vars => Inv' /\ RulesInv'
  BY StepFits, RulesStep
<1>3. Inv /\ RulesInv => RulesSettled
  BY ClosedIsSettled
<1>4. ScenesAllow => ScenesAllow'
  BY DEF ScenesAllow, KeysNameOneCell, PositionsCorrespond
<1>5. QED
  BY <1>1, <1>2, <1>3, <1>4, PTL DEF Spec

-----------------------------------------------------------------------------
\* The pairs of removed interactions.

\* Every interaction is within the candidates it started with, and what was
\* known at the start is still known.
WithinFirst ==
  \A i \in Ids : /\ matches[i] \subseteq FirstMatches[i]
                 /\ \A r \in Roles : FirstStatus(i)[r] \in {"open", status[i][r]}

LEMMA WithinFirstStep ==
  ASSUME TypeOK, WithinFirst, Narrows, scene' = scene
  PROVE  WithinFirst'
<1>1. Ids' = Ids /\ FirstMatches' = FirstMatches /\ \A i : FirstStatus(i)' = FirstStatus(i)
  BY DEF Ids, Facts, FirstMatches, FirstStatus, Ingested, Granted, Denied, Peers, Side, RuledOut,
         Precedes, OrderedStamps, Edges, Restricted
<1>2. QED
  BY <1>1 DEF Narrows, WithinFirst

\* A removed interaction that may be active is left with its partner, and its
\* partner with it.
LEMMA RemovedIsPaired ==
  ASSUME Inv, WithinFirst, RemovedInPairs, NEW i \in Ids, Leg(i)
  PROVE  LET j == Trace.partner[i]
         IN  Leg(j) /\ matches[i] \ {i} = {j} /\ matches[j] \ {j} = {i}
<1>1. /\ scene \in Scenes /\ Facts[i].removed /\ IsTrace(Trace, Facts)
      /\ FactHolds(scene, i) /\ TypeOK
  BY SceneTruthful DEF Inv, Truthful, Leg, Trace, Facts, Ids
<1>2. ~Facts[i].inert
  <2>1. SUFFICES ASSUME Facts[i].inert PROVE FALSE
    OBVIOUS
  <2>2. Trace.mult[i] = 0 /\ ~NonZero(Facts[i])
    BY <1>1, <2>1 DEF FactHolds, ColumnsFit, NonZero, Trace, Facts
  <2>3. Role(i) = "disabled"
    BY <1>1, <2>2 DEF IsTrace, Role, RoleIn, Ids
  <2>4. ~(Facts[i].io # "none" /\ Facts[i].forced)
    BY <1>1, <2>3 DEF FactHolds, RoleFits, Role, ForcedRole, Trace, Facts
  <2>5. FirstStatus(i)["disabled"] = "yes"
    BY <2>1, <2>2, <2>4 DEF FirstStatus, Ingested, Granted, Roles
  <2>6. QED
    BY <2>5 DEF WithinFirst, Leg, Roles
<1>3. PICK j \in Ids \ {i} : /\ Facts[j].removed /\ Trace.partner[i] = j
                             /\ Facts[i].partners = {j} /\ Facts[j].partners = {i}
  BY <1>1, <1>2 DEF RemovedInPairs, Facts, Ids, Trace
<1>4. Trace.partner[j] = i /\ Role(j) = "match"
  BY <1>1, <1>3, TraceShape
<1>5. status[j]["disabled"] # "yes"
  BY <1>4 DEF Inv, TraceFits, Roles
<1>6. matches[i] \subseteq {i, j} /\ matches[j] \subseteq {i, j}
  BY <1>3 DEF WithinFirst, FirstMatches, Restricted
<1>7. j \in matches[i] /\ i \in matches[j]
  BY <1>3, <1>4 DEF Inv, TraceFits
<1>8. QED
  BY <1>3, <1>5, <1>6, <1>7 DEF Leg

\* The recovery of the pairs of removed interactions from the match sets, which
\* become equations of the encoding, finds each of them and never raises, if
\* the removed interactions have the shape that the analysis requires when it
\* starts.
THEOREM RemovedPairsRecovered ==
  ScenesAllow /\ RemovedInPairs /\ Spec => []InternalPairsRecovered
<1>1. Init => Inv /\ WithinFirst
  BY InitFits DEF Init, Started, WithinFirst
<1>2. Inv /\ WithinFirst /\ ScenesAllow /\ [Next]_vars => Inv' /\ WithinFirst'
  <2>1. [Next]_vars => scene' = scene
    BY DEF Next, Pop, NextSide, ExchangeFlags, ExchangeMatches, NextDirection, vars
  <2>2. QED
    BY <2>1, StepFits, WithinFirstStep DEF Inv
<1>3. Inv /\ WithinFirst /\ RemovedInPairs => InternalPairsRecovered
  BY RemovedIsPaired DEF InternalPairsRecovered
<1>4. ScenesAllow /\ RemovedInPairs => (ScenesAllow /\ RemovedInPairs)'
  BY DEF ScenesAllow, KeysNameOneCell, PositionsCorrespond, RemovedInPairs
<1>5. QED
  BY <1>1, <1>2, <1>3, <1>4, PTL DEF Spec

-----------------------------------------------------------------------------
\* One pass of the exchange suffices.

\* Kept interactions and their counterparts are on different sides.
LEMMA KeptSides ==
  ASSUME scene \in Scenes, PositionsCorrespond, NEW b \in Kept
  PROVE  /\ Side(b) = "before" /\ Side(Alignment[b]) = "after"
         /\ \A c \in Kept \ {b} : Alignment[c] # Alignment[b]
<1>1. AlignmentHolds(scene, Alignment)
  BY DEF PositionsCorrespond, Alignment
<1>2. QED
  BY <1>1 DEF AlignmentHolds, Kept, Side, Facts

\* The flags went across, and the candidates of the pairs that were looked at:
\* where the before side has one candidate, so has the after side.
Single(i) == \E j \in Ids : matches[i] = {j}
PassInv ==
  phase = "to_after" =>
    /\ \A b \in Kept : status[Alignment[b]] = status[b]
    /\ \A b \in Kept \ left : Single(b) => Single(Alignment[b])

\* The one candidate is the partner in the trace.
LEMMA SingleIsPartner ==
  ASSUME Inv, NEW i \in Ids, Single(i)
  PROVE  matches[i] = {Trace.partner[i]}
BY DEF Inv, TraceFits, Single

\* Flags that are open on either side are filled in, and others are right.
LEMMA FlagsGoAcross ==
  ASSUME Inv, PositionsCorrespond, ExchangeFlags
  PROVE  \A b \in Kept : status'[Alignment[b]] = status'[b]
<1> SUFFICES ASSUME NEW b \in Kept PROVE status'[Alignment[b]] = status'[b]
  OBVIOUS
<1>1. scene \in Scenes /\ status' = [i \in Ids |-> [r \in Roles |-> Filled(i, r)]]
  BY DEF Inv, ExchangeFlags
<1> DEFINE a == Alignment[b]
<1>2. /\ b \in Ids /\ a \in Ids /\ a \in KeptAfter /\ Role(a) = Role(b)
      /\ Partnered(b) = a /\ Partnered(a) = b
  BY <1>1, KeptIsTrue DEF KeptAfter
<1> HIDE DEF a
<1>3. ASSUME NEW r \in Roles PROVE Filled(a, r) = Filled(b, r)
  <2>1. /\ status[a][r] \in {"open", IF r = Role(b) THEN "yes" ELSE "no"}
        /\ status[b][r] \in {"open", IF r = Role(b) THEN "yes" ELSE "no"}
    BY <1>2 DEF Inv, TraceFits
  <2>2. /\ Filled(a, r) = IF status[a][r] = "open" THEN status[b][r] ELSE status[a][r]
        /\ Filled(b, r) = IF status[b][r] = "open" THEN status[a][r] ELSE status[b][r]
    BY <1>2 DEF Filled
  <2>3. QED
    BY <2>1, <2>2
<1>4. /\ status'[a] = [r \in Roles |-> Filled(a, r)]
      /\ status'[b] = [r \in Roles |-> Filled(b, r)]
  BY <1>1, <1>2
<1>5. QED
  BY <1>3, <1>4 DEF a

\* A step of the pass leaves the after side one candidate if the before side
\* has one: no other candidate is spared, because none has this one only.
LEMMA CandidatesGoAcross ==
  ASSUME Inv, Inv', Narrows, PositionsCorrespond, PassInv, phase = "to_after", ExchangeMatches
  PROVE  \A b \in Kept \ left' : Single(b)' => Single(Alignment[b])'
<1>1. scene \in Scenes /\ scene' = scene /\ Ids' = Ids /\ Trace' = Trace /\ matches \in [Ids -> SUBSET Ids]
      /\ (\A k \in Ids : \A j \in matches[k] : Side(j) = Side(k))
  BY DEF Inv, TypeOK, ExchangeMatches, Ids, Facts, Trace
<1>2. PICK c \in left :
        LET d    == Alignment[c]
            drop == Dropped(c, d)
        IN  /\ matches' = [k \in Ids |-> IF k = d THEN matches[k] \ drop
                                         ELSE IF k \in drop THEN matches[k] \ {d}
                                         ELSE matches[k]]
            /\ left' = left \ {c}
  BY DEF ExchangeMatches
<1> DEFINE d    == Alignment[c]
           drop == Dropped(c, d)
<1>3. /\ matches' = [k \in Ids |-> IF k = d THEN matches[k] \ drop
                                   ELSE IF k \in drop THEN matches[k] \ {d}
                                   ELSE matches[k]]
      /\ left' = left \ {c}
  BY <1>2
<1>4. c \in Kept /\ left \subseteq Kept
  BY DEF Inv, TypeOK
<1>5. /\ c \in Ids /\ d \in Ids /\ Side(d) = "after"
      /\ Trace.partner[c] \in Kept /\ Partnered(Trace.partner[c]) = Trace.partner[d]
  BY <1>1, <1>4, KeptIsTrue, KeptSides
<1>6. drop \subseteq matches[d]
  BY DEF Dropped
<1>7. ASSUME NEW b \in Kept PROVE b \in Ids /\ matches'[b] = matches[b]
  <2>1. b \in Ids /\ Side(b) = "before"
    BY <1>1, KeptIsTrue, KeptSides
  <2>2. b # d /\ b \notin drop
    BY <1>1, <1>5, <1>6, <2>1
  <2> HIDE DEF drop, d
  <2>3. QED
    BY <1>3, <2>1, <2>2
<1>8. ASSUME NEW i \in Ids PROVE Trace.partner[i] \in matches[i] /\ Trace.partner[i] \in matches'[i]
                                 /\ matches'[i] \subseteq matches[i] /\ Trace.partner[i] \in Ids
                                 /\ Trace.partner[Trace.partner[i]] = i
  BY <1>1, TraceShape DEF Inv, TraceFits, Narrows, Peers
<1>9. ASSUME Single(c) PROVE matches'[d] = {Trace.partner[d]}
  <2>1. matches[c] = {Trace.partner[c]}
    BY <1>5, <1>9, SingleIsPartner
  <2>2. Image(matches[c]) = {Trace.partner[d]}
    BY <1>5, <2>1 DEF Image
  <2>3. drop = {k \in matches[d] \ {Trace.partner[d]} : matches[k] # {d}}
    BY <1>5, <1>8, <2>2 DEF Dropped
  <2>4. ASSUME NEW k \in matches[d], matches[k] = {d} PROVE k = Trace.partner[d]
    BY <1>1, <1>5, <1>8, <2>4
  <2>5. matches[d] \ drop = {Trace.partner[d]}
    BY <1>5, <1>8, <2>3, <2>4
  <2> HIDE DEF d, drop
  <2>6. QED
    BY <1>3, <1>5, <2>5
<1> SUFFICES ASSUME NEW b \in Kept \ left', Single(b)' PROVE Single(Alignment[b])'
  OBVIOUS
<1>10. Single(b) /\ Alignment[b] \in Ids /\ Alignment' = Alignment
  BY <1>1, <1>7, KeptIsTrue DEF Single, Alignment
<1>11. \E j \in Ids : matches'[Alignment[b]] = {j}
  <2>1. CASE b = c
    BY <1>5, <1>8, <1>9, <1>10, <2>1
  <2>2. CASE b # c
    <3>1. Single(Alignment[b])
      BY <1>3, <1>10, <2>2 DEF PassInv
    <3>2. PICK j \in Ids : matches[Alignment[b]] = {j}
      BY <3>1 DEF Single
    <3>3. matches'[Alignment[b]] = {j}
      BY <1>8, <1>10, <3>2
    <3>4. QED
      BY <3>3
  <2>3. QED
    BY <2>1, <2>2
<1>12. QED
  BY <1>1, <1>10, <1>11 DEF Single

LEMMA PassStep ==
  ASSUME Inv, Inv', Narrows, PositionsCorrespond, PassInv, [Next]_vars
  PROVE  PassInv'
<1>1. CASE ExchangeFlags
  <2>1. left' = Kept /\ Kept' = Kept /\ Alignment' = Alignment
    BY <1>1 DEF ExchangeFlags, Kept, Alignment
  <2>2. QED
    BY <1>1, <2>1, FlagsGoAcross DEF PassInv
<1>2. CASE ExchangeMatches
  <2>1. phase' = phase /\ status' = status /\ Kept' = Kept /\ Alignment' = Alignment
    BY <1>2 DEF ExchangeMatches, Kept, Alignment
  <2>2. QED
    BY <1>2, <2>1, CandidatesGoAcross DEF PassInv
<1>3. CASE Pop \/ NextSide \/ NextDirection
  <2>1. phase' # "to_after"
    BY <1>3 DEF Pop, NextSide, NextDirection, Circuits
  <2>2. QED
    BY <2>1 DEF PassInv
<1>4. CASE UNCHANGED vars
  BY <1>4 DEF vars, PassInv, Single, Kept, Alignment, Ids, Facts
<1>5. QED
  BY <1>1, <1>2, <1>3, <1>4 DEF Next

\* What kept counterparts with one candidate each have in common.
LEMMA SharedCandidate ==
  ASSUME scene \in Scenes, PositionsCorrespond, NEW b \in Kept, NEW M, NEW N,
         M = {Trace.partner[b]}, Trace.partner[Alignment[b]] \in N,
         N \cap KeptAfter \subseteq {Trace.partner[Alignment[b]]}
  PROVE  N \cap KeptAfter = {Alignment[c] : c \in M \cap Kept}
<1>1. Trace.partner[b] \in Kept /\ Alignment[Trace.partner[b]] = Trace.partner[Alignment[b]]
  BY KeptIsTrue
<1>2. Trace.partner[Alignment[b]] \in KeptAfter
  BY <1>1 DEF KeptAfter
<1>3. QED
  BY <1>1, <1>2

\* At the end of the pass everything is across.
LEMMA PassTransfers ==
  ASSUME Inv, PositionsCorrespond, PassInv, BeforeResolved, phase = "to_after", left = {}
  PROVE  Transferred
<1> SUFFICES ASSUME NEW b \in Kept
             PROVE  /\ status[Alignment[b]] = status[b]
                    /\ matches[Alignment[b]] \cap KeptAfter = {Alignment[c] : c \in matches[b] \cap Kept}
  BY DEF Transferred
<1>1. scene \in Scenes /\ b \in Ids /\ Alignment[b] \in Ids
  BY KeptIsTrue DEF Inv
<1>2. Single(b) /\ Single(Alignment[b]) /\ status[Alignment[b]] = status[b]
  BY DEF BeforeResolved, PassInv, Single
<1>3. matches[b] = {Trace.partner[b]} /\ matches[Alignment[b]] = {Trace.partner[Alignment[b]]}
  BY <1>1, <1>2, SingleIsPartner
<1>4. QED
  BY <1>1, <1>2, <1>3, SharedCandidate

\* What is across stays: there is nothing left to narrow but the candidates on
\* the after side that were removed before.
LEMMA TransferredStays ==
  ASSUME Inv, Inv', Narrows, PositionsCorrespond, BeforeResolved, Transferred, scene' = scene
  PROVE  Transferred'
<1>1. Kept' = Kept /\ Alignment' = Alignment /\ KeptAfter' = KeptAfter /\ Ids' = Ids /\ Trace' = Trace
  BY DEF Kept, Alignment, KeptAfter, Ids, Facts, Trace
<1> SUFFICES ASSUME NEW b \in Kept
             PROVE  /\ status'[Alignment[b]] = status'[b]
                    /\ matches'[Alignment[b]] \cap KeptAfter = {Alignment[c] : c \in matches'[b] \cap Kept}
  BY <1>1 DEF Transferred
<1> DEFINE a == Alignment[b]
<1>2. scene \in Scenes /\ b \in Ids /\ a \in Ids
  BY KeptIsTrue DEF Inv
<1>3. ASSUME NEW i \in Ids
      PROVE  /\ status[i] \in [Roles -> Flags] /\ status'[i] \in [Roles -> Flags]
             /\ \A r \in Roles : status[i][r] \in {"open", status'[i][r]}
             /\ matches'[i] \subseteq matches[i] /\ Trace.partner[i] \in matches'[i]
  BY <1>1, SceneFixed DEF Inv, TypeOK, TraceFits, Narrows
<1>4. /\ status[a] = status[b] /\ \A r \in Roles : status[b][r] # "open"
      /\ matches[a] \cap KeptAfter = {Alignment[c] : c \in matches[b] \cap Kept}
      /\ Single(b)
  BY DEF Transferred, BeforeResolved, Single
<1> HIDE DEF a
<1>5. status'[a] = status'[b]
  <2>1. \A r \in Roles : status'[a][r] = status'[b][r]
    BY <1>2, <1>3, <1>4
  <2>2. QED
    BY <1>2, <1>3, <2>1
<1>6. matches[b] = {Trace.partner[b]}
  BY <1>2, <1>4, SingleIsPartner
<1>7. matches'[b] = {Trace.partner[b]}
  BY <1>2, <1>3, <1>6
<1>8. matches[a] \cap KeptAfter \subseteq {Trace.partner[a]}
  BY <1>2, <1>4, <1>6, KeptIsTrue DEF a
<1>9. matches'[a] \cap KeptAfter \subseteq {Trace.partner[a]} /\ Trace.partner[a] \in matches'[a]
  BY <1>2, <1>3, <1>8
<1>10. matches'[a] \cap KeptAfter = {Alignment[c] : c \in matches'[b] \cap Kept}
  BY <1>2, <1>7, <1>9, SharedCandidate DEF a
<1>11. QED
  BY <1>5, <1>10 DEF a

\* If the before side is resolved when its knowledge went across, kept
\* counterparts agree from then on, so a second pass would move nothing.
THEOREM OnePassOfExchange == ScenesAllow /\ Spec => OnePassSuffices
<1>1. Init => Inv /\ PassInv
  BY InitFits DEF Init, Started, PassInv
<1>2. Inv /\ PassInv /\ ScenesAllow /\ [Next]_vars => Inv' /\ PassInv' /\ [OnePass]_vars
  <2> SUFFICES ASSUME Inv, PassInv, ScenesAllow, [Next]_vars PROVE Inv' /\ PassInv' /\ OnePass
    OBVIOUS
  <2>1. Inv' /\ Narrows /\ PositionsCorrespond
    BY StepFits DEF ScenesAllow
  <2>2. PassInv'
    BY <2>1, PassStep
  <2>3. scene' = scene
    BY DEF Next, Pop, NextSide, ExchangeFlags, ExchangeMatches, NextDirection, vars
  <2>4. ASSUME BeforeResolved, Transferred PROVE Transferred'
    BY <2>1, <2>3, <2>4, TransferredStays
  <2>5. ASSUME BeforeResolved, phase = "to_after", phase' = "to_before" PROVE Transferred
    <3>1. left = {}
      BY <2>5 DEF Next, Pop, NextSide, ExchangeFlags, ExchangeMatches, NextDirection, vars, Circuits
    <3>2. QED
      BY <2>1, <2>5, <3>1, PassTransfers
  <2>6. QED
    BY <2>1, <2>2, <2>4, <2>5 DEF OnePass
<1>3. ScenesAllow => ScenesAllow'
  BY DEF ScenesAllow, KeysNameOneCell, PositionsCorrespond
<1>4. QED
  BY <1>1, <1>2, <1>3, PTL DEF Spec, OnePassSuffices

-----------------------------------------------------------------------------
\* The analysis comes to an end.

\* The stages that it goes through, the second round of the worklists included.
Stage == CASE phase = "before" -> IF again THEN 5 ELSE 0
           [] phase = "after" -> IF again THEN 6 ELSE 1
           [] phase = "flags" -> 2
           [] phase = "to_after" -> 3
           [] phase = "to_before" -> 4
           [] OTHER -> 7

\* A step enters a later stage, learns something, or leaves less to do.
Progress ==
  \/ Stage' > Stage
  \/ /\ Stage' = Stage
     /\ \/ matches' # matches \/ status' # status
        \/ work' \subseteq work /\ left' \subseteq left /\ <<work', left'>> # <<work, left>>

\* The exchange takes place once, before the second round.
StageInv ==
  /\ phase \in Circuits \cup {"flags", "to_after", "to_before", "done"} /\ again \in BOOLEAN
  /\ phase \in {"flags", "to_after", "to_before"} => ~again
  /\ DOMAIN matches = Ids /\ \A i \in Ids : DOMAIN status[i] = Roles

LEMMA StageStep == StageInv /\ [Next]_vars => StageInv'
<1> SUFFICES ASSUME StageInv, [Next]_vars PROVE StageInv'
  OBVIOUS
<1>1. scene' = scene /\ Ids' = Ids
  BY DEF Next, Pop, NextSide, ExchangeFlags, ExchangeMatches, NextDirection, vars, Ids, Facts
<1>2. DOMAIN matches' = Ids
  BY DEF StageInv, Next, Pop, PopStatus, PopTargets, NextSide, ExchangeFlags, ExchangeMatches,
         NextDirection, vars
<1>3. \A i \in Ids : DOMAIN status'[i] = Roles
  <2>1. \A st : DOMAIN ExactlyOne(st) = Roles
    BY DEF ExactlyOne
  <2>2. ASSUME NEW i \in Ids, PopStatus(i) PROVE \A k \in Ids : DOMAIN status'[k] = Roles
    BY <2>1, <2>2 DEF PopStatus
  <2>3. ASSUME NEW i \in Ids, PopTargets(i) PROVE \A k \in Ids : DOMAIN status'[k] = Roles
    BY <2>3 DEF PopTargets, StageInv
  <2>4. CASE NextSide \/ ExchangeFlags \/ ExchangeMatches \/ NextDirection \/ UNCHANGED vars
    BY <2>1, <2>4 DEF StageInv, NextSide, ExchangeFlags, ExchangeMatches, NextDirection, vars
  <2>5. QED
    BY <2>2, <2>3, <2>4 DEF Next, Pop
<1>4. CASE Pop \/ ExchangeMatches \/ UNCHANGED vars
  BY <1>1, <1>2, <1>3, <1>4 DEF StageInv, Pop, ExchangeMatches, vars
<1>5. CASE NextSide \/ ExchangeFlags \/ NextDirection
  BY <1>1, <1>2, <1>3, <1>5 DEF StageInv, NextSide, ExchangeFlags, NextDirection, Circuits
<1>6. QED
  BY <1>4, <1>5 DEF Next

LEMMA PopStatusProgresses ==
  ASSUME StageInv, NEW i \in Ids, <<i, "status">> \in work, PopStatus(i),
         matches' = matches, status' = status
  PROVE  work' = work \ {<<i, "status">>}
<1> DEFINE st == ExactlyOne(status[i])
           old == matches[i]
<1>1. status[i] = st
  BY DEF PopStatus
<1>2. ~NewlyPinned(i, st)
  BY <1>1 DEF NewlyPinned
<1>3. ASSUME NEW k \in Ids PROVE Clash(i, st, k) = {}
  <2>1. k # i => \A r \in Roles : r \in Clash(i, st, k) => status[k][r] = "no"
    BY DEF PopStatus
  <2>2. \A r \in Clash(i, st, k) : r \in Roles /\ k # i /\ status[k][r] # "no"
    BY DEF Clash, Boundary, Roles
  <2>3. QED
    BY <2>1, <2>2
<1>4. st["match"] = "no" => old = {i}
  BY DEF PopStatus, StageInv
<1>5. st["match"] = "yes" => i \notin old
  BY DEF PopStatus, StageInv
<1>6. QED
  BY <1>2, <1>3, <1>4, <1>5 DEF PopStatus

LEMMA PopTargetsProgresses ==
  ASSUME NEW i \in Ids, <<i, "targets">> \in work, PopTargets(i),
         matches' = matches, status' = status, StageInv
  PROVE  work' = work \ {<<i, "targets">>}
<1> DEFINE pair == SettledWith(i)
           losers == {k \in Peers(i) \ pair : matches[k] \cap pair # {}}
           match == IF matches[i] = {i} THEN "no" ELSE IF i \notin matches[i] THEN "yes"
                    ELSE status[i]["match"]
           new == [k \in Ids |-> IF k = i THEN match ELSE IF k \in pair THEN "yes" ELSE status[k]["match"]]
<1>1. losers = {}
  <2>1. \A k \in losers : k \in Ids /\ matches[k] = matches[k] \ pair
    BY DEF PopTargets, Peers
  <2>2. QED
    BY <2>1
<1>2. ASSUME NEW k \in Ids PROVE new[k] = status[k]["match"]
  <2>1. status[k] = [status[k] EXCEPT !["match"] = new[k]]
    BY DEF PopTargets
  <2>2. QED
    BY <2>1 DEF Roles, StageInv
<1>3. work' = (work \ {<<i, "targets">>}) \cup {k \in Ids : new[k] # status[k]["match"]} \X {"status"}
                \cup losers \X {"targets"}
  BY DEF PopTargets
<1> HIDE DEF new, losers
<1>4. QED
  BY <1>1, <1>2, <1>3

LEMMA StepProgresses == StageInv /\ [Next]_vars => [Progress]_vars
<1> SUFFICES ASSUME StageInv, Next, ~UNCHANGED vars PROVE Progress
  OBVIOUS
<1>1. CASE Pop
  <2>1. Stage' = Stage /\ left' = left
    BY <1>1 DEF Pop, Stage
  <2>2. SUFFICES ASSUME matches' = matches, status' = status
                 PROVE  work' \subseteq work /\ work' # work
    BY <2>1, <2>2 DEF Progress
  <2>3. CASE \E i \in Ids : <<i, "status">> \in work /\ PopStatus(i)
    BY <2>2, <2>3, PopStatusProgresses
  <2>4. CASE \E i \in Ids : <<i, "targets">> \in work /\ PopTargets(i)
    BY <2>2, <2>4, PopTargetsProgresses
  <2>5. QED
    BY <1>1, <2>3, <2>4 DEF Pop
<1>2. CASE NextSide \/ ExchangeFlags \/ NextDirection
  <2>1. Stage' > Stage
    BY <1>2 DEF StageInv, NextSide, ExchangeFlags, NextDirection, Stage, Circuits
  <2>2. QED
    BY <2>1 DEF Progress
<1>3. CASE ExchangeMatches
  <2>1. Stage' = Stage /\ work' = work
    BY <1>3 DEF ExchangeMatches, Stage
  <2>2. left' \subseteq left /\ left' # left
    BY <1>3 DEF ExchangeMatches
  <2>3. QED
    BY <2>1, <2>2 DEF Progress
<1>4. QED
  BY <1>1, <1>2, <1>3 DEF Next

\* No step of the analysis is in vain, whatever the order in which items are
\* popped: it enters a later stage, narrows, or leaves less to do.  Nothing is
\* ever given back (AnalysisOnlyNarrows), so the analysis comes to an end.
THEOREM NoStepInVain == Spec => [][Progress]_vars
<1>1. Init => StageInv
  BY DEF Init, Started, StageInv, Circuits, FirstMatches, FirstStatus, Ingested, Roles
<1>2. StageInv /\ [Next]_vars => StageInv'
  BY StageStep
<1>3. QED
  BY <1>1, <1>2, StepProgresses, PTL DEF Spec

-----------------------------------------------------------------------------
\* The encoding of what the analysis leaves open.

\* With the interface encoding, what it was chosen on still holds.
EncInv == Inv /\ (mode = "interface" => InterfaceEncodes)

-----------------------------------------------------------------------------
\* What the assumptions say of one interaction.
LEMMA TraceOfRow ==
  ASSUME scene \in Scenes, TracesExecute, NEW c \in Circuits, NEW i \in Rows(c)
  PROVE  /\ i \in Ids /\ Side(i) = c
         /\ Trace.partner[i] \in Rows(c) /\ Trace.partner[Trace.partner[i]] = i
         /\ Trace.mult[i] \in {-1, 0, 1} /\ Trace.time[i] \in Int
         /\ ColumnsFit(Facts[i], Trace, i)
         /\ Facts[i] \in FactTypes(Ids, DOMAIN Trace.base, DOMAIN Trace.stamp)
         /\ Executes(Trace, Rows(c))
<1>1. Truthful(scene)
  BY SceneTruthful
<1>2. Rows(c) = {k \in Ids : Side(k) = c}
  BY <1>1 DEF Truthful, Rows, Ids, Facts, Side
<1>3. i \in Ids /\ Side(i) = c
  BY <1>2
<1>4. IsTrace(Trace, Facts) /\ FactHolds(scene, i)
      /\ Facts[i] \in FactTypes(Ids, DOMAIN Trace.base, DOMAIN Trace.stamp)
  BY <1>1, <1>3 DEF Truthful, Trace, Facts, Ids
<1>5. Trace.mult[i] \in {-1, 0, 1} /\ Trace.time[i] \in Int
  BY <1>3, <1>4 DEF IsTrace, Ids
<1>6. Trace.partner[i] \in Rows(c) /\ Trace.partner[Trace.partner[i]] = i
  BY <1>2, <1>3, TraceShape DEF Peers, Side
<1>7. ColumnsFit(Facts[i], Trace, i)
  BY <1>4 DEF FactHolds, Facts, Trace
<1>8. Executes(Trace, Rows(c))
  BY DEF TracesExecute, Trace, Rows
<1>9. QED
  BY <1>3, <1>4, <1>5, <1>6, <1>7, <1>8

\* Partners carry one message.
LEMMA PartnersCancel ==
  ASSUME scene \in Scenes, NEW i \in Ids, Trace.partner[i] # i
  PROVE  /\ Trace.mult[i] # 0 /\ Trace.mult[i] + Trace.mult[Trace.partner[i]] = 0
         /\ Args(Trace, i) = Args(Trace, Trace.partner[i])
<1>1. IsTrace(Trace, Facts)
  BY SceneTruthful DEF Truthful, Trace, Facts
<1>2. /\ Trace.mult[i] \in {-1, 0, 1} /\ Trace.mult[i] # 0
      /\ Trace.mult[Trace.partner[i]] = -Trace.mult[i]
      /\ OneCell(Trace, i, Trace.partner[i])
      /\ Trace.time[i] = Trace.time[Trace.partner[i]]
      /\ Trace.data[i] = Trace.data[Trace.partner[i]]
  BY <1>1 DEF IsTrace, Ids
<1>3. Trace.mult[i] + Trace.mult[Trace.partner[i]] = 0
  BY <1>2
<1>4. QED
  BY <1>2, <1>3 DEF Args, OneCell

\* What is preset false for the constants of two interactions is not matched.
LEMMA PartnersPossible ==
  ASSUME scene \in Scenes, TracesExecute, NEW c \in Circuits, NEW i \in Rows(c),
         Trace.partner[i] # i
  PROVE  ~Impossible(i, Trace.partner[i])
<1> DEFINE j == Trace.partner[i]
<1>1. /\ i \in Ids /\ j \in Rows(c) /\ ColumnsFit(Facts[i], Trace, i)
      /\ Trace.mult[i] \in {-1, 0, 1}
      /\ Facts[i] \in FactTypes(Ids, DOMAIN Trace.base, DOMAIN Trace.stamp)
  BY TraceOfRow
<1>2. /\ ColumnsFit(Facts[j], Trace, j) /\ Trace.mult[j] \in {-1, 0, 1}
      /\ Facts[j] \in FactTypes(Ids, DOMAIN Trace.base, DOMAIN Trace.stamp)
  BY <1>1, TraceOfRow
<1>3. /\ Trace.mult[i] # 0 /\ Trace.mult[i] + Trace.mult[j] = 0
      /\ Trace.space[i] = Trace.space[j] /\ Trace.ptr[i] = Trace.ptr[j]
  BY <1>1, PartnersCancel DEF Args
<1>4. ConstMult(i) \subseteq {Trace.mult[i]} /\ ConstMult(j) \subseteq {Trace.mult[j]}
  BY <1>1, <1>2 DEF ConstMult, ColumnsFit
<1>5. 0 \notin ConstMult(i) \cup ConstMult(j)
  BY <1>1, <1>2, <1>3, <1>4
<1>6. \A m \in ConstMult(i), n \in ConstMult(j) : m + n = 0
  BY <1>3, <1>4
<1>7. ~Differ(SpaceConst(i), SpaceConst(j))
  BY <1>1, <1>2, <1>3 DEF Differ, SpaceConst, ColumnsFit
<1>8. ~Differ(PtrConst(i), PtrConst(j))
  <2>1. \A x \in PtrConst(i) : Trace.ptr[i] = Trace.base["const"] + x
    BY <1>1 DEF PtrConst, ColumnsFit
  <2>2. \A x \in PtrConst(j) : Trace.ptr[j] = Trace.base["const"] + x
    BY <1>2 DEF PtrConst, ColumnsFit
  <2>3. ASSUME NEW x \in PtrConst(i), NEW y \in PtrConst(j)
        PROVE  x = y
    <3>1. "const" \in DOMAIN Trace.base \cup {"none"} /\ x \in Int /\ y \in Int
      BY <1>1, <1>2, <2>3 DEF PtrConst, FactTypes
    <3>2. Trace.base["const"] \in Int
      BY <3>1, SceneTruthful DEF Truthful, Trace
    <3>3. QED
      BY <1>3, <2>1, <2>2, <3>1, <3>2
  <2>4. QED
    BY <2>3 DEF Differ
<1>9. QED
  BY <1>5, <1>6, <1>7, <1>8 DEF Impossible

-----------------------------------------------------------------------------
\* The plain encoding: the matching of the trace is an assignment of the
\* variables that were left open.

LEMMA RowsAreOrdered ==
  ASSUME NEW c \in Circuits, NEW i \in Rows(c), NEW j \in Rows(c), Side(i) = c, Side(j) = c
  PROVE  Row(i) <= Row(j) \/ Row(j) <= Row(i)
<1>1. Row(i) \in 1..Len(scene.rows[c]) /\ Row(j) \in 1..Len(scene.rows[c])
  BY DEF Rows, ById, Row
<1>2. QED
  BY <1>1

LEMMA RoleByTrace ==
  ASSUME scene \in Scenes, TracesExecute, NEW c \in Circuits, NEW i \in Rows(c)
  PROVE  RoleBy(TraceMatching(c), Trace, i) = Role(i)
<1>1. i \in Ids /\ Side(i) = c
  BY TraceOfRow
<1>2. <<i, i>> \in Pairs(c)
  BY <1>1, RowsAreOrdered DEF Pairs
<1>3. <<i, i>> \in TraceMatching(c) <=> Trace.partner[i] = i
  BY <1>2 DEF TraceMatching
<1>4. QED
  BY <1>3 DEF RoleBy, Role, RoleIn

LEMMA TraceIsMatching ==
  ASSUME EncInv, TracesExecute, NEW c \in Circuits
  PROVE  TraceMatching(c) \in Matchings(c)
<1> DEFINE TM   == TraceMatching(c)
           yes  == {p \in Pairs(c) : Preset(p[1], p[2]) = "yes"}
           open == {p \in Pairs(c) : Preset(p[1], p[2]) = "open"}
<1>1. scene \in Scenes /\ \A i \in Ids : Trace.partner[i] \in matches[i]
  BY DEF EncInv, Inv, TraceFits
<1>2. ASSUME NEW p \in Pairs(c)
      PROVE  /\ p[1] \in Rows(c) /\ p[2] \in Rows(c) /\ p[1] \in Ids
             /\ Trace.partner[p[1]] \in matches[p[1]]
  <2>1. p[1] \in Rows(c) /\ p[2] \in Rows(c)
    BY DEF Pairs
  <2>2. p[1] \in Ids
    BY <1>1, <2>1, TraceOfRow
  <2>3. QED
    BY <1>1, <2>1, <2>2
<1>3. yes \subseteq TM
  BY <1>2 DEF Preset, TraceMatching
<1>4. ASSUME NEW p \in TM
      PROVE  p \in yes \cup open
  <2>1. p \in Pairs(c) /\ Trace.partner[p[1]] = p[2]
    BY DEF TraceMatching
  <2>2. p[2] \in matches[p[1]]
    BY <1>2, <2>1
  <2>3. ~(p[1] # p[2] /\ Impossible(p[1], p[2]))
    BY <1>1, <1>2, <2>1, PartnersPossible
  <2>4. Preset(p[1], p[2]) \in {"yes", "open"}
    BY <2>2, <2>3 DEF Preset
  <2>5. QED
    BY <2>1, <2>4
<1>5. ASSUME NEW i \in Rows(c)
      PROVE  MatchedOnce(TM, i)
  <2> DEFINE j == Trace.partner[i]
  <2>1. /\ i \in Ids /\ Side(i) = c /\ j \in Rows(c) /\ Trace.partner[j] = i
        /\ j \in matches[i]
    BY <1>1, TraceOfRow
  <2>2. Side(j) = c
    BY <1>1, <2>1, TraceOfRow
  <2>3. <<i, j>> \in Pairs(c) \/ <<j, i>> \in Pairs(c)
    BY <2>1, <2>2, RowsAreOrdered DEF Pairs
  <2>4. <<i, j>> \in TM \/ <<j, i>> \in TM
    BY <2>1, <2>3 DEF TraceMatching
  <2>5. ASSUME NEW k, <<i, k>> \in TM \/ <<k, i>> \in TM
        PROVE  k = j
    <3>1. CASE <<i, k>> \in TM
      BY <3>1 DEF TraceMatching
    <3>2. CASE <<k, i>> \in TM
      <4>1. k \in Rows(c) /\ Trace.partner[k] = i
        BY <3>2 DEF TraceMatching, Pairs
      <4>2. QED
        BY <1>1, <4>1, TraceOfRow
    <3>3. QED
      BY <2>5, <3>1, <3>2
  <2>6. MatchedIn(TM, i) = {j}
    BY <2>1, <2>4, <2>5 DEF MatchedIn
  <2>7. QED
    BY <2>1, <2>6 DEF MatchedOnce
<1>6. TM = yes \cup (TM \cap open)
  BY <1>3, <1>4
<1>7. TM \in {yes \cup S : S \in SUBSET open}
  BY <1>6
<1>8. QED
  BY <1>5, <1>7 DEF Matchings

-----------------------------------------------------------------------------
\* The plain encoding: every part of the formula is true of the trace.

LEMMA PairsCancelInTrace ==
  ASSUME EncInv, TracesExecute, NEW c \in Circuits
  PROVE  PairsCancel(c, Trace, TraceMatching(c))
<1> DEFINE TM == TraceMatching(c)
<1>1. scene \in Scenes /\ TraceFits
  BY DEF EncInv, Inv
<1>2. ASSUME NEW i \in Rows(c)
      PROVE  /\ Trace.mult[i] \in {-1, 0, 1} /\ Pinned(i, RoleBy(TM, Trace, i))
             /\ <<i, i>> \notin TM => Trace.mult[i] # 0
  <2>1. i \in Ids /\ Side(i) = c /\ Trace.mult[i] \in {-1, 0, 1}
        /\ RoleBy(TM, Trace, i) = Role(i)
    BY <1>1, TraceOfRow, RoleByTrace
  <2>2. \A r \in Roles : status[i][r] \in {"open", IF r = Role(i) THEN "yes" ELSE "no"}
    BY <1>1, <2>1 DEF TraceFits
  <2>3. Pinned(i, Role(i))
    BY <2>2 DEF Pinned
  <2>4. <<i, i>> \in Pairs(c)
    BY <2>1, RowsAreOrdered DEF Pairs
  <2>5. <<i, i>> \notin TM => Trace.partner[i] # i
    BY <2>4 DEF TraceMatching
  <2>6. <<i, i>> \notin TM => Trace.mult[i] # 0
    BY <1>1, <2>1, <2>5, PartnersCancel
  <2>7. QED
    BY <2>1, <2>3, <2>6
<1>3. ASSUME NEW p \in TM, p[1] # p[2]
      PROVE  /\ Trace.mult[p[1]] + Trace.mult[p[2]] = 0 /\ Trace.mult[p[1]] # 0
             /\ Args(Trace, p[1]) = Args(Trace, p[2])
  <2>1. p[1] \in Rows(c) /\ Trace.partner[p[1]] = p[2]
    BY DEF TraceMatching, Pairs
  <2>2. p[1] \in Ids
    BY <1>1, <2>1, TraceOfRow
  <2>3. QED
    BY <1>1, <1>3, <2>1, <2>2, PartnersCancel
<1>4. QED
  BY <1>2, <1>3 DEF PairsCancel

LEMMA BoundaryFitsInTrace ==
  ASSUME EncInv, TracesExecute, NEW c \in Circuits
  PROVE  BoundaryFits(c, Trace, TraceMatching(c))
<1> DEFINE TM == TraceMatching(c)
<1>1. scene \in Scenes /\ TypeOK
  BY DEF EncInv, Inv
<1>2. ASSUME NEW i \in Rows(c)
      PROVE  /\ i \in Ids /\ Side(i) = c /\ RoleBy(TM, Trace, i) = RoleIn(Trace, i)
             /\ Executes(Trace, Rows(c))
  BY <1>1, TraceOfRow, RoleByTrace DEF Role
<1>3. ASSUME NEW i \in Rows(c), NEW j \in Rows(c) \ {i},
             RoleIn(Trace, i) \in Boundary, RoleIn(Trace, j) = RoleIn(Trace, i)
      PROVE  ~SameCell(Trace, i, j) /\ Trace.time[i] # Trace.time[j]
  <2>1. IsTrace(Trace, Facts)
    BY <1>1, SceneTruthful DEF Truthful, Trace, Facts
  <2>2. i \in Ids /\ j \in Ids \ {i} /\ Facts[j].side = Facts[i].side
    BY <1>2, <1>3 DEF Side
  <2>3. ~OneCell(Trace, i, j)
    BY <1>3, <2>1, <2>2 DEF IsTrace, Ids
  <2>4. Trace.time[i] # Trace.time[j]
    BY <1>2, <1>3 DEF Executes
  <2>5. QED
    BY <2>3, <2>4 DEF OneCell, SameCell
<1>4. ASSUME NEW i \in Rows(c), NEW j \in matches[i] \ {i},
             Before(Trace, i, RoleIn(Trace, i), j, RoleIn(Trace, j))
      PROVE  RoleIn(Trace, i) # "output" /\ RoleIn(Trace, j) # "input"
  <2>1. i \in Ids /\ Side(i) = c
    BY <1>2
  <2>2. j \in Ids /\ Side(j) = c
    BY <1>1, <2>1, <1>4 DEF TypeOK
  <2>3. j \in Rows(c)
    BY <1>1, <2>2, SceneTruthful DEF Truthful, Rows, Ids, Side, Facts
  <2>4. QED
    BY <1>2, <1>4, <2>3 DEF Executes
<1>5. ASSUME NEW i \in Rows(c), NEW j \in matches[i] \ {i}
      PROVE  RoleBy(TM, Trace, j) = RoleIn(Trace, j)
  <2>1. j \in Ids /\ Side(j) = c
    BY <1>1, <1>2 DEF TypeOK
  <2>2. j \in Rows(c)
    BY <1>1, <2>1, SceneTruthful DEF Truthful, Rows, Ids, Side, Facts
  <2>3. QED
    BY <1>2, <2>2
<1>6. QED
  BY <1>2, <1>3, <1>4, <1>5 DEF BoundaryFits

LEMMA FactsReconstructed ==
  ASSUME EncInv, TracesExecute, NEW c \in Circuits
  PROVE  KeysReconstructed(c, Trace) /\ ClocksReconstructed(c, Trace)
<1>1. scene \in Scenes
  BY DEF EncInv, Inv
<1>2. ASSUME NEW i \in Rows(c)
      PROVE  /\ ColumnsFit(Facts[i], Trace, i) /\ Trace.time[i] \in Int
             /\ Facts[i] \in FactTypes(Ids, DOMAIN Trace.base, DOMAIN Trace.stamp)
  BY <1>1, TraceOfRow
<1>3. KeysReconstructed(c, Trace)
  <2>1. ASSUME NEW i \in Rows(c), NEW j \in Rows(c), Facts[i].key.base # "none",
               Facts[j].key.base = Facts[i].key.base
        PROVE  Trace.ptr[i] - Trace.ptr[j] = Facts[i].key.offset - Facts[j].key.offset
    <3> DEFINE b == Trace.base[Facts[i].key.base]
    <3>1. Trace.ptr[i] = b + Facts[i].key.offset /\ Trace.ptr[j] = b + Facts[j].key.offset
      BY <1>2, <2>1 DEF ColumnsFit
    <3>2. /\ Facts[i].key.base \in DOMAIN Trace.base
          /\ Facts[i].key.offset \in Int /\ Facts[j].key.offset \in Int
      BY <1>2, <2>1 DEF FactTypes
    <3>3. b \in Int
      BY <1>1, <3>2, SceneTruthful DEF Truthful, Trace
    <3>4. QED
      BY <3>1, <3>2, <3>3
  <2>2. QED
    BY <2>1 DEF KeysReconstructed
<1>4. ClocksReconstructed(c, Trace)
  <2>1. ASSUME NEW a \in Anchors(c), NEW i \in Timed(c),
               Trace.mult[a] # 0, Trace.mult[i] # 0
        PROVE  LET d == Facts[i].time.at - Facts[a].time.at
               IN  IF Facts[i].time.kind = "exact" THEN Trace.time[i] = Trace.time[a] + d
                   ELSE Trace.time[i] <= Trace.time[a] + d
    <3>1. a \in Rows(c) /\ i \in Rows(c) /\ Facts[a].time.kind = "exact"
          /\ Facts[i].time.kind # "none"
      BY DEF Anchors, Timed
    <3>2. Facts[i].time.kind \in {"exact", "upper"}
          /\ Facts[i].time.at \in Int /\ Facts[a].time.at \in Int
      BY <1>2, <3>1 DEF FactTypes
    <3>3. Trace.time[a] = Facts[a].time.at
      BY <1>2, <2>1, <3>1 DEF ColumnsFit
    <3>4. IF Facts[i].time.kind = "exact" THEN Trace.time[i] = Facts[i].time.at
          ELSE Trace.time[i] <= Facts[i].time.at
      BY <1>2, <2>1, <3>1, <3>2 DEF ColumnsFit
    <3>5. Trace.time[i] \in Int /\ Trace.time[a] \in Int
      BY <1>2, <3>1
    <3>6. QED
      BY <3>2, <3>3, <3>4, <3>5
  <2>2. QED
    BY <2>1 DEF ClocksReconstructed
<1>5. QED
  BY <1>3, <1>4

LEMMA PlainHoldsInTrace ==
  ASSUME EncInv, TracesExecute, NEW c \in Circuits
  PROVE  PlainHolds(c, Trace, TraceMatching(c))
<1>1. ASSUME NEW i \in Rows(c), RoleBy(TraceMatching(c), Trace, i) = "input"
      PROVE  Trace.data[i] \in Bytes
  <2>1. Executes(Trace, Rows(c))
    BY TraceOfRow DEF EncInv, Inv
  <2>2. Trace.mult[i] # 0
    BY <1>1 DEF RoleBy
  <2>3. QED
    BY <2>1, <2>2 DEF Executes
<1>2. InputsAreBytes(c, Trace, TraceMatching(c))
  BY <1>1 DEF InputsAreBytes
<1>3. QED
  BY <1>2, PairsCancelInTrace, BoundaryFitsInTrace, FactsReconstructed DEF PlainHolds

LEMMA PlainRelatedInTrace ==
  ASSUME EncInv, TracesExecute, AgreesOn(scene, BeforeToAfter(scene))
  PROVE  PlainRelated(Trace, TraceMatching("before"), Trace, TraceMatching("after"))
<1> DEFINE to    == BeforeToAfter(scene)
           restB == Rows("before") \ DOMAIN to
           restA == Rows("after") \ {to[b] : b \in DOMAIN to}
           MB    == TraceMatching("before")
           MA    == TraceMatching("after")
           same(b, a) == Role(b) = Role(a) /\ Args(Trace, b) = Args(Trace, a)
           rest(c) == {i \in Rows(c) : i \notin DOMAIN to \cup {to[b] : b \in DOMAIN to}}
<1>1. scene \in Scenes /\ Truthful(scene)
  BY SceneTruthful DEF EncInv, Inv
<1>2. \A c \in Circuits : Rows(c) = {k \in Ids : Side(k) = c}
  BY <1>1 DEF Truthful, Rows, Ids, Facts, Side
<1>3. AlignmentHolds(scene, to) /\ \A b \in DOMAIN to : same(b, to[b])
  BY DEF AgreesOn, Role, Trace
<1>4. \A b \in DOMAIN to : b \in Rows("before") /\ to[b] \in Rows("after")
  BY <1>2, <1>3 DEF AlignmentHolds, Ids, Facts, Side, Circuits
<1>5. rest("before") = restB /\ rest("after") = restA
  BY <1>2, <1>4 DEF Circuits
<1>6. ASSUME NEW b \in Rows("before"), NEW a \in Rows("after"), same(b, a)
      PROVE  Alike(b, a, Trace, MB, Trace, MA)
  BY <1>1, <1>6, RoleByTrace DEF Alike, Circuits
<1>7. \A b \in DOMAIN to : /\ Alike(b, to[b], Trace, MB, Trace, MA)
                           /\ \A d \in DOMAIN to \ {b} : to[d] # to[b]
  BY <1>3, <1>4, <1>6 DEF AlignmentHolds
<1>8. PICK X \in SUBSET {p \in restB \X restA : same(p[1], p[2])} :
        /\ \A p, q \in X : p[1] = q[1] <=> p[2] = q[2]
        /\ {i \in restB : Role(i) \in Boundary} \subseteq {p[1] : p \in X}
        /\ {i \in restA : Role(i) \in Boundary} \subseteq {p[2] : p \in X}
  BY <1>5 DEF AgreesOn, Role, Trace, Rows
<1>9. X \in SUBSET {p \in restB \X restA : Alike(p[1], p[2], Trace, MB, Trace, MA)}
  BY <1>6, <1>8
<1>10. /\ \A i \in restB : RoleBy(MB, Trace, i) = Role(i)
       /\ \A i \in restA : RoleBy(MA, Trace, i) = Role(i)
  BY <1>1, RoleByTrace DEF Circuits
<1>11. /\ {i \in restB : RoleBy(MB, Trace, i) \in Boundary} \subseteq {p[1] : p \in X}
       /\ {i \in restA : RoleBy(MA, Trace, i) \in Boundary} \subseteq {p[2] : p \in X}
  BY <1>8, <1>10
<1>12. QED
  BY <1>7, <1>8, <1>9, <1>11 DEF PlainRelated

-----------------------------------------------------------------------------
\* The interface encoding.

\* Multiplicities that the analysis takes for constant are those of the trace.
LEMMA ActiveMultIsTrue ==
  ASSUME scene \in Scenes, TracesExecute, NEW c \in Circuits, NEW i \in Rows(c)
  PROVE  ActiveMult(i) \subseteq {Trace.mult[i]}
<1>1. i \in Ids /\ Side(i) = c /\ ColumnsFit(Facts[i], Trace, i)
  BY TraceOfRow
<1>2. scene.active /\ Facts[i].mult = "sym" /\ Side(i) = "after" =>
        /\ Facts[i].kind = "recv" => Trace.mult[i] = -1
        /\ Facts[i].kind = "send" => Trace.mult[i] = 1
  BY <1>1 DEF TracesExecute, Trace, Facts, Ids, Side
<1>3. QED
  BY <1>1, <1>2 DEF ActiveMult, ConstMult, ColumnsFit

LEMMA InterfaceHoldsInTrace ==
  ASSUME EncInv, TracesExecute, InterfaceEncodes, NEW c \in Circuits
  PROVE  InterfaceHolds(c, Trace)
<1>1. scene \in Scenes /\ TraceFits
  BY DEF EncInv, Inv
<1>2. ASSUME NEW p \in InternalPairs(c)
      PROVE  Args(Trace, p[1]) = Args(Trace, p[2])
  <2> DEFINE i == p[1]
  <2>1. i \in Rows(c) /\ p[2] \in Rows(c) /\ Facts[i].removed /\ Mates(i) = {p[2]}
    BY DEF InternalPairs, Legs, Removed
  <2>2. i \in Ids /\ Trace.partner[i] \in matches[i]
    BY <1>1, <2>1, TraceOfRow DEF TraceFits
  <2>3. Role(i) \notin Boundary
    BY <1>1, <2>1, <2>2 DEF TracesExecute, Role, Trace, Facts, Ids
  <2>4. Trace.mult[i] # 0
    <3>1. {ActiveMult(p[1]), ActiveMult(p[2])} = {{-1}, {1}}
      BY <1>2 DEF InterfaceEncodes
    <3>2. ActiveMult(i) = {-1} \/ ActiveMult(i) = {1}
      BY <3>1
    <3>3. QED
      BY <1>1, <2>1, <3>2, ActiveMultIsTrue
  <2>5. Trace.partner[i] # i
    BY <2>3, <2>4 DEF Role, RoleIn, Boundary
  <2>6. Trace.partner[i] = p[2]
    BY <2>1, <2>2, <2>5 DEF Mates
  <2>7. QED
    BY <1>1, <2>2, <2>5, <2>6, PartnersCancel
<1>3. ASSUME NEW i \in Rows(c), Trace.mult[i] = 1
      PROVE  Trace.data[i] \in Bytes
  <2>1. Executes(Trace, Rows(c))
    BY <1>1, TraceOfRow
  <2>2. QED
    BY <1>3, <2>1 DEF Executes
<1>4. QED
  BY <1>2, <1>3 DEF InterfaceHolds

LEMMA InterfaceRelatedInTrace ==
  ASSUME AgreesOn(scene, Alignment)
  PROVE  InterfaceRelated(Trace, Trace)
BY DEF AgreesOn, InterfaceRelated, Kept, Trace

-----------------------------------------------------------------------------
LEMMA AdmittedByEncoding ==
  ASSUME EncInv, TracesExecute, mode # "array"
  PROVE  TraceAdmitted
<1>1. mode = "plain" =>
        /\ \A c \in Circuits : /\ TraceMatching(c) \in Matchings(c)
                               /\ PlainHolds(c, Trace, TraceMatching(c))
        /\ AgreesOn(scene, BeforeToAfter(scene)) =>
             PlainRelated(Trace, TraceMatching("before"), Trace, TraceMatching("after"))
  BY TraceIsMatching, PlainHoldsInTrace, PlainRelatedInTrace
<1>2. mode = "interface" =>
        /\ \A c \in Circuits : InterfaceHolds(c, Trace)
        /\ AgreesOn(scene, Alignment) => InterfaceRelated(Trace, Trace)
  BY InterfaceHoldsInTrace, InterfaceRelatedInTrace DEF EncInv
<1>3. QED
  BY <1>1, <1>2 DEF TraceAdmitted

\* The conditions of the interface encoding depend on the analysis only.
LEMMA SameEncodes == UNCHANGED vars /\ InterfaceEncodes => InterfaceEncodes'
<1> SUFFICES ASSUME UNCHANGED vars, InterfaceEncodes PROVE InterfaceEncodes'
  OBVIOUS
<1>1. scene' = scene /\ status' = status /\ matches' = matches
  BY DEF vars
<1>2. Facts' = Facts /\ Ids' = Ids /\ Kept' = Kept /\ Alignment' = Alignment
  BY <1>1 DEF Facts, Ids, Kept, Alignment
<1>3. \A i : ActiveMult(i)' = ActiveMult(i)
  BY <1>1, <1>2 DEF ActiveMult, ConstMult, Side
<1>4. \A c : InternalPairs(c)' = InternalPairs(c)
  <2>1. \A c : Legs(c)' = Legs(c)
    BY <1>1, <1>2 DEF Legs, Removed, Rows
  <2>2. \A i : Mates(i)' = Mates(i)
    BY <1>1 DEF Mates
  <2>3. QED
    BY <2>1, <2>2 DEF InternalPairs
<1>5. MultsConst' <=> MultsConst
  BY <1>2, <1>3 DEF MultsConst
<1>6. \A b : Agree(b)' <=> Agree(b)
  BY <1>2, <1>3 DEF Agree
<1>7. QED
  BY <1>1, <1>2, <1>3, <1>4, <1>5, <1>6 DEF InterfaceEncodes

LEMMA EncInitInv == EncInit => EncInv
BY InitFits DEF EncInit, EncInv

LEMMA EncStepInv == EncInv /\ ScenesAllow /\ [EncNext]_encVars => EncInv'
<1> SUFFICES ASSUME EncInv, ScenesAllow, [EncNext]_encVars PROVE EncInv'
  OBVIOUS
<1>1. CASE Analyse
  <2>1. Inv'
    BY <1>1, StepFits DEF Analyse, EncInv
  <2>2. mode' = mode /\ mode = "open"
    BY <1>1 DEF Analyse
  <2>3. QED
    BY <2>1, <2>2 DEF EncInv
<1>2. ASSUME NEW requested \in {"auto", "plain", "interface"}, Resolve(requested)
      PROVE  EncInv'
  <2>1. UNCHANGED vars
    BY <1>2 DEF Resolve
  <2>2. Inv'
    BY <2>1, StepFits DEF EncInv
  <2>3. mode' = "interface" => InterfaceEncodes
    BY <1>2 DEF Resolve
  <2>4. InterfaceEncodes => InterfaceEncodes'
    BY <2>1, SameEncodes
  <2>5. QED
    BY <2>2, <2>3, <2>4 DEF EncInv
<1>3. CASE UNCHANGED encVars
  <2>1. UNCHANGED vars /\ mode' = mode
    BY <1>3 DEF encVars
  <2>2. Inv'
    BY <2>1, StepFits DEF EncInv
  <2>3. InterfaceEncodes => InterfaceEncodes'
    BY <2>1, SameEncodes
  <2>4. QED
    BY <2>1, <2>2, <2>3 DEF EncInv
<1>4. QED
  BY <1>1, <1>2, <1>3 DEF EncNext

\* For all scenes of which the assumptions are true, whichever encoding with an
\* analysis is chosen: the formulas and the relation between them admit what
\* really happens, so the premise of the check is never unsatisfiable.
THEOREM TraceIsAdmitted ==
  ScenesAllow /\ TracesExecute /\ EncSpec => [](mode # "array" => TraceAdmitted)
<1>1. EncInit => EncInv
  BY EncInitInv
<1>2. EncInv /\ ScenesAllow /\ [EncNext]_encVars => EncInv'
  BY EncStepInv
<1>3. EncInv /\ TracesExecute => (mode # "array" => TraceAdmitted)
  BY AdmittedByEncoding
<1>4. ScenesAllow /\ TracesExecute => (ScenesAllow /\ TracesExecute)'
  BY DEF ScenesAllow, KeysNameOneCell, PositionsCorrespond, TracesExecute
<1>5. QED
  BY <1>1, <1>2, <1>3, <1>4, PTL DEF EncSpec

-----------------------------------------------------------------------------
\* Counting.  What circuits exchange with memory is compared without sums: by
\* pairing off what is counted.

\* The library's induction principles take an operator, this one a set.
LEMMA LeastNumber ==
  ASSUME NEW T, T \subseteq Nat, T # {}
  PROVE  \E n \in T : \A m \in T : n <= m
<1>1. IsWellFoundedOn(OpToRel(<, Nat), Nat)
  BY NatLessThanWellFounded
<1>2. PICK n \in T : \A m \in T : ~(<<m, n>> \in OpToRel(<, Nat))
  BY <1>1, WFMin
<1>3. ASSUME NEW m \in T PROVE n <= m
  <2>1. ~(m < n)
    BY <1>2 DEF OpToRel
  <2>2. QED
    BY <2>1
<1>4. QED
  BY <1>3

\* Sets of which a relation pairs off the members are equally large.
LEMMA Counterparts ==
  ASSUME NEW S, NEW T, IsFiniteSet(S), NEW R,
         \A s \in S : \E t \in T : <<s, t>> \in R,
         \A t \in T : \E s \in S : <<s, t>> \in R,
         \A p, q \in R : p[1] = q[1] <=> p[2] = q[2]
  PROVE  IsFiniteSet(T) /\ Cardinality(S) = Cardinality(T)
<1> DEFINE f == [s \in S |-> CHOOSE t \in T : <<s, t>> \in R]
<1>1. \A s \in S : f[s] \in T /\ <<s, f[s]>> \in R
  OBVIOUS
<1>2. \A t \in T : \E s \in S : f[s] = t
  <2>1. SUFFICES ASSUME NEW t \in T PROVE \E s \in S : f[s] = t
    OBVIOUS
  <2>2. PICK s \in S : <<s, t>> \in R
    OBVIOUS
  <2>3. <<s, f[s]>> \in R
    BY <1>1
  <2>4. <<s, t>>[2] = <<s, f[s]>>[2]
    BY <2>2, <2>3
  <2>5. QED
    BY <2>4
<1>3. \A r, s \in S : f[r] = f[s] => r = s
  <2>1. SUFFICES ASSUME NEW r \in S, NEW s \in S, f[r] = f[s] PROVE r = s
    OBVIOUS
  <2>2. <<r, f[r]>> \in R /\ <<s, f[s]>> \in R
    BY <1>1
  <2>3. <<r, f[r]>>[1] = <<s, f[s]>>[1]
    BY <2>1, <2>2
  <2>4. QED
    BY <2>3
<1>4. f \in Bijection(S, T)
  <2>1. f \in [S -> T]
    BY <1>1
  <2> HIDE DEF f
  <2>2. QED
    BY <1>2, <1>3, <2>1 DEF Bijection, Injection, IsInjective, Surjection
<1>5. QED
  BY <1>4, FS_Bijection DEF ExistsBijection

\* The interactions of a circuit are finitely many, each with a row of its own.
LEMMA RowsAreFinite ==
  ASSUME scene \in Scenes, NEW c \in Circuits
  PROVE  /\ IsFiniteSet(Rows(c)) /\ Len(scene.rows[c]) \in Nat
         /\ \A i \in Rows(c) : /\ Side(i) = c /\ Row(i) \in 1..Len(scene.rows[c])
                               /\ scene.rows[c][Row(i)] = i
<1> DEFINE n == Len(scene.rows[c])
           f == [k \in 1..n |-> scene.rows[c][k]]
<1>1. /\ scene.rows[c] \in Seq(Ids)
      /\ Rows(c) = {i \in Ids : Side(i) = c}
  BY SceneTruthful DEF Truthful, Ids, Facts, Side, Rows
<1>2. n \in Nat
  BY <1>1
<1>3. f \in Surjection(1..n, Rows(c))
  BY DEF Surjection, Rows, ById
<1>4. IsFiniteSet(1..n)
  BY <1>2, FS_Interval
<1>5. IsFiniteSet(Rows(c))
  BY <1>3, <1>4, FS_Surjection
<1>6. ASSUME NEW i \in Rows(c)
      PROVE  Side(i) = c /\ Row(i) \in 1..n /\ scene.rows[c][Row(i)] = i
  <2>1. Side(i) = c
    BY <1>1
  <2>2. \E k \in 1..n : scene.rows[c][k] = i
    BY DEF Rows, ById
  <2>3. QED
    BY <2>1, <2>2 DEF Row
<1>7. QED
  BY <1>2, <1>5, <1>6

\* Interactions that cancel: each has a mate of the same message that undoes it.
Cancels(w, C, mate) ==
  /\ mate \in [C -> C]
  /\ \A i \in C : /\ mate[mate[i]] = i /\ Args(w, mate[i]) = Args(w, i)
                  /\ w.mult[i] = 1 => w.mult[mate[i]] = -1
                  /\ w.mult[i] = -1 => w.mult[mate[i]] = 1

\* What cancels does not count.
LEMMA NetOfRest ==
  ASSUME scene \in Scenes, NEW c \in Circuits, NEW w, NEW x,
         NEW C \in SUBSET Rows(c), NEW mate, Cancels(w, C, mate)
  PROVE  Net(c, w, x) = Cardinality(Carrying(c, w, x, 1) \ C)
                        - Cardinality(Carrying(c, w, x, -1) \ C)
<1> DEFINE S == Carrying(c, w, x, 1)
           T == Carrying(c, w, x, -1)
           R == {<<i, mate[i]>> : i \in C}
<1>1. IsFiniteSet(S) /\ IsFiniteSet(T)
  BY RowsAreFinite, FS_Subset DEF Carrying
<1>2. IsFiniteSet(S \cap C) /\ IsFiniteSet(T \cap C)
  BY <1>1, FS_Intersection
<1>3. ASSUME NEW s \in S \cap C PROVE \E t \in T \cap C : <<s, t>> \in R
  BY DEF Cancels, Carrying
<1>4. ASSUME NEW t \in T \cap C PROVE \E s \in S \cap C : <<s, t>> \in R
  <2>1. mate[t] \in S \cap C /\ mate[mate[t]] = t
    BY DEF Cancels, Carrying
  <2>2. QED
    BY <2>1
<1>5. \A p, q \in R : p[1] = q[1] <=> p[2] = q[2]
  BY DEF Cancels
<1>6. Cardinality(S \cap C) = Cardinality(T \cap C)
  <2> HIDE DEF S, T, R
  <2>1. QED
    BY <1>2, <1>3, <1>4, <1>5, Counterparts
<1>7. /\ Cardinality(S \ C) = Cardinality(S) - Cardinality(S \cap C)
      /\ Cardinality(T \ C) = Cardinality(T) - Cardinality(T \cap C)
  BY <1>1, FS_Difference
<1>8. /\ Cardinality(S) \in Nat /\ Cardinality(T) \in Nat
      /\ Cardinality(S \cap C) \in Nat /\ Cardinality(T \cap C) \in Nat
  BY <1>1, <1>2, FS_CardinalityType
<1> HIDE DEF S, T
<1>9. Cardinality(S) - Cardinality(T) = Cardinality(S \ C) - Cardinality(T \ C)
  BY <1>6, <1>7, <1>8
<1>10. QED
  BY <1>9 DEF Net, S, T

\* What is left of both circuits has counterparts of one message and multiplicity.
PairsOff(wb, B, wa, A, R) ==
  LET restB == Rows("before") \ B
      restA == Rows("after") \ A
      same(i, j) == <<i, j>> \in R /\ wb.mult[i] = wa.mult[j] /\ Args(wb, i) = Args(wa, j)
  IN  /\ \A i \in restB : wb.mult[i] \in {-1, 1} => \E j \in restA : same(i, j)
      /\ \A j \in restA : wa.mult[j] \in {-1, 1} => \E i \in restB : same(i, j)
      /\ \A p, q \in R : p[1] = q[1] <=> p[2] = q[2]

\* Circuits are on balance the same when what does not cancel pairs off.
LEMMA SameNet ==
  ASSUME scene \in Scenes, NEW wb, NEW wa, NEW x, NEW R,
         NEW B \in SUBSET Rows("before"), NEW mateB, Cancels(wb, B, mateB),
         NEW A \in SUBSET Rows("after"), NEW mateA, Cancels(wa, A, mateA),
         PairsOff(wb, B, wa, A, R)
  PROVE  Net("before", wb, x) = Net("after", wa, x)
<1>1. ASSUME NEW m \in {-1, 1}
      PROVE  Cardinality(Carrying("before", wb, x, m) \ B)
               = Cardinality(Carrying("after", wa, x, m) \ A)
  <2> DEFINE S == Carrying("before", wb, x, m) \ B
             T == Carrying("after", wa, x, m) \ A
  <2>1. IsFiniteSet(S)
    BY RowsAreFinite, FS_Subset DEF Carrying, Circuits
  <2>2. \A s \in S : \E t \in T : <<s, t>> \in R
    BY DEF Carrying, PairsOff
  <2>3. \A t \in T : \E s \in S : <<s, t>> \in R
    BY DEF Carrying, PairsOff
  <2> HIDE DEF S, T
  <2>4. Cardinality(S) = Cardinality(T)
    BY <2>1, <2>2, <2>3, Counterparts DEF PairsOff
  <2>5. QED
    BY <2>4 DEF S, T
<1>2. /\ Net("before", wb, x) = Cardinality(Carrying("before", wb, x, 1) \ B)
                                 - Cardinality(Carrying("before", wb, x, -1) \ B)
      /\ Net("after", wa, x) = Cardinality(Carrying("after", wa, x, 1) \ A)
                                - Cardinality(Carrying("after", wa, x, -1) \ A)
  BY NetOfRest DEF Circuits
<1>3. QED
  BY <1>1, <1>2

\* A message that no interaction carries is not exchanged.
LEMMA SameTraffic ==
  ASSUME scene \in Scenes, NEW wb, NEW wa,
         \A s, p, d, t : Net("before", wb, <<s, p, d, t>>) = Net("after", wa, <<s, p, d, t>>)
  PROVE  Traffic("before", wb) = Traffic("after", wa)
<1>1. ASSUME NEW c \in Circuits, NEW w, NEW x, x \notin {Args(w, i) : i \in Rows(c)}
      PROVE  Net(c, w, x) = 0
  <2>1. Carrying(c, w, x, 1) = {} /\ Carrying(c, w, x, -1) = {}
    BY <1>1 DEF Carrying
  <2>2. QED
    BY <2>1, FS_EmptySet DEF Net
<1>2. ASSUME NEW c \in Circuits, NEW w, NEW i \in Rows(c)
      PROVE  \E s, p, d, t : Args(w, i) = <<s, p, d, t>>
  BY DEF Args
<1>3. ASSUME NEW x PROVE x \in {Args(wb, i) : i \in Rows("before")} \cup {Args(wa, i) : i \in Rows("after")}
                         => Net("before", wb, x) = Net("after", wa, x)
  BY <1>2 DEF Circuits
<1>4. ASSUME NEW m PROVE m \in Traffic("before", wb) <=> m \in Traffic("after", wa)
  <2>1. m \in Traffic("before", wb) => m \in Traffic("after", wa)
    <3>1. SUFFICES ASSUME NEW x \in {Args(wb, i) : i \in Rows("before")},
                          m = <<x, Net("before", wb, x)>>, Net("before", wb, x) # 0
                   PROVE  m \in Traffic("after", wa)
      BY DEF Traffic
    <3>2. Net("after", wa, x) = Net("before", wb, x)
      BY <1>3
    <3>3. x \in {Args(wa, i) : i \in Rows("after")}
      BY <1>1, <3>1, <3>2 DEF Circuits
    <3>4. QED
      BY <3>1, <3>2, <3>3 DEF Traffic
  <2>2. m \in Traffic("after", wa) => m \in Traffic("before", wb)
    <3>1. SUFFICES ASSUME NEW x \in {Args(wa, i) : i \in Rows("after")},
                          m = <<x, Net("after", wa, x)>>, Net("after", wa, x) # 0
                   PROVE  m \in Traffic("before", wb)
      BY DEF Traffic
    <3>2. Net("after", wa, x) = Net("before", wb, x)
      BY <1>3
    <3>3. x \in {Args(wb, i) : i \in Rows("before")}
      BY <1>1, <3>1, <3>2 DEF Circuits
    <3>4. QED
      BY <3>1, <3>2, <3>3 DEF Traffic
  <2>3. QED
    BY <2>1, <2>2
<1>5. QED
  BY <1>4

-----------------------------------------------------------------------------
\* Related circuits exchange the same traffic.

\* The plain encoding: matched interactions cancel, inputs and outputs have
\* counterparts of the same flags.
LEMMA MatchedCancel ==
  ASSUME scene \in Scenes, BothEnds, NEW c \in Circuits, NEW w, NEW M \in Matchings(c),
         PlainHolds(c, w, M)
  PROVE  \E mate : Cancels(w, {i \in Rows(c) : <<i, i>> \notin M}, mate)
<1> DEFINE C == {i \in Rows(c) : <<i, i>> \notin M}
           mate == [i \in C |-> CHOOSE j : j \in matches[i] /\ MatchedIn(M, i) = {j}]
<1>1. M \subseteq Pairs(c) /\ \A p \in M : Preset(p[1], p[2]) # "no"
  BY DEF Matchings
<1>2. \A p \in M : p = <<p[1], p[2]>> /\ p[1] \in Rows(c) /\ p[2] \in Rows(c) /\ p[2] \in matches[p[1]]
  BY <1>1 DEF Pairs, Preset
<1>3. ASSUME NEW i \in C
      PROVE  mate[i] \in matches[i] /\ MatchedIn(M, i) = {mate[i]}
  BY DEF Matchings, MatchedOnce
<1>4. ASSUME NEW i \in C
      PROVE  /\ mate[i] \in C /\ mate[mate[i]] = i /\ mate[i] # i
             /\ <<i, mate[i]>> \in M \/ <<mate[i], i>> \in M
  <2> DEFINE j == mate[i]
  <2>1. j \in matches[i] /\ MatchedIn(M, i) = {j}
    BY <1>3
  <2> HIDE DEF mate
  <2>2. <<i, j>> \in M \/ <<j, i>> \in M
    BY <2>1 DEF MatchedIn
  <2>3. j # i /\ j \in Rows(c)
    <3>1. <<i, j>> \in M => j \in Rows(c)
      BY <1>2
    <3>2. <<j, i>> \in M => j \in Rows(c)
      BY <1>2
    <3>3. QED
      BY <2>2, <3>1, <3>2
  <2>4. i \in matches[j]
    <3>1. <<i, j>> \in M => i \in matches[j]
      BY <1>1 DEF BothEnds
    <3>2. <<j, i>> \in M => i \in matches[j]
      BY <1>2
    <3>3. QED
      BY <2>2, <3>1, <3>2
  <2>5. i \in MatchedIn(M, j)
    BY <2>2, <2>4 DEF MatchedIn
  <2>6. PICK k \in matches[j] : MatchedIn(M, j) = {k}
    BY <2>3 DEF Matchings, MatchedOnce
  <2>7. k = i
    BY <2>5, <2>6
  <2>8. <<j, j>> \notin M
    <3>1. SUFFICES ASSUME <<j, j>> \in M PROVE FALSE
      OBVIOUS
    <3>2. j \in matches[j]
      BY <1>2, <3>1
    <3>3. j \in MatchedIn(M, j)
      BY <3>1, <3>2 DEF MatchedIn
    <3>4. QED
      BY <2>3, <2>6, <2>7, <3>3
  <2>9. j \in C
    BY <2>3, <2>8
  <2>10. MatchedIn(M, j) = {mate[j]}
    BY <1>3, <2>9
  <2>11. mate[j] = i
    BY <2>5, <2>10
  <2>12. QED
    BY <2>2, <2>3, <2>9, <2>11
<1>5. ASSUME NEW i \in C
      PROVE  /\ w.mult[i] + w.mult[mate[i]] = 0 /\ Args(w, mate[i]) = Args(w, i)
             /\ w.mult[i] \in {-1, 0, 1} /\ w.mult[mate[i]] \in {-1, 0, 1}
  <2> DEFINE j == mate[i]
  <2>1. PairsCancel(c, w, M)
    BY DEF PlainHolds
  <2>2. j \in C /\ j # i /\ (<<i, j>> \in M \/ <<j, i>> \in M)
    BY <1>4
  <2> HIDE DEF mate
  <2>3. w.mult[i] \in {-1, 0, 1} /\ w.mult[j] \in {-1, 0, 1}
    BY <2>1, <2>2 DEF PairsCancel
  <2>4. CASE <<i, j>> \in M
    <3>1. w.mult[<<i, j>>[1]] + w.mult[<<i, j>>[2]] = 0 /\ Args(w, <<i, j>>[1]) = Args(w, <<i, j>>[2])
      BY <2>1, <2>2, <2>4 DEF PairsCancel
    <3>2. QED
      BY <2>3, <3>1
  <2>5. CASE <<j, i>> \in M
    <3>1. w.mult[<<j, i>>[1]] + w.mult[<<j, i>>[2]] = 0 /\ Args(w, <<j, i>>[1]) = Args(w, <<j, i>>[2])
      BY <2>1, <2>2, <2>5 DEF PairsCancel
    <3>2. QED
      BY <2>3, <3>1
  <2>6. QED
    BY <2>2, <2>4, <2>5
<1>6. mate \in [C -> C]
  BY <1>4
<1> HIDE DEF mate
<1>7. ASSUME NEW i \in C
      PROVE  /\ w.mult[i] = 1 => w.mult[mate[i]] = -1
             /\ w.mult[i] = -1 => w.mult[mate[i]] = 1
  BY <1>5
<1>8. Cancels(w, C, mate)
  BY <1>4, <1>5, <1>6, <1>7 DEF Cancels
<1>9. QED
  BY <1>8

\* Alike inputs and outputs have one multiplicity.
LEMMA AlikeRoles ==
  ASSUME NEW b, NEW a, NEW wb, NEW Mb, NEW wa, NEW Ma, Alike(b, a, wb, Mb, wa, Ma),
         wb.mult[b] \in {-1, 0, 1}, wa.mult[a] \in {-1, 0, 1}
  PROVE  /\ <<b, b>> \in Mb /\ wb.mult[b] # 0 => <<a, a>> \in Ma /\ wa.mult[a] = wb.mult[b]
         /\ <<a, a>> \in Ma /\ wa.mult[a] # 0 => <<b, b>> \in Mb /\ wb.mult[b] = wa.mult[a]
         /\ Args(wb, b) = Args(wa, a)
BY DEF Alike, RoleBy, Boundary

\* Whatever the alignment is, it takes rows to rows.
LEMMA AlignmentType ==
  ASSUME scene \in Scenes, NEW b \in DOMAIN BeforeToAfter(scene)
  PROVE  b \in Rows("before") /\ BeforeToAfter(scene)[b] \in Rows("after")
<1>1. Truthful(scene)
  BY SceneTruthful
<1>2. \A d \in DOMAIN Reported(scene) : d \in Rows("before") /\ Reported(scene)[d] \in Rows("after")
  BY <1>1 DEF Truthful, AlignmentHolds, Reported, Rows, Circuits
<1>3. ASSUME SameCount(scene), NEW d \in Rows("before")
      PROVE  SameRow(scene, d) \in Rows("after")
  <2>1. \E n \in 1..Len(scene.rows["before"]) : scene.rows["before"][n] = d
    BY DEF Rows, ById
  <2>2. QED
    BY <1>3, <2>1 DEF SameRow, SameCount, Rows, ById
<1>4. QED
  BY <1>2, <1>3 DEF BeforeToAfter, Rows

LEMMA PlainTrades ==
  ASSUME scene \in Scenes, BothEnds, NEW wb, NEW Mb \in Matchings("before"), PlainHolds("before", wb, Mb),
         NEW wa, NEW Ma \in Matchings("after"), PlainHolds("after", wa, Ma),
         PlainRelated(wb, Mb, wa, Ma)
  PROVE  Traffic("before", wb) = Traffic("after", wa)
<1> DEFINE to == BeforeToAfter(scene)
           restB == Rows("before") \ DOMAIN to
           restA == Rows("after") \ {to[b] : b \in DOMAIN to}
           B == {i \in Rows("before") : <<i, i>> \notin Mb}
           A == {i \in Rows("after") : <<i, i>> \notin Ma}
<1>1. PICK X \in SUBSET {p \in restB \X restA : Alike(p[1], p[2], wb, Mb, wa, Ma)} :
        /\ \A p, q \in X : p[1] = q[1] <=> p[2] = q[2]
        /\ {i \in restB : RoleBy(Mb, wb, i) \in Boundary} \subseteq {p[1] : p \in X}
        /\ {i \in restA : RoleBy(Ma, wa, i) \in Boundary} \subseteq {p[2] : p \in X}
  BY DEF PlainRelated
<1>2. \A b \in DOMAIN to : Alike(b, to[b], wb, Mb, wa, Ma) /\ \A d \in DOMAIN to \ {b} : to[d] # to[b]
  BY DEF PlainRelated
<1> DEFINE R == X \cup {<<b, to[b]>> : b \in DOMAIN to}
<1>3. \A p \in R : Alike(p[1], p[2], wb, Mb, wa, Ma)
  BY <1>1, <1>2
<1>4. \A p, q \in R : p[1] = q[1] <=> p[2] = q[2]
  BY <1>1, <1>2
<1>5. \A p \in R : p[1] \in Rows("before") /\ p[2] \in Rows("after")
  BY <1>1, AlignmentType
<1>6. PairsCancel("before", wb, Mb) /\ PairsCancel("after", wa, Ma)
  BY DEF PlainHolds
<1>7. ASSUME NEW p \in R
      PROVE  /\ p[1] \in Rows("before") \ B /\ wb.mult[p[1]] # 0
                  => p[2] \in Rows("after") \ A /\ wa.mult[p[2]] = wb.mult[p[1]]
             /\ p[2] \in Rows("after") \ A /\ wa.mult[p[2]] # 0
                  => p[1] \in Rows("before") \ B /\ wb.mult[p[1]] = wa.mult[p[2]]
             /\ Args(wb, p[1]) = Args(wa, p[2])
  <2>1. Alike(p[1], p[2], wb, Mb, wa, Ma) /\ p[1] \in Rows("before") /\ p[2] \in Rows("after")
    BY <1>3, <1>5
  <2>2. wb.mult[p[1]] \in {-1, 0, 1} /\ wa.mult[p[2]] \in {-1, 0, 1}
    BY <1>6, <2>1 DEF PairsCancel
  <2> HIDE DEF R
  <2>3. QED
    BY <2>1, <2>2, AlikeRoles
<1>8. ASSUME NEW i \in Rows("before") \ B, wb.mult[i] \in {-1, 1}
      PROVE  \E j \in Rows("after") \ A : /\ <<i, j>> \in R /\ wa.mult[j] = wb.mult[i]
                                         /\ Args(wa, j) = Args(wb, i)
  <2>1. RoleBy(Mb, wb, i) \in Boundary
    BY <1>8 DEF RoleBy, Boundary
  <2>2. \E j : <<i, j>> \in R
    <3>1. CASE i \in DOMAIN to
      <4>1. <<i, to[i]>> \in R
        BY <3>1
      <4>2. QED
        BY <4>1
    <3>2. CASE i \notin DOMAIN to
      <4>1. i \in {p[1] : p \in X}
        BY <1>1, <2>1, <3>2
      <4>2. PICK p \in X : i = p[1]
        BY <4>1
      <4>3. p = <<i, p[2]>>
        BY <1>1, <4>2
      <4>4. QED
        BY <4>2, <4>3
    <3>3. QED
      BY <3>1, <3>2
  <2>3. PICK j : <<i, j>> \in R
    BY <2>2
  <2> HIDE DEF R
  <2>4. /\ <<i, j>>[1] \in Rows("before") \ B /\ wb.mult[<<i, j>>[1]] # 0
               => <<i, j>>[2] \in Rows("after") \ A /\ wa.mult[<<i, j>>[2]] = wb.mult[<<i, j>>[1]]
        /\ Args(wb, <<i, j>>[1]) = Args(wa, <<i, j>>[2])
    BY <1>7, <2>3
  <2>5. QED
    BY <1>8, <2>3, <2>4
<1>9. ASSUME NEW j \in Rows("after") \ A, wa.mult[j] \in {-1, 1}
      PROVE  \E i \in Rows("before") \ B : /\ <<i, j>> \in R /\ wb.mult[i] = wa.mult[j]
                                          /\ Args(wb, i) = Args(wa, j)
  <2>1. RoleBy(Ma, wa, j) \in Boundary
    BY <1>9 DEF RoleBy, Boundary
  <2>2. \E i : <<i, j>> \in R
    <3>1. CASE \E d \in DOMAIN to : j = to[d]
      <4>1. PICK d \in DOMAIN to : j = to[d]
        BY <3>1
      <4>2. <<d, j>> \in R
        BY <4>1
      <4>3. QED
        BY <4>2
    <3>2. CASE ~ \E d \in DOMAIN to : j = to[d]
      <4>1. j \in {p[2] : p \in X}
        BY <1>1, <2>1, <3>2
      <4>2. PICK p \in X : j = p[2]
        BY <4>1
      <4>3. p = <<p[1], j>>
        BY <1>1, <4>2
      <4>4. QED
        BY <4>2, <4>3
    <3>3. QED
      BY <3>1, <3>2
  <2>3. PICK i : <<i, j>> \in R
    BY <2>2
  <2> HIDE DEF R
  <2>4. /\ <<i, j>>[2] \in Rows("after") \ A /\ wa.mult[<<i, j>>[2]] # 0
               => <<i, j>>[1] \in Rows("before") \ B /\ wb.mult[<<i, j>>[1]] = wa.mult[<<i, j>>[2]]
        /\ Args(wb, <<i, j>>[1]) = Args(wa, <<i, j>>[2])
    BY <1>7, <2>3
  <2>5. QED
    BY <1>9, <2>3, <2>4
<1>10. PICK mateB : Cancels(wb, B, mateB)
  BY MatchedCancel DEF Circuits
<1>11. PICK mateA : Cancels(wa, A, mateA)
  BY MatchedCancel DEF Circuits
<1>12. B \in SUBSET Rows("before") /\ A \in SUBSET Rows("after")
  OBVIOUS
<1> HIDE DEF R, A, B
<1>13. PairsOff(wb, B, wa, A, R)
  BY <1>4, <1>8, <1>9 DEF PairsOff
<1>14. \A x : Net("before", wb, x) = Net("after", wa, x)
  BY <1>10, <1>11, <1>12, <1>13, SameNet
<1>15. QED
  BY <1>14, SameTraffic

\* The interface encoding: internal pairs cancel, kept interactions have the
\* same traffic, and what is removed and not a leg is inert.
LEMMA LegsCancel ==
  ASSUME scene \in Scenes, InterfaceFits, InterfaceEncodes,
         NEW w \in CircuitWorlds("before"), InterfaceHolds("before", w)
  PROVE  \E mate : Cancels(w, Legs("before"), mate)
<1> DEFINE C == Legs("before")
           mate == [i \in C |-> CHOOSE j \in C : Mates(i) = {j} /\ Mates(j) = {i}]
<1>1. ASSUME NEW i \in C
      PROVE  mate[i] \in C /\ Mates(i) = {mate[i]} /\ Mates(mate[i]) = {i}
  BY DEF InterfaceFits, PairsRecovered
<1> HIDE DEF mate
<1>2. ASSUME NEW i \in C PROVE mate[mate[i]] = i
  BY <1>1
<1>3. ASSUME NEW i \in C
      PROVE  /\ Args(w, mate[i]) = Args(w, i)
             /\ w.mult[i] = 1 => w.mult[mate[i]] = -1
             /\ w.mult[i] = -1 => w.mult[mate[i]] = 1
  <2> DEFINE p == <<i, mate[i]>>
  <2>1. p \in InternalPairs("before") /\ p[1] = i /\ p[2] = mate[i]
    BY <1>1 DEF InternalPairs
  <2>2. Args(w, i) = Args(w, mate[i])
    BY <2>1 DEF InterfaceHolds
  <2>3. {ActiveMult(i), ActiveMult(mate[i])} = {{-1}, {1}}
    BY <2>1 DEF InterfaceEncodes, Circuits
  <2>4. i \in Rows("before") /\ mate[i] \in Rows("before")
    BY <1>1 DEF Legs, Removed
  <2>5. /\ w.mult[i] \in ActiveMult(i) \/ ActiveMult(i) = {}
        /\ w.mult[mate[i]] \in ActiveMult(mate[i]) \/ ActiveMult(mate[i]) = {}
    BY <2>4 DEF CircuitWorlds
  <2>6. \/ ActiveMult(i) = {-1} /\ ActiveMult(mate[i]) = {1}
        \/ ActiveMult(i) = {1} /\ ActiveMult(mate[i]) = {-1}
    BY <2>3
  <2>7. QED
    BY <2>2, <2>5, <2>6
<1>4. mate \in [C -> C]
  BY <1>1 DEF mate
<1>5. Cancels(w, C, mate)
  BY <1>2, <1>3, <1>4 DEF Cancels
<1>6. QED
  BY <1>5

LEMMA RestIsInert ==
  ASSUME Inv, WithinFirst, RemovedInPairs, InterfaceFits, NEW w \in CircuitWorlds("before"),
         NEW i \in Rows("before") \ Legs("before"), i \notin Kept
  PROVE  w.mult[i] = 0
<1>1. i \in Removed("before") /\ status[i]["disabled"] = "yes" /\ Facts[i].removed
  BY DEF InterfaceFits, Legs, Removed
<1>2. i \in Ids /\ scene \in Scenes
  BY SceneTruthful DEF Inv, Truthful, Rows, Ids, Facts, Circuits
<1>3. Facts[i].inert
  <2>1. SUFFICES ASSUME ~Facts[i].inert PROVE FALSE
    OBVIOUS
  <2>2. PICK j \in Ids \ {i} : Trace.partner[i] = j
    BY <1>1, <1>2, <2>1 DEF RemovedInPairs, Facts, Ids, Trace
  <2>3. Role(i) = "match"
    BY <1>2, <2>2, TraceShape
  <2>4. status[i]["disabled"] # "yes"
    BY <1>2, <2>3 DEF Inv, TraceFits, Roles
  <2>5. QED
    BY <1>1, <2>4
<1>4. ColumnsFit(Facts[i], w, i)
  BY DEF CircuitWorlds
<1>5. QED
  BY <1>3, <1>4 DEF ColumnsFit

\* The alignment is one to one because both sides are equally many.
LEMMA KeptIsOneToOne ==
  ASSUME scene \in Scenes, InterfaceFits, NEW b \in Kept, NEW d \in Kept, Alignment[b] = Alignment[d]
  PROVE  b = d
<1> DEFINE f == [k \in Kept |-> Alignment[k]]
<1>1. f \in Surjection(Kept, Rows("after"))
  BY DEF Surjection, InterfaceFits, KeptAfter
<1>2. IsFiniteSet(Kept)
  BY RowsAreFinite, FS_Subset DEF InterfaceFits, Circuits
<1>3. f \in Injection(Kept, Rows("after"))
  <2> HIDE DEF f
  <2>1. QED
    BY <1>1, <1>2, FS_Surjection DEF InterfaceFits
<1>4. QED
  BY <1>3 DEF Injection, IsInjective

LEMMA InterfaceTrades ==
  ASSUME Inv, WithinFirst, RemovedInPairs, InterfaceFits, InterfaceEncodes,
         NEW wb \in CircuitWorlds("before"), InterfaceHolds("before", wb),
         NEW wa \in CircuitWorlds("after"), InterfaceRelated(wb, wa)
  PROVE  Traffic("before", wb) = Traffic("after", wa)
<1> DEFINE B == Legs("before")
           A == {}
           mateA == [i \in A |-> i]
           R == {<<b, Alignment[b]>> : b \in Kept}
<1>1. scene \in Scenes
  BY DEF Inv
<1>2. B \in SUBSET Rows("before") /\ A \in SUBSET Rows("after")
  BY DEF Legs, Removed
<1>3. PICK mateB : Cancels(wb, B, mateB)
  BY <1>1, LegsCancel
<1>4. Cancels(wa, A, mateA)
  BY DEF Cancels
<1>5. ASSUME NEW b \in Kept
      PROVE  /\ b \in Rows("before") \ B /\ Alignment[b] \in Rows("after")
             /\ \/ wb.mult[b] = 0 /\ wa.mult[Alignment[b]] = 0
                \/ wb.mult[b] = wa.mult[Alignment[b]] /\ Args(wb, b) = Args(wa, Alignment[b])
  <2> DEFINE a == Alignment[b]
  <2>1. b \in Rows("before") \ B /\ a \in Rows("after")
    BY DEF InterfaceFits, KeptAfter, Legs
  <2>2. CASE ActiveMult(b) = {0} /\ Agree(b)
    <3>1. ActiveMult(b) = {0} /\ ActiveMult(a) = {0}
      BY <2>2 DEF Agree
    <3>2. /\ wb.mult[b] \in ActiveMult(b) \/ ActiveMult(b) = {}
          /\ wa.mult[a] \in ActiveMult(a) \/ ActiveMult(a) = {}
      BY <2>1 DEF CircuitWorlds
    <3>3. QED
      BY <2>1, <3>1, <3>2
  <2>3. CASE wb.mult[b] = wa.mult[a] /\ Args(wb, b) = Args(wa, a)
    BY <2>1, <2>3
  <2>4. QED
    BY <2>2, <2>3 DEF InterfaceRelated
<1>6. PairsOff(wb, B, wa, A, R)
  <2>1. ASSUME NEW i \in Rows("before") \ B, wb.mult[i] \in {-1, 1}
        PROVE  \E j \in Rows("after") \ A : /\ <<i, j>> \in R /\ wb.mult[i] = wa.mult[j]
                                           /\ Args(wb, i) = Args(wa, j)
    <3>1. i \in Kept
      BY <2>1, RestIsInert
    <3>2. QED
      BY <1>5, <2>1, <3>1
  <2>2. ASSUME NEW j \in Rows("after") \ A, wa.mult[j] \in {-1, 1}
        PROVE  \E i \in Rows("before") \ B : /\ <<i, j>> \in R /\ wb.mult[i] = wa.mult[j]
                                            /\ Args(wb, i) = Args(wa, j)
    <3>1. PICK b \in Kept : Alignment[b] = j
      BY DEF InterfaceFits, KeptAfter
    <3>2. QED
      BY <1>5, <2>2, <3>1
  <2>3. \A p, q \in R : p[1] = q[1] <=> p[2] = q[2]
    BY <1>1, KeptIsOneToOne
  <2>4. QED
    BY <2>1, <2>2, <2>3 DEF PairsOff
<1> HIDE DEF A, B, R, mateA
<1>7. \A x : Net("before", wb, x) = Net("after", wa, x)
  BY <1>1, <1>2, <1>3, <1>4, <1>6, SameNet
<1>8. QED
  BY <1>1, <1>7, SameTraffic

\* The array encoding: what one access of a cell leaves is what the next one
\* finds, so the first and the last access account for the whole cell.
LEMMA AccessesHaveEnds ==
  ASSUME scene \in Scenes, NEW c \in Circuits, NEW S \in SUBSET Rows(c), S # {}
  PROVE  (\E i \in S : IsFirst(S, i)) /\ (\E i \in S : IsLast(S, i))
<1> DEFINE n == Len(scene.rows[c])
<1>1. n \in Nat /\ \A i \in S : Row(i) \in 1..n
  BY RowsAreFinite
<1>2. \E i \in S : IsFirst(S, i)
  <2> DEFINE T == {Row(i) : i \in S}
  <2>1. T \subseteq Nat /\ T # {}
    BY <1>1
  <2>2. PICK m \in T : \A k \in T : m <= k
    <3> HIDE DEF T
    <3>1. QED
      BY <2>1, LeastNumber
  <2>3. QED
    BY <2>2 DEF IsFirst
<1>3. \E i \in S : IsLast(S, i)
  <2> DEFINE T == {n - Row(i) : i \in S}
  <2>1. T \subseteq Nat /\ T # {}
    BY <1>1
  <2>2. PICK m \in T : \A k \in T : m <= k
    <3> HIDE DEF T
    <3>1. QED
      BY <2>1, LeastNumber
  <2>3. PICK i \in S : m = n - Row(i)
    BY <2>2
  <2>4. ASSUME NEW j \in S PROVE Row(j) <= Row(i)
    <3>1. n - Row(i) <= n - Row(j)
      BY <2>2, <2>3
    <3>2. n \in Int /\ Row(i) \in Int /\ Row(j) \in Int
      BY <1>1
    <3> HIDE DEF n
    <3>3. QED
      BY <3>1, <3>2
  <2>5. QED
    BY <2>4 DEF IsLast
<1>4. QED
  BY <1>2, <1>3

\* An access that is not the last has a next one, one that is not the first a
\* previous one, and only one each.
LEMMA NextIsOneToOne ==
  ASSUME scene \in Scenes, NEW c \in Circuits, NEW S \in SUBSET Rows(c)
  PROVE  /\ \A i \in S : ~IsLast(S, i) => \E j \in S : NextIn(S, i, j)
         /\ \A j \in S : ~IsFirst(S, j) => \E i \in S : NextIn(S, i, j)
         /\ \A i, j, k, l \in S : NextIn(S, i, j) /\ NextIn(S, k, l) => (i = k <=> j = l)
         /\ \A i, j \in S : NextIn(S, i, j) => ~IsLast(S, i) /\ ~IsFirst(S, j)
         /\ \A i, j \in S : IsFirst(S, i) /\ IsFirst(S, j) => i = j
         /\ \A i, j \in S : IsLast(S, i) /\ IsLast(S, j) => i = j
<1> DEFINE n == Len(scene.rows[c])
<1>1. n \in Nat /\ \A i \in S : Row(i) \in 1..n
  BY RowsAreFinite
<1>2. \A i, j \in S : Row(i) = Row(j) => i = j
  BY RowsAreFinite
<1>3. ASSUME NEW i \in S, ~IsLast(S, i) PROVE \E j \in S : NextIn(S, i, j)
  <2> DEFINE U == {k \in S : Row(i) < Row(k)}
  <2>1. U \in SUBSET Rows(c) /\ U # {}
    BY <1>1, <1>3 DEF IsLast
  <2>2. PICK j \in U : IsFirst(U, j)
    <3> HIDE DEF U
    <3>1. QED
      BY <2>1, AccessesHaveEnds
  <2>3. ASSUME NEW k \in S PROVE Row(k) <= Row(i) \/ Row(j) <= Row(k)
    BY <1>1, <2>2 DEF IsFirst
  <2>4. QED
    BY <2>2, <2>3 DEF NextIn
<1>4. ASSUME NEW j \in S, ~IsFirst(S, j) PROVE \E i \in S : NextIn(S, i, j)
  <2> DEFINE U == {k \in S : Row(k) < Row(j)}
  <2>1. U \in SUBSET Rows(c) /\ U # {}
    BY <1>1, <1>4 DEF IsFirst
  <2>2. PICK i \in U : IsLast(U, i)
    <3> HIDE DEF U
    <3>1. QED
      BY <2>1, AccessesHaveEnds
  <2>3. ASSUME NEW k \in S PROVE Row(k) <= Row(i) \/ Row(j) <= Row(k)
    BY <1>1, <2>2 DEF IsLast
  <2>4. QED
    BY <2>2, <2>3 DEF NextIn
<1>5. ASSUME NEW i \in S, NEW j \in S, NEW k \in S, NEW l \in S, NextIn(S, i, j), NextIn(S, k, l)
      PROVE  i = k <=> j = l
  <2>1. /\ Row(i) < Row(j) /\ Row(k) < Row(l)
        /\ Row(k) <= Row(i) \/ Row(j) <= Row(k)
        /\ Row(l) <= Row(i) \/ Row(j) <= Row(l)
        /\ Row(i) <= Row(k) \/ Row(l) <= Row(i)
        /\ Row(j) <= Row(k) \/ Row(l) <= Row(j)
    BY <1>5 DEF NextIn
  <2>2. i = k => Row(j) = Row(l)
    BY <1>1, <1>5 DEF NextIn
  <2>3. j = l => Row(i) = Row(k)
    BY <1>1, <1>5 DEF NextIn
  <2>4. QED
    BY <1>2, <2>2, <2>3
<1>6. \A i, j \in S : NextIn(S, i, j) => ~IsLast(S, i) /\ ~IsFirst(S, j)
  BY <1>1 DEF NextIn, IsLast, IsFirst
<1>7. \A i, j \in S : IsFirst(S, i) /\ IsFirst(S, j) => i = j
  BY <1>1, <1>2 DEF IsFirst
<1>8. \A i, j \in S : IsLast(S, i) /\ IsLast(S, j) => i = j
  BY <1>1, <1>2 DEF IsLast
<1>9. QED
  BY <1>3, <1>4, <1>5, <1>6, <1>7, <1>8

\* What a circuit exchanges of one message by the accesses of its cell.
Left(w, l, d, t) == IF Leaves(w, l) = <<1, d, t>> THEN 1 ELSE 0
Found(w, f, d, t) == IF Finds(w, f) = <<1, d, t>> THEN 1 ELSE 0

LEMMA NetOfCell ==
  ASSUME scene \in Scenes, NEW c \in Circuits, NEW w, ArrayHolds(c, w),
         NEW s, NEW p, NEW d, NEW t
  PROVE  LET S == Accesses(c, w, <<s, p>>)
         IN  /\ S = {} => Net(c, w, <<s, p, d, t>>) = 0
             /\ \A f, l \in S : IsFirst(S, f) /\ IsLast(S, l)
                  => Net(c, w, <<s, p, d, t>>) = Left(w, l, d, t) - Found(w, f, d, t)
<1> DEFINE S == Accesses(c, w, <<s, p>>)
           Sent == Carrying(c, w, <<s, p, d, t>>, 1)
           Got == Carrying(c, w, <<s, p, d, t>>, -1)
           R == {q \in S \X S : NextIn(S, q[1], q[2])}
<1>1. S \in SUBSET Rows(c) /\ Sent \subseteq S /\ Got \subseteq S
  BY DEF Accesses, Carrying, Args, Cell
<1>2. IsFiniteSet(Sent) /\ IsFiniteSet(Got)
  BY <1>1, RowsAreFinite, FS_Subset
<1>3. ASSUME NEW i \in S
      PROVE  /\ i \in Sent <=> Leaves(w, i) = <<1, d, t>>
             /\ i \in Got <=> Finds(w, i) = <<1, d, t>>
  BY DEF Accesses, Carrying, Args, Cell, Leaves, Finds, Message, Empty
<1>4. ASSUME NEW i \in S, NEW j \in S, NextIn(S, i, j) PROVE Leaves(w, i) = Finds(w, j)
  <2>1. <<s, p>> \in Cells(c, w)
    BY DEF Accesses, Cells
  <2>2. QED
    BY <1>4, <2>1 DEF ArrayHolds
<1> HIDE DEF S, Sent, Got
<1>5. S = {} => Cardinality(Sent) - Cardinality(Got) = 0
  BY <1>1, FS_EmptySet
<1>6. ASSUME NEW f \in S, NEW l \in S, IsFirst(S, f), IsLast(S, l)
      PROVE  Cardinality(Sent) - Cardinality(Got) = Left(w, l, d, t) - Found(w, f, d, t)
  <2>1. \A i \in Sent \ {l} : \E j \in Got \ {f} : <<i, j>> \in R
    <3>1. SUFFICES ASSUME NEW i \in Sent \ {l} PROVE \E j \in Got \ {f} : <<i, j>> \in R
      OBVIOUS
    <3>2. i \in S /\ ~IsLast(S, i)
      BY <1>1, <1>6, NextIsOneToOne
    <3>3. PICK j \in S : NextIn(S, i, j)
      BY <1>1, <3>2, NextIsOneToOne
    <3>4. j # f
      BY <1>1, <1>6, <3>2, <3>3, NextIsOneToOne
    <3>5. j \in Got
      BY <1>3, <1>4, <3>2, <3>3
    <3>6. QED
      BY <3>2, <3>3, <3>4, <3>5
  <2>2. \A j \in Got \ {f} : \E i \in Sent \ {l} : <<i, j>> \in R
    <3>1. SUFFICES ASSUME NEW j \in Got \ {f} PROVE \E i \in Sent \ {l} : <<i, j>> \in R
      OBVIOUS
    <3>2. j \in S /\ ~IsFirst(S, j)
      BY <1>1, <1>6, NextIsOneToOne
    <3>3. PICK i \in S : NextIn(S, i, j)
      BY <1>1, <3>2, NextIsOneToOne
    <3>4. i # l
      BY <1>1, <1>6, <3>2, <3>3, NextIsOneToOne
    <3>5. i \in Sent
      BY <1>3, <1>4, <3>2, <3>3
    <3>6. QED
      BY <3>2, <3>3, <3>4, <3>5
  <2>3. \A q, r \in R : q[1] = r[1] <=> q[2] = r[2]
    <3>1. SUFFICES ASSUME NEW q \in R, NEW r \in R PROVE q[1] = r[1] <=> q[2] = r[2]
      OBVIOUS
    <3>2. /\ q[1] \in S /\ q[2] \in S /\ NextIn(S, q[1], q[2])
          /\ r[1] \in S /\ r[2] \in S /\ NextIn(S, r[1], r[2])
      OBVIOUS
    <3>3. \A a, b, x, y \in S : NextIn(S, a, b) /\ NextIn(S, x, y) => (a = x <=> b = y)
      BY <1>1, NextIsOneToOne
    <3>4. QED
      BY <3>2, <3>3
  <2> HIDE DEF R
  <2>4. IsFiniteSet(Sent \ {l})
    BY <1>2, FS_RemoveElement
  <2>5. Cardinality(Sent \ {l}) = Cardinality(Got \ {f})
    BY <2>1, <2>2, <2>3, <2>4, Counterparts
  <2>6. /\ Cardinality(Sent \ {l}) = Cardinality(Sent) - Left(w, l, d, t)
        /\ Cardinality(Got \ {f}) = Cardinality(Got) - Found(w, f, d, t)
    <3>1. Cardinality(Sent) \in Nat /\ Cardinality(Got) \in Nat
      BY <1>2, FS_CardinalityType
    <3>2. /\ Cardinality(Sent \ {l}) = IF l \in Sent THEN Cardinality(Sent) - 1 ELSE Cardinality(Sent)
          /\ Cardinality(Got \ {f}) = IF f \in Got THEN Cardinality(Got) - 1 ELSE Cardinality(Got)
      BY <1>2, FS_RemoveElement
    <3>3. QED
      BY <1>3, <1>6, <3>1, <3>2 DEF Left, Found
  <2>7. /\ Cardinality(Sent) \in Nat /\ Cardinality(Got) \in Nat
        /\ Left(w, l, d, t) \in {0, 1} /\ Found(w, f, d, t) \in {0, 1}
    BY <1>2, FS_CardinalityType DEF Left, Found
  <2>8. \A a, b, k, m \in Int : a - k = b - m => a - b = k - m
    OBVIOUS
  <2>9. /\ Cardinality(Sent) \in Int /\ Cardinality(Got) \in Int
        /\ Left(w, l, d, t) \in Int /\ Found(w, f, d, t) \in Int
    BY <2>7
  <2>10. Cardinality(Sent) - Left(w, l, d, t) = Cardinality(Got) - Found(w, f, d, t)
    BY <2>5, <2>6
  <2>11. QED
    BY <2>8, <2>9, <2>10
<1>7. Net(c, w, <<s, p, d, t>>) = Cardinality(Sent) - Cardinality(Got)
  BY DEF Net, Sent, Got
<1>8. QED
  BY <1>5, <1>6, <1>7 DEF S

LEMMA ArrayTrades ==
  ASSUME scene \in Scenes, NEW wb, ArrayHolds("before", wb), NEW wa, ArrayHolds("after", wa),
         ArrayRelated(wb, wa)
  PROVE  Traffic("before", wb) = Traffic("after", wa)
<1>1. ASSUME NEW s, NEW p, NEW d, NEW t
      PROVE  Net("before", wb, <<s, p, d, t>>) = Net("after", wa, <<s, p, d, t>>)
  <2> DEFINE x == <<s, p, d, t>>
             Sb == Accesses("before", wb, <<s, p>>)
             Sa == Accesses("after", wa, <<s, p>>)
  <2>1. Sb \in SUBSET Rows("before") /\ Sa \in SUBSET Rows("after")
    BY DEF Accesses
  <2>2. /\ Sb = {} => Net("before", wb, x) = 0
        /\ \A f, l \in Sb : IsFirst(Sb, f) /\ IsLast(Sb, l)
                            => Net("before", wb, x) = Left(wb, l, d, t) - Found(wb, f, d, t)
    BY NetOfCell DEF Circuits
  <2>3. /\ Sa = {} => Net("after", wa, x) = 0
        /\ \A f, l \in Sa : IsFirst(Sa, f) /\ IsLast(Sa, l)
                            => Net("after", wa, x) = Left(wa, l, d, t) - Found(wa, f, d, t)
    BY NetOfCell DEF Circuits
  <2>4. /\ Sb # {} => <<s, p>> \in Cells("before", wb)
        /\ Sa # {} => <<s, p>> \in Cells("after", wa)
    BY DEF Accesses, Cells
  <2>5. IF Sb # {} /\ Sa # {}
        THEN \A b \in Sb, a \in Sa :
               /\ IsFirst(Sb, b) /\ IsFirst(Sa, a) => Finds(wb, b) = Finds(wa, a)
               /\ IsLast(Sb, b) /\ IsLast(Sa, a) => Leaves(wb, b) = Leaves(wa, a)
        ELSE Sb # {} \/ Sa # {} => LeftAsFound(wb, Sb) /\ LeftAsFound(wa, Sa)
    BY <2>4 DEF ArrayRelated
  <2> HIDE DEF Sb, Sa
  <2>6. /\ Sb # {} => (\E f \in Sb : IsFirst(Sb, f)) /\ (\E l \in Sb : IsLast(Sb, l))
        /\ Sa # {} => (\E f \in Sa : IsFirst(Sa, f)) /\ (\E l \in Sa : IsLast(Sa, l))
    BY <2>1, AccessesHaveEnds DEF Circuits
  <2>7. CASE Sb # {} /\ Sa # {}
    <3>1. PICK fb \in Sb, lb \in Sb : IsFirst(Sb, fb) /\ IsLast(Sb, lb)
      BY <2>6, <2>7
    <3>2. PICK fa \in Sa, la \in Sa : IsFirst(Sa, fa) /\ IsLast(Sa, la)
      BY <2>6, <2>7
    <3>3. Finds(wb, fb) = Finds(wa, fa) /\ Leaves(wb, lb) = Leaves(wa, la)
      BY <2>5, <2>7, <3>1, <3>2
    <3>4. QED
      BY <2>2, <2>3, <3>1, <3>2, <3>3 DEF Left, Found
  <2>8. CASE Sb # {} /\ Sa = {}
    <3>1. PICK f \in Sb, l \in Sb : IsFirst(Sb, f) /\ IsLast(Sb, l)
      BY <2>6, <2>8
    <3>2. Finds(wb, f) = Leaves(wb, l)
      BY <2>5, <2>8, <3>1 DEF LeftAsFound
    <3>3. QED
      BY <2>2, <2>3, <2>8, <3>1, <3>2 DEF Left, Found
  <2>9. CASE Sb = {} /\ Sa # {}
    <3>1. PICK f \in Sa, l \in Sa : IsFirst(Sa, f) /\ IsLast(Sa, l)
      BY <2>6, <2>9
    <3>2. Finds(wa, f) = Leaves(wa, l)
      BY <2>5, <2>9, <3>1 DEF LeftAsFound
    <3>3. QED
      BY <2>2, <2>3, <2>9, <3>1, <3>2 DEF Left, Found
  <2>10. CASE Sb = {} /\ Sa = {}
    BY <2>2, <2>3, <2>10
  <2>11. QED
    BY <2>7, <2>8, <2>9, <2>10
<1>2. QED
  BY <1>1, SameTraffic

\* With the interface encoding, the rows of both circuits fit.
FitInv == EncInv /\ WithinFirst /\ (mode = "interface" => InterfaceFits)

LEMMA SameFits == UNCHANGED vars /\ InterfaceFits => InterfaceFits'
<1> SUFFICES ASSUME UNCHANGED vars, InterfaceFits PROVE InterfaceFits'
  OBVIOUS
<1>1. scene' = scene /\ status' = status /\ matches' = matches
  BY DEF vars
<1>2. Alignment' = Alignment /\ Kept' = Kept /\ KeptAfter' = KeptAfter
  BY <1>1 DEF Kept, KeptAfter, Alignment
<1>3. \A c : Rows(c)' = Rows(c) /\ Removed(c)' = Removed(c) /\ Legs(c)' = Legs(c)
  BY <1>1 DEF Rows, Removed, Legs, Facts
<1>4. \A c : PairsRecovered(c)' <=> PairsRecovered(c)
  BY <1>1, <1>3 DEF PairsRecovered, Mates
<1>5. QED
  BY <1>2, <1>3, <1>4 DEF InterfaceFits

LEMMA RelatedTradeAlike == FitInv /\ RemovedInPairs => RelationIsTraffic
<1> SUFFICES ASSUME FitInv, RemovedInPairs PROVE RelationIsTraffic
  OBVIOUS
<1>1. Inv /\ WithinFirst /\ scene \in Scenes
  BY DEF FitInv, EncInv, Inv
<1>2. ASSUME mode = "plain", BothEnds,
             NEW wb, NEW Mb \in Matchings("before"), PlainHolds("before", wb, Mb),
             NEW wa, NEW Ma \in Matchings("after"), PlainHolds("after", wa, Ma),
             Traffic("before", wb) # Traffic("after", wa)
      PROVE  ~PlainRelated(wb, Mb, wa, Ma)
  BY <1>1, <1>2, PlainTrades
<1>3. ASSUME mode = "interface",
             NEW wb \in CircuitWorlds("before"), InterfaceHolds("before", wb),
             NEW wa \in CircuitWorlds("after"), InterfaceHolds("after", wa),
             Traffic("before", wb) # Traffic("after", wa)
      PROVE  ~InterfaceRelated(wb, wa)
  BY <1>1, <1>3, InterfaceTrades DEF FitInv, EncInv
<1>4. ASSUME mode = "array",
             NEW wb, ArrayHolds("before", wb), NEW wa, ArrayHolds("after", wa),
             Traffic("before", wb) # Traffic("after", wa)
      PROVE  ~ArrayRelated(wb, wa)
  BY <1>1, <1>4, ArrayTrades
<1>5. QED
  BY <1>2, <1>3, <1>4 DEF RelationIsTraffic

\* For all scenes, every order of the analysis and every encoding: circuits that
\* the formulas relate exchange the same messages with memory on balance, also
\* in worlds that are no executions.  What was removed has to be inert or in
\* pairs, as the analysis requires when it starts.
THEOREM RelatedCircuitsTradeAlike ==
  ScenesAllow /\ RemovedInPairs /\ EncSpec => []RelationIsTraffic
<1>1. EncInit => FitInv
  BY EncInitInv, InitFits DEF EncInit, Init, Started, WithinFirst, FitInv
<1>2. FitInv /\ ScenesAllow /\ [EncNext]_encVars => FitInv'
  <2> SUFFICES ASSUME FitInv, ScenesAllow, [EncNext]_encVars PROVE FitInv'
    OBVIOUS
  <2>1. EncInv'
    BY EncStepInv DEF FitInv
  <2>2. CASE Analyse
    <3>1. [Next]_vars /\ scene' = scene
      BY <2>2 DEF Analyse, Next, Pop, NextSide, ExchangeFlags, ExchangeMatches, NextDirection
    <3>2. WithinFirst'
      BY <3>1, StepFits, WithinFirstStep DEF FitInv, EncInv, Inv
    <3>3. QED
      BY <2>1, <2>2, <3>2 DEF FitInv, Analyse
  <2>3. CASE UNCHANGED vars /\ (mode' = "interface" => mode = "interface" \/ InterfaceFits)
    <3>1. WithinFirst'
      BY <2>3, StepFits, WithinFirstStep DEF FitInv, EncInv, Inv, vars
    <3>2. InterfaceFits => InterfaceFits'
      BY <2>3, SameFits
    <3>3. QED
      BY <2>1, <2>3, <3>1, <3>2 DEF FitInv
  <2>4. [EncNext]_encVars => Analyse \/ (UNCHANGED vars /\ (mode' = "interface" => mode = "interface" \/ InterfaceFits))
    BY DEF EncNext, Resolve, encVars
  <2>5. QED
    BY <2>2, <2>3, <2>4
<1>3. FitInv /\ RemovedInPairs => RelationIsTraffic
  BY RelatedTradeAlike
<1>4. ScenesAllow /\ RemovedInPairs => (ScenesAllow /\ RemovedInPairs)'
  BY DEF ScenesAllow, KeysNameOneCell, PositionsCorrespond, RemovedInPairs
<1>5. QED
  BY <1>1, <1>2, <1>3, <1>4, PTL DEF EncSpec

\* All that the plain and the array encoding need: the scene is one of those given.
Staged == scene \in Scenes

\* Whatever the analysis left open, the relation of the plain and of the array
\* encoding needs no assumption: it is right also when the alignment is wrong.
THEOREM WrongAlignmentIsHarmless == EncSpec => [](mode # "interface" => RelationIsTraffic)
<1>1. EncInit => Staged
  BY DEF EncInit, Init, Started, Staged
<1>2. Staged /\ [EncNext]_encVars => Staged'
  BY DEF Staged, EncNext, Analyse, Resolve, encVars, vars, Next, Pop, NextSide, ExchangeFlags, ExchangeMatches,
     NextDirection
<1>3. Staged => (mode # "interface" => RelationIsTraffic)
  <2> SUFFICES ASSUME scene \in Scenes, mode # "interface" PROVE RelationIsTraffic
    BY DEF Staged
  <2>1. ASSUME mode = "plain", BothEnds,
               NEW wb, NEW Mb \in Matchings("before"), PlainHolds("before", wb, Mb),
               NEW wa, NEW Ma \in Matchings("after"), PlainHolds("after", wa, Ma),
               Traffic("before", wb) # Traffic("after", wa)
        PROVE  ~PlainRelated(wb, Mb, wa, Ma)
    BY <2>1, PlainTrades
  <2>2. ASSUME mode = "array",
               NEW wb, ArrayHolds("before", wb), NEW wa, ArrayHolds("after", wa),
               Traffic("before", wb) # Traffic("after", wa)
        PROVE  ~ArrayRelated(wb, wa)
    BY <2>2, ArrayTrades
  <2>3. QED
    BY <2>1, <2>2 DEF RelationIsTraffic
<1>4. QED
  BY <1>1, <1>2, <1>3, PTL DEF EncSpec

-----------------------------------------------------------------------------
\* The array encoding admits the trace, if rows are in the order of execution.

\* The accesses of one cell: who is partner of whom, and that the rows replay
\* them in the order of their times.
LEMMA TraceOfCell ==
  ASSUME scene \in Scenes, TracesExecute, TracesReplay, NEW c \in Circuits, NEW cell
  PROVE  LET S == Accesses(c, Trace, cell)
         IN  /\ \A i \in S :
                  /\ i \in Rows(c) /\ Trace.mult[i] \in {-1, 1} /\ Trace.data[i] \in Bytes
                  /\ Trace.time[i] \in Int /\ Row(i) \in Int
                  /\ RoleIn(Trace, i) # "match" => Trace.partner[i] = i
                  /\ RoleIn(Trace, i) = "match" =>
                       LET k == Trace.partner[i]
                       IN  /\ k \in S \ {i} /\ Trace.partner[k] = i /\ Trace.mult[k] = -Trace.mult[i]
                           /\ Message(Trace, i) = Message(Trace, k)
                           /\ Trace.time[i] = Trace.time[k]
             /\ \A i, j \in S : i # j => Row(i) # Row(j)
             /\ \A i, j \in S : Row(i) < Row(j) =>
                  IF Trace.partner[i] = j THEN Trace.mult[i] = 1 ELSE Trace.time[i] < Trace.time[j]
<1> DEFINE S == Accesses(c, Trace, cell)
<1>1. ASSUME NEW i \in S
      PROVE  /\ i \in Rows(c) /\ i \in Ids /\ Trace.mult[i] \in {-1, 1} /\ Trace.data[i] \in Bytes
             /\ Trace.time[i] \in Int /\ Row(i) \in Int
             /\ Row(i) \in 1..Len(scene.rows[c]) /\ scene.rows[c][Row(i)] = i
             /\ Trace.partner[i] \in Rows(c) /\ Trace.partner[Trace.partner[i]] = i
             /\ Cell(Trace, i) = cell
  <2>1. i \in Rows(c) /\ Trace.mult[i] # 0 /\ Cell(Trace, i) = cell
    BY DEF Accesses
  <2>2. /\ Trace.mult[i] \in {-1, 0, 1} /\ Trace.time[i] \in Int /\ i \in Ids
        /\ Trace.partner[i] \in Rows(c) /\ Trace.partner[Trace.partner[i]] = i
        /\ Executes(Trace, Rows(c))
    BY <2>1, TraceOfRow
  <2>3. Trace.data[i] \in Bytes
    BY <2>1, <2>2 DEF Executes
  <2>4. Len(scene.rows[c]) \in Nat /\ Row(i) \in 1..Len(scene.rows[c]) /\ scene.rows[c][Row(i)] = i
    BY <2>1, RowsAreFinite
  <2>5. Row(i) \in Int
    BY <2>4
  <2>6. QED
    BY <2>1, <2>2, <2>3, <2>4, <2>5
<1>2. ASSUME NEW i \in S, RoleIn(Trace, i) = "match"
      PROVE  LET k == Trace.partner[i]
             IN  /\ k \in S \ {i} /\ Trace.mult[k] = -Trace.mult[i]
                 /\ Message(Trace, i) = Message(Trace, k)
                 /\ Trace.time[i] = Trace.time[k]
  <2> DEFINE k == Trace.partner[i]
  <2>1. k # i /\ k \in Rows(c)
    BY <1>1, <1>2 DEF RoleIn
  <2>2. /\ Trace.mult[i] # 0 /\ Trace.mult[k] = -Trace.mult[i] /\ OneCell(Trace, i, k)
        /\ Trace.time[i] = Trace.time[k] /\ Trace.data[i] = Trace.data[k]
    BY <1>1, <2>1, SceneTruthful DEF Truthful, Trace, Facts, IsTrace, Ids
  <2>3. Trace.mult[k] # 0
    BY <1>1, <2>2
  <2>4. Cell(Trace, k) = cell
    BY <1>1, <2>2 DEF Cell, OneCell
  <2>5. QED
    BY <2>1, <2>2, <2>3, <2>4 DEF Accesses, Message
<1>3. ASSUME NEW i \in S, RoleIn(Trace, i) # "match" PROVE Trace.partner[i] = i
  BY <1>3 DEF RoleIn
<1>4. ASSUME NEW i \in S, NEW j \in S, i # j PROVE Row(i) # Row(j)
  BY <1>1, <1>4
<1>5. ASSUME NEW i \in S, NEW j \in S, Row(i) < Row(j)
      PROVE  IF Trace.partner[i] = j THEN Trace.mult[i] = 1 ELSE Trace.time[i] < Trace.time[j]
  <2>1. OneCell(Trace, i, j) /\ Trace.mult[i] # 0 /\ Trace.mult[j] # 0
    BY <1>1 DEF Cell, OneCell
  <2> DEFINE m == Row(i)
             n == Row(j)
  <2>2. m \in 1..Len(scene.rows[c]) /\ n \in 1..Len(scene.rows[c]) /\ m < n
    BY <1>1, <1>5
  <2>3. scene.rows[c][m] = i /\ scene.rows[c][n] = j
    BY <1>1
  <2> HIDE DEF m, n
  <2>4. \A u, v \in 1..Len(scene.rows[c]) :
          LET x == scene.rows[c][u]
              y == scene.rows[c][v]
          IN  u < v /\ Trace.mult[x] # 0 /\ Trace.mult[y] # 0 /\ OneCell(Trace, x, y)
                => IF Trace.partner[x] = y THEN Trace.mult[x] = 1
                   ELSE Trace.time[x] < Trace.time[y]
    BY Zenon DEF TracesReplay, Trace
  <2>5. QED
    BY <2>1, <2>2, <2>3, <2>4
<1> HIDE DEF S
<1>6. QED
  BY <1>1, <1>2, <1>3, <1>4, <1>5 DEF S

\* A cell is read in before and written out after its other accesses, also in
\* the order of the rows.
LEMMA BoundaryRows ==
  ASSUME scene \in Scenes, TracesExecute, TracesReplay, NEW c \in Circuits, NEW cell,
         NEW i \in Accesses(c, Trace, cell), NEW j \in Accesses(c, Trace, cell), i # j
  PROVE  /\ RoleIn(Trace, i) = "input" => Row(i) < Row(j)
         /\ RoleIn(Trace, i) = "output" => Row(j) < Row(i)
<1> DEFINE S == Accesses(c, Trace, cell)
<1>1. /\ Trace.mult[i] \in {-1, 1} /\ Trace.mult[j] \in {-1, 1} /\ Row(i) # Row(j)
      /\ Row(i) \in Int /\ Row(j) \in Int /\ Trace.time[i] \in Int /\ Trace.time[j] \in Int
      /\ i \in Rows(c) /\ j \in Rows(c)
  BY TraceOfCell
<1>2. SameCell(Trace, i, j) /\ SameCell(Trace, j, i)
  BY DEF Accesses, Cell, SameCell
<1>3. RoleIn(Trace, i) # "disabled" /\ RoleIn(Trace, j) # "disabled"
  BY <1>1 DEF RoleIn
<1>4. Executes(Trace, Rows(c))
  BY <1>1, TraceOfRow
<1>5. Trace.time[i] < Trace.time[j] => RoleIn(Trace, i) # "output" /\ RoleIn(Trace, j) # "input"
  BY <1>1, <1>2, <1>3, <1>4 DEF Executes, Before
<1>6. Trace.time[j] < Trace.time[i] => RoleIn(Trace, j) # "output" /\ RoleIn(Trace, i) # "input"
  BY <1>1, <1>2, <1>3, <1>4 DEF Executes, Before
<1>7. ASSUME RoleIn(Trace, i) \in Boundary PROVE Trace.partner[i] # j /\ Trace.partner[j] # i
  <2>1. Trace.partner[i] = i
    BY <1>7, TraceOfCell DEF Boundary
  <2>2. QED
    BY <2>1, TraceOfRow, <1>1
<1>8. CASE Row(i) < Row(j)
  <2>1. RoleIn(Trace, i) = "output" => Trace.time[i] < Trace.time[j]
    BY <1>7, <1>8, TraceOfCell DEF Boundary
  <2>2. QED
    BY <1>5, <1>8, <2>1
<1>9. CASE Row(j) < Row(i)
  <2>1. RoleIn(Trace, i) = "input" => Trace.time[j] < Trace.time[i]
    BY <1>7, <1>9, TraceOfCell DEF Boundary
  <2>2. QED
    BY <1>6, <1>9, <2>1
<1>10. QED
  BY <1>1, <1>8, <1>9

\* What an access leaves is what the next one finds.
LEMMA MessagesPassOn ==
  ASSUME scene \in Scenes, TracesExecute, TracesReplay, NEW c \in Circuits, NEW cell,
         NEW i \in Accesses(c, Trace, cell), NEW j \in Accesses(c, Trace, cell),
         NextIn(Accesses(c, Trace, cell), i, j)
  PROVE  Leaves(Trace, i) = Finds(Trace, j)
<1> DEFINE S == Accesses(c, Trace, cell)
<1>1. /\ Trace.mult[i] \in {-1, 1} /\ Trace.mult[j] \in {-1, 1} /\ Row(i) < Row(j) /\ i # j
      /\ Row(i) \in Int /\ Row(j) \in Int /\ Trace.time[i] \in Int /\ Trace.time[j] \in Int
  <2>1. Row(i) < Row(j)
    BY DEF NextIn
  <2>2. QED
    BY <2>1, TraceOfCell
<1>2. RoleIn(Trace, i) # "output" /\ RoleIn(Trace, j) # "input"
  BY <1>1, BoundaryRows
<1>3. CASE Trace.mult[i] = 1
  <2> DEFINE k == Trace.partner[i]
  <2>1. RoleIn(Trace, i) = "match"
    BY <1>2, <1>3 DEF RoleIn
  <2>2. /\ k \in S \ {i} /\ Trace.partner[k] = i /\ Trace.mult[k] = -1 /\ Row(k) \in Int /\ Row(i) # Row(k)
        /\ Message(Trace, i) = Message(Trace, k) /\ Trace.time[i] = Trace.time[k]
    BY <1>3, <2>1, TraceOfCell
  <2>3. Row(i) < Row(k)
    BY <1>1, <2>2, TraceOfCell
  <2>4. Row(j) <= Row(k)
    BY <1>1, <2>2, <2>3 DEF NextIn
  <2>5. j = k
    <3>1. SUFFICES ASSUME j # k PROVE FALSE
      OBVIOUS
    <3>2. Row(j) < Row(k) /\ Trace.partner[j] # k
      <4>1. Row(j) # Row(k)
        BY <2>2, <3>1, TraceOfCell
      <4>2. Trace.partner[j] = k => Trace.partner[k] = j
        BY TraceOfRow, TraceOfCell
      <4>3. QED
        BY <1>1, <2>2, <2>4, <4>1, <4>2
    <3>3. Trace.time[j] < Trace.time[k]
      BY <2>2, <3>2, TraceOfCell
    <3>4. Trace.time[i] < Trace.time[j]
      BY <1>1, <3>1, TraceOfCell
    <3>5. QED
      BY <1>1, <2>2, <3>3, <3>4
  <2>6. QED
    BY <1>3, <2>2, <2>5 DEF Leaves, Finds
<1>4. CASE Trace.mult[i] = -1
  <2>1. SUFFICES ASSUME Trace.mult[j] = -1 PROVE FALSE
    BY <1>1, <1>4 DEF Leaves, Finds
  <2> DEFINE l == Trace.partner[j]
  <2>2. RoleIn(Trace, j) = "match"
    BY <1>2, <2>1 DEF RoleIn
  <2>3. /\ l \in S \ {j} /\ Trace.partner[l] = j /\ Trace.mult[l] = 1 /\ Row(l) \in Int /\ Row(l) # Row(j)
        /\ Trace.time[j] = Trace.time[l]
    BY <2>1, <2>2, TraceOfCell
  <2>4. ~(Row(j) < Row(l))
    BY <2>1, <2>3, TraceOfCell
  <2>5. Row(l) <= Row(i) /\ l # i
    BY <1>1, <1>4, <2>3, <2>4 DEF NextIn
  <2>6. Row(l) < Row(i)
    BY <1>1, <2>3, <2>5, TraceOfCell
  <2>7. Trace.time[l] < Trace.time[i]
    BY <1>1, <2>3, <2>6, TraceOfCell
  <2>8. Trace.partner[i] # j
    <3>1. Trace.partner[i] = j => Trace.partner[j] = i
      BY TraceOfRow, TraceOfCell
    <3>2. QED
      BY <2>5, <3>1
  <2>9. Trace.time[i] < Trace.time[j]
    BY <1>1, <2>8, TraceOfCell
  <2>10. QED
    BY <1>1, <2>3, <2>7, <2>9
<1>5. QED
  BY <1>1, <1>3, <1>4

\* A cell that is read first was read in, and one that is sent last is written
\* out.
LEMMA EndsAreBoundary ==
  ASSUME scene \in Scenes, TracesExecute, TracesReplay, NEW c \in Circuits, NEW cell,
         NEW i \in Accesses(c, Trace, cell)
  PROVE  /\ IsFirst(Accesses(c, Trace, cell), i) /\ Trace.mult[i] = -1 => RoleIn(Trace, i) = "input"
         /\ IsLast(Accesses(c, Trace, cell), i) /\ Trace.mult[i] = 1 => RoleIn(Trace, i) = "output"
         /\ RoleIn(Trace, i) = "input" => IsFirst(Accesses(c, Trace, cell), i) /\ Trace.mult[i] = -1
         /\ RoleIn(Trace, i) = "output" => IsLast(Accesses(c, Trace, cell), i) /\ Trace.mult[i] = 1
<1> DEFINE S == Accesses(c, Trace, cell)
           k == Trace.partner[i]
<1>1. Trace.mult[i] \in {-1, 1} /\ Row(i) \in Int /\ \A j \in S : Row(j) \in Int
  BY TraceOfCell
<1>2. ASSUME RoleIn(Trace, i) = "match"
      PROVE  /\ k \in S /\ Row(k) \in Int /\ Row(k) # Row(i) /\ Trace.mult[k] = -Trace.mult[i]
             /\ Trace.mult[i] = -1 => Row(k) < Row(i)
             /\ Trace.mult[i] = 1 => Row(i) < Row(k)
  <2>1. /\ k \in S \ {i} /\ Trace.partner[k] = i /\ Trace.mult[k] = -Trace.mult[i] /\ Row(k) \in Int
        /\ Row(k) # Row(i)
    BY <1>2, TraceOfCell
  <2>2. Row(i) < Row(k) => Trace.mult[i] = 1
    BY <2>1, TraceOfCell
  <2>3. Row(k) < Row(i) => Trace.mult[k] = 1
    BY <2>1, TraceOfCell
  <2>4. QED
    BY <1>1, <2>1, <2>2, <2>3
<1>3. RoleIn(Trace, i) # "disabled"
  BY <1>1 DEF RoleIn
<1>4. IsFirst(S, i) /\ Trace.mult[i] = -1 => RoleIn(Trace, i) # "match"
  BY <1>1, <1>2 DEF IsFirst
<1>5. IsLast(S, i) /\ Trace.mult[i] = 1 => RoleIn(Trace, i) # "match"
  BY <1>1, <1>2 DEF IsLast
<1>6. RoleIn(Trace, i) = "input" => IsFirst(S, i) /\ Trace.mult[i] = -1
  <2>1. ASSUME RoleIn(Trace, i) = "input", NEW j \in S PROVE Row(i) <= Row(j)
    BY <1>1, <2>1, BoundaryRows
  <2>2. QED
    BY <2>1 DEF IsFirst, RoleIn
<1>7. RoleIn(Trace, i) = "output" => IsLast(S, i) /\ Trace.mult[i] = 1
  <2>1. ASSUME RoleIn(Trace, i) = "output", NEW j \in S PROVE Row(j) <= Row(i)
    BY <1>1, <2>1, BoundaryRows
  <2>2. RoleIn(Trace, i) = "output" => Trace.mult[i] = 1
    BY <1>1 DEF RoleIn
  <2>3. QED
    BY <2>1, <2>2 DEF IsLast
<1>8. Trace.mult[i] = -1 /\ RoleIn(Trace, i) # "match" => RoleIn(Trace, i) = "input"
  BY DEF RoleIn
<1>9. Trace.mult[i] = 1 /\ RoleIn(Trace, i) # "match" => RoleIn(Trace, i) = "output"
  BY DEF RoleIn
<1>10. QED
  BY <1>4, <1>5, <1>6, <1>7, <1>8, <1>9

\* An input or output of one circuit is one of the other, with the same message.
LEMMA BoundaryIsShared ==
  ASSUME scene \in Scenes, TracesReplay, NEW c \in Circuits, NEW d \in Circuits, c # d, NEW cell,
         NEW i \in Accesses(c, Trace, cell), RoleIn(Trace, i) \in Boundary
  PROVE  \E j \in Accesses(d, Trace, cell) :
           RoleIn(Trace, j) = RoleIn(Trace, i) /\ Message(Trace, j) = Message(Trace, i)
<1> DEFINE same(b, a) == RoleIn(Trace, b) = RoleIn(Trace, a) /\ Args(Trace, b) = Args(Trace, a)
<1>1. PICK X \in SUBSET {p \in Rows("before") \X Rows("after") : same(p[1], p[2])} :
        /\ {k \in Rows("before") : RoleIn(Trace, k) \in Boundary} \subseteq {p[1] : p \in X}
        /\ {k \in Rows("after") : RoleIn(Trace, k) \in Boundary} \subseteq {p[2] : p \in X}
  <2>1. AgreesOn(scene, <<>>)
    BY DEF TracesReplay
  <2>2. \A side : {k \in ById(scene, side) : k \notin DOMAIN <<>> \cup {<<>>[b] : b \in DOMAIN <<>>}} = Rows(side)
    BY DEF Rows
  <2>3. QED
    BY <2>1, <2>2 DEF AgreesOn, Trace
<1>2. i \in Rows(c) /\ Trace.mult[i] # 0 /\ Cell(Trace, i) = cell
  BY DEF Accesses
<1>3. \E j \in Rows(d) : same(i, j) \/ same(j, i)
  <2>1. CASE c = "before"
    <3>1. i \in {p[1] : p \in X}
      BY <1>1, <1>2, <2>1
    <3>2. PICK p \in X : i = p[1]
      BY <3>1
    <3>3. p[2] \in Rows("after") /\ same(p[1], p[2])
      BY <1>1
    <3>4. d = "after"
      BY <2>1 DEF Circuits
    <3>5. QED
      BY <3>2, <3>3, <3>4
  <2>2. CASE c = "after"
    <3>1. i \in {p[2] : p \in X}
      BY <1>1, <1>2, <2>2
    <3>2. PICK p \in X : i = p[2]
      BY <3>1
    <3>3. p[1] \in Rows("before") /\ same(p[1], p[2])
      BY <1>1
    <3>4. d = "before"
      BY <2>2 DEF Circuits
    <3>5. QED
      BY <3>2, <3>3, <3>4
  <2>3. QED
    BY <2>1, <2>2 DEF Circuits
<1>4. PICK j \in Rows(d) : RoleIn(Trace, j) = RoleIn(Trace, i) /\ Args(Trace, j) = Args(Trace, i)
  BY <1>3
<1>5. Trace.mult[j] # 0
  BY <1>4 DEF RoleIn, Boundary
<1>6. Cell(Trace, j) = cell /\ Message(Trace, j) = Message(Trace, i)
  BY <1>2, <1>4 DEF Args, Cell, Message
<1>7. QED
  BY <1>4, <1>5, <1>6 DEF Accesses

LEMMA TraceReplays ==
  ASSUME scene \in Scenes, TracesExecute, TracesReplay, NEW c \in Circuits
  PROVE  ArrayHolds(c, Trace)
<1>1. \A i \in Rows(c) : Trace.mult[i] \in {-1, 0, 1}
  BY TraceOfRow
<1>2. ASSUME NEW cell, NEW i \in Accesses(c, Trace, cell), NEW j \in Accesses(c, Trace, cell),
             NextIn(Accesses(c, Trace, cell), i, j)
      PROVE  Leaves(Trace, i) = Finds(Trace, j)
  BY <1>2, MessagesPassOn
<1>3. ASSUME NEW cell, NEW i \in Accesses(c, Trace, cell) PROVE Trace.data[i] \in Bytes
  BY TraceOfCell
<1>4. QED
  BY <1>1, <1>2, <1>3 DEF ArrayHolds

\* The first access of a cell finds, and the last one leaves, what the other
\* circuit's does, or nothing if the other has none.
LEMMA SummariesAgree ==
  ASSUME scene \in Scenes, TracesExecute, TracesReplay, NEW c \in Circuits, NEW d \in Circuits, c # d,
         NEW cell, NEW i \in Accesses(c, Trace, cell)
  PROVE  LET S == Accesses(d, Trace, cell)
         IN  /\ IsFirst(Accesses(c, Trace, cell), i) /\ Finds(Trace, i) # Empty =>
                  \E j \in S : IsFirst(S, j) /\ Finds(Trace, j) = Finds(Trace, i)
             /\ IsLast(Accesses(c, Trace, cell), i) /\ Leaves(Trace, i) # Empty =>
                  \E j \in S : IsLast(S, j) /\ Leaves(Trace, j) = Leaves(Trace, i)
<1> DEFINE S == Accesses(d, Trace, cell)
<1>1. ASSUME IsFirst(Accesses(c, Trace, cell), i), Finds(Trace, i) # Empty
      PROVE  \E j \in S : IsFirst(S, j) /\ Finds(Trace, j) = Finds(Trace, i)
  <2>1. RoleIn(Trace, i) = "input" /\ Trace.mult[i] = -1
    BY <1>1, EndsAreBoundary DEF Finds
  <2>2. PICK j \in S : RoleIn(Trace, j) = "input" /\ Message(Trace, j) = Message(Trace, i)
    BY <2>1, BoundaryIsShared DEF Boundary
  <2>3. IsFirst(S, j) /\ Trace.mult[j] = -1
    BY <2>2, EndsAreBoundary
  <2>4. QED
    BY <2>1, <2>2, <2>3 DEF Finds
<1>2. ASSUME IsLast(Accesses(c, Trace, cell), i), Leaves(Trace, i) # Empty
      PROVE  \E j \in S : IsLast(S, j) /\ Leaves(Trace, j) = Leaves(Trace, i)
  <2>1. RoleIn(Trace, i) = "output" /\ Trace.mult[i] = 1
    BY <1>2, EndsAreBoundary DEF Leaves
  <2>2. PICK j \in S : RoleIn(Trace, j) = "output" /\ Message(Trace, j) = Message(Trace, i)
    BY <2>1, BoundaryIsShared DEF Boundary
  <2>3. IsLast(S, j) /\ Trace.mult[j] = 1
    BY <2>2, EndsAreBoundary
  <2>4. QED
    BY <2>1, <2>2, <2>3 DEF Leaves
<1>3. QED
  BY <1>1, <1>2

\* A cell has one first and one last access.
LEMMA EndsAreUnique ==
  ASSUME scene \in Scenes, TracesExecute, TracesReplay, NEW c \in Circuits, NEW cell,
         NEW i \in Accesses(c, Trace, cell), NEW j \in Accesses(c, Trace, cell)
  PROVE  /\ IsFirst(Accesses(c, Trace, cell), i) /\ IsFirst(Accesses(c, Trace, cell), j) => i = j
         /\ IsLast(Accesses(c, Trace, cell), i) /\ IsLast(Accesses(c, Trace, cell), j) => i = j
<1>1. Row(i) \in Int /\ Row(j) \in Int /\ (i # j => Row(i) # Row(j))
  BY TraceOfCell
<1>2. QED
  BY <1>1 DEF IsFirst, IsLast

LEMMA TraceRelated ==
  ASSUME scene \in Scenes, TracesExecute, TracesReplay
  PROVE  ArrayRelated(Trace, Trace)
<1>1. ASSUME NEW cell,
             NEW b \in Accesses("before", Trace, cell), NEW a \in Accesses("after", Trace, cell)
      PROVE  /\ IsFirst(Accesses("before", Trace, cell), b) /\ IsFirst(Accesses("after", Trace, cell), a)
                  => Finds(Trace, b) = Finds(Trace, a)
             /\ IsLast(Accesses("before", Trace, cell), b) /\ IsLast(Accesses("after", Trace, cell), a)
                  => Leaves(Trace, b) = Leaves(Trace, a)
  <2>1. "before" \in Circuits /\ "after" \in Circuits
    BY DEF Circuits
  <2>2. ASSUME IsFirst(Accesses("before", Trace, cell), b), IsFirst(Accesses("after", Trace, cell), a)
        PROVE  Finds(Trace, b) = Finds(Trace, a)
    <3>1. Finds(Trace, b) # Empty => Finds(Trace, b) = Finds(Trace, a)
      BY <2>1, <2>2, SummariesAgree, EndsAreUnique
    <3>2. Finds(Trace, a) # Empty => Finds(Trace, b) = Finds(Trace, a)
      BY <2>1, <2>2, SummariesAgree, EndsAreUnique
    <3>3. QED
      BY <3>1, <3>2
  <2>3. ASSUME IsLast(Accesses("before", Trace, cell), b), IsLast(Accesses("after", Trace, cell), a)
        PROVE  Leaves(Trace, b) = Leaves(Trace, a)
    <3>1. Leaves(Trace, b) # Empty => Leaves(Trace, b) = Leaves(Trace, a)
      BY <2>1, <2>3, SummariesAgree, EndsAreUnique
    <3>2. Leaves(Trace, a) # Empty => Leaves(Trace, b) = Leaves(Trace, a)
      BY <2>1, <2>3, SummariesAgree, EndsAreUnique
    <3>3. QED
      BY <3>1, <3>2
  <2>4. QED
    BY <2>2, <2>3
<1>2. ASSUME NEW c \in Circuits, NEW d \in Circuits, c # d, NEW cell, Accesses(d, Trace, cell) = {}
      PROVE  LeftAsFound(Trace, Accesses(c, Trace, cell))
  <2>1. ASSUME NEW i \in Accesses(c, Trace, cell), NEW j \in Accesses(c, Trace, cell),
               IsFirst(Accesses(c, Trace, cell), i), IsLast(Accesses(c, Trace, cell), j)
        PROVE  Finds(Trace, i) = Leaves(Trace, j)
    <3>1. Finds(Trace, i) = Empty
      BY <1>2, <2>1, SummariesAgree
    <3>2. Leaves(Trace, j) = Empty
      BY <1>2, <2>1, SummariesAgree
    <3>3. QED
      BY <3>1, <3>2
  <2>2. QED
    BY <2>1 DEF LeftAsFound
<1>3. \A w : LeftAsFound(w, {})
  BY DEF LeftAsFound
<1>4. QED
  BY <1>1, <1>2, <1>3 DEF ArrayRelated, Circuits

\* The replay on arrays admits what really happens, for rows that are in the
\* order of execution; no analysis is needed and no alignment.
THEOREM ReplayIsAdmitted ==
  TracesExecute /\ TracesReplay /\ EncSpec => [](mode = "array" => TraceAdmitted)
<1>1. EncInit => Staged
  BY DEF EncInit, Init, Started, Staged
<1>2. Staged /\ [EncNext]_encVars => Staged'
  BY DEF Staged, EncNext, Analyse, Resolve, encVars, vars, Next, Pop, NextSide, ExchangeFlags, ExchangeMatches,
     NextDirection
<1>3. Staged /\ TracesExecute /\ TracesReplay => (mode = "array" => TraceAdmitted)
  <2> SUFFICES ASSUME scene \in Scenes, TracesExecute, TracesReplay, mode = "array" PROVE TraceAdmitted
    BY DEF Staged
  <2>1. (\A c \in Circuits : ArrayHolds(c, Trace)) /\ ArrayRelated(Trace, Trace)
    BY TraceReplays, TraceRelated
  <2>2. QED
    BY <2>1 DEF TraceAdmitted
<1>4. TracesExecute /\ TracesReplay => (TracesExecute /\ TracesReplay)'
  BY DEF TracesExecute, TracesReplay
<1>5. QED
  BY <1>1, <1>2, <1>3, <1>4, PTL DEF EncSpec
=============================================================================
