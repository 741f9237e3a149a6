------------------------------ MODULE MembusSolve ------------------------------
(***************************************************************************)
(* membus solve and membus align: from what was extracted of a circuit, who *)
(* is matched with whom on the memory bus, which receives are inputs, and  *)
(* which sends are outputs.  Interactions with one key form a cell.  Where  *)
(* cells may be the same memory (keys over different bases), a claim is     *)
(* forced only if it holds whichever of them coincide.                     *)
(*                                                                         *)
(* Times are relative to the first clock.  A circuit of Dumps also names    *)
(* the column of its entry clock.  Claims: <<"edge", receive, send>>,       *)
(* <<"input", receive, receive>> and <<"output", send, send>>.              *)
(***************************************************************************)
EXTENDS MembusFacts

CONSTANTS
  ClusterCap,   \* largest cluster of cells that is searched
  BaseValues    \* values of the bases of pointers

SlotOf(an, i) == Slot(an.rows[i].ts)
Sends(an) == {i \in DOMAIN an.rows : an.kinds[i] = {"send"}}
Recvs(an) == {i \in DOMAIN an.rows : an.kinds[i] = {"recv"}}
Disabled(an) == {i \in DOMAIN an.rows : an.kinds[i] = {"disabled"}}
ConstOf(e) == IF IsLinear(e) /\ IsNum(Linear(e)) THEN {Linear(e).const} ELSE {}
InSpace(an, sp) == {i \in DOMAIN an.rows : ConstOf(an.rows[i].space) = {sp}}

-----------------------------------------------------------------------------
\* Times.  The clocks of all sends are offsets of one another, or there are
\* none: no offset is taken from gaps that disagree.
SendClocks(an) == UNION {SlotOf(an, i) : i \in Sends(an)}
Agreeing(an, rel) ==
  IF /\ Sends(an) # {} /\ \A i \in Sends(an) : SlotOf(an, i) # {}
     /\ SendClocks(an) \subseteq an.clocks \cap DOMAIN rel /\ Agrees(an.gaps, rel)
  THEN rel ELSE <<>>
SendOffsets(an) == Agreeing(an, Offsets(an.gaps, CHOOSE x \in SendClocks(an) : TRUE))
Dated(an) == an @@ [offsets |-> SendOffsets(an)]

\* When a send happens, and the latest time a receive may have; a receive with
\* several bounds has the least of them.
SendTime(an, i) == {an.offsets[x] + Linear(an.rows[i].ts).const :
                      x \in SlotOf(an, i) \cap DOMAIN an.offsets}
Thresholds(an, i) == {an.offsets[u.fs] + u.by :
                        u \in {v \in an.uppers : v.pv \in SlotOf(an, i) /\ v.fs \in DOMAIN an.offsets}}
TimeOf(an, i) == IF i \in Sends(an) THEN SendTime(an, i)
                 ELSE IF Thresholds(an, i) = {} THEN {} ELSE {Min(Thresholds(an, i))}

-----------------------------------------------------------------------------
\* Keys.  A pointer that is not constant is read through the definition of its
\* low limb; the base is named by the low byte, and the offset is canonical
\* modulo what the definition leaves open (0: nothing).
Unresolved == [base |-> "none", offset |-> 0, mod |-> 0]
Lightest(m, S) == CHOOSE x \in S : \A y \in S : Magnitude(m[x]) <= Magnitude(m[y])
BaseOf(W) == IF \E y \in DOMAIN W : W[y] = 1 THEN CHOOSE y \in DOMAIN W : W[y] = 1
             ELSE Lightest(W, DOMAIN W)
Limb(an, l) == {x \in Columns(l) \cap DOMAIN an.defs : an.defs[x] # {}}
Keyed(D, k) == [base |-> BaseOf(D.weights), mod |-> D.mod,
                offset |-> IF D.mod = 0 THEN D.offset + k ELSE (D.offset + k) % D.mod]
KeyOf(an, i) ==
  LET l == Linear(an.rows[i].ptr)
      x == Lightest(l.coef, Limb(an, l))
      D == CHOOSE d \in an.defs[x] : TRUE
  IN  CASE ~IsLinear(an.rows[i].ptr) -> Unresolved
        [] IsNum(l) -> [base |-> "const", offset |-> l.const, mod |-> 0]
        [] Limb(an, l) = {} -> Unresolved
        [] OTHER -> IF l.coef[x] # 1 \/ DOMAIN D.weights = {} THEN Unresolved ELSE Keyed(D, l.const)

\* Keys that never name the same cell.
Disjoint(k, m) == k.base = m.base /\ k.mod = m.mod /\ k.offset # m.offset

-----------------------------------------------------------------------------
\* One cell: the receives take sends up to their time.

\* The cell of a key: its interactions, their times, and the key.
CellOf(an, sp, k) ==
  LET of(S) == {i \in S \cap InSpace(an, sp) : KeyOf(an, i) = k}
  IN  [key |-> k, sends |-> of(Sends(an)), recvs |-> of(Recvs(an)),
       at |-> Tabulated([i \in of(Sends(an) \cup Recvs(an)) |-> CHOOSE t \in TimeOf(an, i) : TRUE])]
CellsOf(an, sp) ==
  {CellOf(an, sp, k) : k \in {KeyOf(an, i) : i \in (Sends(an) \cup Recvs(an)) \cap InSpace(an, sp)}}

UpTo(g, r) == {s \in g.sends : g.at[s] <= g.at[r]}
Cutoff(g, r) == Cardinality(UpTo(g, r))
Entries(g) == {r \in g.recvs : Cutoff(g, r) = 0}

\* Each receive, by how many sends it may take, takes the latest that is free.
Taken(edges) == {e[2] : e \in edges}
TakeLatest(g, edges, r) ==
  LET free == UpTo(g, r) \ Taken(edges)
  IN  IF free = {} THEN edges
      ELSE edges \cup {<<r, CHOOSE s \in free : \A t \in free : g.at[t] <= g.at[s]>>}
Earlier(g, q, r) == Cutoff(g, q) < Cutoff(g, r) \/ (Cutoff(g, q) = Cutoff(g, r) /\ q < r)
Greedy(g) ==
  LET last(R) == CHOOSE q \in R : \A p \in R \ {q} : Earlier(g, p, q)
      taken[R \in SUBSET (g.recvs \ Entries(g))] ==
        IF R = {} THEN {} ELSE TakeLatest(g, taken[R \ {last(R)}], last(R))
  IN  taken[g.recvs \ Entries(g)]
IsSolved(g) == /\ Cardinality(g.sends) = Cardinality(g.recvs) /\ Cardinality(Entries(g)) = 1
               /\ Cardinality(Greedy(g)) = Cardinality(g.recvs) - 1
Claims(g) ==
  IF ~IsSolved(g) THEN {}
  ELSE {<<"edge", e[1], e[2]>> : e \in Greedy(g)}
       \cup {<<"input", r, r>> : r \in Entries(g)}
       \cup {<<"output", s, s>> : s \in g.sends \ Taken(Greedy(g))}

\* It is the only solution when the receives may take 0, 1, 2, ... sends.
IsUnique(g) == IsSolved(g) /\ {Cutoff(g, r) : r \in g.recvs} = 0..(Cardinality(g.recvs) - 1)

-----------------------------------------------------------------------------
\* Cells that may coincide.

MayAlias(g, h) == g = h \/ ~Disjoint(g.key, h.key)
Cluster(G, g) == {h \in G : MayAlias(g, h)}
Home(C, i) == CHOOSE g \in C : i \in g.sends \cup g.recvs
IsConstKey(g) == g.key.base = "const"
Pointer(g, b) == IF IsConstKey(g) THEN g.key.offset % P ELSE b[g.key.base] + g.key.offset
Coincide(g, h, b) == g = h \/ (MayAlias(g, h) /\ Pointer(g, b) = Pointer(h, b))

\* Ways to match a cluster when the bases have given values: a receive takes a
\* send of its time or earlier in its cell, or is an input (itself); a send is
\* taken once; one input and one output per cell, as many of either.
Options(C, b, r) ==
  {r} \cup {s \in UNION {g.sends : g \in C} :
              /\ Coincide(Home(C, r), Home(C, s), b)
              /\ Home(C, s).at[s] <= Home(C, r).at[r]}
Alone(C, b, I) == \A i, j \in I : i # j => ~Coincide(Home(C, i), Home(C, j), b)
Unread(C, f) == UNION {g.sends : g \in C} \ {f[r] : r \in DOMAIN f}
Readings(C, b) ==
  LET recvs == UNION {g.recvs : g \in C}
      own == Tabulated([r \in recvs |-> Options(C, b, r)])
      inputs(f) == {r \in recvs : f[r] = r}
  IN  {f \in {h \in [recvs -> UNION {own[r] : r \in recvs}] : \A r \in recvs : h[r] \in own[r]} :
         /\ \A q, r \in recvs : q # r => f[q] # f[r]
         /\ Alone(C, b, inputs(f)) /\ Alone(C, b, Unread(C, f))
         /\ Cardinality(inputs(f)) = Cardinality(Unread(C, f))}
BaseNames(C) == {g.key.base : g \in C} \ {"const"}
AllReadings(C) == UNION {Readings(C, b) : b \in [BaseNames(C) -> BaseValues]}
ClaimHolds(C, f, claim) ==
  CASE claim[1] = "edge" -> f[claim[2]] = claim[3]
    [] claim[1] = "input" -> f[claim[2]] = claim[2]
    [] OTHER -> claim[2] \in Unread(C, f)

\* The solution is one of the ways to match its cluster, or solve fails.
CrossChecked(C) ==
  \E f \in AllReadings(C) : \A g \in C : \A claim \in Claims(g) : ClaimHolds(C, f, claim)

\* In the mutant a cell is taken to be alone.
ForcedAlone(G, g) == IF IsUnique(g) THEN Claims(g) ELSE {}
Size(C) == Cardinality(UNION {g.sends \cup g.recvs : g \in C})
ForcedOf(G, g) ==
  LET C == Cluster(G, g)
      readings == AllReadings(C)
  IN  IF C = {g} THEN IF IsUnique(g) THEN Claims(g) ELSE {}
      ELSE IF Size(C) > ClusterCap THEN {}
      ELSE {claim \in Claims(g) : \A f \in readings : ClaimHolds(C, f, claim)}

-----------------------------------------------------------------------------
\* membus solve for one address space: {} if it fails, or a set of one result.

RowsDiffer(an, I) ==
  \A i, j \in I : i # j => <<an.rows[i].mult, an.rows[i].space, an.rows[i].ptr, an.rows[i].data, an.rows[i].ts>>
                           # <<an.rows[j].mult, an.rows[j].space, an.rows[j].ptr, an.rows[j].data, an.rows[j].ts>>
TimesDiffer(g) == \A s, t \in g.sends : s # t => g.at[s] # g.at[t]
OnePointer(an, g) ==
  LET ptrs == {Linear(an.rows[i].ptr) : i \in g.sends \cup g.recvs}
  IN  /\ g.key # Unresolved /\ Cardinality(ptrs) = 1
      /\ IsConstKey(g) \/ \A l \in ptrs : /\ Bounded(l, an.bounds)
                                          /\ Low(l, an.bounds) >= 0 /\ High(l, an.bounds) < P
Solves(an, I, active, G) ==
  /\ \A i \in DOMAIN an.rows : ConstOf(an.rows[i].space) # {}
  /\ active # {} /\ I \subseteq active \cup Disabled(an)
  /\ RowsDiffer(an, active) /\ DOMAIN an.offsets # {}
  /\ \A i \in active : TimeOf(an, i) # {}
  /\ \A g \in G : TimesDiffer(g)
  /\ \/ \A g \in G : IsConstKey(g)
     \/ \A g \in G : /\ OnePointer(an, g)
                     /\ Claims(g) = {} \/ Cluster(G, g) = {g} \/ Size(Cluster(G, g)) > ClusterCap
                        \/ CrossChecked(Cluster(G, g))
Solution(G) ==
  [claims |-> UNION {Claims(g) : g \in G}, forced |-> UNION {ForcedOf(G, g) : g \in G},
   unique |-> \A g \in G : Cluster(G, g) = {g} /\ IsUnique(g)]
Spaces(an) == UNION {ConstOf(an.rows[i].space) : i \in DOMAIN an.rows}
SolutionIn(an, I, G) ==
  IF Solves(an, I, (Sends(an) \cup Recvs(an)) \cap I, G) THEN {Solution(G)} ELSE {}
SolutionsOf(an) == [sp \in Spaces(an) |-> SolutionIn(an, InSpace(an, sp), CellsOf(an, sp))]
DatedCircuits == [n \in DOMAIN Dumps |-> Dated(Extracted(Dumps[n]))]
Solutions == [n \in DOMAIN Dumps |-> SolutionsOf(DatedCircuits[n])]

\* What the solution says of one interaction.
Concerning(claims, i) == {c \in claims : i \in {c[2], c[3]}}
Partners(claims, i) == UNION {{c[2], c[3]} : c \in {d \in Concerning(claims, i) : d[1] = "edge"}} \ {i}
Io(claims, i) == IF <<"input", i, i>> \in claims THEN "in"
                 ELSE IF <<"output", i, i>> \in claims THEN "out" ELSE "none"
IsForced(sol, i) == Concerning(sol.claims, i) # {} /\ Concerning(sol.claims, i) \subseteq sol.forced

-----------------------------------------------------------------------------
\* membus align: interactions of two circuits with the same kind and timestamp;
\* sends whose timestamp was rewritten are found by their time.

Canonical(e) == IF IsLinear(e) THEN Form(Linear(e)) ELSE e
Stamp(an, i) == <<an.kinds[i], Canonical(an.rows[i].ts)>>
SameStamp(b, a, i, j) == Stamp(b, i) = Stamp(a, j)
SameTime(b, a, i, j) ==
  i \in Sends(b) /\ j \in Sends(a) /\ SendTime(b, i) # {} /\ SendTime(b, i) = SendTime(a, j)
KeptAmong(b, a, pairs, first) ==
  first \cup {p \in pairs : /\ \A q \in first : q[1] # p[1] /\ q[2] # p[2]
                            /\ SameTime(b, a, p[1], p[2])}
KeptIn(b, a, pairs) == KeptAmong(b, a, pairs, {p \in pairs : SameStamp(b, a, p[1], p[2])})
KeptRows(b, a, sp) == KeptIn(b, a, InSpace(b, sp) \X InSpace(a, sp))
Paired(K) == \A p, q \in K : p[1] = q[1] <=> p[2] = q[2]
RemovedRows(b, a, sp) == InSpace(b, sp) \ {p[1] : p \in KeptRows(b, a, sp)}

\* What is removed and not disabled goes in pairs that the solution forces; an
\* address space other than the first is not solved when nothing of it was.
Balanced(sol, R) ==
  \A i \in R : /\ IsForced(sol, i) /\ Io(sol.claims, i) = "none"
               /\ Partners(sol.claims, i) # {} /\ Partners(sol.claims, i) \subseteq R
Unaided(b, R, sp) == sp # 1 /\ R \subseteq Disabled(b)
Resolved(an, sp) == /\ \A i \in DOMAIN an.rows : ConstOf(an.rows[i].space) # {}
                    /\ \A i \in InSpace(an, sp) : an.kinds[i] # {}
AlignsWith(b, a, solutions, sp, K, R) ==
  /\ Resolved(b, sp) /\ Resolved(a, sp) /\ InSpace(b, sp) # {} /\ Paired(K)
  /\ \A an \in {b, a} : \A i, j \in InSpace(an, sp) : i # j => Stamp(an, i) # Stamp(an, j)
  /\ InSpace(a, sp) \subseteq {p[2] : p \in K}
  /\ \/ Unaided(b, R, sp)
     \/ \E sol \in solutions[sp] : (sp = 1 => sol.unique) /\ Balanced(sol, R \ Disabled(b))
Aligns(b, a, solutions, sp) ==
  AlignsWith(b, a, solutions, sp, KeptRows(b, a, sp), RemovedRows(b, a, sp))

-----------------------------------------------------------------------------
\* Worlds in which the memory bus balances: multiplicities are at most one, a
\* message is sent once and received once, what is received is what was sent;
\* in every cell, at most one receive takes what was there before the circuit
\* began (the entry clock), and at most one send is left.
MessagesIn(c, w) ==
  LET mult(row) == Eval(row.mult, w)
      seen(row) == [mult |-> IF mult(row) = P - 1 THEN -1 ELSE mult(row),
                    cell |-> <<Eval(row.space, w), Eval(row.ptr, w)>>, at |-> Eval(row.ts, w),
                    data |-> Tabulated([k \in DOMAIN row.data |-> Eval(row.data[k], w)])]
  IN  Tabulated([i \in DOMAIN c.rows |-> seen(c.rows[i])])
ActiveIn(T) == {i \in DOMAIN T : T[i].mult # 0}
SameMessage(q, r) == q.cell = r.cell /\ q.at = r.at
MatesIn(T, i) == {j \in ActiveIn(T) : /\ i \in ActiveIn(T) /\ T[j].mult = -T[i].mult
                                       /\ SameMessage(T[i], T[j])}
Unmatched(T) == {i \in ActiveIn(T) : MatesIn(T, i) = {}}
Balances(T, entry) ==
  /\ \A i \in DOMAIN T : T[i].mult \in {-1, 0, 1}
  /\ \A i, j \in ActiveIn(T) :
       i # j /\ SameMessage(T[i], T[j]) => T[i].mult # T[j].mult /\ T[i].data = T[j].data
  /\ LET rest == Unmatched(T)
     IN  /\ \A i \in rest : T[i].mult = -1 => T[i].at < entry
         /\ \A i, j \in rest : i # j /\ T[i].cell = T[j].cell => T[i].mult # T[j].mult
OnBus(n, w) == Balances(MessagesIn(Dumps[n], w), w[Dumps[n].entry])
TrueIn(T, claim) ==
  IF claim[1] = "edge" THEN MatesIn(T, claim[2]) = {claim[3]} ELSE claim[2] \in Unmatched(T)

-----------------------------------------------------------------------------
\* Every claim that solve calls forced holds in every assignment that satisfies
\* the circuit and balances the bus, whichever cells coincide.
ClaimsForced ==
  Full /\ OnBus(circuit, columns) =>
    \A sol \in UNION Range(Solutions[circuit]) : \A claim \in sol.forced :
      TrueIn(MessagesIn(Dumps[circuit], columns), claim)
=============================================================================
