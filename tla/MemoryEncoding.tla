--------------------------- MODULE MemoryEncoding ---------------------------
(***************************************************************************)
(* The memory bus as a formula.  When the memory-bus analysis is done, the *)
(* encoding is chosen: plain (who is matched with whom is searched for),   *)
(* interface (the traffic of kept interactions is equated and memory is    *)
(* left uninterpreted), or array (the bus is replayed on arrays), which    *)
(* needs no analysis.  Each circuit then gets a formula over its columns,  *)
(* and the two circuits a relation between their formulas.                 *)
(*                                                                         *)
(* A world gives the columns of one circuit.  The formulas are read as     *)
(* predicates on worlds; a formula's own variables are quantified.         *)
(***************************************************************************)
EXTENDS MembusAnalysis

CONSTANTS
  Worlds(_, _),   \* the columns that a circuit of a scene is looked at with
  Limbs(_),       \* per interaction: the term of its data, and whether a
                  \* range check bounds it unconditionally
  Bytes           \* the data values that are bytes

VARIABLE mode     \* "open" until the encoding is chosen

encVars == <<vars, mode>>

Rows(c) == ById(scene, c)
Row(i) == CHOOSE n \in 1..Len(scene.rows[Side(i)]) : scene.rows[Side(i)][n] = i
Args(w, i) == <<w.space[i], w.ptr[i], w.data[i], w.time[i]>>

-----------------------------------------------------------------------------
\* Multiplicities that are constant, as sets of at most one value.  What stays
\* symbolic on the after side is gated by is_valid; when the analysis assumes
\* is_valid (the scene is active), it folds to the constant of its kind.
ConstMult(i) ==
  CASE Facts[i].mult = "minus" -> {-1} [] Facts[i].mult = "zero" -> {0}
    [] Facts[i].mult = "plus" -> {1} [] OTHER -> {}
ActiveMult(i) ==
  IF Facts[i].mult = "sym" /\ scene.active /\ Side(i) = "after"
  THEN CASE Facts[i].kind = "recv" -> {-1} [] Facts[i].kind = "send" -> {1} [] OTHER -> {}
  ELSE ConstMult(i)

-----------------------------------------------------------------------------
\* Choosing the encoding.

\* Interactions that exist in one circuit only; those that are not disabled are
\* the legs of forced internal pairs, recovered from the match sets.
Removed(c) == {i \in Rows(c) : Facts[i].removed}
Legs(c) == {i \in Removed(c) : status[i]["disabled"] # "yes"}
Mates(i) == matches[i] \ {i}
PairsRecovered(c) == \A i \in Legs(c) : \E j \in Legs(c) : Mates(i) = {j} /\ Mates(j) = {i}
InternalPairs(c) == {p \in Legs(c) \X Legs(c) : Mates(p[1]) = {p[2]}}

\* Kept and removed interactions partition the before side, and the kept ones
\* are paired one to one with the after side.
InterfaceFits ==
  /\ Kept \cap Removed("before") = {} /\ Kept \cup Removed("before") = Rows("before")
  /\ KeptAfter = Rows("after") /\ Cardinality(Kept) = Cardinality(Rows("after"))
  /\ PairsRecovered("before")

MultsConst == \A i \in Ids : ActiveMult(i) # {}
Agree(b) == ActiveMult(b) # {} /\ ActiveMult(b) = ActiveMult(Alignment[b])

\* The interface encoding raises on multiplicities it cannot evaluate (unless
\* lax) and on internal pairs that are not a receive and a send for certain.
InterfaceEncodes ==
  /\ scene.lax \/ (MultsConst /\ \A b \in Kept : Agree(b))
  /\ \A c \in Circuits : \A p \in InternalPairs(c) :
       {ActiveMult(p[1]), ActiveMult(p[2])} = {{-1}, {1}}

Resolve(requested) ==
  /\ mode = "open" /\ phase = "done"
  /\ mode' = IF \/ requested = "plain"
                \/ requested = "auto" /\ ~(InterfaceFits /\ (MultsConst \/ scene.lax))
             THEN "plain"
             ELSE IF InterfaceFits /\ InterfaceEncodes THEN "interface" ELSE "error"
  /\ UNCHANGED vars

Analyse == mode = "open" /\ Next /\ UNCHANGED mode

EncInit == Init /\ mode \in {"open", "array"}
EncNext == Analyse \/ \E requested \in {"auto", "plain", "interface"} : Resolve(requested)
EncSpec == EncInit /\ [][EncNext]_encVars /\ WF_encVars(EncNext)

-----------------------------------------------------------------------------
\* The plain encoding: one variable per pair of interactions that may be
\* matched; m(i, i) for an input, an output or a disabled one.

SpaceConst(i) == {Facts[i].space} \ {0}
PtrConst(i) == IF Facts[i].key.base = "const" THEN {Facts[i].key.offset} ELSE {}
Differ(X, Y) == \E x \in X, y \in Y : x # y
Impossible(i, j) ==
  \/ 0 \in ConstMult(i) \cup ConstMult(j)
  \/ \E m \in ConstMult(i), n \in ConstMult(j) : m + n # 0
  \/ Differ(SpaceConst(i), SpaceConst(j)) \/ Differ(PtrConst(i), PtrConst(j))

\* The variable of a pair is preset by the candidates of its earlier one.
Pairs(c) == {p \in Rows(c) \X Rows(c) : Row(p[1]) <= Row(p[2])}
Preset(i, j) ==
  IF j \notin matches[i] THEN "no"
  ELSE IF matches[i] = {j} THEN "yes"
  ELSE IF i # j /\ Impossible(i, j) THEN "no" ELSE "open"

\* Assignments of the variables in which every interaction is matched exactly
\* once among its own candidates.
MatchedIn(M, i) == {j \in matches[i] : <<i, j>> \in M \/ <<j, i>> \in M}
MatchedOnce(M, i) == \E j \in matches[i] : MatchedIn(M, i) = {j}
Matchings(c) ==
  LET yes  == {p \in Pairs(c) : Preset(p[1], p[2]) = "yes"}
      open == {p \in Pairs(c) : Preset(p[1], p[2]) = "open"}
  IN  {M \in {yes \cup S : S \in SUBSET open} : \A i \in Rows(c) : MatchedOnce(M, i)}

RoleBy(M, w, i) == IF <<i, i>> \notin M THEN "match"
                   ELSE IF w.mult[i] = 0 THEN "disabled"
                   ELSE IF w.mult[i] = -1 THEN "input" ELSE "output"
Pinned(i, role) == \A r \in Roles \ {"match"} :
                     status[i][r] \in {"open", IF r = role THEN "yes" ELSE "no"}

SameCell(w, i, j) == w.space[i] = w.space[j] /\ w.ptr[i] = w.ptr[j]

\* Multiplicities, flags, and matched pairs that cancel.
PairsCancel(c, w, M) ==
  /\ \A i \in Rows(c) :
       /\ w.mult[i] \in {-1, 0, 1} /\ Pinned(i, RoleBy(M, w, i))
       /\ <<i, i>> \notin M => w.mult[i] # 0
  /\ \A p \in M : p[1] # p[2] => /\ w.mult[p[1]] + w.mult[p[2]] = 0 /\ w.mult[p[1]] # 0
                                 /\ Args(w, p[1]) = Args(w, p[2])

VarOf(i, j) == IF Row(i) <= Row(j) THEN Preset(i, j) ELSE Preset(j, i)
Before(w, i, ri, j, rj) ==
  SameCell(w, i, j) /\ ri # "disabled" /\ rj # "disabled" /\ w.time[i] < w.time[j]

\* At most one input and one output per cell and per time; among the candidates
\* of one cell, an input is not later and an output not earlier.
BoundaryFits(c, w, M) ==
  \A i \in Rows(c) :
    LET role == RoleBy(M, w, i)
    IN  /\ \A j \in Rows(c) \ {i} :
             role \in Boundary /\ RoleBy(M, w, j) = role
               => ~SameCell(w, i, j) /\ w.time[i] # w.time[j]
        /\ \A j \in matches[i] \ {i} :
             VarOf(i, j) # "no" /\ Before(w, i, role, j, RoleBy(M, w, j))
               => role # "output" /\ RoleBy(M, w, j) # "input"

\* Keys with one symbolic base are at the distance of their offsets.
KeysReconstructed(c, w) ==
  \A i, j \in {k \in Rows(c) : /\ Facts[k].key.base \notin {"none", "const"}
                               /\ ActiveMult(k) \notin {{}, {0}}} :
    Facts[i].key.base = Facts[j].key.base
      => w.ptr[i] - w.ptr[j] = Facts[i].key.offset - Facts[j].key.offset

\* Clocks are tied to the first exact one, while both are active.  In the
\* mutant the fact is not guarded.
Timed(c) == {i \in Rows(c) : Facts[i].time.kind # "none" /\ ConstMult(i) # {0}}
Anchors(c) == {i \in Timed(c) : /\ Facts[i].time.kind = "exact"
                                /\ \A j \in Timed(c) : Facts[j].time.kind = "exact"
                                                         => Row(i) <= Row(j)}
ClocksUnguarded(c, w) ==
  \A a \in Anchors(c) : \A i \in Timed(c) :
    Row(a) < Row(i) =>
      LET d == Facts[i].time.at - Facts[a].time.at
      IN  IF Facts[i].time.kind = "exact" THEN w.time[i] = w.time[a] + d
          ELSE w.time[i] <= w.time[a] + d
ClocksReconstructed(c, w) ==
  \A a \in Anchors(c) : \A i \in Timed(c) :
    Row(a) < Row(i) /\ w.mult[a] # 0 /\ w.mult[i] # 0 =>
      LET d == Facts[i].time.at - Facts[a].time.at
      IN  IF Facts[i].time.kind = "exact" THEN w.time[i] = w.time[a] + d
          ELSE w.time[i] <= w.time[a] + d

InputsAreBytes(c, w, M) == \A i \in Rows(c) : RoleBy(M, w, i) = "input" => w.data[i] \in Bytes

PlainHolds(c, w, M) ==
  /\ PairsCancel(c, w, M) /\ BoundaryFits(c, w, M)
  /\ KeysReconstructed(c, w) /\ ClocksReconstructed(c, w) /\ InputsAreBytes(c, w, M)

\* Aligned interactions have equal flags and arguments; every input and output
\* that is not aligned has one counterpart, with equal flags and arguments.  In
\* the mutant the flags of aligned ones are not compared.
AlikeArgs(b, a, wb, Mb, wa, Ma) == Args(wb, b) = Args(wa, a)
Alike(b, a, wb, Mb, wa, Ma) ==
  /\ \A r \in Boundary : RoleBy(Mb, wb, b) = r <=> RoleBy(Ma, wa, a) = r
  /\ Args(wb, b) = Args(wa, a)

PlainRelated(wb, Mb, wa, Ma) ==
  LET to == BeforeToAfter(scene)
      restB == Rows("before") \ DOMAIN to
      restA == Rows("after") \ {to[b] : b \in DOMAIN to}
      inOut(M, w, R) == {i \in R : RoleBy(M, w, i) \in Boundary}
  IN  /\ \A b \in DOMAIN to : /\ Alike(b, to[b], wb, Mb, wa, Ma)
                             /\ \A d \in DOMAIN to \ {b} : to[d] # to[b]
      /\ \E X \in SUBSET {p \in restB \X restA : Alike(p[1], p[2], wb, Mb, wa, Ma)} :
           /\ \A p, q \in X : p[1] = q[1] <=> p[2] = q[2]
           /\ inOut(Mb, wb, restB) \subseteq {p[1] : p \in X}
           /\ inOut(Ma, wa, restA) \subseteq {p[2] : p \in X}

-----------------------------------------------------------------------------
\* The interface encoding: internal pairs carry one message, what leaves the
\* circuit is a byte, and kept interactions carry the same traffic.

InterfaceHolds(c, w) ==
  /\ \A p \in InternalPairs(c) : Args(w, p[1]) = Args(w, p[2])
  /\ \A i \in Rows(c) \ UNION {{p[1], p[2]} : p \in InternalPairs(c)} :
       w.mult[i] = 1 => w.data[i] \in Bytes

InterfaceRelated(wb, wa) ==
  \A b \in Kept :
    LET a == Alignment[b]
    IN  \/ ActiveMult(b) = {0} /\ Agree(b)
        \/ wb.mult[b] = wa.mult[a] /\ Args(wb, b) = Args(wa, a)

-----------------------------------------------------------------------------
\* The array encoding: the bus holds at most one message per cell; a receive
\* takes the message that is there, a send needs an empty cell.  The arrays in
\* between are determined by the accesses of a cell in their order; before
\* the first and after the last access they are the summary of the circuit.

\* The order of the rows on a set S of accesses of one cell.
IsFirst(S, i) == \A j \in S : Row(i) <= Row(j)
IsLast(S, i) == \A j \in S : Row(j) <= Row(i)
NextIn(S, i, j) == Row(i) < Row(j) /\ \A k \in S : Row(k) <= Row(i) \/ Row(j) <= Row(k)

Message(w, i) == <<1, w.data[i], w.time[i]>>
Empty == <<0, 0, 0>>
Finds(w, i) == IF w.mult[i] = -1 THEN Message(w, i) ELSE Empty
Leaves(w, i) == IF w.mult[i] = 1 THEN Message(w, i) ELSE Empty
Cell(w, i) == <<w.space[i], w.ptr[i]>>
Cells(c, w) == {Cell(w, i) : i \in Rows(c)}
Accesses(c, w, cell) == {i \in Rows(c) : w.mult[i] # 0 /\ Cell(w, i) = cell}

ArrayHolds(c, w) ==
  /\ \A i \in Rows(c) : w.mult[i] \in {-1, 0, 1}
  /\ \A cell \in Cells(c, w) :
       LET S == Accesses(c, w, cell)
       IN  /\ \A i, j \in S : NextIn(S, i, j) => Leaves(w, i) = Finds(w, j)
           /\ \A i \in S : IsFirst(S, i) => w.data[i] \in Bytes

\* The first and last arrays of the two circuits are equal: a cell that only
\* one of them accesses is left as it was found.
LeftAsFound(w, S) == \A i, j \in S : IsFirst(S, i) /\ IsLast(S, j) => Finds(w, i) = Leaves(w, j)
ArrayRelated(wb, wa) ==
  \A cell \in Cells("before", wb) \cup Cells("after", wa) :
    LET Sb == Accesses("before", wb, cell)
        Sa == Accesses("after", wa, cell)
    IN  IF Sb # {} /\ Sa # {}
        THEN \A b \in Sb, a \in Sa :
               /\ IsFirst(Sb, b) /\ IsFirst(Sa, a) => Finds(wb, b) = Finds(wa, a)
               /\ IsLast(Sb, b) /\ IsLast(Sa, a) => Leaves(wb, b) = Leaves(wa, a)
        ELSE LeftAsFound(wb, Sb) /\ LeftAsFound(wa, Sa)

-----------------------------------------------------------------------------
\* Ranges inferred from who may be matched with whom: the least set of
\* interactions whose data is bounded by a byte because a range check bounds
\* it, because its term is bounded elsewhere, or because it is a receive and
\* every interaction it may be matched with is bounded.

\* A receive cannot be matched with a send at its upper bound or later.
Severed(r, s) ==
  /\ ConstMult(r) = {-1} /\ ConstMult(s) = {1}
  /\ Facts[r].time.kind # "none" /\ Facts[s].time.kind # "none"
  /\ Facts[s].time.at >= Facts[r].time.at
CannotMatch(i, j) ==
  \/ \E m \in ConstMult(i), n \in ConstMult(j) : m + n # 0
  \/ Severed(i, j) \/ Severed(j, i)
  \/ Differ(SpaceConst(i), SpaceConst(j)) \/ Differ(PtrConst(i), PtrConst(j))

ClosedUnder(c, S) ==
  \A i \in Rows(c) :
    \/ i \in S
    \/ /\ ~Limbs(scene)[i].checked
       /\ \/ ConstMult(i) \in {{}, {0}}
          \/ /\ \A j \in S : Limbs(scene)[i].term # Limbs(scene)[j].term
             /\ ConstMult(i) = {-1} => \E j \in Rows(c) \ {i} : ~CannotMatch(i, j) /\ j \notin S
InferredBytes(c) == {i \in Rows(c) : \A S \in SUBSET Rows(c) : ClosedUnder(c, S) => i \in S}

-----------------------------------------------------------------------------
\* The worlds that satisfy what is known of a circuit besides its bus.
CircuitWorlds(c) ==
  {w \in Worlds(scene, c) :
     /\ \A i \in Rows(c) : /\ ColumnsFit(Facts[i], w, i)
                           /\ w.mult[i] \in ActiveMult(i) \/ ActiveMult(i) = {}
                           /\ Limbs(scene)[i].checked => w.data[i] \in Bytes
     /\ \A i, j \in Rows(c) :
          Limbs(scene)[i].term = Limbs(scene)[j].term => w.data[i] = w.data[j]}

\* What executions of the circuits are taken to be like: inputs and outputs have
\* times of their own; a cell is read in before and written out after its other
\* accesses; memory holds bytes; removed interactions are interior; and where
\* is_valid is assumed, it holds.
Executes(w, rows) ==
  \A i \in rows :
    /\ w.mult[i] # 0 => w.data[i] \in Bytes
    /\ \A j \in rows \ {i} :
         LET ri == RoleIn(w, i)
             rj == RoleIn(w, j)
         IN  /\ ri \in Boundary /\ ri = rj => w.time[i] # w.time[j]
             /\ Before(w, i, ri, j, rj) => ri # "output" /\ rj # "input"
TracesExecute ==
  \A s \in Scenes :
    /\ \A c \in Circuits : Executes(s.trace, ById(s, c))
    /\ \A i \in DOMAIN s.facts :
         /\ s.facts[i].removed => RoleIn(s.trace, i) \notin Boundary
         /\ s.active /\ s.facts[i].mult = "sym" /\ s.facts[i].side = "after" =>
              /\ s.facts[i].kind = "recv" => s.trace.mult[i] = -1
              /\ s.facts[i].kind = "send" => s.trace.mult[i] = 1

\* Both circuits exchange the same with memory: aligned interactions agree, and
\* the other inputs and outputs have one counterpart each.
AgreesOn(s, kept) ==
  LET rest(c) == {i \in ById(s, c) : i \notin DOMAIN kept \cup {kept[b] : b \in DOMAIN kept}}
      same(b, a) == RoleIn(s.trace, b) = RoleIn(s.trace, a) /\ Args(s.trace, b) = Args(s.trace, a)
      seen(c) == {i \in rest(c) : RoleIn(s.trace, i) \in Boundary}
  IN  /\ AlignmentHolds(s, kept)
      /\ \A b \in DOMAIN kept : same(b, kept[b]) /\ s.trace.mult[b] = s.trace.mult[kept[b]]
      /\ \E X \in SUBSET {p \in rest("before") \X rest("after") : same(p[1], p[2])} :
           /\ \A p, q \in X : p[1] = q[1] <=> p[2] = q[2]
           /\ seen("before") \subseteq {p[1] : p \in X} /\ seen("after") \subseteq {p[2] : p \in X}

\* What the array encoding takes for granted besides: it replays the rows, so of
\* two accesses of one cell the earlier row has the earlier time, or it is the
\* send of the message that the later one receives; and both circuits exchange
\* the same with memory, whatever the alignment.
TracesReplay ==
  \A s \in Scenes :
    /\ \A c \in Circuits : \A m, n \in 1..Len(s.rows[c]) :
         LET i == s.rows[c][m]
             j == s.rows[c][n]
         IN  m < n /\ s.trace.mult[i] # 0 /\ s.trace.mult[j] # 0 /\ OneCell(s.trace, i, j)
               => IF s.trace.partner[i] = j THEN s.trace.mult[i] = 1
                  ELSE s.trace.time[i] < s.trace.time[j]
    /\ AgreesOn(s, <<>>)

\* The matching of the trace.
TraceMatching(c) == {p \in Pairs(c) : Trace.partner[p[1]] = p[2]}

\* What a circuit exchanges with memory on balance: sends less receives of
\* each message.
Carrying(c, w, x, m) == {i \in Rows(c) : w.mult[i] = m /\ Args(w, i) = x}
Net(c, w, x) == Cardinality(Carrying(c, w, x, 1)) - Cardinality(Carrying(c, w, x, -1))
Traffic(c, w) ==
  {m \in {<<x, Net(c, w, x)>> : x \in {Args(w, i) : i \in Rows(c)}} : m[2] # 0}

\* A match variable that may be true counts at both of its ends.
BothEnds ==
  \A c \in Circuits : \A p \in Pairs(c) : Preset(p[1], p[2]) # "no" => p[1] \in matches[p[2]]

-----------------------------------------------------------------------------
\* Properties.

\* Nothing that really happens is encoded away: the formulas of both circuits
\* and, if the alignment is right, the relation between them admit the trace
\* that the facts are true of.  Otherwise the premise of the check would be
\* unsatisfiable and the check would pass for nothing.
TraceAdmitted ==
  /\ mode = "plain" =>
       /\ \A c \in Circuits : TraceMatching(c) \in Matchings(c) /\ PlainHolds(c, Trace, TraceMatching(c))
       /\ AgreesOn(scene, BeforeToAfter(scene)) =>
            PlainRelated(Trace, TraceMatching("before"), Trace, TraceMatching("after"))
  /\ mode = "interface" =>
       /\ \A c \in Circuits : InterfaceHolds(c, Trace)
       /\ AgreesOn(scene, Alignment) => InterfaceRelated(Trace, Trace)
  /\ mode = "array" =>
       (\A c \in Circuits : ArrayHolds(c, Trace)) /\ ArrayRelated(Trace, Trace)

\* Circuits that the formulas relate exchange the same traffic with memory,
\* whatever the alignment and even if it is wrong: the bus is all that one
\* circuit sees of the other.  (Plain counts a match variable at the ends that
\* list it, so it needs both to.)
RelationIsTraffic ==
  /\ mode = "plain" /\ BothEnds =>
       LET models(c) == {m \in CircuitWorlds(c) \X Matchings(c) : PlainHolds(c, m[1], m[2])}
           seen(c) == {[w |-> m[1], m |-> m[2], net |-> Traffic(c, m[1])] : m \in models(c)}
       IN  \A b \in seen("before"), a \in seen("after") :
             b.net # a.net => ~PlainRelated(b.w, b.m, a.w, a.m)
  /\ mode = "interface" =>
       LET seen(c) == {[w |-> w, net |-> Traffic(c, w)] :
                         w \in {v \in CircuitWorlds(c) : InterfaceHolds(c, v)}}
       IN  \A b \in seen("before"), a \in seen("after") :
             b.net # a.net => ~InterfaceRelated(b.w, a.w)
  /\ mode = "array" =>
       LET seen(c) == {[w |-> w, net |-> Traffic(c, w)] :
                         w \in {v \in CircuitWorlds(c) : ArrayHolds(c, v)}}
       IN  \A b \in seen("before"), a \in seen("after") :
             b.net # a.net => ~ArrayRelated(b.w, a.w)

\* "Every emitted fact is a logical consequence of the existing constraint set":
\* the inferred ranges hold in every world the plain encoding admits.
RangesFollow ==
  mode = "plain" =>
    \A c \in Circuits : \A w \in CircuitWorlds(c) : \A M \in Matchings(c) :
      PlainHolds(c, w, M) => \A i \in InferredBytes(c) : w.data[i] \in Bytes

\* Whenever the analysis has begun, an encoding is chosen in the end.
Chosen == mode = "open" ~> mode # "open"
=============================================================================
