----------------------------- MODULE MembusReports -----------------------------
(***************************************************************************)
(* What the memory-bus analysis is told: the reports of membus info, align  *)
(* and solve on the two circuits of a step, merged into one record of facts *)
(* per interaction.  With an execution of the circuits, this is a scene of  *)
(* MembusAnalysis.                                                         *)
(*                                                                         *)
(* The later circuit has only columns of the earlier one, so an execution   *)
(* is an assignment of the columns of the earlier one.                      *)
(***************************************************************************)
EXTENDS MembusSolve, MemoryEncoding

CONSTANTS
  Followed,   \* the steps whose analysis is followed
  Steps,      \* [before, after: names of circuits; active: whether is_valid is
              \* assumed of the later one; solved: whether membus solve is asked]
  RowIds      \* names of the interactions of either circuit, in order

CircuitOf(st, c) == IF c = "before" THEN st.before ELSE st.after
RowsOf(an) == [c \in Circuits |-> [i \in DOMAIN an[c].rows |-> RowIds[c][i]]]
SideOfId(id) == IF id \in ToSet(RowIds["before"]) THEN "before" ELSE "after"
NumberOf(c, id) == CHOOSE i \in DOMAIN RowIds[c] : RowIds[c][i] = id

\* What membus is asked about a step: the extractions and solutions of both
\* circuits, then the address spaces that membus align answers for, what it
\* keeps and what it finds removed.
Asked(st) ==
  [an |-> Tabulated([c \in Circuits |-> DatedCircuits[CircuitOf(st, c)]]),
   solutions |-> Tabulated([c \in Circuits |-> Solutions[CircuitOf(st, c)]]),
   solved |-> st.solved]
Aligned(q) ==
  q @@ [spaces |-> {sp \in Spaces(q.an["before"]) :
                      Aligns(q.an["before"], q.an["after"], q.solutions["before"], sp)}]
Compared(q) ==
  q @@ [keeps |-> UNION {KeptRows(q.an["before"], q.an["after"], sp) : sp \in q.spaces},
        removes |-> UNION {RemovedRows(q.an["before"], q.an["after"], sp) : sp \in q.spaces}]

\* One interaction: what solve says of it (if it is asked, on both sides), and
\* what align says of it (on the earlier side): of a solution, align passes on
\* the partners that are forced, and the role whether it is forced or not.
SpaceOf(an, i) == CHOOSE sp \in ConstOf(an.rows[i].space) : TRUE
SolvedRow(q, c, i) == {sol \in q.solutions[c][SpaceOf(q.an[c], i)] : q.solved /\ IsForced(sol, i)}
AlignedRow(q, c, i) ==
  {sol \in q.solutions[c][SpaceOf(q.an[c], i)] :
     /\ c = "before" /\ SpaceOf(q.an[c], i) \in q.spaces
     /\ ~Unaided(q.an[c], q.removes \cap InSpace(q.an[c], SpaceOf(q.an[c], i)), SpaceOf(q.an[c], i))}
RoleTold(rows, i) ==
  LET told == {Io(sol.claims, i) : sol \in rows}
  IN  IF told = {} THEN "none" ELSE CHOOSE io \in told : TRUE
PartnersTold(rows, i) == UNION {Partners(sol.claims, i) : sol \in {s \in rows : IsForced(s, i)}}

\* Times: of a forced row its own, or the time of the send it reads; otherwise
\* when a send happens, or the bound of a receive.
Timing(k, T) == IF T = {} THEN [kind |-> "none", at |-> 0]
                ELSE [kind |-> k, at |-> CHOOSE t \in T : TRUE]
TimeTold(an, solved, io, partners, i) ==
  IF solved /\ i \in Recvs(an)
  THEN IF io = "in" THEN Timing("upper", {0})
       ELSE Timing("exact", UNION {SendTime(an, j) : j \in partners})
  ELSE Timing(IF i \in Sends(an) THEN "exact" ELSE "upper", TimeOf(an, i))

MultTold(mult) ==
  LET k == ConstOf(mult)
  IN  CASE k = {1} -> "plus" [] k = {-1} -> "minus" [] k = {0} -> "zero" [] OTHER -> "sym"
KindTold(k) == IF k = {} THEN "none" ELSE CHOOSE x \in k : TRUE
Merged(q, c, i, mult, solved, io, partners, key) ==
  [side |-> c, kind |-> KindTold(q.an[c].kinds[i]), space |-> SpaceOf(q.an[c], i),
   key |-> [base |-> key.base, offset |-> key.offset],
   time |-> TimeTold(q.an[c], solved, io, partners, i), stamp |-> "none",
   mult |-> MultTold(mult), io |-> io, forced |-> solved,
   partners |-> {RowIds[c][j] : j \in partners},
   inert |-> c = "before" /\ SpaceOf(q.an[c], i) \in q.spaces /\ i \in Disabled(q.an[c]),
   removed |-> c = "before" /\ i \in q.removes]
FactOf(q, c, i, mult, fromSolve, fromAlign) ==
  Merged(q, c, i, mult, fromSolve # {}, RoleTold(fromSolve \cup fromAlign, i),
         PartnersTold(fromSolve \cup fromAlign, i), KeyOf(q.an[c], i))
FactTold(q, st, c, i) ==
  FactOf(q, c, i, Mult(Dumps[CircuitOf(st, c)], i), SolvedRow(q, c, i), AlignedRow(q, c, i))

\* All that is told of a step.
ToldOf(st, q, rows) ==
  [facts |-> [id \in UNION {ToSet(rows[c]) : c \in Circuits} |->
                FactTold(q, st, SideOfId(id), NumberOf(SideOfId(id), id))],
   edges |-> {},
   kept |-> [id \in {RowIds["before"][p[1]] : p \in q.keeps} |->
               RowIds["after"][(CHOOSE p \in q.keeps : RowIds["before"][p[1]] = id)[2]]],
   rows |-> rows, guess |-> <<>>, active |-> st.active, ran |-> q.spaces # {}, lax |-> FALSE]
ToldBy(st, q) == ToldOf(st, q, RowsOf(q.an))
Told == [st \in Steps |-> ToldBy(st, Compared(Aligned(Asked(st))))]

\* Executions of a step, and the trace of one.
Narrowed(st, w) == [x \in ToSet(Dumps[st.after].cols) |-> w[x]]
IsExecution(st, w) ==
  /\ OnBus(st.before, w) /\ Admits(Dumps[st.after], Narrowed(st, w)) /\ OnBus(st.after, Narrowed(st, w))
Mate(T, rows, id) ==
  LET mates == MatesIn(T[SideOfId(id)], NumberOf(SideOfId(id), id))
  IN  IF mates = {} THEN id ELSE rows[SideOfId(id)][CHOOSE j \in mates : TRUE]
BaseAt(seen, facts, b) ==
  LET id == CHOOSE x \in DOMAIN facts : facts[x].key.base = b
  IN  IF b = "const" THEN 0 ELSE seen[id].cell[2] - facts[id].key.offset
TraceFrom(facts, rows, T, seen, entries) ==
  [partner |-> [id \in DOMAIN facts |-> Mate(T, rows, id)],
   mult |-> [id \in DOMAIN facts |-> seen[id].mult],
   space |-> [id \in DOMAIN facts |-> seen[id].cell[1]],
   ptr |-> [id \in DOMAIN facts |-> seen[id].cell[2]],
   time |-> [id \in DOMAIN facts |-> seen[id].at - entries[facts[id].side]],
   data |-> [id \in DOMAIN facts |-> seen[id].data[1]],
   base |-> [b \in {facts[id].key.base : id \in DOMAIN facts} \cup {"const"} |-> BaseAt(seen, facts, b)],
   stamp |-> <<>>]
TracedBy(told, T, entries) ==
  TraceFrom(told.facts, told.rows, T,
          Tabulated([id \in DOMAIN told.facts |-> T[SideOfId(id)][NumberOf(SideOfId(id), id)]]), entries)
TraceIn(st, told, w) ==
  TracedBy(told, Tabulated([c \in Circuits |-> MessagesIn(Dumps[CircuitOf(st, c)], w)]),
           Tabulated([c \in Circuits |-> w[Dumps[CircuitOf(st, c)].entry]]))

With(told, st, w) == told @@ [trace |-> TraceIn(st, told, w)]
SceneTold(st, w) == With(Told[st], st, w)

-----------------------------------------------------------------------------
\* Either the analysis and the encoding of a scene that is given, or first the
\* columns of a circuit are assigned, and when they are an execution of a step
\* that is followed, and what is told is true of it, the step is analysed.
reportVars == <<encVars, columnVars>>

Blank ==
  [facts |-> <<>>, edges |-> {}, kept |-> <<>>, rows |-> [c \in Circuits |-> <<>>], guess |-> <<>>,
   active |-> FALSE, ran |-> FALSE, lax |-> FALSE,
   trace |-> [partner |-> <<>>, mult |-> <<>>, space |-> <<>>, ptr |-> <<>>, time |-> <<>>,
              data |-> <<>>, base |-> <<>>, stamp |-> <<>>]]
ReportedInit ==
  \/ EncInit /\ circuit = "none" /\ columns = <<>>
  \/ ColumnsInit /\ scene = Blank /\ Started /\ mode = "reading"
Begin(s) ==
  /\ scene' = s /\ phase' = "before" /\ again' = FALSE /\ changed' = FALSE /\ left' = {}
  /\ matches' = FirstMatches' /\ status' = [i \in Ids |-> FirstStatus(i)]' /\ work' = AllWork("before")'
Report(st) ==
  /\ Full /\ st.before = circuit /\ IsExecution(st, columns)
  /\ \E s \in {SceneTold(st, columns)} : Truthful(s) /\ Begin(s)
  /\ mode' = "open"
  /\ circuit' = "none" /\ columns' = <<>>
Continue == EncNext /\ UNCHANGED columnVars
ReportedNext ==
  \/ Assign /\ UNCHANGED encVars
  \/ \E st \in Followed : Report(st)
  \/ Continue
ReportedSpec == ReportedInit /\ [][ReportedNext]_reportVars /\ WF_reportVars(Continue)

-----------------------------------------------------------------------------
\* "Only forced claims may be committed downstream": everything that the
\* analysis is told holds in every execution of the step.
ReportsTrue ==
  \A st \in {s \in Steps : s.before = circuit} :
    Full /\ IsExecution(st, columns) => Truthful(SceneTold(st, columns))
=============================================================================
