----------------------------- MODULE MembusFacts -----------------------------
(***************************************************************************)
(* The facts that membus extracts from a circuit: bounds of columns, pins  *)
(* and linear identities, the kind of every memory interaction, gaps       *)
(* between clocks, upper bounds of receives, and the decomposition of      *)
(* address limbs.  The constraints hold modulo the prime P; every rule     *)
(* reads one of them as a statement about integers, which is only right    *)
(* while the columns are bounded tightly enough.                           *)
(*                                                                         *)
(* An expression of a dump is a sum of products of linear forms; a linear  *)
(* form has signed canonical coefficients.  A value that may be unknown is *)
(* a set of at most one element.                                           *)
(***************************************************************************)
EXTENDS Integers, FiniteSets, Sequences, TLC, SequencesExt, FiniteSetsExt

CONSTANTS
  P,          \* the prime
  TsMax,      \* clocks are below this (TS_BOUND)
  Byte,       \* bytes are below this
  Dumps       \* per name, a circuit

ASSUME FactsAssumption == P \in Nat /\ TsMax \in 1..P /\ Byte \in 1..P

-----------------------------------------------------------------------------
\* Linear forms.

\* Exactly one.
IsSingleton(S) == \E x \in S : S = {x}

\* f itself: TLC evaluates all its values for the comparison, and keeps them.
Tabulated(f) == CHOOSE g \in {f} : g = g
Just(x, v) == [y \in {x} |-> v]
\* Both functions; the first one counts where both are defined.
Joined(f, g) == Tabulated([x \in DOMAIN f \cup DOMAIN g |-> IF x \in DOMAIN f THEN f[x] ELSE g[x]])

Signed(v) == IF v % P > P \div 2 THEN (v % P) - P ELSE v % P
LinForm(m, k) ==
  [coef |-> Tabulated([x \in {y \in DOMAIN m : m[y] % P # 0} |-> Signed(m[x])]), const |-> Signed(k)]
Num(k) == LinForm(<<>>, k)
Col(x) == LinForm([y \in {x} |-> 1], 0)
Columns(l) == DOMAIN l.coef
IsNum(l) == Columns(l) = {}
Coef(l, x) == IF x \in Columns(l) THEN l.coef[x] ELSE 0
Times(k, l) == LinForm([x \in Columns(l) |-> k * l.coef[x]], k * l.const)
Plus(l, m) ==
  LinForm([x \in Columns(l) \cup Columns(m) |-> Coef(l, x) + Coef(m, x)], l.const + m.const)

\* The sum of the values of a function.
Total(f) ==
  LET sum[S \in SUBSET DOMAIN f] ==
        IF S = {} THEN 0 ELSE LET x == CHOOSE y \in S : TRUE IN f[x] + sum[S \ {x}]
  IN  sum[DOMAIN f]

\* The integer value of a form; columns that w does not give count as zero.
Value(l, w) == l.const + Total([x \in Columns(l) \cap DOMAIN w |-> l.coef[x] * w[x]])
Subst(l, pins) ==
  LinForm([x \in Columns(l) \ DOMAIN pins |-> l.coef[x]], Value(l, pins))
InverseOf(k) == CHOOSE v \in 1..P - 1 : (k * v) % P = 1

\* Expressions.
Factors(e) == UNION {ToSet(e[i]) : i \in DOMAIN e}
Names(e) == UNION {Columns(f) : f \in Factors(e)}
IsLinear(e) == \A i \in DOMAIN e : \A j, k \in DOMAIN e[i] : j = k \/ IsNum(e[i][j]) \/ IsNum(e[i][k])
Multiplied(l, f) == IF IsNum(l) THEN Times(l.const, f) ELSE Times(f.const, l)
Product(p) ==
  LET of[n \in 0..Len(p)] == IF n = 0 THEN Num(1) ELSE Multiplied(of[n - 1], p[n])
  IN  of[Len(p)]
Linear(e) ==
  LET sum[n \in 0..Len(e)] == IF n = 0 THEN Num(0) ELSE Plus(sum[n - 1], Product(e[n]))
  IN  sum[Len(e)]
Linears(S) == {Linear(e) : e \in {d \in S : IsLinear(d)}}
Multiply(v) ==
  LET of[n \in 0..Len(v)] == IF n = 0 THEN 1 ELSE (of[n - 1] * v[n]) % P
  IN  of[Len(v)]
EvalProduct(p, w) == Multiply([n \in DOMAIN p |-> Value(p[n], w)])
Eval(e, w) == Total([n \in DOMAIN e |-> EvalProduct(e[n], w)]) % P

\* A value is known although columns are missing when a factor is zero.
IsKnown(f, w) == Columns(f) \subseteq DOMAIN w
PartlyEvaluates(e, w) ==
  \A i \in DOMAIN e : \/ \E f \in ToSet(e[i]) : IsKnown(f, w) /\ Value(f, w) % P = 0
                      \/ \A f \in ToSet(e[i]) : IsKnown(f, w)

-----------------------------------------------------------------------------
\* A circuit: its constraints, range checks, memory interactions and the
\* substitutions of the optimizer; for every access its opcode flags and the
\* column that tells a load from a store; whether is_valid is assumed.
Constraints(c) == ToSet(c.cons)
LinearCons(c) == Linears(Constraints(c))
Mult(c, i) == c.rows[i].mult

\* Columns that a linear constraint pins on its own, and those that follow by
\* substitution.
Single(l) == IsSingleton(Columns(l))
Residue(l) == LET x == CHOOSE y \in Columns(l) : TRUE
              IN  [col |-> x, at |-> (-l.const * InverseOf(l.coef[x])) % P]
Residues(L) == {Residue(l) : l \in {m \in L : Single(m)}}
AtOf(R) == Tabulated([x \in {r.col : r \in R} |-> (CHOOSE r \in R : r.col = x).at])
SinglePins(c) == AtOf(Residues(LinearCons(c)))
MorePins(c, pins) == Joined(pins, AtOf(Residues({Subst(l, pins) : l \in LinearCons(c)})))
ConstPins(c) ==
  LET round[n \in 0..Len(c.cols)] == IF n = 0 THEN <<>> ELSE MorePins(c, round[n - 1])
  IN  round[Len(c.cols)]

\* The column that gates every active memory multiplicity, if there is one.
ActiveSelector(c) ==
  LET mults == {Mult(c, i) : i \in DOMAIN c.rows}
      gates == {l \in Linears(mults) : ~IsNum(l)}
      cols  == UNION {Columns(l) : l \in gates}
  IN  IF /\ \A m \in mults : IsLinear(m)
         /\ \A l \in Linears(mults) \ gates : l.const = 0
         /\ \A l \in gates : Single(l) /\ l.const = 0 /\ \A x \in Columns(l) : l.coef[x] \in {1, -1}
         /\ IsSingleton(cols)
      THEN cols ELSE {}

\* A range check is sent for certain: its multiplicity is a constant other
\* than zero, is gated by the selector, or a constraint pins a multiple of it.
PinsNonZero(l, r) ==
  /\ Columns(l) = Columns(r)
  /\ \E k \in 1..P - 1 : /\ \A x \in Columns(r) : (l.coef[x] - k * r.coef[x]) % P = 0
                         /\ (k * r.const - l.const) % P # 0
SentFor(c, l) ==
  LET r == Subst(l, SinglePins(c))
  IN  /\ Subst(l, ConstPins(c)) # Num(0)
      /\ IF IsNum(r) THEN r # Num(0)
         ELSE \/ c.assumed /\ r.const = 0 /\ Columns(r) = ActiveSelector(c)
              \/ \E m \in LinearCons(c) : PinsNonZero(Subst(m, SinglePins(c)), r)
Sent(c, check) == IsLinear(check.mult) /\ SentFor(c, Linear(check.mult))

-----------------------------------------------------------------------------
\* Bounds: [lo, hi) of a column.

BoundOf(x, lo, hi) == [col |-> x, lo |-> lo, hi |-> hi]
BareColumn(e) == {x \in Names(e) : IsLinear(e) /\ Linear(e) = Col(x)}

\* A scaled argument bounds its column unless the bound would wrap; a check of
\* two columns bounds none, and neither does a tuple check.
Scaled(l, width) ==
  LET x == CHOOSE y \in Columns(l) : TRUE
      s == InverseOf(l.coef[x])
  IN  IF s = 1 \/ s * width < P THEN {BoundOf(x, 0, s * width)} ELSE {}
CheckBounds(c, check) ==
  CASE check.bus = "var" /\ Sent(c, check) ->
         UNION {Scaled(l, check.width) : l \in {m \in Linears({check.args[1]}) : Single(m) /\ m.const = 0}}
    [] check.bus = "bitwise" /\ Sent(c, check) ->
         {BoundOf(x, 0, Byte) : x \in UNION {BareColumn(a) : a \in ToSet(check.args)}}
    [] OTHER -> {}

\* x * (x - 1) * ... * (x - (n - 1)) = 0.
IsDomain(e, x) ==
  Len(e) = 1 /\ ToSet(e[1]) = {Plus(Col(x), Num(-d)) : d \in 0..Len(e[1]) - 1}
ConBounds(e) ==
  IF IsLinear(e) THEN {BoundOf(r.col, r.at, r.at + 1) : r \in Residues({Linear(e)})}
  ELSE {BoundOf(x, 0, Len(e[1])) : x \in {y \in Names(e) : IsDomain(e, y)}}

\* The tightest bound found so far is kept, the first one among equals.
Put(b, new) ==
  LET better(x) == {n \in new : n.col = x /\ (x \in DOMAIN b => n.hi < b[x].hi)}
      least(S) == CHOOSE n \in S : \A m \in S : n.hi <= m.hi
  IN  Tabulated([x \in DOMAIN b \cup {n.col : n \in new} |->
                   IF better(x) = {} THEN b[x] ELSE least(better(x))])

PutAll(found) ==
  LET kept[n \in 0..Len(found)] == IF n = 0 THEN <<>> ELSE Put(kept[n - 1], found[n])
  IN  kept[Len(found)]

\* Constraints pos - neg + const = 0, as differences in both directions.
Signs(l) == {l.coef[x] : x \in Columns(l)}
TwoColumn(c) ==
  {l \in LinearCons(c) : \E x, y \in Columns(l) :
                           x # y /\ Columns(l) = {x, y} /\ l.coef[x] = 1 /\ l.coef[y] = -1}
SignedBy(l, k) == CHOOSE x \in Columns(l) : l.coef[x] = k
Step(x, y, d) == [from |-> x, to |-> y, by |-> d]
Differences(c) ==
  UNION {{Step(SignedBy(l, -1), SignedBy(l, 1), -l.const),
          Step(SignedBy(l, 1), SignedBy(l, -1), l.const)} : l \in TwoColumn(c)}
Shifted(b, d) == BoundOf(d.to, b[d.from].lo + d.by, b[d.from].hi + d.by)
ShiftedAll(D, b) ==
  {n \in {Shifted(b, d) : d \in {e \in D : e.from \in DOMAIN b}} : n.lo >= 0 /\ n.hi <= P}
Spread(D, b) ==
  LET round[n \in 0..Cardinality(D)] ==
        IF n = 0 THEN b ELSE LET prev == round[n - 1] IN Put(prev, ShiftedAll(D, prev))
  IN  round[Cardinality(D)]

\* Bounds that follow without and with the kinds of the interactions.
Seeded(c, mid) ==
  Spread(Differences(c), PutAll([k \in DOMAIN c.checks |-> CheckBounds(c, c.checks[k])]
                                \o mid \o [k \in DOMAIN c.cons |-> ConBounds(c.cons[k])]))
StaticBounds(c) == Seeded(c, <<>>)

\* The integers a form may take.
Low(l, b) == l.const + Total([x \in Columns(l) |-> Min({0, l.coef[x] * (b[x].hi - 1)})])
High(l, b) == l.const + Total([x \in Columns(l) |-> Max({0, l.coef[x] * (b[x].hi - 1)})])
Bounded(l, b) == Columns(l) \subseteq DOMAIN b
\* In the mutant the integers only have to be bounded, not to stay in the field.
AnyRange(l, b) == Bounded(l, b)
NoWrap(l, b) == Bounded(l, b) /\ Low(l, b) > -P /\ High(l, b) < P

-----------------------------------------------------------------------------
\* Propagation.  A linear constraint of one column pins it when its value is
\* unique among the integers the column may hold.
TryPin(l, b) == IF Single(l) /\ Signs(l) \subseteq {1, -1} /\ NoWrap(l, b)
                 THEN {[col |-> x, at |-> Signed(-l.const * l.coef[x])] : x \in Columns(l)} ELSE {}
FurtherPins(c, b, pins) == Joined(pins, AtOf(UNION {TryPin(Subst(l, pins), b) : l \in LinearCons(c)}))
Propagated(c, b) ==
  LET round[n \in 0..Len(c.cols)] == IF n = 0 THEN <<>> ELSE FurtherPins(c, b, round[n - 1])
  IN  round[Len(c.cols)]

\* What decides the opcode of an access: the constraint that gives is_load (a
\* forward form first), and those over exactly its flags.
LinearPart(e) == Linear([n \in DOMAIN e |-> IF IsLinear(<<e[n]>>) THEN e[n] ELSE <<Num(0)>>])
Decodes(c, x, k) == {n \in DOMAIN c.cons : Coef(LinearPart(c.cons[n]), x) = k}
FirstOf(S, T) == IF S = {} THEN T ELSE S
Earliest(N) == IF N = {} THEN {} ELSE {Min(N)}
Mux(c, x) == {c.cons[n] : n \in Earliest(FirstOf(Decodes(c, x, 1), Decodes(c, x, -1)))}
Deciding(c, x, flags) ==
  Mux(c, x) \cup {e \in Constraints(c) : ~IsLinear(e) /\ Names(e) = flags /\ x \notin flags}
Satisfies(w, E) == \A e \in E : Eval(e, w) = 0
Covered(E, cols) == \A e \in E : Names(e) \subseteq cols

\* The values of the flags of an access, if each has a domain 0..n-1.
HasDomain(b, flags) == flags # {} /\ \A x \in flags : x \in DOMAIN b /\ b[x].lo = 0
FlagValues(b, flags) ==
  {f \in [flags -> UNION {0..b[x].hi - 1 : x \in flags}] : \A x \in flags : f[x] < b[x].hi}

\* is_load is pinned to the one value that some assignment of the flags gives
\* it, unless its constraint does not determine it.
SolvedFor(e, w, x) ==
  LET m0 == Eval(e, Joined(w, Just(x, 0)))
      k  == (Eval(e, Joined(w, Just(x, 1))) - m0) % P
  IN  IF k = 0 THEN {} ELSE {(-m0 * InverseOf(k)) % P}
LoadValuesIn(D, mux, envs, x, cols) ==
  LET at(f) == UNION {SolvedFor(e, f, x) : e \in mux}
  IN  IF mux = {} \/ ~Covered(D, cols) \/ \E f \in envs : at(f) = {}
      THEN {} ELSE UNION {{v \in at(f) : Satisfies(Joined(f, Just(x, v)), D)} : f \in envs}
LoadValues(c, b, pins, x, flags) ==
  LoadValuesIn(Deciding(c, x, flags), Mux(c, x), {Joined(f, pins) : f \in FlagValues(b, flags)},
               x, flags \cup {x} \cup DOMAIN pins)
PinnedTo(pins, x, V) == IF ~IsSingleton(V) THEN pins ELSE Joined(pins, Just(x, Signed(CHOOSE v \in V : TRUE)))
LoadPins(c, b, pins, a) ==
  IF c.load[a] \in DOMAIN pins \/ ~HasDomain(b, c.flags[a]) THEN pins
  ELSE PinnedTo(pins, c.load[a], LoadValues(c, b, pins, c.load[a], c.flags[a]))

\* Flags are pinned one after the other, when only one of their values is part
\* of an assignment that the deciding constraints admit.
FlagSurvivors(b, pins, D, flags, x) ==
  {f[x] : f \in {g \in FlagValues(b, flags) :
                   /\ \A y \in flags \cap DOMAIN pins : g[y] = pins[y]
                   /\ Satisfies(Joined(g, pins), D)}}
NewFlags(b, pins, D, flags) ==
  {x \in flags \ DOMAIN pins : /\ Covered(D, flags \cup DOMAIN pins)
                               /\ IsSingleton(FlagSurvivors(b, pins, D, flags, x))}
PinFlag(b, pins, D, flags) ==
  LET x == CHOOSE y \in NewFlags(b, pins, D, flags) : TRUE
  IN  IF NewFlags(b, pins, D, flags) = {} THEN pins
      ELSE Joined(pins, Just(x, CHOOSE v \in FlagSurvivors(b, pins, D, flags, x) : TRUE))
FlagsFrom(b, pins, D, flags) ==
  LET round[n \in 0..Cardinality(flags)] == IF n = 0 THEN pins ELSE PinFlag(b, round[n - 1], D, flags)
  IN  round[Cardinality(flags)]
FlagPins(c, b, pins, a) ==
  IF c.load[a] \notin DOMAIN pins \/ ~HasDomain(b, c.flags[a]) \/ Deciding(c, c.load[a], c.flags[a]) = {}
  THEN pins ELSE FlagsFrom(b, pins, Deciding(c, c.load[a], c.flags[a]), c.flags[a])

\* First the loads of the accesses A, then their flags.
AllLoads(c, b, pins) ==
  LET of[A \in SUBSET DOMAIN c.load] ==
        IF A = {} THEN pins ELSE LET a == CHOOSE x \in A : TRUE IN LoadPins(c, b, of[A \ {a}], a)
  IN  of[DOMAIN c.load]
AllFlags(c, b, pins) ==
  LET of[A \in SUBSET DOMAIN c.load] ==
        IF A = {} THEN pins ELSE LET a == CHOOSE x \in A : TRUE IN FlagPins(c, b, of[A \ {a}], a)
  IN  of[DOMAIN c.load]
PinsWithin(c, b) == AllFlags(c, b, AllLoads(c, b, Propagated(c, b)))
Pins(c) == PinsWithin(c, StaticBounds(c))

\* Linear constraints that hold of the integers once the pins are substituted.
ZerosWithin(c, pins, b) == {l \in {Subst(m, pins) : m \in LinearCons(c)} : ~IsNum(l) /\ NoWrap(l, b)}
Zeros(c, pins) == ZerosWithin(c, pins, StaticBounds(c))

\* The value of a linear form, from pins and from identities with the same or
\* the opposite coefficients.
Known(p, l) ==
  LET s == Subst(l, p.pins)
  IN  IF IsNum(s) THEN {s.const % P}
      ELSE {(s.const - z.const) % P : z \in {y \in p.zeros : y.coef = s.coef}}
           \cup {(s.const + z.const) % P : z \in {y \in p.zeros : y.coef = Times(-1, s).coef}}

\* Pins and aliases (a column is another one plus an offset) folded in.
Aliased(l, al) ==
  LET own == Columns(l) \cap DOMAIN al
      moved(y) == {x \in own : al[x].base = y}
  IN  LinForm([y \in (Columns(l) \ own) \cup {al[x].base : x \in own} |->
                 (IF y \in own THEN 0 ELSE Coef(l, y)) + Total([x \in moved(y) |-> l.coef[x]])],
              l.const + Total([x \in own |-> l.coef[x] * al[x].by]))
Fold(e, pins, al) == [i \in DOMAIN e |-> [j \in DOMAIN e[i] |-> Aliased(Subst(e[i][j], pins), al)]]
Form(l) == <<<<l>>>>
Replaced(l, values) == IF values = {} THEN l ELSE Num(CHOOSE v \in values : TRUE)
ReplacedIn(p, l) == Replaced(l, Known(p, l))
Simplified(p, f) == IF IsLinear(f) THEN Form(ReplacedIn(p, Linear(f))) ELSE f
Simplify(p, e) == Simplified(p, Fold(e, p.pins, <<>>))

-----------------------------------------------------------------------------
\* The kind of an interaction: a constant multiplicity, the selector taken to
\* be one, or a value that propagation knows.
KindOf(v) == CASE v = 1 -> {"send"} [] v = P - 1 -> {"recv"} [] v = 0 -> {"disabled"} [] OTHER -> {}
Kind(c, p, i) ==
  LET l == Linear(Mult(c, i))
      gated == c.assumed /\ ~IsNum(l) /\ Columns(l) = ActiveSelector(c)
  IN  CASE IsLinear(Mult(c, i)) /\ gated -> {IF Signs(l) = {1} THEN "send" ELSE "recv"}
        [] IsLinear(Mult(c, i)) /\ ~gated -> UNION {KindOf(v) : v \in Known(p, l)}
        [] OTHER -> {}
Kinds(c, p) == [i \in DOMAIN c.rows |-> Kind(c, p, i)]

\* A timestamp: one column with coefficient one, and an offset.
Slot(e) == IF IsLinear(e) /\ Single(Linear(e)) /\ Signs(Linear(e)) = {1} THEN Columns(Linear(e)) ELSE {}
Slots(rows, kinds, k) == UNION {Slot(rows[i].ts) : i \in {j \in DOMAIN rows : kinds[j] = {k}}}

\* Offsets along differences, from one column; they agree or there are none.
Extend(D, rel) ==
  LET out == {d \in D : d.from \in DOMAIN rel /\ d.to \notin DOMAIN rel}
      d   == CHOOSE e \in out : TRUE
  IN  IF out = {} THEN rel ELSE Joined(rel, Just(d.to, rel[d.from] + d.by))
Reach(D, x) ==
  LET round[n \in 0..Cardinality(D)] == IF n = 0 THEN Just(x, 0) ELSE Extend(D, round[n - 1])
  IN  round[Cardinality(D)]
Offsets(D, x) ==
  LET rel == Reach(D, x)
      low == Min({rel[y] : y \in DOMAIN rel})
  IN  [y \in DOMAIN rel |-> rel[y] - low]
Agrees(D, rel) == \A d \in D : d.from \in DOMAIN rel => rel[d.to] = rel[d.from] + d.by

\* The timestamps of sends that differ by a constant are written over the
\* earliest of them.
AliasIn(rel, x) == [base |-> CHOOSE y \in DOMAIN rel : rel[y] = 0, by |-> rel[x]]
AliasesIn(cols, D) == [x \in {y \in cols : Agrees(D, Offsets(D, y))} |-> AliasIn(Offsets(D, x), x)]
AliasesOver(c, cols) ==
  AliasesIn(cols, {d \in Differences(c) \cup c.subs : {d.from, d.to} \subseteq cols})
Aliases(c, kinds) == AliasesOver(c, Slots(c.rows, kinds, "send"))

\* An access evaluates when it has the same value under every assignment of
\* the flags that its deciding constraints admit.
AccessesOf(c, e) == {c.access[x] : x \in Names(e) \cap DOMAIN c.access}
EnvsWithin(c, p, a, b) ==
  IF c.load[a] \in DOMAIN p.pins /\ HasDomain(b, c.flags[a])
  THEN {w \in {Joined(f, p.pins) : f \in FlagValues(b, c.flags[a])} :
          Satisfies(w, Deciding(c, c.load[a], c.flags[a]))} ELSE {}
Envs(c, p, a) == EnvsWithin(c, p, a, StaticBounds(c))
OneValue(f, envs, vals) ==
  IF envs # {} /\ (\A w \in envs : PartlyEvaluates(f, w)) /\ IsSingleton(vals) THEN vals ELSE {}
ValueOver(f, envs) == OneValue(f, envs, {Eval(f, w) : w \in envs})
Evaluated(c, p, e) ==
  IF ~IsSingleton(AccessesOf(c, e)) THEN {}
  ELSE ValueOver(Fold(e, p.pins, <<>>), UNION {Envs(c, p, a) : a \in AccessesOf(c, e) \cap DOMAIN c.load})

\* The interactions with what is known folded in.
Retimed(e, al) == IF Slot(e) \subseteq DOMAIN al THEN Fold(e, <<>>, al) ELSE e
RowAs(p, al, row, ev) ==
  [row EXCEPT !.space = Simplify(p, @),
              !.ptr   = IF ev = {} THEN Simplify(p, @) ELSE Form(Num(CHOOSE v \in ev : TRUE)),
              !.ts    = Retimed(Simplify(p, @), al),
              !.mult  = IF IsLinear(@) THEN Simplify(p, @) ELSE @]
SimplifiedRow(c, p, al, row) == RowAs(p, al, row, Evaluated(c, p, row.ptr))

\* The clocks: columns of the timestamps of sends, and columns linked to them
\* by a difference.  A later one is bounded by what it is linked to; an earlier
\* one, and the columns of timestamps, by the assumption on clocks.
Links(D, seen, w) ==
  LET later == {d \in D : d.from \in DOMAIN w /\ d.to \notin seen /\ d.by >= 0 /\ w[d.from].hi + d.by < P}
      earlier == {d \in D : d.from \in DOMAIN w /\ d.to \notin seen \cup DOMAIN w /\ d.by < 0}
  IN  {BoundOf(d.to, 0, w[d.from].hi + d.by) : d \in later} \cup {BoundOf(d.to, 0, TsMax) : d \in earlier}
Linked(D, seen, w) ==
  LET round[n \in 0..Cardinality(D)] ==
        IF n = 0 THEN w ELSE LET prev == round[n - 1] IN Put(prev, Links(D, seen, prev))
  IN  round[Cardinality(D)]
Clocks(c, rows, kinds) ==
  LET sends == Slots(rows, kinds, "send")
      recvs == Slots(rows, kinds, "recv")
  IN  Linked(Differences(c), recvs \ sends, [x \in sends \ recvs |-> BoundOf(x, 0, TsMax)])
Witnesses(rows, kinds) == Slots(rows, kinds, "recv") \ Slots(rows, kinds, "send")

\* Everything that is extracted before the rules that need all bounds, in the
\* order in which it is found; what is not found yet is empty.
Propagation(c, pins) == [pins |-> pins, zeros |-> Zeros(c, pins)]
Decided(c, p) ==
  [p |-> p, kinds |-> Kinds(c, p), aliases |-> <<>>, rows |-> <<>>, clocks |-> <<>>, witnesses |-> {},
   bounds |-> <<>>, gaps |-> {}, uppers |-> {}, defs |-> <<>>]
Renamed(c, an) == [an EXCEPT !.aliases = Aliases(c, an.kinds)]
Rewritten(c, an) ==
  [an EXCEPT !.rows = Tabulated([i \in DOMAIN c.rows |-> SimplifiedRow(c, an.p, an.aliases, c.rows[i])])]
Clocked(c, an) ==
  [an EXCEPT !.clocks = Clocks(c, an.rows, an.kinds), !.witnesses = Witnesses(an.rows, an.kinds)]
BytesRead(an) ==
  LET recvs == {i \in DOMAIN an.rows : an.kinds[i] = {"recv"}}
  IN  UNION {BareColumn(e) : e \in UNION {ToSet(an.rows[i].data) : i \in recvs}}
ClockBounds(an) == {an.clocks[x] : x \in DOMAIN an.clocks} \cup {BoundOf(x, 0, TsMax) : x \in an.witnesses}
Closed(c, an) ==
  [an EXCEPT !.clocks = DOMAIN @,
             !.bounds = Seeded(c, <<{BoundOf(x, 0, Byte) : x \in BytesRead(an)}, ClockBounds(an)>>)]
Analysed(c) == Closed(c, Clocked(c, Rewritten(c, Renamed(c, Decided(c, Propagation(c, Pins(c)))))))

-----------------------------------------------------------------------------
\* Rules that need all bounds.

\* Gaps: clocks at a distance that is read as one between integers.
IsGap(an, d) ==
  /\ {d.from, d.to} \subseteq an.clocks \cap DOMAIN an.bounds
  /\ an.bounds[d.to].hi - d.by < P /\ -d.by - an.bounds[d.from].hi > -P
  /\ d.by \in (1 - TsMax)..(TsMax - 1) \ {0}
Gaps(c, an) == {d \in Differences(c) : IsGap(an, d)}

\* The form divided by a coefficient k, which has to divide all of it.
Magnitude(k) == IF k < 0 THEN -k ELSE k
Divides(k, l) ==
  \A v \in {l.const} \cup {l.coef[x] : x \in Columns(l)} : v % Magnitude(k) = 0
Divided(l, k) ==
  LET q(v) == (IF k < 0 THEN -v ELSE v) \div Magnitude(k)
  IN  [coef |-> [x \in Columns(l) |-> q(l.coef[x])], const |-> q(l.const)]

\* What is left of a gated comparison when the factors known to be one are
\* peeled off; nothing when one is known to be zero.
PeeledProduct(an, p) ==
  LET zero   == \E g \in ToSet(p) : 0 \in Known(an.p, g)
      scaled == \E g \in ToSet(p) : IsNum(g) /\ g # Num(1)
  IN  CASE zero -> {}
        [] ~zero /\ scaled -> {<<p>>}
        [] OTHER -> {<<[j \in DOMAIN p |-> IF 1 \in Known(an.p, p[j]) THEN Num(1) ELSE p[j]]>>}
Peeled(an, f) == IF Len(f) = 1 /\ Len(f[1]) >= 2 THEN PeeledProduct(an, f[1]) ELSE {f}
Ungated(an, e) == Peeled(an, Fold(e, an.p.pins, an.aliases))

\* A comparison: clock - witness - rest + const, all of it bounded.
IsOrder(an, l) ==
  LET fs == Columns(l) \cap an.clocks
      pv == Columns(l) \cap an.witnesses
  IN  /\ IsSingleton(fs) /\ IsSingleton(pv)
      /\ \A x \in fs : l.coef[x] = 1
      /\ \A x \in pv : l.coef[x] = -1
      /\ \A x \in Columns(l) \ (fs \cup pv) : l.coef[x] < 0
UpperOf(an, l) ==
  {[pv |-> x, fs |-> y, by |-> l.const] :
     x \in Columns(l) \cap an.witnesses, y \in Columns(l) \cap an.clocks}
ConstraintUppers(c, an) ==
  UNION {UpperOf(an, l) :
           l \in {m \in Linears(UNION {Ungated(an, e) :
                                         e \in {d \in Constraints(c) : Names(d) \cap an.witnesses # {}}}) :
                    IsOrder(an, m) /\ NoWrap(m, an.bounds)}}

\* A range check of a multiple of a comparison bounds it when no integer that
\* passes the check is negative.
Scale(an, l) == {Magnitude(l.coef[x]) : x \in Columns(l) \cap (an.clocks \cup an.witnesses)}
ScaledOrders(an, l) ==
  {Divided(l, l.coef[x]) : x \in {y \in Columns(l) \cap an.clocks :
                                    /\ Scale(an, l) = {Magnitude(l.coef[y])}
                                    /\ l.coef[y] \notin {1, -1} /\ Divides(l.coef[y], l)}}
PassesOnlyAbove(an, l, n, width) ==
  LET s == (CHOOSE x \in Columns(n) \cap an.clocks : TRUE)
      inv == InverseOf(l.coef[s])
      first(r) == (inv * r) % P
  IN  \A r \in 0..(width - 1) : \A k \in {first(r), first(r) - P} :
        Low(n, an.bounds) <= k /\ k <= High(n, an.bounds) => k >= 0
CheckUppers(c, an) ==
  UNION {UNION {UNION {IF PassesOnlyAbove(an, l, n, check.width) THEN UpperOf(an, n) ELSE {} :
                         n \in {m \in ScaledOrders(an, l) : IsOrder(an, m) /\ NoWrap(m, an.bounds)}} :
                  l \in Linears({check.args[1]})} :
           check \in {k \in ToSet(c.checks) : k.bus = "var" /\ Sent(c, k)}}
RecvUppers(c, an) == ConstraintUppers(c, an) \cup CheckUppers(c, an)

\* A limb that a product of two factors, which differ by a constant, determines:
\* exactly, or up to a modulus when the other factor has roots as well.
Gcd(S) == Max({d \in 1..Max(S) : \A v \in S : v % d = 0})
IsProduct(e) == Len(e) = 1 /\ Len(e[1]) = 2 /\ e[1][1].coef = e[1][2].coef
OtherRoots(an, x, f, other, g) ==
  LET k == (InverseOf(f.coef[x]) * (f.const - other.const)) % P
  IN  {v \in {k, k - P} \ {0} : Low(g, an.bounds) <= v /\ v <= High(g, an.bounds)}
Modulus(roots) == IF roots = {} THEN 0 ELSE Gcd({Magnitude(v) : v \in roots})
Defines(an, x, f, other) ==
  LET g == Divided(f, f.coef[x])
      m == Modulus(OtherRoots(an, x, f, other, g))
  IN  IF ~(x \in Columns(f) /\ Divides(f.coef[x], f)) THEN {}
      ELSE IF ~NoWrap(g, an.bounds) \/ m = 1 THEN {}
      ELSE {[col |-> x, mod |-> m, offset |-> -g.const,
             weights |-> [y \in Columns(g) \ {x} |-> -g.coef[y]]]}
Definitions(an, x, e) ==
  IF IsProduct(e) THEN FirstOf(Defines(an, x, e[1][1], e[1][2]), Defines(an, x, e[1][2], e[1][1])) ELSE {}
Affine(c, an, x) ==
  LET found == {n \in DOMAIN c.cons : Definitions(an, x, c.cons[n]) # {}}
  IN  IF x \in DOMAIN an.bounds /\ found # {} THEN Definitions(an, x, c.cons[Min(found)]) ELSE {}

\* Everything that is extracted from a circuit.
WithRules(c, an) ==
  [an EXCEPT !.gaps = Gaps(c, an), !.uppers = RecvUppers(c, an),
             !.defs = [x \in DOMAIN an.bounds |-> Affine(c, an, x)]]
Extracted(c) == WithRules(c, Analysed(c))
Extractions == [n \in DOMAIN Dumps |-> Extracted(Dumps[n])]

-----------------------------------------------------------------------------
\* The assignments of the columns that satisfy a circuit: its constraints
\* modulo the prime, the range checks that are sent, the substitutions, and
\* what is assumed: clocks are small (TS_BOUND), memory holds bytes
\* (MEMBUS_BYTE) and, if that is assumed, is_valid is one (ACTIVE_SELECTOR).
ValuesOf(c, x) ==
  CASE x \in c.times -> 0..(TsMax - 1)
    [] x \in c.valid /\ c.assumed -> {1}
    [] OTHER -> 0..(P - 1)
InRange(check, w) ==
  CASE check.bus = "var" -> Eval(check.args[1], w) < check.width
    [] check.bus = "bitwise" -> \A a \in ToSet(check.args) : Eval(a, w) < Byte
    [] OTHER -> TRUE
CheckNames(check) == Names(check.mult) \cup UNION {Names(a) : a \in ToSet(check.args)}
RowNames(row) == Names(row.mult) \cup UNION {Names(a) : a \in ToSet(row.data)}
Reads(x, N, w) == x \in N /\ N \subseteq DOMAIN w
AllowsLast(c, w, x) ==
  /\ \A e \in Constraints(c) : Reads(x, Names(e), w) => Eval(e, w) = 0
  /\ \A check \in ToSet(c.checks) :
       Reads(x, CheckNames(check), w) /\ Eval(check.mult, w) # 0 => InRange(check, w)
  /\ \A row \in ToSet(c.rows) :
       Reads(x, RowNames(row), w) /\ Eval(row.mult, w) = P - 1
         => \A a \in ToSet(row.data) : Eval(a, w) < Byte
  /\ \A s \in c.subs : Reads(x, {s.from, s.to}, w) => (w[s.from] + s.by - w[s.to]) % P = 0
Admits(c, w) == \A x \in ToSet(c.cols) : w[x] \in ValuesOf(c, x) /\ AllowsLast(c, w, x)

\* One column after the other of a circuit is assigned.
VARIABLES
  circuit,  \* the circuit of Dumps that is assigned, or "none"
  columns   \* the values so far

columnVars == <<circuit, columns>>

Full == circuit # "none" /\ DOMAIN columns = ToSet(Dumps[circuit].cols)
NextColumn == Dumps[circuit].cols[Cardinality(DOMAIN columns) + 1]
ColumnsInit == circuit \in DOMAIN Dumps /\ columns = <<>>
Assign ==
  /\ circuit # "none" /\ ~Full
  /\ \E v \in ValuesOf(Dumps[circuit], NextColumn) : columns' = Joined(columns, Just(NextColumn, v))
  /\ AllowsLast(Dumps[circuit], columns', NextColumn)
  /\ UNCHANGED circuit

\* What a fact says of an assignment.
KindHolds(k, v) == k = {} \/ v \in (CASE k = {"send"} -> {1} [] k = {"recv"} -> {P - 1} [] OTHER -> {0})
AffineHolds(D, w) ==
  LET k == w[D.col] - D.offset - Total([y \in DOMAIN D.weights |-> D.weights[y] * w[y]])
  IN  IF D.mod = 0 THEN k = 0 ELSE k % D.mod = 0
SameRowValues(row, simple, w) ==
  /\ Eval(row.space, w) = Eval(simple.space, w) /\ Eval(row.ptr, w) = Eval(simple.ptr, w)
  /\ Eval(row.ts, w) = Eval(simple.ts, w) /\ Eval(row.mult, w) = Eval(simple.mult, w)
HoldsIn(c, an, w) ==
  /\ \A x \in DOMAIN an.bounds : an.bounds[x].lo <= w[x] /\ w[x] < an.bounds[x].hi
  /\ \A x \in DOMAIN an.p.pins : w[x] = an.p.pins[x] % P
  /\ \A z \in an.p.zeros : Value(z, w) = 0
  /\ \A i \in DOMAIN c.rows : /\ KindHolds(an.kinds[i], Eval(c.rows[i].mult, w))
                              /\ SameRowValues(c.rows[i], an.rows[i], w)
  /\ \A d \in an.gaps : w[d.to] = w[d.from] + d.by
  /\ \A u \in an.uppers : w[u.pv] <= w[u.fs] + u.by
  /\ \A x \in DOMAIN an.defs : \A D \in an.defs[x] : AffineHolds(D, w)

-----------------------------------------------------------------------------
\* Every fact that is extracted holds of the integers in every assignment that
\* satisfies the circuit modulo the prime, under the premises that were
\* granted: each rule checked enough bounds to leave the field.
FactsHold == Full => HoldsIn(Dumps[circuit], Extractions[circuit], columns)

-----------------------------------------------------------------------------
\* What the facts rely on.  P is a prime: all that is used of it is that what
\* is not zero has an inverse.
PrimeField == P > 1 /\ \A k \in 1..P - 1 : \E v \in 1..P - 1 : (k * v) % P = 1

\* A circuit, as it is read from a dump, over the columns C.
IsForm(l, C) ==
  /\ l \in [coef : {l.coef}, const : Int] /\ l.coef \in [DOMAIN l.coef -> Int]
  /\ Columns(l) \subseteq C /\ \A x \in Columns(l) : l.coef[x] % P # 0
IsSequence(s) == s \in Seq(ToSet(s))
IsExpression(e, C) ==
  IsSequence(e) /\ \A p \in ToSet(e) : IsSequence(p) /\ \A f \in ToSet(p) : IsForm(f, C)
IsCheck(k, C) ==
  /\ IsExpression(k.mult, C) /\ IsSequence(k.args) /\ \A e \in ToSet(k.args) : IsExpression(e, C)
  /\ k.bus = "var" => k.width \in Nat /\ Len(k.args) >= 1
IsMessage(r, C) ==
  /\ r \in [mult : {r.mult}, space : {r.space}, ptr : {r.ptr}, data : {r.data}, ts : {r.ts}]
  /\ \A e \in {r.mult, r.space, r.ptr, r.ts} \cup ToSet(r.data) : IsExpression(e, C)
  /\ IsSequence(r.data)
IsStep(d, C) == d.from \in C /\ d.to \in C /\ d.by \in Int
IsCircuit(c) ==
  LET C == ToSet(c.cols)
  IN  /\ IsSequence(c.cols) /\ \A i, j \in DOMAIN c.cols : c.cols[i] = c.cols[j] => i = j
      /\ IsSequence(c.cons) /\ \A e \in Constraints(c) : IsExpression(e, C)
      /\ IsSequence(c.checks) /\ \A k \in ToSet(c.checks) : IsCheck(k, C)
      /\ IsSequence(c.rows) /\ \A r \in ToSet(c.rows) : IsMessage(r, C)
      /\ IsFiniteSet(c.subs) /\ \A d \in c.subs : IsStep(d, C)
      /\ IsFiniteSet(DOMAIN c.load) /\ \A a \in DOMAIN c.load : c.load[a] \in C /\ c.flags[a] \subseteq C
      /\ c.times \cap c.valid = {}

\* ACTIVE_SELECTOR: the column that gates every interaction is the one that is
\* assumed to be one.
SelectorIsValid(c) == c.assumed => ActiveSelector(c) \subseteq c.valid

\* is_load is read off two values of its constraint, as a linear one.
OneFactorWith(x, p) == \A j, k \in DOMAIN p : x \in Columns(p[j]) /\ x \in Columns(p[k]) => j = k
LoadIsLinear(c) == \A a \in DOMAIN c.load : \A e \in Mux(c, c.load[a]) : \A i \in DOMAIN e : OneFactorWith(c.load[a], e[i])

\* What decides the survivors of an access reads only its flags and what is
\* pinned: surviving_envs reads any other column as zero and does not ask.
FlagsDecide(c) ==
  \A a \in DOMAIN c.load :
    c.load[a] \in DOMAIN Pins(c) /\ HasDomain(StaticBounds(c), c.flags[a])
      => Covered(Deciding(c, c.load[a], c.flags[a]), c.flags[a] \cup DOMAIN Pins(c))

\* What is extracted first, and TS_BOUND: what is taken for a clock is one.
KnownOf(c) == Propagation(c, Pins(c))
KindsOf(c) == Kinds(c, KnownOf(c))
AliasesOf(c) == Aliases(c, KindsOf(c))
FoldedRows(c) == [i \in DOMAIN c.rows |-> SimplifiedRow(c, KnownOf(c), AliasesOf(c), c.rows[i])]
ClocksOf(c) == Clocks(c, FoldedRows(c), KindsOf(c))
WitnessesOf(c) == Witnesses(FoldedRows(c), KindsOf(c))
ClocksAreTimes(c) == DOMAIN ClocksOf(c) \cup WitnessesOf(c) \subseteq c.times

IsGranted(c) == SelectorIsValid(c) /\ LoadIsLinear(c) /\ FlagsDecide(c) /\ ClocksAreTimes(c)
AllGranted == PrimeField /\ \A n \in DOMAIN Dumps : IsCircuit(Dumps[n]) /\ IsGranted(Dumps[n])
=============================================================================
