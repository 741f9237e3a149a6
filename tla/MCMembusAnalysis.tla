-------------------------- MODULE MCMembusAnalysis --------------------------
(* Blocks of two accesses (receive, send, receive, send) with an input, an   *)
(* output and an interior pair, with two cells, or with a disabled access;   *)
(* the optimized circuit keeps all of it, or drops the interior pair.  The    *)
(* facts are the whole truth or parts of it.                                 *)
EXTENDS MembusAnalysis

B == <<"b0", "b1", "b2", "b3">>
A == <<"a0", "a1", "a2", "a3">>
Stamps == <<"t0", "t1", "t2", "t3">>

\* A trace of four interactions: partners, multiplicities, cells and times.
Chain == [partner |-> <<1, 3, 2, 4>>, mult |-> <<-1, 1, -1, 1>>,
          space |-> <<1, 1, 1, 1>>, ptr |-> <<8, 8, 8, 8>>, time |-> <<0, 1, 1, 2>>]
TwoCells == [partner |-> <<1, 2, 3, 4>>, mult |-> <<-1, 1, -1, 1>>,
             space |-> <<1, 1, 1, 1>>, ptr |-> <<8, 8, 12, 12>>, time |-> <<0, 2, 1, 3>>]
Idle == [partner |-> <<1, 2, 3, 4>>, mult |-> <<-1, 1, 0, 0>>,
         space |-> <<1, 1, 1, 1>>, ptr |-> <<8, 8, 8, 8>>, time |-> <<0, 1, 1, 2>>]

Blocks == {[b |-> {1, 2, 3, 4}, a |-> {1, 2, 3, 4}, t |-> t] : t \in {Chain, TwoCells, Idle}}
           \cup {[b |-> {1, 2, 3, 4}, a |-> {1, 4}, t |-> Chain]}

IdsOf(bl) == {B[n] : n \in bl.b} \cup {A[n] : n \in bl.a}
Pos(i) == CHOOSE n \in 1..4 : i \in {A[n], B[n]}
SideOf(i) == IF i \in {B[n] : n \in 1..4} THEN "before" ELSE "after"
TraceOf(bl) ==
  [partner |-> [i \in IdsOf(bl) |-> (IF SideOf(i) = "before" THEN B ELSE A)[bl.t.partner[Pos(i)]]],
   mult  |-> [i \in IdsOf(bl) |-> bl.t.mult[Pos(i)]],
   space |-> [i \in IdsOf(bl) |-> bl.t.space[Pos(i)]],
   ptr   |-> [i \in IdsOf(bl) |-> bl.t.ptr[Pos(i)]],
   time  |-> [i \in IdsOf(bl) |-> bl.t.time[Pos(i)]],
   data  |-> [i \in IdsOf(bl) |-> 0],
   base  |-> [b \in {"const"} |-> 0],
   stamp |-> [t \in {Stamps[n] : n \in 1..4} |-> (CHOOSE n \in 1..4 : Stamps[n] = t) - 1]]

\* What is reported (know): keys, times, constant multiplicities per side,
\* rows of membus solve, and whether they are forced.  The time of a disabled
\* interaction is not what its column holds.
Fact(bl, i, know) ==
  LET w == TraceOf(bl)
      removed == SideOf(i) = "before" /\ Pos(i) \notin bl.a
      role == RoleIn(w, i)
      solved == i \in know.solved
  IN [side |-> SideOf(i), removed |-> removed, inert |-> FALSE,
      kind |-> IF w.mult[i] = -1 THEN "recv" ELSE IF w.mult[i] = 1 THEN "send"
               ELSE IF "kinds" \in know.what THEN "disabled" ELSE "none",
      space |-> IF "keys" \in know.what THEN w.space[i] ELSE 0,
      key |-> IF "keys" \in know.what THEN [base |-> "const", offset |-> w.ptr[i]]
              ELSE [base |-> "none", offset |-> 0],
      time |-> IF "times" \notin know.what THEN [kind |-> "none", at |-> 0]
               ELSE [kind |-> IF w.mult[i] = -1 THEN "upper" ELSE "exact",
                     at |-> IF w.mult[i] = 0 THEN w.time[i] + 1 ELSE w.time[i]],
      stamp |-> IF "stamps" \in know.what
                THEN Stamps[w.time[i] + 1] ELSE "none",
      mult |-> IF SideOf(i) \notin know.consts THEN "sym"
               ELSE IF w.mult[i] = -1 THEN "minus" ELSE IF w.mult[i] = 1 THEN "plus" ELSE "zero",
      io |-> IF ~solved \/ role \notin Boundary THEN "none"
             ELSE IF role = "input" THEN "in" ELSE "out",
      forced |-> solved /\ know.forced,
      partners |-> IF removed \/ (solved /\ role = "match") THEN {w.partner[i]} ELSE {}]

Scene(bl, know, active) ==
  [facts |-> [i \in IdsOf(bl) |-> Fact(bl, i, know)],
   edges |-> {<<"t0", "t1">>, <<"t1", "t2">>, <<"t2", "t3">>},
   trace |-> TraceOf(bl),
   kept  |-> [i \in {B[n] : n \in bl.a} |-> A[Pos(i)]],
   rows  |-> [before |-> B, after |-> SelectSeq(A, LAMBDA i : Pos(i) \in bl.a)],
   guess |-> <<>>, active |-> active, ran |-> TRUE, lax |-> TRUE]

Know(what, consts, solved, forced) ==
  [what |-> what, consts |-> consts, solved |-> solved, forced |-> forced]
Partial == {Know(what, {"before"}, {}, TRUE) :
              what \in {{"kinds"}, {"kinds", "keys"}, {"keys", "times"}, {"stamps"}}}
Solved == {Know({"kinds"}, {"before"}, {"b0", "a1"}, TRUE),
           Know({"keys", "times"}, {}, {"b0", "a1"}, TRUE),
           Know({"keys"}, {"before", "after"}, {"b0", "b3"}, FALSE)}
Params == [bl : Blocks, k : Partial \cup Solved, a : {TRUE}]
          \cup [bl : Blocks, k : Solved, a : {FALSE}]
MCScenes == {Scene(p.bl, p.k, p.a) : p \in Params}
=============================================================================
