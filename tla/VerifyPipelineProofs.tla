------------------------ MODULE VerifyPipelineProofs ------------------------
(***************************************************************************)
(* A pair is reported as verified only if every VC of it was checked and   *)
(* answered as expected, for any number of pairs, VCs and jobs.  The       *)
(* argument: as long as no action of a unit failed, the VCs before the     *)
(* current one are checked; a failure stays in the statuses, and no other  *)
(* status outranks all failures.                                           *)
(***************************************************************************)
EXTENDS VerifyPipeline, TLAPS

Bad == Failures \cup {"wrong"}
CheckedBelow(u, k) == \A v \in 1..Vcs[u] : v < k => <<v, "success">> \in answers[u]
SomeWrong(u) == \E v \in Nat : <<v, "wrong">> \in answers[u]
Active(w) == stage[w] # "idle"

\* A unit is at work in one thread, which has bound its arguments.
UnitInv ==
  \A w \in Workers : Active(w) =>
    /\ unit[w] \in 1..next /\ unit[w] \notin broken
    /\ bound[w] = BlockOf[unit[w]]
    /\ Running(w) => process[w] = bound[w]
    /\ \A x \in Workers : Active(x) /\ unit[x] = unit[w] => x = w
IdleInv == \A w \in Workers : ~Active(w) => process[w] = NoArgs /\ statuses[w] = {} /\ vc[w] = 0
\* What the statuses collected so far say of the VCs.
StatusOf(w) ==
    /\ stage[w] = "encode" => statuses[w] = {} /\ answers[unit[w]] = {} /\ vc[w] = 0
    /\ stage[w] # "encode" => "success" \in statuses[w] \/ statuses[w] \cap Failures # {}
    /\ stage[w] \in {"simplify", "check"} /\ statuses[w] \cap Bad = {} => CheckedBelow(unit[w], vc[w])
    /\ stage[w] = "dump" /\ statuses[w] \cap Bad = {}
         => \A v \in 1..Vcs[unit[w]] : <<v, "success">> \in answers[unit[w]]
    /\ SomeWrong(unit[w]) => "wrong" \in statuses[w]
StatusInv == \A w \in Workers : Active(w) => StatusOf(w)
FreshInv == \A u \in Units : u > next => answers[u] = {} /\ u \notin broken /\ report[u] = "absent"
\* A unit that was taken up is at work or has a report.
TakenInv ==
  \A u \in 1..next : report[u] = "absent" <=> \E w \in Workers : Active(w) /\ unit[w] = u
EndInv == /\ main \in {"over", "cut"} => \A w \in Workers : ~Active(w)
          /\ main = "over" => next = N
          /\ Pool \/ submitted = N

Inv == /\ TypeOK /\ UnitInv /\ IdleInv /\ StatusInv /\ FreshInv /\ TakenInv /\ EndInv
       /\ SuccessMeansVerified /\ WrongNeverHidden

-----------------------------------------------------------------------------
\* What a report of several statuses comes to.
LEMMA FoldFacts ==
  ASSUME NEW S \in SUBSET Statuses
  PROVE  /\ Fold(S) \in Statuses
         /\ "wrong" \in S => Fold(S) = "wrong"
         /\ Fold(S) = "success" => S \cap Bad = {}
<1>1. CASE S \subseteq {"none"}
  BY <1>1 DEF Fold, FoldRanked, Statuses, Simplified, Bad, Failures, CheckAnswers
<1>2. CASE ~(S \subseteq {"none"}) /\ \E s \in S : S \ {"none"} = {s}
  <2>1. PICK s \in S : S \ {"none"} = {s}
    BY <1>2
  <2>2. \A t \in S : S \ {"none"} = {t} <=> t = s
    BY <2>1
  <2>3. Fold(S) = s
    BY <1>2, <2>1, <2>2 DEF Fold, FoldRanked
  <2>4. QED
    BY <2>1, <2>3 DEF Bad, Failures
<1>3. CASE ~(S \subseteq {"none"}) /\ ~\E s \in S : S \ {"none"} = {s}
  BY <1>3 DEF Fold, FoldRanked, Statuses, Simplified, Bad, Failures, CheckAnswers
<1>4. QED
  BY <1>1, <1>2, <1>3

LEMMA PipeInit == Init => Inv
<1> SUFFICES ASSUME Init PROVE Inv
  OBVIOUS
<1>1. TypeOK
  BY PipelineAssumption DEF Init, TypeOK, Workers, Units, NoArgs
<1>2. \A w \in Workers : ~Active(w)
  BY DEF Init, Active
<1>3. QED
  BY <1>1, <1>2, PipelineAssumption
  DEF Init, Inv, UnitInv, IdleInv, StatusInv, FreshInv, TakenInv, EndInv, Pool, Units,
      SuccessMeansVerified, WrongNeverHidden

-----------------------------------------------------------------------------
\* The pool.

LEMMA SubmitStep == Inv /\ Submit => Inv'
<1> SUFFICES ASSUME Inv, Submit PROVE Inv'
  OBVIOUS
<1>1. /\ main = "running" /\ submitted < N /\ submitted' = submitted + 1
      /\ UNCHANGED <<command, jobs, main, next, unit, stage, vc, bound, process, statuses, books>>
  BY DEF Submit
<1>2. TypeOK'
  BY <1>1, PipelineAssumption DEF Inv, TypeOK, Workers, books
<1>3. Pool
  BY <1>1, PipelineAssumption DEF Inv, EndInv, TypeOK
<1>4. QED
  BY <1>1, <1>2, <1>3
  DEF Inv, UnitInv, IdleInv, StatusInv, StatusOf, FreshInv, TakenInv, EndInv, Pool, Workers, Active,
      Running, CheckedBelow, SomeWrong, SuccessMeansVerified, WrongNeverHidden, books

LEMMA TakeStep == ASSUME Inv, NEW w \in Workers, Take(w) PROVE Inv'
<1> DEFINE u == next + 1
<1>1. /\ stage[w] = "idle" /\ next < submitted /\ next' = u
      /\ main \in {"running", "waiting"}
      /\ unit' = [unit EXCEPT ![w] = u]
      /\ bound' = [bound EXCEPT ![w] = BlockOf[u]]
      /\ stage' = [stage EXCEPT ![w] = "encode"]
      /\ UNCHANGED <<command, jobs, main, submitted, vc, process, statuses, books>>
  BY DEF Take, Bind
<1>2. u \in Units /\ next \in Nat /\ u \in Nat /\ submitted \in Nat /\ u <= submitted /\ N \in Nat
  BY <1>1, PipelineAssumption DEF Inv, TypeOK, Units
<1>3. answers[u] = {} /\ u \notin broken /\ report[u] = "absent" /\ BlockOf[u] \in Blocks
  BY <1>2, PipelineAssumption DEF Inv, FreshInv
<1>4. TypeOK'
  <2>1. /\ next' \in 0..submitted /\ unit' \in [Workers -> 0..N]
        /\ bound' \in [Workers -> Blocks \cup {NoArgs}]
        /\ stage' \in [Workers -> {"idle", "encode", "simplify", "check", "dump"}]
    BY <1>1, <1>2, <1>3 DEF Inv, TypeOK, Units
  <2>2. \A x \in Workers : stage'[x] \in {"simplify", "check"} => vc'[x] \in 1..Vcs[unit'[x]]
    BY <1>1 DEF Inv, TypeOK
  <2>3. QED
    BY <1>1, <2>1, <2>2 DEF Inv, TypeOK, Workers, books
<1>5. Active(w)' /\ ~Active(w) /\ unit'[w] = u /\ bound'[w] = BlockOf[u] /\ stage'[w] = "encode"
      /\ \A x \in Workers \ {w} : stage'[x] = stage[x] /\ unit'[x] = unit[x] /\ bound'[x] = bound[x]
                                  /\ (Active(x)' <=> Active(x))
  BY <1>1 DEF Inv, TypeOK, Active
<1>6. UnitInv'
  <2>1. \A x \in Workers \ {w} : Active(x) => unit[x] # u
    BY <1>2 DEF Inv, UnitInv
  <2>2. process[w] = NoArgs
    BY <1>1 DEF Inv, IdleInv, Active
  <2>3. u \in 1..next' /\ 1..next \subseteq 1..next'
    BY <1>1, <1>2
  <2>4. QED
    BY <1>1, <1>3, <1>5, <2>1, <2>2, <2>3 DEF Inv, UnitInv, Workers, Running, books
<1>7. IdleInv'
  BY <1>1, <1>5 DEF Inv, IdleInv, Workers
<1>8. StatusInv'
  <2>1. statuses[w] = {} /\ vc[w] = 0
    BY <1>5 DEF Inv, IdleInv
  <2>2. StatusOf(w)'
    BY <1>1, <1>3, <1>5, <2>1 DEF StatusOf, SomeWrong, books
  <2>3. ASSUME NEW x \in Workers \ {w}, Active(x) PROVE StatusOf(x)'
    <3>1. StatusOf(x)
      BY <2>3 DEF Inv, StatusInv
    <3>2. QED
      BY <1>1, <1>5, <3>1 DEF StatusOf, CheckedBelow, SomeWrong, books
  <2>4. QED
    BY <1>1, <1>5, <2>2, <2>3 DEF StatusInv, Workers
<1>9. FreshInv'
  BY <1>1, <1>2 DEF Inv, FreshInv, books, Units
<1>10. TakenInv'
  <2> SUFFICES ASSUME NEW x \in 1..next'
               PROVE  report'[x] = "absent" <=> \E y \in Workers' : Active(y)' /\ unit'[y] = x
    BY DEF TakenInv
  <2>1. x \in 1..next \/ x = u
    BY <1>1, <1>2
  <2>2. CASE x = u
    BY <1>1, <1>3, <1>5, <2>2 DEF Workers, books
  <2>3. CASE x \in 1..next
    <3>1. x # u
      BY <1>2, <2>3
    <3>2. report[x] = "absent" <=> \E y \in Workers : Active(y) /\ unit[y] = x
      BY <2>3 DEF Inv, TakenInv
    <3>3. QED
      BY <1>1, <1>5, <3>1, <3>2 DEF Workers, books
  <2>4. QED
    BY <2>1, <2>2, <2>3
<1>11. EndInv' /\ SuccessMeansVerified' /\ WrongNeverHidden'
  BY <1>1 DEF Inv, EndInv, Pool, SuccessMeansVerified, WrongNeverHidden, books
<1>12. QED
  BY <1>4, <1>6, <1>7, <1>8, <1>9, <1>10, <1>11 DEF Inv

LEMMA AllDoneStep == Inv /\ AllDone => Inv'
<1> SUFFICES ASSUME Inv, AllDone PROVE Inv'
  OBVIOUS
<1>1. /\ next = submitted /\ (\A w \in Workers : stage[w] = "idle")
      /\ main' \in {"over", "cut"} /\ (main' = "over" => submitted = N)
      /\ UNCHANGED <<command, jobs, submitted, next, unit, stage, vc, bound, process, statuses, books>>
  BY DEF AllDone
<1>2. TypeOK'
  BY <1>1 DEF Inv, TypeOK, Workers, books
<1>3. QED
  BY <1>1, <1>2
  DEF Inv, UnitInv, IdleInv, StatusInv, StatusOf, FreshInv, TakenInv, EndInv, Pool, Workers, Active,
      Running, CheckedBelow, SomeWrong, SuccessMeansVerified, WrongNeverHidden, books

-----------------------------------------------------------------------------
\* A work unit: what all its steps keep.

LEMMA StartStep == ASSUME Inv, NEW w \in Workers, Start(w) PROVE Inv'
<1>1. /\ Active(w) /\ process' = [process EXCEPT ![w] = bound[w]]
      /\ UNCHANGED <<tasks, unit, stage, vc, bound, statuses, books>>
  BY DEF Start, Active
<1>2. TypeOK'
  BY <1>1 DEF Inv, TypeOK, Workers, books, tasks
<1>3. UnitInv' /\ IdleInv'
  BY <1>1 DEF Inv, TypeOK, UnitInv, IdleInv, Workers, Active, Running, books, tasks
<1>4. QED
  BY <1>1, <1>2, <1>3
  DEF Inv, StatusInv, StatusOf, FreshInv, TakenInv, EndInv, Pool, Workers, Active,
      CheckedBelow, SomeWrong, SuccessMeansVerified, WrongNeverHidden, books, tasks

LEMMA ReportsKeeps ==
  ASSUME Inv, NEW w \in Workers, Active(w),
         NEW s \in Statuses, NEW then \in {"simplify", "check", "dump"}, NEW v \in Nat,
         Reports(w, s, then, v), then # "dump" => v \in 1..Vcs[unit[w]],
         NEW A \in SUBSET (Nat \X CheckAnswers), answers' = [answers EXCEPT ![unit[w]] = A],
         StatusOf(w)'
  PROVE  Inv'
<1> DEFINE u == unit[w]
<1>1. /\ process' = [process EXCEPT ![w] = NoArgs]
      /\ statuses' = [statuses EXCEPT ![w] = @ \cup {s}]
      /\ stage' = [stage EXCEPT ![w] = then]
      /\ vc' = [vc EXCEPT ![w] = v]
      /\ UNCHANGED <<tasks, unit, bound, report, broken>>
  BY DEF Reports
<1>2. u \in 1..next /\ u \in Units /\ report[u] = "absent"
  BY DEF Inv, UnitInv, TakenInv, TypeOK, Units
<1>3. /\ \A x \in Workers \ {w} : stage'[x] = stage[x] /\ process'[x] = process[x]
                                 /\ statuses'[x] = statuses[x] /\ vc'[x] = vc[x]
      /\ stage'[w] = then /\ process'[w] = NoArgs /\ vc'[w] = v
      /\ \A x \in Workers : Active(x)' <=> Active(x)
      /\ Workers' = Workers
  BY <1>1 DEF Inv, TypeOK, Active, Workers, tasks
<1>4. TypeOK'
  <2>1. statuses' \in [Workers -> SUBSET Statuses]
    BY <1>1 DEF Inv, TypeOK
  <2>2. \A x \in Workers : stage'[x] \in {"simplify", "check"} => vc'[x] \in 1..Vcs[unit'[x]]
    BY <1>1, <1>3 DEF Inv, TypeOK
  <2>3. answers' \in [Units -> SUBSET (Nat \X CheckAnswers)]
    BY <1>2 DEF Inv, TypeOK
  <2>4. stage' \in [Workers -> {"idle", "encode", "simplify", "check", "dump"}]
        /\ vc' \in [Workers -> Nat] /\ process' \in [Workers -> Blocks \cup {NoArgs}]
    BY <1>1 DEF Inv, TypeOK
  <2>5. QED
    BY <1>1, <1>3, <2>1, <2>2, <2>3, <2>4 DEF Inv, TypeOK, tasks
<1>5. UnitInv' /\ IdleInv'
  BY <1>1, <1>3 DEF Inv, UnitInv, IdleInv, Running, tasks
<1>6. FreshInv'
  <2>1. \A x \in Units : x > next => x # u
    BY <1>2 DEF Inv, TypeOK, Units
  <2>2. QED
    BY <1>1, <1>2, <2>1 DEF Inv, TypeOK, FreshInv, tasks
<1>7. TakenInv' /\ EndInv'
  BY <1>1, <1>3 DEF Inv, TakenInv, EndInv, Pool, tasks
<1>8. SuccessMeansVerified' /\ WrongNeverHidden'
  BY <1>1, <1>2 DEF Inv, TypeOK, SuccessMeansVerified, WrongNeverHidden
<1>9. StatusInv'
  <2> SUFFICES ASSUME NEW x \in Workers \ {w}, Active(x) PROVE StatusOf(x)'
    BY <1>3 DEF StatusInv
  <2>1. StatusOf(x) /\ unit[x] # u /\ unit[x] \in Units
    BY DEF Inv, StatusInv, UnitInv, TypeOK, Units
  <2>2. answers'[unit[x]] = answers[unit[x]]
    BY <1>2, <2>1 DEF Inv, TypeOK
  <2>3. QED
    BY <1>1, <1>3, <2>1, <2>2 DEF StatusOf, CheckedBelow, SomeWrong, Workers
<1>10. QED
  BY <1>4, <1>5, <1>6, <1>7, <1>8, <1>9 DEF Inv

LEMMA LeaveKeeps ==
  ASSUME Inv, NEW w \in Workers, Active(w), NEW s \in Statuses, NEW cut \in BOOLEAN,
         Leave(w, s, cut), main' \in {"running", "waiting", "over", "cut"}, EndInv',
         ~cut /\ s = "success" => \A v \in 1..Vcs[unit[w]] : <<v, "success">> \in answers[unit[w]],
         SomeWrong(unit[w]) => s = "wrong" \/ (cut /\ s \in {"error", "memout"})
  PROVE  Inv'
<1> DEFINE u == unit[w]
<1>1. /\ report' = [report EXCEPT ![u] = s]
      /\ broken' = IF cut THEN broken \cup {u} ELSE broken
      /\ unit' = [unit EXCEPT ![w] = 0] /\ vc' = [vc EXCEPT ![w] = 0]
      /\ stage' = [stage EXCEPT ![w] = "idle"]
      /\ process' = [process EXCEPT ![w] = NoArgs]
      /\ statuses' = [statuses EXCEPT ![w] = {}]
      /\ UNCHANGED <<command, jobs, submitted, next, bound, answers>>
  BY DEF Leave, Freed
<1>2. u \in 1..next /\ u \in Units /\ report[u] = "absent" /\ u \notin broken
      /\ \A x \in Workers : Active(x) /\ unit[x] = u => x = w
  BY DEF Inv, UnitInv, TakenInv, TypeOK, Units
<1>3. /\ \A x \in Workers \ {w} : /\ stage'[x] = stage[x] /\ process'[x] = process[x]
                                 /\ statuses'[x] = statuses[x] /\ vc'[x] = vc[x]
                                 /\ unit'[x] = unit[x] /\ (Active(x)' <=> Active(x))
      /\ stage'[w] = "idle" /\ process'[w] = NoArgs /\ statuses'[w] = {} /\ vc'[w] = 0 /\ ~Active(w)'
      /\ Workers' = Workers
  BY <1>1 DEF Inv, TypeOK, Active, Workers
<1>4. TypeOK'
  <2>1. unit' \in [Workers -> 0..N] /\ vc' \in [Workers -> Nat]
        /\ stage' \in [Workers -> {"idle", "encode", "simplify", "check", "dump"}]
        /\ process' \in [Workers -> Blocks \cup {NoArgs}]
        /\ statuses' \in [Workers -> SUBSET Statuses]
    BY <1>1, PipelineAssumption DEF Inv, TypeOK
  <2>2. \A x \in Workers : stage'[x] \in {"simplify", "check"} => vc'[x] \in 1..Vcs[unit'[x]]
    BY <1>1, <1>3 DEF Inv, TypeOK
  <2>3. report' \in [Units -> Statuses \cup {"absent"}] /\ broken' \subseteq Units
    BY <1>1, <1>2 DEF Inv, TypeOK
  <2>4. QED
    BY <1>1, <1>3, <2>1, <2>2, <2>3 DEF Inv, TypeOK
<1>5. UnitInv' /\ IdleInv'
  <2>1. \A x \in Workers : Active(x)' => x # w /\ unit[x] # u
    BY <1>2, <1>3
  <2>2. UnitInv'
    BY <1>1, <1>3, <2>1 DEF Inv, UnitInv, Running
  <2>3. IdleInv'
    BY <1>3 DEF Inv, IdleInv
  <2>4. QED
    BY <2>2, <2>3
<1>6. StatusInv'
  <2> SUFFICES ASSUME NEW x \in Workers, Active(x)' PROVE StatusOf(x)'
    BY <1>3 DEF StatusInv
  <2>1. x # w /\ Active(x) /\ StatusOf(x)
    BY <1>3 DEF Inv, StatusInv
  <2>2. QED
    BY <1>1, <1>3, <2>1 DEF StatusOf, CheckedBelow, SomeWrong
<1>7. FreshInv'
  <2>1. \A x \in Units : x > next => x # u
    BY <1>2 DEF Inv, TypeOK, Units
  <2>2. QED
    BY <1>1, <1>2, <2>1 DEF Inv, TypeOK, FreshInv
<1>8. TakenInv'
  <2> SUFFICES ASSUME NEW x \in 1..next
               PROVE  report'[x] = "absent" <=> \E y \in Workers : Active(y)' /\ unit'[y] = x
    BY <1>1, <1>3 DEF TakenInv
  <2>1. CASE x = u
    <3>1. s # "absent" /\ report'[x] = s
      BY <1>1, <1>2, <2>1
      DEF Inv, TypeOK, Statuses, Simplified, CheckAnswers, Failures
    <3>2. QED
      BY <1>2, <1>3, <2>1, <3>1
  <2>2. CASE x # u
    <3>1. report[x] = "absent" <=> \E y \in Workers : Active(y) /\ unit[y] = x
      BY DEF Inv, TakenInv
    <3>2. report'[x] = report[x]
      BY <1>1, <2>2
    <3>3. QED
      BY <1>3, <2>2, <3>1, <3>2
  <2>3. QED
    BY <2>1, <2>2
<1>9. SuccessMeansVerified'
  <2> SUFFICES ASSUME NEW x \in Units \ broken', report'[x] = "success", NEW v \in 1..Vcs[x]
               PROVE  <<v, "success">> \in answers'[x]
    BY DEF SuccessMeansVerified
  <2>1. CASE x = u
    BY <1>1, <1>2, <2>1 DEF Inv, TypeOK
  <2>2. CASE x # u
    BY <1>1, <1>2, <2>2 DEF Inv, TypeOK, SuccessMeansVerified
  <2>3. QED
    BY <2>1, <2>2
<1>10. WrongNeverHidden'
  <2> SUFFICES ASSUME NEW x \in Units, NEW v \in 1..Vcs[x], <<v, "wrong">> \in answers'[x]
               PROVE  report'[x] \in {"absent", "wrong"}
                                    \cup IF x \in broken' THEN {"error", "memout"} ELSE {}
    BY DEF WrongNeverHidden
  <2>1. CASE x = u
    <3>1. report'[x] = s /\ (cut => x \in broken')
      BY <1>1, <1>2, <2>1 DEF Inv, TypeOK
    <3>2. v \in Nat
      BY PipelineAssumption
    <3>3. s = "wrong" \/ (cut /\ s \in {"error", "memout"})
      BY <1>1, <2>1, <3>2 DEF SomeWrong
    <3>4. QED
      BY <3>1, <3>3
  <2>2. CASE x # u
    <3>1. report'[x] = report[x] /\ (x \in broken' <=> x \in broken)
      BY <1>1, <2>2
    <3>2. QED
      BY <1>1, <3>1 DEF Inv, WrongNeverHidden
  <2>3. QED
    BY <2>1, <2>2
<1>11. QED
  BY <1>4, <1>5, <1>6, <1>7, <1>8, <1>9, <1>10 DEF Inv

-----------------------------------------------------------------------------
\* The steps of a work unit.

\* What a process that ended leaves behind, in the terms of StatusOf.
LEMMA ReportsFacts ==
  ASSUME Inv, NEW w \in Workers, Active(w), NEW s, NEW then, NEW v, Reports(w, s, then, v)
  PROVE  /\ StatusOf(w) /\ unit' = unit /\ unit[w] \in Units /\ Vcs[unit[w]] \in Nat
         /\ statuses'[w] = statuses[w] \cup {s} /\ stage'[w] = then /\ vc'[w] = v
         /\ vc[w] \in Nat /\ answers \in [Units -> SUBSET (Nat \X CheckAnswers)]
         /\ answers = [answers EXCEPT ![unit[w]] = answers[unit[w]]]
         /\ answers[unit[w]] \in SUBSET (Nat \X CheckAnswers)
         /\ stage[w] \in {"simplify", "check"} => vc[w] \in 1..Vcs[unit[w]]
<1>1. unit[w] \in Units
  BY DEF Inv, UnitInv, TypeOK, Units
<1>2. QED
  BY <1>1, PipelineAssumption DEF Reports, Inv, TypeOK, StatusInv

LEMMA EncodedStep == ASSUME Inv, NEW w \in Workers, Encoded(w) PROVE Inv'
<1>1. Active(w) /\ stage[w] = "encode" /\ Reports(w, "success", AtNextVc(w), 1) /\ answers' = answers
  BY DEF Encoded, Process, Active
<1>2. vc[w] = 0 /\ Vcs[unit[w]] \in Nat /\ statuses[w] = {} /\ answers[unit[w]] = {}
  BY <1>1, ReportsFacts DEF StatusOf
<1>3. AtNextVc(w) \in {"simplify", "dump"} /\ (AtNextVc(w) # "dump" => 1 \in 1..Vcs[unit[w]])
      /\ (AtNextVc(w) = "dump" => Vcs[unit[w]] = 0)
  BY <1>2 DEF AtNextVc
<1>4. StatusOf(w)'
  <2>1. /\ unit' = unit /\ statuses'[w] = {"success"} /\ vc'[w] = 1 /\ answers'[unit[w]] = {}
        /\ stage'[w] \in {"simplify", "dump"} /\ (stage'[w] = "dump" => Vcs[unit[w]] = 0)
    BY <1>1, <1>2, <1>3, ReportsFacts
  <2>2. \A v \in 1..Vcs[unit[w]] : ~(v < 1)
    BY <1>2
  <2>3. QED
    BY <1>2, <2>1, <2>2 DEF StatusOf, CheckedBelow, SomeWrong
<1>5. "success" \in Statuses /\ 1 \in Nat
  BY DEF Statuses, Simplified
<1>6. answers' = [answers EXCEPT ![unit[w]] = answers[unit[w]]]
      /\ answers[unit[w]] \in SUBSET (Nat \X CheckAnswers)
  BY <1>1, ReportsFacts
<1>7. QED
  BY <1>1, <1>3, <1>4, <1>5, <1>6, ReportsKeeps

LEMMA EncodeFailsStep == ASSUME Inv, NEW w \in Workers, EncodeFails(w) PROVE Inv'
<1>1. PICK f \in Failures :
        Active(w) /\ stage[w] = "encode" /\ Reports(w, f, "dump", 0) /\ answers' = answers
  BY DEF EncodeFails, Process, Active
<1>2. statuses[w] = {} /\ answers[unit[w]] = {}
  BY <1>1, ReportsFacts DEF StatusOf
<1>3. StatusOf(w)'
  <2>1. /\ unit' = unit /\ statuses'[w] = {f} /\ stage'[w] = "dump" /\ answers'[unit[w]] = {}
    BY <1>1, <1>2, ReportsFacts
  <2>2. QED
    BY <2>1 DEF StatusOf, SomeWrong, Bad
<1>4. f \in Statuses /\ 0 \in Nat
  BY DEF Statuses, CheckAnswers
<1>5. answers' = [answers EXCEPT ![unit[w]] = answers[unit[w]]]
      /\ answers[unit[w]] \in SUBSET (Nat \X CheckAnswers)
  BY <1>1, ReportsFacts
<1>6. QED
  BY <1>1, <1>3, <1>4, <1>5, ReportsKeeps

LEMMA SimplifyEndsStep == ASSUME Inv, NEW w \in Workers, SimplifyEnds(w) PROVE Inv'
<1>1. PICK s \in Simplified :
        Active(w) /\ stage[w] = "simplify" /\ Reports(w, s, "check", vc[w]) /\ answers' = answers
  BY DEF SimplifyEnds, Process, Active
<1>2. StatusOf(w) /\ vc[w] \in 1..Vcs[unit[w]] /\ vc[w] \in Nat
  BY <1>1, ReportsFacts
<1>3. StatusOf(w)'
  <2>1. /\ unit' = unit /\ statuses'[w] = statuses[w] \cup {s} /\ stage'[w] = "check"
        /\ vc'[w] = vc[w] /\ answers' = answers
    BY <1>1, ReportsFacts
  <2>2. QED
    BY <1>1, <1>2, <2>1 DEF StatusOf, CheckedBelow, SomeWrong
<1>4. s \in Statuses
  BY DEF Statuses
<1>5. answers' = [answers EXCEPT ![unit[w]] = answers[unit[w]]]
      /\ answers[unit[w]] \in SUBSET (Nat \X CheckAnswers)
  BY <1>1, ReportsFacts
<1>6. QED
  BY <1>1, <1>2, <1>3, <1>4, <1>5, ReportsKeeps

\* Where a unit turns after a VC.
LEMMA NextVcFacts ==
  ASSUME Inv, NEW w \in Workers, vc[w] \in 1..Vcs[unit[w]], Vcs[unit[w]] \in Nat
  PROVE  /\ AtNextVc(w) \in {"simplify", "dump"} /\ vc[w] + 1 \in Nat
         /\ AtNextVc(w) # "dump" => vc[w] + 1 \in 1..Vcs[unit[w]]
         /\ AtNextVc(w) = "dump" => vc[w] = Vcs[unit[w]]
BY DEF AtNextVc

LEMMA SimplifyFailsStep == ASSUME Inv, NEW w \in Workers, SimplifyFails(w) PROVE Inv'
<1>1. PICK f \in Failures :
        /\ Active(w) /\ stage[w] = "simplify" /\ Reports(w, f, AtNextVc(w), vc[w] + 1)
        /\ answers' = answers
  BY DEF SimplifyFails, Process, Active
<1>2. StatusOf(w) /\ vc[w] \in 1..Vcs[unit[w]] /\ Vcs[unit[w]] \in Nat
  BY <1>1, ReportsFacts
<1>3. StatusOf(w)'
  <2>1. /\ unit' = unit /\ statuses'[w] = statuses[w] \cup {f} /\ answers' = answers
        /\ stage'[w] \in {"simplify", "dump"}
    BY <1>1, <1>2, ReportsFacts, NextVcFacts
  <2>2. statuses'[w] \cap Failures # {} /\ statuses'[w] \cap Bad # {}
    BY <2>1 DEF Bad
  <2>3. QED
    BY <1>2, <2>1, <2>2 DEF StatusOf, SomeWrong
<1>4. f \in Statuses
  BY DEF Statuses, CheckAnswers
<1>5. answers' = [answers EXCEPT ![unit[w]] = answers[unit[w]]]
      /\ answers[unit[w]] \in SUBSET (Nat \X CheckAnswers)
  BY <1>1, ReportsFacts
<1>6. AtNextVc(w) \in {"simplify", "check", "dump"} /\ vc[w] + 1 \in Nat
      /\ (AtNextVc(w) # "dump" => vc[w] + 1 \in 1..Vcs[unit[w]])
  BY <1>2, NextVcFacts
<1>7. QED
  BY <1>1, <1>3, <1>4, <1>5, <1>6, ReportsKeeps

LEMMA CheckEndsStep == ASSUME Inv, NEW w \in Workers, CheckEnds(w) PROVE Inv'
<1>1. PICK a \in CheckAnswers :
        /\ Active(w) /\ stage[w] = "check" /\ Reports(w, a, AtNextVc(w), vc[w] + 1)
        /\ answers' = [answers EXCEPT ![unit[w]] = @ \cup {<<vc[w], a>>}]
  BY DEF CheckEnds, Process, Active
<1> DEFINE A == answers[unit[w]] \cup {<<vc[w], a>>}
<1>2. StatusOf(w) /\ vc[w] \in 1..Vcs[unit[w]] /\ Vcs[unit[w]] \in Nat
  BY <1>1, ReportsFacts
<1>3. A \in SUBSET (Nat \X CheckAnswers) /\ answers'[unit[w]] = A
      /\ answers' = [answers EXCEPT ![unit[w]] = A]
  BY <1>1, ReportsFacts
<1>4. StatusOf(w)'
  <2>1. /\ unit' = unit /\ statuses'[w] = statuses[w] \cup {a} /\ vc'[w] = vc[w] + 1
        /\ stage'[w] = AtNextVc(w) /\ AtNextVc(w) \in {"simplify", "dump"}
        /\ (AtNextVc(w) = "dump" => vc[w] = Vcs[unit[w]])
    BY <1>1, <1>2, ReportsFacts, NextVcFacts
  <2>2. ("success" \in statuses'[w] \/ statuses'[w] \cap Failures # {})
    BY <1>1, <1>2, <2>1 DEF StatusOf
  <2>3. SomeWrong(unit[w])' => "wrong" \in statuses'[w]
    BY <1>2, <1>3, <2>1 DEF StatusOf, SomeWrong
  <2>4. ASSUME statuses'[w] \cap Bad = {}, NEW v \in 1..Vcs[unit[w]], v < vc[w] + 1
        PROVE  <<v, "success">> \in answers'[unit[w]]
    <3>1. statuses[w] \cap Bad = {} /\ a = "success"
      BY <2>1, <2>4 DEF Bad, CheckAnswers
    <3>2. v < vc[w] \/ v = vc[w]
      BY <1>2, <2>4
    <3>3. QED
      BY <1>1, <1>2, <1>3, <3>1, <3>2 DEF StatusOf, CheckedBelow
  <2>5. QED
    BY <1>2, <2>1, <2>2, <2>3, <2>4 DEF StatusOf, CheckedBelow, SomeWrong
<1>5. a \in Statuses
  BY DEF Statuses
<1>6. AtNextVc(w) \in {"simplify", "check", "dump"} /\ vc[w] + 1 \in Nat
      /\ (AtNextVc(w) # "dump" => vc[w] + 1 \in 1..Vcs[unit[w]])
  BY <1>2, NextVcFacts
<1> HIDE DEF A
<1>7. QED
  BY <1>1, <1>3, <1>4, <1>5, <1>6, ReportsKeeps

LEMMA DumpStep == ASSUME Inv, NEW w \in Workers, Dump(w) PROVE Inv'
<1>1. Active(w) /\ stage[w] = "dump" /\ Leave(w, Fold(statuses[w]), FALSE) /\ main' = main
  BY DEF Dump, Active
<1>2. statuses[w] \in SUBSET Statuses /\ StatusOf(w)
  BY <1>1 DEF Inv, TypeOK, StatusInv
<1>3. EndInv' /\ main' \in {"running", "waiting", "over", "cut"}
  BY <1>1 DEF Inv, EndInv, TypeOK, Leave, Freed, Active, Pool, Workers
<1>4. Fold(statuses[w]) = "success"
        => \A v \in 1..Vcs[unit[w]] : <<v, "success">> \in answers[unit[w]]
  BY <1>1, <1>2, FoldFacts DEF StatusOf
<1>5. SomeWrong(unit[w]) => Fold(statuses[w]) = "wrong"
  BY <1>2, FoldFacts DEF StatusOf
<1>6. QED
  BY <1>1, <1>2, <1>3, <1>4, <1>5, FoldFacts, LeaveKeeps

LEMMA RaisesStep == ASSUME Inv, NEW w \in Workers, Raises(w) PROVE Inv'
<1>1. PICK s \in {"error", "memout"} : Active(w) /\ Leave(w, s, TRUE)
  BY DEF Raises, Thrown, Active
<1>2. main' = IF Pool THEN main ELSE "cut"
  BY DEF Raises, Thrown
<1>3. EndInv' /\ main' \in {"running", "waiting", "over", "cut"}
  BY <1>1, <1>2 DEF Inv, EndInv, TypeOK, Leave, Freed, Active, Pool, Workers
<1>4. s \in Statuses
  BY DEF Statuses, CheckAnswers, Failures
<1>5. QED
  BY <1>1, <1>3, <1>4, LeaveKeeps

LEMMA TraceSimplifyFailsStep == ASSUME Inv, NEW w \in Workers, TraceSimplifyFails(w) PROVE Inv'
<1>1. Raises(w)
  BY DEF TraceSimplifyFails, Process, Raises
<1>2. QED
  BY <1>1, RaisesStep

LEMMA InterruptStep == Inv /\ Interrupt => Inv'
<1> SUFFICES ASSUME Inv, Interrupt PROVE Inv'
  OBVIOUS
<1>1. main = "running" /\ main' = (IF Pool THEN "waiting" ELSE "cut")
  BY DEF Interrupt
<1>2. CASE ~Pool /\ stage[1] # "idle"
  <2>1. Leave(1, Fold(statuses[1]), TRUE) /\ Active(1)
    BY <1>2 DEF Interrupt, Active
  <2>2. 1 \in Workers /\ Workers = {1} /\ jobs = 1
    BY <1>2, PipelineAssumption DEF Inv, TypeOK, Workers, Pool
  <2>3. statuses[1] \in SUBSET Statuses /\ StatusOf(1)
    BY <2>1, <2>2 DEF Inv, TypeOK, StatusInv
  <2>4. EndInv' /\ main' \in {"running", "waiting", "over", "cut"}
    BY <1>1, <1>2, <2>1, <2>2 DEF Inv, EndInv, TypeOK, Leave, Freed, Active, Pool, Workers
  <2>5. SomeWrong(unit[1]) => Fold(statuses[1]) = "wrong"
    BY <2>3, FoldFacts DEF StatusOf
  <2>6. QED
    BY <2>1, <2>2, <2>3, <2>4, <2>5, FoldFacts, LeaveKeeps
<1>3. CASE Pool \/ stage[1] = "idle"
  <2>1. UNCHANGED <<command, jobs, submitted, next, unit, stage, vc, bound, process, statuses, books>>
    BY <1>3 DEF Interrupt
  <2>2. ~Pool => Workers = {1}
    BY PipelineAssumption DEF Inv, TypeOK, Workers, Pool
  <2>3. EndInv'
    BY <1>1, <1>3, <2>1, <2>2 DEF Inv, EndInv, Active, Pool, Workers
  <2>4. TypeOK'
    BY <1>1, <2>1 DEF Inv, TypeOK, Workers, books
  <2>5. QED
    BY <2>1, <2>3, <2>4
    DEF Inv, UnitInv, IdleInv, StatusInv, StatusOf, FreshInv, TakenInv, Workers, Active,
        Running, CheckedBelow, SomeWrong, SuccessMeansVerified, WrongNeverHidden, books
<1>4. QED
  BY <1>2, <1>3

LEMMA StutterStep == Inv /\ UNCHANGED vars => Inv'
<1> SUFFICES ASSUME Inv, UNCHANGED vars PROVE Inv'
  OBVIOUS
<1>1. TypeOK'
  BY DEF Inv, TypeOK, Workers, vars, tasks, books
<1>2. QED
  BY <1>1
  DEF vars, tasks, books, Inv, UnitInv, IdleInv, StatusInv, StatusOf, FreshInv, TakenInv,
      EndInv, Pool, Workers, Active, Running, CheckedBelow, SomeWrong, SuccessMeansVerified,
      WrongNeverHidden

-----------------------------------------------------------------------------
\* The invariant is kept by every step of the orchestration: of the main
\* thread, of every work unit and of every process that it starts.
THEOREM PipelineInvariant == Spec => []Inv
<1>1. Inv /\ [Next]_vars => Inv'
  <2> SUFFICES ASSUME Inv, [Next]_vars PROVE Inv'
    OBVIOUS
  <2>1. CASE Submit \/ AllDone \/ Interrupt \/ UNCHANGED vars
    BY <2>1, SubmitStep, AllDoneStep, InterruptStep, StutterStep
  <2>2. ASSUME NEW w \in Workers, Step(w) \/ Raises(w) PROVE Inv'
    BY <2>2, TakeStep, StartStep, EncodedStep, EncodeFailsStep, SimplifyEndsStep,
       SimplifyFailsStep, TraceSimplifyFailsStep, CheckEndsStep, DumpStep, RaisesStep DEF Step
  <2>3. QED
    BY <2>1, <2>2 DEF Next
<1>2. QED
  BY PipeInit, <1>1, PTL DEF Spec

\* The state of the orchestration keeps its types; a unit that simplifies or
\* checks is at a VC that the encoder wrote.
THEOREM PipelineTypeCorrect == Spec => []TypeOK
<1>1. Inv => TypeOK
  BY DEF Inv
<1>2. QED
  BY PipelineInvariant, <1>1, PTL

\* orchestrate.py reports a pair as verified only if every VC of it was checked
\* and answered as expected, whatever process failed, timed out or was killed.
THEOREM VerifiedMeansChecked == Spec => []SuccessMeansVerified
<1>1. Inv => SuccessMeansVerified
  BY DEF Inv
<1>2. QED
  BY PipelineInvariant, <1>1, PTL

\* An answer against the expectation of its VC is in the status of the report,
\* whatever else happened in the unit, unless an exception cut it short.
THEOREM WrongIsReported == Spec => []WrongNeverHidden
<1>1. Inv => WrongNeverHidden
  BY DEF Inv
<1>2. QED
  BY PipelineInvariant, <1>1, PTL

\* The threads of the pool never mix up the arguments of their blocks.
THEOREM ThreadsKeepTheirArguments == Spec => []OwnArguments
<1>1. Inv => OwnArguments
  BY DEF Inv, UnitInv, IdleInv, OwnArguments, Running
<1>2. QED
  BY PipelineInvariant, <1>1, PTL

\* No unit that a thread took up ends without a report.
THEOREM EveryUnitLeavesAReport == Spec => []EveryUnitReported
<1>1. Inv => EveryUnitReported
  BY DEF Inv, TypeOK, TakenInv, EndInv, EveryUnitReported
<1>2. QED
  BY PipelineInvariant, <1>1, PTL
-----------------------------------------------------------------------------
\* The orchestration comes to an end.

MainAt == CASE main = "running" -> 0 [] main = "waiting" -> 1 [] OTHER -> 2
Busy == {w \in Workers : Active(w)}
\* How far a thread is with its unit: the processes it started and saw ending.
Ends(w) == IF Running(w) THEN 1 ELSE 0
At(w) == IF stage[w] = "encode" THEN Ends(w)
         ELSE 4 * vc[w] + Ends(w) + (IF stage[w] = "simplify" THEN 0 ELSE 2)

\* A step ends something in the main thread, submits or takes up a unit, leaves
\* one, or gets further with one while the other threads stay where they are.
Progress ==
  \/ MainAt' > MainAt
  \/ /\ MainAt' = MainAt
     /\ \/ submitted' > submitted
        \/ submitted' = submitted /\ next' > next
        \/ submitted' = submitted /\ next' = next /\ Busy' \subseteq Busy /\ Busy' # Busy
        \/ /\ submitted' = submitted /\ next' = next /\ Busy' = Busy
           /\ \E w \in Busy : At(w)' > At(w) /\ \A x \in Busy \ {w} : At(x)' = At(x)

\* A thread that stays with its unit, while the others do nothing.
LEMMA UnitProgresses ==
  ASSUME Inv, NEW w \in Workers, Active(w), jobs' = jobs, main' = main, submitted' = submitted, next' = next,
         NEW s, NEW p, NEW v, stage' = [stage EXCEPT ![w] = s], process' = [process EXCEPT ![w] = p],
         vc' = [vc EXCEPT ![w] = v], s # "idle", At(w)' > At(w)
  PROVE  Progress
<1>1. /\ stage'[w] = s /\ \A x \in Workers \ {w} : stage'[x] = stage[x] /\ process'[x] = process[x] /\ vc'[x] = vc[x]
      /\ Workers' = Workers
  BY DEF Inv, TypeOK, Workers
<1>2. Busy' = Busy
  BY <1>1 DEF Busy, Active
<1>3. \A x \in Busy \ {w} : At(x)' = At(x)
  BY <1>1 DEF Busy, At, Ends, Running
<1>4. w \in Busy
  BY DEF Busy
<1>5. MainAt' = MainAt
  BY DEF MainAt
<1>6. QED
  BY <1>2, <1>3, <1>4, <1>5 DEF Progress

\* A thread that leaves its unit.
LEMMA LeavingProgresses ==
  ASSUME Inv, NEW w \in Workers, Active(w), NEW s, NEW cut, Leave(w, s, cut), main' = main \/ MainAt' > MainAt
  PROVE  Progress
<1>1. /\ stage' = [stage EXCEPT ![w] = "idle"] /\ jobs' = jobs /\ submitted' = submitted /\ next' = next
  BY DEF Leave, Freed
<1>2. Busy' = Busy \ {w} /\ w \in Busy
  BY <1>1 DEF Inv, TypeOK, Busy, Active, Workers
<1>3. main' = main => MainAt' = MainAt
  BY DEF MainAt
<1>4. QED
  BY <1>1, <1>2, <1>3 DEF Progress

LEMMA StepProgresses == Inv /\ Next => Progress
<1> SUFFICES ASSUME Inv, Next PROVE Progress
  OBVIOUS
<1>1. CASE Submit
  BY <1>1 DEF Submit, Progress, MainAt, Inv, TypeOK
<1>2. CASE AllDone
  BY <1>2 DEF AllDone, Progress, MainAt
<1>3. CASE Interrupt
  BY <1>3 DEF Interrupt, Progress, MainAt
<1>4. ASSUME NEW w \in Workers, Take(w) PROVE Progress
  BY <1>4 DEF Take, Progress, MainAt, Inv, TypeOK
<1>5. ASSUME NEW w \in Workers, Start(w) PROVE Progress
  <2>1. bound[w] # NoArgs
    <3>1. Active(w) /\ next \in 0..N
      BY <1>5, PipelineAssumption DEF Start, Active, Inv, TypeOK
    <3>2. bound[w] = BlockOf[unit[w]] /\ unit[w] \in Units
      BY <3>1, PipelineAssumption DEF Inv, UnitInv, Units
    <3>3. QED
      BY <3>2, PipelineAssumption DEF NoArgs
  <2>2. /\ Active(w) /\ stage[w] \in {"encode", "simplify", "check"} /\ stage' = [stage EXCEPT ![w] = stage[w]]
        /\ process' = [process EXCEPT ![w] = bound[w]] /\ vc' = [vc EXCEPT ![w] = vc[w]]
        /\ ~Running(w) /\ vc[w] \in Nat
    BY <1>5 DEF Start, Active, Inv, TypeOK
  <2>3. Running(w)' /\ stage'[w] = stage[w] /\ vc'[w] = vc[w]
    BY <2>1, <2>2 DEF Running, Inv, TypeOK
  <2>4. At(w)' > At(w)
    BY <2>2, <2>3 DEF At, Ends
  <2>5. QED
    BY <1>5, <2>2, <2>4, UnitProgresses DEF Start, tasks
<1>6. ASSUME NEW w \in Workers,
             Encoded(w) \/ EncodeFails(w) \/ SimplifyEnds(w) \/ SimplifyFails(w) \/ CheckEnds(w)
      PROVE  Progress
  <2>1. PICK s, then, v :
          /\ Reports(w, s, then, v) /\ Running(w) /\ vc[w] \in Nat
          /\ \/ stage[w] = "encode" /\ v = 1 /\ then \in {"simplify", "dump"}
             \/ stage[w] = "encode" /\ v = 0 /\ then = "dump"
             \/ stage[w] = "simplify" /\ v = vc[w] /\ then = "check"
             \/ stage[w] \in {"simplify", "check"} /\ v = vc[w] + 1 /\ then \in {"simplify", "dump"}
    BY <1>6 DEF Encoded, EncodeFails, SimplifyEnds, SimplifyFails, CheckEnds, Process, AtNextVc, Inv, TypeOK
  <2>2. /\ stage'[w] = then /\ vc'[w] = v /\ ~Running(w)'
        /\ jobs' = jobs /\ main' = main /\ submitted' = submitted /\ next' = next
        /\ stage' = [stage EXCEPT ![w] = then] /\ process' = [process EXCEPT ![w] = NoArgs]
        /\ vc' = [vc EXCEPT ![w] = v]
    BY <2>1 DEF Reports, Running, Inv, TypeOK, tasks
  <2>3. Active(w) /\ then # "idle"
    BY <2>1 DEF Active
  <2>4. At(w)' > At(w)
    BY <2>1, <2>2 DEF At, Ends
  <2>5. QED
    BY <2>2, <2>3, <2>4, UnitProgresses
<1>7. ASSUME NEW w \in Workers, Dump(w) PROVE Progress
  BY <1>7, LeavingProgresses DEF Dump, Active
<1>8. ASSUME NEW w \in Workers, Raises(w) \/ TraceSimplifyFails(w) PROVE Progress
  <2>1. PICK s : Thrown(w, s) /\ Active(w)
    BY <1>8 DEF Raises, TraceSimplifyFails, Process, Active
  <2>2. main \in {"running", "waiting"}
    BY <2>1 DEF Inv, TypeOK, EndInv
  <2>3. main' = main \/ MainAt' > MainAt
    BY <2>1, <2>2 DEF Thrown, MainAt
  <2>4. QED
    BY <2>1, <2>3, LeavingProgresses DEF Thrown
<1>9. QED
  BY <1>1, <1>2, <1>3, <1>4, <1>5, <1>6, <1>7, <1>8 DEF Next, Step

\* Whatever fails, raises or is interrupted, no thread goes back to a VC or to a
\* unit, and none holds up another: the part of Terminates without fairness.
THEOREM NoStepInVain == Spec => [][Progress]_vars
<1>1. Inv /\ [Next]_vars => [Progress]_vars
  BY StepProgresses
<1>2. QED
  BY PipelineInvariant, <1>1, PTL DEF Spec

=============================================================================
