--------------------------- MODULE VerifyPipeline ---------------------------
(***************************************************************************)
(* `orchestrate.py verify` and `orchestrate.py trace`: a pool of work      *)
(* units, one per step pair, or one per step.  A unit runs main.py to      *)
(* encode the pair as VCs (to trace the step) and, for each file that      *)
(* comes out, to simplify and to check it; it collects what the processes  *)
(* report as actions and folds their statuses into the status of its own   *)
(* report.                                                                 *)
(*                                                                         *)
(* A main.py process may end in any way a process can end.  `answers` is a *)
(* ghost that no action reads: what the checks really said.                *)
(***************************************************************************)
EXTENDS Integers, FiniteSets

CONSTANTS N,        \* the number of units, numbered as they are submitted
          Blocks, BlockOf,  \* the block of each, from which its processes get arguments
          Vcs,      \* Vcs[u]: how many VCs the encoder (or tracer) writes for u
          MaxJobs   \* the largest --jobs
Units == 1..N
ASSUME PipelineAssumption ==
  /\ N \in Nat /\ BlockOf \in [Units -> Blocks] /\ Vcs \in [Units -> Nat] /\ MaxJobs \in Nat \ {0}
  /\ "none" \notin Blocks

VARIABLES
  command,    \* what each unit does: run_verify or run_trace
  jobs,       \* --jobs; with 1 the main thread does the work, else a pool
  main,       \* the main thread; "waiting" after an interrupt, "cut" if it ended early
  submitted, next,    \* the units submitted, and those taken up
  unit, stage, vc,    \* of each worker: its unit, what it is about to do, the VC
  bound,      \* the arguments its thread has bound
  process,    \* the arguments its main.py process was started with, if one runs
  statuses,   \* the statuses of the actions of its unit so far
  answers,    \* of each unit: the VCs, with what their checks said
  report,     \* of each unit: the status its report comes to
  broken      \* the units an exception or an interrupt cut short

tasks == <<command, jobs, main, submitted, next>>
books == <<answers, report, broken>>
vars == <<tasks, unit, stage, vc, bound, process, statuses, books>>

Commands == {"verify", "trace"}
Workers == 1..jobs
Pool == jobs > 1
NoArgs == "none"
Running(w) == process[w] # NoArgs

\* How a process fails: by its time, its memory, its exit code or its output.
Failures == {"timeout", "memout", "error"}
CheckAnswers == {"success", "wrong"} \cup Failures
\* The passes of a simplification may have timed out, or report a result: "qf"
\* stands for "not-qf" and "skipped" too.
Simplified == {"none", "qf", "success", "timeout"}
Statuses == Simplified \cup CheckAnswers

\* The status of an action that has no result of its own.  One mutant forgets
\* the timeouts, the other looks for them first.
FoldRanked(S, ranking) ==
  IF S \subseteq {"none"} THEN "none"
  ELSE IF \E s \in S : S \ {"none"} = {s} THEN CHOOSE s \in S : S \ {"none"} = {s}
  ELSE ranking
FoldNoTimeout(S) == FoldRanked(S, IF "wrong" \in S THEN "wrong"
                                  ELSE IF "memout" \in S THEN "memout"
                                  ELSE IF "error" \in S THEN "error" ELSE "success")
FoldTimeoutFirst(S) == FoldRanked(S, IF "timeout" \in S THEN "timeout"
                                     ELSE IF "wrong" \in S THEN "wrong"
                                     ELSE IF "memout" \in S THEN "memout"
                                     ELSE IF "error" \in S THEN "error" ELSE "success")
Fold(S) == FoldRanked(S, IF "wrong" \in S THEN "wrong"
                         ELSE IF "memout" \in S THEN "memout"
                         ELSE IF "timeout" \in S THEN "timeout"
                         ELSE IF "error" \in S THEN "error" ELSE "success")

Init ==
  /\ command \in Commands /\ jobs \in 1..MaxJobs /\ main = "running"
  /\ submitted = (IF jobs = 1 THEN N ELSE 0) /\ next = 0
  /\ unit = [w \in Workers |-> 0] /\ stage = [w \in Workers |-> "idle"]
  /\ vc = [w \in Workers |-> 0]
  /\ bound = [w \in Workers |-> NoArgs] /\ process = [w \in Workers |-> NoArgs]
  /\ statuses = [w \in Workers |-> {}]
  /\ answers = [u \in Units |-> {}] /\ report = [u \in Units |-> "absent"] /\ broken = {}

-----------------------------------------------------------------------------
\* The pool.

Submit ==
  /\ main = "running" /\ submitted < N
  /\ submitted' = submitted + 1
  /\ UNCHANGED <<command, jobs, main, next, unit, stage, vc, bound, process, statuses, books>>

\* A thread binds the arguments of the block of its unit.  In the mutant all
\* threads share one binding.
BindShared(w, u) == [x \in Workers |-> BlockOf[u]]
Bind(w, u) == [bound EXCEPT ![w] = BlockOf[u]]

Take(w) ==
  /\ main \in {"running", "waiting"}
  /\ stage[w] = "idle" /\ next < submitted
  /\ next' = next + 1
  /\ unit' = [unit EXCEPT ![w] = next + 1]
  /\ bound' = Bind(w, next + 1)
  /\ stage' = [stage EXCEPT ![w] = "encode"]
  /\ UNCHANGED <<command, jobs, main, submitted, vc, process, statuses, books>>

\* The main thread waits for the pool, also on the way out after an interrupt.
AllDone ==
  /\ main \in {"running", "waiting"}
  /\ next = submitted /\ \A w \in Workers : stage[w] = "idle"
  /\ main = "running" => submitted = N
  /\ main' = IF main = "running" THEN "over" ELSE "cut"
  /\ UNCHANGED <<command, jobs, submitted, next, unit, stage, vc, bound, process, statuses, books>>

-----------------------------------------------------------------------------
\* A work unit.

Start(w) ==
  /\ stage[w] \in {"encode", "simplify", "check"} /\ ~Running(w)
  /\ process' = [process EXCEPT ![w] = bound[w]]
  /\ UNCHANGED <<tasks, unit, stage, vc, bound, statuses, books>>

\* The process of w ends with an action of status s, after which w turns to
\* the given VC or stage.
Reports(w, s, then, v) ==
  /\ process' = [process EXCEPT ![w] = NoArgs]
  /\ statuses' = [statuses EXCEPT ![w] = @ \cup {s}]
  /\ stage' = [stage EXCEPT ![w] = then]
  /\ vc' = [vc EXCEPT ![w] = v]
  /\ UNCHANGED <<tasks, unit, bound, report, broken>>

\* Where w turns after a VC.
AtNextVc(w) == IF vc[w] < Vcs[unit[w]] THEN "simplify" ELSE "dump"
Process(w, what) == stage[w] = what /\ Running(w)

Encoded(w) ==
  /\ Process(w, "encode")
  /\ Reports(w, "success", AtNextVc(w), 1)
  /\ UNCHANGED answers
EncodeFails(w) ==
  /\ Process(w, "encode")
  /\ \E f \in Failures : Reports(w, f, "dump", 0)
  /\ UNCHANGED answers

\* A simplification that ends has written its output, whatever its passes did.
SimplifyEnds(w) ==
  /\ Process(w, "simplify")
  /\ \E s \in Simplified : Reports(w, s, "check", vc[w])
  /\ UNCHANGED answers
\* There is nothing to check then.  The mutant tries again.
SimplifyRetries(w) ==
  /\ Process(w, "simplify") /\ command = "verify"
  /\ \E f \in Failures : Reports(w, f, "simplify", vc[w])
  /\ UNCHANGED answers
SimplifyFails(w) ==
  /\ Process(w, "simplify") /\ command = "verify"
  /\ \E f \in Failures : Reports(w, f, AtNextVc(w), vc[w] + 1)
  /\ UNCHANGED answers

CheckEnds(w) ==
  /\ Process(w, "check")
  /\ \E a \in CheckAnswers :
       /\ Reports(w, a, AtNextVc(w), vc[w] + 1)
       /\ answers' = [answers EXCEPT ![unit[w]] = @ \cup {<<vc[w], a>>}]

Freed(w) ==
  /\ unit' = [unit EXCEPT ![w] = 0] /\ vc' = [vc EXCEPT ![w] = 0]
  /\ stage' = [stage EXCEPT ![w] = "idle"]
  /\ process' = [process EXCEPT ![w] = NoArgs]
  /\ statuses' = [statuses EXCEPT ![w] = {}]

\* The report is written when the unit is left, in the mutant only when it was
\* not cut short.
LeaveUnreported(w, status, cut) ==
  /\ report' = IF cut THEN report ELSE [report EXCEPT ![unit[w]] = status]
  /\ broken' = IF cut THEN broken \cup {unit[w]} ELSE broken
  /\ Freed(w)
  /\ UNCHANGED <<command, jobs, submitted, next, bound, answers>>
Leave(w, status, cut) ==
  /\ report' = [report EXCEPT ![unit[w]] = status]
  /\ broken' = IF cut THEN broken \cup {unit[w]} ELSE broken
  /\ Freed(w)
  /\ UNCHANGED <<command, jobs, submitted, next, bound, answers>>

Dump(w) ==
  /\ stage[w] = "dump"
  /\ Leave(w, Fold(statuses[w]), FALSE)
  /\ UNCHANGED main

\* The exception of a unit ends the main thread, but not the pool: nobody
\* looks at the futures.
Thrown(w, s) == Leave(w, s, TRUE) /\ main' = IF Pool THEN main ELSE "cut"
Raises(w) ==
  /\ stage[w] \notin {"idle", "dump"}
  /\ \E s \in {"error", "memout"} : Thrown(w, s)
\* run_trace goes through the outputs of a simplification that has none.
TraceSimplifyFails(w) == Process(w, "simplify") /\ command = "trace" /\ Thrown(w, "error")

\* Only the main thread is interrupted.  With one job it is in the middle of a
\* unit, whose report is written without a result of its own; else the pool
\* goes on with what was submitted.
Interrupt ==
  /\ main = "running"
  /\ main' = IF Pool THEN "waiting" ELSE "cut"
  /\ IF ~Pool /\ stage[1] # "idle" THEN Leave(1, Fold(statuses[1]), TRUE)
     ELSE UNCHANGED <<command, jobs, submitted, next, unit, stage, vc, bound, process, statuses, books>>

Step(w) == Take(w) \/ Start(w) \/ Encoded(w) \/ EncodeFails(w) \/ SimplifyEnds(w)
           \/ SimplifyFails(w) \/ TraceSimplifyFails(w) \/ CheckEnds(w) \/ Dump(w)
Next == Submit \/ AllDone \/ Interrupt \/ \E w \in Workers : Step(w) \/ Raises(w)

\* All threads run, and every process ends, since each has a timeout.
Fairness == /\ WF_vars(Submit) /\ WF_vars(AllDone)
            /\ \A w \in 1..MaxJobs : WF_vars(w \in Workers /\ Step(w))
Spec == Init /\ [][Next]_vars /\ Fairness

-----------------------------------------------------------------------------
\* Properties.

\* Every variable has its type.
TypeOK ==
  /\ command \in Commands /\ jobs \in 1..MaxJobs /\ main \in {"running", "waiting", "over", "cut"}
  /\ submitted \in 0..N /\ next \in 0..submitted
  /\ unit \in [Workers -> 0..N]
  /\ stage \in [Workers -> {"idle", "encode", "simplify", "check", "dump"}]
  /\ vc \in [Workers -> Nat]
  /\ \A w \in Workers : stage[w] \in {"simplify", "check"} => vc[w] \in 1..Vcs[unit[w]]
  /\ bound \in [Workers -> Blocks \cup {NoArgs}]
  /\ process \in [Workers -> Blocks \cup {NoArgs}]
  /\ statuses \in [Workers -> SUBSET Statuses]
  /\ answers \in [Units -> SUBSET (Nat \X CheckAnswers)]
  /\ report \in [Units -> Statuses \cup {"absent"}]
  /\ broken \subseteq Units

\* A pair (a step) is reported as verified (traced) only if each of its VCs was
\* checked and answered as expected, whatever failed on the way.  A unit that was
\* interrupted is excepted: its report may say "success" of the VCs it got to.
SuccessMeansVerified ==
  \A u \in Units \ broken :
    report[u] = "success" => \A v \in 1..Vcs[u] : <<v, "success">> \in answers[u]

\* A check that answered against its expectation shows in the report, next to
\* any number of timeouts; only an exception can take its place.
WrongNeverHidden ==
  \A u \in Units : \A v \in 1..Vcs[u] :
    <<v, "wrong">> \in answers[u] =>
      report[u] \in {"absent", "wrong"} \cup IF u \in broken THEN {"error", "memout"} ELSE {}

\* Every main.py process gets the arguments of the block of its own unit, however
\* the threads of the pool interleave.
OwnArguments == \A w \in Workers : Running(w) => process[w] = BlockOf[unit[w]]

\* At the end there is a report of every unit that was taken up, and of all
\* units unless the main thread was cut short.
EveryUnitReported ==
  /\ main \in {"over", "cut"} => \A u \in 1..next : report[u] # "absent"
  /\ main = "over" => next = N

\* The orchestration ends.
Terminates == <>(main \in {"over", "cut"})
=============================================================================
