---------------------------- MODULE CheckDispatch ----------------------------
(***************************************************************************)
(* `main.py check`: which checker answers about a script.  The plain z3    *)
(* run is a strategy of its own and the pre-try of the other two; chunked  *)
(* prefers the rust checker, a subprocess that may time out or fail, and   *)
(* falls back to the same loop in python; sliced is python only.           *)
(*                                                                         *)
(* A script is the set of models of its context and, when it has a         *)
(* disjunction to split, the sequence of the models of the disjuncts.      *)
(***************************************************************************)
EXTENDS Integers, Sequences

CONSTANTS
  Asg,       \* assignments
  NoWitness, \* stands for the witness of an answer that has none
  Scripts,   \* the scripts asked about
  Steps      \* names of the powdr passes a script can come from

ASSUME DispatchAssumption ==
  /\ NoWitness \notin Asg
  /\ Scripts \subseteq [ctx : SUBSET Asg, goal : Seq(SUBSET Asg)]

Strategies == {"plain", "chunked", "sliced"}
Requests == [explicit : Strategies \cup {"auto"}, step : Steps,
             z3 : BOOLEAN, rust : BOOLEAN,        \* what is installed
             pretry : BOOLEAN, dump : BOOLEAN]    \* --pretry-plain, --dump-model

Inconclusive == {"unknown", "unknown-timeout", "timeout", "error-broken-pipe"}
Findings == [result : {"none", "sat", "unsat"} \cup Inconclusive, model : Asg \cup {NoWitness}]

VARIABLES
  script, request,
  strategy,  \* the resolved strategy
  pc,
  engine,    \* who runs the solver
  k,         \* the disjunct the chunked loop is at
  found,     \* what the rust process found and has not reported yet
  z3Found,   \* what the last plain z3 run printed
  modelFile, \* content of the file of --dump-model
  verdict, witness

asked == <<script, request>>
vars == <<asked, strategy, pc, engine, k, found, z3Found, modelFile, verdict, witness>>

-----------------------------------------------------------------------------
Models(s) == IF s.goal = <<>> THEN s.ctx
             ELSE {a \in s.ctx : \E i \in DOMAIN s.goal : a \in s.goal[i]}

\* The per-pass table CHECK_STRATEGIES, with its default.
SlicedSteps == {"inlining", "rule_based"}
Resolve(r) == IF r.explicit # "auto" THEN r.explicit
              ELSE IF r.step \in SlicedSteps THEN "sliced" ELSE "plain"

NothingFound == [result |-> "none", model |-> NoWitness]

Init ==
  /\ script \in Scripts /\ request \in Requests
  /\ strategy = "plain"
  /\ pc = "resolve" /\ engine = "none" /\ k = 1
  /\ found = NothingFound /\ z3Found = NothingFound
  /\ modelFile = NoWitness
  /\ verdict = "none" /\ witness = NoWitness

\* Where chunked and sliced go when z3 did not decide the script before.
RicherChecker(st) == IF st = "chunked" /\ request.rust THEN "spawn" ELSE "parse"

ResolveStrategy ==
  LET st == Resolve(request)
      effective == IF st = "plain" /\ ~request.z3 THEN "chunked" ELSE st
  IN  /\ pc = "resolve"
      /\ strategy' = effective
      /\ pc' = IF effective = "plain" THEN "plain"
               ELSE IF request.pretry /\ request.z3 THEN "pretry"
               ELSE RicherChecker(effective)
      /\ UNCHANGED <<asked, engine, k, found, z3Found, modelFile, verdict, witness>>

\* The answer of check(); the model file is written when a model is asked for.
\* In the mutant a model that is there already is not overwritten.
ReportKeepsFile(v, a) ==
  /\ pc' = "done"
  /\ verdict' = v
  /\ witness' = a
  /\ modelFile' = IF request.dump /\ modelFile = NoWitness THEN a ELSE modelFile
Report(v, a) ==
  /\ pc' = "done"
  /\ verdict' = v
  /\ witness' = a
  /\ modelFile' = IF request.dump /\ a # NoWitness THEN a ELSE modelFile

-----------------------------------------------------------------------------
\* check_plain: z3 on the whole script.

PlainDecides ==
  /\ pc \in {"plain", "pretry"}
  /\ \/ /\ Models(script) = {}
        /\ Report("unsat", NoWitness)
        /\ z3Found' = [result |-> "unsat", model |-> NoWitness]
     \/ \E a \in Models(script) :
          /\ Report("sat", a)
          /\ z3Found' = [result |-> "sat", model |-> a]
  /\ UNCHANGED <<asked, strategy, engine, k, found>>

\* z3 ran out of its budget, was killed or printed no verdict.
PlainInconclusive ==
  /\ pc \in {"plain", "pretry"}
  /\ \E r \in {"unknown-timeout", "timeout", "unknown"} :
       /\ z3Found' = [result |-> r, model |-> NoWitness]
       /\ IF pc = "plain" THEN Report(r, NoWitness)
          ELSE pc' = RicherChecker(strategy) /\ UNCHANGED <<modelFile, verdict, witness>>
  /\ UNCHANGED <<asked, strategy, engine, k, found>>

\* z3 says "sat", but the model that was asked for cannot be read back.
PlainUnparsed ==
  /\ pc \in {"plain", "pretry"} /\ request.dump
  /\ \E a \in Models(script) : z3Found' = [result |-> "sat", model |-> a]
  /\ IF pc = "plain" THEN Report("timeout", NoWitness)
     ELSE pc' = RicherChecker(strategy) /\ UNCHANGED <<modelFile, verdict, witness>>
  /\ UNCHANGED <<asked, strategy, engine, k, found>>

-----------------------------------------------------------------------------
\* Starting the rust checker, or the python one.

Split(e) ==
  /\ engine' = e
  /\ k' = 1
  /\ pc' = IF script.goal = <<>> THEN "whole"
           ELSE IF strategy = "sliced" THEN "sliced" ELSE "loop"

SpawnRust ==
  /\ pc = "spawn"
  /\ Split("rust")
  /\ UNCHANGED <<asked, strategy, found, z3Found, modelFile, verdict, witness>>

ParsePython ==
  /\ pc = "parse"
  /\ Split("python")
  /\ UNCHANGED <<asked, strategy, found, z3Found, modelFile, verdict, witness>>

\* The rust process writes the model file before it prints its report.
Decide(v, a) ==
  IF engine = "python" THEN Report(v, a) /\ UNCHANGED found
  ELSE /\ pc' = "print"
       /\ found' = [result |-> v, model |-> a]
       /\ modelFile' = IF request.dump /\ a # NoWitness THEN a ELSE modelFile
       /\ UNCHANGED <<verdict, witness>>

\* The models of a disjunct the solver has not been told to avoid: the
\* negations of the disjuncts before it were asserted when they were refuted.
\* In the mutant the context was not asserted.
OpenModelsNoContext == {a \in Asg : /\ a \in script.goal[k]
                                   /\ \A i \in 1..(k - 1) : a \notin script.goal[i]}
OpenModels == {a \in script.ctx : /\ a \in script.goal[k]
                                  /\ \A i \in 1..(k - 1) : a \notin script.goal[i]}

Proceed == UNCHANGED <<found, modelFile, verdict, witness>>

RefuteDisjunct ==
  /\ pc = "loop" /\ k <= Len(script.goal)
  /\ OpenModels = {}
  /\ k' = k + 1
  /\ Proceed
  /\ UNCHANGED <<asked, strategy, pc, engine, z3Found>>

DisjunctSat ==
  /\ pc = "loop" /\ k <= Len(script.goal)
  /\ \E a \in OpenModels : Decide("sat", a)
  /\ UNCHANGED <<asked, strategy, engine, k, z3Found>>

\* The first disjunct without an answer ends the loop; the pipe to the solver
\* can only break in python, where the solver is a process of its own.
DisjunctUnknown ==
  /\ pc = "loop" /\ k <= Len(script.goal)
  /\ \E r \in {"unknown"} \cup (IF engine = "python" THEN {"error-broken-pipe"} ELSE {}) :
       Decide(r, NoWitness)
  /\ UNCHANGED <<asked, strategy, engine, k, z3Found>>

\* In the mutant the loop ends before the last disjunct.
AllRefutedEarly ==
  /\ pc = "loop" /\ k >= Len(script.goal)
  /\ Decide("unsat", NoWitness)
  /\ UNCHANGED <<asked, strategy, engine, k, z3Found>>
AllRefuted ==
  /\ pc = "loop" /\ k > Len(script.goal)
  /\ Decide("unsat", NoWitness)
  /\ UNCHANGED <<asked, strategy, engine, k, z3Found>>

\* The whole script in one solver (no disjunction to split), or the sliced
\* checker: sound, and free not to know.
SolveWhole ==
  /\ pc \in {"whole", "sliced"}
  /\ \/ Models(script) = {} /\ Decide("unsat", NoWitness)
     \/ \E a \in Models(script) : Decide("sat", a)
     \/ Decide("unknown", NoWitness)
     \/ engine = "python" /\ Decide("error-broken-pipe", NoWitness)
  /\ UNCHANGED <<asked, strategy, engine, k, z3Found>>

-----------------------------------------------------------------------------
\* The rust process, seen from check().

InRust == engine = "rust" /\ pc \in {"loop", "whole", "print"}

RustReports ==
  /\ pc = "print"
  /\ pc' = "done"
  /\ verdict' = found.result
  /\ witness' = found.model
  /\ UNCHANGED <<asked, strategy, engine, k, found, z3Found, modelFile>>

\* The outer timeout is the inner one: the process may be killed at any point,
\* also after it has decided the script.
RustTimesOut ==
  /\ InRust
  /\ pc' = "done"
  /\ verdict' = "timeout"
  /\ found' = NothingFound
  /\ UNCHANGED <<asked, strategy, engine, k, z3Found, modelFile, witness>>

\* It exits with an error, or what it prints is not a report.
\* In the mutant it is tried again.
RustFailsAgain ==
  /\ InRust
  /\ pc' = "spawn"
  /\ found' = NothingFound
  /\ UNCHANGED <<asked, strategy, engine, k, z3Found, modelFile, verdict, witness>>
RustFails ==
  /\ InRust
  /\ pc' = "parse"
  /\ found' = NothingFound
  /\ UNCHANGED <<asked, strategy, engine, k, z3Found, modelFile, verdict, witness>>

Next ==
  \/ ResolveStrategy
  \/ PlainDecides \/ PlainInconclusive \/ PlainUnparsed
  \/ SpawnRust \/ ParsePython
  \/ RefuteDisjunct \/ DisjunctSat \/ DisjunctUnknown \/ AllRefuted \/ SolveWhole
  \/ RustReports \/ RustTimesOut \/ RustFails

Spec == Init /\ [][Next]_vars /\ WF_vars(Next)

-----------------------------------------------------------------------------
\* Properties.

\* Every variable has its type.
TypeOK ==
  /\ script \in Scripts /\ request \in Requests /\ strategy \in Strategies
  /\ pc \in {"resolve", "plain", "pretry", "spawn", "parse", "loop", "whole", "sliced",
             "print", "done"}
  /\ engine \in {"none", "rust", "python"}
  /\ k \in Nat
  /\ found \in Findings /\ z3Found \in Findings
  /\ modelFile \in Asg \cup {NoWitness}
  /\ verdict \in {"none", "sat", "unsat"} \cup Inconclusive
  /\ witness \in Asg \cup {NoWitness}

\* check() answers once and soundly, whichever checker the answer comes from
\* and whatever failed before it.
Answered == CASE verdict = "none" -> "pending"
              [] verdict \in {"sat", "unsat"} -> verdict
              [] OTHER -> "unknown"
V == INSTANCE Verdict WITH script <- Models(script), verdict <- Answered
ImplementsVerdict == V!Spec

\* A "sat" that was asked for its model leaves exactly that model in the file,
\* also when another checker had written one there and then failed.
ModelMatchesVerdict == verdict = "sat" /\ request.dump => modelFile = witness

\* Whatever is in the file is a model of the script, also one that was left
\* behind by a rust process that did not live to report it.
ModelIsGenuine == modelFile # NoWitness => modelFile \in Models(script)

\* The negations asserted by the loop follow from the context, in the rust
\* process and in the python loop that starts over after it.
LoopFollows ==
  pc = "loop" => \A i \in DOMAIN script.goal : i < k => script.ctx \cap script.goal[i] = {}

\* Every check ends with a verdict: each engine answers or is killed, and no
\* failure sends the dispatch back to an engine that was tried.
Answers == <>(verdict # "none")
=============================================================================
