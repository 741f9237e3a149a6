------------------------- MODULE CheckDispatchProofs ------------------------
(***************************************************************************)
(* check() answers soundly for every script and request, through every     *)
(* combination of pre-try, rust checker and python fallback.               *)
(***************************************************************************)
EXTENDS CheckDispatch, TLAPS

\* An answer that is not a verdict yet: "unsat" needs a script without models,
\* "sat" comes with one of its models, anything else with none.
Genuine(v, a) ==
  /\ v = "unsat" => Models(script) = {}
  /\ v = "sat" => a \in Models(script)
  /\ v # "sat" => a = NoWitness

Dumped(v, a) == v = "sat" /\ request.dump => modelFile = a

\* No answer is given before the end, and the engine in charge has found a
\* genuine one when it decides.
Inv ==
  /\ TypeOK
  /\ pc \in {"loop", "whole", "sliced", "print"} => engine \in {"rust", "python"}
  /\ pc = "loop" => script.goal # <<>> /\ k >= 1
  /\ pc = "print" => found.result # "none" /\ Genuine(found.result, found.model)
                     /\ Dumped(found.result, found.model)
  /\ pc # "done" => verdict = "none" /\ witness = NoWitness
  /\ pc = "done" => verdict # "none"
  /\ Genuine(verdict, witness) /\ Dumped(verdict, witness)
  /\ ModelIsGenuine /\ LoopFollows

\* The models of a script are assignments, whether or not it has a goal to split.
LEMMA ScriptType ==
  ASSUME script \in Scripts
  PROVE  /\ script.ctx \subseteq Asg
         /\ script.goal \in Seq(SUBSET Asg)
         /\ DOMAIN script.goal = 1..Len(script.goal) /\ Len(script.goal) \in Nat
         /\ Models(script) \subseteq Asg
BY DispatchAssumption DEF Models

\* The invariant holds before the strategy is resolved.
LEMMA InitInv == Init => Inv
BY DEF Init, Inv, TypeOK, NothingFound, Findings, Strategies, Genuine, Dumped, ModelIsGenuine,
       LoopFollows

\* A genuine answer of the engine in charge keeps the invariant, whether it is
\* reported at once or left for the rust process to print.
LEMMA DecideKeepsInv ==
  ASSUME Inv, NEW v \in {"sat", "unsat"} \cup Inconclusive, NEW a \in Asg \cup {NoWitness},
         Genuine(v, a), Decide(v, a), pc \in {"loop", "whole", "sliced"},
         UNCHANGED <<asked, strategy, engine, k, z3Found>>
  PROVE  Inv'
<1> USE DEF asked
<1>1. modelFile' = IF request.dump /\ a # NoWitness THEN a ELSE modelFile
  BY DEF Decide, Report
<1>2. v # "none" /\ (v = "sat" <=> a # NoWitness)
  BY DispatchAssumption, ScriptType DEF Inconclusive, Genuine, Inv, TypeOK
<1>3. ModelIsGenuine' /\ Genuine(v, a)' /\ Dumped(v, a)'
  BY <1>1, <1>2 DEF Inv, ModelIsGenuine, Genuine, Dumped
<1>4. CASE engine = "python"
  <2>1. pc' = "done" /\ verdict' = v /\ witness' = a /\ found' = found
    BY <1>4 DEF Decide, Report
  <2>2. TypeOK'
    BY <1>1, <2>1 DEF Inv, TypeOK
  <2>3. QED
    BY <1>2, <1>3, <2>1, <2>2 DEF Inv, LoopFollows, Genuine, Dumped
<1>5. CASE engine # "python"
  <2>1. /\ pc' = "print" /\ found' = [result |-> v, model |-> a]
        /\ UNCHANGED <<verdict, witness>>
    BY <1>5 DEF Decide
  <2>2. TypeOK'
    BY <1>1, <2>1 DEF Inv, TypeOK, Findings
  <2>3. verdict = "none" /\ Genuine(verdict, witness)' /\ Dumped(verdict, witness)'
    BY <2>1 DEF Inv, Genuine, Dumped
  <2>4. QED
    BY <1>2, <1>3, <2>1, <2>2, <2>3 DEF Inv, LoopFollows, Genuine, Dumped
<1>6. QED
  BY <1>4, <1>5

\* check_plain, as the strategy or as the pre-try, keeps the invariant.
LEMMA PlainKeepsInv ==
  ASSUME Inv, PlainDecides \/ PlainInconclusive \/ PlainUnparsed
  PROVE  Inv'
<1> USE DEF asked
<1>1. Models(script) \subseteq Asg
  BY ScriptType DEF Inv, TypeOK
<1>2. CASE PlainDecides
  <2>1. TypeOK'
    BY <1>1, <1>2 DEF PlainDecides, Report, Inv, TypeOK, Findings
  <2>2. QED
    BY <1>1, <1>2, <2>1, DispatchAssumption
    DEF PlainDecides, Report, Inv, Genuine, Dumped, ModelIsGenuine, LoopFollows
<1>3. CASE PlainInconclusive
  <2>1. TypeOK'
    BY <1>3 DEF PlainInconclusive, Report, RicherChecker, Inv, TypeOK, Findings, Inconclusive
  <2>2. QED
    BY <1>3, <2>1
    DEF PlainInconclusive, Report, RicherChecker, Inv, Genuine, Dumped, ModelIsGenuine, LoopFollows
<1>4. CASE PlainUnparsed
  <2>1. TypeOK'
    BY <1>1, <1>4 DEF PlainUnparsed, Report, RicherChecker, Inv, TypeOK, Findings, Inconclusive
  <2>2. QED
    BY <1>4, <2>1
    DEF PlainUnparsed, Report, RicherChecker, Inv, Genuine, Dumped, ModelIsGenuine, LoopFollows
<1>5. QED
  BY <1>2, <1>3, <1>4

\* The loop over the disjuncts and the whole-script solve keep the invariant, in
\* the rust process and in python.
LEMMA EngineKeepsInv ==
  ASSUME Inv, RefuteDisjunct \/ DisjunctSat \/ DisjunctUnknown \/ AllRefuted \/ SolveWhole
  PROVE  Inv'
<1> USE DEF asked
<1>1. /\ DOMAIN script.goal = 1..Len(script.goal) /\ Len(script.goal) \in Nat
      /\ Models(script) \subseteq Asg /\ k \in Nat /\ NoWitness \notin Asg
  BY ScriptType, DispatchAssumption DEF Inv, TypeOK
<1>2. CASE RefuteDisjunct
  <2>1. TypeOK'
    BY <1>1, <1>2 DEF RefuteDisjunct, Proceed, Inv, TypeOK
  <2>2. script.ctx \cap script.goal[k] = {}
    <3>1. SUFFICES ASSUME NEW a \in script.ctx \cap script.goal[k] PROVE FALSE
      OBVIOUS
    <3>2. \A i \in 1..(k - 1) : a \notin script.goal[i]
      BY <1>1, <1>2 DEF RefuteDisjunct, Inv, LoopFollows
    <3>3. QED
      BY <1>2, <3>1, <3>2 DEF RefuteDisjunct, OpenModels
  <2>3. LoopFollows'
    BY <1>1, <1>2, <2>2 DEF RefuteDisjunct, Inv, LoopFollows
  <2>4. QED
    BY <1>1, <1>2, <2>1, <2>3 DEF RefuteDisjunct, Proceed, Inv, Genuine, Dumped, ModelIsGenuine
<1>3. CASE DisjunctSat
  <2>1. PICK a \in OpenModels : Decide("sat", a)
    BY <1>3 DEF DisjunctSat
  <2>2. k \in DOMAIN script.goal /\ script.goal # <<>>
    BY <1>1, <1>3 DEF DisjunctSat, Inv
  <2>3. a \in Models(script)
    BY <2>1, <2>2 DEF OpenModels, Models
  <2>4. QED
    BY <1>1, <1>3, <2>1, <2>3, DecideKeepsInv DEF DisjunctSat, Genuine
<1>4. CASE DisjunctUnknown
  <2>1. PICK r \in {"unknown", "error-broken-pipe"} : Decide(r, NoWitness)
    BY <1>4 DEF DisjunctUnknown
  <2>2. r \in Inconclusive /\ Genuine(r, NoWitness)
    BY <2>1 DEF Inconclusive, Genuine
  <2>3. QED
    BY <1>4, <2>1, <2>2, DecideKeepsInv DEF DisjunctUnknown
<1>5. CASE AllRefuted
  <2>1. \A i \in DOMAIN script.goal : script.ctx \cap script.goal[i] = {}
    BY <1>1, <1>5 DEF AllRefuted, Inv, LoopFollows
  <2>2. Models(script) = {}
    BY <1>5, <2>1 DEF AllRefuted, Inv, Models
  <2>3. QED
    BY <1>5, <2>2, DecideKeepsInv DEF AllRefuted, Genuine
<1>6. CASE SolveWhole
  <2>1. \/ Models(script) = {} /\ Decide("unsat", NoWitness)
        \/ \E a \in Models(script) : Decide("sat", a)
        \/ \E r \in {"unknown", "error-broken-pipe"} : Decide(r, NoWitness)
    BY <1>6 DEF SolveWhole
  <2>2. /\ Models(script) = {} => Genuine("unsat", NoWitness)
        /\ \A a \in Models(script) : Genuine("sat", a)
        /\ \A r \in {"unknown", "error-broken-pipe"} : r \in Inconclusive /\ Genuine(r, NoWitness)
    BY DEF Genuine, Inconclusive
  <2>3. QED
    BY <1>1, <1>6, <2>1, <2>2, DecideKeepsInv DEF SolveWhole
<1>7. QED
  BY <1>2, <1>3, <1>4, <1>5, <1>6

\* Every step of check() keeps the invariant, failures of the rust process
\* included.
LEMMA NextInv == Inv /\ [Next]_vars => Inv'
<1> SUFFICES ASSUME Inv, [Next]_vars PROVE Inv'
  OBVIOUS
<1> USE DEF asked
<1>1. CASE ResolveStrategy
  <2>1. TypeOK'
    BY <1>1 DEF ResolveStrategy, RicherChecker, Resolve, Inv, TypeOK, Requests, Strategies
  <2>2. QED
    BY <1>1, <2>1
    DEF ResolveStrategy, RicherChecker, Inv, Genuine, Dumped, ModelIsGenuine, LoopFollows
<1>2. CASE SpawnRust \/ ParsePython
  <2>1. TypeOK'
    BY <1>2 DEF SpawnRust, ParsePython, Split, Inv, TypeOK
  <2>2. LoopFollows'
    BY <1>2, ScriptType DEF SpawnRust, ParsePython, Split, Inv, TypeOK, LoopFollows
  <2>3. QED
    BY <1>2, <2>1, <2>2
    DEF SpawnRust, ParsePython, Split, Inv, Genuine, Dumped, ModelIsGenuine
<1>3. CASE RustReports
  <2>1. TypeOK'
    BY <1>3 DEF RustReports, Inv, TypeOK, Findings
  <2>2. QED
    BY <1>3, <2>1 DEF RustReports, Inv, Genuine, Dumped, ModelIsGenuine, LoopFollows
<1>4. CASE RustTimesOut \/ RustFails
  <2>1. TypeOK'
    BY <1>4 DEF RustTimesOut, RustFails, NothingFound, Inv, TypeOK, Findings, Inconclusive
  <2>2. QED
    BY <1>4, <2>1
    DEF RustTimesOut, RustFails, InRust, Inv, Genuine, Dumped, ModelIsGenuine, LoopFollows
<1>5. CASE UNCHANGED vars
  BY <1>5 DEF vars, Inv, TypeOK, Genuine, Dumped, ModelIsGenuine, LoopFollows
<1>6. QED
  BY <1>1, <1>2, <1>3, <1>4, <1>5, PlainKeepsInv, EngineKeepsInv DEF Next

\* The inductive invariant holds in every state of check(): refuted disjuncts
\* stay refuted, and what is found, reported or on file is genuine.
THEOREM AlwaysInv == Spec => []Inv
BY InitInv, NextInv, PTL DEF Spec

\* When the verdict is "sat" and a dump was asked for, the file holds the model
\* that was reported, whichever of the engines wrote it.
THEOREM ModelFileCorrect == Spec => []ModelMatchesVerdict
<1>1. Inv => ModelMatchesVerdict
  BY DEF Inv, ModelMatchesVerdict, Dumped
<1>2. QED
  BY <1>1, AlwaysInv, PTL

\* A file left behind by a rust process that died before it reported is still
\* a model of the script, so the python fallback never exposes a stale one.
THEOREM FileHoldsAModel == Spec => []ModelIsGenuine
<1>1. Inv => ModelIsGenuine
  BY DEF Inv
<1>2. QED
  BY <1>1, AlwaysInv, PTL

\* The negations the loop asserts follow from the context, also in the python
\* loop that starts over after a rust process gave up half way.
THEOREM NegationsFollow == Spec => []LoopFollows
<1>1. Inv => LoopFollows
  BY DEF Inv
<1>2. QED
  BY <1>1, AlwaysInv, PTL

\* The order in which the engines are tried.
InLoop == pc \in {"loop", "whole", "sliced"}
Rank == CASE pc = "resolve" -> 0 [] pc \in {"plain", "pretry"} -> 1 [] pc = "spawn" -> 2
          [] InLoop /\ engine = "rust" -> 3 [] pc = "print" -> 4 [] pc = "parse" -> 5
          [] InLoop /\ engine # "rust" -> 6 [] OTHER -> 7
\* A step turns to a later engine, or to the next disjunct.
Progress ==
  \/ Rank' > Rank
  \/ Rank' = Rank /\ pc = "loop" /\ k <= Len(script.goal) /\ k' = k + 1

\* No engine is tried twice, whichever of them fail and how, and an engine looks
\* at a disjunct once: the part of Answers that needs no fairness.
THEOREM EnginesOnce == Spec => [][Progress]_vars
<1>1. Inv /\ [Next]_vars => [Progress]_vars
  <2> SUFFICES ASSUME Inv, Next PROVE Progress
    OBVIOUS
  <2>1. CASE ResolveStrategy
    <3>1. pc = "resolve" /\ pc' \in {"plain", "pretry", "spawn", "parse"}
      BY <2>1 DEF ResolveStrategy, RicherChecker
    <3>2. QED
      BY <3>1 DEF Progress, Rank, InLoop
  <2>2. CASE PlainDecides \/ PlainInconclusive \/ PlainUnparsed
    <3>1. pc \in {"plain", "pretry"} /\ pc' \in {"done", "spawn", "parse"}
      BY <2>2 DEF PlainDecides, PlainInconclusive, PlainUnparsed, Report, RicherChecker
    <3>2. QED
      BY <3>1 DEF Progress, Rank, InLoop
  <2>3. CASE SpawnRust
    <3>1. pc = "spawn" /\ engine' = "rust" /\ pc' \in {"loop", "whole", "sliced"}
      BY <2>3 DEF SpawnRust, Split
    <3>2. QED
      BY <3>1 DEF Progress, Rank, InLoop
  <2>4. CASE ParsePython
    <3>1. pc = "parse" /\ engine' = "python" /\ pc' \in {"loop", "whole", "sliced"}
      BY <2>4 DEF ParsePython, Split
    <3>2. QED
      BY <3>1 DEF Progress, Rank, InLoop
  <2>5. CASE RefuteDisjunct
    BY <2>5 DEF RefuteDisjunct, Progress, Rank, InLoop
  <2>6. CASE DisjunctSat \/ DisjunctUnknown \/ AllRefuted \/ SolveWhole
    <3>1. /\ pc \in {"loop", "whole", "sliced"} /\ engine' = engine
          /\ pc' = IF engine = "python" THEN "done" ELSE "print"
      BY <2>6 DEF DisjunctSat, DisjunctUnknown, AllRefuted, SolveWhole, Decide, Report
    <3>2. engine \in {"rust", "python"}
      BY <3>1 DEF Inv
    <3>3. QED
      BY <3>1, <3>2 DEF Progress, Rank, InLoop
  <2>7. CASE RustReports
    BY <2>7 DEF RustReports, Progress, Rank, InLoop
  <2>8. CASE RustTimesOut \/ RustFails
    <3>1. engine = "rust" /\ pc \in {"loop", "whole", "print"} /\ pc' \in {"done", "parse"}
      BY <2>8 DEF RustTimesOut, RustFails, InRust
    <3>2. QED
      BY <3>1 DEF Progress, Rank, InLoop
  <2>9. QED
    BY <2>1, <2>2, <2>3, <2>4, <2>5, <2>6, <2>7, <2>8 DEF Next
<1>2. QED
  BY <1>1, AlwaysInv, PTL DEF Spec

\* check() implements the abstract verdict: one sound answer, never revised.
THEOREM DispatchImplementsVerdict == Spec => ImplementsVerdict
<1>1. Init => V!Init
  BY ScriptType DEF Init, V!Init, Answered
<1>2. Inv /\ Inv' /\ [Next]_vars => [V!Next]_(V!vars)
  <2> SUFFICES ASSUME Inv, Inv', [Next]_vars PROVE [V!Next]_(V!vars)
    OBVIOUS
  <2>1. script' = script
    BY DEF Next, vars, asked, ResolveStrategy, PlainDecides, PlainInconclusive, PlainUnparsed,
       SpawnRust, ParsePython, RefuteDisjunct, DisjunctSat, DisjunctUnknown, AllRefuted,
       SolveWhole, RustReports, RustTimesOut, RustFails
  <2>2. CASE UNCHANGED <<verdict, witness>>
    BY <2>1, <2>2 DEF V!vars, Answered
  <2>3. CASE pc # "done" /\ verdict' # verdict
    <3>1. verdict = "none" /\ witness = NoWitness /\ verdict' # "none"
      BY <2>3 DEF Inv
    <3>2. Genuine(verdict', witness')
      BY <2>1 DEF Inv, Genuine
    <3>3. V!AnswerUnsat \/ V!AnswerSat \/ V!AnswerUnknown
      BY <2>1, <3>1, <3>2
      DEF Genuine, V!AnswerUnsat, V!AnswerSat, V!AnswerUnknown, V!Answer, Answered
    <3>4. QED
      BY <3>3 DEF V!Next
  <2>4. pc = "done" => UNCHANGED <<verdict, witness>>
    BY DEF Next, vars, ResolveStrategy, PlainDecides, PlainInconclusive, PlainUnparsed,
       SpawnRust, ParsePython, RefuteDisjunct, DisjunctSat, DisjunctUnknown, AllRefuted,
       SolveWhole, RustReports, RustTimesOut, RustFails, InRust
  <2>5. verdict' = verdict => witness' = witness
    <3>1. CASE pc' = "done"
      BY <2>4, <3>1 DEF Inv
    <3>2. CASE pc' # "done"
      BY <2>4, <3>2 DEF Inv
    <3>3. QED
      BY <3>1, <3>2
  <2>6. QED
    BY <2>2, <2>3, <2>4, <2>5
<1>3. QED
  BY <1>1, <1>2, AlwaysInv, PTL DEF Spec, ImplementsVerdict, V!Spec
=============================================================================
