-------------------------- MODULE SimplifierDriver --------------------------
(***************************************************************************)
(* `main.py simplify`: run a pipeline of passes over a script, each pass   *)
(* by its executor, python or the rust simplifier.  Neighbouring passes    *)
(* with the same executor form a group.  A rust group is one subprocess,   *)
(* whose failure is made up for by running the group in python.            *)
(*                                                                         *)
(* A script is known by the passes it went through.  Tactics with an       *)
(* unknown executor are dropped before and left out here.                  *)
(***************************************************************************)
EXTENDS Integers, Sequences

CONSTANT Pipelines  \* the pipelines: sequences of executor prefixes, "" for none

Executors == {"p", "r"}
Prefixes == Executors \cup {""}
ASSUME PipelinesAssumption == \A p \in Pipelines : p \in Seq(Prefixes) /\ p # <<>>

VARIABLES
  pipeline, default,  \* the request: the passes, and --default-executor
  installed,          \* the rust simplifier is there
  pc,
  script,    \* the script in memory
  backup,    \* the script before the pass that is running
  deferred,  \* the input has not been parsed, rust is to read it
  upto,      \* the last pass of the current group
  attempt,   \* what the python loop runs: a group, or the fallback of one
  late,      \* no time is left before the deadline
  clock,     \* no time is left of the budget a rust group or fallback has of its own
  target,    \* where the rust process writes
  proc,      \* its script, and what became of the passes so far
  report,    \* what became of each pass, as reported
  wrote,     \* the rust process wrote the output
  file

request == <<pipeline, default, installed>>
time == <<late, clock>>
rust == <<target, proc>>
vars == <<request, pc, script, backup, deferred, upto, attempt, time, rust, report, wrote, file>>

Results == {"ran", "skipped", "timeout"}
Contents == [state : {"none", "dirty", "whole"}, passes : Seq(Nat)]
None == [state |-> "none", passes |-> <<>>]
Dirty == [state |-> "dirty", passes |-> <<>>]
Apply(c, i) == [c EXCEPT !.passes = Append(@, i)]

N == Len(pipeline)
n == Len(report)
Executor(i) == IF pipeline[i] = "" THEN default ELSE pipeline[i]

\* The group of the passes n + 1 .. m.
IsGroup(m) ==
  /\ m \in (n + 1)..N
  /\ \A j \in (n + 1)..m : Executor(j) = Executor(n + 1)
  /\ m < N => Executor(m + 1) # Executor(n + 1)

\* Parse the input unless a script is at hand.  In the mutant it is taken for
\* granted that there is one.
LoadedNever == script
Loaded == IF script.state = "none" THEN file["input"] ELSE script

Init ==
  /\ pipeline \in Pipelines /\ default \in Executors /\ installed \in BOOLEAN
  /\ pc = "load" /\ script = None /\ backup = None /\ deferred = FALSE
  /\ upto = 0 /\ attempt = "main"
  /\ late \in BOOLEAN /\ clock = FALSE
  /\ target = "stdout" /\ proc = [script |-> None, results |-> <<>>]
  /\ report = <<>> /\ wrote = FALSE
  /\ file = [input |-> [state |-> "whole", passes |-> <<>>], output |-> None, temp |-> None]

\* A pipeline that begins with rust leaves the parsing to it.
Load ==
  /\ pc = "load"
  /\ pc' = "group"
  /\ deferred' = (Executor(1) = "r")
  /\ script' = IF Executor(1) = "r" THEN None ELSE file["input"]
  /\ UNCHANGED <<request, backup, upto, attempt, time, rust, report, wrote, file>>

-----------------------------------------------------------------------------
\* The groups.

NextGroup(executor) == pc = "group" /\ n < N /\ Executor(n + 1) = executor

PythonGroup(m) ==
  /\ NextGroup("p") /\ IsGroup(m)
  /\ upto' = m
  /\ attempt' = "main"
  /\ script' = Loaded
  /\ pc' = "pass"
  /\ UNCHANGED <<request, backup, deferred, time, rust, report, wrote, file>>

Skipped(m) == [i \in 1..(m - n) |-> "skipped"]
SkipGroup(m) ==
  /\ NextGroup("r") /\ IsGroup(m)
  /\ late
  /\ report' = report \o Skipped(m)
  /\ UNCHANGED <<request, pc, script, backup, deferred, upto, attempt, time, rust, wrote, file>>

\* A rust group reads and writes files as long as nothing has been parsed: it
\* writes the output when it is the last group, else a temporary file.
RustGroup(m) ==
  /\ NextGroup("r") /\ IsGroup(m)
  /\ ~late
  /\ upto' = m
  /\ deferred' = FALSE
  /\ target' = IF ~deferred THEN "stdout" ELSE IF m < N THEN "temp" ELSE "output"
  /\ file' = IF target' = "temp" THEN [file EXCEPT !["temp"] = Dirty] ELSE file
  /\ proc' = [script |-> IF deferred THEN file["input"] ELSE script, results |-> <<>>]
  /\ clock' \in BOOLEAN
  /\ pc' = IF installed THEN "rust" ELSE "fallback"
  /\ UNCHANGED <<request, script, backup, attempt, late, report, wrote>>

-----------------------------------------------------------------------------
\* The rust process.  It looks at its budget before and after a pass, and
\* interrupts none.

Behind == pc = "rust" /\ n + Len(proc.results) < upto
RustPass(result) ==
  /\ Behind
  /\ proc' = [proc EXCEPT !.results = Append(@, result),
                          !.script = IF result = "ran" THEN Apply(@, n + Len(proc.results) + 1)
                                     ELSE @]
  /\ UNCHANGED <<request, pc, script, backup, deferred, upto, attempt, late, target, report,
                 wrote, file>>
RustSkips == clock /\ RustPass("skipped") /\ UNCHANGED clock
RustRuns == ~clock /\ RustPass("ran") /\ UNCHANGED clock
RustOverruns == ~clock /\ RustPass("timeout") /\ clock' = TRUE

RustWrites ==
  /\ pc = "rust" /\ ~Behind
  /\ file' = IF target = "stdout" THEN file ELSE [file EXCEPT ![target] = proc.script]
  /\ pc' = "written"
  /\ UNCHANGED <<request, script, backup, deferred, upto, attempt, time, rust, report, wrote>>

\* It may fail in a pass, while it writes, or afterwards.
RustFails ==
  /\ pc \in {"rust", "written"}
  /\ file' \in {file} \cup IF Behind \/ target = "stdout" THEN {}
                           ELSE {[file EXCEPT ![target] = Dirty]}
  /\ pc' = "fallback"
  /\ UNCHANGED <<request, script, backup, deferred, upto, attempt, time, rust, report, wrote>>

\* Success: what it printed or wrote is parsed, unless it is the output.
RustReturns ==
  /\ pc = "written"
  /\ report' = report \o proc.results
  /\ wrote' = (target = "output")
  /\ script' = CASE target = "output" -> None
                 [] target = "temp"   -> file["temp"]
                 [] OTHER             -> proc.script
  /\ file' = [file EXCEPT !["temp"] = None]
  /\ pc' = "group"
  /\ UNCHANGED <<request, backup, deferred, upto, attempt, time, rust>>

\* The group starts over in python, on a budget of its own.
Fallback ==
  /\ pc = "fallback"
  /\ script' = Loaded
  /\ attempt' = "fallback"
  /\ clock' \in BOOLEAN
  /\ pc' = "pass"
  /\ UNCHANGED <<request, backup, deferred, upto, late, rust, report, wrote, file>>

-----------------------------------------------------------------------------
\* The python loop.  A pass works on the script in place and is interrupted
\* by a timer when its time is over.

\* In the mutant a fallback has no deadline.
OutOfTimeInMain == attempt = "main" /\ late
OutOfTime == IF attempt = "main" THEN late ELSE clock

Settle(result) == report' = Append(report, result)

SkipPass ==
  /\ pc = "pass" /\ n < upto
  /\ OutOfTime
  /\ Settle("skipped")
  /\ UNCHANGED <<request, pc, script, backup, deferred, upto, attempt, time, rust, wrote, file>>

\* The mutant has no check of the time that is left.
StartPassAlways ==
  /\ pc = "pass" /\ n < upto
  /\ backup' = script
  /\ script' = Dirty
  /\ pc' = "running"
  /\ UNCHANGED <<request, deferred, upto, attempt, time, rust, report, wrote, file>>
StartPass ==
  /\ pc = "pass" /\ n < upto
  /\ ~OutOfTime
  /\ backup' = script
  /\ script' = Dirty
  /\ pc' = "running"
  /\ UNCHANGED <<request, deferred, upto, attempt, time, rust, report, wrote, file>>

PassEnds ==
  /\ pc \in {"running", "caught"}
  /\ script' = Apply(backup, n + 1)
  /\ Settle("ran")
  /\ pc' = "pass"
  /\ UNCHANGED <<request, backup, deferred, upto, attempt, time, rust, wrote, file>>

PassTimesOut ==
  /\ pc = "running"
  /\ OutOfTime
  /\ script' = backup
  /\ Settle("timeout")
  /\ pc' = "pass"
  /\ UNCHANGED <<request, backup, deferred, upto, attempt, time, rust, wrote, file>>

\* A pass with a handler for any exception catches the interrupt as well, and
\* goes on: the timer goes off once only.
PassCatches ==
  /\ pc = "running"
  /\ OutOfTime
  /\ pc' = "caught"
  /\ UNCHANGED <<request, script, backup, deferred, upto, attempt, time, rust, report, wrote, file>>

\* An exception ends the program; the temporary file is unlinked on the way
\* out.
PassRaises ==
  /\ pc \in {"running", "caught"}
  /\ file' = [file EXCEPT !["temp"] = None]
  /\ pc' = "failed"
  /\ UNCHANGED <<request, script, backup, deferred, upto, attempt, time, rust, report, wrote>>

\* After a fallback the output has not been written, whatever was to be.  In
\* the mutant the group counts as the one that wrote it.
EndOfGroupWrote ==
  /\ pc = "pass" /\ n = upto
  /\ attempt' = "main"
  /\ file' = [file EXCEPT !["temp"] = None]
  /\ wrote' = (attempt = "fallback" /\ target = "output")
  /\ pc' = "group"
  /\ UNCHANGED <<request, script, backup, deferred, upto, time, rust, report>>
EndOfGroup ==
  /\ pc = "pass" /\ n = upto
  /\ attempt' = "main"
  /\ file' = [file EXCEPT !["temp"] = None]
  /\ pc' = "group"
  /\ UNCHANGED <<request, script, backup, deferred, upto, time, rust, report, wrote>>

-----------------------------------------------------------------------------
\* Without a script there is nothing to dump: the output is emptied and the
\* program fails.
Finish ==
  /\ pc = "group" /\ n = N
  /\ pc' = IF ~wrote /\ script.state = "none" THEN "unparsed" ELSE "done"
  /\ file' = IF wrote THEN file
             ELSE [file EXCEPT !["output"] = IF script.state = "none" THEN Dirty ELSE script]
  /\ UNCHANGED <<request, script, backup, deferred, upto, attempt, time, rust, report, wrote>>

Deadline ==
  /\ ~late
  /\ late' = TRUE
  /\ UNCHANGED <<request, pc, script, backup, deferred, upto, attempt, clock, rust, report,
                 wrote, file>>
OwnDeadline ==
  /\ pc \in {"rust", "pass", "running"} /\ ~clock
  /\ clock' = TRUE
  /\ UNCHANGED <<request, pc, script, backup, deferred, upto, attempt, late, rust, report,
                 wrote, file>>

Driver ==
  \/ Load \/ \E m \in 1..N : PythonGroup(m) \/ SkipGroup(m) \/ RustGroup(m)
  \/ RustSkips \/ RustWrites \/ RustReturns \/ Fallback
  \/ SkipPass \/ StartPass \/ PassTimesOut \/ EndOfGroup \/ Finish
Next == Driver \/ PassEnds \/ PassCatches \/ PassRaises \/ RustRuns \/ RustOverruns \/ RustFails
        \/ Deadline \/ OwnDeadline

\* The driver goes on and time passes.  A pass of the rust process ends, since
\* nothing interrupts it; a python pass need not, unless it has caught its
\* interrupt: `domain_probe` returns at once, `skolem` has finitely many islands.
Fairness == /\ WF_vars(Driver) /\ WF_vars(Deadline) /\ WF_vars(OwnDeadline)
            /\ WF_vars(RustRuns \/ RustOverruns)
            /\ WF_vars(pc = "caught" /\ PassEnds)
Spec == Init /\ [][Next]_vars /\ Fairness

-----------------------------------------------------------------------------
\* Properties.

\* Every variable has its type; no more passes are reported than there are.
TypeOK ==
  /\ pipeline \in Pipelines /\ default \in Executors /\ installed \in BOOLEAN
  /\ pc \in {"load", "group", "rust", "written", "fallback", "pass", "running", "caught",
             "failed", "unparsed", "done"}
  /\ script \in Contents /\ backup \in Contents
  /\ deferred \in BOOLEAN /\ upto \in Nat /\ attempt \in {"main", "fallback"}
  /\ late \in BOOLEAN /\ clock \in BOOLEAN
  /\ target \in {"stdout", "temp", "output"}
  /\ proc \in [script : Contents, results : Seq(Results)]
  /\ report \in Seq(Results) /\ n <= N
  /\ wrote \in BOOLEAN
  /\ file \in [{"input", "output", "temp"} -> Contents]

\* A script that went through the passes of R, each once and in order.
WentThrough(c, R) ==
  /\ c.state = "whole"
  /\ {c.passes[j] : j \in DOMAIN c.passes} = R
  /\ \A j, k \in DOMAIN c.passes : j < k => c.passes[j] < c.passes[k]
Ran == {i \in DOMAIN report : report[i] = "ran"}

\* The report tells the truth about the output: it is the input after exactly
\* the passes reported as run, in order and once each, whichever executor ran
\* them, timed out or failed, and every pass is reported.
OutputMatchesReport == pc = "done" => n = N /\ WentThrough(file["output"], Ran)

\* Within a group nothing is tried any more once a pass was given up.
NoPassAfterDeadline ==
  \A j \in DOMAIN report : \A i \in 1..(j - 1) :
    report[i] # "ran" /\ (\A k \in i..j : Executor(k) = Executor(j)) => report[j] = "skipped"

\* The output is missing for want of a parsed script only when no pass could
\* be tried at all; work that was done is never lost.
UnparsedOnlyWithoutWork ==
  pc = "unparsed" => \A i \in 1..N : Executor(i) = "r" /\ report[i] = "skipped"

\* No temporary file outlives its group, also when the group fails.
TempRemoved == pc \in {"group", "done", "unparsed", "failed"} => file["temp"] = None

\* The program ends, though python passes may hang.
Terminates == <>(pc \in {"done", "unparsed", "failed"})
=============================================================================
