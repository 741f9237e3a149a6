----------------------- MODULE SimplifierDriverProofs -----------------------
(***************************************************************************)
(* The report of a simplification tells the truth about its output, for    *)
(* every pipeline and whatever times out or fails.  The argument: the      *)
(* script at hand, in memory, in the rust process or in the file it wrote, *)
(* went through exactly the passes settled as run so far; and what is      *)
(* still read from the input file is read before any pass has run.         *)
(***************************************************************************)
EXTENDS SimplifierDriver, TLAPS

Clean(c) == WentThrough(c, Ran)
ProcRan == Ran \cup {n + j : j \in {i \in DOMAIN proc.results : proc.results[i] = "ran"}}

BatchInv ==
  /\ pc \in {"rust", "written", "fallback", "pass", "running", "caught"} => n <= upto /\ upto <= N
  /\ pc \in {"running", "caught"} => n < upto
LoadInv == pc = "load" => report = <<>> /\ ~wrote /\ ~deferred /\ script = None /\ file["temp"] = None
InputInv == file["input"] = [state |-> "whole", passes |-> <<>>]
\* As long as rust is to read the input, nothing ran; and once a group was
\* skipped there is no time left for anything else.
DeferInv ==
  deferred => /\ ~wrote /\ Executor(1) = "r" /\ Ran = {} /\ (n > 0 => late)
              /\ pc \in {"group", "pass", "unparsed", "done"}
              /\ pc = "pass" => late /\ attempt = "main"
ScriptInv ==
  /\ pc \in {"group", "rust", "written", "fallback", "pass"} => script.state = "none" \/ Clean(script)
  /\ script.state = "none" /\ ~wrote
       => \A i \in DOMAIN report : Executor(i) = "r" /\ report[i] = "skipped"
  /\ pc = "group" /\ script.state = "none" => deferred \/ wrote
  /\ pc = "pass" => script.state # "none"
  /\ pc \in {"running", "caught"} => Clean(backup)
ProcInv ==
  pc \in {"rust", "written"} =>
    /\ WentThrough(proc.script, ProcRan)
    /\ n + Len(proc.results) <= upto
    /\ target = "output" => upto = N
    /\ pc = "written" => n + Len(proc.results) = upto
                         /\ (target # "stdout" => file[target] = proc.script)
WroteInv == wrote => n = N /\ Clean(file["output"]) /\ pc \in {"group", "done"}

Inv == /\ TypeOK /\ BatchInv /\ LoadInv /\ InputInv /\ DeferInv /\ ScriptInv /\ ProcInv
       /\ WroteInv /\ OutputMatchesReport /\ UnparsedOnlyWithoutWork /\ TempRemoved

USE DEF n, N

-----------------------------------------------------------------------------
\* What a report says of the passes that ran, when it grows.
LEMMA PipelineShape == ASSUME pipeline \in Pipelines PROVE N \in Nat /\ N > 0
BY PipelinesAssumption

LEMMA ReportAppend ==
  ASSUME report \in Seq(Results), NEW r \in Results, report' = Append(report, r)
  PROVE  /\ n' = n + 1
         /\ DOMAIN report' = DOMAIN report \cup {n + 1}
         /\ \A i \in DOMAIN report : report'[i] = report[i]
         /\ Ran' = IF r = "ran" THEN Ran \cup {n + 1} ELSE Ran
         /\ \A i \in Ran : i < n + 1
         /\ report' \in Seq(Results)
BY DEF Ran

LEMMA ReportConcat ==
  ASSUME report \in Seq(Results), NEW s \in Seq(Results), report' = report \o s
  PROVE  /\ report' \in Seq(Results)
         /\ n' = n + Len(s)
         /\ \A i \in DOMAIN report : i \in DOMAIN report' /\ report'[i] = report[i]
         /\ \A j \in DOMAIN s : n + j \in DOMAIN report' /\ report'[n + j] = s[j]
         /\ \A i \in DOMAIN report' \ DOMAIN report : i - n \in DOMAIN s
         /\ Ran' = Ran \cup {n + j : j \in {i \in DOMAIN s : s[i] = "ran"}}
<1>1. /\ report' \in Seq(Results)
      /\ n' = n + Len(s)
      /\ \A i \in DOMAIN report : i \in DOMAIN report' /\ report'[i] = report[i]
      /\ \A j \in DOMAIN s : n + j \in DOMAIN report' /\ report'[n + j] = s[j]
      /\ \A i \in DOMAIN report' \ DOMAIN report : i - n \in DOMAIN s
  OBVIOUS
<1>2. ASSUME NEW i \in Ran' PROVE i \in Ran \cup {n + j : j \in {k \in DOMAIN s : s[k] = "ran"}}
  <2>1. CASE i \in DOMAIN report
    BY <1>1, <1>2, <2>1 DEF Ran
  <2>2. CASE i \notin DOMAIN report
    <3>1. i - n \in DOMAIN s /\ i = n + (i - n)
      BY <1>1, <1>2, <2>2 DEF Ran
    <3>2. s[i - n] = "ran"
      BY <1>1, <1>2, <3>1 DEF Ran
    <3>3. QED
      BY <3>1, <3>2
  <2>3. QED
    BY <2>1, <2>2
<1>3. ASSUME NEW i \in Ran \cup {n + j : j \in {k \in DOMAIN s : s[k] = "ran"}} PROVE i \in Ran'
  BY <1>1, <1>3 DEF Ran
<1>4. QED
  BY <1>1, <1>2, <1>3

\* A pass later than all before it keeps the order.
LEMMA ApplyPass ==
  ASSUME NEW c \in Contents, NEW R, NEW i \in Nat, WentThrough(c, R), \A r \in R : r < i
  PROVE  Apply(c, i) \in Contents /\ WentThrough(Apply(c, i), R \cup {i})
<1> DEFINE s == c.passes
           t == Append(s, i)
<1>1. s \in Seq(Nat) /\ c.state = "whole"
  BY DEF Contents, WentThrough
<1>2. Apply(c, i) \in Contents /\ Apply(c, i).state = "whole" /\ Apply(c, i).passes = t
  BY <1>1 DEF Apply, Contents
<1>3. t \in Seq(Nat) /\ DOMAIN t = DOMAIN s \cup {Len(s) + 1} /\ t[Len(s) + 1] = i
      /\ \A j \in DOMAIN s : t[j] = s[j] /\ j < Len(s) + 1
  BY <1>1
<1>4. {t[j] : j \in DOMAIN t} = R \cup {i}
  BY <1>3 DEF WentThrough
<1>5. \A j, k \in DOMAIN t : j < k => t[j] < t[k]
  <2> SUFFICES ASSUME NEW j \in DOMAIN t, NEW k \in DOMAIN t, j < k PROVE t[j] < t[k]
    OBVIOUS
  <2>1. j \in DOMAIN s
    BY <1>1, <1>3
  <2>2. CASE k \in DOMAIN s
    BY <1>3, <2>1, <2>2 DEF WentThrough
  <2>3. CASE k = Len(s) + 1
    BY <1>3, <2>1, <2>3 DEF WentThrough
  <2>4. QED
    BY <1>3, <2>2, <2>3
<1>6. QED
  BY <1>2, <1>4, <1>5 DEF WentThrough

\* The input went through nothing.
LEMMA InputClean == ASSUME InputInv PROVE file["input"] \in Contents /\ WentThrough(file["input"], {})
BY DEF InputInv, WentThrough, Contents

\* What does not change when nothing is reported.
LEMMA SameReport ==
  ASSUME UNCHANGED <<request, report>>
  PROVE  /\ n' = n /\ N' = N /\ Ran' = Ran
         /\ \A i : Executor(i)' = Executor(i)
         /\ \A c : Clean(c)' <=> WentThrough(c', Ran)
BY DEF Ran, request, Executor, Clean, WentThrough

-----------------------------------------------------------------------------
THEOREM DriverInit == Init => Inv
<1> SUFFICES ASSUME Init PROVE Inv
  OBVIOUS
<1>1. TypeOK
  <2>1. N \in Nat
    BY PipelineShape DEF Init
  <2>2. None \in Contents /\ [state |-> "whole", passes |-> <<>>] \in Contents
    BY DEF None, Contents
  <2>3. report \in Seq(Results) /\ n <= N /\ proc \in [script : Contents, results : Seq(Results)]
    BY <2>1, <2>2 DEF Init
  <2>4. file \in [{"input", "output", "temp"} -> Contents]
    BY <2>2 DEF Init
  <2>5. QED
    BY <2>1, <2>2, <2>3, <2>4 DEF Init, TypeOK
<1>2. QED
  BY <1>1 DEF Init, Inv, BatchInv, LoadInv, InputInv, DeferInv, ScriptInv, ProcInv, WroteInv,
              OutputMatchesReport, UnparsedOnlyWithoutWork, TempRemoved, None

\* Steps of the driver's loop over the groups.
LEMMA LoadStep == Inv /\ Load => Inv'
<1> SUFFICES ASSUME Inv, Load PROVE Inv'
  OBVIOUS
<1>1. /\ report = <<>> /\ ~wrote /\ Ran = {} /\ n = 0
      /\ pc' = "group" /\ deferred' \in BOOLEAN
      /\ UNCHANGED <<request, backup, upto, attempt, time, rust, report, wrote, file>>
  BY DEF Inv, Load, LoadInv, Ran
<1>2. n' = n /\ N' = N /\ Ran' = Ran /\ (\A i : Executor(i)' = Executor(i))
  BY <1>1, SameReport DEF request
<1>3. None \in Contents /\ file["input"] \in Contents /\ file["input"].state = "whole"
      /\ WentThrough(file["input"], {})
  BY InputClean DEF None, Contents, Inv, InputInv
<1>4. script' \in Contents /\ (script'.state = "none" => deferred')
      /\ (script'.state = "none" \/ WentThrough(script', {}))
      /\ (deferred' => Executor(1) = "r")
  BY <1>3 DEF Load, None
<1>5. TypeOK'
  BY <1>1, <1>2, <1>4 DEF Inv, TypeOK, request, time, rust
<1>6. ScriptInv'
  BY <1>1, <1>2, <1>4 DEF ScriptInv, Clean
<1>7. /\ BatchInv' /\ LoadInv' /\ InputInv' /\ ProcInv' /\ WroteInv' /\ TempRemoved'
      /\ OutputMatchesReport' /\ UnparsedOnlyWithoutWork'
  <2>1. file["temp"] = None
    BY DEF Inv, LoadInv, Load
  <2>2. QED
    BY <1>1, <2>1 DEF Inv, BatchInv, LoadInv, InputInv, ProcInv, WroteInv, TempRemoved,
                      OutputMatchesReport, UnparsedOnlyWithoutWork
<1>8. DeferInv'
  BY <1>1, <1>2, <1>4 DEF DeferInv
<1>9. QED
  BY <1>5, <1>6, <1>7, <1>8 DEF Inv

LEMMA LoadedClean ==
  ASSUME Inv, pc \in {"group", "fallback"}, ~wrote
  PROVE  Loaded \in Contents /\ Loaded.state # "none" /\ Clean(Loaded)
<1>1. CASE script.state = "none"
  <2>1. Ran = {}
    BY <1>1 DEF Inv, ScriptInv, Ran
  <2>2. QED
    BY <1>1, <2>1, InputClean DEF Inv, InputInv, Loaded, Clean
<1>2. CASE script.state # "none"
  BY <1>2 DEF Inv, ScriptInv, Loaded, TypeOK
<1>3. QED
  BY <1>1, <1>2

LEMMA PythonGroupStep == ASSUME Inv, NEW m \in 1..N, PythonGroup(m) PROVE Inv'
<1>1. m \in Nat /\ n \in Nat /\ N \in Nat /\ n < m /\ m <= N /\ ~wrote
  BY PipelineShape DEF Inv, TypeOK, PythonGroup, NextGroup, IsGroup, WroteInv
<1>2. deferred => late
  BY <1>1 DEF Inv, DeferInv, PythonGroup, NextGroup, TypeOK
<1>3. Loaded \in Contents /\ Loaded.state # "none" /\ Clean(Loaded)
  BY <1>1, LoadedClean DEF PythonGroup, NextGroup
<1>4. TypeOK'
  BY <1>1, <1>3 DEF Inv, PythonGroup, TypeOK, request, time, rust
<1>5. ScriptInv'
  BY <1>3, SameReport DEF PythonGroup, ScriptInv, Clean
<1>6. QED
  BY <1>1, <1>2, <1>4, <1>5, SameReport
  DEF Inv, PythonGroup, BatchInv, LoadInv, InputInv, DeferInv, ProcInv, WroteInv, TempRemoved,
      OutputMatchesReport, UnparsedOnlyWithoutWork, time, rust

LEMMA SkipGroupStep == ASSUME Inv, NEW m \in 1..N, SkipGroup(m) PROVE Inv'
<1> DEFINE s == Skipped(m)
<1>1. m \in Nat /\ n \in Nat /\ N \in Nat /\ n < m /\ m <= N /\ ~wrote /\ late
      /\ \A j \in (n + 1)..m : Executor(j) = "r"
  BY PipelineShape DEF Inv, TypeOK, SkipGroup, NextGroup, IsGroup, WroteInv
<1>2. s \in Seq(Results) /\ Len(s) = m - n /\ DOMAIN s = 1..(m - n)
      /\ \A j \in DOMAIN s : s[j] = "skipped"
  BY <1>1 DEF Skipped, Results
<1>3. report \in Seq(Results) /\ report' = report \o s
      /\ UNCHANGED <<request, pc, script, backup, deferred, upto, attempt, time, rust, wrote, file>>
  BY DEF Inv, TypeOK, SkipGroup
<1>4. report' \in Seq(Results) /\ n' = m /\ N' = N /\ Ran' = Ran
      /\ (\A k : Executor(k)' = Executor(k))
      /\ \A k \in DOMAIN report' :
           \/ k \in DOMAIN report /\ report'[k] = report[k]
           \/ k \in (n + 1)..m /\ report'[k] = "skipped"
  <2> HIDE DEF s
  <2>1. report' \in Seq(Results) /\ n' = n + Len(s) /\ Ran' = Ran
    BY <1>2, <1>3, ReportConcat
  <2>2. ASSUME NEW k \in DOMAIN report'
        PROVE  \/ k \in DOMAIN report /\ report'[k] = report[k]
               \/ k \in (n + 1)..m /\ report'[k] = "skipped"
    <3>1. CASE k \in DOMAIN report
      BY <1>2, <1>3, <3>1, ReportConcat
    <3>2. CASE k \notin DOMAIN report
      <4>1. k - n \in DOMAIN s /\ k \in Nat
        BY <1>2, <1>3, <2>1, <2>2, <3>2, ReportConcat
      <4>2. report'[n + (k - n)] = s[k - n]
        BY <1>2, <1>3, <4>1, ReportConcat
      <4>3. QED
        BY <1>1, <1>2, <4>1, <4>2
    <3>3. QED
      BY <3>1, <3>2
  <2>3. N' = N /\ (\A k : Executor(k)' = Executor(k))
    BY <1>3 DEF request, Executor
  <2>4. n' = m
    BY <1>1, <1>2, <2>1
  <2>5. QED
    BY <2>1, <2>2, <2>3, <2>4
<1>5. pc = "group" /\ pc' = "group"
  BY <1>3 DEF SkipGroup, NextGroup
<1>6. TypeOK'
  BY <1>1, <1>3, <1>4 DEF Inv, TypeOK, request, time, rust
<1>7. ScriptInv'
  BY <1>1, <1>3, <1>4, <1>5 DEF Inv, ScriptInv, Clean
<1>8. DeferInv'
  BY <1>1, <1>3, <1>4, <1>5 DEF Inv, DeferInv, time
<1>9. QED
  BY <1>1, <1>3, <1>4, <1>5, <1>6, <1>7, <1>8
  DEF Inv, BatchInv, LoadInv, InputInv, ProcInv, WroteInv, TempRemoved,
      OutputMatchesReport, UnparsedOnlyWithoutWork

LEMMA RustGroupStep == ASSUME Inv, NEW m \in 1..N, RustGroup(m) PROVE Inv'
<1>1. m \in Nat /\ n \in Nat /\ N \in Nat /\ n < m /\ m <= N /\ ~wrote /\ pc = "group"
  BY PipelineShape DEF Inv, TypeOK, RustGroup, NextGroup, IsGroup, WroteInv
<1>2. /\ upto' = m /\ deferred' = FALSE /\ pc' \in {"rust", "fallback"} /\ clock' \in BOOLEAN
      /\ target' \in {"stdout", "temp", "output"} /\ (target' = "output" => m = N)
      /\ file' \in {file, [file EXCEPT !["temp"] = Dirty]}
      /\ proc' = [script |-> IF deferred THEN file["input"] ELSE script, results |-> <<>>]
      /\ UNCHANGED <<request, script, backup, attempt, late, report, wrote>>
  BY <1>1 DEF RustGroup
<1>3. n' = n /\ N' = N /\ Ran' = Ran /\ (\A i : Executor(i)' = Executor(i))
  BY <1>2, SameReport
<1>4. proc'.script \in Contents /\ WentThrough(proc'.script, Ran)
  <2>1. CASE deferred
    BY <1>2, <2>1, InputClean DEF Inv, DeferInv
  <2>2. CASE ~deferred
    BY <1>1, <1>2, <2>2 DEF Inv, TypeOK, ScriptInv, Clean
  <2>3. QED
    BY <2>1, <2>2
<1>5. proc' \in [script : Contents, results : Seq(Results)] /\ proc'.results = <<>>
      /\ ProcRan' = Ran
  BY <1>2, <1>3, <1>4 DEF ProcRan
<1>6. file' \in [{"input", "output", "temp"} -> Contents] /\ file'["input"] = file["input"]
  <2>1. Dirty \in Contents
    BY DEF Dirty, Contents
  <2>2. QED
    BY <1>2, <2>1 DEF Inv, TypeOK
<1>7. TypeOK'
  BY <1>1, <1>2, <1>3, <1>5, <1>6 DEF Inv, TypeOK, request
<1>8. ScriptInv'
  BY <1>1, <1>2, <1>3 DEF Inv, ScriptInv, Clean
<1>9. ProcInv'
  BY <1>1, <1>2, <1>3, <1>4, <1>5 DEF ProcInv
<1>10. QED
  BY <1>1, <1>2, <1>3, <1>6, <1>7, <1>8, <1>9
  DEF Inv, BatchInv, LoadInv, InputInv, DeferInv, WroteInv, TempRemoved,
      OutputMatchesReport, UnparsedOnlyWithoutWork

-----------------------------------------------------------------------------
\* Steps of the rust process, and what becomes of its group.

LEMMA RustPassStep ==
  ASSUME Inv, NEW r \in Results, RustPass(r), clock' \in BOOLEAN PROVE Inv'
<1> DEFINE res == proc.results
           i == n + Len(res) + 1
<1>1. /\ pc = "rust" /\ n + Len(res) < upto /\ ~wrote
      /\ UNCHANGED <<request, pc, script, backup, deferred, upto, attempt, late, target, report,
                     wrote, file>>
  BY DEF RustPass, Behind, Inv, WroteInv
<1>2. n' = n /\ N' = N /\ Ran' = Ran /\ (\A k : Executor(k)' = Executor(k))
  BY <1>1, SameReport
<1>3. /\ report \in Seq(Results) /\ res \in Seq(Results) /\ proc.script \in Contents
      /\ n \in Nat /\ Len(res) \in Nat /\ upto \in Nat /\ i \in Nat
      /\ WentThrough(proc.script, ProcRan)
      /\ proc \in [script : Contents, results : Seq(Results)]
  BY <1>1 DEF Inv, TypeOK, ProcInv
<1>4. proc' = [script |-> IF r = "ran" THEN Apply(proc.script, i) ELSE proc.script,
               results |-> Append(res, r)]
  BY <1>3 DEF RustPass
<1>5. proc'.results = Append(res, r) /\ proc'.results \in Seq(Results)
      /\ DOMAIN proc'.results = DOMAIN res \cup {Len(res) + 1}
      /\ Len(proc'.results) = Len(res) + 1
      /\ (\A k \in DOMAIN res : proc'.results[k] = res[k] /\ k <= Len(res) /\ k \in Nat)
      /\ proc'.results[Len(res) + 1] = r
  BY <1>3, <1>4
<1>6. \A k \in ProcRan : k < i
  BY <1>3, <1>5 DEF ProcRan, Ran
<1>7. ProcRan' = ProcRan \cup (IF r = "ran" THEN {i} ELSE {})
  <2> DEFINE P == {k \in DOMAIN res : res[k] = "ran"}
             Q == {k \in DOMAIN proc'.results : proc'.results[k] = "ran"}
  <2>1. Q = P \cup (IF r = "ran" THEN {Len(res) + 1} ELSE {})
    BY <1>3, <1>5
  <2>2. ProcRan' = Ran \cup {n + j : j \in Q} /\ ProcRan = Ran \cup {n + j : j \in P}
    BY <1>2 DEF ProcRan
  <2> HIDE DEF P, Q
  <2>3. i = n + (Len(res) + 1)
    BY <1>3
  <2>4. QED
    BY <2>1, <2>2, <2>3
<1>8. proc'.script \in Contents /\ WentThrough(proc'.script, ProcRan')
  BY <1>3, <1>4, <1>6, <1>7, ApplyPass
<1>9. TypeOK'
  <2>1. proc' \in [script : Contents, results : Seq(Results)]
    BY <1>4, <1>5, <1>8
  <2>2. QED
    BY <1>1, <1>2, <2>1 DEF Inv, TypeOK, request
<1>10. ProcInv'
  BY <1>1, <1>2, <1>3, <1>5, <1>8 DEF Inv, ProcInv
<1>11. ScriptInv'
  BY <1>1, <1>2 DEF Inv, ScriptInv, Clean
<1>12. QED
  BY <1>1, <1>2, <1>9, <1>10, <1>11
  DEF Inv, BatchInv, LoadInv, InputInv, DeferInv, WroteInv, TempRemoved,
      OutputMatchesReport, UnparsedOnlyWithoutWork

LEMMA RustWritesStep == Inv /\ RustWrites => Inv'
<1> SUFFICES ASSUME Inv, RustWrites PROVE Inv'
  OBVIOUS
<1>1. /\ pc = "rust" /\ pc' = "written" /\ ~Behind /\ ~wrote
      /\ file' = IF target = "stdout" THEN file ELSE [file EXCEPT ![target] = proc.script]
      /\ UNCHANGED <<request, script, backup, deferred, upto, attempt, time, rust, report, wrote>>
  BY DEF RustWrites, Inv, WroteInv
<1>2. n' = n /\ N' = N /\ Ran' = Ran /\ (\A k : Executor(k)' = Executor(k)) /\ ProcRan' = ProcRan
  BY <1>1, SameReport DEF ProcRan, rust
<1>3. file' \in [{"input", "output", "temp"} -> Contents] /\ file'["input"] = file["input"]
      /\ (target # "stdout" => file'[target] = proc.script)
  BY <1>1 DEF Inv, TypeOK
<1>4. TypeOK'
  BY <1>1, <1>2, <1>3 DEF Inv, TypeOK, request, time, rust
<1>5. ProcInv'
  <2>1. n + Len(proc.results) = upto
    BY <1>1 DEF Behind, Inv, ProcInv, TypeOK
  <2>2. QED
    BY <1>1, <1>2, <1>3, <2>1 DEF Inv, ProcInv, rust
<1>6. ScriptInv'
  BY <1>1, <1>2 DEF Inv, ScriptInv, Clean
<1>7. QED
  BY <1>1, <1>2, <1>3, <1>4, <1>5, <1>6
  DEF Inv, BatchInv, LoadInv, InputInv, DeferInv, WroteInv, TempRemoved,
      OutputMatchesReport, UnparsedOnlyWithoutWork

LEMMA RustFailsStep == Inv /\ RustFails => Inv'
<1> SUFFICES ASSUME Inv, RustFails PROVE Inv'
  OBVIOUS
<1>1. /\ pc \in {"rust", "written"} /\ pc' = "fallback" /\ ~wrote
      /\ file' = file \/ (target # "stdout" /\ file' = [file EXCEPT ![target] = Dirty])
      /\ UNCHANGED <<request, script, backup, deferred, upto, attempt, time, rust, report, wrote>>
  BY DEF RustFails, Inv, WroteInv
<1>2. n' = n /\ N' = N /\ Ran' = Ran /\ (\A k : Executor(k)' = Executor(k))
  BY <1>1, SameReport
<1>3. file' \in [{"input", "output", "temp"} -> Contents] /\ file'["input"] = file["input"]
  <2>1. Dirty \in Contents
    BY DEF Dirty, Contents
  <2>2. QED
    BY <1>1, <2>1 DEF Inv, TypeOK
<1>4. TypeOK'
  BY <1>1, <1>2, <1>3 DEF Inv, TypeOK, request, time, rust
<1>5. ScriptInv'
  BY <1>1, <1>2 DEF Inv, ScriptInv, Clean
<1>6. QED
  BY <1>1, <1>2, <1>3, <1>4, <1>5
  DEF Inv, BatchInv, LoadInv, InputInv, DeferInv, ProcInv, WroteInv, TempRemoved,
      OutputMatchesReport, UnparsedOnlyWithoutWork

LEMMA RustReturnsStep == Inv /\ RustReturns => Inv'
<1> SUFFICES ASSUME Inv, RustReturns PROVE Inv'
  OBVIOUS
<1>1. /\ pc = "written" /\ pc' = "group" /\ ~wrote /\ ~deferred
      /\ report' = report \o proc.results
      /\ wrote' = (target = "output")
      /\ file' = [file EXCEPT !["temp"] = None]
      /\ UNCHANGED <<request, backup, deferred, upto, attempt, time, rust>>
  BY DEF RustReturns, Inv, WroteInv, DeferInv
<1>2. /\ report \in Seq(Results) /\ proc.results \in Seq(Results) /\ proc.script \in Contents
      /\ n + Len(proc.results) = upto /\ upto <= N /\ (target = "output" => upto = N)
      /\ WentThrough(proc.script, ProcRan)
      /\ (target # "stdout" => file[target] = proc.script)
      /\ target \in {"stdout", "temp", "output"}
  BY <1>1 DEF Inv, TypeOK, ProcInv, BatchInv
<1>3. report' \in Seq(Results) /\ n' = upto /\ N' = N /\ Ran' = ProcRan
      /\ (\A k : Executor(k)' = Executor(k))
  BY <1>1, <1>2, ReportConcat DEF ProcRan, request, Executor
<1>4. script' = IF target = "output" THEN None ELSE proc.script
  BY <1>2 DEF RustReturns
<1>5. None \in Contents /\ proc.script.state = "whole" /\ None.state = "none"
  BY <1>2 DEF None, Contents, WentThrough
<1>6. file' \in [{"input", "output", "temp"} -> Contents] /\ file'["input"] = file["input"]
      /\ file'["output"] = file["output"] /\ file'["temp"] = None
  BY <1>1, <1>5 DEF Inv, TypeOK
<1>7. TypeOK'
  BY <1>1, <1>2, <1>3, <1>4, <1>5, <1>6 DEF Inv, TypeOK, request, time, rust
<1>8. ScriptInv'
  BY <1>1, <1>2, <1>3, <1>4, <1>5 DEF ScriptInv, Clean
<1>9. WroteInv'
  BY <1>1, <1>2, <1>3, <1>6 DEF WroteInv, Clean
<1>10. QED
  BY <1>1, <1>3, <1>6, <1>7, <1>8, <1>9
  DEF Inv, BatchInv, LoadInv, InputInv, DeferInv, ProcInv, TempRemoved,
      OutputMatchesReport, UnparsedOnlyWithoutWork

LEMMA FallbackStep == Inv /\ Fallback => Inv'
<1> SUFFICES ASSUME Inv, Fallback PROVE Inv'
  OBVIOUS
<1>1. /\ pc = "fallback" /\ pc' = "pass" /\ ~wrote /\ ~deferred
      /\ script' = Loaded /\ attempt' = "fallback" /\ clock' \in BOOLEAN
      /\ UNCHANGED <<request, backup, deferred, upto, late, rust, report, wrote, file>>
  BY DEF Fallback, Inv, WroteInv, DeferInv
<1>2. n' = n /\ N' = N /\ Ran' = Ran /\ (\A k : Executor(k)' = Executor(k))
  BY <1>1, SameReport
<1>3. Loaded \in Contents /\ Loaded.state # "none" /\ Clean(Loaded)
  BY <1>1, LoadedClean
<1>4. TypeOK'
  BY <1>1, <1>2, <1>3 DEF Inv, TypeOK, request, rust
<1>5. ScriptInv'
  BY <1>1, <1>2, <1>3 DEF ScriptInv, Clean
<1>6. QED
  BY <1>1, <1>2, <1>4, <1>5
  DEF Inv, BatchInv, LoadInv, InputInv, DeferInv, ProcInv, WroteInv, TempRemoved,
      OutputMatchesReport, UnparsedOnlyWithoutWork

-----------------------------------------------------------------------------
\* Steps of the python loop.

LEMMA SkipPassStep == Inv /\ SkipPass => Inv'
<1> SUFFICES ASSUME Inv, SkipPass PROVE Inv'
  OBVIOUS
<1>1. /\ pc = "pass" /\ pc' = "pass" /\ n < upto /\ upto <= N /\ upto \in Nat /\ N \in Nat /\ ~wrote
      /\ report \in Seq(Results) /\ report' = Append(report, "skipped")
      /\ UNCHANGED <<request, script, backup, deferred, upto, attempt, time, rust, wrote, file>>
  BY PipelineShape DEF SkipPass, Settle, Inv, WroteInv, BatchInv, TypeOK
<1>2. report' \in Seq(Results) /\ n' = n + 1 /\ N' = N /\ Ran' = Ran
      /\ (\A k : Executor(k)' = Executor(k))
  <2>1. "skipped" \in Results
    BY DEF Results
  <2>2. QED
    BY <1>1, <2>1, ReportAppend DEF request, Executor
<1>3. TypeOK'
  BY <1>1, <1>2 DEF Inv, TypeOK, request, time, rust
<1>4. ScriptInv'
  BY <1>1, <1>2 DEF Inv, ScriptInv, Clean
<1>5. DeferInv'
  BY <1>1, <1>2 DEF Inv, DeferInv, time
<1>6. QED
  BY <1>1, <1>2, <1>3, <1>4, <1>5
  DEF Inv, BatchInv, LoadInv, InputInv, ProcInv, WroteInv, TempRemoved,
      OutputMatchesReport, UnparsedOnlyWithoutWork

LEMMA StartPassStep == Inv /\ StartPass => Inv'
<1> SUFFICES ASSUME Inv, StartPass PROVE Inv'
  OBVIOUS
<1>1. /\ pc = "pass" /\ pc' = "running" /\ n < upto /\ ~wrote
      /\ backup' = script /\ script' = Dirty
      /\ UNCHANGED <<request, deferred, upto, attempt, time, rust, report, wrote, file>>
  BY DEF StartPass, Inv, WroteInv
<1>2. n' = n /\ N' = N /\ Ran' = Ran /\ (\A k : Executor(k)' = Executor(k))
  BY <1>1, SameReport
<1>3. Dirty \in Contents /\ Dirty.state # "none"
  BY DEF Dirty, Contents
\* Nothing is started while rust is still to read the input: there is no time.
<1>4. ~deferred
  BY DEF StartPass, OutOfTime, Inv, DeferInv
<1>5. TypeOK'
  BY <1>1, <1>2, <1>3 DEF Inv, TypeOK, request, time, rust
<1>6. ScriptInv'
  BY <1>1, <1>2, <1>3 DEF Inv, ScriptInv, Clean
<1>7. QED
  BY <1>1, <1>2, <1>4, <1>5, <1>6
  DEF Inv, BatchInv, LoadInv, InputInv, DeferInv, ProcInv, WroteInv, TempRemoved,
      OutputMatchesReport, UnparsedOnlyWithoutWork

LEMMA PassEndsStep == Inv /\ PassEnds => Inv'
<1> SUFFICES ASSUME Inv, PassEnds PROVE Inv'
  OBVIOUS
<1>1. /\ pc' = "pass" /\ n < upto /\ upto <= N /\ upto \in Nat /\ N \in Nat
      /\ ~wrote /\ ~deferred
      /\ report \in Seq(Results) /\ report' = Append(report, "ran")
      /\ script' = Apply(backup, n + 1) /\ backup \in Contents /\ WentThrough(backup, Ran)
      /\ UNCHANGED <<request, backup, deferred, upto, attempt, time, rust, wrote, file>>
  BY PipelineShape
  DEF PassEnds, Settle, Inv, WroteInv, BatchInv, DeferInv, ScriptInv, Clean, TypeOK
<1>2. report' \in Seq(Results) /\ n' = n + 1 /\ N' = N /\ Ran' = Ran \cup {n + 1}
      /\ n + 1 \in Nat /\ \A k \in Ran : k < n + 1
  <2>1. "ran" \in Results
    BY DEF Results
  <2>2. QED
    BY <1>1, <2>1, ReportAppend DEF request
<1>3. script' \in Contents /\ WentThrough(script', Ran')
  BY <1>1, <1>2, ApplyPass
<1>4. TypeOK'
  BY <1>1, <1>2, <1>3 DEF Inv, TypeOK, request, time, rust
<1>5. ScriptInv'
  BY <1>1, <1>3 DEF ScriptInv, Clean, WentThrough
<1>6. QED
  BY <1>1, <1>2, <1>4, <1>5
  DEF Inv, BatchInv, LoadInv, InputInv, DeferInv, ProcInv, WroteInv, TempRemoved,
      OutputMatchesReport, UnparsedOnlyWithoutWork

LEMMA PassTimesOutStep == Inv /\ PassTimesOut => Inv'
<1> SUFFICES ASSUME Inv, PassTimesOut PROVE Inv'
  OBVIOUS
<1>1. /\ pc = "running" /\ pc' = "pass" /\ n < upto /\ upto <= N /\ upto \in Nat /\ N \in Nat
      /\ ~wrote /\ ~deferred
      /\ report \in Seq(Results) /\ report' = Append(report, "timeout")
      /\ script' = backup /\ backup \in Contents /\ WentThrough(backup, Ran)
      /\ UNCHANGED <<request, backup, deferred, upto, attempt, time, rust, wrote, file>>
  BY PipelineShape
  DEF PassTimesOut, Settle, Inv, WroteInv, BatchInv, DeferInv, ScriptInv, Clean, TypeOK
<1>2. report' \in Seq(Results) /\ n' = n + 1 /\ N' = N /\ Ran' = Ran
  <2>1. "timeout" \in Results
    BY DEF Results
  <2>2. QED
    BY <1>1, <2>1, ReportAppend DEF request
<1>3. TypeOK'
  BY <1>1, <1>2 DEF Inv, TypeOK, request, time, rust
<1>4. ScriptInv'
  BY <1>1, <1>2 DEF ScriptInv, Clean, WentThrough
<1>5. QED
  BY <1>1, <1>2, <1>3, <1>4
  DEF Inv, BatchInv, LoadInv, InputInv, DeferInv, ProcInv, WroteInv, TempRemoved,
      OutputMatchesReport, UnparsedOnlyWithoutWork

LEMMA PassCatchesStep == Inv /\ PassCatches => Inv'
<1> SUFFICES ASSUME Inv, PassCatches PROVE Inv'
  OBVIOUS
<1>1. /\ pc = "running" /\ pc' = "caught" /\ ~wrote /\ ~deferred
      /\ UNCHANGED <<request, script, backup, deferred, upto, attempt, time, rust, report, wrote, file>>
  BY DEF PassCatches, Inv, WroteInv, DeferInv
<1>2. n' = n /\ N' = N /\ Ran' = Ran /\ (\A k : Executor(k)' = Executor(k))
  BY <1>1, SameReport
<1>3. TypeOK'
  BY <1>1, <1>2 DEF Inv, TypeOK, request, time, rust
<1>4. ScriptInv'
  BY <1>1, <1>2 DEF Inv, ScriptInv, Clean
<1>5. QED
  BY <1>1, <1>2, <1>3, <1>4
  DEF Inv, BatchInv, LoadInv, InputInv, DeferInv, ProcInv, WroteInv, TempRemoved,
      OutputMatchesReport, UnparsedOnlyWithoutWork

LEMMA PassRaisesStep == Inv /\ PassRaises => Inv'
<1> SUFFICES ASSUME Inv, PassRaises PROVE Inv'
  OBVIOUS
<1>1. /\ pc' = "failed" /\ ~wrote /\ ~deferred
      /\ file' = [file EXCEPT !["temp"] = None]
      /\ UNCHANGED <<request, script, backup, deferred, upto, attempt, time, rust, report, wrote>>
  BY DEF PassRaises, Inv, WroteInv, DeferInv
<1>2. n' = n /\ N' = N /\ Ran' = Ran /\ (\A k : Executor(k)' = Executor(k))
  BY <1>1, SameReport
<1>3. None \in Contents
  BY DEF None, Contents
<1>4. file' \in [{"input", "output", "temp"} -> Contents] /\ file'["input"] = file["input"]
      /\ file'["temp"] = None
  BY <1>1, <1>3 DEF Inv, TypeOK
<1>5. TypeOK'
  BY <1>1, <1>2, <1>4 DEF Inv, TypeOK, request, time, rust
<1>6. ScriptInv'
  BY <1>1, <1>2 DEF Inv, ScriptInv, Clean
<1>7. QED
  BY <1>1, <1>2, <1>4, <1>5, <1>6
  DEF Inv, BatchInv, LoadInv, InputInv, DeferInv, ProcInv, WroteInv, TempRemoved,
      OutputMatchesReport, UnparsedOnlyWithoutWork

LEMMA EndOfGroupStep == Inv /\ EndOfGroup => Inv'
<1> SUFFICES ASSUME Inv, EndOfGroup PROVE Inv'
  OBVIOUS
<1>1. /\ pc = "pass" /\ pc' = "group" /\ ~wrote /\ attempt' = "main"
      /\ file' = [file EXCEPT !["temp"] = None]
      /\ UNCHANGED <<request, script, backup, deferred, upto, time, rust, report, wrote>>
  BY DEF EndOfGroup, Inv, WroteInv
<1>2. n' = n /\ N' = N /\ Ran' = Ran /\ (\A k : Executor(k)' = Executor(k))
  BY <1>1, SameReport
<1>3. None \in Contents
  BY DEF None, Contents
<1>4. file' \in [{"input", "output", "temp"} -> Contents] /\ file'["input"] = file["input"]
      /\ file'["temp"] = None
  BY <1>1, <1>3 DEF Inv, TypeOK
<1>5. TypeOK'
  BY <1>1, <1>2, <1>4 DEF Inv, TypeOK, request, time, rust
<1>6. ScriptInv'
  BY <1>1, <1>2 DEF Inv, ScriptInv, Clean
<1>7. DeferInv'
  BY <1>1, <1>2 DEF Inv, DeferInv, time
<1>8. QED
  BY <1>1, <1>2, <1>4, <1>5, <1>6, <1>7
  DEF Inv, BatchInv, LoadInv, InputInv, ProcInv, WroteInv, TempRemoved,
      OutputMatchesReport, UnparsedOnlyWithoutWork

-----------------------------------------------------------------------------
\* The end, and the clocks.

LEMMA FinishStep == Inv /\ Finish => Inv'
<1> SUFFICES ASSUME Inv, Finish PROVE Inv'
  OBVIOUS
<1>1. /\ pc = "group" /\ n = N /\ file["temp"] = None
      /\ pc' = IF ~wrote /\ script.state = "none" THEN "unparsed" ELSE "done"
      /\ file' = IF wrote THEN file
                 ELSE [file EXCEPT !["output"] = IF script.state = "none" THEN Dirty ELSE script]
      /\ UNCHANGED <<request, script, backup, deferred, upto, attempt, time, rust, report, wrote>>
  BY DEF Finish, Inv, TempRemoved
<1>2. n' = n /\ N' = N /\ Ran' = Ran /\ (\A k : Executor(k)' = Executor(k))
  BY <1>1, SameReport
<1>3. Dirty \in Contents /\ script \in Contents
  BY DEF Dirty, Contents, Inv, TypeOK
<1>4. file' \in [{"input", "output", "temp"} -> Contents] /\ file'["input"] = file["input"]
      /\ file'["temp"] = None /\ (wrote => file' = file)
      /\ (~wrote /\ script.state # "none" => file'["output"] = script)
  BY <1>1, <1>3 DEF Inv, TypeOK
<1>5. TypeOK'
  BY <1>1, <1>2, <1>4 DEF Inv, TypeOK, request, time, rust
<1>6. ScriptInv'
  BY <1>1, <1>2 DEF Inv, ScriptInv, Clean
<1>7. WroteInv'
  BY <1>1, <1>2, <1>4 DEF Inv, WroteInv, Clean
<1>8. OutputMatchesReport'
  BY <1>1, <1>2, <1>4 DEF Inv, WroteInv, ScriptInv, Clean, OutputMatchesReport
<1>9. UnparsedOnlyWithoutWork'
  <2>1. DOMAIN report = 1..N
    BY <1>1 DEF Inv, TypeOK
  <2>2. QED
    BY <1>1, <1>2, <2>1 DEF Inv, ScriptInv, UnparsedOnlyWithoutWork
<1>10. DeferInv'
  BY <1>1, <1>2 DEF Inv, DeferInv, time
<1>11. QED
  BY <1>1, <1>2, <1>4, <1>5, <1>6, <1>7, <1>8, <1>9, <1>10
  DEF Inv, BatchInv, LoadInv, InputInv, ProcInv, TempRemoved

LEMMA ClockStep ==
  ASSUME Inv, late' \in BOOLEAN, clock' \in BOOLEAN, late => late',
         UNCHANGED <<request, pc, script, backup, deferred, upto, attempt, rust, report, wrote, file>>
  PROVE  Inv'
<1>1. n' = n /\ N' = N /\ Ran' = Ran /\ ProcRan' = ProcRan /\ (\A k : Executor(k)' = Executor(k))
  BY SameReport DEF rust, ProcRan
<1>2. TypeOK'
  BY <1>1 DEF Inv, TypeOK, request, rust
<1>3. ScriptInv'
  BY <1>1 DEF Inv, ScriptInv, Clean
<1>4. DeferInv'
  BY <1>1 DEF Inv, DeferInv
<1>5. ProcInv'
  BY <1>1 DEF Inv, ProcInv, rust
<1>6. WroteInv' /\ OutputMatchesReport' /\ UnparsedOnlyWithoutWork'
  BY <1>1 DEF Inv, WroteInv, OutputMatchesReport, UnparsedOnlyWithoutWork, Clean
<1>7. QED
  BY <1>1, <1>2, <1>3, <1>4, <1>5, <1>6 DEF Inv, BatchInv, LoadInv, InputInv, TempRemoved

-----------------------------------------------------------------------------
LEMMA DriverStep == Inv /\ [Next]_vars => Inv'
<1> SUFFICES ASSUME Inv, [Next]_vars PROVE Inv'
  OBVIOUS
<1>1. CASE Load
  BY <1>1, LoadStep
<1>2. ASSUME NEW m \in 1..N, PythonGroup(m) \/ SkipGroup(m) \/ RustGroup(m) PROVE Inv'
  BY <1>2, PythonGroupStep, SkipGroupStep, RustGroupStep
<1>3. CASE RustSkips \/ RustRuns \/ RustOverruns
  <2>1. {"ran", "skipped", "timeout"} = Results /\ clock \in BOOLEAN
    BY DEF Results, Inv, TypeOK
  <2>2. PICK r \in Results : RustPass(r) /\ clock' \in BOOLEAN
    BY <1>3, <2>1 DEF RustSkips, RustRuns, RustOverruns
  <2>3. QED
    BY <2>2, RustPassStep
<1>4. CASE RustWrites
  BY <1>4, RustWritesStep
<1>5. CASE RustFails
  BY <1>5, RustFailsStep
<1>6. CASE RustReturns
  BY <1>6, RustReturnsStep
<1>7. CASE Fallback
  BY <1>7, FallbackStep
<1>8. CASE SkipPass
  BY <1>8, SkipPassStep
<1>9. CASE StartPass
  BY <1>9, StartPassStep
<1>10. CASE PassEnds
  BY <1>10, PassEndsStep
<1>11. CASE PassTimesOut
  BY <1>11, PassTimesOutStep
<1>12. CASE PassCatches \/ PassRaises
  BY <1>12, PassCatchesStep, PassRaisesStep
<1>13. CASE EndOfGroup
  BY <1>13, EndOfGroupStep
<1>14. CASE Finish
  BY <1>14, FinishStep
<1>15. CASE Deadline \/ OwnDeadline \/ UNCHANGED vars
  <2>1. late' \in BOOLEAN /\ clock' \in BOOLEAN /\ (late => late')
        /\ UNCHANGED <<request, pc, script, backup, deferred, upto, attempt, rust, report, wrote, file>>
    BY <1>15 DEF Deadline, OwnDeadline, vars, time, Inv, TypeOK
  <2>2. QED
    BY <2>1, ClockStep
<1>16. QED
  BY <1>1, <1>2, <1>3, <1>4, <1>5, <1>6, <1>7, <1>8, <1>9, <1>10, <1>11, <1>12, <1>13, <1>14,
     <1>15 DEF Next, Driver

\* What the theorems below rest on.
THEOREM SimplifierInvariant == Spec => []Inv
BY DriverInit, DriverStep, PTL DEF Spec

\* Every variable keeps its type, whatever pipeline `simplify` is asked for.
THEOREM SimplifierTypeCorrect == Spec => []TypeOK
<1>1. Inv => TypeOK
  BY DEF Inv
<1>2. QED
  BY <1>1, SimplifierInvariant, PTL

\* `simplify` writes the input after exactly the passes it reports as run.
THEOREM OutputIsReported == Spec => []OutputMatchesReport
<1>1. Inv => OutputMatchesReport
  BY DEF Inv
<1>2. QED
  BY <1>1, SimplifierInvariant, PTL

\* `simplify` fails for want of a script only when no pass could be tried.
THEOREM NoWorkIsLost == Spec => []UnparsedOnlyWithoutWork
<1>1. Inv => UnparsedOnlyWithoutWork
  BY DEF Inv
<1>2. QED
  BY <1>1, SimplifierInvariant, PTL

\* The file between two groups is gone when its group is over.
THEOREM NoTempLeft == Spec => []TempRemoved
<1>1. Inv => TempRemoved
  BY DEF Inv
<1>2. QED
  BY <1>1, SimplifierInvariant, PTL

-----------------------------------------------------------------------------
\* Time: within a group nothing is tried after a pass was given up.

\* The passes i .. j have one executor.
Together(i, j) == \A l \in i..j : Executor(l) = Executor(j)
\* Groups are as long as they can be: what was settled before the current one
\* has another executor, and so has the pass after it.
GroupsInv ==
  /\ pc \in {"group", "rust", "written", "fallback"} /\ n \in 1..(N - 1) => Executor(n) # Executor(n + 1)
  /\ pc \in {"rust", "written", "fallback", "pass", "running", "caught"} /\ upto < N
       => Executor(upto) # Executor(upto + 1)
\* A python group in time, or one whose pass was started in time, has run all
\* its passes so far.
PassesInv ==
  pc \in {"running", "caught"} \/ (pc = "pass" /\ n < upto /\ ~OutOfTime)
    => \A i \in 1..n : Together(i, n + 1) => report[i] = "ran"
\* So has the rust process, and it skips what follows a pass given up.
ResultsInv ==
  pc \in {"rust", "written"} =>
    /\ \A j \in DOMAIN proc.results : \A i \in 1..(j - 1) :
         proc.results[i] # "ran" => proc.results[j] = "skipped"
    /\ ~clock => \A i \in DOMAIN proc.results : proc.results[i] = "ran"
TimeInv == GroupsInv /\ PassesInv /\ ResultsInv /\ NoPassAfterDeadline

\* A report that grows by a pass keeps the promise if the pass was skipped, or
\* if all its group before it ran.
LEMMA SettleInTime ==
  ASSUME TypeOK, NoPassAfterDeadline, UNCHANGED request,
         NEW r \in Results, report' = Append(report, r),
         r = "skipped" \/ \A i \in 1..n : Together(i, n + 1) => report[i] = "ran"
  PROVE  NoPassAfterDeadline'
<1>1. /\ report \in Seq(Results) /\ n \in Nat /\ DOMAIN report = 1..n
      /\ DOMAIN report' = 1..(n + 1) /\ report'[n + 1] = r
      /\ \A i \in 1..n : report'[i] = report[i]
      /\ \A i : Executor(i)' = Executor(i)
  BY DEF TypeOK, request, Executor
<1>2. SUFFICES ASSUME NEW j \in 1..(n + 1), NEW i \in 1..(j - 1), report'[i] # "ran",
                      \A l \in i..j : Executor(l) = Executor(j)
               PROVE  report'[j] = "skipped"
  BY <1>1 DEF NoPassAfterDeadline
<1>3. CASE j \in 1..n
  BY <1>1, <1>2, <1>3 DEF NoPassAfterDeadline
<1>4. CASE j = n + 1
  BY <1>1, <1>2, <1>4 DEF Together
<1>5. QED
  BY <1>1, <1>3, <1>4

\* A step that neither reports nor moves the clocks back, nor starts anything.
LEMMA QuietInTime ==
  ASSUME Inv, TimeInv, UNCHANGED <<request, upto, attempt, report>>,
         late => late', clock => clock', proc'.results = proc.results,
         pc' = pc \/ (pc \in {"load", "group", "pass"} /\ pc' \in {"unparsed", "done", "failed"})
           \/ (pc = "rust" /\ pc' = "written") \/ (pc \in {"rust", "written"} /\ pc' = "fallback")
           \/ (pc = "running" /\ pc' = "caught") \/ (pc \in {"running", "caught"} /\ pc' = "failed")
           \/ (pc = "pass" /\ pc' = "running" /\ n < upto /\ ~OutOfTime)
           \/ (pc = "load" /\ pc' = "group")
  PROVE  TimeInv'
<1>1. /\ n' = n /\ N' = N /\ (\A i : Executor(i)' = Executor(i)) /\ n \in Nat /\ N \in Nat
      /\ OutOfTime => OutOfTime'
  BY SameReport, PipelineShape DEF Inv, TypeOK, OutOfTime
<1>2. GroupsInv'
  BY <1>1 DEF TimeInv, GroupsInv, Inv, LoadInv
<1>3. PassesInv'
  BY <1>1 DEF TimeInv, PassesInv, Together
<1>4. ResultsInv'
  BY <1>1 DEF TimeInv, ResultsInv
<1>5. NoPassAfterDeadline'
  BY <1>1 DEF TimeInv, NoPassAfterDeadline
<1>6. QED
  BY <1>2, <1>3, <1>4, <1>5 DEF TimeInv

\* Where a group starts, no pass before it belongs to it.
LEMMA GroupStarts ==
  ASSUME Inv, TimeInv, pc \in {"group", "rust", "written", "fallback"}, n < N,
         NEW i \in 1..n, NEW j \in (n + 1)..N, \A l \in i..j : Executor(l) = Executor(j)
  PROVE  FALSE
<1>1. n \in Nat /\ N \in Nat /\ n \in 1..(N - 1)
  BY PipelineShape DEF Inv, TypeOK
<1>2. n \in i..j /\ n + 1 \in i..j
  BY <1>1
<1>3. Executor(n) = Executor(n + 1)
  BY <1>2
<1>4. QED
  BY <1>1, <1>3 DEF TimeInv, GroupsInv

LEMMA StartInTime ==
  ASSUME Inv, TimeInv,
         (\E m \in 1..N : PythonGroup(m) \/ RustGroup(m)) \/ Fallback
  PROVE  TimeInv'
<1>1. /\ UNCHANGED <<request, report>> /\ n \in Nat /\ N \in Nat
      /\ pc \in {"group", "fallback"} /\ pc' \in {"pass", "rust", "fallback"}
  BY PipelineShape DEF PythonGroup, RustGroup, Fallback, NextGroup, Inv, TypeOK
<1>2. n' = n /\ N' = N /\ (\A i : Executor(i)' = Executor(i))
  BY <1>1, SameReport
<1>3. upto' \in Nat /\ upto' <= N /\ (upto' < N => Executor(upto') # Executor(upto' + 1))
  <2>1. CASE Fallback
    BY <2>1 DEF Fallback, Inv, TypeOK, BatchInv, TimeInv, GroupsInv
  <2>2. ASSUME NEW m \in 1..N, PythonGroup(m) \/ RustGroup(m)
        PROVE  upto' \in Nat /\ upto' <= N /\ (upto' < N => Executor(upto') # Executor(upto' + 1))
    <3>1. m \in (n + 1)..m /\ upto' = m /\ IsGroup(m)
      BY <1>1, <2>2 DEF PythonGroup, RustGroup, IsGroup
    <3>2. QED
      BY <3>1 DEF IsGroup
  <2>3. QED
    BY <2>1, <2>2
<1>4. GroupsInv'
  BY <1>1, <1>2, <1>3 DEF TimeInv, GroupsInv
<1>5. PassesInv'
  <2>1. ASSUME n < upto', NEW i \in 1..n, Together(i, n + 1) PROVE FALSE
    BY <1>1, <1>3, <2>1, GroupStarts DEF Together
  <2>2. QED
    BY <1>1, <1>2, <2>1 DEF PassesInv, Together
<1>6. ResultsInv'
  BY <1>1 DEF ResultsInv, PythonGroup, RustGroup, Fallback
<1>7. QED
  BY <1>1, <1>2, <1>4, <1>5, <1>6 DEF TimeInv, NoPassAfterDeadline

LEMMA SkipGroupInTime == ASSUME Inv, TimeInv, NEW m \in 1..N, SkipGroup(m) PROVE TimeInv'
<1>1. /\ pc = "group" /\ pc' = "group" /\ n \in Nat /\ N \in Nat /\ m \in (n + 1)..N
      /\ report \in Seq(Results) /\ report' = report \o Skipped(m) /\ UNCHANGED <<request, proc>>
  BY PipelineShape DEF SkipGroup, NextGroup, IsGroup, Inv, TypeOK, rust
<1>2. Skipped(m) \in Seq(Results) /\ Len(Skipped(m)) = m - n
      /\ \A j \in 1..(m - n) : Skipped(m)[j] = "skipped"
  BY <1>1 DEF Skipped, Results
<1>3. /\ n' = m /\ N' = N /\ DOMAIN report = 1..n /\ DOMAIN report' = 1..m
      /\ \A j \in 1..n : report'[j] = report[j]
      /\ \A j \in (n + 1)..m : report'[j] = "skipped"
      /\ \A i : Executor(i)' = Executor(i)
  <2> HIDE DEF Skipped
  <2>1. \A j \in (n + 1)..m : j - n \in 1..(m - n)
    BY <1>1
  <2>2. QED
    BY <1>1, <1>2, <2>1 DEF request, Executor
<1>4. NoPassAfterDeadline'
  BY <1>1, <1>3 DEF TimeInv, NoPassAfterDeadline
<1>5. GroupsInv'
  BY <1>1, <1>3 DEF SkipGroup, IsGroup, GroupsInv
<1>6. QED
  BY <1>1, <1>4, <1>5 DEF TimeInv, PassesInv, ResultsInv

LEMMA RustPassInTime == ASSUME Inv, TimeInv, RustSkips \/ RustRuns \/ RustOverruns PROVE TimeInv'
<1> DEFINE s == proc.results
<1>1. PICK r \in Results :
        /\ RustPass(r)
        /\ r # "skipped" => ~clock
        /\ r # "ran" => clock'
        /\ clock => clock'
  BY DEF RustSkips, RustRuns, RustOverruns, Results
<1>2. /\ s \in Seq(Results) /\ s' = Append(s, r) /\ pc = "rust" /\ pc' = "rust"
      /\ UNCHANGED <<request, upto, attempt, report>>
  BY <1>1 DEF RustPass, Behind, Inv, TypeOK
<1>3. /\ DOMAIN s = 1..Len(s) /\ DOMAIN s' = 1..(Len(s) + 1) /\ Len(s) \in Nat
      /\ s'[Len(s) + 1] = r /\ \A i \in DOMAIN s : s'[i] = s[i]
  BY <1>2
<1>4. ResultsInv'
  <2> HIDE DEF s
  <2>1. r = "skipped" \/ \A i \in DOMAIN s : s[i] = "ran"
    BY <1>1, <1>2 DEF TimeInv, ResultsInv, s
  <2>2. ASSUME NEW j \in DOMAIN s', NEW i \in 1..(j - 1), s'[i] # "ran" PROVE s'[j] = "skipped"
    <3>1. CASE j \in DOMAIN s
      BY <1>2, <1>3, <2>2, <3>1 DEF TimeInv, ResultsInv, s
    <3>2. CASE j = Len(s) + 1
      BY <1>3, <2>1, <2>2, <3>2
    <3>3. QED
      BY <1>3, <3>1, <3>2
  <2>3. ASSUME ~clock' PROVE \A i \in DOMAIN s' : s'[i] = "ran"
    BY <1>1, <1>2, <1>3, <2>3 DEF TimeInv, ResultsInv, s
  <2>4. QED
    BY <2>2, <2>3 DEF ResultsInv, s
<1>5. n' = n /\ N' = N /\ (\A i : Executor(i)' = Executor(i))
  BY <1>2, SameReport
<1>6. QED
  BY <1>2, <1>4, <1>5 DEF TimeInv, GroupsInv, PassesInv, NoPassAfterDeadline

LEMMA RustReturnsInTime == ASSUME Inv, TimeInv, RustReturns PROVE TimeInv'
<1> DEFINE s == proc.results
<1>1. /\ pc = "written" /\ pc' = "group" /\ report \in Seq(Results) /\ s \in Seq(Results)
      /\ n + Len(s) = upto /\ upto <= N /\ report' = report \o s
      /\ UNCHANGED <<request, proc, upto>> /\ n \in Nat /\ N \in Nat /\ upto \in Nat
  BY PipelineShape DEF RustReturns, Inv, TypeOK, ProcInv, BatchInv, rust
<1>2. /\ n' = upto /\ N' = N /\ DOMAIN report = 1..n /\ DOMAIN report' = 1..upto
      /\ \A j \in 1..n : report'[j] = report[j]
      /\ \A j \in (n + 1)..upto : j - n \in DOMAIN s /\ report'[j] = s[j - n]
      /\ \A i : Executor(i)' = Executor(i)
  <2> HIDE DEF s
  <2>1. QED
    BY <1>1 DEF request, Executor
<1>3. NoPassAfterDeadline'
  <2>1. SUFFICES ASSUME NEW j \in 1..upto, NEW i \in 1..(j - 1), report'[i] # "ran",
                        \A l \in i..j : Executor(l) = Executor(j)
                 PROVE  report'[j] = "skipped"
    BY <1>2 DEF NoPassAfterDeadline
  <2>2. CASE j <= n
    <3>1. j \in DOMAIN report /\ report'[i] = report[i] /\ report'[j] = report[j]
      BY <1>1, <1>2, <2>1, <2>2
    <3>2. QED
      BY <2>1, <3>1 DEF TimeInv, NoPassAfterDeadline
  <2>3. CASE i <= n /\ n < j
    BY <1>1, <2>1, <2>3, GroupStarts
  <2>4. CASE n < i
    <3>1. i - n \in DOMAIN s /\ j - n \in DOMAIN s /\ i - n \in 1..((j - n) - 1)
          /\ report'[i] = s[i - n] /\ report'[j] = s[j - n]
      BY <1>1, <1>2, <2>1, <2>4
    <3>2. QED
      BY <1>1, <2>1, <3>1 DEF TimeInv, ResultsInv
  <2>5. QED
    BY <1>1, <2>2, <2>3, <2>4
<1>4. GroupsInv'
  BY <1>1, <1>2 DEF TimeInv, GroupsInv
<1>5. QED
  BY <1>1, <1>3, <1>4 DEF TimeInv, PassesInv, ResultsInv

LEMMA SettleStepInTime == ASSUME Inv, TimeInv, SkipPass \/ PassEnds \/ PassTimesOut PROVE TimeInv'
<1>1. /\ pc \in {"pass", "running", "caught"} /\ pc' = "pass" /\ n < upto /\ upto <= N
      /\ UNCHANGED <<request, upto, attempt, late, clock, proc>>
      /\ n \in Nat /\ N \in Nat /\ upto \in Nat /\ report \in Seq(Results)
  BY PipelineShape DEF SkipPass, PassEnds, PassTimesOut, Inv, TypeOK, BatchInv, time, rust
<1>2. PICK r \in Results :
        /\ report' = Append(report, r)
        /\ r # "ran" => OutOfTime
        /\ r = "skipped" \/ pc \in {"running", "caught"}
  BY DEF SkipPass, PassEnds, PassTimesOut, Settle, Results
<1>3. r = "skipped" \/ \A i \in 1..n : Together(i, n + 1) => report[i] = "ran"
  BY <1>2 DEF TimeInv, PassesInv
<1>4. NoPassAfterDeadline'
  BY <1>1, <1>2, <1>3, SettleInTime DEF Inv, TimeInv
<1>5. /\ n' = n + 1 /\ N' = N /\ DOMAIN report = 1..n /\ report'[n + 1] = r
      /\ \A i \in 1..n : report'[i] = report[i]
      /\ \A i : Executor(i)' = Executor(i)
      /\ OutOfTime' = OutOfTime
  BY <1>1, <1>2 DEF request, Executor, OutOfTime
<1>6. PassesInv'
  <2>1. SUFFICES ASSUME n + 1 < upto, ~OutOfTime, NEW i \in 1..(n + 1), Together(i, n + 2)
                 PROVE  report'[i] = "ran"
    BY <1>1, <1>5 DEF PassesInv, Together
  <2>2. r = "ran"
    BY <1>2, <2>1
  <2>3. CASE i = n + 1
    BY <1>5, <2>2, <2>3
  <2>4. CASE i \in 1..n
    <3>1. Together(i, n + 1)
      BY <1>1, <2>1, <2>4 DEF Together
    <3>2. QED
      BY <1>3, <1>5, <2>2, <2>4, <3>1
  <2>5. QED
    BY <1>1, <2>3, <2>4
<1>7. GroupsInv' /\ ResultsInv'
  BY <1>1, <1>5 DEF TimeInv, GroupsInv, ResultsInv
<1>8. QED
  BY <1>4, <1>6, <1>7 DEF TimeInv

\* Every step keeps the time.
LEMMA TimeStep == ASSUME Inv, TimeInv, [Next]_vars PROVE TimeInv'
<1>1. CASE (\E m \in 1..N : PythonGroup(m) \/ RustGroup(m)) \/ Fallback
  BY <1>1, StartInTime
<1>2. CASE \E m \in 1..N : SkipGroup(m)
  BY <1>2, SkipGroupInTime
<1>3. CASE RustSkips \/ RustRuns \/ RustOverruns
  BY <1>3, RustPassInTime
<1>4. CASE RustReturns
  BY <1>4, RustReturnsInTime
<1>5. CASE SkipPass \/ PassEnds \/ PassTimesOut
  BY <1>5, SettleStepInTime
<1>6. CASE Load \/ RustWrites \/ RustFails \/ StartPass \/ PassCatches \/ PassRaises \/ Finish
  BY <1>6, QuietInTime
  DEF Load, RustWrites, RustFails, StartPass, PassCatches, PassRaises, Finish, time, rust
<1>7. CASE EndOfGroup
  <2>1. n' = n /\ N' = N /\ (\A i : Executor(i)' = Executor(i)) /\ n = upto /\ pc' = "group"
        /\ UNCHANGED <<report, proc, clock>>
    BY <1>7, SameReport DEF EndOfGroup, time, rust
  <2>2. QED
    BY <1>7, <2>1 DEF EndOfGroup, TimeInv, GroupsInv, PassesInv, ResultsInv, NoPassAfterDeadline
<1>8. CASE Deadline \/ OwnDeadline \/ UNCHANGED vars
  BY <1>8, QuietInTime DEF Deadline, OwnDeadline, vars, time, rust
<1>9. QED
  BY <1>1, <1>2, <1>3, <1>4, <1>5, <1>6, <1>7, <1>8 DEF Next, Driver

\* Once `simplify` has given up a pass for lack of time it tries no other pass of
\* the group, neither in the rust process nor in the python loop that makes up
\* for it.
THEOREM NothingAfterDeadline == Spec => []NoPassAfterDeadline
<1>1. Init => TimeInv
  BY DEF Init, TimeInv, GroupsInv, PassesInv, ResultsInv, NoPassAfterDeadline
<1>2. Inv /\ TimeInv /\ [Next]_vars => TimeInv'
  BY TimeStep
<1>3. TimeInv => NoPassAfterDeadline
  BY DEF TimeInv
<1>4. QED
  BY <1>1, <1>2, <1>3, SimplifierInvariant, PTL DEF Spec

-----------------------------------------------------------------------------
\* The driver comes to an end.

\* How far the driver is with the passes that come next: in its group, in the
\* rust process, in the fallback, in the python loop.
At == IF pc = "load" \/ (pc = "pass" /\ n = upto) THEN 0
      ELSE IF pc = "group" THEN 1 ELSE IF pc = "rust" THEN 2 ELSE IF pc = "written" THEN 3
      ELSE IF pc = "fallback" THEN 4 ELSE IF pc = "pass" THEN 5 ELSE IF pc = "running" THEN 6
      ELSE IF pc = "caught" THEN 7 ELSE 8

\* A step settles passes, gets further with the next one, or is the rust
\* process settling one; or a deadline passes and all else stays.
Progress ==
  \/ n' > n
  \/ n' = n /\ At' > At
  \/ n' = n /\ At' = At /\ pc = "rust" /\ Len(proc'.results) = Len(proc.results) + 1
  \/ /\ UNCHANGED <<pc, report, upto, proc>>
     /\ \/ ~late /\ late' /\ clock' = clock
        \/ ~clock /\ clock' /\ late' = late

\* A group in rust has passes to run.
AheadInv == pc \in {"rust", "written", "fallback"} => n < upto

LEMMA AheadStep == ASSUME Inv, AheadInv, [Next]_vars PROVE AheadInv'
<1>1. CASE \E m \in 1..N : RustGroup(m)
  BY <1>1 DEF RustGroup, IsGroup, AheadInv, n
<1>2. CASE UNCHANGED vars
  BY <1>2 DEF vars, AheadInv, n, rust
<1>3. CASE Deadline \/ OwnDeadline
  BY <1>3 DEF Deadline, OwnDeadline, AheadInv, n
<1>4. CASE RustSkips \/ RustRuns \/ RustOverruns \/ RustWrites \/ RustFails
  <2>1. pc \in {"rust", "written"} /\ UNCHANGED <<report, upto>>
    BY <1>4 DEF RustSkips, RustRuns, RustOverruns, RustPass, Behind, RustWrites, RustFails
  <2>2. QED
    BY <2>1 DEF AheadInv, n
<1>5. CASE \/ Load \/ RustReturns \/ Fallback \/ StartPass \/ SkipPass \/ PassEnds \/ PassTimesOut
           \/ PassCatches \/ PassRaises \/ EndOfGroup \/ Finish \/ \E m \in 1..N : PythonGroup(m)
  <2>1. pc' \notin {"rust", "written", "fallback"}
    BY <1>5 DEF Load, RustReturns, Fallback, StartPass, SkipPass, PassEnds, PassTimesOut, PassCatches,
                PassRaises, EndOfGroup, Finish, PythonGroup
  <2>2. QED
    BY <2>1 DEF AheadInv
<1>6. CASE \E m \in 1..N : SkipGroup(m)
  BY <1>6 DEF SkipGroup, NextGroup, AheadInv
<1>7. QED
  BY <1>1, <1>2, <1>3, <1>4, <1>5, <1>6 DEF Next, Driver

LEMMA DriverProgresses == ASSUME Inv, AheadInv, Next PROVE Progress
<1>0. n \in Nat /\ upto \in Nat /\ report \in Seq(Results) /\ proc.results \in Seq(Results)
      /\ BatchInv /\ ProcInv
  BY DEF Inv, TypeOK, n
<1>1. CASE Load
  BY <1>0, <1>1 DEF Load, Progress, At, n
<1>2. CASE \E m \in 1..N : PythonGroup(m)
  <2>1. PICK m \in 1..N : PythonGroup(m)
    BY <1>2
  <2>2. pc = "group" /\ pc' = "pass" /\ upto' = m /\ m > n /\ UNCHANGED report
    BY <1>0, <2>1 DEF PythonGroup, NextGroup, IsGroup
  <2>3. QED
    BY <1>0, <2>2 DEF Progress, At, n
<1>3. CASE \E m \in 1..N : SkipGroup(m)
  <2>1. PICK m \in 1..N : SkipGroup(m)
    BY <1>3
  <2>2. report' = report \o Skipped(m) /\ m - n \in Nat /\ m - n > 0
    BY <1>0, <2>1 DEF SkipGroup, IsGroup
  <2>3. Skipped(m) \in Seq(Results) /\ Len(Skipped(m)) = m - n
    BY <2>2 DEF Skipped, Results
  <2>4. n' = n + (m - n)
    BY <1>0, <2>2, <2>3 DEF n
  <2>5. QED
    BY <1>0, <2>2, <2>4 DEF Progress
<1>4. CASE \E m \in 1..N : RustGroup(m)
  <2>1. pc = "group" /\ pc' \in {"rust", "fallback"} /\ UNCHANGED report
    BY <1>4 DEF RustGroup, NextGroup
  <2>2. QED
    BY <1>0, <2>1 DEF Progress, At, n
<1>5. CASE RustSkips \/ RustRuns \/ RustOverruns
  <2>1. PICK result \in Results :
          /\ pc = "rust" /\ UNCHANGED <<pc, report, upto>>
          /\ proc'.results = Append(proc.results, result)
    BY <1>0, <1>5 DEF RustSkips, RustRuns, RustOverruns, RustPass, Behind, Results, Inv, TypeOK
  <2>2. Len(proc'.results) = Len(proc.results) + 1
    BY <1>0, <2>1
  <2>3. QED
    BY <1>0, <2>1, <2>2 DEF Progress, At, n
<1>6. CASE RustWrites \/ RustFails \/ Fallback
  <2>1. /\ UNCHANGED <<report, upto>>
        /\ \/ pc = "rust" /\ pc' = "written"
           \/ pc \in {"rust", "written"} /\ pc' = "fallback"
           \/ pc = "fallback" /\ pc' = "pass"
    BY <1>6 DEF RustWrites, RustFails, Fallback
  <2>2. QED
    BY <1>0, <2>1 DEF Progress, At, n, AheadInv
<1>7. CASE RustReturns
  <2>1. pc = "written" /\ report' = report \o proc.results
    BY <1>7 DEF RustReturns
  <2>2. n' = n + Len(proc.results)
    BY <1>0, <2>1 DEF n
  <2>3. n < upto /\ n + Len(proc.results) = upto
    BY <1>0, <2>1 DEF AheadInv, ProcInv
  <2>4. QED
    BY <1>0, <2>2, <2>3 DEF Progress
<1>8. CASE SkipPass \/ PassEnds \/ PassTimesOut
  <2>1. \E result : report' = Append(report, result)
    BY <1>8 DEF SkipPass, PassEnds, PassTimesOut, Settle
  <2>2. n' = n + 1
    BY <1>0, <2>1 DEF n
  <2>3. QED
    BY <1>0, <2>2 DEF Progress
<1>9. CASE StartPass \/ PassCatches \/ PassRaises
  <2>1. /\ UNCHANGED <<report, upto>>
        /\ \/ pc = "pass" /\ pc' = "running"
           \/ pc = "running" /\ pc' = "caught"
           \/ pc \in {"running", "caught"} /\ pc' = "failed"
    BY <1>9 DEF StartPass, PassCatches, PassRaises
  <2>2. QED
    BY <1>0, <2>1 DEF Progress, At, n
<1>10. CASE EndOfGroup
  BY <1>0, <1>10 DEF EndOfGroup, Progress, At, n
<1>11. CASE Finish
  BY <1>0, <1>11 DEF Finish, Progress, At, n
<1>12. CASE Deadline
  BY <1>12 DEF Deadline, Progress, rust
<1>13. CASE OwnDeadline
  BY <1>13 DEF OwnDeadline, Progress, rust
<1>14. QED
  BY <1>1, <1>2, <1>3, <1>4, <1>5, <1>6, <1>7, <1>8, <1>9, <1>10, <1>11, <1>12, <1>13 DEF Next, Driver

\* Whatever fails and however late it is, no pass that was settled is tried
\* again, and a group falls back once: the part of Terminates without fairness.
THEOREM NoPassInVain == Spec => [][Progress]_vars
<1>1. Init => AheadInv
  BY DEF Init, AheadInv
<1>2. Inv /\ AheadInv /\ [Next]_vars => AheadInv' /\ [Progress]_vars
  BY AheadStep, DriverProgresses
<1>3. QED
  BY <1>1, <1>2, SimplifierInvariant, PTL DEF Spec

=============================================================================
