---------------------------- MODULE ProcessTimeout ---------------------------
(***************************************************************************)
(* communicate_with_timeout: the parent pumps the output of a process tree *)
(* line by line, signals the tree when the deadline passes, and drains     *)
(* what is left in the pipe.  select looks at the pipe, readline at the    *)
(* buffer in front of it, and readline blocks until a line is complete.    *)
(* One pipe stands for stdout and stderr.                                  *)
(***************************************************************************)
EXTENDS Integers, FiniteSets

CONSTANTS
  Procs,     \* the processes the tree can grow to
  Root,      \* the one that was spawned
  Ancestors, \* Ancestors[p]: the processes between p and the root, root included
  Capacity   \* the lines that fit into the pipe: a writer blocks when it is full

ASSUME ProcessAssumption ==
  /\ Root \in Procs /\ IsFiniteSet(Procs)
  /\ Ancestors \in [Procs -> SUBSET Procs]
  /\ Ancestors[Root] = {} /\ \A p \in Procs \ {Root} : Root \in Ancestors[p]
  /\ Capacity \in Nat \ {0}

VARIABLES
  tidy,      \* the tree writes whole lines only
  started, alive,
  termed, killed,   \* processes sent SIGTERM and SIGKILL
  pipe, buffer,      \* line ends in either, and whether bytes follow the last one
  owed,      \* the lines begun by the tree, less those returned to the parent
  pc,
  expired,   \* the deadline has passed
  timedOut,
  pending,   \* processes of the snapshot still to be signalled
  leftover   \* the processes that were alive when the drain began

tree == <<started, alive>>
signals == <<termed, killed, pending>>
data == <<pipe, buffer, owed>>
vars == <<tidy, tree, signals, data, pc, expired, timedOut, leftover>>

NoData == [ends |-> 0, rest |-> FALSE]
Data == [ends : Nat, rest : BOOLEAN]

\* The last line that was begun is not complete.
Open == pipe.rest \/ (buffer.rest /\ pipe.ends = 0)

Init ==
  /\ tidy \in BOOLEAN
  /\ started = {Root} /\ alive = {Root}
  /\ termed = {} /\ killed = {} /\ pending = {}
  /\ pipe = NoData /\ buffer = NoData /\ owed = 0
  /\ pc = "poll" /\ expired = FALSE /\ timedOut = FALSE /\ leftover = {}

-----------------------------------------------------------------------------
\* The tree.

Fork(p) ==
  /\ p \in Procs \ started
  /\ Ancestors[p] \subseteq alive
  /\ started' = started \cup {p}
  /\ alive' = alive \cup {p}
  /\ UNCHANGED <<tidy, signals, data, pc, expired, timedOut, leftover>>

\* Nothing limits how often a process writes, only how far ahead of its reader.
Write ==
  /\ alive # {} /\ pipe.ends < Capacity
  /\ \/ /\ ~Open
        /\ owed' = owed + 1
        /\ \/ pipe' = [pipe EXCEPT !.ends = @ + 1]
           \/ ~tidy /\ pipe' = [pipe EXCEPT !.rest = TRUE]
     \/ /\ Open
        /\ pipe' = [ends |-> pipe.ends + 1, rest |-> FALSE]
        /\ UNCHANGED owed
  /\ UNCHANGED <<tidy, tree, signals, buffer, pc, expired, timedOut, leftover>>

\* A process ends by itself, or of a signal; it may take its time over SIGTERM.
Exit(p) ==
  /\ p \in alive
  /\ alive' = alive \ {p}
  /\ UNCHANGED <<tidy, started, signals, data, pc, expired, timedOut, leftover>>

Deadline ==
  /\ ~expired
  /\ expired' = TRUE
  /\ UNCHANGED <<tidy, tree, signals, data, pc, timedOut, leftover>>

-----------------------------------------------------------------------------
\* The parent.

\* What psutil finds below the root: a process whose parent died is not there.
\* In the mutant the root itself is not part of it.
ProcessTreeBelowRoot == IF Root \in alive THEN {p \in alive : Ancestors[p] \subseteq alive} \ {Root}
                        ELSE {}
ProcessTree == IF Root \in alive THEN {p \in alive : Ancestors[p] \subseteq alive} ELSE {}

Readable == pipe # NoData \/ alive = {}

StartDrain == pc' = "drain" /\ leftover' = alive

Poll ==
  /\ pc = "poll"
  /\ IF Root \in alive THEN pc' = "remaining" /\ UNCHANGED leftover ELSE StartDrain
  /\ UNCHANGED <<tidy, tree, signals, data, expired, timedOut>>

CheckDeadline ==
  /\ pc = "remaining"
  /\ IF expired
     THEN /\ timedOut' = TRUE
          /\ pending' = ProcessTree
          /\ pc' = "term"
     ELSE pc' = "select" /\ UNCHANGED <<timedOut, pending>>
  /\ UNCHANGED <<tidy, tree, termed, killed, data, expired, leftover>>

Select ==
  /\ pc \in {"select", "drain"}
  /\ pc' = IF pc = "select" THEN IF Readable THEN "readline" ELSE "poll"
           ELSE IF Readable THEN "drainline" ELSE "done"
  /\ UNCHANGED <<tidy, tree, signals, data, expired, timedOut, leftover>>

\* In the mutant one line is drained.
AfterLineOnce == pc' = IF pc = "readline" THEN "poll" ELSE "done"
AfterLine == pc' = IF pc = "readline" THEN "poll" ELSE "drain"

\* readline: a buffered line, else what is in the pipe, else wait for more.
\* In the mutant the two parts of a line are returned as two lines.
BufferedLine ==
  /\ pc \in {"readline", "drainline"} /\ buffer.ends > 0
  /\ buffer' = [buffer EXCEPT !.ends = @ - 1]
  /\ owed' = owed - 1
  /\ AfterLine
  /\ UNCHANGED <<tidy, tree, signals, pipe, expired, timedOut, leftover>>

FillBuffer ==
  /\ pc \in {"readline", "drainline"} /\ buffer.ends = 0 /\ pipe # NoData
  /\ buffer' = [ends |-> pipe.ends, rest |-> Open]
  /\ pipe' = NoData
  /\ UNCHANGED <<tidy, tree, signals, owed, pc, expired, timedOut, leftover>>

\* At the end of the file an unfinished line is returned, then nothing.
EndOfFile ==
  /\ pc \in {"readline", "drainline"}
  /\ buffer.ends = 0 /\ pipe = NoData /\ alive = {}
  /\ IF buffer.rest
     THEN /\ owed' = owed - 1
          /\ buffer' = NoData
          /\ AfterLine
     ELSE /\ pc' = IF pc = "readline" THEN "poll" ELSE "done"
          /\ UNCHANGED <<owed, buffer>>
  /\ UNCHANGED <<tidy, tree, signals, pipe, expired, timedOut, leftover>>

\* _signal_process_tree works through its snapshot, the root last.
Signal(p) ==
  /\ pc \in {"term", "kill"}
  /\ p \in pending
  /\ p = Root => pending = {Root}
  /\ pending' = pending \ {p}
  /\ IF pc = "term" THEN termed' = termed \cup {p} /\ UNCHANGED killed
     ELSE killed' = killed \cup {p} /\ UNCHANGED termed
  /\ UNCHANGED <<tidy, tree, data, pc, expired, timedOut, leftover>>

Signalled ==
  /\ pc \in {"term", "kill"} /\ pending = {}
  /\ pc' = IF pc = "term" THEN "grace" ELSE "reap"
  /\ UNCHANGED <<tidy, tree, signals, data, expired, timedOut, leftover>>

\* proc.wait with the grace period: over when the root is gone, or too late.
Grace ==
  /\ pc = "grace"
  /\ \/ Root \notin alive /\ StartDrain /\ UNCHANGED pending
     \/ Root \in alive /\ pc' = "kill" /\ pending' = ProcessTree /\ UNCHANGED leftover
  /\ UNCHANGED <<tidy, tree, termed, killed, data, expired, timedOut>>

Reap ==
  /\ pc = "reap" /\ Root \notin alive
  /\ StartDrain
  /\ UNCHANGED <<tidy, tree, signals, data, expired, timedOut>>

Parent == Poll \/ CheckDeadline \/ Select \/ BufferedLine \/ FillBuffer \/ EndOfFile
          \/ (\E p \in Procs : Signal(p)) \/ Signalled \/ Grace \/ Reap
Next == (\E p \in Procs : Fork(p) \/ Exit(p)) \/ Write \/ Deadline \/ Parent

\* The parent is scheduled, time passes, and SIGKILL is not survived; nothing
\* is assumed of what the tree does by itself.
Fairness == /\ WF_vars(Parent) /\ WF_vars(Deadline)
            /\ \A p \in Procs : WF_vars(p \in killed /\ Exit(p))
Spec == Init /\ [][Next]_vars /\ Fairness

-----------------------------------------------------------------------------
\* Properties.

\* Every variable has its type.
TypeOK ==
  /\ tidy \in BOOLEAN /\ expired \in BOOLEAN /\ timedOut \in BOOLEAN
  /\ started \subseteq Procs /\ alive \subseteq started
  /\ termed \subseteq Procs /\ killed \subseteq Procs
  /\ pending \subseteq Procs /\ leftover \subseteq Procs
  /\ pipe \in Data /\ buffer \in Data
  /\ owed \in Int
  /\ pc \in {"poll", "remaining", "select", "readline", "term", "grace", "kill", "reap",
             "drain", "drainline", "done"}

\* No line is lost between the tree, the pipe, the buffer that select does not
\* see, and the parent; a line that is written and read in parts is one line.
Conserved == buffer.ends + pipe.ends + (IF Open THEN 1 ELSE 0) = owed

\* When no process of the tree is left, the whole output is returned, also the
\* lines that were still buffered when the root ended or was killed.
NothingLost == pc = "done" /\ leftover = {} => owed = 0

\* "Wait for proc up to timeout seconds, then SIGTERM (with grace) before
\* SIGKILL": a call that has not returned when the deadline passes times out.
DeadlineEnforced == expired ~> timedOut \/ pc = "done"

\* _drain_pipes has no deadline: it reads on while lines arrive. What ends it
\* is that the processes that were not signalled stop writing.
Draining == pc \in {"drain", "drainline", "done"}
SurvivorsFallSilent == <>[][Draining => ~Write]_vars

\* It does for a tree that writes whole lines, and then, once its survivors
\* are silent, the call returns, whatever the processes do with SIGTERM,
\* whichever of them survive and however much they wrote before.
TidyReturns == SurvivorsFallSilent => (tidy /\ expired ~> pc = "done")
=============================================================================
