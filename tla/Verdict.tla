------------------------------ MODULE Verdict -------------------------------
(***************************************************************************)
(* What a checker promises about a script: it answers once, "unsat" only   *)
(* when no assignment satisfies the script, "sat" only together with an    *)
(* assignment that does, and otherwise that it does not know.              *)
(***************************************************************************)
CONSTANTS
  Asg,       \* the assignments
  NoWitness  \* stands for the witness of an answer that has none, not in Asg

VARIABLES
  script,   \* what is asked: the set of assignments that satisfy it
  verdict,
  witness

vars == <<script, verdict, witness>>

Init ==
  /\ script \in SUBSET Asg
  /\ verdict = "pending"
  /\ witness = NoWitness

Answer(v, w) ==
  /\ verdict = "pending"
  /\ verdict' = v
  /\ witness' = w
  /\ UNCHANGED script

AnswerUnsat == script = {} /\ Answer("unsat", NoWitness)
AnswerSat == \E a \in script : Answer("sat", a)
AnswerUnknown == Answer("unknown", NoWitness)

Next == AnswerUnsat \/ AnswerSat \/ AnswerUnknown

Spec == Init /\ [][Next]_vars
=============================================================================
