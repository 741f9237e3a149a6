------------------------ MODULE ProcessTimeoutProofs ------------------------
(***************************************************************************)
(* The output of a process tree is complete when the tree is gone, for     *)
(* every tree and every amount of output.                                  *)
(***************************************************************************)
EXTENDS ProcessTimeout, TLAPS

\* A drain that began without a living process keeps seeing none, so the end
\* of the file is what ends it.
Inv ==
  /\ TypeOK /\ Conserved
  /\ Root \in started
  /\ pc \in {"term", "kill"} \/ pending = {}
  /\ Draining /\ leftover = {} => alive = {}
  /\ NothingLost

\* The invariant holds when the process has just been spawned.
LEMMA InitInv == Init => Inv
<1> SUFFICES ASSUME Init PROVE Inv
  OBVIOUS
<1>1. TypeOK
  <2>1. owed \in Int
    BY DEF Init
  <2>2. QED
    BY <2>1, ProcessAssumption DEF Init, TypeOK, NoData, Data
<1>2. QED
  BY <1>1 DEF Init, Inv, Conserved, NoData, Open, Draining, NothingLost

\* Every step of the tree, the clock and the parent keeps the invariant.
LEMMA NextInv == Inv /\ [Next]_vars => Inv'
<1> SUFFICES ASSUME Inv, [Next]_vars PROVE Inv'
  OBVIOUS
<1> USE DEF tree, signals, data
<1>1. ASSUME NEW p \in Procs, Fork(p) PROVE Inv'
  <2>1. p # Root /\ Root \in alive
    BY <1>1, ProcessAssumption DEF Fork, Inv
  <2>2. QED
    BY <1>1, <2>1 DEF Fork, Inv, TypeOK, Conserved, Open, Draining, NothingLost
<1>2. ASSUME NEW p \in Procs, Exit(p) PROVE Inv'
  BY <1>2 DEF Exit, Inv, TypeOK, Conserved, Open, Draining, NothingLost
<1>3. CASE Write
  <2>1. pipe' \in Data /\ owed' \in Int
    <3>1. pipe.ends \in Nat /\ pipe.ends + 1 \in Nat /\ owed \in Int /\ owed + 1 \in Int
      BY DEF Inv, TypeOK, Data
    <3>2. \/ pipe' = [pipe EXCEPT !.ends = pipe.ends + 1]
          \/ pipe' = [pipe EXCEPT !.rest = TRUE]
          \/ pipe' = [ends |-> pipe.ends + 1, rest |-> FALSE]
      BY <1>3 DEF Write
    <3>3. pipe' \in Data
      <4>1. pipe \in Data
        BY DEF Inv, TypeOK
      <4>2. [pipe EXCEPT !.ends = pipe.ends + 1] \in Data
        BY <3>1, <4>1 DEF Data
      <4>3. [pipe EXCEPT !.rest = TRUE] \in Data
        BY <4>1, Zenon DEF Data
      <4>4. [ends |-> pipe.ends + 1, rest |-> FALSE] \in Data
        BY <3>1 DEF Data
      <4>5. QED
        BY <3>2, <4>2, <4>3, <4>4
    <3>4. QED
      BY <1>3, <3>1, <3>3 DEF Write
  <2>2. Conserved'
    BY <1>3 DEF Write, Inv, TypeOK, Data, Conserved, Open
  <2>3. QED
    BY <1>3, <2>1, <2>2 DEF Write, Inv, TypeOK, Draining, NothingLost
<1>4. CASE Deadline
  BY <1>4 DEF Deadline, Inv, TypeOK, Conserved, Open, Draining, NothingLost
<1>5. CASE Poll \/ CheckDeadline \/ Signalled \/ Grace \/ Reap
  BY <1>5 DEF Poll, CheckDeadline, Signalled, Grace, Reap, StartDrain, ProcessTree, Inv, TypeOK,
              Conserved, Open, Draining, NothingLost
<1>6. ASSUME NEW p \in Procs, Signal(p) PROVE Inv'
  BY <1>6 DEF Signal, Inv, TypeOK, Conserved, Open, Draining, NothingLost
<1>7. CASE Select
  <2>1. pc' = "done" => leftover # {}
    BY <1>7 DEF Select, Readable, Inv, Draining
  <2>2. QED
    BY <1>7, <2>1 DEF Select, Inv, TypeOK, Conserved, Open, Draining, NothingLost
<1>8. CASE BufferedLine
  <2>1. buffer' \in Data /\ owed' \in Int
    <3>1. buffer.ends - 1 \in Nat /\ owed - 1 \in Int
      BY <1>8 DEF BufferedLine, Inv, TypeOK, Data
    <3>2. buffer' = [buffer EXCEPT !.ends = buffer.ends - 1]
      BY <1>8 DEF BufferedLine
    <3>3. buffer' \in Data
      BY <3>1, <3>2 DEF Inv, TypeOK, Data
    <3>4. QED
      BY <1>8, <3>1, <3>3 DEF BufferedLine
  <2>2. Conserved'
    BY <1>8 DEF BufferedLine, Inv, TypeOK, Data, Conserved, Open
  <2>3. QED
    BY <1>8, <2>1, <2>2 DEF BufferedLine, AfterLine, Inv, TypeOK, Draining, NothingLost
<1>9. CASE FillBuffer
  <2>1. buffer' \in Data /\ pipe' \in Data
    BY <1>9 DEF FillBuffer, Inv, TypeOK, Data, NoData, Open
  <2>2. Conserved'
    BY <1>9 DEF FillBuffer, Inv, TypeOK, Data, NoData, Conserved, Open
  <2>3. QED
    BY <1>9, <2>1, <2>2 DEF FillBuffer, Inv, TypeOK, Draining, NothingLost
<1>10. CASE EndOfFile
  <2>1. buffer' \in Data /\ owed' \in Int
    <3>1. NoData \in Data /\ owed - 1 \in Int
      BY DEF NoData, Data, Inv, TypeOK
    <3>2. \/ buffer' = NoData /\ owed' = owed - 1
          \/ UNCHANGED <<buffer, owed>>
      BY <1>10 DEF EndOfFile
    <3>3. QED
      BY <3>1, <3>2 DEF Inv, TypeOK
  <2>2. Conserved'
    BY <1>10 DEF EndOfFile, Inv, TypeOK, Data, NoData, Conserved, Open
  <2>3. ~buffer.rest => owed = 0
    BY <1>10 DEF EndOfFile, Inv, TypeOK, Data, NoData, Conserved, Open
  <2>4. QED
    BY <1>10, <2>1, <2>2, <2>3
    DEF EndOfFile, AfterLine, Inv, TypeOK, Draining, NothingLost
<1>11. CASE UNCHANGED vars
  BY <1>11 DEF vars, Inv, TypeOK, Conserved, Open, Draining, NothingLost
<1>12. QED
  BY <1>1, <1>2, <1>3, <1>4, <1>5, <1>6, <1>7, <1>8, <1>9, <1>10, <1>11 DEF Next, Parent

\* No line is lost or returned twice, in any interleaving of the tree, the
\* deadline and the parent.
THEOREM OutputConserved == Spec => []Conserved
<1>1. Inv => Conserved
  BY DEF Inv
<1>2. QED
  BY <1>1, InitInv, NextInv, PTL DEF Spec

\* A call that ends after the whole tree has ended returns all of its output.
THEOREM OutputComplete == Spec => []NothingLost
<1>1. Inv => NothingLost
  BY DEF Inv
<1>2. QED
  BY <1>1, InitInv, NextInv, PTL DEF Spec
=============================================================================
