---------------------------- MODULE DriverProofs ----------------------------
(***************************************************************************)
(* Proofs about Driver, for every set of versions of the source and every  *)
(* stage that may refuse each of them: what the exit status of a run, and  *)
(* an output that make takes for up to date, promise about the output.     *)
(***************************************************************************)
EXTENDS Driver, TLAPS

\* Before it opens the output a run leaves it alone, and make has started the
\* run because that output was not up to date.
OutputAsBefore == phase \in Stages => output = before /\ ~UpToDate

\* From fopen to fclose the output is the beginning of the new code.
OutputBegun ==
  phase \in {"write", "close"} => output = [of |-> input, whole |-> FALSE]

\* A run is over with the first fault that it meets, so that only an edit is
\* recorded while it goes on; without one it compiles what is in the file.
RunUndisturbed ==
  phase # "idle" => faults \subseteq {"edit"} /\ ("edit" \notin faults => input = source)

\* What make sees between runs.
OutputCurrent ==
  phase = "idle" /\ UpToDate /\ faults \cap {"kill", "remove", "close", "edit"} = {}
    => output = [of |-> source, whole |-> TRUE]

DriverInv == TypeOK /\ OutputAsBefore /\ OutputBegun /\ RunUndisturbed /\ OutputCurrent

-----------------------------------------------------------------------------
\* No version has been compiled at first.
LEMMA DriverInvInit == Init => DriverInv
<1> SUFFICES ASSUME Init PROVE DriverInv
  OBVIOUS
<1>1. TypeOK
  <2>1. exit_code \in 0 .. 2
    BY DEF Init
  <2> QED
    BY <2>1, Zenon DEF Init, TypeOK, Stages
<1>2. OutputAsBefore /\ OutputBegun /\ RunUndisturbed
  BY DEF Init, OutputAsBefore, OutputBegun, RunUndisturbed, Stages
<1>3. OutputCurrent
  BY DEF Init, OutputCurrent, UpToDate
<1> QED
  BY <1>1, <1>2, <1>3 DEF DriverInv

\* "if (!ok) remove(output_path)" leaves no output, or one that is known not to
\* have been removed.
LEMMA FailStep ==
  ASSUME DriverInv, NEW what \in SUBSET {"open", "write"}, NEW touched \in BOOLEAN,
         phase # "idle", Fail(what, touched)
  PROVE  DriverInv'
<1> USE DEF DriverInv
<1>1. TypeOK'
  <2>1. newer' \in BOOLEAN
    BY DEF Fail, TypeOK
  <2>2. exit_code' \in 0 .. 2
    BY DEF Fail, Exit
  <2>3. faults' \subseteq {"edit", "kill", "open", "write", "close", "remove"}
    BY DEF Fail, TypeOK
  <2>4. output' \in File \cup {NoFile}
    BY DEF Fail, TypeOK
  <2> QED
    BY <2>1, <2>2, <2>3, <2>4 DEF Fail, Exit, TypeOK
<1>2. OutputAsBefore' /\ OutputBegun' /\ RunUndisturbed'
  BY DEF Fail, Exit, OutputAsBefore, OutputBegun, RunUndisturbed, Stages
<1>3. OutputCurrent'
  BY DEF Fail, OutputCurrent, UpToDate, TypeOK
<1> QED
  BY <1>1, <1>2, <1>3

\* tokenizeFile, parserParseProgram and semanticAnalyze do not touch the output.
LEMMA StageStep ==
  ASSUME DriverInv, NEW here \in Stages, NEW next \in Stages, Stage(here, next)
  PROVE  DriverInv'
<1> USE DEF DriverInv
<1>1. TypeOK'
  BY DEF Stage, Exit, TypeOK, Stages
<1>2. OutputAsBefore' /\ OutputBegun' /\ OutputCurrent'
  BY DEF Stage, Exit, OutputAsBefore, OutputBegun, OutputCurrent, UpToDate, Stages
<1>3. RunUndisturbed'
  BY DEF Stage, Exit, RunUndisturbed, Stages
<1> QED
  BY <1>1, <1>2, <1>3

\* Every step of a run, of make, and of what may disturb them keeps DriverInv.
LEMMA DriverInvStep == DriverInv /\ [Next]_vars => DriverInv'
<1> SUFFICES ASSUME DriverInv, [Next]_vars PROVE DriverInv'
  OBVIOUS
<1> USE DEF DriverInv
<1>1. CASE Edit
  BY <1>1 DEF Edit, TypeOK, OutputAsBefore, OutputBegun, RunUndisturbed, OutputCurrent, UpToDate
<1>2. CASE Start
  BY <1>2 DEF Start, TypeOK, OutputAsBefore, OutputBegun, RunUndisturbed, OutputCurrent,
     UpToDate,
              Stages
<1>3. CASE Killed
  BY <1>3 DEF Killed, TypeOK, OutputAsBefore, OutputBegun, RunUndisturbed, OutputCurrent, Stages
<1>4. CASE Stage("tokens", "syntax") \/ Stage("syntax", "semantic") \/ Stage("semantic", "module")
  BY <1>4, StageStep DEF Stages
<1>5. CASE BuildModule
  <2>1. CASE Fail({}, FALSE) \/ Fail({"open"}, FALSE)
    BY <1>5, <2>1, FailStep DEF BuildModule
  <2>2. CASE /\ output' = [of |-> input, whole |-> FALSE]
             /\ newer' = TRUE
             /\ phase' = "write"
             /\ UNCHANGED <<source, input, before, exit_code, faults>>
    <3>1. TypeOK'
      BY <2>2 DEF TypeOK, File
    <3>2. OutputAsBefore' /\ OutputBegun' /\ OutputCurrent'
      BY <2>2 DEF OutputAsBefore, OutputBegun, OutputCurrent, Stages
    <3>3. RunUndisturbed'
      BY <1>5, <2>2 DEF BuildModule, RunUndisturbed
    <3> QED
      BY <3>1, <3>2, <3>3
  <2> QED
    BY <1>5, <2>1, <2>2 DEF BuildModule
<1>6. CASE Write
  <2>1. CASE Fail({"write"}, TRUE)
    BY <1>6, <2>1, FailStep DEF Write
  <2>2. CASE /\ phase' = "close" /\ newer' = TRUE
             /\ UNCHANGED <<source, output, input, before, exit_code, faults>>
    BY <1>6, <2>2 DEF Write, TypeOK, OutputAsBefore, OutputBegun, RunUndisturbed, OutputCurrent,
                      Stages
  <2> QED
    BY <1>6, <2>1, <2>2 DEF Write
<1>7. CASE Close
  <2>1. output = [of |-> input, whole |-> FALSE] /\ phase' = "idle"
    BY <1>7 DEF Close, Exit, OutputBegun
  <2>2. \/ output' = [of |-> input, whole |-> TRUE] /\ faults' = faults
        \/ output' = output /\ faults' = faults \cup {"close"}
    BY <1>7, <2>1 DEF Close
  <2>3. TypeOK'
    <3>1. output' \in File \cup {NoFile}
      <4>1. input \in Sources
        BY DEF TypeOK
      <4>2. [of |-> input, whole |-> TRUE] \in File /\ [of |-> input, whole |-> FALSE] \in File
        BY <4>1 DEF File
      <4> QED
        BY <2>1, <2>2, <4>2
    <3>2. newer' \in BOOLEAN /\ exit_code' \in 0 .. 2
      BY <1>7 DEF Close, Exit
    <3>3. faults' \subseteq {"edit", "kill", "open", "write", "close", "remove"}
      BY <2>2 DEF TypeOK
    <3> QED
      BY <1>7, <2>1, <3>1, <3>2, <3>3 DEF Close, TypeOK
  <2>4. OutputAsBefore' /\ OutputBegun' /\ RunUndisturbed'
    BY <2>1 DEF OutputAsBefore, OutputBegun, RunUndisturbed, Stages
  <2>5. OutputCurrent'
    BY <1>7, <2>2 DEF Close, OutputCurrent, RunUndisturbed
  <2> QED
    BY <2>3, <2>4, <2>5
<1>8. CASE UNCHANGED vars
  BY <1>8 DEF vars, TypeOK, OutputAsBefore, OutputBegun, RunUndisturbed, OutputCurrent, UpToDate
<1> QED
  BY <1>1, <1>2, <1>3, <1>4, <1>5, <1>6, <1>7, <1>8 DEF Next, Compile

\* The strengthened invariant of the driver.
THEOREM DriverInvariant == Spec => []DriverInv
BY DriverInvInit, DriverInvStep, PTL DEF Spec

-----------------------------------------------------------------------------
\* make never takes a stale or unfinished output for current, unless a kill, a
\* remove or a flush that failed, or an edit during the run is to blame: the
\* removal after a failure in compileTokensToLlvmIr is enough.
THEOREM UpToDateIsCurrent == Spec => []UpToDateMeansCurrent
<1>1. DriverInv => UpToDateMeansCurrent
  BY DEF DriverInv, OutputCurrent, UpToDateMeansCurrent
<1> QED
  BY <1>1, DriverInvariant, PTL

\* A step that ends a run with status 0 leaves the whole code of the version
\* that was read, unless fclose failed.
THEOREM SuccessIsWhole == Spec => SuccessMeansWhole
<1> DEFINE Step == phase # "idle" /\ phase' = "idle" /\ exit_code' = 0
                     => output' = [of |-> input, whole |-> TRUE] \/ "close" \in faults'
<1>1. DriverInv /\ [Next]_vars => [Step]_vars
  <2> SUFFICES ASSUME DriverInv, Next, phase # "idle", phase' = "idle", exit_code' = 0
               PROVE  output' = [of |-> input, whole |-> TRUE] \/ "close" \in faults'
    OBVIOUS
  <2>1. Close
    BY DEF Next, Compile, Edit, Start, Killed, Stage, BuildModule, Write, Fail, Exit
  <2>2. output = [of |-> input, whole |-> FALSE]
    BY <2>1 DEF DriverInv, OutputBegun, Close
  <2> QED
    BY <2>1, <2>2 DEF Close
<1> QED
  BY <1>1, DriverInvariant, PTL DEF Spec, SuccessMeansWhole

\* A step that ends a run with status 1 leaves the output as it was before the
\* run, when the source was refused, or none at all, unless remove failed.
THEOREM FailureIsClean == Spec => FailureLeavesNoFragment
<1> DEFINE Step == phase # "idle" /\ phase' = "idle" /\ exit_code' = 1 /\ "remove" \notin faults'
                     => output' = IF phase \in {"tokens", "syntax", "semantic"}
                                  THEN before ELSE NoFile
<1>1. DriverInv /\ [Next]_vars => [Step]_vars
  <2> SUFFICES ASSUME DriverInv, Next, phase # "idle", phase' = "idle", exit_code' = 1,
                      "remove" \notin faults'
               PROVE  output' = IF phase \in {"tokens", "syntax", "semantic"}
                                THEN before ELSE NoFile
    OBVIOUS
  <2>1. CASE BuildModule \/ Write
    BY <2>1 DEF BuildModule, Write, Fail
  <2>2. CASE Stage("tokens", "syntax") \/ Stage("syntax", "semantic") \/ Stage("semantic", "module")
    BY <2>2 DEF Stage, DriverInv, OutputAsBefore, Stages
  <2> QED
    BY <2>1, <2>2 DEF Next, Compile, Edit, Start, Killed, Close, Exit
<1> QED
  BY <1>1, DriverInvariant, PTL DEF Spec, FailureLeavesNoFragment
=============================================================================
