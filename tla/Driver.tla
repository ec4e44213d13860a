------------------------------- MODULE Driver -------------------------------
(***************************************************************************)
(* compiler_driver.c and main.c: one run of the compiler after another     *)
(* over a source file that is edited between and during them, and what is  *)
(* left at the output path.  The phases of the compiler are steps here     *)
(* that succeed or not, depending on the source; the other modules say     *)
(* which sources they accept.  The file system is external: an open, a     *)
(* write, the flush at fclose or a remove may fail, and the process may be *)
(* killed.  So is make, which runs the compiler (Makefile, $(IRDIR)/%.ll)  *)
(* when the output is missing or older than the source.                    *)
(***************************************************************************)
EXTENDS Naturals, FiniteSets

CONSTANTS
  Sources,      \* versions of the source file
  StageOf,      \* the stage that refuses a version, "none" when it is valid
  NoFile

Stages == {"tokens", "syntax", "semantic", "module"}

ASSUME StageOfAssumption == StageOf \in [Sources -> Stages \cup {"none"}]
ASSUME NoFileAssumption == NoFile \notin Sources

VARIABLES
  source,       \* the source file
  output,       \* the file at output_path: NoFile, or whose code and how much
  newer,        \* the output is newer than the source
  phase,        \* where the compiler is; "idle" when it does not run
  input,        \* the version the compiler read
  before,       \* the output when the compiler was started
  exit_code,    \* how the last run ended: 0, 1, or 2 when it was killed
  faults        \* what went wrong around the last run

vars == <<source, output, newer, phase, input, before, exit_code, faults>>

File == [of : Sources, whole : BOOLEAN]

Init ==
  /\ source \in Sources
  /\ output = NoFile
  /\ newer = FALSE
  /\ phase = "idle"
  /\ input = source
  /\ before = NoFile
  /\ exit_code = 0
  /\ faults = {}

-----------------------------------------------------------------------------
(* The surroundings *)

\* Somebody saves another version of the source.
Edit ==
  /\ source' \in Sources \ {source}
  /\ newer' = FALSE
  /\ faults' = IF phase = "idle" THEN faults ELSE faults \cup {"edit"}
  /\ UNCHANGED <<output, phase, input, before, exit_code>>

\* make: the output is up to date when it exists and is newer.
UpToDate == output # NoFile /\ newer

\* make starts the compiler, which reads the source (readFileToString).
Start ==
  /\ phase = "idle" /\ ~UpToDate
  /\ phase' = "tokens"
  /\ input' = source
  /\ before' = output
  /\ faults' = {}
  /\ UNCHANGED <<source, output, newer, exit_code>>

Killed ==
  /\ phase # "idle"
  /\ phase' = "idle"
  /\ exit_code' = 2
  /\ faults' = faults \cup {"kill"}
  /\ UNCHANGED <<source, output, newer, input, before>>

-----------------------------------------------------------------------------
(* compileSourceFileToLlvmIr and compileTokensToLlvmIr *)

\* main: "? 0 : 1"
Exit(code) == phase' = "idle" /\ exit_code' = code

\* tokenizeFile, parserParseProgram and semanticAnalyze: a stage that refuses
\* the source ends the run and leaves the output path alone.  The lexer does
\* so by exit(1), the others by "goto cleanup".
Stage(here, next) ==
  /\ phase = here
  /\ \/ StageOf[input] = here /\ Exit(1)
     \/ StageOf[input] # here /\ phase' = next /\ UNCHANGED exit_code
  /\ UNCHANGED <<source, output, newer, input, before, faults>>

\* Mutant: the output is not removed.
FailWithoutRemove(what, touched) ==
  /\ newer' = (newer \/ touched) /\ faults' = faults \cup what
  /\ Exit(1)
  /\ UNCHANGED <<source, output, input, before>>

\* "if (!ok) remove(output_path)": also what was there before the run goes,
\* unless it cannot be removed.  touched: the run has written to the file.
Fail(what, touched) ==
  /\ \/ output' = NoFile /\ newer' = FALSE /\ faults' = faults \cup what
     \/ /\ newer' = (newer \/ touched) /\ faults' = faults \cup what \cup {"remove"}
        /\ UNCHANGED output
  /\ Exit(1)
  /\ UNCHANGED <<source, input, before>>

\* irBuildModule, and fopen(path, "w"), which leaves an empty file.
BuildModule ==
  /\ phase = "module"
  /\ \/ StageOf[input] = "module" /\ Fail({}, FALSE)
     \/ StageOf[input] # "module" /\ Fail({"open"}, FALSE)
     \/ /\ StageOf[input] # "module"
        /\ output' = [of |-> input, whole |-> FALSE]
        /\ newer' = TRUE
        /\ phase' = "write"
        /\ UNCHANGED <<source, input, before, exit_code, faults>>

\* Mutant: the count that fwrite returns is not looked at.
WriteUnchecked ==
  /\ phase = "write"
  /\ \/ /\ newer' = TRUE /\ faults' = faults \cup {"write"}
        /\ Exit(0) /\ UNCHANGED <<source, output, input, before>>
     \/ /\ phase' = "close" /\ newer' = TRUE
        /\ UNCHANGED <<source, output, input, before, exit_code, faults>>

\* fwrite fills the buffer of the stream, writing some of it.
Write ==
  /\ phase = "write"
  /\ \/ Fail({"write"}, TRUE)
     \/ /\ phase' = "close" /\ newer' = TRUE
        /\ UNCHANGED <<source, output, input, before, exit_code, faults>>

\* fclose writes the rest.  Its result is not looked at.
Close ==
  /\ phase = "close"
  /\ \/ output' = [output EXCEPT !.whole = TRUE] /\ UNCHANGED faults
     \/ faults' = faults \cup {"close"} /\ UNCHANGED output
  /\ newer' = TRUE
  /\ Exit(0)
  /\ UNCHANGED <<source, input, before>>

Compile ==
  \/ Stage("tokens", "syntax") \/ Stage("syntax", "semantic") \/ Stage("semantic", "module")
  \/ BuildModule \/ Write \/ Close

Next == Edit \/ Start \/ Compile \/ Killed

Spec == Init /\ [][Next]_vars

-----------------------------------------------------------------------------
TypeOK ==
  /\ source \in Sources /\ input \in Sources
  /\ output \in File \cup {NoFile} /\ before \in File \cup {NoFile}
  /\ newer \in BOOLEAN
  /\ phase \in Stages \cup {"idle", "write", "close"}
  /\ exit_code \in 0 .. 2
  /\ faults \subseteq {"edit", "kill", "open", "write", "close", "remove"}

\* A run that reports success has left the whole code of the version it read,
\* unless the flush at fclose failed, which irPrintModuleToFile does not see.
SuccessMeansWhole ==
  [][phase # "idle" /\ phase' = "idle" /\ exit_code' = 0
       => output' = [of |-> input, whole |-> TRUE] \/ "close" \in faults']_vars

\* A run that reports failure leaves no fragment of the new code: the output
\* is what it was, for a source with errors, or gone, when lowering or writing
\* failed (remove(output_path) failing apart).
FailureLeavesNoFragment ==
  [][phase # "idle" /\ phase' = "idle" /\ exit_code' = 1 /\ "remove" \notin faults'
       => output' = IF phase \in {"tokens", "syntax", "semantic"}
                    THEN before ELSE NoFile]_vars

\* make never takes a stale or unfinished output for current, whatever runs
\* failed between the edits, if no fault was beyond the compiler: a kill, a
\* failed remove or flush, an edit while it ran.  The variables have their types.
UpToDateMeansCurrent ==
  /\ TypeOK
  /\ phase = "idle" /\ UpToDate /\ faults \cap {"kill", "remove", "close", "edit"} = {}
       => output = [of |-> source, whole |-> TRUE]
=============================================================================
