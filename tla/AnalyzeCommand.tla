--------------------------- MODULE AnalyzeCommand ---------------------------
(***************************************************************************)
(* One process running `seck analyze`, from its arguments to its exit      *)
(* status and what it leaves on its standard output.  A shell starts it    *)
(* with the output redirected to a file; the MCP server starts it and      *)
(* captures the output.                                                    *)
(*                                                                         *)
(* The sandboxed run in the middle of it is AnalyzeSpec, which ModeB       *)
(* implements, and ModeA for file sets of which no file shrank.            *)
(***************************************************************************)
EXTENDS Reports

CONSTANT MaxFiles   \* bound: the files of a set that is submitted

ASSUME MaxFilesAssumption == MaxFiles \in Nat

VARIABLES
  command,   \* [phase, mode, output, exit]
  logs,      \* does RUST_LOG let the info lines through?
  stdout,    \* [log, what, report]: what the process has printed
  fileset,   \* the file set submitted
  verdict    \* what the orchestrator answers

analyzeVars == <<command, logs, stdout, fileset, verdict>>

\* Of a file set the number of files matters here.
FileSets == UNION {[1 .. n -> {"file"}] : n \in 0 .. MaxFiles}

Sandboxed == INSTANCE AnalyzeSpec WITH answer <- verdict

\* The two orchestrations; any other --sandbox-mode is refused.
Modes   == {"a", "b", "c"}
Outputs == {"json", "terminal"}

\* The report a reader writes, `units` the report AnalyzeSpec answers with.  The
\* findings are the stub backend's, which have no id; the mode B reader knows of a
\* file only its base64 text.
Written(mode, units) ==
  [inputs   |-> [i \in 1 .. Len(units) - 1 |->
                   IF mode = "a" THEN "sha3_256" ELSE "sha3_256_of_base64"],
   findings |-> <<[id |-> NoId, summary |-> <<"letter">>]>>]

NoReport == [inputs |-> <<>>, findings |-> <<>>]
Nothing  == [log |-> FALSE, what |-> "nothing", report |-> NoReport]

\* A file or a captured output is JSON if the report is all there is in it.
IsJson(text) == text.what = "json" /\ ~text.log

-----------------------------------------------------------------------------

AnalyzeInit ==
  /\ command = [phase |-> "off", mode |-> "a", output |-> "json", exit |-> "none"]
  /\ logs = FALSE
  /\ stdout = Nothing
  /\ fileset = <<>>
  /\ verdict = Sandboxed!Pending

Start(mode, output, files) ==
  /\ command' = [phase |-> "running", mode |-> mode, output |-> output, exit |-> "none"]
  /\ stdout' = Nothing
  /\ fileset' = files
  /\ verdict' = Sandboxed!Pending

Exit(status) == command' = [command EXCEPT !.phase = "over", !.exit = status]

\* tracing_subscriber writes its lines to the standard output.
LogLine ==
  /\ command.phase = "running"
  /\ logs /\ ~stdout.log
  /\ stdout' = [stdout EXCEPT !.log = TRUE]
  /\ UNCHANGED <<command, logs, fileset, verdict>>

Logged == logs => stdout.log

\* The walk or the file set fails, or a reader is not beside this executable.
Refuses ==
  /\ command.phase = "running"
  /\ Logged
  /\ Exit("error")
  /\ UNCHANGED <<logs, stdout, fileset, verdict>>

Analyzes ==
  /\ command.phase = "running"
  /\ Logged
  /\ command.mode \in {"a", "b"}
  /\ Sandboxed!Answer
  /\ command' = [command EXCEPT !.phase = "answered"]
  /\ UNCHANGED <<logs, stdout>>

Fails ==
  /\ command.phase = "answered"
  /\ verdict.status = "err"
  /\ Exit("error")
  /\ UNCHANGED <<logs, stdout, fileset, verdict>>

\* Any JSON may be printed as JSON; the terminal view wants the schema.
Printable(report) == command.output = "terminal" => Parses(report)

Prints ==
  LET report == Written(command.mode, verdict.report)
  IN  /\ command.phase = "answered"
      /\ verdict.status = "ok"
      /\ IF Printable(report)
         THEN /\ stdout' = [stdout EXCEPT !.what = command.output, !.report = report]
              /\ Exit("ok")
         ELSE UNCHANGED stdout /\ Exit("error")
      /\ UNCHANGED <<logs, fileset, verdict>>

\* The process dies, possibly with the report half printed.
DiesPrinting ==
  /\ command.phase = "answered"
  /\ verdict.status = "ok"
  /\ Printable(Written(command.mode, verdict.report))
  /\ stdout' = [stdout EXCEPT !.what = "part"]
  /\ Exit("error")
  /\ UNCHANGED <<logs, fileset, verdict>>

AnalyzeNext == LogLine \/ Refuses \/ Analyzes \/ Fails \/ Prints \/ DiesPrinting

AnalyzeTypeOK ==
  /\ command \in [phase : {"off", "running", "answered", "over"}, mode : Modes,
                  output : Outputs, exit : {"none", "ok", "error"}]
  /\ logs \in BOOLEAN
  /\ stdout.log \in BOOLEAN
  /\ stdout.what \in {"nothing", "part"} \cup Outputs
  /\ fileset \in FileSets \cup {<<>>}
  /\ verdict.status \in {"pending", "ok", "err"}
=============================================================================
