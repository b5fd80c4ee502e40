------------------------------ MODULE Commands ------------------------------
(***************************************************************************)
(* What a user does with the programs: analyzes something in a shell with  *)
(* the report saved to a file, or obtains a report, and opens it with      *)
(* `seck web` or `seck tui`; or runs `seck mcp`, `seck models pull`, or    *)
(* the trace checker.  Each of them is one process, started by main's      *)
(* match on the subcommand, and nothing but the saved report passes from   *)
(* one to another: it is the file this module adds to theirs.              *)
(*                                                                         *)
(* A behaviour is at most one report and one session with it.  Sessions    *)
(* that read no report start only before there is one; that leaves out     *)
(* nothing they could tell.                                                *)
(***************************************************************************)
EXTENDS McpServer, WebServer, Tui, ModelStore, AuditLog, TraceCheck

VARIABLES
  running,   \* "shell", or the session started
  saved      \* the report file

vars == <<running, saved, analyzeVars, mcpVars, webVars, tuiVars, modelVars, auditVars, traceVars>>

Sessions == {"shell", "analyze", "mcp", "web", "tui", "models", "audit", "trace"}

Absent == [Nothing EXCEPT !.what = "absent"]

\* Reports from elsewhere: none of their findings lacks an id, and two may have the same.
\* An id may leave an escape sequence open, a summary end one in a way of its own.
Finding(id, summary) == [id |-> id, summary |-> summary]
F1 == <<"letter">>
F2 == <<"letter", "print">>
Elsewhere ==
  {[inputs |-> <<"sha3_256">>, findings |-> f] :
     f \in {<<>>,
            <<Finding(F1, <<"letter">>)>>,
            <<Finding(F1, <<"ESC", "[", "letter">>), Finding(F1, <<"letter">>), Finding(F2, <<>>)>>,
            <<Finding(<<"letter", "ESC">>, <<"letter">>),
              Finding(<<"ESC", "]", "letter">>, <<"letter", "ESC", "\\", "print">>),
              Finding(F1, <<"ESC", "]", "ESC", "letter", "letter">>)>>}}

\* What web and tui ask of the file they are given.
Readable == IsJson(saved) /\ Parses(saved.report)

-----------------------------------------------------------------------------

Init ==
  /\ running = "shell"
  /\ saved = Absent
  /\ AnalyzeInit /\ McpInit /\ WebInit /\ TuiInit /\ ModelInit /\ AuditInit /\ TraceInit

Fresh == running = "shell" /\ saved = Absent

RunAnalyze ==
  /\ Fresh
  /\ running' = "analyze"
  /\ \E mode \in Modes, output \in Outputs, files \in FileSets : Start(mode, output, files)
  /\ logs' \in BOOLEAN
  /\ UNCHANGED <<saved, mcpVars, webVars, tuiVars, modelVars, auditVars, traceVars>>

AnalyzeSession ==
  /\ running = "analyze"
  /\ AnalyzeNext
  /\ UNCHANGED <<running, saved, mcpVars, webVars, tuiVars, modelVars, auditVars, traceVars>>

\* The shell's redirection has the file.
Save ==
  /\ running = "analyze"
  /\ command.phase = "over"
  /\ running' = "shell"
  /\ saved' = stdout
  /\ UNCHANGED <<analyzeVars, mcpVars, webVars, tuiVars, modelVars, auditVars, traceVars>>

Obtain ==
  /\ Fresh
  /\ \E r \in Elsewhere : saved' = [log |-> FALSE, what |-> "json", report |-> r]
  /\ UNCHANGED <<running, analyzeVars, mcpVars, webVars, tuiVars, modelVars, auditVars, traceVars>>

RunWeb ==
  /\ running = "shell"
  /\ running' = "web"
  /\ \E loopback \in BOOLEAN : OpenWeb(loopback, Readable, saved.report)
  /\ UNCHANGED <<saved, analyzeVars, mcpVars, tuiVars, modelVars, auditVars, traceVars>>

WebSession ==
  /\ running = "web"
  /\ WebNext
  /\ UNCHANGED <<running, saved, analyzeVars, mcpVars, tuiVars, modelVars, auditVars, traceVars>>

RunTui ==
  /\ running = "shell"
  /\ running' = "tui"
  /\ OpenTui(Readable, saved.report)
  /\ UNCHANGED <<saved, analyzeVars, mcpVars, webVars, modelVars, auditVars, traceVars>>

TuiSession ==
  /\ running = "tui"
  /\ TuiNext
  /\ UNCHANGED <<running, saved, analyzeVars, mcpVars, webVars, modelVars, auditVars, traceVars>>

RunMcp ==
  /\ Fresh
  /\ running' = "mcp"
  /\ mcp' = "reading"
  /\ logs' \in BOOLEAN
  /\ UNCHANGED <<saved, command, stdout, fileset, verdict, client, sent, taken, reply,
                 replies, heard, store, webVars, tuiVars, modelVars, auditVars, traceVars>>

InMcp(action) ==
  /\ running = "mcp"
  /\ action
  /\ UNCHANGED <<running, saved, webVars, tuiVars, modelVars, auditVars, traceVars>>

RunModels ==
  /\ Fresh
  /\ running' = "models"
  /\ UNCHANGED <<saved, analyzeVars, mcpVars, webVars, tuiVars, modelVars, auditVars, traceVars>>

ModelSession ==
  /\ running = "models"
  /\ ModelNext
  /\ UNCHANGED <<running, saved, analyzeVars, mcpVars, webVars, tuiVars, auditVars, traceVars>>

RunAudit ==
  /\ Fresh
  /\ running' = "audit"
  /\ UNCHANGED <<saved, analyzeVars, mcpVars, webVars, tuiVars, modelVars, auditVars, traceVars>>

AuditSession ==
  /\ running = "audit"
  /\ AuditNext
  /\ UNCHANGED <<running, saved, analyzeVars, mcpVars, webVars, tuiVars, modelVars, traceVars>>

RunTrace ==
  /\ Fresh
  /\ running' = "trace"
  /\ Attach
  /\ UNCHANGED <<saved, analyzeVars, mcpVars, webVars, tuiVars, modelVars, auditVars>>

TraceSession ==
  /\ running = "trace"
  /\ Traced
  /\ UNCHANGED <<running, saved, analyzeVars, mcpVars, webVars, tuiVars, modelVars, auditVars>>

Next ==
  \/ RunAnalyze \/ AnalyzeSession \/ Save \/ Obtain
  \/ RunWeb \/ WebSession
  \/ RunTui \/ TuiSession
  \/ RunMcp \/ InMcp(McpNext)
  \/ RunModels \/ ModelSession
  \/ RunAudit \/ AuditSession
  \/ RunTrace \/ TraceSession

Spec == Init /\ [][Next]_vars

\* The MCP server and each handler of the web server go on as long as they can.  An
\* MCP client reads what it is sent; an analysis ends.
FairSpec ==
  /\ Spec
  /\ WF_vars(InMcp(Server))
  /\ WF_vars(InMcp(McpChild))
  /\ WF_vars(InMcp(Hear))
  /\ \A b \in Browser :
       WF_vars(/\ running = "web"
               /\ Handle(b)
               /\ UNCHANGED <<running, saved, analyzeVars, mcpVars, tuiVars, modelVars,
                              auditVars, traceVars>>)

-----------------------------------------------------------------------------
(* Properties.                                                             *)

\* Every variable has its type, and with the TUI's the cursor its finding.
TypeOK ==
  /\ running \in Sessions
  /\ saved.what \in {"absent", "nothing", "part"} \cup Outputs
  /\ AnalyzeTypeOK /\ McpTypeOK /\ WebTypeOK /\ TuiTypeOK /\ ModelTypeOK
  /\ AuditTypeOK /\ TraceTypeOK

\* The page and the screen show of a text what the comments of sanitize say: sequences
\* are dropped to their own ends and no further, however they are nested, cut short or
\* run into one another, and nothing of them is left.  That is for texts that end their
\* OSCs as the comments expect; on the screen, where id and summary are one text, a
\* summary is whole if its id leaves nothing open, so if it has no ESC.
PageAsDocumented ==
  \A i \in DOMAIN saved.report.findings :
    LET f == saved.report.findings[i]
    IN  /\ WellTerminated(f.id) => page.findings[i].id = Plain(f.id)
        /\ WellTerminated(f.summary) => page.findings[i].text = Plain(f.summary)

ScreenAsDocumented ==
  \A i \in DOMAIN saved.report.findings :
    LET f    == saved.report.findings[i]
        line == BeforeSummary(f) \o f.summary
    IN  /\ WellTerminated(line) => Screen[i].line = Plain(line)
        /\ Escapeless(f.id) /\ WellTerminated(f.summary) =>
             Screen[i].line = Plain(BeforeSummary(f)) \o Plain(f.summary)

ShownAsDocumented ==
  /\ SanitizeIsPlain
  /\ web = "serving" => PageAsDocumented
  /\ tui = "loop" => ScreenAsDocumented

\* What a session that ended by itself leaves behind: no temporary file of a pull, and
\* a terminal as it found it.
NothingLeftBehind == TmpCleared /\ TerminalRestored

\* What README.md and web.rs say of saved reports: a report that seck analyze printed
\* as JSON, with status 0, can be opened.
SavedReportOpens ==
  command.exit = "ok" /\ IsJson(saved) => ended # "unreadable"
=============================================================================
