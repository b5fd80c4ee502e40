# Formal verification of SECK

SECK ("seck analyze") hands untrusted files to a language model without letting
the process that reads them do anything else.  A host process opens and reads
the files, passes their bytes over a pipe to a sandboxed reader (mode A) or
through two of them (mode B), and collects a JSON report.  Around that core
stand an audit log, a three-pass analyst / auditor / judge pipeline, a model store
and several front ends.

This directory holds TLA+ modules for the parts that have state worth arguing
about, TLC configurations that model-check them on small instances, and proofs
that TLAPS checks for every value of the constants: of the two orchestrations, the
walker, the pipeline, the back ends, the audit log and the programs that users start.
Every invariant that a passing run checks is also a theorem.
`PROJECT.json` relates each definition to the lines of the repository it stands
for, lists the runs, and lists the hazards each property is aimed at.

    tlc -workers 2 -config MCModeB_faults.cfg ModeB         # the orchestration
    tlc -workers 2 -config MCCommands_sessions.cfg Commands # the programs around it
    tlapm ModeB_proofs.tla                                  # mode B: descriptors, data flow, refinement
    tlapm ModeA_proofs.tla                                  # mode A: the same, and the wire format
    tlapm Walker_proofs.tla                                 # limits, short entries, quiet trees
    tlapm Pipeline_proofs.tla                               # same input, same result
    tlapm Backends_proofs.tla                               # an answer is its call's
    tlapm AuditLog_proofs.tla                               # the daily file
    tlapm Commands_proofs.tla                               # token, store, log, MCP, traces, sanitizer
    tlapm Loops_proofs.tla                                  # what a loop over a sequence computes

## 1. The system: parts, state, interactions

| Part | Source (`src/crates/`) | State it keeps | Operations | Talks to |
|---|---|---|---|---|
| Mode B orchestration | `seck-host/src/orchestrator.rs`, `seck-reader/src/main.rs`, `seck-reader-priv/src/main.rs`, `seck-reader-ipc/src/lib.rs` | the descriptor tables of three processes, three pipes, how far each has read and written | create pipes, spawn, drop, write the file set, read the report, wait; decode, re-emit; collect, report | the kernel; the two readers |
| Mode A orchestration | `seck-host/src/orchestrator.rs`, `seck-reader/src/main.rs` | the same with one child and two pipes | the same | the kernel; the reader |
| Wire format | `seck-host/src/orchestrator.rs`, `seck-reader/src/protocol.rs` | the parser's position | write a header, frames, a trailer; parse them | both orchestrations |
| Walker, file set | `seck-host/src/walker.rs`, `fileset.rs`, `open.rs` | the walk's stack, the running total, open descriptors | stat, check the limits, open, later read | files others change meanwhile |
| Audit log | `seck-audit/src`, `seck-cli/src/audit.rs` | a file a day, the tip each open writer remembers, salt and keys | open, append, verify, tip, init | other writers of the same file |
| Pipeline | `seck-pipeline/src` | the seed the backend was last loaded with, the texts so far | analyst, retry, auditor, second auditor, judge | the inference back end |
| Inference back ends | `seck-infer/src` | a child process, a socket | load, generate | MLXRunner, Ollama |
| `seck analyze` | `seck-cli/src/main.rs` | its arguments, its standard output | walk, submit, print | both orchestrations; whoever reads its output |
| MCP server | `seck-mcp/src` | the reports stored, by digest | read a line, dispatch it, analyze, respond | a client over two pipes; a `seck analyze` process |
| Web server | `seck-web/src` | the page, the token behind a mutex | bind, compare and rotate the token, deliver | browsers |
| Terminal UI | `seck-tui/src` | the terminal's modes, the cursor, what is expanded | start up, keys, restore | a terminal |
| Report | `seck-report/src` | none | sanitize, parse, render | every front end |
| Model store | `seck-models/src`, `seck-host-net/src` | a temporary file a pull, the model | check the manifest, connect, receive, verify, rename | the network; other pulls |
| Portal | `seck-portal` | none | receive a descriptor over D-Bus, exec `seck analyze --fd` | the desktop |
| Pairing | `seck-pair` | key pairs, the confirmed peer | show a QR code | a phone |
| Evidence | `seck-trace-check`, `proof/` (Lean) | none | parse a trace, judge its effects | strace |

How they interact: `seck analyze` walks a path (or takes a descriptor),
builds the file set *in memory*, and gives it to `run_sandboxed` (mode A) or
`run_sandboxed_mode_b`.  Those two own all the concurrency of the core: two or
three processes connected by pipes, with no messages but bytes and no signals
but end-of-file and EPIPE, both of which depend on *who else holds a
descriptor*.  The audit log is called from the command line; nothing but the
file relates two of its writers.  The pipeline is called with a backend and
holds no state between calls except what the backend keeps.  The front ends are
processes of their own: `main` matches on the subcommand and runs one of them.  The MCP
server starts `seck analyze` and reads its standard output; `seck web` and `seck tui`
read a report from a file that somebody saved.  Nothing else passes between them.

### What is hard here

* **Descriptors.**  The pipes are made without `O_CLOEXEC`, and each child does
  two `dup2` over a copy of the host's table.  Which numbers the pipes got
  depends on what the host inherited; whether anyone ever sees end-of-file
  depends on which copies survive.
* **Back-pressure.**  The host writes everything before it reads anything; each
  child reads everything before it writes anything.  Pipes are finite.
* **Death.**  Any child may be killed (memory, seccomp, Seatbelt, a panic) at
  any moment.  The host has no timeouts: everything it learns, it learns from
  end-of-file, EPIPE and exit statuses.
* **In-band lengths** computed from what `stat` saw, followed by the bytes that
  were read later.
* **Files that change** between `stat`, `open` and each `read`: they grow, shrink, go, or
  something else has their name.  A FIFO is opened without `O_NONBLOCK`.
* **An append-only file with several writers**, each trusting the tip it read
  when it opened, with appends that may be cut short, across midnight.
* **A backend whose configuration outlives the pass** that set it, and a retry
  after which two analyst answers exist.
* **A client that pipelines.**  The MCP server reads, analyzes and writes in turn, over
  pipes that fill; its client may hang up anywhere, and a response is matched to its
  request by nothing but its id.
* **A child whose output is the result**, which may be half printed, or mixed with log
  lines when `RUST_LOG` asks for them: `tracing_subscriber` writes to the same stream.
* **A token that is good once**, with requests racing for it, connections that break
  under the handler that holds it, and a mutex a panic poisons.
* **Downloads that overlap**, are killed, or lose power before their bytes were flushed.
* **Escape sequences that nest**, are cut short or run into one another.
* **A terminal in raw mode** when a call on it fails.

`PROJECT.json` lists each at its line under `hazards`, with the properties that
would notice it going wrong.

### What makes each part correct

* Orchestration: it answers at most once; Ok means *the whole report of the
  whole file set*; a run nothing happens to ends Ok; the death of a child leads
  to an error and never to a hang or to a truncated Ok; each child finds its own
  pipes at the numbers compiled into it.
* Wire format: what is parsed is what was sent, or an error.
* Walker: the limits bound what is kept whatever the files do; an untouched tree
  is read whole, or refused for a reason, and never waited for.
* Audit log: `verify` accepts exactly the intact logs; what was acknowledged is
  there; damage is never hidden by what follows.
* Pipeline: same nonce, same prompt, same configuration, same result; a pass is
  never reported that some auditor refused.
* MCP server: one response for each request with an id, in order, and a report in it
  only if it is the whole report of the files asked about.
* Web server: at most one request is served, and one with the printed token is, unless
  it is lost under way.
* Model store: no model, or the one whose digest the manifest names.
* Report: a view shows the plain characters of a text, all of them and no others, where
  the sanitizer's comments say which those are.
* Terminal UI: the terminal is left as it was found.

## 2. The modules

    AnalyzeSpec            one request, one answer, no partial Ok
        ^ implemented by ModeB (TLC and TLAPS) and, if no file shrank, by ModeA (TLAPS)
    ModeB  ---extends---> Pipes           descriptor tables, pipes, EOF, EPIPE
    ModeA  ---extends---> Pipes, FrameStream   the wire format, byte by byte
    Loops                  loops over a sequence: a selection, a sum
    Walker                 the walk, the file set, and those who change files
    AuditLog               daily files, writers, seck audit init
    Pipeline               three passes over one backend
    Backends               what the back ends do behind load and generate
    TraceCheck             what the trace checker makes of strace's lines
    Loops_proofs      <--- ModeA_proofs, Walker_proofs, AuditLog_proofs
    ModeB_proofs, Pipeline_proofs, Backends_proofs

    Reports                the sanitizer, the schema, the three views
    AnalyzeCommand -> Reports, AnalyzeSpec     one `seck analyze` process
    McpServer      -> AnalyzeCommand           JSON-RPC over pipes
    WebServer, Tui -> Reports                  one report, shown
    ModelStore             pulls of one model
    Commands       -> McpServer, WebServer, Tui, ModelStore, AuditLog, TraceCheck
    Commands_proofs   ---> AuditLog_proofs     the proofs about Commands

**Pipes.**  A descriptor table is a function from numbers 3..`MaxFd` to handles
(one end of a named pipe, `Closed`, or `Foreign` for something the host
inherited).  `TwoLowest` is `pipe(2)`, `Dup2` is `dup2(2)`, `Dropping` is Rust
dropping `OwnedFd`s.  `AtEof` and `HasReader` look at *every* process's table:
a pipe is at its end when it is empty and nobody holds a write end; a writer
gets EPIPE when nobody holds a read end.  0..2 are open throughout (the Rust
runtime sees to it) and left out.  `O_CLOEXEC` is not a flag of the model because
the orchestrator never sets it.

**ModeB.**  One action per step that another process can see in between:

| Code | Actions |
|---|---|
| `run_sandboxed_mode_b`: three `pipe()?` | `CreatePipe` (three times), `PipeFails` |
| the two `Command::spawn()?` with their `pre_exec` | `SpawnBytes` / `BytesTable`, `SpawnPriv` / `PrivTable`, `SpawnFails` |
| dropping the ends handed out | `DropHandedOut` |
| `write_fileset_protocol`, `drop(stdin)` | `WriteFrame`, `WriteFails` (EPIPE), `DropStdin` |
| `read_to_end_from_fd` | `ReadReport`, `StopReading` |
| `wait()` twice, the status checks | `WaitBytes`, `WaitPriv` / `Verdict` |
| bytes reader: `read_frames` | `BytesDecodes`, `BytesRefuses`, `BytesSeesTrailer`, `BytesCutShort` |
| bytes reader: `emit_ipc`; priv reader: the report | `ChildWrites`, `ChildFinishes` |
| priv reader: `read_messages` | `PrivTakes`, `PrivStopsReading` (EndFiles *or* end-of-file) |
| killed, out of memory, panicking | `Killed` |

A unit in a pipe is a header, an entry with its framing, a trailer; an IPC line;
a piece of the report.  A writer blocks when `PipeCap` units are buffered.  An
entry is "exact", or "refused" (one `read_frames` rejects).  The children's
sandbox lockdown is not an action: it changes nothing modelled, and a violation
of it is `Killed`.

**FrameStream** writes and parses the wire format one byte at a time.  Every
field is one byte wide and a byte is 0..5; the `reserved` field, which the reader
skips, is left out.  What that keeps is that lengths are in-band: when a file
shrank between `stat` and `read`, the reader takes the following frame's bytes for
contents, then something else for a length.

**ModeA** is the mode B host with one child and two pipes, with the real wire
format in the stdin pipe.  Its file sets are what `build_fileset` can return:
`size` from `stat`, at most that many bytes, and entries above the reader's limits
(`--fd` is guarded by no `WalkLimits`; paths are guarded by none).

**Walker** keeps the recursion of `walk_inner` as an explicit stack of the
`read_dir` loops under way, so that others' changes fall between any two system
calls.  A node is a name and leads to a file (`inode`), which a descriptor keeps when the
name is gone or leads to another.  A file's content is its size; `Grow`, `Shrink`, `Remove`
and `Put` (anything of any size takes the name: a smaller file, a directory, a FIFO, a
symlink) are what others do.  `barred` is the set of names for which the system refuses what
it is asked: by `RESOLVE_NO_XDEV` or `RESOLVE_NO_SYMLINKS`, for want of permission, by
macOS's realpath check, or in an I/O error; a barred name may fail at any call.  `Open` of a
FIFO leads to `PipeOpens`, when somebody opens it for writing; a read of one is `ReadPipe`.
`--fd` yields one entry sized by the descriptor's metadata, read from wherever the descriptor
stands: a file, a directory (whose read fails) or a pipe or terminal.

**AuditLog** has any number of writer processes, each with the day, the tip and
the key it opened with.  A record's hash is a number of its own (the hash covers
the timestamp and the previous hash), its signature the key that made it.
`AppendTorn` is `write_all` failing half way: part of a record, or all of it but the
newline, is left, and the next line runs into it.  `InitSalt`, `InitPublic`,
`InitSecret`, `InitStops` are the steps of `seck audit init`; `DeleteSalt` is the
user doing what its message advises.

**Pipeline** is `run` with its retry and its lenient and paranoid modes.  The
backend is an unknown function of the seed it was last loaded with and the prompt,
chosen lazily (`memo`), so that TLC covers every such backend.  A text is a record of
what the code looks at: of an auditor's, how its first line starts and the JSON objects with a
`flags` array in it.  `FlagsOf` reads them as `auditor.rs` does, a line at a time: an
object over several lines is not seen, of the others the first is taken, and of its flags the
strings.

**Backends** is that backend seen from inside.  `LoadMlx` spawns a runner and thereby
drops the one before; `WriteLine` puts the prompt between PROMPT and END into a pipe
that may be full; `Fill` and `TakeLine` are `BufReader` and the loop over its lines.  At
end-of-file there are three ways on: `OutputEnds`; `TakeTorn`, for `lines()` yields the
unfinished last line like a whole one, even one that reads END by then; and `ReadFails`, if it
breaks off inside a character.  `Return` drops the blank lines at the end, as
`trim_end_matches` does.  The runner is not in the repository: it is modelled by
the protocol `mlx.rs` documents, may pause anywhere and die anywhere, also in the middle of a
line (`torn`).  A line
carries, unseen by the code, the number of the call it was written for.  Ollama and
the stub are one exchange each; a reply cut short is no JSON and an error.  What
`Pipeline` assumes, an answer that is a function of seed and prompt, is therefore what
an undisturbed back end gives (`CleanAnswerWhole`); a runner that dies in the middle
of an answer makes a shorter answer that is still Ok, whose last line may be torn
(`AnswerFromThisCall` says what such an answer may be).

**Reports** has a text as a sequence of the classes of characters `sanitize` tells
apart.  `Sanitize` is its loop, one `Step` a character with what is being skipped as
state.  `Plain` is what its comments say it computes, read as a grammar of escape sequences: an
OSC ends at BEL or at ST, which is ESC and a backslash (`sanitize.rs:31,39`).  The code takes
ESC and *any* character for the end of one, so the two agree on the texts that are
`WellTerminated`, and that is what is claimed.  A report keeps of an input which digest it
carries and of a finding its id and summary, both texts: what `Parses` (the serde schema) and
the views depend on.  The page sanitizes each field by itself (`PageFinding`).

**AnalyzeCommand** is one process of `seck analyze`: `LogLine`, `Refuses` (the walk, the
file set or a missing reader), `Analyzes`, `Fails`, `Prints`, `DiesPrinting`.  The
orchestration inside it is not modelled again: `Analyzes` is the answer of
`AnalyzeSpec`, which mode B is proved to implement, and mode A for file sets of which no
file shrank.

**McpServer** has one action per branch of `serve`'s loop and of `dispatch`: `Skip` (blank
lines), `NotText` (`lines()` fails), `Dispatch` (answered at once), `Analyze` and
`Analyzed` (the two sides of `Command::output()`), `Write`, `WriteFails`, `InputEnds`.
The client is the environment: `Send`, `Hear`, `HangUp`.  `AnalyzeCommand`'s steps happen
in between, while the server waits and the client goes on sending.

**WebServer** follows one request through `Lock`, `Compare`, `Rotate` and `Deliver`, or
`LockFails` and `RotateFails` (a panic, which drops the connection and poisons the
mutex).  A connection may break at any moment, which the handler does not notice: it has
no await.  HEAD runs the handler of GET.

**Tui** is `run` with each call on the terminal failing or not (`EnableRaw`,
`EnterAlternate`, `MakeTerminal`, `DisableRaw`, `LeaveAlternate`) around the event loop
(`Move`, `Toggle`, `Quit`, `LoopFails`).  `ListLine` sanitizes caret, id and summary as the one
string that `format!` makes of them, so that a sequence left open in the id goes on in the
summary.

**ModelStore** has any number of pulls of one model: `Pull` (what `--airgap`, the
manifest and the host list refuse before the network is touched), `Connect`, `Receive`,
`BodyEnds` (the digest is compared), `Persist` (`rename(2)`), each of which may fail, and
`KillPuller`, `Flush`, `PowerFails`.  A model is a sequence of blocks, right or wrong.

**Commands** composes them as the user does: `main` starts one command, a saved report is
the file that lies between `seck analyze` and `seck web` or `seck tui`, and a command that
reads no report runs from the beginning.  `AuditLog` and `TraceCheck` are sessions of it
too; their initial states and steps keep their names (`AuditInit`, `AuditNext`,
`TraceInit`, `Attach`, `Traced`).

**TraceCheck** has the threads enter and leave system calls, strace print a line for
each call or, when another thread's call comes in between, two halves of one, and the
parser and the checker as operators on those lines.  A path, a payload or an argv holds
the canary or not.  What is forbidden is stated twice: `Forbidden` is what `check_trace` looks
for in the effects, `Offends` what the head of `checker.rs` says of the calls.

## 3. The runs

All twelve take some six minutes together.  `CHECK_DEADLOCK FALSE` stands where the
program really ends (an answer was given, the bounds of a log are reached) or,
in the runs that show a hang, where it really hangs; Walker ends in a stuttering
`Done` instead and is checked for deadlock.

| Run | Bounds, and why they are enough | What it shows |
|---|---|---|
| `mode_b_faults` | ≤2 entries, pipes of 3 units, numbers 3..12, any subset of 3..7 already taken | `RolesCorrect`, `OkMeansComplete`, `PrivNeverSeesEof`, the refinement `AbsSpec`, `CleanRunSucceeds`, `PrivDeathIsReported`.  A stream of 2 entries is 4 units and does not fit a pipe of 3, so back-pressure happens on every pipe that can have it; 3..7 covers each number a child hard-codes, so `dup2` meets every overlap; with 5 taken the third `pipe()` fails |
| `mode_b_bytes_gone` | 1 entry that may be refused | violates `EofReachesPriv` (finding 1) |
| `mode_a_faults` | ≤2 files of ≤2 bytes out of {0, 4, 5}, over-limit entries, pipe of 3 bytes, numbers 3..8, any of 3..5 already taken | `RolesCorrect`, `FramesFaithful`, `OkMeansWhole`, `OverLimitRefused`, `CleanRunSucceeds`, `ReaderDeathIsReported`.  0, 4 and 5 are a length, the trailer and a byte no path may hold, so a shifted stream can be mistaken for each; with 3 and 4 taken the stdin pipe itself gets number 5, with 3..5 taken the second `pipe()` fails |
| `mode_a_shrunk` | 1 file that may shrink, no fault | violates `EofReachesReader` (finding 2) |
| `walker_changing` | every tree of ≤4 names, sizes 0..3, one change at any moment, one name that may be barred, limits 2 / 2 / 3, 3 descriptors, reads of 2 bytes | `LimitsHold`, `QuietTreeExact`, `ShortOnlyIfShrunk`, `Terminates`; 1,149,251 states, about 75 seconds.  Each limit lies inside the range, so below, at and above it all occur, as do two reads for one file and nested directories.  One change can be a smaller file, a directory, a FIFO or a symlink in a file's place, at each of the moments between `stat`, `open` and the reads; the three safety properties are theorems for any number of changes |
| `audit_forked` | 2 writers, 1 day, no fault | violates `ChainLinked` (finding 3) |
| `backends_inband` | 2 calls, prompts and answers of ≤3 lines, among them END, PROMPT and blank ones, pipes of 2 lines, a failing spawn, a runner that dies at or inside a line | `AnswerFromThisCall`, `CleanAnswerWhole`, `GenerateEnds`; 865,051 states.  A prompt in its delimiters does not fit its pipe; a second call is what an earlier one's rest could disturb; three lines are enough for an END with something after it, which is the rest, and for a blank line before another and at the end |
| `trace_file` | 2 calls, the prefix of `-o FILE` | violates `NoConnectionPasses` (finding 4) |
| `commands` | texts of ≤5 characters over 10 classes (111,111 of them), ≤1 file, 3 lines over pipes of 1 line, 3 browsers, 2 pulls of ≤3 blocks for a model of 2; the audit log with 2 writers, 2 days, 4 records, 2 keys, torn appends, interrupted inits; the trace with 2 threads, 3 calls, both prefixes a terminal shows | `ShownAsDocumented`, `AnswersExact`, `RequestsAnswered`, `ServedOnce`, `RightTokenServed`, `DestVerified`, `NothingLeftBehind`, `VerifyExact`, `VerifiedMeansComplete`, `AckedStays`, `DamageIsPermanent`, `EffectsAreCalls`, `VerdictsHold`; 963,908 states, two minutes.  5 characters are a sequence cut short by another and what follows both; the reports from elsewhere hold ids that leave a sequence open and summaries that end one; 3 lines over pipes of 1 keep one request analyzed, one waiting and the client blocked; 3 browsers are two that race with the right token and a wrong one between them; 3 blocks are one too many.  A fork of the log needs 2 writers and 3 records, a torn line run into a fourth; a re-keyed log needs 2 keys.  Three calls are one cut in two by another and a third after it, of every kind, with and without the canary, on descriptors 2, 3 and 5 |
| `commands_saved` | 1 file, both modes | violates `SavedReportOpens` (finding 6) |
| `pipeline_twice` | 2 runs, 2 versions of every analyst text, 1 flag, auditor's answers of ≤2 JSON objects, failing calls | `Reproducible`, `PassedByAll`, `FlagsAsPromptedReach`, `SurfacedAfterRetry`; 5,720,394 states.  Two runs are what reproducibility is about; the first leaves the backend loaded with another seed.  Two objects are one that is taken and one that is passed over, either of them over several lines or with an entry that is no string |
| `pipeline_retry` | 1 run | violates `AuditedIsReported` (finding 5) |

For every property of a passing run `PROJECT.json` names a mutant: a plausible bug
in a modelled definition (a swapped `dup2`, a limit compared before the size is
added, a pass that does not reload) under which TLC finds that property violated.

### Fairness

*ModeB* assumes weak fairness of each process separately (`HostNext`, `BytesNext`,
`PrivNext`), *ModeA* of `HostNext` and `ReaderNext`: the kernel schedules every
runnable process, and a system call that can return does.  Weak fairness is enough
and is all the kernel promises: a process blocked in a read or write is disabled,
and is owed nothing until it is enabled for good.  No fairness is assumed of faults.
*Walker* has weak fairness of the calls that return by themselves (`Process`), and none of
those that wait for somebody else (`Awaited`: the open of a FIFO, the read of a pipe or
terminal), so `Terminates` says that the walk ends or waits at a pipe for ever; that it never
waits in an untouched tree is part of `QuietTreeExact`.  Others need not ever stop changing
files, but their number of changes is bounded by `MaxChanges`.  (An endless stream
of new names in one directory would keep the code's loop going; `MaxFiles` stops it
once they are files.)  *Backends* has weak fairness of the
process that calls the back end and of the runner.  The latter is an assumption about a program
outside the repository: one that is alive and hangs keeps `generate` for ever, for the read at
`mlx.rs:89` has no timeout.  It may die at any point instead; nobody
need run another pass.  *Commands* (`FairSpec`) has weak fairness of the MCP server and
of each handler of the web server, which are threads and tasks that their schedulers run;
of `Hear`, an MCP client that reads what it is sent; and of the analysis the server waits
for.  The last is an assumption about the files: `Command::output()` has no timeout, and an
analysis that hangs for the reasons of findings 1 and 2 leaves the client without this
answer and all later ones.  No fairness is assumed of `Send`, `Ask`, failures, kills or
flushes.  *Pipeline*, the pulls, the audit log and the trace checker state safety only.

### Liveness with a premise

`CleanRunSucceeds` supposes acceptable files, enough descriptors and no fault, and
says the run ends Ok *although* the host does not read before it has written all.
It holds because each reader drains its input completely before writing anything;
a reader that streamed its output would deadlock it.  `PrivDeathIsReported`
supposes that the whole IPC stream fits its pipe: with more than that, the bytes
reader, which inherits a read end of the pipe it writes, blocks on it for ever,
and the host with it.  The premise is there because without it the code does not
have the property.  `GenerateEnds` supposes that no line of the prompt is END: after one
the runner answers while the rest of the prompt is still being written, and with both
pipes full neither goes on.

### Findings

1. **Mode B: the priv reader waits for ever when the bytes reader gives up.**  Priv
   inherits the write end of its own input (`orchestrator.rs:202`: no `O_CLOEXEC`,
   `pre_exec` only duplicates).  If the bytes reader refuses the file set or dies,
   priv's read never returns 0, and the host waits for priv.  `PrivNeverSeesEof` is
   the same fact as an invariant, and a theorem.
2. **Mode A: a file that shrank between `stat` and `read` hangs the analysis.**
   The announced size is larger than what follows, and the reader holds a write end
   of its own stdin (`orchestrator.rs:73`).
3. **The audit chain forks when two writers are open on one day**
   (`chain.rs:65`), contrary to `docs/AUDIT_LOG.md:39`.  `verify` does notice
   (`VerifyExact`).
4. **The trace audit of the continuous integration sees an empty trace**
   (`strace_parse.rs:40`): `strace -f -o FILE` starts lines with a bare number, which
   `strip_pid_prefix` does not know, so nothing is recognised and everything passes.
   `NumberedTracesPass` proves it of every such trace.
5. **After a retry the auditors and the judge are shown the rejected answer**
   (`seck-pipeline/src/lib.rs:72`), while the findings returned are the second
   answer's.
6. **A report saved by `seck analyze` cannot be opened by `seck web` or `seck tui`.**
   The schema requires an `id` of every finding, and the reader's stub findings have
   none; an input of mode B carries `sha3_256_of_base64` where `sha3_256` is required.
   `--output terminal` fails for the same reason.  `main.rs:36` and `web.rs:13` say
   that a saved report is what they are for.

Smaller observations.  Most of them the model has as the code does them; the others concern
what is not modelled:

* `checker.rs:3-8` says that the canary is in no `ExecP` path, argv or env and that there are no
  connections at all.  The parser keeps no argv and no env (`strace_parse.rs:70-71`), and a
  connection without `inet_addr`, such as one over IPv6, is no effect (`:96`).  Both pass.
  `VerdictsHold` names them (`OutOfSight`) as all that passes although it offends, in traces
  whose lines begin as expected.
* `sanitize.rs:31,39` say that an OSC ends at BEL or at ESC and a backslash; the code ends it at
  ESC and whatever follows, which is dropped.  Sequences other than CSI and OSC lose
  only their ESC, so the rest of a charset selection or a DCS is shown as text.  And an
  id that leaves a sequence open swallows the summary in the terminal UI
  (`seck-tui/src/lib.rs:144`), where the page shows it.
* `renderer.rs:1` says that all text fields are sanitized; ids and categories are printed as
  they are.  The one command that would (`--output terminal`) fails before (finding 6).
* `auditor.rs:35` says "said NO and didn't say YES"; the code asks whether the first line starts
  with NO.  `auditor.rs:38` says that flags come from any JSON object in the response; they come
  from the first line that is one with a `flags` array, and only strings do.  A report that is
  pretty-printed loses its flags.  `FlagsAsPromptedReach` is stated for the answers that
  `AUDITOR_PROMPT` asks for.
* The design document (`docs/superpowers/specs/2026-05-19-seck-sandboxed-llm-analyzer-design.md:280`)
  says that an answer against the schema is marked `passed=false`.  It is retried, and
  surfaced raw if it fails again, but `passed` is what the auditors say.
* A runner that dies inside a line ends `generate` with Ok and a torn last line, and one that
  hangs keeps it for ever.
* `macos.rs:3-11` says that a followed intermediate symlink shows in the realpath check.  The
  check compares the parent of `canonicalize(path)` with `canonicalize` of the parent, both of
  which follow it alike, so it shows nothing.
* `server.rs:51` says that no notification gets a response; one that fails does, with a
  null id.  `AnswersExact` therefore allows responses without an id, if they report errors.
* A line that is not UTF-8 ends the MCP session, where one that is not JSON is answered.
* The web token is spent when it is compared, not when the page is delivered: a HEAD
  request, or a connection that breaks, leaves the user without the report.
* `seck tui` restores the terminal however its loop ends, but not when starting up
  fails half way (`ended = "startup"`).
* `seck pair` says of `--bind` that public addresses are refused (`pair.rs:11`).  What it
  checks is `SECK_PAIR_LAN_IP`; of `--bind` only the port is used, and nothing is bound.
* A pull calls nothing that flushes, so a power failure after its OK may leave any
  beginning of the model in the store; `DestVerified` makes exactly this exception.

## 4. The proofs

### Loops

tlapm's provers cannot instantiate the library's induction theorems, which take an
operator.  A *set* they can instantiate: `Loops_proofs` derives, from the well-foundedness
of `<` on Nat, that a nonempty set of numbers has a least one (`LeastNat`), and from that
induction for sets (`NatInductionOnSets`, `InductionUpTo`).  `LoopRuns` then says that a
loop over a sequence, given by what its n-th turn makes of a value, has a value at every
turn, and `LoopsAgree` that it has only one.  What the modules compute with a loop is
written as a recursive function over prefixes, which TLC evaluates and these lemmas open:
`Selected` and `Total` in Loops, `Stream` and `Parse` in FrameStream, `Scanned` in Reports,
`Parsed` in TraceCheck.

### Mode B

`ModeB_proofs` proves, for every `MaxFd` of at least 7, every
`PipeCap` of at least 1, every `MaxFiles` in Nat, every set of inherited numbers and
every set of faults (the assumptions named in `Pipes` and `ModeB`; nothing else):

| Theorem | Statement |
|---|---|
| `Wiring` | `Spec => []WireInv` |
| `TypeCorrect`, `RolesAlwaysCorrect`, `PrivIsNeverAtEof` | `Spec => []TypeOK`, `[]RolesCorrect`, `[]PrivNeverSeesEof` |
| `Flow` | `Spec => []FlowInv` |
| `OkIsComplete` | `Spec => []OkMeansComplete` |
| `Refinement` | `Spec => AbsSpec` |

**The descriptors.**  `RolesCorrect` is not inductive: that `dup2(r, 3)` then
`dup2(w, 7)` does not overwrite `w` before it is used depends on how the numbers were
handed out.  `WireInv == TypeOK /\ HostWiring /\ RolesCorrect /\ PrivKeepsWriteEnd`
adds what is needed.  `HostWiring` says where each end of each pipe is in the host's
table at each stage of `run_sandboxed_mode_b`, that it is there once, and that pipes
were handed out from the lowest free number upwards, so a later pipe's numbers lie
above an earlier one's.  From that follows that the number a closure still needs is
never the one it has just overwritten.  `PrivKeepsWriteEnd` says that the write end
of `b2p` survives both `dup2`s of priv at a number that neither of them overwrites,
from which `PrivNeverSeesEof`.

**The data.**  `OkMeansComplete` relates the report at the end with the file set at
the beginning; in between everything is in transit.  `FlowInv` says of each pipe that
what it holds is the consecutive stretch of the sender's stream between what the
receiver has taken and what the sender has given (`H2bFlow`, `B2pFlow`, `P2hFlow`), of
each child that what it decoded is a prefix of what it was sent (`BytesFlow`,
`PrivFlow`), and of the host what its position means (`HostFlow`).  An Ok verdict needs
both exit statuses; a child that exited well wrote everything; the host left its
reading at end-of-file with an empty pipe; so the report is everything written.

**The refinement.**  `AnalyzeSpec` is implemented with `answer` read off `result` and
`report`: all steps but `Return` stutter, and a `Return("ok")` is an Ok answer because
of `OkMeansComplete'`.

Each proof has one step per action and, below it, one per conjunct the action can
disturb; facts about `Dup2`, `Dropping` and tables are lemmas of their own.

### Mode A

`ModeA_proofs` proves, under the assumptions named in `Pipes`, `FrameStream` and `ModeA` (of
which one keeps every limit below 4, so that each length is a byte the model has):

| Theorem | Statement |
|---|---|
| `Tables`, `ReaderRolesCorrect` | `Spec => []TableInv`, `[]RolesCorrect` |
| `Flows` | `Spec => []FlowInv` |
| `AnalysesTyped` | `Spec => []TypeOK` |
| `FramesAreFaithful` | `Spec => []FramesFaithful` |
| `OkIsWhole` | `Spec => []OkMeansWhole` |
| `OverLimitIsRefused` | `Spec => []OverLimitRefused` |
| `Refinement` | `Spec /\ NoneShrank => Abs!Spec` |

**The descriptors.**  The argument is that of `WireInv`, with one child and two pipes.
There is no counterpart of `PrivIsNeverAtEof`: if exactly one of 3 and 4 was taken when the
host started and 5 was free, the write end of stdin is at 5, and the second `dup2`
overwrites the reader's copy.

**The wire format.**  None of the properties about frames is inductive: they speak of
decoded frames, while the reader is somewhere inside a field, after reads of any size, and
perhaps at the wrong place.  Four layers lead there.

1. `StreamLaidOut`: where in the stream the header, each entry and the trailer begin.
2. `StepTyped`, `ParseRuns`: one byte makes a parser state of a parser state, whatever the
   byte; parsing the bytes of two reads is parsing them one after the other.
3. `Follows(F, K, B, p, t)`: p is what a parser may have made of the first t bytes of the
   stream of F when the first K entries did not shrink.  The frames among them are theirs
   (`Matched`); up to where the entry after them begins, the state is a definite place of a
   definite entry (`InHeader`, `OnTrack`, `InEntry`); beyond it, only the number of frames is
   still accounted for (`Accounted`), because the announced count was read before anything
   could be misread.  `FollowStep` carries this over any one byte, and `ParseFollows` over
   any read.
4. `StreamAt` and `ReportAt`: what a pipe holds is the stretch between what its reader took
   and what its writer gave.  `FlowInv` is these two with `Progress` (where the processes are)
   and `Endings` (what each way of ending implies: a reader that exited well had reached
   the trailer and gave the whole report; the host's Ok needs end-of-file and that status).

K is `Sound`, the entries before the first that shrank.  If none did, K is all of them and
the four properties are about the file set itself.

**The refinement.**  A shrunk file may make an Ok report of other contents than were
submitted, and `AnalyzeSpec` has no such answer.  So the theorem has the hypothesis
`NoneShrank`, which speaks of the file set chosen in `Init` and holds of most of those that
`Init` allows; a report unit stands for the i-th file if it is exactly that file's.  Mode
B has no such hypothesis because its model has whole units in its pipes: it says what
happens when no length is misread, and what happens when one is, mode A's does.

### The walk

`Walker_proofs` proves, for every tree of any size, every limit, every buffer size and any
number of changes by others, with any names barred:

| Theorem | Statement |
|---|---|
| `WalkTyped` | `Spec => []TypeOK` |
| `ShortOnlyForCause` | `Spec => []ShortOnlyIfShrunk` |
| `LimitsAlwaysHold` | `Spec => []LimitsHold` |
| `QuietTreeIsExact` | `Spec => []QuietTreeExact` |

`WalkInv` says of what `stat` saw, at the name about to be opened (`ToOpen`) and of every
entry, that if the file opened is the one `stat` saw and nobody took bytes from it, it still
holds as many (`Sound`), so a read that returns nothing has reached what `stat` saw
(`Complete`).  That this may be said of the file's number alone is `Old`: no number is in
use before somebody makes that file, so a file put in another's place never passes for it.
`LimitInv` says that there is room for the name being
visited, and `Counted` that the running total is the sum over the entries and what is
being opened.  The assumptions are those Walker names.

`QuietTreeExact` speaks of the end of the walk, where every file must have been found, and
only once.  `Quiet` says what is true on the way.  Let L be the directories whose loop has
begun: what can be reached through them is divided without overlap into the names not yet
yielded, the node being visited, L itself, the files collected, and what is neither file
nor directory (`Partition`).  When no name is left, L is closed under children, and as a
directory is made before what it contains, everything under the path is in L or
collected.  The loops on the stack are over different directories and disjoint
(`Looping`), so the descriptors they hold are no more than there are directories, which
makes a refused `open` a `Cause`; and `Weighed` says the same of the bytes.

### The pipeline

`Pipeline_proofs` proves, for every set of versions and flags and any number of runs:

| Theorem | Statement |
|---|---|
| `AlwaysReproducible` | `Spec => []Reproducible` |
| `NoPassWithoutAll` | `Spec => []PassedByAll` |
| `FlagsReach` | `Spec => []FlagsAsPromptedReach` |
| `RawOnlyAfterRetry` | `Spec => []SurfacedAfterRetry` |

That two runs return the same says nothing about a run under way, so it is not inductive.
`Inv` says at each pass which answers the run must have had by then, each one what the
backend says of that prompt under that seed (`Analysed`, `FirstAudit`, `AllAudits`), and of
every result that it was earned by a whole chain of such answers (`Earned`).  As the backend
says one thing of each (`OneAnswer`), two whole chains are equal, step by step
(`OneWholeRun`).  `Inv` quantifies over all texts, so TLC cannot evaluate it.

### The back ends

`Backends_proofs` proves, for any number of calls, prompts and answers of any length with any
words on their lines, and pipes of any size:

| Theorem | Statement |
|---|---|
| `AnswersStemFromTheirCall` | `Spec => []AnswerFromThisCall` |
| `CleanAnswersAreWhole` | `Spec => []CleanAnswerWhole` |

Neither says anything before an answer is returned.  `FlowInv` (that of the back ends) follows
the first answer of a call: until the runner gives it, nothing of any answer is on its way and
the runner is somewhere inside the message (`Silent`); from then on, what `generate` has
gathered, followed by what it has read ahead, what the pipe holds and what the runner has still
to write, begins with that answer, END included (`Coming`).  As `generate` stops at the first
END, it never reaches what a delimiter inside the prompt makes the runner say after it, and the
next call has a runner and pipes of its own.

### The audit log

`AuditLog_proofs` proves, for any number of writers, days, records and keys and every set of
faults:

| Theorem | Statement |
|---|---|
| `VerifyIsExact` | `AuditSpec => []VerifyExact` |
| `VerifiedIsComplete` | `AuditSpec => []VerifiedMeansComplete` |
| `AcknowledgedStays` | `AuditSpec => AckedStays` |
| `NoDamageHeals` | `AuditSpec => DamageIsPermanent` |

The argument is about one write (`LinksOfPut`): a line put into a file without junk, after a
newline, keeps the links of the file intact if and only if its writer's tip was the
file's.  `LogInv` carries that over all writes as `LinkedUnlessForked`: a file without junk
has all its links if and only if it was never forked.  `RaggedUnacked` says that a line
without its newline, into which the next one runs, is the last of its file and was not
acknowledged; `AckedEarlier`, that a new record's hash is none of those acknowledged.
`AckedInFile` says of a file with no line torn that the acknowledged records are in it in
the order of the acknowledgements, which is what `VerifiedMeansComplete` needs at any
moment at which verify may be run.

### The programs around it

`Commands_proofs` proves, for every set of browsers and of pulls, every number of blocks and
every value of the other constants:

| Theorem | Statement |
|---|---|
| `OnlyOneIsServed` | `Spec => []ServedOnce` |
| `StoreHoldsVerified` | `Spec => []DestVerified` |
| `NothingIsLeftBehind` | `Spec => []NothingLeftBehind` |
| `LogKeepsItsPromises` | `Spec => []VerifyExact /\ []VerifiedMeansComplete /\ AckedStays /\ DamageIsPermanent` |
| `EachRequestAnswered` | `Spec => []AnswersExact` |
| `TracesReadRightly` | `Spec => []EffectsAreCalls`, if `Style \subseteq {"bare", "bracket"}` |
| `TracesJudgedRightly` | `Spec => []VerdictsHold` |
| `NumberedTracesPass` | `Spec => [](style = "number" => Passes(trace))` |
| `SanitizeKeepsPlain` | `\A text \in Seq(Char) : WellTerminated(text) => Sanitize(text) = Plain(text)` |
| `ViewsShowPlainText` | `Spec => []ShownAsDocumented` |
| `SessionsTyped` | `Spec => []TypeOK` |

`StepsOfSessions` splits a step of the composition into a step of the session running and
stutters of all others, once for all of them.  `BrowserAssumption` (`"free"` and `"poisoned"`
are not browsers) and the assumptions of AuditLog are used.

**The log.**  A step of the composition is a step of `AuditNext` or leaves the log alone, so
`Spec` implies `AuditSpec`, and the theorems about it carry over.

**The token.**  That two requests may both find the printed token current is excluded by
who holds the mutex.  `WebInv` says that a request that compares or rotates holds it, so
there is one; that one about to rotate had the token that is current; and that once
anybody passed the token is not the printed one, which no request can name any more.  A
poisoned mutex is held by nobody for ever.

**The store.**  `ModelInv` says of each pull which stage has a temporary file, and that at
`hashed` this file is the model of the manifest; `rename` takes it from there.  What a
pull wrote before a power failure is the file or, if it was not flushed, a beginning of it,
and `blackout` remembers which.

**The terminal.**  `TuiInv` says at each stage what the terminal has been told.

**The MCP server.**  `AnswersExact` compares all answers with all requests, while one
request is under way.  `McpInv` says the same of the requests dealt with so far
(`McpMatch`, `Done`), of the one being analyzed that its process was started with its files
(`RunWhole`), and of the response about to be written that it is `Sound`.  That a report
is whole comes from `AnalyzeSpec` and from what is stored only when the exit was a success.

**The trace checker.**  `TraceInv` says that what the parser makes of the lines so far is the
calls begun so far that it knows.  A line cut in two adds its effect with its first half and
nothing with its second; `current` has the threads whose line may still be finished in one
piece, and such a thread's half is the last line, so that completing it changes no other.
The condition on `Style` of `TracesReadRightly` excludes the traces of finding 4, for which the
claim is false; `VerdictsHold` says of each style what is true of it.

**The sanitizer.**  `Sanitize` runs forwards over the text, `Plain` is a grammar that looks
ahead from each position, and neither is defined by the other.  `RestPlain` says that from a
position at which the automaton is in plain text, what it will still put out is what the
grammar finds from there; `RestPlainStep` shows it of a position from all later ones (an
escape sequence may reach any number of them ahead), and induction over the distance from
the end gives the theorem.  `ViewInv` carries it to the views: every text that can be opened,
saved or obtained elsewhere is a sequence of characters.

### Only model-checked

* The six liveness properties (`CleanRunSucceeds` and `PrivDeathIsReported` of mode B,
  `CleanRunSucceeds` and `ReaderDeathIsReported` of mode A, `Terminates`, `GenerateEnds`)
  and, in Commands, `RequestsAnswered` and `RightTokenServed`: fairness and `ENABLED` are
  beyond the provers here.
* What the violation runs show.  They are counterexamples, and TLC's traces are their proof.

## 5. Not modelled, or not yet

* Sandbox profiles (seccomp, Landlock, Seatbelt): kernel policy, applied once at
  start, whose meaning lies outside the program.
* Cryptography (`seck-crypto`, protected memory): stateless wrappers of libraries.
* Release tools, benchmarks, canaries: scripts without state that two things could
  disagree about.
* The Windows orchestrator: compiled for Windows only and called by nothing.
* Pairing: `seck pair` makes a key pair, prints the QR code and ends; nothing calls
  `set_peer`, so there is no second step to interleave.
* The portal: one D-Bus method that execs `seck analyze --fd 3`.  It gives up ownership of
  the descriptor it was sent and leaks one a call; and `dup2(3, 3)` leaves `O_CLOEXEC` set
  if the descriptor was 3 already.  Both are about a table `Pipes` could hold once it had
  that flag.
* The Lean proof: a proof in its own right.
* An `init` of the audit log that stops after `salt.bin` makes the next one refuse
  ("already initialized") until the user deletes the file, as the message says.  The
  states are in AuditLog (`InitStops`); no property speaks of them.
* Inside modelled parts: what lies behind a symlink that takes a *directory's* place
  during the walk (the files there are refused or, on macOS, read), names that appear in a
  directory after its loop has begun, hard links and renames within the tree; in the audit log
  power failures, for nothing flushes it; `render_terminal` (see above); file names (they
  matter only to the order of the report), the children's start-up, the layout and the headers
  of the page, `seck models list`, `recommend` and `verify`, which change nothing; the fields of
  a finding other than id, summary and, for the cursor and what is expanded, its place.

## 6. The plan

What is left, in this order:

1. *Portal*: the descriptor handed to `seck analyze --fd`; `Pipes` gets the `O_CLOEXEC` flag.
2. *Composition*: Pipeline over Backends, with the undisturbed back end shown to be the
   function of seed and prompt that Pipeline assumes.

Next theorems: that the undisturbed back end is a function of seed and prompt; that the
report of mode A's reader after a shrunk file, where it is Ok, has the announced number of
inputs (`Accounted` has it of the frames).
