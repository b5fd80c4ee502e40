----------------------------- MODULE TraceCheck -----------------------------
(***************************************************************************)
(* seck-trace-check: what parse_strace makes of the lines strace prints    *)
(* while the threads of an analysis make system calls, and what            *)
(* check_trace concludes from it.                                          *)
(*                                                                         *)
(* strace is a program of its own, modelled by what it prints.  It prints  *)
(* a call with its arguments when the call begins and completes the line   *)
(* when it returns.  If another thread's call comes in between, the line   *)
(* ends in "<unfinished ...>", and the return gets a line of its own,      *)
(* "<... call resumed>".  How a line starts depends on how strace was run: *)
(* with the name of the call, with "[pid N] " (-f, several threads), or    *)
(* with "N " (-f -o FILE).                                                 *)
(*                                                                         *)
(* Paths and bytes are told apart only by whether they hold the canary.    *)
(***************************************************************************)
EXTENDS Integers, Sequences, SequencesExt, Loops

CONSTANTS
  Thread,     \* the threads traced
  MaxCalls,   \* bound: the calls they make
  Style       \* how lines may start: subset of {"bare", "bracket", "number"}

ASSUME MaxCallsAssumption == MaxCalls \in Nat \ {0}
ASSUME StyleAssumption    == Style \subseteq {"bare", "bracket", "number"} /\ Style # {}

\* Bound: descriptors 2, 3 and 5.  `tainted` is for the path or the bytes; of a
\* socket address the family matters, of an execve also its argv and envp.
NoFd   == -1
FdUsed == {2, 3, 5}
Call(op, fd, tainted, detail) ==
  [op |-> op, fd |-> fd, tainted |-> tainted, detail |-> detail]
Calls ==
  {Call("openat", NoFd, t, "none") : t \in BOOLEAN}
    \cup {Call("execve", NoFd, t, d) : t \in BOOLEAN, d \in {"none", "taintedArgs"}}
    \cup {Call("write", f, t, "none") : f \in FdUsed, t \in BOOLEAN}
    \cup {Call("read", 3, FALSE, "none")}
    \cup {Call("connect", NoFd, FALSE, d) : d \in {"inet", "inet6"}}
    \cup {Call("socket", NoFd, FALSE, "none")}
Idle == Call("none", NoFd, FALSE, "none")

VARIABLES
  style,    \* how the lines of this trace start
  made,     \* the calls, in the order they began
  trace,    \* the lines: [start, part, call]
  busy,     \* thread -> the call it is in, or Idle
  current   \* the threads whose line is the last one and still incomplete

traceVars == <<style, made, trace, busy, current>>

-----------------------------------------------------------------------------
(* strace.                                                                 *)

TraceInit ==
  /\ style = "none"
  /\ made = <<>>
  /\ trace = <<>>
  /\ busy = [t \in Thread |-> Idle]
  /\ current = {}

\* strace is started with its options.
Attach ==
  /\ style = "none"
  /\ style' \in Style
  /\ UNCHANGED <<made, trace, busy, current>>

TraceLine == [start : Style, part : {"begun", "whole", "resumed"}, call : Calls]

WithLine(part, call) == Append(trace, [start |-> style, part |-> part, call |-> call])

Enter(t) ==
  /\ style # "none"
  /\ busy[t] = Idle
  /\ Len(made) < MaxCalls
  /\ \E c \in Calls :
       /\ busy' = [busy EXCEPT ![t] = c]
       /\ made' = Append(made, c)
       /\ trace' = WithLine("begun", c)
  /\ current' = {t}
  /\ UNCHANGED style

Return(t) ==
  /\ busy[t] # Idle
  /\ busy' = [busy EXCEPT ![t] = Idle]
  /\ trace' = IF t \in current THEN [trace EXCEPT ![Len(trace)].part = "whole"]
              ELSE WithLine("resumed", busy[t])
  /\ current' = {}
  /\ UNCHANGED <<style, made>>

Traced == \E t \in Thread : Enter(t) \/ Return(t)

TraceNext == Attach \/ Traced

TraceSpec == TraceInit /\ [][TraceNext]_traceVars

-----------------------------------------------------------------------------
(* parse_strace.                                                           *)

\* strip_pid_prefix: what the parser can look at is the name of the call only if
\* nothing but "[pid N]" stood before it.
BodyBareOnly(line) == line.start = "bare"
BodyInView(line)   == line.start \in {"bare", "bracket"}

\* The prefixes parse_line tries are "openat(", "write(", ...; a line that goes
\* on with a call starts with "<... ".
NamesWhole(line)       == line.part = "whole"
NamesEvenResumed(line) == TRUE
NamesCall(line)        == line.part \in {"begun", "whole"}

\* The connect of another address family has no inet_addr.
Recognised(call) == call.op \notin {"socket", "none"} /\ call.detail # "inet6"

\* argv and envp are not parsed.
EffectWhole(call) == call
EffectOf(call) == [call EXCEPT !.detail = IF call.op = "execve" THEN "none" ELSE @]

Parsed ==
  {l \in TraceLine : BodyInView(l) /\ NamesCall(l) /\ Recognised(l.call)}

Parse(output) ==
  LET seen == Selected(output, Parsed)
  IN  [i \in DOMAIN seen |-> EffectOf(seen[i].call)]

-----------------------------------------------------------------------------
(* check_trace.                                                            *)

AllowedAnyway             == FdUsed
ALLOWED_TAINTED_WRITE_FDS == {3, 5}

Forbidden(e) ==
  \/ e.op \in {"openat", "execve"} /\ e.tainted
  \/ e.op = "connect"
  \/ e.op = "write" /\ e.tainted /\ e.fd \notin ALLOWED_TAINTED_WRITE_FDS

\* Where check_trace stops: the first effect it forbids, or none.
Culprit(effects) == SelectInSeq(effects, Forbidden)
Passes(output) == Culprit(Parse(output)) = 0

-----------------------------------------------------------------------------
(* Properties.                                                             *)

\* Every variable has its type, and so have the effects, which hold no argv.
TraceTypeOK ==
  /\ style \in Style \cup {"none"}
  /\ made \in Seq(Calls)
  /\ trace \in Seq(TraceLine)
  /\ busy \in [Thread -> Calls \cup {Idle}]
  /\ current \subseteq Thread
  /\ Parse(trace) \in Seq({c \in Calls : Recognised(c) /\ c.detail # "taintedArgs"})

\* However the calls of several threads interleave, the parser makes one effect
\* of each call it knows, in the order the calls began: a line that was cut in
\* two counts once.
EffectsAreCalls ==
  LET known == Selected(made, {c \in Calls : Recognised(c)})
  IN  Parse(trace) = [i \in DOMAIN known |-> EffectOf(known[i])]

\* What checker.rs says it does not let pass: the canary in the path of an open, in
\* the path, argv or env of an execve, in what is written elsewhere than to
\* descriptor 3 or 5, and any connection.
Offends(call) ==
  \/ call.op = "openat" /\ call.tainted
  \/ call.op = "execve" /\ (call.tainted \/ call.detail = "taintedArgs")
  \/ call.op = "connect"
  \/ call.op = "write" /\ call.tainted /\ call.fd = 2

\* Where the parser does not look: argv and envp, and a socket address without an
\* inet_addr.  What is only there passes, whatever checker.rs says.
OutOfSight(call) ==
  \/ call.op = "execve" /\ ~call.tainted
  \/ call.op = "connect" /\ call.detail = "inet6"

\* The verdict, however the calls of several threads interleave.  If lines begin as the
\* parser expects and the trace passes, no call in it offends where the parser looks;
\* and whatever lines begin with, a trace without an offending call passes.
VerdictsHold ==
  /\ style # "number" /\ Passes(trace) =>
       \A i \in DOMAIN made : Offends(made[i]) => OutOfSight(made[i])
  /\ (\A i \in DOMAIN made : ~Offends(made[i])) => Passes(trace)

\* What checker.rs says of itself: it asserts that there are no NetConn steps at
\* all.  So a trace with a connection in it does not pass.
NoConnectionPasses ==
  Passes(trace) => \A i \in DOMAIN made : ~(made[i].op = "connect" /\ made[i].detail = "inet")
=============================================================================
