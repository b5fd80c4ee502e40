---------------------------- MODULE FrameStream ----------------------------
(***************************************************************************)
(* The host-to-reader wire format: write_fileset_protocol on one side,     *)
(* read_frames on the other.                                               *)
(*                                                                         *)
(*   header  == magic version count                                        *)
(*   entry   == pathlen path bytelen bytes                                 *)
(*   trailer == magic                                                      *)
(*                                                                         *)
(* The widths are scaled down: every magic, version, count and length is   *)
(* one byte wide, and a byte is a number up to Top.  The reserved field,   *)
(* which the reader skips, is left out.  What is kept is that lengths are  *)
(* in-band: once the two sides disagree on a position, the reader takes    *)
(* any byte for a length, a path, a magic.                                 *)
(***************************************************************************)
EXTENDS Naturals, Sequences

CONSTANTS
  CountLimit,   \* MAX_ENTRIES
  PathLimit,    \* MAX_PATH_LEN
  EntryLimit    \* MAX_ENTRY_BYTES

ASSUME LimitsAssumption == {CountLimit, PathLimit, EntryLimit} \subseteq 1 .. 3

Header  == 5    \* "SECK"
Trailer == 4    \* "DONE"
Version == 1
Top     == 5
Byte    == 0 .. Top
Utf8    == Byte \ {Top}    \* the bytes a path may hold

\* An entry is what build_fileset hands over: a path, the size seen by stat,
\* and the bytes read afterwards, at most that many.
Framing(e) == <<Len(e.path)>> \o e.path \o <<e.size>>

Stream(entries) ==
  LET upTo[n \in 0 .. Len(entries)] ==
        IF n = 0 THEN <<Header, Version, Len(entries)>>
        ELSE upTo[n - 1] \o (Framing(entries[n]) \o entries[n].bytes)
  IN  Append(upTo[Len(entries)], Trailer)

-----------------------------------------------------------------------------
(* read_frames, one byte at a time: `want` is the field being read, `left` *)
(* the frames still to come, `part` what is already there of a path or of  *)
(* the content, `size` the length announced for it.                        *)

Start == [want |-> "magic", left |-> 0, size |-> 0, path |-> <<>>, part |-> <<>>,
          frames |-> <<>>]

Broken(p) == [p EXCEPT !.want = "error"]

\* The loop head: another frame, or the trailer.
NextFrameUncleared(p) == [p EXCEPT !.want = IF p.left = 0 THEN "trailer" ELSE "pathlen"]
NextFrame(p) == [p EXCEPT !.want = IF p.left = 0 THEN "trailer" ELSE "pathlen",
                          !.size = 0, !.path = <<>>, !.part = <<>>]

FrameDone(p) ==
  NextFrame([p EXCEPT !.frames = Append(@, [path |-> p.path, bytes |-> p.part]),
                      !.left = @ - 1])

\* vec![0; len] and read_exact: nothing is awaited for a length of zero.
PathDoneUnchecked(p) == [p EXCEPT !.want = "bytelen", !.path = p.part, !.part = <<>>]
PathDone(p) ==
  IF \A i \in DOMAIN p.part : p.part[i] \in Utf8
  THEN [p EXCEPT !.want = "bytelen", !.path = p.part, !.part = <<>>]
  ELSE Broken(p)
PathPart(p)  == IF Len(p.part) = p.size THEN PathDone(p) ELSE p
BytesPart(p) == IF Len(p.part) = p.size THEN FrameDone(p) ELSE p

\* A length field against its limit.
BelowLimit(len, limit)    == len < limit
OneAboveLimit(len, limit) == len <= limit + 1
WithinLimit(len, limit)   == len <= limit

Step(p, b) ==
  CASE p.want = "magic"   -> IF b = Header THEN [p EXCEPT !.want = "version"] ELSE Broken(p)
    [] p.want = "version" -> IF b = Version THEN [p EXCEPT !.want = "count"] ELSE Broken(p)
    [] p.want = "count"   -> IF WithinLimit(b, CountLimit) THEN NextFrame([p EXCEPT !.left = b])
                             ELSE Broken(p)
    [] p.want = "pathlen" -> IF WithinLimit(b, PathLimit)
                             THEN PathPart([p EXCEPT !.want = "path", !.size = b])
                             ELSE Broken(p)
    [] p.want = "path"    -> PathPart([p EXCEPT !.part = Append(@, b)])
    [] p.want = "bytelen" -> IF WithinLimit(b, EntryLimit)
                             THEN BytesPart([p EXCEPT !.want = "bytes", !.size = b])
                             ELSE Broken(p)
    [] p.want = "bytes"   -> BytesPart([p EXCEPT !.part = Append(@, b)])
    [] p.want = "trailer" -> IF b = Trailer THEN [p EXCEPT !.want = "done"] ELSE Broken(p)
    [] OTHER              -> p     \* done or error: what follows is not parsed

Parse(p, bytes) ==
  LET upTo[n \in 0 .. Len(bytes)] == IF n = 0 THEN p ELSE Step(upTo[n - 1], bytes[n])
  IN  upTo[Len(bytes)]
=============================================================================
