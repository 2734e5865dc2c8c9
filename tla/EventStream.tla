----------------------------- MODULE EventStream -----------------------------
(***************************************************************************)
(* How the clients read a stream of server-sent events: the body arrives   *)
(* in chunks that end anywhere; each chunk is appended to a buffer, the    *)
(* frames that an empty line ends are cut off it and parsed, and what is   *)
(* left when the body ends is parsed too.  sendChatStream of the web       *)
(* client and readSseStream of the terminal client differ in what they     *)
(* make of a frame that is no JSON.                                        *)
(*                                                                         *)
(* A line of a frame is one symbol, tagged with the frame it is of.        *)
(***************************************************************************)
EXTENDS EventBudget, Sequences, SequencesExt

CONSTANTS
    Shapes,     \* the frames a body may consist of: sequences of kinds of lines
    MaxFrames   \* how many at most

Data == {"json", "junk"}
LineKinds == Data \union {"event", "comment"}

\* A frame has some line, and the server writes its data on one.
ASSUME EventStreamAssumption ==
    /\ MaxFrames \in Nat
    /\ Shapes \subseteq Seq(LineKinds) \ {<<>>}
    /\ \A s \in Shapes : \A i, j \in DOMAIN s : {s[i], s[j]} \subseteq Data => i = j

VARIABLES
    reader,   \* "web" or "terminal"
    frames,   \* what the server has sent
    eol,      \* how it ends lines
    length,   \* of the body
    body,     \* what has not been read yet
    buffer,   \* what was read and not parsed yet
    events,   \* what was handed to onEvent
    reading   \* "on", "ended" or "broken"

frameVars == <<reader, frames, eol, length, body, buffer, events, reading>>

Line(n, kind) == [of |-> n, kind |-> kind]
Cr == Line(0, "cr")
Lf == Line(0, "lf")
Eols == {<<Lf>>, <<Cr, Lf>>}

\* A frame as it is sent: its lines, and an empty one.
Sent(n) == FlattenSeq([k \in DOMAIN frames[n] |-> <<Line(n, frames[n][k])>> \o eol]) \o eol
Body == FlattenSeq([n \in DOMAIN frames |-> Sent(n)])

\* The body may end anywhere, also in the middle of a line.
Cuts(s) == {SubSeq(s, 1, k) : k \in 0 .. Len(s)}
           \union {Append(SubSeq(s, 1, k - 1), [s[k] EXCEPT !.kind = "junk"]) :
                     k \in {i \in DOMAIN s : s[i].kind = "json"}}

FrameInit ==
    /\ reader \in {"web", "terminal"}
    /\ frames \in BoundedSeq(Shapes, MaxFrames) /\ eol \in Eols
    /\ body \in Cuts(Body) /\ length = Len(body)
    /\ buffer = <<>> /\ events = <<>> /\ reading = "on"

----------------------------------------------------------------------------

\* MUTANT: buffer.split("\n\n").
BeginsUnix(b, k) == IF b[k] = Lf /\ k > 1 /\ b[k - 1] = Lf THEN k - 1 ELSE 0
\* buffer.split(/\r?\n\r?\n/): the ends of the empty lines, and where each begins.
Begins(b, k) ==
    LET back(i) == IF i > 1 /\ b[i - 1] = Cr THEN i - 1 ELSE i
        last == back(k)
    IN  IF b[k] = Lf /\ last > 1 /\ b[last - 1] = Lf THEN back(last - 1) ELSE 0

\* One step along b: the empty line that ends at k is cut out, unless a part of it was before.
CutAt(b, acc, k) ==
    IF Begins(b, k) < acc.from THEN acc
    ELSE [blocks |-> Append(acc.blocks, SubSeq(b, acc.from, Begins(b, k) - 1)), from |-> k + 1]
Split(b) ==
    LET cut[k \in 0 .. Len(b)] ==
            IF k = 0 THEN [blocks |-> <<>>, from |-> 1] ELSE CutAt(b, cut[k - 1], k)
    IN  Append(cut[Len(b)].blocks, SubSeq(b, cut[Len(b)].from, Len(b)))

\* parseSseBlock: a frame without data is none; one that does not parse is dropped by the
\* web client, and handed on as malformed by the terminal client.
ParseSseBlock(block) ==
    LET data == {i \in DOMAIN block : block[i].kind \in Data}
        first == CHOOSE i \in data : \A j \in data : i <= j
        parses == data = {first} /\ block[first].kind = "json"
    IN  IF data = {} \/ (~parses /\ reader = "web") THEN <<>>
        ELSE <<[of |-> block[first].of, malformed |-> ~parses]>>

Parsed(blocks) == FlattenSeq([i \in DOMAIN blocks |-> ParseSseBlock(blocks[i])])

\* reader.read() brings a chunk; the last block stays in the buffer.
ReadChunk(n) ==
    /\ reading = "on" /\ n \in 1 .. Len(body)
    /\ LET blocks == Split(buffer \o SubSeq(body, 1, n)) IN
        /\ buffer' = Last(blocks)
        /\ events' = events \o Parsed(Front(blocks))
    /\ body' = SubSeq(body, n + 1, Len(body))
    /\ UNCHANGED <<reader, frames, eol, length, reading, left>>

\* done: the tail is parsed.
BodyEnds ==
    /\ reading = "on" /\ body = <<>>
    /\ events' = events \o ParseSseBlock(buffer)
    /\ reading' = "ended"
    /\ UNCHANGED <<reader, frames, eol, length, body, buffer, left>>

\* read() rejects: the tail is not parsed.
BodyBreaks ==
    /\ reading = "on" /\ Left("breaks") /\ Spend("breaks")
    /\ reading' = "broken"
    /\ UNCHANGED <<reader, frames, eol, length, body, buffer, events>>

\* The terminal client aborts between two reads: the loop sees the signal, and parses what it
\* has as though it were the tail.  (An abort during a read makes it reject.  A chunk that
\* ended within a line is one of a body that ends there.)
ReaderStops ==
    /\ reader = "terminal" /\ reading = "on" /\ Left("breaks") /\ Spend("breaks")
    /\ events' = events \o ParseSseBlock(buffer)
    /\ reading' = "ended"
    /\ UNCHANGED <<reader, frames, eol, length, body, buffer>>

FrameNext == (\E n \in 1 .. Len(body) : ReadChunk(n)) \/ BodyEnds \/ BodyBreaks \/ ReaderStops

----------------------------------------------------------------------------
(* Properties. *)

FrameTypeOK ==
    /\ reader \in {"web", "terminal"} /\ reading \in {"on", "ended", "broken"} /\ eol \in Eols
    /\ \A i \in DOMAIN events : events[i].of \in DOMAIN frames /\ events[i].malformed \in BOOLEAN

\* What the first n frames take of the body, and what frame n is due to be handed on as.
Reach(n) == Len(FlattenSeq([i \in 1 .. n |-> Sent(i)]))
Due(n) ==
    LET junk == "json" \notin Range(frames[n]) IN
    IF Range(frames[n]) \cap Data = {} \/ (junk /\ reader = "web") THEN <<>>
    ELSE <<[of |-> n, malformed |-> junk]>>

\* Wherever the chunks end, and however lines do: each frame that was read to its empty line
\* is handed on once and in its order; one that the body ends in the middle of, at most once
\* and only when the reader saw the body end, or stopped by itself there.
FramesAreWhole ==
    LET whole == Cardinality({n \in DOMAIN frames : Reach(n) <= length - Len(body)})
        due == FlattenSeq([n \in 1 .. whole |-> Due(n)])
    IN  /\ IsPrefix(due, events)
        /\ events # due => /\ reading = "ended" /\ Len(events) = Len(due) + 1
                          /\ Last(events).of = whole + 1
=============================================================================
