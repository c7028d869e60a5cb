---------------------------- MODULE ChildOutput ----------------------------
(***************************************************************************)
(* What the server reads of the processes it runs: the output of a native  *)
(* command, and the lines that the quick tunnel announces itself by.       *)
(***************************************************************************)
EXTENDS Naturals, Sequences, SequencesExt

(***************************************************************************)
(* One output stream of a native command: the reader thread appends what   *)
(* the child writes, pollers take what is new since the last poll, and a   *)
(* pager walks the stream by offsets with read_output. A byte is its       *)
(* offset in the stream, so what is delivered can be compared with what was*)
(* written. The child writes UTF-8, but the buffers are cut at any byte and*)
(* every answer is decoded by itself, so a character that an edge of an    *)
(* answer cuts is not delivered. The stream mutex makes each operation one *)
(* step.                                                                   *)
(***************************************************************************)
CONSTANTS
    BufferLimit,   \* buffer_bytes of the manager
    HeadLimit,     \* the share of it that keeps the first bytes
    StreamEnd,     \* bound on the bytes a child writes
    PreviewLimit,  \* max_output_bytes of a poll
    CharWidth,     \* the bytes of the character that begins at an offset, 0 inside of one
    RefusedSecond  \* first bytes with the bytes that cannot come second after them

ASSUME StreamSizes ==
    /\ {BufferLimit, HeadLimit, StreamEnd, PreviewLimit} \subseteq Nat
    /\ HeadLimit < BufferLimit /\ PreviewLimit > 0

(* The child writes characters of at most four bytes, one after another.   *)
ASSUME WritesUtf8 ==
    /\ CharWidth \in [0..(StreamEnd - 1) -> 0..4]
    /\ \A p \in 0..(StreamEnd - 1) :
        /\ p + CharWidth[p] <= StreamEnd
        /\ \A o \in (p + 1)..(p + CharWidth[p] - 1) : CharWidth[o] = 0
        /\ \E q \in 0..p : p < q + CharWidth[q]
        /\ <<p, p + 1>> \notin RefusedSecond

VARIABLES
    head, tail,      \* retained bytes of the command's buffer
    startOffset,     \* offset of the first byte of the tail
    total,           \* bytes written so far
    cursor,          \* what polls have taken
    polled,          \* the answer to the last poll, with the cursor it started from
    page,            \* the answer to the last read_output
    paged,           \* what became of the bytes behind the pager, and where its pages end
    captured         \* a BoundedCapture fed with the same chunks

streamVars == <<head, tail, startOffset, total, cursor, polled, page, paged, captured>>

Minimum(a, b) == IF a < b THEN a ELSE b
Saturating(a, b) == IF a > b THEN a - b ELSE 0
FirstOf(s, n) == SubSeq(s, 1, Minimum(n, Len(s)))
LastBytes(s, n) == SubSeq(s, Saturating(Len(s), n) + 1, Len(s))
Bytes(from, to) == [i \in 1..Saturating(to, from) |-> from + i - 1]

-----------------------------------------------------------------------------
(* String::from_utf8_lossy. A first byte takes the continuation bytes      *)
(* behind it, whoever wrote them, as many as its character has; when some  *)
(* are lacking, U+FFFD stands for what it took, and for each continuation  *)
(* byte that nothing takes. A text is a function on the places, in the     *)
(* bytes decoded, where its characters begin; U+FFFD means no byte.        *)
Replaced == <<>>

Takes(s, l, j) ==
    /\ l < j /\ j <= Minimum(l + CharWidth[s[l]] - 1, Len(s))
    /\ \A k \in (l + 1)..j : CharWidth[s[k]] = 0
    /\ <<s[l], s[l + 1]>> \notin RefusedSecond

TextPlaces(s) == {i \in DOMAIN s : \A l \in 1..(i - 1) : ~Takes(s, l, i)}

Decodes(s, i) ==
    LET w == CharWidth[s[i]] IN w = 1 \/ (w > 1 /\ Takes(s, i, i + w - 1))

Lossy(s) ==
    [i \in TextPlaces(s) |->
        IF Decodes(s, i) THEN SubSeq(s, i, i + CharWidth[s[i]] - 1) ELSE Replaced]

-----------------------------------------------------------------------------
NoPage == [asked |-> 0, actual |-> 0, text |-> Lossy(<<>>), next |-> 0]

StreamInit ==
    /\ head = <<>> /\ tail = <<>> /\ startOffset = 0 /\ total = 0 /\ cursor = 0
    /\ polled = [from |-> 0, first |-> 0, text |-> Lossy(<<>>), omitted |-> 0, truncated |-> FALSE]
    /\ page = NoPage
    /\ paged = [got |-> {}, spoiled |-> {}, missed |-> {}, edges |-> {0}]
    /\ captured = [head |-> <<>>, tail |-> <<>>]

(* BoundedCapture::append: what the head takes is not in the tail.         *)
CaptureAppend(chunk) ==
    LET take == Minimum(Saturating(HeadLimit, Len(captured.head)), Len(chunk))
    IN [head |-> captured.head \o FirstOf(chunk, take),
        tail |-> LastBytes(captured.tail \o SubSeq(chunk, take + 1, Len(chunk)), BufferLimit - HeadLimit)]

(* BoundedCapture::payload: head and tail are decoded as one text.         *)
Captured == captured.head \o captured.tail
Payload == Lossy(Captured)

(* StreamBuffer::append: the head is filled first, the tail has every byte *)
(* until it overflows.                                                     *)
AppendChunk(n) ==
    LET chunk == Bytes(total, total + n)
        full  == tail \o chunk
        limit == BufferLimit - HeadLimit
    IN /\ n \in 1..(StreamEnd - total)
       /\ head' = head \o FirstOf(chunk, Saturating(HeadLimit, Len(head)))
       /\ tail' = LastBytes(full, limit)
       /\ total' = total + n
       /\ startOffset' = IF Len(full) > limit THEN total' - Len(tail') ELSE startOffset
       /\ captured' = CaptureAppend(chunk)
       /\ UNCHANGED <<cursor, polled, page, paged>>

(* take_since_cursor, and tail_text of the poll's answer. "first" is where *)
(* the bytes of the answer begin; it is not part of it.                    *)
TakeSinceCursor ==
    LET fresh == SubSeq(tail, Saturating(cursor, startOffset) + 1, Len(tail))
        shown == LastBytes(fresh, PreviewLimit)
    IN /\ polled' = [from |-> cursor,
                     first |-> total - Len(shown),
                     text |-> Lossy(shown),
                     truncated |-> Len(fresh) > PreviewLimit,
                     omitted |-> Saturating(startOffset, cursor)]
       /\ cursor' = total
       /\ UNCHANGED <<head, tail, startOffset, total, page, paged, captured>>

ChunkFromHead(offset, limit) ==
    IF offset < Len(head)
    THEN [actual |-> offset, bytes |-> SubSeq(head, offset + 1, Minimum(Len(head), offset + limit))]
    ELSE LET actual == IF offset >= startOffset THEN offset ELSE startOffset
         IN [actual |-> actual,
             bytes |-> FirstOf(SubSeq(tail, Saturating(actual, Len(head)) + 1, Len(tail)), limit)]

(* The chunk read_output finds at an offset: in the tail, in the head when *)
(* the tail has lost it, else the oldest of the tail.                      *)
ChunkAt(offset, limit) ==
    IF offset < startOffset /\ offset < Len(head)
    THEN [actual |-> offset, bytes |-> SubSeq(head, offset + 1, Minimum(Len(head), offset + limit))]
    ELSE LET actual == IF offset >= startOffset THEN offset ELSE startOffset
         IN [actual |-> actual,
             bytes |-> FirstOf(SubSeq(tail, actual - startOffset + 1, Len(tail)), limit)]

(* read_output, called again at the offset it names; with no more to read, *)
(* next_offset is null and the pager waits where it is. The offsets count  *)
(* bytes; the pager has those of the characters it can read.               *)
ReadOutput(limit) ==
    LET c    == ChunkAt(page.next, limit)
        end  == c.actual + Len(c.bytes)
        text == Lossy(c.bytes)
        read == UNION {ToSet(text[i]) : i \in DOMAIN text}
    IN /\ page.next < total
       /\ page' = [asked |-> page.next, actual |-> c.actual, text |-> text, next |-> end]
       /\ paged' = [got     |-> paged.got \cup read,
                    spoiled |-> paged.spoiled \cup (ToSet(c.bytes) \ read),
                    missed  |-> paged.missed \cup page.next..(c.actual - 1),
                    edges   |-> paged.edges \cup {c.actual, end}]
       /\ UNCHANGED <<head, tail, startOffset, total, cursor, polled, captured>>

StreamNext ==
    \/ \E n \in 1..3 : AppendChunk(n)
    \/ TakeSinceCursor
    \/ \E limit \in 1..3 : ReadOutput(limit)

StreamSpec == StreamInit /\ [][StreamNext]_streamVars

-----------------------------------------------------------------------------
(* The character a byte belongs to begins at:                              *)
BeginOf(o) == CHOOSE p \in 0..o : o < p + CharWidth[p]

CharFrom(p) == Bytes(p, p + CharWidth[p])
WholeIn(p, a, b) == CharWidth[p] > 0 /\ a <= p /\ p + CharWidth[p] <= b

(* What a reader can see of the bytes from a up to b: every character that *)
(* lies there, in its place, one U+FFFD for a character whose end is cut   *)
(* off and one for each byte left of a character whose beginning is.       *)
ShownText(a, b) ==
    [i \in {k \in 1..Saturating(b, a) : CharWidth[a + k - 1] > 0 \/ BeginOf(a + k - 1) < a} |->
        IF WholeIn(a + i - 1, a, b) THEN CharFrom(a + i - 1) ELSE Replaced]

CutBy(o, edges) == LET p == BeginOf(o) IN \E e \in edges : p < e /\ e < p + CharWidth[p]

(* A poll shows the last of the bytes written since the poll before it, in *)
(* order and once; what is missing in front of them is announced as omitted*)
(* or as truncated. What it does not announce is a character that one of   *)
(* its two edges cuts: it is replaced, in this answer and in the other.    *)
PollsAccount ==
    /\ polled.text = ShownText(polled.first, cursor)
    /\ cursor - polled.first <= PreviewLimit
    /\ polled.truncated \/ polled.from + polled.omitted = polled.first
    /\ cursor <= total

(* A pager that follows next_offset while the child writes never waits     *)
(* before the end, is told exactly which bytes it missed, and can read each*)
(* of the others at its own offset and once, except those of a character   *)
(* that an edge of one of its pages cuts: they are replaced, and no others.*)
PagerExact ==
    /\ page.text = ShownText(page.actual, page.next)
    /\ paged.got \cup paged.spoiled \cup paged.missed = 0..(page.next - 1)
    /\ paged.missed \cap (paged.got \cup paged.spoiled) = {}
    /\ paged.got = {o \in 0..(page.next - 1) \ paged.missed : ~CutBy(o, paged.edges)}
    /\ paged.spoiled = {o \in 0..(page.next - 1) \ paged.missed : CutBy(o, paged.edges)}
    /\ page.next > 0 => page.next > page.asked

(* The capture of a command shows everything as long as it fits, and from  *)
(* then on the characters of its first bytes and of its last, each in its  *)
(* place; all else is replaced, but that a character cut off by the end of *)
(* the head may be completed by what is left of another in the tail.       *)
CaptureExact ==
    LET text == Payload
        t == total - (BufferLimit - HeadLimit)
        place(o) == IF o < HeadLimit THEN o + 1 ELSE HeadLimit + o - t + 1
        whole == {o \in 0..(HeadLimit - 1) : WholeIn(o, 0, HeadLimit)}
                    \cup {o \in t..(total - 1) : WholeIn(o, t, total)}
    IN IF total <= BufferLimit
       THEN text = ShownText(0, total)
       ELSE /\ Captured = Bytes(0, HeadLimit) \o Bytes(t, total)
            /\ \A o \in whole : place(o) \in DOMAIN text /\ text[place(o)] = CharFrom(o)
            /\ \A i \in DOMAIN text :
                \/ text[i] = Replaced
                \/ \E o \in whole : i = place(o)
                \/ /\ i <= HeadLimit /\ HeadLimit < i - 1 + CharWidth[i - 1]
                   /\ CharWidth[t] = 0

(* No reader of a command's output is shown a character twice or out of its*)
(* place, or lacks one that is neither announced as missing nor cut by an  *)
(* edge of what it was given (OutputBuffer, CaptureBuffer).                *)
OutputExact ==
    /\ PollsAccount
    /\ PagerExact
    /\ CaptureExact

-----------------------------------------------------------------------------
(***************************************************************************)
(* The quick tunnel beside the gateway: its owner starts and closes it, a  *)
(* reader thread turns the lines of cloudflared into events, and the child *)
(* may exit at any moment or ignore SIGTERM. The events go to one sink.    *)
(***************************************************************************)
CONSTANTS
    TunnelOrigins,   \* the public origins a log line may name
    MaxLines,        \* bound on the lines cloudflared writes
    MaxStarts        \* bound on the calls of start

ASSUME TunnelBounds == {MaxLines, MaxStarts} \subseteq Nat

VARIABLES
    events,      \* the states given to the sink, in order
    tunnelChild, \* the cloudflared process
    lines,       \* lines read from it and not yet looked at
    logged,      \* whether one of its two log readers still reads
    written,     \* lines written so far
    starts,      \* calls of start so far
    stopping,    \* the flag the owner and the reader share
    tunnelOwner, \* where the owner is
    reader       \* where the reader is, and the origin it published

tunnelVars == <<events, tunnelChild, lines, logged, written, starts, stopping, tunnelOwner, reader>>

TunnelInit ==
    /\ events = <<>> /\ lines = <<>> /\ written = 0 /\ starts = 0
    /\ tunnelChild = [proc |-> "none", doomed |-> FALSE, stubborn |-> FALSE]
    /\ stopping = FALSE /\ logged = FALSE
    /\ tunnelOwner = "idle"
    /\ reader = [pc |-> "none", published |-> "none"]

Emit(e) == events' = Append(events, e)
TunnelRuns == tunnelChild.proc = "running"

-----------------------------------------------------------------------------
(* start, once per child: cloudflared may be missing or fail to spawn.     *)
StartTunnel(stubborn) ==
    /\ tunnelOwner = "idle" /\ starts < MaxStarts /\ starts' = starts + 1
    /\ tunnelChild.proc = "none" /\ ~stopping
    /\ tunnelChild' = [proc |-> "running", doomed |-> FALSE, stubborn |-> stubborn]
    /\ Emit("starting")
    /\ reader' = [pc |-> "receive", published |-> "none"] /\ logged' = TRUE
    /\ UNCHANGED <<lines, written, stopping, tunnelOwner>>

StartUnavailable ==
    /\ tunnelOwner = "idle" /\ starts < MaxStarts /\ starts' = starts + 1
    /\ tunnelChild.proc = "none" /\ ~stopping
    /\ Emit("unavailable")
    /\ UNCHANGED <<tunnelChild, lines, logged, written, stopping, tunnelOwner, reader>>

(* The child: it writes lines, exits by itself or dies of a signal.        *)
WriteLine(o) ==
    /\ TunnelRuns /\ logged /\ written < MaxLines
    /\ lines' = Append(lines, o) /\ written' = written + 1
    /\ UNCHANGED <<events, tunnelChild, logged, starts, stopping, tunnelOwner, reader>>

(* Both log readers end while it runs: it closed its output, or wrote lines*)
(* that they cannot read (not UTF-8) or cut (in a character, a panic).     *)
LogEnds ==
    /\ TunnelRuns /\ logged
    /\ logged' = FALSE
    /\ UNCHANGED <<events, tunnelChild, lines, written, starts, stopping, tunnelOwner, reader>>

TunnelExits ==
    /\ TunnelRuns
    /\ tunnelChild' = [tunnelChild EXCEPT !.proc = "exited"]
    /\ UNCHANGED <<events, lines, logged, written, starts, stopping, tunnelOwner, reader>>

(* The reader: a line, or 100 ms without one, then a look at the child.    *)
(* When all lines are read and none can come the channel is disconnected,  *)
(* be the child dead or not.                                               *)
Receive ==
    /\ reader.pc = "receive" /\ ~stopping
    /\ IF lines = <<>>
       THEN UNCHANGED <<events, lines>> /\ reader' = [reader EXCEPT !.pc = IF logged THEN "look" ELSE "last"]
       ELSE /\ lines' = Tail(lines)
            /\ IF Head(lines) \in {"none", reader.published}
               THEN UNCHANGED events /\ reader' = [reader EXCEPT !.pc = "look"]
               ELSE Emit("connected") /\ reader' = [pc |-> "look", published |-> Head(lines)]
    /\ UNCHANGED <<tunnelChild, logged, written, starts, stopping, tunnelOwner>>

LookAtChild ==
    /\ reader.pc = "look"
    /\ reader' = [reader EXCEPT !.pc = IF TunnelRuns THEN "receive" ELSE "last"]
    /\ UNCHANGED <<events, tunnelChild, lines, logged, written, starts, stopping, tunnelOwner>>

(* The loop ends with the flag; the flag is read once more before the end  *)
(* of the child is reported.                                               *)
Leave ==
    /\ reader.pc \in {"receive", "last"} /\ stopping
    /\ reader' = [reader EXCEPT !.pc = "joinable"]
    /\ UNCHANGED <<events, tunnelChild, lines, logged, written, starts, stopping, tunnelOwner>>

LeaveLast ==
    /\ reader.pc = "last" /\ ~stopping
    /\ reader' = [reader EXCEPT !.pc = "report"]
    /\ UNCHANGED <<events, tunnelChild, lines, logged, written, starts, stopping, tunnelOwner>>

ReportExit ==
    /\ reader.pc = "report"
    /\ Emit(IF reader.published = "none" THEN "unavailable" ELSE "disconnected")
    /\ reader' = [reader EXCEPT !.pc = "joinable"]
    /\ UNCHANGED <<tunnelChild, lines, logged, written, starts, stopping, tunnelOwner>>

-----------------------------------------------------------------------------
(* close: the flag, SIGTERM, after 1.5 s SIGKILL, then the reader is       *)
(* joined and the tunnel is closed for good.                               *)
CloseTunnel ==
    /\ tunnelOwner = "idle"
    /\ stopping' = TRUE
    /\ tunnelOwner' = IF TunnelRuns THEN "term" ELSE "join"
    /\ UNCHANGED <<events, tunnelChild, lines, logged, written, starts, reader>>

SendTerm ==
    /\ tunnelOwner = "term"
    /\ tunnelChild' = [tunnelChild EXCEPT !.doomed = @ \/ ~tunnelChild.stubborn]
    /\ tunnelOwner' = "wait"
    /\ UNCHANGED <<events, lines, logged, written, starts, stopping, reader>>

SendKill ==
    /\ tunnelOwner = "wait"
    /\ IF TunnelRuns THEN tunnelChild' = [tunnelChild EXCEPT !.doomed = TRUE] ELSE UNCHANGED tunnelChild
    /\ tunnelOwner' = "join"
    /\ UNCHANGED <<events, lines, logged, written, starts, stopping, reader>>

CloseWithoutJoin ==
    /\ tunnelOwner = "join"
    /\ tunnelOwner' = "closed"
    /\ Emit("closed")
    /\ UNCHANGED <<tunnelChild, lines, logged, written, starts, stopping, reader>>

JoinReader ==
    /\ tunnelOwner = "join" /\ reader.pc \in {"none", "joinable"}
    /\ tunnelOwner' = "closed"
    /\ Emit("closed")
    /\ UNCHANGED <<tunnelChild, lines, logged, written, starts, stopping, reader>>

TunnelNext ==
    \/ (\E stubborn \in BOOLEAN : StartTunnel(stubborn)) \/ StartUnavailable
    \/ (\E o \in TunnelOrigins \cup {"none"} : WriteLine(o)) \/ LogEnds \/ TunnelExits
    \/ Receive \/ LookAtChild \/ Leave \/ LeaveLast \/ ReportExit
    \/ CloseTunnel \/ SendTerm \/ SendKill \/ JoinReader

TunnelSpec == TunnelInit /\ [][TunnelNext]_tunnelVars

-----------------------------------------------------------------------------
(* The sink hears "closed" last and once, however the close meets a line   *)
(* on its way, the end of the child or a failed start; a connection is     *)
(* announced only between its start and its end, and its end once.         *)
TunnelEventsOrdered ==
    /\ \A i, j \in DOMAIN events : events[i] = "closed" => j <= i
    /\ \A i \in DOMAIN events :
        events[i] \in {"connected", "disconnected"} =>
            i > 1 /\ events[i-1] \in {"starting", "connected"}
    /\ \A i \in DOMAIN events : events[i] = "disconnected" => events[i-1] = "connected"
=============================================================================
