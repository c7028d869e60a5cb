--------------------------- MODULE WorkspaceReads ---------------------------
(***************************************************************************)
(* What is read of the workspace.                                          *)
(*                                                                         *)
(* The pages of read_file and git_blame: a caller follows the continuation *)
(* of each page to the next one while others write to the file. A page of  *)
(* read_file may end inside a line, at a character; its continuation names *)
(* the content it belongs to.                                              *)
(*                                                                         *)
(* list_dir, list_files and search_text: one walk over the directories of  *)
(* the workspace, entry by entry in the order of the names, while others   *)
(* remove, create and replace files. A search first lists the files, then  *)
(* reads them one after the other.                                         *)
(***************************************************************************)
EXTENDS Naturals, Sequences, SequencesExt, FiniteSets

CONSTANTS
    MaxChars,       \* bound on the characters of the file
    MaxPageBytes,   \* bound on the bytes of a page
    MaxTextWrites,  \* bound on what others write
    SearchCap,      \* the most files a search looks into
    MaxTreeChanges  \* bound on what others change

ASSUME ReadSizes == SearchCap \in Nat

VARIABLES
    text,     \* the file: characters of one or two bytes and line ends
    writes,   \* how often others wrote
    reader,   \* the caller and its call
    tree,     \* what each path is
    walk      \* the call

readVars == <<text, writes, reader>>

Chars == {"x", "w", "newline"}
Texts == UNION {[1..n -> Chars] : n \in 0..MaxChars}
NoText == <<"none">>
NoEnd == 0

(* ReadRequest, with the content the caller expects.                       *)
ReadRequest(start, end, lines, bytes, offset, expected) ==
    [start |-> start, end |-> end, lines |-> lines, bytes |-> bytes, offset |-> offset, expected |-> expected]

Requests ==
    {ReadRequest(s, e, l, b, o, NoText) :
        s \in 1..2, e \in {NoEnd, 2}, l \in 1..2, b \in 1..MaxPageBytes, o \in 0..1}

ReadInit ==
    /\ text \in Texts
    /\ writes = 0
    /\ reader = [pc |-> "idle"]

-----------------------------------------------------------------------------
(* A character is one byte, or two.                                        *)
Bytes(s) == Len(s) + Cardinality({i \in DOMAIN s : s[i] = "w"})

(* split_inclusive: a line keeps its end, nothing follows the last end.    *)
AddToLines(ls, c) ==
    IF ls = <<>> \/ Last(Last(ls)) = "newline" THEN Append(ls, <<c>>)
    ELSE Append(Front(ls), Append(Last(ls), c))

Lines(t) ==
    LET lines[n \in 0 .. Len(t)] == IF n = 0 THEN <<>> ELSE AddToLines(lines[n - 1], t[n])
    IN  lines[Len(t)]

(* The most characters that fit, and what follows them.                    *)
FitsIn(s, bytes) == SubSeq(s, 1, Cardinality({n \in DOMAIN s : Bytes(SubSeq(s, 1, n)) <= bytes}))
After(s, part) == SubSeq(s, Len(part) + 1, Len(s))
IsBoundary(s, bytes) == Bytes(FitsIn(s, bytes)) = bytes

Limit(t, end) == IF end = NoEnd \/ end > Len(Lines(t)) THEN Len(Lines(t)) ELSE end

(* One line of a page: all of what is left of it, what fits, or nothing    *)
(* when the page is full. A first character that does not fit is an error. *)
TakeLine(t, r, page) ==
    IF page.stop \/ page.index >= Limit(t, r.end) THEN page
    ELSE LET line == Lines(t)[page.index + 1]
             rest == After(line, FitsIn(line, page.offset))
             part == FitsIn(rest, r.bytes - Bytes(page.got))
         IN IF page.offset >= Bytes(line) \/ ~IsBoundary(line, page.offset)
            THEN [page EXCEPT !.stop = TRUE, !.error = "offset"]
            ELSE IF part = <<>>
            THEN [page EXCEPT !.stop = TRUE, !.error = IF page.got = <<>> THEN "small" ELSE @]
            ELSE IF part # rest
            THEN [page EXCEPT !.stop = TRUE, !.got = @ \o part, !.offset = @ + Bytes(part)]
            ELSE [page EXCEPT !.got = @ \o part, !.index = @ + 1, !.offset = 0]

(* The page of request r in content t, and where the next one starts.      *)
FirstOfPage(t, r) ==
    [index |-> r.start - 1, offset |-> r.offset, got |-> <<>>, stop |-> FALSE,
     error |-> IF r.start > Len(Lines(t)) /\ r.offset # 0 THEN "offset" ELSE "none"]

Page(t, r) ==
    LET page[n \in 0 .. r.lines] == IF n = 0 THEN FirstOfPage(t, r) ELSE TakeLine(t, r, page[n - 1])
    IN  page[r.lines]

Truncated(t, r) == Page(t, r).index < Limit(t, r.end)

-----------------------------------------------------------------------------
Reading(pc, r) == reader' = [reader EXCEPT !.pc = pc, !.request = r]
ReadEnds(outcome) == reader' = [reader EXCEPT !.pc = outcome]

AskRead(r) ==
    /\ reader.pc = "idle"
    /\ reader' = [pc |-> "look", request |-> r, asked |-> r, print |-> writes, loaded |-> <<>>,
                  got |-> <<>>, from |-> NoText, since |-> writes, contents |-> {text}]
    /\ UNCHANGED <<text, writes>>

(* The print of the file is taken before it is read.                       *)
Look ==
    /\ reader.pc = "look"
    /\ reader' = [reader EXCEPT !.pc = "load", !.print = writes]
    /\ UNCHANGED <<text, writes>>

(* The file is read in two parts: others may write between them.           *)
Half == Len(text) \div 2
LoadPart ==
    /\ reader.pc = "load"
    /\ reader' = [reader EXCEPT !.pc = "rest", !.loaded = SubSeq(text, 1, Half)]
    /\ UNCHANGED <<text, writes>>

LoadRest ==
    /\ reader.pc = "rest"
    /\ reader' = [reader EXCEPT !.pc = "check", !.loaded = @ \o SubSeq(text, Len(@) + 1, Len(text))]
    /\ UNCHANGED <<text, writes>>

GivePageUnbound ==
    LET t == reader.loaded  r == reader.request
        page == Page(t, r)
        next == [r EXCEPT !.start = page.index + 1, !.offset = page.offset]
    IN /\ reader.pc = "check"
       /\ IF reader.print # writes \/ r.expected \notin {NoText, t} THEN ReadEnds("changed")
          ELSE IF page.error # "none" THEN ReadEnds(page.error)
          ELSE reader' = [reader EXCEPT !.pc = IF Truncated(t, r) THEN "look" ELSE "read",
                          !.request = next, !.from = t, !.got = @ \o page.got]
       /\ UNCHANGED <<text, writes>>

(* A content that was written to meanwhile, or that is not the expected    *)
(* one, is refused. The continuation keeps the limits of the request.      *)
GivePage ==
    LET t == reader.loaded  r == reader.request
        page == Page(t, r)
        next == [r EXCEPT !.start = page.index + 1, !.offset = page.offset, !.expected = t]
    IN /\ reader.pc = "check"
       /\ IF reader.print # writes \/ r.expected \notin {NoText, t} THEN ReadEnds("changed")
          ELSE IF page.error # "none" THEN ReadEnds(page.error)
          ELSE reader' = [reader EXCEPT !.pc = IF Truncated(t, r) THEN "look" ELSE "read",
                          !.request = next, !.from = t, !.got = @ \o page.got]
       /\ UNCHANGED <<text, writes>>

-----------------------------------------------------------------------------
(* git_blame: the lines are counted, then git is asked for a window. The   *)
(* continuation keeps the last line, and is not bound to the content.      *)
AskBlame(start, end, lines) ==
    LET r == ReadRequest(start, end, lines, 1, 0, NoText)
    IN /\ reader.pc = "idle"
       /\ reader' = [pc |-> "count", request |-> r, asked |-> r, print |-> writes, loaded |-> <<>>,
                     got |-> <<>>, from |-> NoText, since |-> writes, contents |-> {text}]
       /\ UNCHANGED <<text, writes>>

CountLines ==
    LET r == reader.request  last == Limit(text, r.end)
    IN /\ reader.pc = "count"
       /\ IF r.start > last THEN ReadEnds("blamed") ELSE Reading("blame", [r EXCEPT !.end = last])
       /\ UNCHANGED <<text, writes>>

FinalLine(r) == IF r.start + r.lines - 1 < r.end THEN r.start + r.lines - 1 ELSE r.end

(* git refuses a window past the last line of the file.                    *)
Blame ==
    LET r == reader.request  final == FinalLine(r)
    IN /\ reader.pc = "blame"
       /\ IF final > Len(Lines(text)) THEN ReadEnds("failed")
          ELSE reader' = [reader EXCEPT !.pc = IF r.end > final THEN "count" ELSE "blamed",
                          !.got = @ \o SubSeq(Lines(text), r.start, final),
                          !.request.start = final + 1]
       /\ UNCHANGED <<text, writes>>

(* Others append to the file, cut it or replace it.                        *)
OthersWrite(t) ==
    /\ reader.pc \in {"look", "load", "rest", "check", "count", "blame"}
    /\ writes < MaxTextWrites /\ t # text
    /\ text' = t /\ writes' = writes + 1
    /\ reader' = [reader EXCEPT !.contents = @ \cup {t}]

ReadNext ==
    \/ \E r \in Requests : AskRead(r)
    \/ Look \/ LoadPart \/ LoadRest \/ GivePage
    \/ \E start \in 1..2, end \in {NoEnd, 2}, lines \in 1..2 : AskBlame(start, end, lines)
    \/ CountLines \/ Blame
    \/ \E t \in {<<"x">> \o text, Tail(text \o <<"x">>), <<"w", "newline">>} : OthersWrite(t)

ReadSpec == ReadInit /\ [][ReadNext]_readVars

-----------------------------------------------------------------------------
(* What a request asks of content t, whatever the pages.                   *)
AskedRange(t, r) ==
    LET first == IF r.start > Len(Lines(t)) THEN <<>>
                 ELSE After(Lines(t)[r.start], FitsIn(Lines(t)[r.start], r.offset))
        rest == SubSeq(Lines(t), r.start + 1, Limit(t, r.end))
    IN IF r.start > Limit(t, r.end) THEN <<>> ELSE first \o FlattenSeq(rest)

(* The pages of a read put together are a beginning of the range that was  *)
(* asked for, in one content the file had during the calls, and all of it  *)
(* at the end: no byte twice or missing where a page ends inside a line,   *)
(* none of another content. Only a file others wrote to ends a read that   *)
(* has begun, or a page smaller than a character (read, next_action).      *)
PagesRejoin ==
    /\ reader.pc \in {"look", "load", "rest", "check"} /\ reader.from # NoText =>
          /\ reader.from \in reader.contents
          /\ IsStrictPrefix(reader.got, AskedRange(reader.from, reader.asked))
    /\ reader.pc = "read" =>
          /\ reader.from \in reader.contents
          /\ reader.got = AskedRange(reader.from, reader.asked)
    /\ reader.pc = "changed" => writes > reader.since
    /\ reader.pc = "offset" => reader.from = NoText
    /\ reader.pc = "small" => reader.request.bytes = 1

(* The windows of git_blame put together are the lines asked for, each one *)
(* once, when nobody wrote to the file meanwhile (git_blame, next_action). *)
BlameCovers ==
    reader.pc \in {"blamed", "failed"} /\ writes = reader.since =>
        /\ reader.pc = "blamed"
        /\ reader.got = SubSeq(Lines(text), reader.asked.start, Limit(text, reader.asked.end))

-----------------------------------------------------------------------------
searchVars == <<tree, walk>>

(* The paths of the model, a directory before what is in it, in the order  *)
(* of their names: a hidden file, a link among the files, and a directory  *)
(* that is left out by default.                                            *)
Paths == <<<<".h">>, <<"a">>, <<"d">>, <<"d", "a">>, <<"d", "b">>, <<"d", "l">>, <<"target">>, <<"target", "b">>>>
Hidden == {".h"}
DefaultExcluded == {"target"}
LinkTarget == <<"a">>

(* A text is as good as the number of its lines that match.                *)
Hits == [text0 |-> 0, text1 |-> 1, text2 |-> 2]
PlainFiles == DOMAIN Hits \cup {"binary"}
AllNames == {"a", "b", "l", ".h"}

Under(p, dir) == IsStrictPrefix(dir, p)
Parent(p) == Front(p)
There(p) == IF p = <<>> THEN TRUE ELSE tree[p] # "none"

SearchInit ==
    /\ \E a \in {"text0", "text2", "binary"}, d \in {"dir", "none"} :
          tree = [p \in ToSet(Paths) |->
                    CASE p = <<"a">> -> a
                      [] p = <<"target">> -> "dir"
                      [] p \in {<<".h">>, <<"target", "b">>} -> "text1"
                      [] OTHER ->
                           IF d = "none" THEN "none"
                           ELSE CASE p = <<"d">> -> "dir" [] p = <<"d", "l">> -> "link" [] OTHER -> "text1"]
    /\ walk = [pc |-> "idle"]

-----------------------------------------------------------------------------
Ignored(p, r) == (~r.hidden /\ Last(p) \in Hidden) \/ (~r.ignored /\ Last(p) \in DefaultExcluded)

(* read_dir. The entries are sorted by name, and what is in a directory    *)
(* comes before what follows it.                                           *)
Children(dir) == {p \in ToSet(Paths) : Parent(p) = dir /\ There(p)}
Place(p) == CHOOSE n \in DOMAIN Paths : Paths[n] = p
IsNext(p) == p \in walk.todo /\ \A q \in walk.todo : Place(p) <= Place(q)

Call(op, from, max, include, hidden, ignored, depth) ==
    [op |-> op, from |-> from, max |-> max, include |-> include, hidden |-> hidden, ignored |-> ignored, depth |-> depth]

Calls ==
    {Call("list_dir", <<>>, max, AllNames, h, i, depth) : max \in {1, 3, 9}, h, i \in BOOLEAN, depth \in 1..2}
    \cup {Call("list_files", <<>>, max, inc, h, i, 2) : max \in {1, 2, 9}, inc \in {{"a"}, AllNames}, h, i \in BOOLEAN}
    \cup {Call("search", from, max, inc, FALSE, FALSE, 2) : from \in {<<>>, <<"d">>, <<"a">>}, max \in {1, 2, 9}, inc \in {{"a"}, AllNames}}

Going(r, todo, found) ==
    [pc |-> "walk", call |-> r, todo |-> todo, found |-> found, matches |-> <<>>, truncated |-> FALSE,
     capped |-> FALSE, changes |-> 0, was |-> [p \in ToSet(Paths) |-> {tree[p]}]]

(* A search of one file never widens to its directory.                     *)
Begin(r) ==
    /\ walk.pc = "idle"
    /\ There(r.from)
    /\ IF r.from = <<>> \/ tree[r.from] = "dir"
       THEN walk' = Going(r, Children(r.from), <<>>)
       ELSE walk' = [Going(r, {}, IF Last(r.from) \in r.include THEN <<r.from>> ELSE <<>>) EXCEPT !.pc = "read"]
    /\ UNCHANGED tree

Step(w) == walk' = w /\ UNCHANGED tree
CallFails == Step([walk EXCEPT !.pc = "failed"])
Remaining(p) == walk.todo \ {p}

(* visit_directory: an entry of any kind is listed; the walk ends when the *)
(* limit is reached, and goes into directories down to the depth.          *)
VisitEntry ==
    /\ walk.pc = "walk" /\ walk.call.op = "list_dir"
    /\ \E p \in walk.todo :
          LET found == Append(walk.found, [path |-> p, kind |-> tree[p]])
              full == Len(found) >= walk.call.max
          IN /\ IsNext(p)
             /\ IF Ignored(p, walk.call) THEN Step([walk EXCEPT !.todo = Remaining(p)])
                ELSE IF ~There(p) THEN CallFails
                ELSE Step([walk EXCEPT !.found = found, !.truncated = full,
                           !.todo = IF full THEN {}
                                    ELSE IF tree[p] = "dir" /\ Len(p) < walk.call.depth THEN Children(p) \cup Remaining(p)
                                    ELSE Remaining(p)])

(* walk_files: only regular files, links are passed over; there is no      *)
(* limit before the walk is over.                                          *)
WalkFile ==
    /\ walk.pc = "walk" /\ walk.call.op # "list_dir"
    /\ \E p \in walk.todo :
          /\ IsNext(p)
          /\ IF Ignored(p, walk.call) THEN Step([walk EXCEPT !.todo = Remaining(p)])
             ELSE IF ~There(p) THEN CallFails
             ELSE IF tree[p] = "dir" THEN Step([walk EXCEPT !.todo = Children(p) \cup Remaining(p)])
             ELSE IF tree[p] \in PlainFiles /\ Last(p) \in walk.call.include
             THEN Step([walk EXCEPT !.todo = Remaining(p), !.found = Append(@, p)])
             ELSE Step([walk EXCEPT !.todo = Remaining(p)])

FirstOf(s, n) == SubSeq(s, 1, IF Len(s) < n THEN Len(s) ELSE n)

(* A listing of files is cut to its limit, and says so; a search goes on   *)
(* with the first SearchCap files, and does not.                           *)
EndListing ==
    /\ walk.pc = "walk" /\ walk.todo = {}
    /\ CASE walk.call.op = "list_dir" -> Step([walk EXCEPT !.pc = "done"])
         [] walk.call.op = "list_files" ->
              Step([walk EXCEPT !.pc = "done", !.truncated = Len(walk.found) > walk.call.max,
                    !.found = FirstOf(@, walk.call.max)])
         [] OTHER ->
              Step([walk EXCEPT !.pc = "read", !.found = FirstOf(@, SearchCap), !.capped = Len(walk.found) > SearchCap])

(* A path that is gone by the time it is read fails the whole search; what *)
(* is no text any more is passed over; a link is followed.                 *)
ReadOne ==
    /\ walk.pc = "read"
    /\ IF walk.found = <<>> THEN Step([walk EXCEPT !.pc = "done"])
       ELSE LET p == Head(walk.found)
                target == IF tree[p] = "link" THEN LinkTarget ELSE p
                kind == tree[target]
                hits == IF kind \in DOMAIN Hits THEN [h \in 1..Hits[kind] |-> [path |-> p, kind |-> kind]] ELSE <<>>
                matches == walk.matches \o hits
            IN IF ~There(p) \/ ~There(target) THEN CallFails
               ELSE IF hits # <<>> /\ Len(matches) >= walk.call.max
               THEN Step([walk EXCEPT !.pc = "done", !.matches = FirstOf(matches, walk.call.max), !.truncated = TRUE])
               ELSE Step([walk EXCEPT !.found = Tail(@), !.matches = matches])

-----------------------------------------------------------------------------
(* Others remove a path with what is in it, create a file, turn a file     *)
(* into another, or into a link.                                           *)
OthersChange(p, kind) ==
    LET now == [q \in ToSet(Paths) |-> IF q = p THEN kind ELSE IF kind = "none" /\ Under(q, p) THEN "none" ELSE tree[q]]
    IN /\ walk.pc \in {"walk", "read"} /\ walk.changes < MaxTreeChanges
       /\ kind # tree[p] /\ (tree[p] = "dir" => kind = "none")
       /\ (Parent(p) # <<>> => tree[Parent(p)] = "dir") /\ (kind = "link" => p = <<"d", "a">>)
       /\ tree' = now
       /\ walk' = [walk EXCEPT !.changes = @ + 1, !.was = [q \in ToSet(Paths) |-> @[q] \cup {now[q]}]]

SearchNext ==
    \/ \E r \in Calls : Begin(r)
    \/ VisitEntry \/ WalkFile \/ EndListing \/ ReadOne
    \/ \E p \in {<<"a">>, <<"d">>, <<"d", "a">>}, kind \in {"none", "text1", "link"} : OthersChange(p, kind)

SearchSpec == SearchInit /\ [][SearchNext]_searchVars

-----------------------------------------------------------------------------
(* What stood all through the call, and the walk had to come by.           *)
Stood(p) == Cardinality(walk.was[p]) = 1 /\ walk.was[p] # {"none"}
Reached(p, r) ==
    /\ IsPrefix(r.from, p)
    /\ \A n \in (Len(r.from) + 1)..Len(p) : ~Ignored(SubSeq(p, 1, n), r)
IsText(p) == Stood(p) /\ tree[p] \in PlainFiles /\ Last(p) \in walk.call.include

(* A listing or a search that does not say it was cut names everything     *)
(* that was there all the time and it was asked for, and nothing that      *)
(* never was, whatever others did meanwhile; one that says so is full. It  *)
(* fails only when others removed something. A search of more files than   *)
(* it looks into is left out: it does not say so (list_dir, list_files,    *)
(* search_text).                                                           *)
ListingsComplete ==
    /\ walk.pc = "done" /\ walk.call.op = "list_dir" =>
          /\ \A e \in ToSet(walk.found) : e.kind \in walk.was[e.path]
          /\ IsInjective(walk.found)
          /\ IF walk.truncated THEN Len(walk.found) = walk.call.max
             ELSE \A p \in ToSet(Paths) :
                     Stood(p) /\ Reached(p, walk.call) /\ Len(p) <= walk.call.depth
                         => [path |-> p, kind |-> tree[p]] \in ToSet(walk.found)
    /\ walk.pc = "done" /\ walk.call.op = "list_files" =>
          /\ \A p \in ToSet(walk.found) : walk.was[p] \cap PlainFiles # {}
          /\ IF walk.truncated THEN Len(walk.found) = walk.call.max
             ELSE \A p \in ToSet(Paths) : IsText(p) /\ Reached(p, walk.call) => p \in ToSet(walk.found)
    /\ walk.pc = "done" /\ walk.call.op = "search" =>
          /\ \A m \in ToSet(walk.matches) : m.kind \in walk.was[m.path] \cup walk.was[LinkTarget]
          /\ IF walk.truncated THEN Len(walk.matches) = walk.call.max
             ELSE ~walk.capped =>
                    \A p \in ToSet(Paths) : IsText(p) /\ tree[p] # "binary" /\ Reached(p, walk.call) =>
                        Cardinality({k \in DOMAIN walk.matches : walk.matches[k].path = p}) = Hits[tree[p]]
    /\ walk.pc = "failed" => walk.changes > 0

(* What a caller reads of the workspace page by page, or lists and         *)
(* searches, is all of what it asked for, while others write.              *)
ReadsExact ==
    /\ PagesRejoin
    /\ BlameCovers
    /\ ListingsComplete
=============================================================================
