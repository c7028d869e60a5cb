----------------------------- MODULE TextEdits -----------------------------
(***************************************************************************)
(* What is done to the text of a file.                                     *)
(*                                                                         *)
(* How the update section of a patch is placed in a file: the section is   *)
(* split into hunks, each hunk is searched forward from the one before it  *)
(* under three grades of equality, and the replacements are spliced in     *)
(* from the last to the first. The older applier of the pure policy is     *)
(* here to be compared with. Line ends and the size budgets are left out.  *)
(*                                                                         *)
(* The line edits of apply_changes: replacements, deletions and insertions *)
(* of one file, all numbered by the lines of the original, with the line   *)
(* ends of the file kept. The text of a line of the file is its number.    *)
(***************************************************************************)
EXTENDS Naturals, Sequences, SequencesExt, FiniteSets, FiniteSetsExt

CONSTANTS
    MaxFileLines,   \* bound on the file
    MaxLines,       \* bound on a file of two lines or more and the section
    MaxOriginal,    \* bound on the lines of the file
    MaxEdits        \* bound on the edits of a request

VARIABLES
    fileLines,   \* the file
    section,     \* the lines of the update section, a marker and a text each
    ends,        \* how each line of the original ends
    edits        \* the edits of the request

patchVars == <<fileLines, section>>

(* "a_" is "a" with a space behind it, "_a" is "a" indented.               *)
FileTexts == {"a", "a_", "_a", "b"}
Line(marker, text) == [marker |-> marker, text |-> text]
SectionLines == {Line(" ", "a"), Line("-", "a"), Line("+", "a"), Line("-", "b"), Line("+", "b"),
                 Line("@@", ""), Line("@@", "b"), Line("eof", "")}

PatchInit == fileLines = <<>> /\ section = <<>>
PatchNext ==
    \/ /\ section = <<>> /\ Len(fileLines) < MaxFileLines
       /\ \E t \in FileTexts : fileLines' = Append(fileLines, t)
       /\ UNCHANGED section
    \/ /\ Max({2, Len(fileLines)}) + Len(section) < MaxLines
       /\ \E l \in SectionLines : section' = Append(section, l)
       /\ UNCHANGED fileLines

-----------------------------------------------------------------------------
(* parse_patch_current: a line that starts with @@ begins a hunk and stays *)
(* in it. parse_patch drops that line.                                     *)
HunksOf(lines) ==
    SelectSeq(FoldLeft(LAMBDA hs, l : IF l.marker = "@@" THEN Append(hs, <<l>>)
                                      ELSE Append(Front(hs), Append(Last(hs), l)),
                       <<<<>>>>, lines),
              LAMBDA h : h # <<>>)
LegacyHunksOf(lines) ==
    SelectSeq([i \in DOMAIN HunksOf(lines) |->
                  SelectSeq(HunksOf(lines)[i], LAMBDA l : l.marker \notin {"@@", "eof"})],
              LAMBDA h : h # <<>>)

TextOf(raw, markers) ==
    LET chosen == SelectSeq(raw, LAMBDA l : l.marker \in markers)
    IN [i \in DOMAIN chosen |-> chosen[i].text]
Has(raw, marker) == \E i \in DOMAIN raw : raw[i].marker = marker

Hunk(raw) ==
    [anchor  |-> IF Has(raw, "@@") THEN raw[1].text ELSE "",
     old     |-> TextOf(raw, {" ", "-"}),
     new     |-> TextOf(raw, {" ", "+"}),
     context |-> Has(raw, " "),
     eof     |-> Has(raw, "eof")]

(* Equality of lines: exact, without the space behind, without the indent. *)
Bare(t, grade) ==
    IF \/ t = "a_" /\ grade >= 1
       \/ t = "_a" /\ grade >= 2
    THEN "a" ELSE t
SameLine(s, t, grade) == Bare(s, grade) = Bare(t, grade)

(* Where a text stands in a file, counted in lines before it.              *)
Positions(lines, needle, cursor, eof, grade) ==
    IF needle = <<>> \/ Len(needle) > Len(lines) THEN {}
    ELSE {i \in cursor..(Len(lines) - Len(needle)) :
            /\ eof => i = Len(lines) - Len(needle)
            /\ \A k \in DOMAIN needle : SameLine(lines[i + k], needle[k], grade)}

NotPlaced == [ok |-> FALSE, cursor |-> 0, placements |-> <<>>, grade |-> 0]
Better(g, h) == IF g >= h THEN g ELSE h

(* What a hunk changes of the lines it matched: equal lines at both ends   *)
(* are not part of the placement.                                          *)
Trimmed(lines, start, new, length) ==
    LET shorter == Min({Len(new), length})
        prefix == Max({p \in 0..shorter : \A k \in 1..p : lines[start + k] = new[k]})
        suffix == Max({q \in 0..(shorter - prefix) :
                         \A k \in 1..q : lines[start + length - k + 1] = new[Len(new) - k + 1]})
    IN [start |-> start + prefix, end |-> start + length - suffix,
        new |-> SubSeq(new, prefix + 1, Len(new) - suffix)]

(* The anchor moves the cursor behind the first line that is equal to it.  *)
Anchored(s, h, lines) ==
    LET at(g) == {i \in (s.cursor + 1)..Len(lines) : SameLine(lines[i], h.anchor, g)}
        grades == {g \in 0..2 : at(g) # {}}
    IN IF h.anchor = "" THEN s
       ELSE IF grades = {} THEN NotPlaced
       ELSE [s EXCEPT !.cursor = Min(at(Min(grades))), !.grade = Better(@, Min(grades))]

(* A hunk without old text goes to the end, unless it is there already.    *)
AppendHunk(s, h, lines) ==
    LET repeats == {g \in 0..1 : Len(h.new) >= 2
                        /\ Cardinality(Positions(lines, h.new, s.cursor, TRUE, g)) = 1}
        n == Len(lines)
    IN IF repeats # {} THEN [s EXCEPT !.cursor = n, !.grade = Better(@, Min(repeats))]
       ELSE [s EXCEPT !.cursor = n,
             !.placements = @ \o (IF h.new = <<>> THEN <<>> ELSE <<[start |-> n, end |-> n, new |-> h.new]>>)]

ReplaceFromTop(s, h, lines, g) ==
    LET start == Min(Positions(lines, h.old, 0, h.eof, g))
    IN [s EXCEPT !.cursor = start + Len(h.old), !.grade = Better(@, g),
                 !.placements = Append(@, Trimmed(lines, start, h.new, Len(h.old)))]

(* The old text was found at the best grade: at one place, or the hunk is  *)
(* refused as ambiguous.                                                   *)
Replace(s, h, lines, g) ==
    LET found == Positions(lines, h.old, s.cursor, h.eof, g)
        p     == Trimmed(lines, Min(found), h.new, Len(h.old))
    IN IF Cardinality(found) # 1 THEN NotPlaced
       ELSE [s EXCEPT !.cursor = Min(found) + Len(h.old), !.grade = Better(@, g),
             !.placements = @ \o (IF p.start = p.end /\ p.new = <<>> THEN <<>> ELSE <<p>>)]

(* The old text is gone: the hunk may have been applied before, when its   *)
(* new text is evidence enough and stands at one place.                    *)
AlreadyThere(s, h, lines) ==
    LET grades == {g \in 0..1 : Cardinality(Positions(lines, h.new, s.cursor, h.eof, g)) = 1}
        g      == Min(grades)
    IN IF (h.context \/ Len(h.new) >= 2) /\ grades # {}
       THEN [s EXCEPT !.cursor = Min(Positions(lines, h.new, s.cursor, h.eof, g)) + Len(h.new),
             !.grade = Better(@, g)]
       ELSE NotPlaced

(* apply_update_hunks_detailed.                                            *)
PlaceHunk(s, raw, lines) ==
    LET h == Hunk(raw)
        a == Anchored(s, h, lines)
        grades == {g \in 0..2 : Positions(lines, h.old, a.cursor, h.eof, g) # {}}
    IN IF ~s.ok \/ ~a.ok THEN NotPlaced
       ELSE IF h.old = <<>> THEN AppendHunk(a, h, lines)
       ELSE IF grades # {} THEN Replace(a, h, lines, Min(grades))
       ELSE AlreadyThere(a, h, lines)

Placed(lines, hunks) ==
    FoldLeft(LAMBDA s, raw : PlaceHunk(s, raw, lines),
             [ok |-> TRUE, cursor |-> 0, placements |-> <<>>, grade |-> 0], hunks)

Splice(lines, p) == SubSeq(lines, 1, p.start) \o p.new \o SubSeq(lines, p.end + 1, Len(lines))
Updated(lines, placements) == FoldLeft(Splice, lines, Reverse(placements))

(* changed_ranges, in the lines of the result.                             *)
Ranges(placements) ==
    LET sum(F(_), n) == FoldLeft(LAMBDA t, p : t + F(p), 0, SubSeq(placements, 1, n))
    IN [i \in DOMAIN placements |->
          [first   |-> placements[i].start + 1 + sum(LAMBDA p : Len(p.new), i - 1)
                           - sum(LAMBDA p : p.end - p.start, i - 1),
           added   |-> Len(placements[i].new),
           removed |-> placements[i].end - placements[i].start]]

-----------------------------------------------------------------------------
(* apply_update_hunks of the pure policy: every hunk stands at one place   *)
(* of the file that ends in an empty line, wherever the others are.        *)
LegacyPlacement(lines, raw) ==
    LET old == TextOf(raw, {" ", "-"})
        found == IF old = <<>> THEN {0} ELSE Positions(lines, old, 0, FALSE, 0)
    IN [found |-> found, new |-> TextOf(raw, {" ", "+"}), length |-> Len(old)]

LegacyResult(lines, hunks) ==
    LET p(i)   == LegacyPlacement(Append(lines, ""), hunks[i])
        at(i)  == Min(p(i).found)
        ok     == \A i \in DOMAIN hunks : Cardinality(p(i).found) = 1
        order  == SetToSortSeq(DOMAIN hunks, LAMBDA i, j : at(i) < at(j) \/ (at(i) = at(j) /\ i < j))
        sorted == [k \in DOMAIN order |-> [start |-> at(order[k]), end |-> at(order[k]) + p(order[k]).length,
                                           new |-> p(order[k]).new]]
    IN IF ~ok \/ \E k \in 1..(Len(hunks) - 1) : sorted[k].end > sorted[k + 1].start
       THEN [ok |-> FALSE, lines |-> <<>>]
       ELSE [ok |-> TRUE, lines |-> Front(Updated(Append(lines, ""), sorted))]

-----------------------------------------------------------------------------
(* The outcome of the section on the file.                                 *)
Hunks == HunksOf(section)
Outcome == Placed(fileLines, Hunks)
Result == Updated(fileLines, Outcome.placements)

(* The reported ranges account for the whole difference: cut out of the    *)
(* result they leave what the file keeps, line for line, so a client that  *)
(* reads only the ranges has seen every change.                            *)
RangesCoverChange ==
    LET r == Ranges(Outcome.placements)
        in(i) == r[i].first..(r[i].first + r[i].added - 1)
        cut == UNION {(Outcome.placements[i].start + 1)..Outcome.placements[i].end : i \in DOMAIN r}
        new == UNION {in(i) : i \in DOMAIN r}
        kept(lines, out) == LET K == SetToSortSeq(DOMAIN lines \ out, LAMBDA i, j : i < j)
                            IN [k \in DOMAIN K |-> lines[K[k]]]
    IN Outcome.ok => /\ kept(Result, new) = kept(fileLines, cut)
                     /\ Len(Result) = Cardinality(new) + Len(fileLines) - Cardinality(cut)

(* After an update that is not refused, the new text of every hunk stands  *)
(* in the file, one behind the other in the order of the section, up to    *)
(* the quality of match that is reported: also the hunks that were skipped *)
(* as applied before.                                                      *)
HunksLand ==
    LET new(i) == Hunk(Hunks[i]).new
        land(cursor, i) == IF cursor = {} THEN {}
            ELSE LET P == Positions(Result, new(i), Min(cursor), FALSE, Outcome.grade)
                 IN IF new(i) = <<>> THEN cursor
                    ELSE IF P = {} THEN {} ELSE {Min(P) + Len(new(i))}
    IN Outcome.ok => FoldLeft(land, {0}, [i \in DOMAIN Hunks |-> i]) # {}

(* Where both appliers accept a section without anchors, the file matches  *)
(* exactly and every hunk has old text, they produce the same file.        *)
AgreesWithLegacy ==
    LET legacy == LegacyResult(fileLines, LegacyHunksOf(section))
    IN /\ Outcome.ok /\ Outcome.grade = 0 /\ legacy.ok
       /\ \A i \in DOMAIN Hunks : LET h == Hunk(Hunks[i]) IN h.old # <<>> /\ h.anchor = "" /\ ~h.eof
       => Result = legacy.lines

(* An accepted patch does what it says and says what it does, like its     *)
(* predecessor (apply_update, derive_ranges).                              *)
PatchExact ==
    /\ RangesCoverChange
    /\ HunksLand
    /\ AgreesWithLegacy

-----------------------------------------------------------------------------
editVars == <<ends, edits>>

Blank == 0
New == MaxOriginal + 1
Contents == {<<>>, <<New>>, <<New, Blank>>, <<1>>}
Edit(start, end, content) == [start |-> start, end |-> end, new |-> content]

(* Only the last line of a file may end without a line end.                *)
EditInit ==
    /\ \E n \in 0..MaxOriginal : ends \in [1..n -> {"lf", "crlf", "none"}]
    /\ \A i \in 1..(Len(ends) - 1) : ends[i] # "none"
    /\ edits = <<>>

(* A replacement names its first and last line, an insertion a place, a    *)
(* deletion has no content. Past the last line a request is refused.       *)
EditNext ==
    /\ Len(edits) < MaxEdits
    /\ \E start, end \in 0..Len(ends), c \in Contents :
          start <= end /\ edits' = Append(edits, Edit(start, end, c))
    /\ UNCHANGED ends

-----------------------------------------------------------------------------
Original == [i \in DOMAIN ends |-> [text |-> i, end |-> ends[i]]]
NewLine == IF ends # <<>> /\ ends[1] = "crlf" THEN "crlf" ELSE "lf"
TextsOf(lines) == [i \in DOMAIN lines |-> lines[i].text]

(* A stable sort by start and end.                                         *)
Before(e, f) == e.start < f.start \/ (e.start = f.start /\ e.end < f.end)
Sorted(es) ==
    LET order == SetToSortSeq(DOMAIN es, LAMBDA i, j :
                     Before(es[i], es[j]) \/ (~Before(es[j], es[i]) /\ i < j))
    IN [k \in DOMAIN order |-> es[order[k]]]

Overlap(es) ==
    \E k \in 1..(Len(es) - 1) :
        \/ es[k + 1].start < es[k].end
        \/ es[k].start = es[k].end /\ es[k + 1] = [es[k + 1] EXCEPT !.start = es[k].start, !.end = es[k].start]

(* An edit that puts what is there already changes nothing.                *)
Effective(e) == TextsOf(SubSeq(Original, e.start + 1, e.end)) # e.new

SpliceEdit(lines, e) ==
    IF ~Effective(e) THEN lines
    ELSE SubSeq(lines, 1, e.start)
         \o [i \in DOMAIN e.new |-> [text |-> e.new[i], end |-> NewLine]]
         \o SubSeq(lines, e.end + 1, Len(lines))

(* A line that is no longer last gets a line end; the last one loses its   *)
(* own when the file had none, unless it is blank.                         *)
FixEnds(lines) ==
    [i \in DOMAIN lines |->
        LET l == lines[i] IN
        IF i < Len(lines) THEN IF l.end = "none" THEN [l EXCEPT !.end = NewLine] ELSE l
        ELSE IF ends # <<>> /\ Last(ends) = "none" /\ l # [text |-> Blank, end |-> NewLine]
             THEN [l EXCEPT !.end = "none"] ELSE l]

(* edit_outcome: the sorted edits are spliced in from the last one.        *)
Edited(es) == FixEnds(FoldLeft(SpliceEdit, Original, Reverse(es)))

Evidence(es) ==
    LET real == SelectSeq(es, Effective)
        sum(F(_), n) == FoldLeft(LAMBDA t, e : t + F(e), 0, SubSeq(real, 1, n))
    IN [i \in DOMAIN real |->
          [first   |-> real[i].start + 1 + sum(LAMBDA e : Len(e.new), i - 1) - sum(LAMBDA e : e.end - e.start, i - 1),
           added   |-> Len(real[i].new),
           removed |-> real[i].end - real[i].start]]

-----------------------------------------------------------------------------
Request == Sorted(edits)
Accepted == ~Overlap(Request)

(* What the request asks for, line by line of the original: what is put    *)
(* before a line, and the line unless an edit covers it.                   *)
Asked ==
    LET covered(i) == \E k \in DOMAIN Request : Request[k].start < i /\ i <= Request[k].end
        put(i) == FoldLeft(LAMBDA s, e : IF e.start = i THEN s \o e.new ELSE s, <<>>, Request)
    IN FoldLeft(LAMBDA s, i : s \o put(i)
                    \o (IF i < Len(ends) /\ ~covered(i + 1) THEN <<i + 1>> ELSE <<>>),
                <<>>, [k \in 1..(Len(ends) + 1) |-> k - 1])

(* All edits mean the lines of the original, whatever the order they come  *)
(* in, and a line no edit covers keeps its bytes, its line end too unless  *)
(* it was or becomes the last one.                                         *)
EditsMeanOriginalLines ==
    Accepted =>
        /\ TextsOf(Edited(Request)) = Asked
        /\ \A i \in 1..(Len(Edited(Request)) - 1) :
              LET l == Edited(Request)[i] IN
              l.text \in 2..Len(ends) /\ ends[l.text] # "none" => l.end = ends[l.text]

(* The evidence accounts for the whole difference: cut out of the result   *)
(* its ranges leave the lines of the original that are not reported as     *)
(* removed.                                                                *)
EditEvidenceExact ==
    LET r == Evidence(Request)
        new == UNION {r[i].first..(r[i].first + r[i].added - 1) : i \in DOMAIN r}
        cut == UNION {(e.start + 1)..e.end : e \in {f \in ToSet(Request) : Effective(f)}}
        left(lines, out) == LET K == SetToSortSeq(DOMAIN lines \ out, LAMBDA i, j : i < j)
                            IN [k \in DOMAIN K |-> lines[K[k]].text]
    IN Accepted => left(Edited(Request), new) = left(Original, cut)

(* Line edits change what they name and report what they change            *)
(* (apply_line_edits).                                                     *)
LineEditsExact ==
    /\ EditsMeanOriginalLines
    /\ EditEvidenceExact
=============================================================================
