------------------------------ MODULE LatexGate ------------------------------
(***************************************************************************)
(* The LaTeX gate of a proof: a lexical scan masks comments and literal    *)
(* text and refuses what it cannot read with certainty; the rest is looked *)
(* through for commands that reach files or the shell; then, by policy, a  *)
(* compiler in a sandbox decides. The text stands on lines of its own in   *)
(* a document environment, which no literal text can reach: it ends before.*)
(***************************************************************************)
EXTENDS Naturals, Integers, Sequences, SequencesExt, FiniteSets

CONSTANT MaxLexemes   \* bound on the pieces the text is put together from

VARIABLE latexText   \* the text of the proof

latexVars == <<latexText>>

(* Characters, and words as one character each.                            *)
Words == {"input", "verb", "begin", "end", "verbatim", "def"}
Forbidden == {"input"}
Reconfiguring == {"def"}
BeginLiteral == <<"\\", "begin", "{", "verbatim", "}">>
EndLiteral == <<"\\", "end", "{", "verbatim", "}">>
Lexemes ==
    {<<"\\">>, <<"%">>, <<"newline">>, <<"|">>, <<"{">>, <<"}">>,
     <<"\\", "input">>, <<"\\", "verb">>, <<"\\", "def">>, BeginLiteral, EndLiteral}

-----------------------------------------------------------------------------
(* What has been scanned: where it goes on, the braces that are open, what *)
(* was seen and what is masked.                                            *)
At(s, i) == IF i \in DOMAIN s THEN s[i] ELSE "end of text"
LineEnd(s, i) == CHOOSE j \in i..(Len(s) + 1) :
                     At(s, j) \in {"newline", "end of text"} /\ \A k \in i..(j - 1) : s[k] # "newline"
IsAt(s, i, word) == i + Len(word) <= Len(s) + 1 /\ SubSeq(s, i, i + Len(word) - 1) = word
FirstIn(positions) == CHOOSE p \in positions : \A q \in positions : p <= q

Refused(scan) == [scan EXCEPT !.refused = TRUE]
To(scan, i) == [scan EXCEPT !.next = i]
Masked(scan, i, end) == [scan EXCEPT !.masked = @ \cup i..(end - 1), !.next = end]

(* A symbol uses up the character after its backslash.                     *)
ScanSymbolShown(s, scan, i) == To(scan, i + 2)

ScanSymbol(s, scan, i) == IF At(s, i + 1) = "\\" THEN Masked(scan, i, i + 2) ELSE To(scan, i + 2)

(* inline_end: up to the same delimiter on the same line.                  *)
ScanVerb(s, scan, i) ==
    LET delimiter == At(s, i + 2)
        ends == {p \in (i + 3)..(LineEnd(s, i + 2) - 1) : s[p] = delimiter}
    IN IF scan.depth # 0 \/ delimiter \in {"end of text", "newline"} \cup Words \/ ends = {} THEN Refused(scan)
       ELSE [Masked(scan, i, FirstIn(ends) + 1) EXCEPT !.literal = TRUE]

(* A literal environment starts and ends its first line, and ends at the   *)
(* first raw terminator.                                                   *)
ScanLiteral(s, scan, i) ==
    LET body == i + Len(BeginLiteral)
        ends == {p \in (body + 1)..Len(s) : IsAt(s, p, EndLiteral)}
    IN IF \/ scan.depth # 0
          \/ ~(i = 1 \/ At(s, i - 1) = "newline")
          \/ At(s, body) # "newline"
          \/ ends = {}
       THEN Refused(scan)
       ELSE [Masked(scan, i, FirstIn(ends) + Len(EndLiteral)) EXCEPT !.literal = TRUE]

ScanCommand(s, scan, i) ==
    LET command == At(s, i + 1)
    IN CASE command \notin Words -> ScanSymbol(s, scan, i)
         [] command = "verb" -> ScanVerb(s, scan, i)
         [] command = "begin" /\ IsAt(s, i, BeginLiteral) -> ScanLiteral(s, scan, i)
         [] command \in Reconfiguring -> [To(scan, i + 2) EXCEPT !.changed = TRUE]
         [] OTHER -> To(scan, i + 2)

ScanCharacter(s, scan, i) ==
    IF scan.refused \/ i < scan.next THEN scan
    ELSE CASE s[i] = "%" -> Masked(scan, i, LineEnd(s, i))
           [] s[i] = "{" -> [To(scan, i + 1) EXCEPT !.depth = @ + 1]
           [] s[i] = "}" -> [To(scan, i + 1) EXCEPT !.depth = IF @ = 0 THEN 0 ELSE @ - 1]
           [] s[i] = "\\" -> ScanCommand(s, scan, i)
           [] OTHER -> To(scan, i + 1)

(* active_source. Literal text and a changed meaning together are refused. *)
ActiveSource(s) ==
    LET start == [next |-> 1, depth |-> 0, literal |-> FALSE, changed |-> FALSE, masked |-> {}, refused |-> FALSE]
        scan == FoldLeft(LAMBDA sc, i : ScanCharacter(s, sc, i), start, [i \in DOMAIN s |-> i])
    IN IF scan.literal /\ scan.changed THEN Refused(scan) ELSE scan

Shown(s, scan) == [i \in DOMAIN s |-> IF i \in scan.masked /\ s[i] # "newline" THEN " " ELSE s[i]]

-----------------------------------------------------------------------------
(* balanced_braces, over what is shown.                                    *)
BalancedBraces(v) ==
    LET step(b, c) ==
            IF b.escaped THEN [b EXCEPT !.escaped = FALSE]
            ELSE CASE c = "\\" -> [b EXCEPT !.escaped = TRUE]
                   [] c = "{" -> [b EXCEPT !.depth = @ + 1]
                   [] c = "}" -> [b EXCEPT !.depth = @ - 1, !.low = @ \/ b.depth = 0]
                   [] OTHER -> b
        end == FoldLeft(step, [escaped |-> FALSE, depth |-> 0, low |-> FALSE], v)
    IN end.depth = 0 /\ ~end.low

(* A command is found by its name wherever its letters are shown.          *)
NamedIn(v) == {i \in DOMAIN v : v[i] = "\\" /\ At(v, i + 1) \in Forbidden}

StaticErrors(s) ==
    LET scan == ActiveSource(s)
    IN IF scan.refused THEN {"unsupported"}
       ELSE (IF BalancedBraces(Shown(s, scan)) THEN {} ELSE {"braces"})
            \cup (IF NamedIn(Shown(s, scan)) = {} THEN {} ELSE {"forbidden"})

-----------------------------------------------------------------------------
(* RuntimeLatexGate::validate, from the errors of the look-out and what    *)
(* the sandboxed compiler came to.                                         *)
Policies == {"static_only", "if_available", "required"}
NoCompiler == [kind |-> "missing"]
Compilations ==
    {NoCompiler, [kind |-> "denied"]}
    \cup [kind : {"ran"}, exit : {0, 1}, timedOut : BOOLEAN, pdf : BOOLEAN]
Compiled(c) == c.kind = "ran" /\ c.exit = 0 /\ ~c.timedOut /\ c.pdf

Validate(static, policy, c) ==
    LET valid == static = {}
        attempted == valid /\ policy # "static_only" /\ c # NoCompiler
        passed == IF policy = "static_only" THEN valid
                  ELSE IF c = NoCompiler THEN policy = "if_available" /\ valid
                  ELSE attempted /\ Compiled(c)
    IN [passed    |-> valid /\ passed,
        attempted |-> attempted,
        errors    |-> static \cup (IF attempted /\ ~Compiled(c) THEN {"compiler"} ELSE {}),
        warnings  |-> (IF policy = "static_only" THEN {"static"} ELSE {})
                      \cup (IF valid /\ policy # "static_only" /\ c = NoCompiler THEN {"unavailable"} ELSE {})]

LatexInit == latexText = <<>>

AddLexeme(l) == Len(latexText) < MaxLexemes /\ latexText' = Append(latexText, l)

LatexNext == \E l \in Lexemes : AddLexeme(l)

-----------------------------------------------------------------------------
(* The reading of TeX, character by character, as long as nothing changed  *)
(* its rules: literal text inside braces may be an argument that was read  *)
(* before, and a text after a change may be read in any way.               *)
TexStep(s, t, i) ==
    LET c == s[i]
    IN CASE t.mode = "text" ->
              CASE c = "\\" -> [t EXCEPT !.mode = "escaped"]
                [] c = "%" -> [t EXCEPT !.mode = "comment"]
                [] c = "{" -> [t EXCEPT !.depth = @ + 1]
                [] c = "}" -> [t EXCEPT !.depth = @ - 1, !.low = @ \/ t.depth = 0]
                [] OTHER -> t
         [] t.mode = "escaped" ->
              LET inLiteral == c = "verb" \/ (c = "begin" /\ IsAt(s, i - 1, BeginLiteral))
              IN [t EXCEPT !.mode = IF c = "verb" THEN "delimiter" ELSE IF inLiteral THEN "literal" ELSE "text",
                           !.commands = IF c \in Words THEN @ \cup {i - 1} ELSE @,
                           !.body = i + Len(BeginLiteral) - 1,
                           !.changed = @ \/ c \in Reconfiguring,
                           !.literal = @ \/ inLiteral,
                           !.unclear = @ \/ (inLiteral /\ (t.depth > 0 \/ t.changed))]
         [] t.mode = "comment" -> IF c = "newline" THEN [t EXCEPT !.mode = "text"] ELSE t
         [] t.mode = "delimiter" -> [t EXCEPT !.mode = IF c \in Words \cup {"newline"} THEN "broken" ELSE "verb", !.delimiter = c]
         [] t.mode = "verb" -> [t EXCEPT !.mode = IF c = "newline" THEN "broken" ELSE IF c = t.delimiter THEN "text" ELSE "verb"]
         [] t.mode = "literal" ->
              LET start == i + 1 - Len(EndLiteral)
              IN IF start >= t.body /\ IsAt(s, start, EndLiteral) THEN [t EXCEPT !.mode = "text"] ELSE t
         [] OTHER -> t

TexReading(s) ==
    FoldLeft(LAMBDA t, i : TexStep(s, t, i),
             [mode |-> "text", depth |-> 0, low |-> FALSE, commands |-> {}, body |-> 0, delimiter |-> "",
              changed |-> FALSE, literal |-> FALSE, unclear |-> FALSE],
             [i \in DOMAIN s |-> i])

(* A text that is not refused is one TeX reads with certainty, and what is *)
(* shown of it has the forbidden commands TeX reads and no others, and its *)
(* braces; only a text with literal parts is refused (active_source).      *)
ScanAgrees ==
    LET s == FlattenSeq(latexText)
        scan == ActiveSource(s)
        tex == TexReading(s)
    IN IF scan.refused THEN tex.literal
       ELSE /\ ~tex.unclear
            /\ tex.mode \in {"text", "escaped", "comment"}
            /\ NamedIn(Shown(s, scan)) = {i \in tex.commands : s[i + 1] \in Forbidden}
            /\ BalancedBraces(Shown(s, scan)) <=> tex.depth = 0 /\ ~tex.low

(* The gate lets no text pass that the scan or the look-out objects to,    *)
(* none a compiler objected to, and without a compiler none where one is   *)
(* required; a gate that is not passed says why (validate).                *)
GateHonest ==
    LET static == StaticErrors(FlattenSeq(latexText))
    IN \A policy \in Policies, c \in Compilations :
          LET r == Validate(static, policy, c)
          IN /\ r.passed => r.errors = {} /\ (c.kind = "denied" => ~r.attempted)
             /\ r.passed /\ r.attempted => Compiled(c)
             /\ r.passed /\ policy = "required" => r.attempted
             /\ ~r.passed => r.errors \cup r.warnings # {}
=============================================================================
