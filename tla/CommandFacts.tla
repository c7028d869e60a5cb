---------------------------- MODULE CommandFacts ----------------------------
(***************************************************************************)
(* Which executables a shell command names, as the fact collection sees    *)
(* it before a command is authorized. The text is a sequence of lexical    *)
(* tokens: separators, words, and what the collection calls opaque. A      *)
(* script given to sh -c is one word, whose own text Script tells.         *)
(***************************************************************************)
EXTENDS Naturals, Sequences, SequencesExt

CONSTANTS MaxChunks   \* bound on the pieces of a command

VARIABLE source

factsVars == <<source>>

(* What a command is typed in: words, a for header, the end of its body.   *)
(* "$(" stands for what makes the collection give up on a list: command    *)
(* substitution, redirection, grouping, comments.                          *)
Chunks == {<<w>> : w \in {"p", "q", "sh", "-c", "-u", "-v", "V=1", "env", "nohup", "command",
                          "do", "if", "'q'", "$x", ";", "newline", "$("}}
          \cup {<<"for", "q", "in", "q", ";">>, <<";", "done">>}
Script(w) == IF w = "'q'" THEN <<"q">> ELSE <<w>>
Options == {"-c", "-u", "-v"}
Shells == {"sh"}
Assignments == {"V=1"}
Wrappers == {"env", "command", "exec", "nohup", "setsid", "time"}
Keywords == {"if", "then", "else", "elif", "fi", "for", "while", "until", "do", "done", "case", "esac", "in"}
Compound == {"if", "then", "elif", "else", "fi", "while", "until", "case", "esac", "select", "function"}
MaxDepth == 4

FactsInit == source = [text |-> <<>>, chunks |-> 0]
FactsNext ==
    \E t \in Chunks :
        /\ source.chunks < MaxChunks
        /\ source' = [text |-> source.text \o t, chunks |-> source.chunks + 1]

-----------------------------------------------------------------------------
Failed == [ok |-> FALSE, found |-> <<>>]
Found(s) == [ok |-> TRUE, found |-> s]
First(I) == CHOOSE i \in I : \A j \in I : i <= j
Then(a, b) == IF a.ok /\ b.ok THEN Found(a.found \o b.found) ELSE Failed

(* command_segments: the command lists between separators. A newline is a  *)
(* separator only to the collection that also keeps parameters as words.   *)
Opaque(parameters) == IF parameters THEN {"$("} ELSE {"$(", "$x", "newline"}
Listed(text, parameters) == ToSet(text) \cap Opaque(parameters) = {}

Segments(text) ==
    LET step(s, t) == IF t \in {";", "newline"} THEN Append(s, <<>>) ELSE Append(Front(s), Append(Last(s), t))
    IN SelectSeq(FoldLeft(step, <<<<>>>>, text), LAMBDA s : s # <<>>)

(* shell_script_argument: the word after the first -c.                     *)
ScriptArgument(words) ==
    LET options == {i \in 1..(Len(words) - 1) : words[i] = "-c"}
    IN IF options = {} THEN <<>> ELSE <<words[First(options) + 1]>>

RECURSIVE ShellCandidates(_, _), AppendSegment(_, _), SkipPrefix(_), SkipEnv(_), AppendSimple(_, _)

(* The options and assignments of env; -u takes the word after it.         *)
SkipEnv(words) ==
    IF words = <<>> THEN <<>>
    ELSE IF Head(words) = "-u" THEN SkipEnv(SubSeq(words, 3, Len(words)))
    ELSE IF Head(words) \in Assignments \cup {"-c", "-v"} THEN SkipEnv(Tail(words))
    ELSE words

(* Wrappers and keywords are looked through, wherever they stand.          *)
SkipPrefix(words) ==
    IF words = <<>> THEN <<>>
    ELSE IF Head(words) = "env" THEN SkipPrefix(SkipEnv(Tail(words)))
    ELSE IF Head(words) \in Wrappers \cup Keywords THEN SkipPrefix(Tail(words))
    ELSE words

SkipAssignments(words) ==
    LET named == {i \in DOMAIN words : words[i] \notin Assignments}
    IN IF named = {} THEN <<>> ELSE SubSeq(words, First(named), Len(words))

(* append_segment_candidates.                                              *)
AppendSegment(words, depth) ==
    LET rest == SkipPrefix(SkipAssignments(words))
    IN IF rest = <<>> THEN Found(<<>>)
       ELSE IF Head(rest) \in Shells /\ ScriptArgument(rest) # <<>>
            THEN Then(Found(<<Head(rest)>>), ShellCandidates(Script(ScriptArgument(rest)[1]), depth + 1))
            ELSE Found(<<Head(rest)>>)

(* append_simple: the builtin command asks about a name or runs one.       *)
AppendSimple(words, depth) ==
    IF words = <<>> \/ Head(words) # "command" THEN AppendSegment(words, depth)
    ELSE LET rest    == Tail(words)
             named   == {i \in DOMAIN rest : rest[i] \notin Options}
             options == IF named = {} THEN ToSet(rest) ELSE ToSet(SubSeq(rest, 1, First(named) - 1))
         IN IF options \ {"-v"} # {} THEN Failed
            ELSE IF options # {} \/ rest = <<>> THEN Found(<<>>)
            ELSE IF depth >= MaxDepth THEN Failed
            ELSE AppendSimple(rest, depth + 1)

(* simple_candidates: lists and for loops, or FALSE for other grammar. The *)
(* stack holds TRUE for a header that awaits its do, FALSE inside a body.  *)
SimpleSegment(a, words, depth) ==
    LET isDo == Head(words) = "do"
        body == IF isDo THEN Tail(words) ELSE words
        loops == IF isDo /\ a.loops # <<>> THEN Append(Front(a.loops), FALSE) ELSE a.loops
        bad  == [a EXCEPT !.ok = FALSE]
    IN IF ~a.ok THEN a
       ELSE IF isDo # (a.loops # <<>> /\ Last(a.loops)) THEN bad
       ELSE IF body = <<>> THEN [a EXCEPT !.loops = loops]
       ELSE IF Head(body) \in Compound THEN [a EXCEPT !.simple = FALSE]
       ELSE IF Head(body) = "for"
            THEN IF Len(body) < 2 \/ body[2] \in Options \cup Assignments \cup {"$x"}
                    \/ (Len(body) > 2 /\ body[3] # "in")
                 THEN bad ELSE [a EXCEPT !.loops = Append(loops, TRUE)]
       ELSE IF Head(body) = "done"
            THEN IF Len(body) > 1 \/ loops = <<>> THEN bad
                 ELSE [a EXCEPT !.loops = Front(loops)]
       ELSE LET r == AppendSimple(body, depth)
            IN [a EXCEPT !.loops = loops, !.ok = r.ok, !.found = @ \o r.found]

Simple(text, depth) ==
    LET start == [ok |-> TRUE, simple |-> TRUE, loops |-> <<>>, found |-> <<>>]
        end   == FoldLeft(LAMBDA a, s : SimpleSegment(a, s, depth), start, Segments(text))
    IN [end EXCEPT !.ok = @ /\ end.loops = <<>>]

(* shell_executable_candidates.                                            *)
ShellCandidates(text, depth) ==
    LET each(a, s) == Then(a, AppendSegment(s, depth))
        compound == \E i \in DOMAIN Segments(text) : Head(Segments(text)[i]) \in Compound
    IN IF depth > MaxDepth THEN Failed
       ELSE IF Listed(text, TRUE) /\ ~compound /\ Simple(text, depth).simple
            THEN IF Simple(text, depth).ok THEN Found(Simple(text, depth).found) ELSE Failed
       ELSE IF Listed(text, FALSE) THEN FoldLeft(each, Found(<<>>), Segments(text))
       ELSE FoldLeft(each, Found(<<>>),
                     Segments(SelectSeq(text, LAMBDA t : t # "newline")))

-----------------------------------------------------------------------------
(* What a shell makes of the words of a list, position by position: the    *)
(* kind of the next word, given the kind of this one and the word.         *)
NextKind(kind, w) ==
    CASE w \in {";", "newline"} -> "command"
      [] w \notin {";", "newline"} /\ kind = "unset" -> "env"
      [] w = "-u" /\ kind = "env" -> "unset"
      [] w \in Assignments /\ kind \in {"command", "env"} -> kind
      [] w = "-c" /\ kind = "shell" -> "script"
      [] w \in {"-c", "-v"} /\ kind = "env" -> "env"
      [] w = "env" /\ kind \in {"command", "env", "asked"} -> "env"
      [] w = "nohup" /\ kind \in {"command", "env", "asked"} -> "asked"
      [] w = "command" /\ kind \in {"command", "asked"} -> "asked"
      [] w \in {"do", "if"} /\ kind = "command" -> "command"
      [] w \in Shells /\ kind \in {"command", "env", "asked"} -> "shell"
      [] OTHER -> IF kind = "shell" THEN "shell" ELSE "argument"

Kinds(text) == FoldLeft(LAMBDA ks, w : Append(ks, NextKind(Last(ks), w)), <<"command">>, text)

(* The programs that run, in the text and in the scripts it gives to sh.   *)
Executed(text) ==
    {text[i] : i \in {j \in DOMAIN text :
        Kinds(text)[j] \in {"command", "env", "asked"} /\ text[j] \in {"p", "q", "sh"}}}
    \cup {Script(text[i])[1] : i \in {j \in DOMAIN text : Kinds(text)[j] = "script" /\ text[j] \in {"p", "q", "'q'"}}}

(* Every program that a list of literal commands runs is among the names   *)
(* collected, or the command is refused, as a name that is no file is:     *)
(* behind assignments, wrappers, loops, the queries of command, and inside *)
(* the script of a shell. Compound commands over several lines keep to an  *)
(* older collection, that reads them as one list, and are not claimed.     *)
CandidatesCoverRuns ==
    LET candidates == ShellCandidates(source.text, 0)
    IN /\ ToSet(source.text) \cap {"$(", "$x"} = {}
       /\ ToSet(source.text) \cap Compound = {} \/ Listed(source.text, FALSE)
       /\ candidates.ok /\ ToSet(candidates.found) \subseteq {"p", "q", "sh"}
       => Executed(source.text) \subseteq ToSet(candidates.found)
=============================================================================
