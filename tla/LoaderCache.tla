----------------------------- MODULE LoaderCache -----------------------------
(***************************************************************************)
(* validateGdkPixbufLoadersCacheContent: the line reader that decides      *)
(* whether a regenerated loaders.cache is well formed and which block it   *)
(* holds for each loader.  The cache is external input: each step takes    *)
(* any next line, up to MaxLines.  A line is known by what the reader      *)
(* tells apart: a record with its kind and, for a module line, its module. *)
(***************************************************************************)
EXTENDS Naturals, Sequences, FiniteSets, SequencesExt

CONSTANTS
    Modules,        \* loader paths that validateGdkPixbufLoaderModule accepts
    MaxModules,     \* gdkPixbufLoadersCacheMaxModule
    MaxLines        \* bound on the lines after the header line

Line(k) == [kind |-> k, module |-> ""]
ModuleLine(m) == [kind |-> "module", module |-> m]
Lines ==
    {Line(k) : k \in {"blank", "comment", "directory", "metadata", "list", "signature", "junk"}}
        \cup {ModuleLine(m) : m \in Modules}

VARIABLES
    read,       \* the lines taken so far
    phase,      \* "header", "module", "metadata", "mime", "extensions", "signatures"
    dirSeen,    \* loaderDirectorySeen
    count,      \* moduleCount
    block,      \* currentBlock, empty between blocks
    blocks,     \* modules: the finalized blocks, in the order of the file
    outcome     \* "reading", "error", "ok"

vars == <<read, phase, dirSeen, count, block, blocks, outcome>>

Init ==
    /\ read = <<>> /\ phase = "header"
    /\ dirSeen = FALSE /\ count = 0
    /\ block = <<>> /\ blocks = <<>>
    /\ outcome = "reading"

Reading == outcome = "reading" /\ Len(read) < MaxLines

Rejects(line) ==
    /\ read' = Append(read, line) /\ outcome' = "error"
    /\ UNCHANGED <<phase, dirSeen, count, block, blocks>>

Known(m) == \E i \in DOMAIN blocks : blocks[i][1].module = m

(* A header line: LoaderDir once, comments and empty lines. *)
Header ==
    /\ Reading /\ phase = "header"
    /\ \E line \in Lines :
          /\ line.kind \in {"directory", "comment", "blank"}
          /\ IF line.kind = "directory" /\ dirSeen THEN Rejects(line)
             ELSE /\ read' = Append(read, line)
                  /\ dirSeen' = (dirSeen \/ line.kind = "directory")
                  /\ UNCHANGED <<phase, count, block, blocks, outcome>>

(* The first other line ends the header and is read as a module line, as    *)
(* is every line between two blocks.                                        *)
BetweenBlocks ==
    /\ Reading /\ phase = "module"
    /\ read' = Append(read, Line("blank"))
    /\ UNCHANGED <<phase, dirSeen, count, block, blocks, outcome>>

StartsBlock(line) ==
    /\ line.kind = "module"
    /\ ~Known(line.module)
    /\ count < MaxModules

StartBlock ==
    /\ Reading /\ phase \in {"header", "module"}
    /\ \E line \in Lines :
          /\ line.kind # "blank"
          /\ phase = "header" => line.kind \notin {"directory", "comment"}
          /\ IF ~dirSeen \/ ~StartsBlock(line) THEN Rejects(line)
             ELSE /\ read' = Append(read, line)
                  /\ block' = <<line>> /\ count' = count + 1 /\ phase' = "metadata"
                  /\ UNCHANGED <<dirSeen, blocks, outcome>>

After(p) ==
    CASE p = "metadata" -> "mime" [] p = "mime" -> "extensions"
      [] p = "extensions" -> "signatures" [] OTHER -> p

Expected(p) ==
    CASE p = "metadata" -> "metadata" [] p \in {"mime", "extensions"} -> "list" [] OTHER -> "signature"

(* Mutant: a signature line is checked but not added to the block. *)
InBlockUnsigned ==
    /\ Reading /\ phase \notin {"header", "module"}
    /\ \E line \in Lines :
          /\ ~(phase = "signatures" /\ line.kind = "blank")
          /\ IF line.kind # Expected(phase) THEN Rejects(line)
             ELSE /\ read' = Append(read, line)
                  /\ block' = IF phase = "signatures" THEN block ELSE Append(block, line)
                  /\ phase' = After(phase)
                  /\ UNCHANGED <<dirSeen, count, blocks, outcome>>

InBlock ==
    /\ Reading /\ phase \notin {"header", "module"}
    /\ \E line \in Lines :
          /\ ~(phase = "signatures" /\ line.kind = "blank")
          /\ IF line.kind # Expected(phase) THEN Rejects(line)
             ELSE /\ read' = Append(read, line) /\ block' = Append(block, line)
                  /\ phase' = After(phase)
                  /\ UNCHANGED <<dirSeen, count, blocks, outcome>>

(* finalizeBlock at the empty line after a block. *)
EndBlock ==
    /\ Reading /\ phase = "signatures"
    /\ read' = Append(read, Line("blank"))
    /\ blocks' = Append(blocks, block) /\ block' = <<>>
    /\ phase' = "module"
    /\ UNCHANGED <<dirSeen, count, outcome>>

(* The end of the file. *)
End ==
    /\ outcome = "reading"
    /\ outcome' = IF ~dirSeen \/ count = 0 \/ phase \in {"metadata", "mime", "extensions"} THEN "error" ELSE "ok"
    /\ blocks' = IF phase = "signatures" THEN Append(blocks, block) ELSE blocks
    /\ UNCHANGED <<read, phase, dirSeen, count, block>>

Next == Header \/ BetweenBlocks \/ StartBlock \/ InBlock \/ EndBlock \/ End

Spec == Init /\ [][Next]_vars

-----------------------------------------------------------------------------
(* parseGdkPixbufCacheLine, a character at a time: the fields of a line, or *)
(* an error.  A backslash in a quoted field takes the next character with   *)
(* it; an unquoted field ends at a space and contains no quote.             *)

Blank == " "
Quote == "q"
Escape == "b"

Scan0 == [mode |-> "gap", value |-> <<>>, tokens |-> <<>>]
Token(value, quoted) == [value |-> value, quoted |-> quoted]
Emit(st, quoted) == [st EXCEPT !.mode = "gap", !.value = <<>>, !.tokens = Append(@, Token(st.value, quoted))]
Push(st, mode, c) == [st EXCEPT !.mode = mode, !.value = Append(@, c)]

Scan(st, c) ==
    CASE st.mode = "gap" /\ c = Blank -> st
      [] st.mode = "gap" /\ c = Quote -> [st EXCEPT !.mode = "quoted"]
      [] st.mode = "gap" /\ c \notin {Blank, Quote} -> Push(st, "plain", c)
      [] st.mode = "quoted" /\ c = Quote -> Emit(st, TRUE)
      [] st.mode = "quoted" /\ c = Escape -> Push(st, "escaped", c)
      [] st.mode = "quoted" /\ c \notin {Quote, Escape} -> Push(st, "quoted", c)
      [] st.mode = "escaped" -> Push(st, "quoted", c)
      [] st.mode = "plain" /\ c = Blank -> Emit(st, FALSE)
      [] st.mode = "plain" /\ c = Quote -> [st EXCEPT !.mode = "error"]
      [] st.mode = "plain" /\ c \notin {Blank, Quote} -> Push(st, "plain", c)
      [] OTHER -> st

ParseLine(chars) ==
    LET st == FoldLeft(Scan, Scan0, chars)
        end == IF st.mode = "plain" THEN Emit(st, FALSE) ELSE st
    IN  [ok |-> end.mode = "gap", tokens |-> end.tokens]

-----------------------------------------------------------------------------
(* The grammar of a loader cache and of its lines, stated without the       *)
(* reader.                                                                  *)
K(i) == read[i].kind
At(i, k) == i \in DOMAIN read /\ K(i) = k
ModulePositions == {i \in DOMAIN read : K(i) = "module"}
FirstModule == CHOOSE i \in ModulePositions : \A j \in ModulePositions : i <= j
SecondList(i) == At(i, "list") /\ At(i - 1, "list")

(* Exactly one LoaderDir before the first module; then blocks of a module,  *)
(* its metadata, two lists and any signatures, separated by empty lines,    *)
(* each module once.                                                        *)
Grammar ==
    /\ ModulePositions # {}
    /\ LET h == FirstModule
           body == {i \in DOMAIN read : i >= h}
       IN  /\ \A i \in 1 .. h - 1 : K(i) \in {"blank", "comment", "directory"}
           /\ \E i \in 1 .. h - 1 : \A j \in 1 .. h - 1 : K(j) = "directory" <=> i = j
           /\ \A i \in body :
                 CASE K(i) = "module" -> At(i + 1, "metadata") /\ (i = h \/ At(i - 1, "blank"))
                   [] K(i) = "metadata" -> At(i - 1, "module") /\ At(i + 1, "list") /\ At(i + 2, "list")
                   [] K(i) = "list" -> \/ At(i - 1, "metadata")
                                       \/ At(i - 1, "list") /\ At(i - 2, "metadata")
                   [] K(i) = "signature" -> At(i - 1, "signature") \/ SecondList(i - 1)
                   [] K(i) = "blank" -> At(i - 1, "blank") \/ At(i - 1, "signature") \/ SecondList(i - 1)
                   [] OTHER -> FALSE
    /\ \A i, j \in ModulePositions : read[i].module = read[j].module => i = j
    /\ Cardinality(ModulePositions) <= MaxModules

(* The reader accepts exactly the caches of the grammar: nothing it accepts *)
(* is outside it, and no cache in it is refused.                            *)
AcceptsTheGrammar ==
    /\ outcome = "ok" => Grammar
    /\ outcome = "error" => ~Grammar

Body == SelectSeq(SubSeq(read, FirstModule, Len(read)), LAMBDA l : l.kind # "blank")

(* The blocks of an accepted cache hold every line after its header: a      *)
(* later cache that keeps the blocks keeps what an earlier install          *)
(* registered, line for line.                                               *)
BlocksKeepEveryLine ==
    outcome = "ok" => FlattenSeq(blocks) = Body

-----------------------------------------------------------------------------
(* A reading of a line s: position i is inside a quoted field when the      *)
(* number of unescaped quotes before it is odd.                             *)
RECURSIVE Inside(_, _), Escaped(_, _)
Escaped(s, i) == IF i <= 1 THEN FALSE ELSE Inside(s, i - 1) /\ s[i - 1] = Escape /\ ~Escaped(s, i - 1)
Inside(s, i) ==
    IF i <= 1 THEN FALSE
    ELSE IF s[i - 1] = Quote /\ ~Escaped(s, i - 1) THEN ~Inside(s, i - 1) ELSE Inside(s, i - 1)

Delimits(s, i) == s[i] = Quote /\ ~Escaped(s, i)
Rendered(tokens) ==
    FlattenSeq([i \in DOMAIN tokens |->
        IF tokens[i].quoted THEN <<Quote>> \o tokens[i].value \o <<Quote>> ELSE tokens[i].value])
Significant(s) == SelectSeq([i \in DOMAIN s |-> <<s[i], Inside(s, i) \/ s[i] # Blank>>], LAMBDA p : p[2])

(* A line parses exactly when its last quote is closed and no quote follows *)
(* an unquoted character, and its fields, put back together, are the line   *)
(* without the spaces between fields: none is lost, split or merged.        *)
FieldsAreTheLine(s) ==
    LET r == ParseLine(s)
        closed == ~Inside(s, Len(s) + 1)
        misplaced == \E i \in 2 .. Len(s) :
            Delimits(s, i) /\ ~Inside(s, i) /\ ~Inside(s, i - 1) /\ s[i - 1] # Blank /\ ~Delimits(s, i - 1)
    IN  /\ r.ok <=> closed /\ ~misplaced
        /\ r.ok => Rendered(r.tokens) = [i \in DOMAIN Significant(s) |-> Significant(s)[i][1]]
=============================================================================
