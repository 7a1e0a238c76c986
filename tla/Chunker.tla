------------------------------- MODULE Chunker -------------------------------
(***************************************************************************)
(* The chunkers of src/code-indexer/chunker.ts: line windows, sections of  *)
(* Markdown and plain text, top-level nodes of a syntax tree.  A file is a *)
(* sequence of lines, a line a sequence of characters that know where they *)
(* stand and whether they are blank; what is cut can then be compared with *)
(* where it came from.                                                     *)
(*                                                                         *)
(* The loop of pushBoundedLineChunks is one step per line.  Tree-sitter is *)
(* external: a file comes with the nodes it finds.                         *)
(***************************************************************************)
EXTENDS Naturals, FiniteSets, FiniteSetsExt, SequencesExt

CONSTANTS
  LineKinds,    \* a line: what is blank in it, and whether it is a heading or a fence
  MaxLines,     \* bound: the lines of a file
  Options,      \* chunkLines, overlapLines and maxChunkChars as they are configured
  Modes         \* "line-window", "markdown", "text", "tree-sitter"

ASSUME ChunkerAssumption ==
  /\ \A k \in LineKinds :
       /\ k.heading \in BOOLEAN /\ k.fence \in BOOLEAN /\ k.ink \in Seq(BOOLEAN)
       /\ k.heading => \E c \in DOMAIN k.ink : k.ink[c]  \* it begins with "#"
  /\ MaxLines \in Nat \ {0}
  /\ \A o \in Options : {o.chunkLines, o.overlapLines, o.maxChunkChars} \subseteq Nat
  /\ Modes \subseteq {"line-window", "markdown", "text", "tree-sitter"}

VARIABLES
  file,      \* the lines of the content
  mode,      \* the chunker that is tried
  nodes,     \* the top-level nodes of a type that is indexed: a set of [first, last]
  options,   \* the options as they are configured
  pc,
  sections,  \* the sections that are still to be cut: a set of [first, last]
  part,      \* chunkFileWithLineWindows: the lines, and the number of the first
  start,     \*   the offset of the window
  line,      \*   the offset of the line in the window
  buffer,    \*   the lines gathered, and the number of the first
  cut,       \*   the chunks of this call
  chunks     \* the chunks of the file

vars == <<file, mode, nodes, options, pc, sections, part, start, line, buffer, cut, chunks>>
input == <<file, nodes, options>>

Larger(a, b) == IF a >= b THEN a ELSE b
Smaller(a, b) == IF a <= b THEN a ELSE b

-----------------------------------------------------------------------------
(* Text.                                                                   *)

Line(n) == [c \in DOMAIN file[n].ink |-> [at |-> <<n, c>>, ink |-> file[n].ink[c]]]
LinesOf(s) == [i \in 1 .. s.last - s.first + 1 |-> Line(s.first + i - 1)]

Ink(l) == {i \in DOMAIN l : l[i].ink}
Blank(l) == Ink(l) = {}

\* String.trim, of lines joined by newlines.
Trim(ls) ==
  LET inky == {i \in DOMAIN ls : ~ Blank(ls[i])}
      lo == Min(inky)  hi == Max(inky)
      left(i) == IF i = lo THEN Min(Ink(ls[i])) ELSE 1
      right(i) == IF i = hi THEN Max(Ink(ls[i])) ELSE Len(ls[i])
  IN IF inky = {} THEN <<>>
     ELSE [i \in 1 .. hi - lo + 1 |->
             SubSeq(ls[lo + i - 1], left(lo + i - 1), right(lo + i - 1))]

\* The length of lines joined by newlines.
Length(ls) == IF ls = <<>> THEN 0 ELSE FoldLeft(LAMBDA n, l : n + Len(l) + 1, 0, ls) - 1

Characters(ls) == UNION {ToSet(ls[i]) : i \in DOMAIN ls}

-----------------------------------------------------------------------------
(* The options as they are used.                                           *)

ChunkLines == Larger(1, options.chunkLines)
MaxChunkChars == Larger(1, options.maxChunkChars)

\* Mutant: a window starts one line too late.
OneLineLess == ChunkLines + 1 - Smaller(options.overlapLines, ChunkLines - 1)

\* The step from a window to the next; the overlap is less than a window.
WindowStep == ChunkLines - Smaller(options.overlapLines, ChunkLines - 1)

-----------------------------------------------------------------------------
(* Sections.                                                               *)

Lines == DOMAIN file

\* A fence opens and closes in turn.
InFence(n) == Cardinality({m \in 1 .. n : file[m].fence}) % 2 = 1

\* chunkMarkdownFile: a heading outside fences starts a section.
MarkdownSections ==
  LET starts == {n \in Lines : n = 1 \/ (file[n].heading /\ ~ InFence(n))}
      end(n) == Min({m \in n .. Len(file) : m = Len(file) \/ m + 1 \in starts})
  IN {[first |-> n, last |-> end(n)] : n \in starts}

\* chunkParagraphTextFile: blank lines separate sections.
Paragraphs ==
  LET blank(n) == n \notin Lines \/ Blank(Line(n))
      starts == {n \in Lines : ~ blank(n) /\ blank(n - 1)}
      end(n) == Min({m \in n .. Len(file) : blank(m + 1)})
  IN {[first |-> n, last |-> end(n)] : n \in starts}

\* Sections are cut in the order of the file.
First(ss) == CHOOSE s \in ss : \A t \in ss : s.first <= t.first

\* The spans of nodes do not overlap; a file with a syntax error has none.
NodeSets ==
  LET spans == {s \in [first : 1 .. MaxLines, last : 1 .. MaxLines] : s.first <= s.last}
  IN {ns \in {{}} \cup {{p, q} : p, q \in spans} :
        \A p, q \in ns : p = q \/ p.last < q.first \/ q.last < p.first}

Init ==
  /\ mode \in Modes
  /\ options \in Options
  /\ file \in UNION {[1 .. n -> LineKinds] : n \in 1 .. MaxLines}
  /\ nodes \in IF mode # "tree-sitter" THEN {{}}
               ELSE {ns \in NodeSets : \A n \in ns :
                       n.last <= Len(file) /\ ~ Blank(Line(n.first)) /\ ~ Blank(Line(n.last))}
  /\ pc = "split"
  /\ sections = {} /\ part = [lines |-> <<>>, base |-> 1]
  /\ start = 0 /\ line = 0
  /\ buffer = [lines |-> <<>>, first |-> 1]
  /\ cut = <<>> /\ chunks = <<>>

-----------------------------------------------------------------------------
(* chunkFileWithLineWindows and pushBoundedLineChunks.                     *)

\* The call for these lines, the first of which counts as line base.
Windows(lines, base) ==
  /\ part' = [lines |-> lines, base |-> base]
  /\ start' = 0 /\ line' = 0
  /\ buffer' = [lines |-> <<>>, first |-> base]
  /\ cut' = <<>>
  /\ pc' = "windows"

Quiet == UNCHANGED <<part, start, line, buffer, cut>>

WindowEnd == Smaller(start + ChunkLines, Len(part.lines))

\* pushChunk.
Pushed(cs, lines, first, last) ==
  LET text == Trim(lines) IN
  IF text = <<>> THEN cs
  ELSE Append(cs, [text |-> text, first |-> first, last |-> last, index |-> Len(cs)])

\* flush.
Flushed(last) == Pushed(cut, buffer.lines, buffer.first, last)

\* The pieces of a line that is longer than a chunk may be.
Piece(l, i) == SubSeq(l, (i - 1) * MaxChunkChars + 1, Smaller(i * MaxChunkChars, Len(l)))
Pieces(cs, l, n) ==
  FoldLeft(LAMBDA acc, i : Pushed(acc, <<Piece(l, i)>>, n, n), cs,
           [i \in 1 .. (Len(l) + MaxChunkChars - 1) \div MaxChunkChars |-> i])

\* Mutant: the newline before the line is not counted.
FitsWithout(lines) == Length(Trim(lines)) <= MaxChunkChars + 1

Fits(lines) == Length(Trim(lines)) <= MaxChunkChars

\* Mutant: what was gathered before a long line is forgotten.
ForgetBuffer(last) == cut

BeforeLong(last) == IF buffer.lines = <<>> THEN cut ELSE Flushed(last)

\* Mutant: after a flush the buffer keeps its first line.
StaleFirst(gathered, number) == IF buffer.lines = <<>> THEN number ELSE buffer.first

\* bufferStartLine, when a line is added to what was gathered.
FirstLine(gathered, number) == IF gathered = <<>> THEN number ELSE buffer.first

NextLine ==
  LET l == part.lines[start + line + 1]
      number == part.base + start + line
      full == ~ Fits(Append(buffer.lines, l)) /\ buffer.lines # <<>>
      gathered == IF full THEN <<>> ELSE buffer.lines
  IN
  /\ pc = "windows" /\ start + line < WindowEnd
  /\ IF Len(l) > MaxChunkChars
     THEN /\ cut' = Pieces(BeforeLong(number - 1), l, number)
          /\ buffer' = [lines |-> <<>>, first |-> number + 1]
     ELSE /\ cut' = IF full THEN Flushed(number - 1) ELSE cut
          /\ buffer' = [lines |-> Append(gathered, l),
                        first |-> FirstLine(gathered, number)]
  /\ line' = line + 1
  /\ UNCHANGED <<input, mode, pc, sections, part, start, chunks>>

\* The end of a window: the last one, or the next starts.
EndWindow ==
  /\ pc = "windows" /\ start + line = WindowEnd
  /\ cut' = IF buffer.lines = <<>> THEN cut ELSE Flushed(part.base + WindowEnd - 1)
  /\ buffer' = [buffer EXCEPT !.lines = <<>>]
  /\ line' = 0
  /\ IF WindowEnd >= Len(part.lines)
     THEN pc' = "sections" /\ chunks' = chunks \o cut' /\ UNCHANGED start
     ELSE start' = start + WindowStep /\ UNCHANGED <<pc, chunks>>
  /\ UNCHANGED <<input, mode, sections, part>>

-----------------------------------------------------------------------------
(* SmartChunker.chunkFile.                                                 *)

Split ==
  /\ pc = "split"
  /\ CASE mode = "line-window" ->
            Windows(LinesOf([first |-> 1, last |-> Len(file)]), 1) /\ UNCHANGED sections
       [] mode # "line-window" ->
            /\ sections' = CASE mode = "markdown" -> MarkdownSections
                             [] mode = "text" -> Paragraphs
                             [] mode = "tree-sitter" -> nodes
            /\ pc' = "sections" /\ Quiet
  /\ UNCHANGED <<input, mode, chunks>>

\* What fits is one chunk, the rest is cut into windows.
Whole(text, s, index) ==
  Append(chunks, [text |-> text, first |-> s.first, last |-> s.last, index |-> index])

\* chunksFromTextSections.
NextSection ==
  LET s == First(sections)  text == Trim(LinesOf(s)) IN
  /\ pc = "sections" /\ mode # "tree-sitter" /\ sections # {}
  /\ sections' = sections \ {s}
  /\ IF Length(text) > MaxChunkChars
     THEN Windows(text, s.first) /\ UNCHANGED chunks
     ELSE /\ chunks' = IF text = <<>> THEN chunks ELSE Whole(text, s, Len(chunks))
          /\ UNCHANGED pc /\ Quiet
  /\ UNCHANGED <<input, mode>>

\* chunkSemanticNode: the bytes of a node begin and end with ink, so that its
\* text is trimmed without moving its lines.
NextNode ==
  LET n == First(sections)  text == Trim(LinesOf(n)) IN
  /\ pc = "sections" /\ mode = "tree-sitter" /\ sections # {}
  /\ sections' = sections \ {n}
  /\ IF Length(text) > MaxChunkChars
     THEN Windows(text, n.first) /\ UNCHANGED chunks
     ELSE chunks' = Whole(text, n, 0) /\ UNCHANGED pc /\ Quiet
  /\ UNCHANGED <<input, mode>>

\* reindexChunks.
Reindexed(cs) == [i \in DOMAIN cs |-> [cs[i] EXCEPT !.index = i - 1]]

\* A source file in which no node gives a chunk is cut by line windows.
Finish ==
  /\ pc = "sections" /\ sections = {}
  /\ IF mode = "tree-sitter" /\ chunks = <<>>
     THEN pc' = "split" /\ mode' = "line-window" /\ UNCHANGED chunks
     ELSE pc' = "done" /\ chunks' = Reindexed(chunks) /\ UNCHANGED mode
  /\ UNCHANGED <<input, sections>> /\ Quiet

Next == Split \/ NextSection \/ NextNode \/ NextLine \/ EndWindow \/ Finish

Spec == Init /\ [][Next]_vars

-----------------------------------------------------------------------------
(* Properties.                                                             *)

\* The types of the variables.
TypeOK ==
  /\ mode \in Modes \cup {"line-window"} /\ options \in Options
  /\ pc \in {"split", "sections", "windows", "done"}
  /\ pc = "windows" => start < Len(part.lines) /\ start + line <= WindowEnd
  /\ \A i \in DOMAIN chunks : chunks[i].text # <<>> /\ chunks[i].first <= chunks[i].last

\* No chunk is longer than the embedding service is promised, however lines and
\* sections are joined (pushBoundedLineChunks, chunksFromTextSections).
ChunksFit ==
  \A c \in ToSet(cut) \cup ToSet(chunks) : Length(c.text) <= MaxChunkChars

\* The characters that a chunker must keep: all that are not blank, or those of
\* the nodes it was given.
ToKeep ==
  LET kept == IF mode = "tree-sitter" THEN UNION {n.first .. n.last : n \in nodes}
              ELSE Lines
  IN UNION {{x \in Characters(<<Line(n)>>) : x.ink} : n \in kept}

Holders(x) == {i \in DOMAIN chunks : x \in Characters(chunks[i].text)}

\* Every character is in a chunk, and without an overlap in one only: windows,
\* long lines and sections neither drop nor repeat text.
NothingLost ==
  pc = "done" =>
    \A x \in ToKeep :
      /\ Holders(x) # {}
      /\ WindowStep = ChunkLines => Cardinality(Holders(x)) = 1

\* A chunk has text of the lines it names, and of no others.
OnItsLines(c) ==
  {x.at[1] : x \in {y \in Characters(c.text) : y.ink}}
    = {n \in c.first .. c.last : n \in Lines /\ ~ Blank(Line(n))}

\* Chunks name their lines, except in a Markdown file that begins with a blank line:
\* its preamble is trimmed before it is cut into windows.
LinesNamed ==
  (mode = "markdown" => ~ Blank(Line(1))) =>
    \A c \in ToSet(cut) \cup ToSet(chunks) : OnItsLines(c)

=============================================================================
