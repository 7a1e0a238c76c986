----------------------------- MODULE MCChunker -----------------------------
(***************************************************************************)
(* Files of up to four lines that are empty, blank, short, indented or     *)
(* longer than a chunk, with headings and fences.                          *)
(***************************************************************************)
EXTENDS Chunker

Plain(ink) == [ink |-> ink, heading |-> FALSE, fence |-> FALSE]

Empty == Plain(<<>>)
Short == Plain(<<TRUE>>)
Indented == Plain(<<FALSE, TRUE>>)
Long == Plain(<<TRUE, FALSE, TRUE, FALSE, TRUE>>)
Heading == [Plain(<<TRUE, TRUE>>) EXCEPT !.heading = TRUE]
Fence == [Plain(<<TRUE, TRUE, TRUE>>) EXCEPT !.fence = TRUE]

MCLineKinds == {Empty, Short, Indented, Long, Heading, Fence}

Option(lines, overlap, chars) ==
  [chunkLines |-> lines, overlapLines |-> overlap, maxChunkChars |-> chars]
MCOptions == {Option(2, 0, 4), Option(2, 1, 3), Option(3, 5, 4), Option(0, 0, 2)}
=============================================================================
