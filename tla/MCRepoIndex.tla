---------------------------- MODULE MCRepoIndex ----------------------------
(***************************************************************************)
(* Small histories for RepoIndex: c1 edits a file, c2 turns the file cli   *)
(* into a directory of that name, c3 changes the configuration, c4 breaks  *)
(* it, c5 has too many chunks, and in c6 the new name of cli comes after   *)
(* another new file below cli.                                                           *)
(***************************************************************************)
EXTENDS RepoIndex, TLC

Cfg == <<"qdrant.json">>
Cli == <<"cli">>
CliArgs == <<"cli", "args">>
CliMain == <<"cli", "main">>
SrcA == <<"src", "a">>

MCPaths == {Cfg, Cli, CliArgs, CliMain, SrcA}
MCRank == Cli :> 2 @@ CliArgs :> 3 @@ CliMain :> 4 @@ Cfg :> 5 @@ SrcA :> 6

Files(pairs) == [p \in MCPaths |-> IF p \in DOMAIN pairs THEN pairs[p] ELSE None]

MCCommits == {"c0", "c1", "c2", "c3", "c4", "c5", "c6"}
MCTree ==
  [c0 |-> Files(Cfg :> "A" @@ Cli :> "x" @@ SrcA :> "y"),
   c1 |-> Files(Cfg :> "A" @@ Cli :> "x" @@ SrcA :> "z"),
   c2 |-> Files(Cfg :> "A" @@ CliArgs :> "x" @@ CliMain :> "w" @@ SrcA :> "z"),
   c3 |-> Files(Cfg :> "B" @@ Cli :> "x" @@ SrcA :> "z"),
   c4 |-> Files(Cfg :> "bad" @@ Cli :> "x" @@ SrcA :> "z"),
   c5 |-> Files(Cfg :> "A" @@ Cli :> "y" @@ SrcA :> "y"),
   c6 |-> Files(Cfg :> "A" @@ CliArgs :> "w" @@ CliMain :> "x" @@ SrcA :> "z")]
MCChildren ==
  [c0 |-> {"c1", "c5"}, c1 |-> {"c2", "c3", "c4"}, c2 |-> {}, c3 |-> {"c1"},
   c4 |-> {"c3"}, c5 |-> {}, c6 |-> {}]
Renames == [MCChildren EXCEPT !["c1"] = {"c6"}]
MCRewrites == [c \in MCCommits |-> IF c = "c1" THEN {"c0"} ELSE {}]

\* B leaves cli out.
MCSettings ==
  [A |-> [valid |-> TRUE, limits |-> "small", excluded |-> {Cfg}],
   B |-> [valid |-> TRUE, limits |-> "small", excluded |-> {Cfg, Cli}],
   bad |-> [valid |-> FALSE, limits |-> "small", excluded |-> {}]]
MCChunkCount ==
  [b \in {"x", "y", "z", "w", "A", "B", "bad"} |->
     [small |-> CASE b \in {"x", "z", "w"} -> 1 [] b = "y" -> 2 [] OTHER -> 0]]
=============================================================================
