------------------------------ MODULE RepoIndex ------------------------------
(***************************************************************************)
(* RepoIndexer.processJob (src/code-indexer/repoIndexer.ts): the jobs of   *)
(* one repository, in the order of the queue.  A push of the default       *)
(* branch is applied to the index as the difference of two commits, or     *)
(* falls back to a full index; a pull request has a collection of its own; *)
(* deletion removes what the manifests list.                               *)
(*                                                                         *)
(* The queue runs the jobs of a repository one at a time (IndexingQueue),  *)
(* so nobody else touches its collections; how the file workers and the    *)
(* batches of a full index interleave is FullIndex.  Each call of GitHub   *)
(* or of a store may throw: the attempt ends with what it has done so far, *)
(* and the queue runs the job again from its start or gives it up.         *)
(*                                                                         *)
(* GitHub is external: commits, their trees, and how it reports a          *)
(* difference.                                                             *)
(***************************************************************************)
EXTENDS Naturals, FiniteSets, FiniteSetsExt, SequencesExt

CONSTANTS Commits, First,        \* the commits, and the one the branch starts with
          Children, Rewrites,    \* the commits a push, and a forced push, can put after c
          Paths, Config,         \* paths, as sequences of segments; REPO_CONFIG_PATH
          Rank,                  \* the order in which a comparison lists its files
          Tree,                  \* Tree[c][p]: the blob of path p in commit c, or None
          Settings,              \* what a blob of Config says: valid, limits, excluded
          ChunkCount,            \* ChunkCount[b][limits]: the chunks of blob b
          None, Branch,          \* no blob; the name of the default branch used as a sha
          MaxAttempts,           \* CODE_INDEXER_JOB_MAX_ATTEMPTS
          MaxChanged,            \* maxChangedFilesForIncremental
          MaxFiles, MaxChunks,   \* the quotas of a repository
          MaxPushes, MaxRequests, MaxErrors,  \* bounds; a deploy counts as a request
          Requests,              \* the kinds of jobs other than pushes
          Events                 \* what may go wrong, see EventKinds

EventKinds ==
  { "error",     \* a call of GitHub, the embedding service or a store throws
    "reorder",   \* deliveries arrive out of order
    "lose" }     \* a delivery never arrives

Blobs == (UNION {{Tree[c][p] : p \in Paths} : c \in Commits}) \ {None}
Colls == {"default", "pr"}
Configs == {Tree[c][Config] : c \in Commits}
Fingerprints == {0, 1} \X {Settings[cfg].limits : cfg \in Configs}

\* Of a commit or the branch; the commit and configuration that were read; the
\* number of chunks of each file.
Manifests == [sha : Commits \cup {Branch}, at : Commits, cfg : Configs,
              fp : Fingerprints, files : [Paths -> Nat]]

ASSUME RepoIndexAssumption ==
  /\ First \in Commits
  /\ {Children, Rewrites} \subseteq [Commits -> SUBSET Commits]
  /\ IsFiniteSet(Paths) /\ Config \in Paths
  /\ Rank \in [Paths -> Nat]
  /\ \A p, q \in Paths : Rank[p] = Rank[q] => p = q
  /\ \A p \in Paths : p \in Seq(Range(p))
  /\ \A p, q \in Paths : IsPrefix(p, q) /\ p # q =>
       /\ Rank[p] < Rank[q]                                          \* names are sorted
       /\ \A c \in Commits : Tree[c][p] = None \/ Tree[c][q] = None  \* a file is no directory
  /\ \A c \in Commits : DOMAIN Tree[c] = Paths
  /\ \A b \in Blobs, cfg \in Configs : ChunkCount[b][Settings[cfg].limits] \in Nat
  /\ Branch \notin Commits
  /\ None \notin Blobs /\ None \notin Commits \cup {Branch} /\ None \notin Paths \cup Manifests
  /\ MaxAttempts \in Nat \ {0}
  /\ {MaxChanged, MaxFiles, MaxChunks, MaxPushes, MaxRequests, MaxErrors} \subseteq Nat
  /\ Requests \subseteq {"full", "rerun", "pr", "closePr", "delete"}
  /\ Events \subseteq EventKinds

VARIABLES
  head,      \* GitHub: the commit of the default branch
  prHead,    \* GitHub: the commit of refs/pull/<n>/head
  inbox,     \* pushes whose delivery has not arrived
  queue,     \* the jobs of the repository that wait
  job,       \* the job that runs, see Idle
  points,    \* points[k]: the points of collection k
  exists,    \* the collections that exist
  manifest,  \* manifest[k]: the manifest of collection k, or None
  status,    \* the repository's row
  build,     \* the chunker of the deployed build, part of the fingerprint
  used,      \* how many pushes, requests and errors there were
  mishap     \* history: mishap[k]: what happened to collection k only a full index repairs

vars == <<head, prHead, inbox, queue, job, points, exists, manifest, status, build,
          used, mishap>>

github  == <<head, prHead, inbox>>

-----------------------------------------------------------------------------
(* GitHub.                                                                 *)

Present(c) == {p \in Paths : Tree[c][p] # None}
Differ(b, a) == {p \in Paths : Tree[b][p] # Tree[a][p]}

\* The files of a comparison.  A file that is new, with the content of one that
\* is gone, is a rename.
Changes(b, a) ==
  LET gone == Present(b) \ Present(a)
      moved(p) == {q \in gone : p \notin Present(b) /\ Tree[b][q] = Tree[a][p]}
      renamed == {p \in Present(a) : moved(p) # {}}
      from(p) == CHOOSE q \in moved(p) : TRUE
  IN {[path |-> p,
       previous |-> IF p \in renamed THEN from(p) ELSE None,
       removed |-> p \notin Present(a)] : p \in Differ(b, a) \ {from(q) : q \in renamed}}

-----------------------------------------------------------------------------
(* What is indexed.                                                        *)

ConfigOf(c) == Tree[c][Config]
Limits(cfg) == Settings[cfg].limits

\* shouldIndexFile, as far as the configuration decides it.
Indexed(c, cfg) == Present(c) \ Settings[cfg].excluded

Fingerprint(cfg) == <<build, Limits(cfg)>>

\* The points of a file: its chunks, cut as the fingerprint says.
Chunks(p, b, fp) == {<<p, b, fp, i>> : i \in 1 .. ChunkCount[b][fp[2]]}
FilePoints(c, cfg, fp, p) == IF p \in Indexed(c, cfg) THEN Chunks(p, Tree[c][p], fp) ELSE {}
PathOf(point) == point[1]

\* deletePath deletes every point whose path starts with the segments of p.
Without(S, p) == {x \in S : ~ IsPrefix(p, PathOf(x))}

\* Paths that are indexed and then deleted again, with what lay at the old path
\* of a rename.
Wiped(es) ==
  {e.path : e \in {x \in es : ~ x.removed /\ \E y \in es :
                       /\ y.previous # None /\ IsPrefix(y.previous, x.path)
                       /\ Rank[y.path] > Rank[x.path]}}

Total(listed) == MapThenSumSet(LAMBDA p : listed[p], Paths)
NoFiles == [p \in Paths |-> 0]

-----------------------------------------------------------------------------
\* A job: its step pc, the request it serves, how often it was tried, the commit
\* and configuration it indexes, the files or collections still to do, the
\* chunks of the files it will list, and whether it is a full index.
NoRequest == [kind |-> "none", before |-> None, after |-> None, forced |-> FALSE]
Idle == [pc |-> "idle", req |-> NoRequest, tries |-> 0, at |-> None, cfg |-> None,
         todo |-> {}, listed |-> NoFiles, full |-> FALSE]

Coll == IF job.req.kind \in {"pr", "closePr"} THEN "pr" ELSE "default"

\* Mutant: the jobs of pull requests write the repository's status as well.
OfAnyBranch(req) == req.kind \in {"full", "push", "pr"}

\* updatesDefaultBranchStatus.
OfDefaultBranch(req) == req.kind \in {"full", "push"}

\* The order of the file names of the collections.
Sooner(k, l) == k = "default" /\ l = "pr"

Init ==
  /\ head = First /\ prHead = First /\ inbox = <<>>
  /\ queue = <<[NoRequest EXCEPT !.kind = "full", !.after = Branch]>>
  /\ job = Idle
  /\ points = [k \in Colls |-> {}] /\ exists = {}
  /\ manifest = [k \in Colls |-> None]
  /\ status = [state |-> "queued", sha |-> None, chunks |-> 0]
  /\ build = 0
  /\ used = [pushes |-> 0, requests |-> 0, errors |-> 0]
  /\ mishap = [k \in Colls |-> FALSE]

-----------------------------------------------------------------------------
(* The world.                                                              *)

\* History: the index of these collections may no longer follow their branches.
Spoilt(ks) == [k \in Colls |-> mishap[k] \/ k \in ks]

Use(what, bound) == used[what] < bound /\ used' = [used EXCEPT ![what] = @ + 1]
System == <<job, points, exists, manifest, status>>

\* A push of the default branch.
Push(c, forced) ==
  /\ c \in IF forced THEN Rewrites[head] ELSE Children[head]
  /\ Use("pushes", MaxPushes)
  /\ head' = c
  /\ inbox' = Append(inbox, [kind |-> "push", before |-> head, after |-> c, forced |-> forced])
  /\ UNCHANGED <<prHead, queue, System, build, mishap>>

PullRequestPush(c) ==
  /\ "pr" \in Requests /\ c \in Children[prHead]
  /\ Use("pushes", MaxPushes)
  /\ prHead' = c
  /\ queue' = Append(queue, [NoRequest EXCEPT !.kind = "pr", !.after = c])
  /\ UNCHANGED <<head, inbox, System, build, mishap>>

\* pushJobs: a delivery arrives and becomes a job.
Deliver(i) ==
  /\ i = 1 \/ "reorder" \in Events
  /\ queue' = Append(queue, inbox[i])
  /\ inbox' = RemoveAt(inbox, i)
  /\ mishap' = IF i = 1 THEN mishap ELSE Spoilt({"default"})
  /\ UNCHANGED <<head, prHead, System, build, used>>

Lose(i) ==
  /\ "lose" \in Events
  /\ inbox' = RemoveAt(inbox, i)
  /\ mishap' = Spoilt({"default"})
  /\ UNCHANGED <<head, prHead, queue, System, build, used>>

\* A reindex from the dashboard, a check run of an older commit that is run again,
\* the end of a pull request, the removal of the repository.
Request(kind, c) ==
  /\ kind \in Requests \ {"pr"}
  /\ Use("requests", MaxRequests)
  /\ queue' = Append(queue,
       [NoRequest EXCEPT !.kind = IF kind = "rerun" THEN "full" ELSE kind,
                         !.after = IF kind = "rerun" THEN c ELSE Branch])
  /\ UNCHANGED <<github, System, build, mishap>>

\* History: the build is rolled back to that of the manifest between two attempts of
\* a push.  The first may have emptied the collection for the other build, whose
\* fingerprint differed; the next one takes the manifest for what is indexed.
RolledBack ==
  /\ job.req.kind = "push" /\ job.tries > 0
  /\ manifest["default"] # None /\ manifest["default"].fp[1] = 1 - build

\* Another build is deployed; only the next attempt notices.
Deploy ==
  /\ job.pc = "begin"
  /\ Use("requests", MaxRequests)
  /\ build' = 1 - build
  /\ mishap' = IF RolledBack THEN Spoilt({"default"}) ELSE mishap
  /\ UNCHANGED <<github, queue, System>>

-----------------------------------------------------------------------------
(* processJob.                                                             *)

Step(pc) == job.pc = pc /\ UNCHANGED <<github, build, used>>
Goto(pc) == job' = [job EXCEPT !.pc = pc]

Claim ==
  /\ Step("idle") /\ queue # <<>>
  /\ job' = [Idle EXCEPT !.pc = "begin", !.req = Head(queue)]
  /\ queue' = Tail(queue)
  /\ UNCHANGED <<points, exists, manifest, status, mishap>>

\* shouldFallbackToFullIndex decides where a push starts.
FirstStep(req) ==
  CASE req.kind \in {"full", "pr"}          -> "config"
    [] req.kind = "push" /\ req.forced      -> "config"
    [] req.kind = "push" /\ ~ req.forced    -> "manifest"
    [] req.kind = "closePr"                 -> "drop"
    [] req.kind = "delete"                  -> "list"

\* markIndexing.
Start ==
  /\ Step("begin")
  /\ job' = [job EXCEPT !.pc = FirstStep(job.req),
                        !.todo = IF job.req.kind = "closePr" THEN {"pr"} ELSE {}]
  /\ status' = IF OfDefaultBranch(job.req) THEN [status EXCEPT !.state = "indexing"] ELSE status
  /\ UNCHANGED <<queue, points, exists, manifest, mishap>>

\* Mutant: a failed attempt is not counted.
NotTried(n) == n

Tried(n) == n + 1

\* Mutant: one attempt too many.
OneMore(n) == n + 1 <= MaxAttempts

TriedAgain(n) == n + 1 < MaxAttempts

\* The attempt throws.  The queue runs the job again, or reports its failure.
Throws ==
  /\ job' = IF TriedAgain(job.tries)
            THEN [Idle EXCEPT !.pc = "begin", !.req = job.req, !.tries = Tried(job.tries)]
            ELSE Idle
  /\ IF TriedAgain(job.tries)
     THEN UNCHANGED <<status, mishap>>
     ELSE /\ status' = IF OfDefaultBranch(job.req)
                       THEN [status EXCEPT !.state = "failed"] ELSE status
          /\ mishap' = Spoilt(IF job.req.kind = "delete" THEN Colls ELSE {Coll})
  /\ UNCHANGED <<queue, manifest>>

\* The commit that a full index reads: a branch name and refs/pull/<n>/head are
\* looked up when they are read.
RefOf(req) ==
  CASE req.kind = "pr" -> prHead
    [] req.kind # "pr" /\ req.after = Branch -> head
    [] OTHER -> req.after

-----------------------------------------------------------------------------
(* fullIndex and pullRequestIndex.                                         *)

\* loadRepoIndexingConfig: of the commit, or of the base branch of a pull request.
LoadConfig ==
  LET cfg == ConfigOf(IF job.req.kind = "pr" THEN head ELSE RefOf(job.req)) IN
  /\ Step("config")
  /\ IF Settings[cfg].valid
     THEN /\ job' = [job EXCEPT !.pc = "tree", !.cfg = cfg, !.full = TRUE]
          /\ UNCHANGED <<queue, manifest, status, mishap>>
     ELSE Throws
  /\ UNCHANGED <<points, exists>>

ReadTree ==
  LET at == RefOf(job.req)  files == Indexed(at, job.cfg) IN
  /\ Step("tree")
  /\ IF Cardinality(files) > MaxFiles
     THEN Throws
     ELSE /\ job' = [job EXCEPT !.pc = "reset", !.at = at, !.todo = files, !.listed = NoFiles]
          /\ UNCHANGED <<queue, manifest, status, mishap>>
  /\ UNCHANGED <<points, exists>>

\* Mutant: the points of the last index stay.
KeepsPoints(S) == S

NoPoints(S) == {}

\* resetCollection.
Reset ==
  /\ Step("reset")
  /\ points' = [points EXCEPT ![Coll] = NoPoints(@)]
  /\ exists' = exists \cup {Coll}
  /\ Goto("files")
  /\ UNCHANGED <<queue, manifest, status, mishap>>

\* One file of the snapshot, in any order; FullIndex has the details.
IndexFile(p) ==
  LET new == Chunks(p, Tree[job.at][p], Fingerprint(job.cfg)) IN
  /\ Step("files") /\ p \in job.todo
  /\ IF Total(job.listed) + Cardinality(new) > MaxChunks
     THEN Throws /\ UNCHANGED points
     ELSE /\ points' = [points EXCEPT ![Coll] = @ \cup new]
          /\ job' = [job EXCEPT !.todo = @ \ {p}, !.listed[p] = Cardinality(new)]
          /\ UNCHANGED <<queue, manifest, status, mishap>>
  /\ UNCHANGED exists

-----------------------------------------------------------------------------
(* incrementalPush.                                                        *)

SameFingerprint(fp) == manifest["default"].fp = fp

\* manifestStore.get: without a manifest, a full index.
GetManifest ==
  /\ Step("manifest")
  /\ job' = IF manifest["default"] = None THEN [job EXCEPT !.pc = "config"]
            ELSE [job EXCEPT !.pc = "settings", !.listed = manifest["default"].files]
  /\ UNCHANGED <<queue, points, exists, manifest, status, mishap>>

LoadPushConfig ==
  LET cfg == ConfigOf(job.req.after) IN
  /\ Step("settings")
  /\ IF Settings[cfg].valid
     THEN /\ job' = IF SameFingerprint(Fingerprint(cfg))
                    THEN [job EXCEPT !.pc = "compare", !.cfg = cfg]
                    ELSE [job EXCEPT !.pc = "config"]
          /\ UNCHANGED <<queue, manifest, status, mishap>>
     ELSE Throws
  /\ UNCHANGED <<points, exists>>

\* Mutant: a change of the configuration file is applied like any other.
NoConfigFallback(es) == Cardinality(es) > MaxChanged

TooMuchChanged(es) ==
  \/ Cardinality(es) > MaxChanged
  \/ \E e \in es : e.path = Config \/ e.previous = Config

Projected(es) ==
  LET kept == {p \in Paths : job.listed[p] > 0} \ UNION {{e.path, e.previous} : e \in es}
  IN kept \cup ({e.path : e \in {x \in es : ~ x.removed}} \ Settings[job.cfg].excluded)

Compare ==
  LET es == Changes(job.req.before, job.req.after) IN
  /\ Step("compare")
  /\ IF TooMuchChanged(es)
     THEN Goto("config") /\ UNCHANGED <<queue, manifest, status, mishap>>
     ELSE IF Cardinality(Projected(es)) > MaxFiles
          THEN Throws
          ELSE /\ job' = [job EXCEPT !.pc = "apply", !.todo = es, !.at = job.req.after]
               /\ UNCHANGED <<queue, manifest, status, mishap>>
  /\ exists' = IF job'.pc = "apply" THEN exists \cup {"default"} ELSE exists
  /\ UNCHANGED points

WithoutPrevious(S, e) == IF e.previous = None THEN S ELSE Without(S, e.previous)

\* The deletePath calls of applyChangedFile.
WithoutFile(S, e) == Without(WithoutPrevious(S, e), e.path)

NextChange == CHOOSE e \in job.todo : \A x \in job.todo : Rank[e.path] <= Rank[x.path]

NewChunks(e) ==
  IF e.removed \/ e.path \in Settings[job.cfg].excluded THEN {}
  ELSE Chunks(e.path, Tree[job.at][e.path], Fingerprint(job.cfg))

\* filesByPath without the old and the new name.
Unlisted(e) == [p \in Paths |-> IF p \in {e.path, e.previous} THEN 0 ELSE job.listed[p]]

ApplyChange ==
  LET e == NextChange  new == NewChunks(e)  rest == Unlisted(e) IN
  /\ Step("apply") /\ job.todo # {}
  /\ IF new # {} /\ Total(rest) + Cardinality(new) > MaxChunks
     THEN /\ points' = [points EXCEPT !["default"] = WithoutFile(@, e)]
          /\ Throws
     ELSE /\ points' = [points EXCEPT !["default"] = WithoutFile(@, e) \cup new]
          /\ job' = [job EXCEPT !.todo = @ \ {e},
                                !.listed = [rest EXCEPT ![e.path] = Cardinality(new)]]
          /\ UNCHANGED <<queue, manifest, status, mishap>>
  /\ UNCHANGED exists

-----------------------------------------------------------------------------
(* The end of an index job.                                                *)

Waiting == queue \o inbox
PushesWait == \E i \in DOMAIN Waiting : Waiting[i].kind = "push"

\* The next push that waits is of commit c.
Continues(c) ==
  \E i \in DOMAIN Waiting :
    /\ Waiting[i].kind = "push" /\ Waiting[i].before = c
    /\ \A j \in DOMAIN Waiting : Waiting[j].kind = "push" => i <= j

\* A full index repairs everything when it is of head, with head's configuration,
\* and no push waits; it breaks the chain of pushes when it is of another commit
\* than the one they start from.
StillSpoilt ==
  \/ /\ mishap["default"]
     /\ job.at # head \/ job.cfg # ConfigOf(head) \/ PushesWait
  \/ job.at # head /\ ~ Continues(job.at)

\* manifestStore.save.
SaveManifest ==
  /\ job.pc \in {"files", "apply"} /\ job.todo = {}
  /\ UNCHANGED <<github, build, used, queue, points, exists, status>>
  /\ manifest' = [manifest EXCEPT ![Coll] =
       [sha |-> job.req.after, at |-> job.at, cfg |-> job.cfg,
        fp |-> Fingerprint(job.cfg), files |-> job.listed]]
  /\ mishap' = [mishap EXCEPT ![Coll] =
       CASE Coll = "pr" -> FALSE
         [] Coll # "pr" /\ job.full -> StillSpoilt
         [] Coll # "pr" /\ ~ job.full -> @ \/ Wiped(Changes(job.req.before, job.req.after)) # {}]
  /\ Goto("finish")

\* markReady, with countCollection after an incremental job.
Finish ==
  /\ Step("finish")
  /\ status' = IF OfDefaultBranch(job.req)
               THEN [state |-> "ready", sha |-> job.req.after,
                     chunks |-> IF job.full THEN Total(job.listed)
                                ELSE Cardinality(points["default"])]
               ELSE status
  /\ job' = Idle
  /\ UNCHANGED <<queue, points, exists, manifest, mishap>>

-----------------------------------------------------------------------------
(* deleteRepoCollections and delete-pr-index.                              *)

\* Mutant: only the default collection is deleted.
DefaultOnly == {"default"}

\* listCollectionsByPrefix finds collections through their manifests.
Listed == {"default"} \cup {k \in Colls : manifest[k] # None}

ListCollections ==
  /\ Step("list")
  /\ job' = [job EXCEPT !.pc = "drop", !.todo = Listed]
  /\ UNCHANGED <<queue, points, exists, manifest, status, mishap>>

NextColl == CHOOSE k \in job.todo : \A l \in job.todo : ~ Sooner(l, k)

DropCollection ==
  /\ Step("drop")
  /\ points' = [points EXCEPT ![NextColl] = {}]
  /\ exists' = exists \ {NextColl}
  /\ Goto("unlist")
  /\ UNCHANGED <<queue, manifest, status, mishap>>

DeleteManifest ==
  /\ Step("unlist")
  /\ manifest' = [manifest EXCEPT ![NextColl] = None]
  /\ job' = IF job.todo # {NextColl}
            THEN [job EXCEPT !.pc = "drop", !.todo = @ \ {NextColl}]
            ELSE IF job.req.kind = "delete" THEN [job EXCEPT !.pc = "gone"] ELSE Idle
  /\ UNCHANGED <<queue, points, exists, status, mishap>>

\* markDeleted.
MarkDeleted ==
  /\ Step("gone")
  /\ status' = [status EXCEPT !.state = "deleted"]
  /\ job' = Idle
  /\ UNCHANGED <<queue, points, exists, manifest, mishap>>

-----------------------------------------------------------------------------
\* What a step that throws may have done to the points: part of a file's chunks,
\* the deletions that come before them, part of the deletion of a collection.
At == IF job.pc = "drop" THEN NextColl ELSE Coll

HalfDone ==
  CASE job.pc = "files" /\ job.todo # {} ->
         {points[Coll] \cup S : S \in UNION {SUBSET Chunks(p, Tree[job.at][p], Fingerprint(job.cfg))
                                             : p \in job.todo}}
    [] job.pc = "apply" /\ job.todo # {} ->
         {points[Coll], WithoutPrevious(points[Coll], NextChange)}
           \cup {WithoutFile(points[Coll], NextChange) \cup S : S \in SUBSET NewChunks(NextChange)}
    [] job.pc \in {"reset", "drop"} -> {points[At], {}}
    [] OTHER -> {points[At]}

StepThrows ==
  /\ "error" \in Events
  /\ job.pc # "idle" /\ Use("errors", MaxErrors)
  /\ \E S \in HalfDone :
       /\ points' = [points EXCEPT ![At] = S]
       /\ exists' \in {exists} \cup (IF job.pc \in {"reset", "drop"} /\ S = {}
                                     THEN {exists \ {At}} ELSE {})
  /\ Throws
  /\ UNCHANGED <<github, build>>

World ==
  \/ \E c \in Commits, forced \in BOOLEAN : Push(c, forced)
  \/ \E c \in Commits : PullRequestPush(c)
  \/ \E i \in DOMAIN inbox : Deliver(i) \/ Lose(i)
  \/ \E kind \in Requests, c \in Commits : Request(kind, c)
  \/ Deploy

Job ==
  \/ Claim \/ Start
  \/ LoadConfig \/ ReadTree \/ Reset \/ \E p \in Paths : IndexFile(p)
  \/ GetManifest \/ LoadPushConfig \/ Compare \/ ApplyChange
  \/ SaveManifest \/ Finish
  \/ ListCollections \/ DropCollection \/ DeleteManifest \/ MarkDeleted
  \/ StepThrows

Next == World \/ Job

Spec == Init /\ [][Next]_vars

\* The queue runs the jobs that wait, and every call is answered.
FairSpec == Spec /\ WF_vars(Job)

-----------------------------------------------------------------------------
(* Properties.                                                             *)

\* The types of the variables.
TypeOK ==
  /\ {head, prHead} \subseteq Commits /\ build \in {0, 1}
  /\ job.tries < MaxAttempts /\ DOMAIN job.listed = Paths
  /\ exists \subseteq Colls /\ DOMAIN points = Colls /\ DOMAIN manifest = Colls
  /\ \A k \in Colls \ exists : points[k] = {}
  /\ status.state \in {"queued", "indexing", "ready", "failed", "deleted"}
  /\ mishap \in [Colls -> BOOLEAN]

\* What collection k holds when it is the index its manifest describes.
AsListed(k) ==
  LET m == manifest[k]  contents(p) == FilePoints(m.at, m.cfg, m.fp, p) IN
  /\ points[k] = UNION {contents(p) : p \in Paths}
  /\ \A p \in Paths : m.files[p] = Cardinality(contents(p))

AtRest == job.pc = "idle" /\ queue = <<>> /\ inbox = <<>>

\* When every push was applied in its turn, the index is what a full index of the
\* branch's head would give, whatever attempts failed half way, were retried or
\* met another configuration or build (RepoIndexer.incrementalPush).
IndexIsHead ==
  AtRest /\ ~ mishap["default"] /\ manifest["default"] # None =>
    LET m == manifest["default"] IN
    m.at = head /\ m.cfg = ConfigOf(head) /\ AsListed("default")

\* After the last job of a pull request its collection holds what its head holds,
\* cut as its manifest says, and the manifest names that head.
PullRequestIsIndexed ==
  /\ job.pc = "idle" /\ ~ mishap["pr"] /\ manifest["pr"] # None
  /\ \A i \in DOMAIN queue : queue[i].kind # "pr"
  => manifest["pr"].at = prHead /\ manifest["pr"].sha = prHead /\ AsListed("pr")

\* A repository shown as ready has an index: of the commit it names, with as many
\* points as it says (RepoIndexer.markReady).
ReadyIsIndexed ==
  job.pc = "idle" /\ status.state = "ready" /\ ~ mishap["default"] =>
    /\ manifest["default"] # None
    /\ status.sha = manifest["default"].sha
    /\ status.chunks = Cardinality(points["default"])

\* A repository is marked as deleted when neither collections, points nor
\* manifests are left; a pull request whose job was given up may leave its own
\* (RepoIndexer.deleteRepoCollections).
DeletedIsGone ==
  job.pc = "gone" =>
    \A k \in Colls : k = "default" \/ ~ mishap["pr"] =>
      k \notin exists /\ points[k] = {} /\ manifest[k] = None

\* Every job ends, however often its attempts fail.
JobsEnd == <>[](job.pc = "idle" /\ queue = <<>>)

\* test/code-indexer/repoIndexer.test.ts:857: an incremental push deletes old paths
\* and indexes changed files.
ChangedFilesIndexed ==
  job.pc = "finish" /\ job.req.kind = "push" /\ ~ job.full =>
    \A p \in Differ(job.req.before, job.req.after) :
      FilePoints(job.at, job.cfg, manifest["default"].fp, p) \subseteq points["default"]

=============================================================================
