--------------------------- MODULE RepoIndexProofs ---------------------------
(***************************************************************************)
(* Theorems about RepoIndex, for every history of commits, every number of *)
(* pushes, requests, errors and deployments.  Shape holds the types;       *)
(* DropInv, PullRequestInv and ReadyInv are the inductive invariants of    *)
(* the deletion, of the pull requests and of the repository's row; FullInv *)
(* says what a full index has done so far, and the last two rest on it.    *)
(* The index of the default branch is in RepoIndexHeadProofs.              *)
(***************************************************************************)
EXTENDS RepoIndex, FiniteSetTheorems, WellFoundedInduction, TLAPS

-----------------------------------------------------------------------------
(* Counting.  What is proved by induction is the set of numbers for which  *)
(* it holds, so that no operator has to be passed to a theorem.            *)

LEMMA LessWF == IsWellFoundedOn({s \in Nat \X Nat : s[1] < s[2]}, Nat)
  BY NatLessThanWellFounded DEF OpToRel

LEMMA Least ==
  ASSUME NEW T, T \subseteq Nat, T # {}
  PROVE  \E n \in T : \A m \in T : n <= m
<1> DEFINE R == {s \in Nat \X Nat : s[1] < s[2]}
<1>1. PICK n \in T : \A m \in T : ~ (<<m, n>> \in R)
  BY LessWF, WFMin
<1>2. \A m \in T : n <= m
  <2> SUFFICES ASSUME NEW m \in T PROVE n <= m
    OBVIOUS
  <2>1. <<m, n>> \in Nat \X Nat /\ ~ (<<m, n>> \in R)
    BY <1>1
  <2>2. ~ (m < n)
    BY <2>1
  <2>3. QED
    BY <2>2
<1>3. QED
  BY <1>2

LEMMA Induction ==
  ASSUME NEW T, 0 \in T, \A n \in T : n + 1 \in T
  PROVE  Nat \subseteq T
<1>1. SUFFICES ASSUME Nat \ T # {} PROVE FALSE
  OBVIOUS
<1>2. PICK n \in Nat \ T : \A m \in Nat \ T : n <= m
  BY <1>1, Least
<1>3. n # 0 /\ n - 1 \in Nat
  BY <1>2
<1>4. n - 1 \in T
  BY <1>2, <1>3
<1>5. (n - 1) + 1 \in T
  BY <1>4
<1>6. QED
  BY <1>2, <1>3, <1>5

\* A set whose elements have ranks has one with the least rank.
LEMMA LeastRank ==
  ASSUME NEW T, T # {}, NEW rank, \A x \in T : rank[x] \in Nat
  PROVE  \E x \in T : \A y \in T : rank[x] <= rank[y]
<1>1. PICK n \in {rank[x] : x \in T} : \A m \in {rank[x] : x \in T} : n <= m
  BY Least
<1>2. QED
  BY <1>1

\* The sizes of disjoint finite sets add up to the size of their union.
SumOf(l, S) == MapThenSumSet(LAMBDA p : l[p], S)
UnionOf(C, S) == UNION {C[p] : p \in S}

LEMMA SumOfSizes ==
  ASSUME NEW S, IsFiniteSet(S), NEW C, NEW l,
         \A p \in S : IsFiniteSet(C[p]) /\ l[p] = Cardinality(C[p]),
         \A p, q \in S : p # q => C[p] \cap C[q] = {}
  PROVE  IsFiniteSet(UnionOf(C, S)) /\ SumOf(l, S) = Cardinality(UnionOf(C, S))
<1> DEFINE U(t) == UNION {C[p] : p \in t}
           first(t) == CHOOSE x \in t : TRUE
           Adds(f) == f = [t \in SUBSET S |->
                             IF t = {} THEN 0 ELSE l[first(t)] + f[t \ {first(t)}]]
           g == [t \in SUBSET S |-> Cardinality(U(t))]
           iter == CHOOSE f : Adds(f)
           Small == {n \in Nat : \A s \in SUBSET S : Cardinality(s) = n =>
                       IsFiniteSet(U(s)) /\ iter[s] = Cardinality(U(s))}
<1>1. \A s \in SUBSET S : \A x \in s :
        IsFiniteSet(U(s \ {x})) =>
          IsFiniteSet(U(s)) /\ Cardinality(U(s)) = l[x] + Cardinality(U(s \ {x}))
  <2> SUFFICES ASSUME NEW s \in SUBSET S, NEW x \in s, IsFiniteSet(U(s \ {x}))
               PROVE  /\ IsFiniteSet(U(s))
                      /\ Cardinality(U(s)) = l[x] + Cardinality(U(s \ {x}))
    OBVIOUS
  <2>1. U(s) = C[x] \cup U(s \ {x})
    OBVIOUS
  <2>2. C[x] \cap U(s \ {x}) = {}
    OBVIOUS
  <2>3. IsFiniteSet(C[x]) /\ l[x] = Cardinality(C[x])
    OBVIOUS
  <2> HIDE DEF U
  <2>4. IsFiniteSet(C[x] \cup U(s \ {x}))
        /\ Cardinality(C[x] \cup U(s \ {x})) =
             Cardinality(C[x]) + Cardinality(U(s \ {x})) - Cardinality(C[x] \cap U(s \ {x}))
    BY <2>3, FS_Union
  <2>5. Cardinality({}) = 0 /\ Cardinality(C[x]) \in Nat /\ Cardinality(U(s \ {x})) \in Nat
    BY <2>3, FS_EmptySet, FS_CardinalityType
  <2>6. Cardinality(C[x] \cap U(s \ {x})) = 0
    BY <2>2, <2>5
  <2>7. Cardinality(C[x] \cup U(s \ {x})) = l[x] + Cardinality(U(s \ {x}))
    BY <2>3, <2>4, <2>5, <2>6
  <2>8. QED
    BY <2>1, <2>4, <2>7
<1> HIDE DEF U
<1>2. \A s \in SUBSET S : IsFiniteSet(s) /\ Cardinality(s) \in Nat
  BY FS_Subset, FS_CardinalityType
<1>3. \A s \in SUBSET S : \A x \in s :
         s \ {x} \in SUBSET S /\ Cardinality(s \ {x}) = Cardinality(s) - 1
  BY <1>2, FS_RemoveElement
<1>4. U({}) = {} /\ Cardinality({}) = 0 /\ IsFiniteSet({})
  BY FS_EmptySet DEF U
<1>5. \A n \in Nat : \A s \in SUBSET S : Cardinality(s) = n => IsFiniteSet(U(s))
  <2> DEFINE T == {n \in Nat : \A s \in SUBSET S : Cardinality(s) = n => IsFiniteSet(U(s))}
  <2>1. 0 \in T
    <3>1. \A s \in SUBSET S : Cardinality(s) = 0 => s = {}
      BY <1>2, FS_EmptySet
    <3>2. U({}) = {} /\ IsFiniteSet({})
      BY FS_EmptySet DEF U
    <3>3. QED
      BY <3>1, <3>2
  <2>2. \A n \in T : n + 1 \in T
    <3> SUFFICES ASSUME NEW n \in T, NEW s \in SUBSET S, Cardinality(s) = n + 1
                 PROVE  IsFiniteSet(U(s))
      OBVIOUS
    <3>1. s # {}
      <4>1. n \in Nat
        OBVIOUS
      <4> HIDE DEF T
      <4>2. QED
        BY <4>1, FS_EmptySet
    <3>2. PICK x \in s : TRUE
      BY <3>1
    <3>3. Cardinality(s \ {x}) = n /\ s \ {x} \in SUBSET S
      <4>1. Cardinality(s \ {x}) = Cardinality(s) - 1 /\ s \ {x} \in SUBSET S
        BY <1>3, <3>2
      <4>2. n \in Nat /\ Cardinality(s) = n + 1
        OBVIOUS
      <4> HIDE DEF T
      <4>3. QED
        BY <4>1, <4>2
    <3>4. QED
      BY <1>1, <3>2, <3>3
  <2> HIDE DEF T
  <2>3. Nat \subseteq T
    BY <2>1, <2>2, Induction
  <2>4. QED
    BY <2>3 DEF T
<1>6. \A s \in SUBSET S : IsFiniteSet(U(s))
  BY <1>2, <1>5
<1>7. Adds(g)
  <2>1. ASSUME NEW s \in SUBSET S, s # {}
        PROVE  g[s] = l[first(s)] + g[s \ {first(s)}]
    <3>1. PICK x \in S : x = first(s) /\ x \in s
      BY <2>1
    <3>2. Cardinality(U(s)) = l[x] + Cardinality(U(s \ {x}))
      BY <1>1, <1>6, <3>1
    <3>3. QED
      BY <3>1, <3>2
  <2>2. U({}) = {}
    BY DEF U
  <2>3. g[{}] = 0
    BY <2>2, FS_EmptySet
  <2> DEFINE h == [t \in SUBSET S |->
                     IF t = {} THEN 0 ELSE l[first(t)] + g[t \ {first(t)}]]
  <2>4. \A s \in SUBSET S : g[s] = h[s]
    BY <2>1, <2>3
  <2>5. g = h
    <3> HIDE DEF U
    <3>1. g = [s \in SUBSET S |-> g[s]] /\ h = [s \in SUBSET S |-> h[s]]
      OBVIOUS
    <3> HIDE DEF g, h
    <3>2. QED
      BY <2>4, <3>1
  <2>6. QED
    BY <2>5
<1> HIDE DEF g
<1>8. Adds(iter)
  <2> HIDE DEF Adds
  <2>1. QED
    BY <1>7
<1> HIDE DEF iter
<1>9. \A s \in SUBSET S : iter[s] = IF s = {} THEN 0
                                    ELSE l[first(s)] + iter[s \ {first(s)}]
  BY <1>8
<1>10. Nat \subseteq Small
  <2>1. 0 \in Small
    <3>1. \A s \in SUBSET S : Cardinality(s) = 0 => s = {}
      BY <1>2, FS_EmptySet
    <3>2. iter[{}] = 0
      BY <1>9
    <3>3. QED
      BY <1>4, <3>1, <3>2
  <2>2. \A n \in Small : n + 1 \in Small
    <3> SUFFICES ASSUME NEW n \in Small, NEW s \in SUBSET S, Cardinality(s) = n + 1
                 PROVE  iter[s] = Cardinality(U(s))
      BY <1>6
    <3>1. s # {}
      <4>1. n \in Nat
        OBVIOUS
      <4> HIDE DEF Small
      <4>2. QED
        BY <4>1, FS_EmptySet
    <3>2. PICK x \in S : x = first(s) /\ x \in s
      BY <3>1
    <3>3. Cardinality(s \ {x}) = n /\ s \ {x} \in SUBSET S
      <4>1. Cardinality(s \ {x}) = Cardinality(s) - 1 /\ s \ {x} \in SUBSET S
        BY <1>3, <3>2
      <4>2. n \in Nat /\ Cardinality(s) = n + 1
        OBVIOUS
      <4> HIDE DEF Small
      <4>3. QED
        BY <4>1, <4>2
    <3>4. iter[s \ {x}] = Cardinality(U(s \ {x}))
      BY <3>3
    <3>5. iter[s] = l[x] + iter[s \ {x}]
      BY <1>9, <3>1, <3>2
    <3>6. Cardinality(U(s)) = l[x] + Cardinality(U(s \ {x}))
      BY <1>1, <1>6, <3>2
    <3>7. QED
      BY <3>4, <3>5, <3>6
  <2> HIDE DEF Small
  <2>3. QED
    BY <2>1, <2>2, Induction
<1>11. iter[S] = Cardinality(U(S))
  <2>1. Cardinality(S) \in Small
    BY <1>2, <1>10
  <2>2. QED
    BY <2>1
<1>12. MapThenSumSet(LAMBDA p : l[p], S) = iter[S]
  BY DEF MapThenSumSet, MapThenFoldSet, iter
<1>13. QED
  BY <1>6, <1>11, <1>12 DEF U, SumOf, UnionOf

-----------------------------------------------------------------------------
(* Types.                                                                  *)

Pushed == [kind : {"push"}, before : Commits, after : Commits, forced : BOOLEAN]

Asked ==
  Pushed
  \cup [kind : {"full"}, before : {None}, after : Commits \cup {Branch}, forced : {FALSE}]
  \cup [kind : {"pr"}, before : {None}, after : Commits, forced : {FALSE}]
  \cup [kind : {"closePr", "delete"}, before : {None}, after : {Branch}, forced : {FALSE}]

Stages == {"idle", "begin", "config", "tree", "reset", "files", "manifest", "settings",
           "compare", "apply", "finish", "list", "drop", "unlist", "gone"}

Indexing == {"full", "push", "pr"}

\* What the fields of a job are at each of its stages.
Staged(j) ==
  /\ j.pc = "idle" => j = Idle
  /\ j.pc # "idle" => j.req \in Asked
  /\ j.pc \in {"config", "tree", "reset", "files", "finish"} => j.req.kind \in Indexing
  /\ j.pc \in {"manifest", "settings", "compare", "apply"} =>
       j.req.kind = "push" /\ ~ j.req.forced
  /\ j.pc \in {"list", "gone"} => j.req.kind = "delete"
  /\ j.pc \in {"drop", "unlist"} =>
       /\ j.todo \in (SUBSET Colls) \ {{}}
       /\ j.req.kind \in {"closePr", "delete"} /\ (j.req.kind = "closePr" => j.todo = {"pr"})
  /\ j.pc \in {"tree", "reset", "files", "compare", "apply"} => j.cfg \in Configs
  /\ j.pc \in {"tree", "reset", "files"} => j.full
  /\ j.pc \in {"begin", "config", "manifest", "settings", "compare", "apply"} => ~ j.full
  /\ j.pc = "finish" /\ j.req.kind # "push" => j.full
  /\ j.pc \in {"reset", "files"} => j.at \in Commits /\ j.todo \subseteq Indexed(j.at, j.cfg)
  /\ j.pc = "apply" =>
       j.at = j.req.after /\ j.todo \subseteq Changes(j.req.before, j.req.after)

Good(j) ==
  /\ j \in [pc : Stages, req : Asked \cup {NoRequest}, tries : 0 .. MaxAttempts - 1,
            at : Commits \cup {None}, cfg : Configs \cup {None}, todo : {j.todo},
            listed : [Paths -> Nat], full : BOOLEAN]
  /\ Staged(j)

Shape ==
  /\ {head, prHead} \subseteq Commits /\ build \in {0, 1}
  /\ queue \in Seq(Asked) /\ inbox \in Seq(Pushed)
  /\ Good(job)
  /\ exists \subseteq Colls /\ DOMAIN points = Colls
  /\ \A k \in Colls : \A x \in points[k] : PathOf(x) \in Paths
  /\ \A k \in Colls \ exists : points[k] = {}
  /\ job.pc \in {"files", "apply"} => Coll \in exists
  /\ manifest \in [Colls -> Manifests \cup {None}]
  /\ status \in [state : {"queued", "indexing", "ready", "failed", "deleted"},
                 sha : Commits \cup {Branch, None}, chunks : {status.chunks}]
  /\ used \in [pushes : Nat, requests : Nat, errors : Nat]
  /\ mishap \in [Colls -> BOOLEAN]

-----------------------------------------------------------------------------
(* What a full index has done so far.                                      *)

Done(p) ==
  IF p \in Indexed(job.at, job.cfg) \ job.todo
  THEN Chunks(p, Tree[job.at][p], Fingerprint(job.cfg)) ELSE {}

FullInv ==
  /\ job.pc = "reset" => job.todo = Indexed(job.at, job.cfg)
  /\ job.pc = "files" => points[Coll] = UNION {Done(p) : p \in Paths}
  /\ job.pc \in {"reset", "files"} => \A p \in Paths : job.listed[p] = Cardinality(Done(p))

-----------------------------------------------------------------------------
(* Deletion.                                                               *)

Expected(k) == k = "default" \/ ~ mishap["pr"]
Gone(k) == k \notin exists /\ points[k] = {} /\ manifest[k] = None

DropInv ==
  /\ \A k \in Colls : Expected(k) =>
       /\ job.req.kind = "delete" /\ job.pc \in {"drop", "unlist"} /\ k \notin job.todo => Gone(k)
       /\ job.pc = "gone" => Gone(k)
  /\ job.pc = "unlist" => points[NextColl] = {} /\ NextColl \notin exists
  /\ manifest["pr"] = None /\ ~ mishap["pr"] /\ job.req.kind # "pr" => "pr" \notin exists
  /\ job.pc = "finish" /\ job.req.kind = "pr" => manifest["pr"] # None

-----------------------------------------------------------------------------
(* Pull requests.                                                          *)

PullsWait == \E i \in DOMAIN queue : queue[i].kind = "pr"

PullRequestInv ==
  /\ \A i \in DOMAIN queue : queue[i].kind = "pr" =>
       queue[i].after = prHead \/ \E j \in DOMAIN queue : j > i /\ queue[j].kind = "pr"
  /\ job.req.kind = "pr" /\ ~ PullsWait => job.req.after = prHead
  /\ job.req.kind = "pr" /\ ~ PullsWait /\ job.pc \in {"reset", "files"} => job.at = prHead
  /\ ~ PullsWait /\ ~ mishap["pr"] /\ manifest["pr"] # None
     /\ ~ (job.req.kind = "pr" /\ job.pc # "finish") /\ job.req.kind \notin {"closePr", "delete"}
     => manifest["pr"].at = prHead /\ manifest["pr"].sha = prHead /\ AsListed("pr")

-----------------------------------------------------------------------------
(* The repository's row.                                                   *)

ReadyInv ==
  /\ OfDefaultBranch(job.req) /\ job.pc \notin {"idle", "begin"} =>
       status.state = "indexing"
  /\ OfDefaultBranch(job.req) /\ job.pc = "finish" =>
       /\ manifest["default"] # None /\ manifest["default"].sha = job.req.after
       /\ job.full => Total(job.listed) = Cardinality(points["default"])
  /\ status.state = "ready" /\ ~ mishap["default"]
     /\ ~ (job.req.kind = "delete" /\ (job.tries > 0 \/ job.pc \in {"drop", "unlist", "gone"}))
     => /\ manifest["default"] # None
        /\ status.sha = manifest["default"].sha
        /\ status.chunks = Cardinality(points["default"])

-----------------------------------------------------------------------------
(* Comparisons of two commits.                                             *)

LEMMA ChangeIs ==
  ASSUME NEW b \in Commits, NEW a \in Commits, NEW e \in Changes(b, a)
  PROVE  /\ e = [path |-> e.path, previous |-> e.previous, removed |-> e.removed]
         /\ e.path \in Differ(b, a) /\ e.path \in Paths
         /\ e.removed \in BOOLEAN /\ (e.removed <=> e.path \notin Present(a))
         /\ e.previous # None => /\ e.previous \in Present(b) \ Present(a)
                                 /\ e.previous \in Differ(b, a)
                                 /\ e.path \in Present(a) \ Present(b)
<1> DEFINE gone == Present(b) \ Present(a)
           moved(p) == {q \in gone : p \notin Present(b) /\ Tree[b][q] = Tree[a][p]}
           renamed == {p \in Present(a) : moved(p) # {}}
           from(p) == CHOOSE q \in moved(p) : TRUE
<1>1. PICK p \in Differ(b, a) \ {from(q) : q \in renamed} :
        e = [path |-> p, previous |-> IF p \in renamed THEN from(p) ELSE None,
             removed |-> p \notin Present(a)]
  BY DEF Changes
<1>2. p \in renamed => from(p) \in moved(p)
  OBVIOUS
<1>3. gone \subseteq Differ(b, a)
  BY DEF Present, Differ
<1>4. p \in renamed => from(p) \in gone /\ p \notin Present(b) /\ p \in Present(a)
  BY <1>2
<1> HIDE DEF gone, moved, renamed, from
<1>5. p \in Paths
  BY DEF Differ
<1>6. e.path = p /\ e.removed = (p \notin Present(a))
      /\ e.previous = IF p \in renamed THEN from(p) ELSE None
  BY <1>1
<1>7. e = [path |-> e.path, previous |-> e.previous, removed |-> e.removed]
  BY <1>1
<1>8. QED
  BY <1>1, <1>3, <1>4, <1>5, <1>6, <1>7 DEF gone

\* A change is determined by its path, and no old name of a file is a changed path.
LEMMA ChangesApart ==
  ASSUME NEW b \in Commits, NEW a \in Commits, NEW e \in Changes(b, a), NEW x \in Changes(b, a)
  PROVE  /\ e.path = x.path => e = x
         /\ e.previous # None => x.path # e.previous
<1> DEFINE gone == Present(b) \ Present(a)
           moved(p) == {q \in gone : p \notin Present(b) /\ Tree[b][q] = Tree[a][p]}
           renamed == {p \in Present(a) : moved(p) # {}}
           from(p) == CHOOSE q \in moved(p) : TRUE
           change(p) == [path |-> p, previous |-> IF p \in renamed THEN from(p) ELSE None,
                         removed |-> p \notin Present(a)]
<1>1. PICK p \in Differ(b, a) \ {from(q) : q \in renamed} : e = change(p)
  BY DEF Changes
<1>2. PICK o \in Differ(b, a) \ {from(q) : q \in renamed} : x = change(o)
  BY DEF Changes
<1> HIDE DEF gone, moved, renamed, from
<1>3. e.path = p /\ x.path = o /\ e.previous = (IF p \in renamed THEN from(p) ELSE None)
  BY <1>1, <1>2
<1>4. e.previous # None => p \in renamed /\ e.previous = from(p)
  BY <1>3
<1>5. QED
  BY <1>1, <1>2, <1>3, <1>4

\* Every path on which the commits differ is in the comparison.
LEMMA ChangesCover ==
  ASSUME NEW b \in Commits, NEW a \in Commits, NEW p \in Differ(b, a)
  PROVE  \E e \in Changes(b, a) : p \in {e.path, e.previous}
<1> DEFINE gone == Present(b) \ Present(a)
           moved(q) == {o \in gone : q \notin Present(b) /\ Tree[b][o] = Tree[a][q]}
           renamed == {q \in Present(a) : moved(q) # {}}
           from(q) == CHOOSE o \in moved(q) : TRUE
           change(q) == [path |-> q, previous |-> IF q \in renamed THEN from(q) ELSE None,
                         removed |-> q \notin Present(a)]
<1>1. Changes(b, a) = {change(q) : q \in Differ(b, a) \ {from(o) : o \in renamed}}
  BY DEF Changes
<1>2. \A q \in renamed : /\ from(q) \in moved(q) /\ q \in Present(a)
                         /\ q \notin Present(b) /\ from(q) \notin Present(a)
  OBVIOUS
<1>3. \A q \in renamed : q \in Differ(b, a) /\ \A o \in renamed : from(o) # q
  BY <1>2 DEF Present, Differ
<1> HIDE DEF gone, moved, renamed, from
<1>4. CASE p \in {from(o) : o \in renamed}
  <2>1. PICK q \in renamed : p = from(q)
    BY <1>4
  <2>2. change(q) \in Changes(b, a)
    BY <1>1, <1>3
  <2>3. change(q).previous = p
    BY <2>1
  <2>4. QED
    BY <2>2, <2>3
<1>5. CASE p \notin {from(o) : o \in renamed}
  <2>1. change(p) \in Changes(b, a) /\ change(p).path = p
    BY <1>1, <1>5
  <2>2. QED
    BY <2>1
<1>6. QED
  BY <1>4, <1>5

LEMMA ConfigOfIs == \A c \in Commits : ConfigOf(c) \in Configs
  BY DEF ConfigOf, Configs

LEMMA BlobIs == \A c \in Commits, p \in Paths : p \in Present(c) => Tree[c][p] \in Blobs
  BY DEF Present, Blobs

LEMMA FingerprintIs == \A cfg \in Configs : build \in {0, 1} => Fingerprint(cfg) \in Fingerprints
  BY DEF Fingerprint, Fingerprints, Limits

\* A file has finitely many chunks.
LEMMA ChunksFinite ==
  ASSUME NEW p, NEW b \in Blobs, NEW fp \in Fingerprints
  PROVE  IsFiniteSet(Chunks(p, b, fp)) /\ Cardinality(Chunks(p, b, fp)) \in Nat
<1> DEFINE n == ChunkCount[b][fp[2]]
           f == [i \in 1 .. n |-> <<p, b, fp, i>>]
<1>1. n \in Nat
  BY RepoIndexAssumption DEF Fingerprints
<1> HIDE DEF n
<1>2. IsFiniteSet(1 .. n)
  BY <1>1, FS_Interval
<1>3. f \in Surjection(1 .. n, Chunks(p, b, fp))
  BY DEF Chunks, Surjection, n
<1>4. IsFiniteSet(Chunks(p, b, fp))
  BY <1>2, <1>3, FS_Surjection
<1>5. QED
  BY <1>4, FS_CardinalityType

LEMMA NextChangeIs ==
  ASSUME Shape, job.pc = "apply", job.todo # {}
  PROVE  /\ NextChange \in job.todo
         /\ \A x \in job.todo : Rank[NextChange.path] <= Rank[x.path]
         /\ job.req \in Pushed /\ NextChange \in Changes(job.req.before, job.req.after)
         /\ NextChange.path \in Paths
<1>1. /\ job.req \in Pushed /\ job.req.before \in Commits /\ job.req.after \in Commits
      /\ job.todo \subseteq Changes(job.req.before, job.req.after)
  BY DEF Shape, Good, Staged, Asked, Pushed
<1>2. \A x \in job.todo : x.path \in Paths
  BY <1>1, ChangeIs
<1> DEFINE rank == [x \in job.todo |-> Rank[x.path]]
<1>3. \A x \in job.todo : rank[x] \in Nat
  BY <1>2, RepoIndexAssumption
<1> HIDE DEF rank
<1>4. \E x \in job.todo : \A y \in job.todo : rank[x] <= rank[y]
  BY <1>3, LeastRank
<1>5. \E x \in job.todo : \A y \in job.todo : Rank[x.path] <= Rank[y.path]
  BY <1>4 DEF rank
<1>6. NextChange \in job.todo /\ \A x \in job.todo : Rank[NextChange.path] <= Rank[x.path]
  BY <1>5 DEF NextChange
<1>7. QED
  BY <1>1, <1>2, <1>6

-----------------------------------------------------------------------------
(* The types are kept.                                                     *)

LEMMA NoFilesIs == NoFiles \in [Paths -> Nat]
  BY DEF NoFiles

LEMMA IdleGood == Good(Idle)
<1>1. 0 \in 0 .. MaxAttempts - 1
  BY RepoIndexAssumption
<1>2. QED
  BY <1>1, NoFilesIs DEF Good, Staged, Idle, Stages

\* A job as it is claimed or tried again.
Fresh(req, tries) == [Idle EXCEPT !.pc = "begin", !.req = req, !.tries = tries]

LEMMA FreshIs ==
  ASSUME NEW req, NEW n
  PROVE  Fresh(req, n) = [pc |-> "begin", req |-> req, tries |-> n, at |-> None, cfg |-> None,
                          todo |-> {}, listed |-> NoFiles, full |-> FALSE]
<1> DEFINE R == [pc : {"begin"}, req : {req}, tries : {n}, at : {None}, cfg : {None},
                 todo : {{}}, listed : {NoFiles}, full : {FALSE}]
<1>1. Fresh(req, n) \in R
  BY DEF Fresh, Idle
<1>2. ASSUME NEW x, x \in R
      PROVE  x = [pc |-> "begin", req |-> req, tries |-> n, at |-> None, cfg |-> None,
                  todo |-> {}, listed |-> NoFiles, full |-> FALSE]
  BY <1>2
<1>3. QED
  BY <1>1, <1>2

LEMMA FreshGood ==
  ASSUME NEW req \in Asked, NEW n \in 0 .. MaxAttempts - 1
  PROVE  Good(Fresh(req, n))
<1> DEFINE j == [pc |-> "begin", req |-> req, tries |-> n, at |-> None, cfg |-> None,
                 todo |-> {}, listed |-> NoFiles, full |-> FALSE]
<1>1. Staged(j)
  BY DEF Staged
<1>2. Good(j)
  BY <1>1, NoFilesIs DEF Good, Stages
<1>3. QED
  BY <1>2, FreshIs

\* What a throw does besides what it leaves of the points.
LEMMA ThrowsIs ==
  ASSUME Shape, Throws, job.pc # "idle"
  PROVE  /\ \/ job' = Fresh(job.req, job.tries + 1) /\ UNCHANGED <<status, mishap>>
            \/ /\ job' = Idle
               /\ status' = IF OfDefaultBranch(job.req)
                            THEN [status EXCEPT !.state = "failed"] ELSE status
               /\ mishap' = Spoilt(IF job.req.kind = "delete" THEN Colls ELSE {Coll})
         /\ Good(job') /\ job'.pc \in {"begin", "idle"}
         /\ status' \in [state : {"queued", "indexing", "ready", "failed", "deleted"},
                         sha : Commits \cup {Branch, None}, chunks : {status'.chunks}]
         /\ mishap' \in [Colls -> BOOLEAN] /\ \A k \in Colls : mishap[k] => mishap'[k]
         /\ UNCHANGED <<queue, manifest>>
<1>1. job.tries \in 0 .. MaxAttempts - 1 /\ job.req \in Asked /\ MaxAttempts \in Nat
  BY RepoIndexAssumption DEF Shape, Good, Staged
<1>2. CASE TriedAgain(job.tries)
  <2>1. job' = Fresh(job.req, job.tries + 1) /\ UNCHANGED <<status, mishap>>
    BY <1>2 DEF Throws, Tried, Fresh
  <2>2. job.tries + 1 \in 0 .. MaxAttempts - 1
    BY <1>1, <1>2 DEF TriedAgain
  <2>3. Good(job')
    BY <1>1, <2>1, <2>2, FreshGood
  <2>4. job'.pc = "begin"
    BY <2>1, FreshIs
  <2>5. QED
    BY <2>1, <2>3, <2>4 DEF Throws, Shape
<1>3. CASE ~ TriedAgain(job.tries)
  <2>1. /\ job' = Idle
        /\ status' = IF OfDefaultBranch(job.req)
                     THEN [status EXCEPT !.state = "failed"] ELSE status
        /\ mishap' = Spoilt(IF job.req.kind = "delete" THEN Colls ELSE {Coll})
    BY <1>3 DEF Throws
  <2>2. Good(job') /\ job'.pc = "idle"
    BY <2>1, IdleGood DEF Idle
  <2>3. mishap' \in [Colls -> BOOLEAN] /\ \A k \in Colls : mishap[k] => mishap'[k]
    BY <2>1 DEF Spoilt, Shape
  <2>4. status' \in [state : {"queued", "indexing", "ready", "failed", "deleted"},
                     sha : Commits \cup {Branch, None}, chunks : {status'.chunks}]
    BY <2>1 DEF Shape
  <2>5. QED
    BY <2>1, <2>2, <2>3, <2>4 DEF Throws
<1>4. QED
  BY <1>2, <1>3

\* The parts of Shape that a step of the job disturbs seldom.
Around ==
  /\ {head, prHead} \subseteq Commits /\ build \in {0, 1}
  /\ queue \in Seq(Asked) /\ inbox \in Seq(Pushed)
  /\ used \in [pushes : Nat, requests : Nat, errors : Nat]

Rows ==
  /\ manifest \in [Colls -> Manifests \cup {None}]
  /\ status \in [state : {"queued", "indexing", "ready", "failed", "deleted"},
                 sha : Commits \cup {Branch, None}, chunks : {status.chunks}]
  /\ mishap \in [Colls -> BOOLEAN]

Stock ==
  /\ exists \subseteq Colls /\ DOMAIN points = Colls
  /\ \A k \in Colls : \A x \in points[k] : PathOf(x) \in Paths
  /\ \A k \in Colls \ exists : points[k] = {}
  /\ job.pc \in {"files", "apply"} => Coll \in exists

LEMMA ShapeParts == Shape <=> Around /\ Rows /\ Stock /\ Good(job)
  BY DEF Shape, Around, Rows, Stock

LEMMA ShapePartsNext == (Around /\ Rows /\ Stock /\ Good(job))' <=> Shape'
  BY DEF Shape, Around, Rows, Stock, Good, Staged, PathOf, Coll, Indexed, Present, Changes, Differ

LEMMA Typed ==
  ASSUME NEW k, NEW c
  PROVE  [NoRequest EXCEPT !.kind = k, !.after = c] =
           [kind |-> k, before |-> None, after |-> c, forced |-> FALSE]
<1> DEFINE R == [kind : {k}, before : {None}, after : {c}, forced : {FALSE}]
<1>1. [NoRequest EXCEPT !.kind = k, !.after = c] \in R
  BY DEF NoRequest
<1>2. ASSUME NEW x, x \in R
      PROVE  x = [kind |-> k, before |-> None, after |-> c, forced |-> FALSE]
  BY <1>2
<1>3. QED
  BY <1>1, <1>2

LEMMA TypedAsked ==
  /\ \A c \in Commits \cup {Branch} :
       [kind |-> "full", before |-> None, after |-> c, forced |-> FALSE] \in Asked
  /\ \A c \in Commits :
       [kind |-> "pr", before |-> None, after |-> c, forced |-> FALSE] \in Asked
  /\ \A k \in {"closePr", "delete"} :
       [kind |-> k, before |-> None, after |-> Branch, forced |-> FALSE] \in Asked
  BY DEF Asked

LEMMA ShapeInit == Init => Shape
<1> SUFFICES ASSUME Init PROVE Shape
  OBVIOUS
<1>1. [NoRequest EXCEPT !.kind = "full", !.after = Branch] \in Asked
  <2>1. [NoRequest EXCEPT !.kind = "full", !.after = Branch] =
          [kind |-> "full", before |-> None, after |-> Branch, forced |-> FALSE]
    BY Typed
  <2>2. QED
    BY <2>1, TypedAsked
<1>2. queue \in Seq(Asked) /\ inbox \in Seq(Pushed)
  BY <1>1 DEF Init
<1>3. Around
  BY <1>2, RepoIndexAssumption DEF Init, Around
<1>4. Rows
  BY DEF Init, Rows
<1>5. Stock
  BY DEF Init, Stock, Idle
<1>6. QED
  BY <1>3, <1>4, <1>5, IdleGood, ShapeParts DEF Init

LEMMA RemoveAtIs ==
  ASSUME NEW S, NEW s \in Seq(S), NEW i \in DOMAIN s
  PROVE  /\ RemoveAt(s, i) \in Seq(S) /\ Len(RemoveAt(s, i)) = Len(s) - 1
         /\ \A j \in 1 .. Len(s) - 1 : RemoveAt(s, i)[j] = IF j < i THEN s[j] ELSE s[j + 1]
<1> DEFINE a == SubSeq(s, 1, i - 1)
           b == SubSeq(s, i + 1, Len(s))
<1>1. i \in 1 .. Len(s) /\ Len(s) \in Nat
  OBVIOUS
<1>2. RemoveAt(s, i) = a \o b
  BY DEF RemoveAt
<1>3. a \in Seq(S) /\ Len(a) = i - 1 /\ \A j \in 1 .. i - 1 : a[j] = s[j]
  BY <1>1
<1>4. b \in Seq(S) /\ Len(b) = Len(s) - i /\ \A j \in 1 .. Len(s) - i : b[j] = s[i + j]
  BY <1>1
<1> HIDE DEF a, b
<1>5. /\ a \o b \in Seq(S) /\ Len(a \o b) = Len(s) - 1
      /\ \A j \in 1 .. Len(s) - 1 :
           (a \o b)[j] = IF j <= Len(a) THEN a[j] ELSE b[j - Len(a)]
  BY <1>1, <1>3, <1>4
<1>6. ASSUME NEW j \in 1 .. Len(s) - 1
      PROVE  (a \o b)[j] = IF j < i THEN s[j] ELSE s[j + 1]
  <2>1. CASE j < i
    BY <1>1, <1>3, <1>5, <2>1
  <2>2. CASE ~ (j < i)
    <3>1. (a \o b)[j] = b[j - (i - 1)] /\ j - (i - 1) \in 1 .. Len(s) - i
      BY <1>1, <1>3, <1>5, <2>2
    <3>2. b[j - (i - 1)] = s[i + (j - (i - 1))]
      BY <1>4, <3>1
    <3>3. i + (j - (i - 1)) = j + 1
      BY <1>1
    <3>4. QED
      BY <2>2, <3>1, <3>2, <3>3
  <2>3. QED
    BY <2>1, <2>2
<1>7. QED
  BY <1>2, <1>5, <1>6

LEMMA UseIs ==
  ASSUME Around, NEW what \in {"pushes", "requests", "errors"}, NEW bound, Use(what, bound)
  PROVE  used' \in [pushes : Nat, requests : Nat, errors : Nat]
<1>1. used \in [pushes : Nat, requests : Nat, errors : Nat]
      /\ used' = [used EXCEPT ![what] = used[what] + 1]
  BY DEF Around, Use
<1>2. used[what] \in Nat
  BY <1>1
<1>3. used[what] + 1 \in Nat
  BY <1>2
<1> HIDE DEF Use
<1>4. QED
  BY <1>1, <1>3

LEMMA ShapeWorld ==
  ASSUME Shape, World
  PROVE  Shape'
<1> USE ShapeParts, ShapePartsNext
<1>1. ASSUME NEW c \in Commits, NEW forced \in BOOLEAN, Push(c, forced) PROVE Shape'
  <2>1. [kind |-> "push", before |-> head, after |-> c, forced |-> forced] \in Pushed
    BY DEF Pushed, Around
  <2>2. Around'
    BY <1>1, <2>1 DEF Push, Around, Use
  <2>3. Rows' /\ Stock' /\ Good(job)'
    BY <1>1 DEF Push, System, Rows, Stock, Coll, PathOf
  <2>4. QED
    BY <2>2, <2>3
<1>2. ASSUME NEW c \in Commits, PullRequestPush(c) PROVE Shape'
  <2>1. PICK r \in Asked : r = [NoRequest EXCEPT !.kind = "pr", !.after = c]
    BY Typed, TypedAsked
  <2>2. Around'
    <3>1. queue' = Append(queue, r) /\ prHead' = c /\ UNCHANGED <<head, inbox, build>>
      BY <1>2, <2>1 DEF PullRequestPush
    <3>2. used' \in [pushes : Nat, requests : Nat, errors : Nat]
      BY <1>2, UseIs DEF PullRequestPush
    <3>3. QED
      BY <3>1, <3>2 DEF Around
  <2>3. Rows' /\ Stock' /\ Good(job)'
    BY <1>2 DEF PullRequestPush, System, Rows, Stock, Coll, PathOf
  <2>4. QED
    BY <2>2, <2>3
<1>3. ASSUME NEW i \in DOMAIN inbox, Deliver(i) PROVE Shape'
  <2>1. inbox[i] \in Asked /\ RemoveAt(inbox, i) \in Seq(Pushed)
    <3>1. inbox[i] \in Pushed
      BY DEF Around
    <3>2. RemoveAt(inbox, i) \in Seq(Pushed)
      BY RemoveAtIs DEF Around
    <3>3. QED
      BY <3>1, <3>2 DEF Asked
  <2>2. Around'
    BY <1>3, <2>1 DEF Deliver, Around
  <2>3. mishap' \in [Colls -> BOOLEAN]
    BY <1>3 DEF Deliver, Rows, Spoilt
  <2>4. Rows' /\ Stock' /\ Good(job)'
    BY <1>3, <2>3 DEF Deliver, System, Rows, Stock, Coll, PathOf
  <2>5. QED
    BY <2>2, <2>4
<1>4. ASSUME NEW i \in DOMAIN inbox, Lose(i) PROVE Shape'
  <2>1. RemoveAt(inbox, i) \in Seq(Pushed)
    BY RemoveAtIs DEF Around
  <2>2. Around'
    BY <1>4, <2>1 DEF Lose, Around
  <2>3. mishap' \in [Colls -> BOOLEAN]
    BY <1>4 DEF Lose, Rows, Spoilt
  <2>4. Rows' /\ Stock' /\ Good(job)'
    BY <1>4, <2>3 DEF Lose, System, Rows, Stock, Coll, PathOf
  <2>5. QED
    BY <2>2, <2>4
<1>5. ASSUME NEW kind \in Requests, NEW c \in Commits, Request(kind, c) PROVE Shape'
  <2>1. kind \in {"full", "rerun", "closePr", "delete"}
    BY <1>5, RepoIndexAssumption DEF Request
  <2>2. PICK r \in Asked :
          r = [NoRequest EXCEPT !.kind = IF kind = "rerun" THEN "full" ELSE kind,
                                !.after = IF kind = "rerun" THEN c ELSE Branch]
    BY <2>1, Typed, TypedAsked
  <2>3. queue' = Append(queue, r) /\ UNCHANGED <<head, prHead, inbox, build>>
    BY <1>5, <2>2 DEF Request, github
  <2>4. Around'
    <3>1. used' \in [pushes : Nat, requests : Nat, errors : Nat]
      BY <1>5 DEF Request, Around, Use
    <3>2. QED
      BY <2>3, <3>1 DEF Around
  <2>5. Rows' /\ Stock' /\ Good(job)'
    BY <1>5 DEF Request, System, Rows, Stock, Coll, PathOf
  <2>6. QED
    BY <2>4, <2>5
<1>6. ASSUME Deploy PROVE Shape'
  <2>1. Around'
    BY <1>6 DEF Deploy, Around, Use, github
  <2>3. mishap' \in [Colls -> BOOLEAN]
    BY <1>6 DEF Deploy, Rows, Spoilt
  <2>4. Rows' /\ Stock' /\ Good(job)'
    BY <1>6, <2>3 DEF Deploy, System, Rows, Stock, Coll, PathOf
  <2>5. QED
    BY <2>1, <2>4
<1>7. QED
  BY <1>1, <1>2, <1>3, <1>4, <1>5, <1>6 DEF World

LEMMA JobFields ==
  ASSUME Shape
  PROVE  /\ job.pc \in Stages /\ job.tries \in 0 .. MaxAttempts - 1 /\ job.listed \in [Paths -> Nat]
         /\ job.full \in BOOLEAN
         /\ job.cfg \in Configs \cup {None} /\ job.at \in Commits \cup {None}
         /\ job.pc # "idle" => job.req \in Asked
         /\ Coll \in Colls
  BY DEF Shape, Good, Staged, Coll, Colls

LEMMA AskedIs ==
  ASSUME NEW r \in Asked
  PROVE  /\ r.kind \in {"full", "push", "pr", "closePr", "delete"} /\ r.forced \in BOOLEAN
         /\ r.kind = "push" => r \in Pushed /\ r.before \in Commits /\ r.after \in Commits
         /\ r.kind = "full" => r.after \in Commits \cup {Branch}
         /\ r.kind = "pr" => r.after \in Commits
         /\ r.kind \in {"closePr", "delete"} => r.after = Branch
  BY DEF Asked, Pushed

LEMMA RefIs ==
  ASSUME Shape, job.pc # "idle", job.req.kind \in Indexing
  PROVE  RefOf(job.req) \in Commits
<1>1. job.req \in Asked /\ head \in Commits /\ prHead \in Commits
  BY JobFields DEF Shape
<1>2. QED
  BY <1>1, AskedIs DEF RefOf, Indexing

\* A step that leaves the world, the rows and the stock as they are.
LEMMA JobMoves ==
  ASSUME Shape, Good(job'), UNCHANGED <<github, build, used>>,
         Rows', DOMAIN points' = Colls, exists' \subseteq Colls,
         \A k \in Colls : \A x \in points'[k] : PathOf(x) \in Paths,
         \A k \in Colls \ exists' : points'[k] = {},
         job'.pc \in {"files", "apply"} => Coll' \in exists',
         queue' \in {queue, Tail(queue)}, queue' # queue => queue # <<>>
  PROVE  Shape'
<1>1. queue' \in Seq(Asked)
  <2>1. queue \in Seq(Asked) /\ (queue # <<>> => Tail(queue) \in Seq(Asked))
    BY DEF Shape
  <2>2. QED
    BY <2>1
<1>2. Around'
  BY <1>1, ShapeParts DEF Around, github
<1>3. Stock'
  BY DEF Stock, PathOf
<1>4. QED
  BY <1>2, <1>3, ShapePartsNext

\* The same when nothing but the job changes.
LEMMA OnlyJob ==
  ASSUME Shape, Good(job'), UNCHANGED <<github, build, used, points, exists, manifest, mishap>>,
         status' = status \/ \E st \in {"indexing", "ready", "deleted"} :
                               status' = [status EXCEPT !.state = st],
         job'.pc \in {"files", "apply"} => Coll' \in exists',
         queue' \in {queue, Tail(queue)}, queue' # queue => queue # <<>>
  PROVE  Shape'
<1>1. status' \in [state : {"queued", "indexing", "ready", "failed", "deleted"},
                   sha : Commits \cup {Branch, None}, chunks : {status'.chunks}]
  BY DEF Shape
<1>2. Rows'
  BY <1>1 DEF Shape, Rows
<1>3. DOMAIN points' = Colls /\ exists' \subseteq Colls
      /\ (\A k \in Colls : \A x \in points'[k] : PathOf(x) \in Paths)
      /\ \A k \in Colls \ exists' : points'[k] = {}
  BY DEF Shape
<1>4. QED
  BY <1>2, <1>3, JobMoves

LEMMA ShapeClaim == Shape /\ Claim => Shape'
<1> SUFFICES ASSUME Shape, Claim PROVE Shape'
  OBVIOUS
<1>1. queue # <<>> /\ queue' = Tail(queue) /\ Head(queue) \in Asked
  BY DEF Claim, Shape
<1>2. job' = Fresh(Head(queue), 0)
  <2>1. Fresh(Head(queue), 0) = [pc |-> "begin", req |-> Head(queue), tries |-> 0, at |-> None,
                                 cfg |-> None, todo |-> {}, listed |-> NoFiles, full |-> FALSE]
    BY FreshIs
  <2>2. ASSUME NEW x, x \in [pc : {"begin"}, req : {Head(queue)}, tries : {0}, at : {None},
                             cfg : {None}, todo : {{}}, listed : {NoFiles}, full : {FALSE}]
        PROVE  x = [pc |-> "begin", req |-> Head(queue), tries |-> 0, at |-> None,
                    cfg |-> None, todo |-> {}, listed |-> NoFiles, full |-> FALSE]
    BY <2>2
  <2>3. job' \in [pc : {"begin"}, req : {Head(queue)}, tries : {0}, at : {None},
                  cfg : {None}, todo : {{}}, listed : {NoFiles}, full : {FALSE}]
    BY DEF Claim, Idle
  <2>4. QED
    BY <2>1, <2>2, <2>3
<1>3. 0 \in 0 .. MaxAttempts - 1
  BY RepoIndexAssumption
<1>4. Good(job') /\ job'.pc = "begin"
  BY <1>1, <1>2, <1>3, FreshGood, FreshIs
<1>5. QED
  BY <1>1, <1>4, OnlyJob DEF Claim, Step

LEMMA ShapeStart == Shape /\ Start => Shape'
<1> SUFFICES ASSUME Shape, Start PROVE Shape'
  OBVIOUS
<1>1. job.pc = "begin" /\ job.req \in Asked
      /\ job' = [job EXCEPT !.pc = FirstStep(job.req),
                            !.todo = IF job.req.kind = "closePr" THEN {"pr"} ELSE {}]
  BY DEF Start, Step, Shape, Good, Staged
<1>2. /\ job.req.kind \in {"full", "pr"} => FirstStep(job.req) = "config"
      /\ job.req.kind = "push" =>
           FirstStep(job.req) = IF job.req.forced THEN "config" ELSE "manifest"
      /\ job.req.kind = "closePr" => FirstStep(job.req) = "drop"
      /\ job.req.kind = "delete" => FirstStep(job.req) = "list"
  BY <1>1, AskedIs DEF FirstStep
<1>3. FirstStep(job.req) \in {"config", "manifest", "drop", "list"}
  BY <1>1, <1>2, AskedIs
<1>4. Good(job')
  <2>1. job' \in [pc : Stages, req : Asked \cup {NoRequest}, tries : 0 .. MaxAttempts - 1,
                  at : Commits \cup {None}, cfg : Configs \cup {None}, todo : {job'.todo},
                  listed : [Paths -> Nat], full : BOOLEAN]
    BY <1>1, <1>3 DEF Shape, Good, Stages
  <2>2. /\ job'.pc = FirstStep(job.req) /\ job'.req = job.req /\ ~ job'.full
        /\ job.req.kind = "closePr" => job'.todo = {"pr"}
    BY <1>1 DEF Shape, Good, Staged
  <2>3. Staged(job')
    BY <1>1, <1>2, <1>3, <2>2, AskedIs DEF Staged, Indexing, Colls
  <2>4. QED
    BY <2>1, <2>3 DEF Good
<1>5. job'.pc \notin {"files", "apply"}
  BY <1>1, <1>3, JobFields DEF Shape, Good
<1>6. status' = status \/ status' = [status EXCEPT !.state = "indexing"]
  BY DEF Start
<1>7. QED
  BY <1>4, <1>5, <1>6, OnlyJob DEF Start, Step

LEMMA ShapeThrows ==
  ASSUME Shape, Throws, job.pc # "idle", UNCHANGED <<github, build>>,
         used' \in [pushes : Nat, requests : Nat, errors : Nat],
         DOMAIN points' = Colls, exists' \subseteq Colls,
         \A k \in Colls : \A x \in points'[k] : PathOf(x) \in Paths,
         \A k \in Colls \ exists' : points'[k] = {}
  PROVE  Shape'
<1>1. Rows' /\ Good(job')
  BY ThrowsIs DEF Rows, Shape
<1>2. Around'
  BY ThrowsIs DEF Shape, Around, github
<1>3. Stock'
  BY ThrowsIs DEF Stock, PathOf
<1>4. QED
  BY <1>1, <1>2, <1>3, ShapePartsNext

LEMMA ThrowsOnly ==
  ASSUME Shape, Throws, job.pc # "idle", UNCHANGED <<github, build, used, points, exists>>
  PROVE  Shape'
<1>1. used' \in [pushes : Nat, requests : Nat, errors : Nat]
  BY DEF Shape
<1>2. DOMAIN points' = Colls /\ exists' \subseteq Colls
      /\ (\A k \in Colls : \A x \in points'[k] : PathOf(x) \in Paths)
      /\ \A k \in Colls \ exists' : points'[k] = {}
  BY DEF Shape
<1>3. QED
  BY <1>1, <1>2, ShapeThrows

LEMMA ShapeLoadConfig == Shape /\ LoadConfig => Shape'
<1> SUFFICES ASSUME Shape, LoadConfig PROVE Shape'
  OBVIOUS
<1> DEFINE cfg == ConfigOf(IF job.req.kind = "pr" THEN head ELSE RefOf(job.req))
<1>1. job.pc = "config" /\ UNCHANGED <<github, build, used, points, exists>>
  BY DEF LoadConfig, Step
<1>2. job.req \in Asked /\ job.req.kind \in Indexing
  BY <1>1 DEF Shape, Good, Staged
<1>3. cfg \in Configs
  BY <1>1, <1>2, RefIs, ConfigOfIs DEF Shape
<1>4. CASE Settings[cfg].valid
  <2>1. job' = [job EXCEPT !.pc = "tree", !.cfg = cfg, !.full = TRUE]
        /\ UNCHANGED <<queue, manifest, status, mishap>>
    BY <1>4 DEF LoadConfig
  <2> HIDE DEF cfg
  <2>2. Good(job') /\ job'.pc = "tree"
    BY <1>2, <1>3, <2>1 DEF Shape, Good, Staged, Stages
  <2>3. QED
    BY <1>1, <2>1, <2>2, OnlyJob
<1>5. CASE ~ Settings[cfg].valid
  <2>1. Throws
    BY <1>5 DEF LoadConfig
  <2>2. QED
    BY <1>1, <2>1, ThrowsOnly
<1>6. QED
  BY <1>4, <1>5

LEMMA ShapeReadTree == Shape /\ ReadTree => Shape'
<1> SUFFICES ASSUME Shape, ReadTree PROVE Shape'
  OBVIOUS
<1> DEFINE at == RefOf(job.req)
           files == Indexed(at, job.cfg)
<1>1. job.pc = "tree" /\ UNCHANGED <<github, build, used, points, exists>>
  BY DEF ReadTree, Step
<1>2. job.req \in Asked /\ job.req.kind \in Indexing /\ job.cfg \in Configs /\ job.full
  BY <1>1 DEF Shape, Good, Staged
<1>3. at \in Commits
  BY <1>1, <1>2, RefIs
<1>4. CASE Cardinality(files) > MaxFiles
  <2>1. Throws
    BY <1>4 DEF ReadTree
  <2>2. QED
    BY <1>1, <2>1, ThrowsOnly
<1>5. CASE ~ (Cardinality(files) > MaxFiles)
  <2>1. job' = [job EXCEPT !.pc = "reset", !.at = at, !.todo = files, !.listed = NoFiles]
        /\ UNCHANGED <<queue, manifest, status, mishap>>
    BY <1>5 DEF ReadTree
  <2> HIDE DEF at
  <2>2. Good(job') /\ job'.pc = "reset"
    BY <1>2, <1>3, <2>1, NoFilesIs DEF Shape, Good, Staged, Stages
  <2>3. QED
    BY <1>1, <2>1, <2>2, OnlyJob
<1>6. QED
  BY <1>4, <1>5

LEMMA ChunksPath == \A p, b, fp : \A x \in Chunks(p, b, fp) : PathOf(x) = p
  BY DEF Chunks, PathOf

LEMMA ShapeReset == Shape /\ Reset => Shape'
<1> SUFFICES ASSUME Shape, Reset PROVE Shape'
  OBVIOUS
<1>1. /\ job.pc = "reset" /\ UNCHANGED <<github, build, used, queue, manifest, status, mishap>>
      /\ points' = [points EXCEPT ![Coll] = {}] /\ exists' = exists \cup {Coll}
      /\ job' = [job EXCEPT !.pc = "files"]
  BY DEF Reset, Step, Goto, NoPoints
<1>2. Good(job') /\ Coll' = Coll /\ Coll \in Colls
  BY <1>1 DEF Shape, Good, Staged, Stages, Coll, Colls
<1>3. DOMAIN points' = Colls /\ exists' \subseteq Colls
      /\ (\A k \in Colls : \A x \in points'[k] : PathOf(x) \in Paths)
      /\ \A k \in Colls \ exists' : points'[k] = {}
  BY <1>1, <1>2 DEF Shape
<1>4. Rows'
  BY <1>1 DEF Shape, Rows
<1>5. QED
  BY <1>1, <1>2, <1>3, <1>4, JobMoves

LEMMA FilesTodo ==
  ASSUME Shape, job.pc = "files", NEW p \in job.todo
  PROVE  /\ job.at \in Commits /\ job.cfg \in Configs /\ p \in Indexed(job.at, job.cfg)
         /\ p \in Paths /\ p \in Present(job.at) /\ Tree[job.at][p] \in Blobs
         /\ Fingerprint(job.cfg) \in Fingerprints
<1>1. job.at \in Commits /\ job.cfg \in Configs /\ job.todo \subseteq Indexed(job.at, job.cfg)
  BY DEF Shape, Good, Staged
<1>2. p \in Indexed(job.at, job.cfg) /\ p \in Paths /\ p \in Present(job.at)
  BY <1>1 DEF Indexed, Present
<1>3. QED
  BY <1>1, <1>2, BlobIs, FingerprintIs DEF Shape

LEMMA ShapeIndexFile == Shape /\ (\E p \in Paths : IndexFile(p)) => Shape'
<1> SUFFICES ASSUME Shape, NEW p \in Paths, IndexFile(p) PROVE Shape'
  OBVIOUS
<1> DEFINE new == Chunks(p, Tree[job.at][p], Fingerprint(job.cfg))
<1>1. job.pc = "files" /\ p \in job.todo /\ UNCHANGED <<github, build, used, exists>>
  BY DEF IndexFile, Step
<1>2. CASE Total(job.listed) + Cardinality(new) > MaxChunks
  <2>1. Throws /\ UNCHANGED points
    BY <1>2 DEF IndexFile
  <2>2. QED
    BY <1>1, <2>1, ThrowsOnly
<1>3. CASE ~ (Total(job.listed) + Cardinality(new) > MaxChunks)
  <2>1. /\ points' = [points EXCEPT ![Coll] = @ \cup new]
        /\ job' = [job EXCEPT !.todo = @ \ {p}, !.listed[p] = Cardinality(new)]
        /\ UNCHANGED <<queue, manifest, status, mishap>>
    BY <1>3 DEF IndexFile
  <2>2. Cardinality(new) \in Nat
    BY <1>1, FilesTodo, ChunksFinite
  <2>3. \A x \in new : PathOf(x) = p
    BY ChunksPath
  <2> HIDE DEF new
  <2>4. Good(job') /\ Coll' = Coll /\ Coll \in Colls
    BY <1>1, <2>1, <2>2 DEF Shape, Good, Staged, Stages, Coll, Colls
  <2>5. DOMAIN points' = Colls /\ exists' \subseteq Colls
        /\ (\A k \in Colls : \A x \in points'[k] : PathOf(x) \in Paths)
        /\ \A k \in Colls \ exists' : points'[k] = {}
    BY <1>1, <2>1, <2>3, <2>4 DEF Shape
  <2>6. Rows'
    BY <2>1 DEF Shape, Rows
  <2>7. Coll \in exists
    BY <1>1 DEF Shape
  <2>8. QED
    BY <1>1, <2>1, <2>4, <2>5, <2>6, <2>7, JobMoves
<1>4. QED
  BY <1>2, <1>3

LEMMA ShapeGetManifest == Shape /\ GetManifest => Shape'
<1> SUFFICES ASSUME Shape, GetManifest PROVE Shape'
  OBVIOUS
<1>1. /\ job.pc = "manifest"
      /\ UNCHANGED <<github, build, used, queue, points, exists, manifest, status, mishap>>
  BY DEF GetManifest, Step
<1>2. job.req \in Pushed /\ job.req \in Asked /\ ~ job.req.forced /\ job.req.kind = "push"
      /\ ~ job.full
  BY <1>1, AskedIs DEF Shape, Good, Staged
<1>3. CASE manifest["default"] = None
  <2>1. job' = [job EXCEPT !.pc = "config"]
    BY <1>3 DEF GetManifest
  <2>2. Good(job') /\ job'.pc = "config"
    BY <1>1, <1>2, <2>1 DEF Shape, Good, Staged, Stages, Indexing
  <2>3. QED
    BY <1>1, <2>2, OnlyJob
<1>4. CASE manifest["default"] # None
  <2>1. job' = [job EXCEPT !.pc = "settings", !.listed = manifest["default"].files]
    BY <1>4 DEF GetManifest
  <2>2. manifest["default"].files \in [Paths -> Nat]
    BY <1>4 DEF Shape, Colls, Manifests
  <2>3. Good(job') /\ job'.pc = "settings"
    BY <1>1, <1>2, <2>1, <2>2 DEF Shape, Good, Staged, Stages, Indexing
  <2>4. QED
    BY <1>1, <2>3, OnlyJob
<1>5. QED
  BY <1>3, <1>4

LEMMA ShapeLoadPushConfig == Shape /\ LoadPushConfig => Shape'
<1> SUFFICES ASSUME Shape, LoadPushConfig PROVE Shape'
  OBVIOUS
<1> DEFINE cfg == ConfigOf(job.req.after)
<1>1. job.pc = "settings" /\ UNCHANGED <<github, build, used, points, exists>>
  BY DEF LoadPushConfig, Step
<1>2. job.req \in Pushed /\ job.req \in Asked /\ ~ job.req.forced /\ job.req.kind = "push"
      /\ ~ job.full
      /\ job.req.after \in Commits
  BY <1>1, AskedIs DEF Shape, Good, Staged
<1>3. cfg \in Configs
  BY <1>2, ConfigOfIs
<1>4. CASE Settings[cfg].valid
  <2>1. /\ job' = IF SameFingerprint(Fingerprint(cfg))
                  THEN [job EXCEPT !.pc = "compare", !.cfg = cfg]
                  ELSE [job EXCEPT !.pc = "config"]
        /\ UNCHANGED <<queue, manifest, status, mishap>>
    BY <1>4 DEF LoadPushConfig
  <2> HIDE DEF cfg
  <2>2. CASE SameFingerprint(Fingerprint(cfg))
    <3>1. Good(job') /\ job'.pc = "compare"
      BY <1>1, <1>2, <1>3, <2>1, <2>2 DEF Shape, Good, Staged, Stages, Indexing
    <3>2. QED
      BY <1>1, <2>1, <3>1, OnlyJob
  <2>3. CASE ~ SameFingerprint(Fingerprint(cfg))
    <3>1. Good(job') /\ job'.pc = "config"
      BY <1>1, <1>2, <2>1, <2>3 DEF Shape, Good, Staged, Stages, Indexing
    <3>2. QED
      BY <1>1, <2>1, <3>1, OnlyJob
  <2>4. QED
    BY <2>2, <2>3
<1>5. CASE ~ Settings[cfg].valid
  <2>1. Throws
    BY <1>5 DEF LoadPushConfig
  <2>2. QED
    BY <1>1, <2>1, ThrowsOnly
<1>6. QED
  BY <1>4, <1>5

LEMMA ShapeCompare == Shape /\ Compare => Shape'
<1> SUFFICES ASSUME Shape, Compare PROVE Shape'
  OBVIOUS
<1> DEFINE es == Changes(job.req.before, job.req.after)
<1>1. job.pc = "compare" /\ UNCHANGED <<github, build, used, points>>
      /\ exists' = IF job'.pc = "apply" THEN exists \cup {"default"} ELSE exists
  BY DEF Compare, Step
<1>2. job.req \in Pushed /\ job.req \in Asked /\ ~ job.req.forced /\ job.req.kind = "push"
      /\ ~ job.full
      /\ job.req.after \in Commits /\ job.cfg \in Configs
  BY <1>1, AskedIs DEF Shape, Good, Staged
<1>3. CASE TooMuchChanged(es)
  <2>1. job' = [job EXCEPT !.pc = "config"] /\ UNCHANGED <<queue, manifest, status, mishap>>
    BY <1>3 DEF Compare, Goto
  <2>2. Good(job') /\ job'.pc = "config"
    BY <1>1, <1>2, <2>1 DEF Shape, Good, Staged, Stages, Indexing
  <2>3. QED
    BY <1>1, <2>1, <2>2, OnlyJob
<1>4. CASE ~ TooMuchChanged(es) /\ Cardinality(Projected(es)) > MaxFiles
  <2>1. Throws
    BY <1>4 DEF Compare
  <2>2. exists' = exists
    BY <1>1, <2>1, ThrowsIs
  <2>3. QED
    BY <1>1, <2>1, <2>2, ThrowsOnly
<1>5. CASE ~ TooMuchChanged(es) /\ ~ (Cardinality(Projected(es)) > MaxFiles)
  <2>1. /\ job' = [job EXCEPT !.pc = "apply", !.todo = es, !.at = job.req.after]
        /\ UNCHANGED <<queue, manifest, status, mishap>>
    BY <1>5 DEF Compare
  <2> HIDE DEF es
  <2>2. Good(job') /\ job'.pc = "apply"
    BY <1>1, <1>2, <2>1 DEF Shape, Good, Staged, Stages, Indexing, es
  <2>3. Coll' = "default"
    BY <1>2, <2>1 DEF Coll, Shape, Good
  <2>4. DOMAIN points' = Colls /\ exists' \subseteq Colls
        /\ (\A k \in Colls : \A x \in points'[k] : PathOf(x) \in Paths)
        /\ \A k \in Colls \ exists' : points'[k] = {}
    BY <1>1 DEF Shape, Colls
  <2>5. Rows'
    BY <2>1 DEF Shape, Rows
  <2>6. QED
    BY <1>1, <2>1, <2>2, <2>3, <2>4, <2>5, JobMoves
<1>6. QED
  BY <1>3, <1>4, <1>5

LEMMA NewChunksIs ==
  ASSUME Shape, job.pc = "apply", job.todo # {}
  PROVE  /\ Cardinality(NewChunks(NextChange)) \in Nat
         /\ \A x \in NewChunks(NextChange) : PathOf(x) = NextChange.path
<1> DEFINE e == NextChange
<1>1. e \in Changes(job.req.before, job.req.after) /\ job.req \in Pushed /\ e.path \in Paths
      /\ job.req.before \in Commits /\ job.req.after \in Commits
  BY NextChangeIs DEF Pushed
<1>2. job.at = job.req.after /\ job.cfg \in Configs /\ Fingerprint(job.cfg) \in Fingerprints
  BY FingerprintIs DEF Shape, Good, Staged
<1> HIDE DEF e
<1>3. CASE e.removed \/ e.path \in Settings[job.cfg].excluded
  BY <1>3, FS_EmptySet DEF NewChunks, e
<1>4. CASE ~ (e.removed \/ e.path \in Settings[job.cfg].excluded)
  <2>1. NewChunks(e) = Chunks(e.path, Tree[job.at][e.path], Fingerprint(job.cfg))
    BY <1>4 DEF NewChunks
  <2>2. Tree[job.at][e.path] \in Blobs
    BY <1>1, <1>2, <1>4, ChangeIs, BlobIs
  <2>3. QED
    BY <1>2, <2>1, <2>2, ChunksFinite, ChunksPath DEF e
<1>5. QED
  BY <1>3, <1>4

LEMMA WithoutIs ==
  \A S, e : WithoutFile(S, e) \subseteq S /\ WithoutPrevious(S, e) \subseteq S
  BY DEF WithoutFile, WithoutPrevious, Without

LEMMA ShapeApplyChange == Shape /\ ApplyChange => Shape'
<1> SUFFICES ASSUME Shape, ApplyChange PROVE Shape'
  OBVIOUS
<1> DEFINE e == NextChange
           new == NewChunks(e)
           rest == Unlisted(e)
<1>1. job.pc = "apply" /\ job.todo # {} /\ UNCHANGED <<github, build, used, exists>>
  BY DEF ApplyChange, Step
<1>2. /\ job.req \in Pushed /\ job.req.kind = "push" /\ e.path \in Paths
      /\ Cardinality(new) \in Nat /\ \A x \in new : PathOf(x) = e.path
  BY <1>1, NextChangeIs, NewChunksIs DEF Pushed
<1>3. Coll = "default" /\ "default" \in Colls /\ "default" \in exists
  BY <1>1, <1>2 DEF Coll, Colls, Shape
<1>4. rest \in [Paths -> Nat]
  BY JobFields DEF Unlisted
<1> HIDE DEF e, new, rest
<1>5. CASE new # {} /\ Total(rest) + Cardinality(new) > MaxChunks
  <2>1. points' = [points EXCEPT !["default"] = WithoutFile(@, e)] /\ Throws
    BY <1>5 DEF ApplyChange, e, new, rest
  <2>2. DOMAIN points' = Colls /\ exists' \subseteq Colls
        /\ (\A k \in Colls : \A x \in points'[k] : PathOf(x) \in Paths)
        /\ \A k \in Colls \ exists' : points'[k] = {}
    BY <1>1, <1>3, <2>1, WithoutIs DEF Shape
  <2>3. used' \in [pushes : Nat, requests : Nat, errors : Nat]
    BY <1>1 DEF Shape
  <2>4. QED
    BY <1>1, <2>1, <2>2, <2>3, ShapeThrows
<1>6. CASE ~ (new # {} /\ Total(rest) + Cardinality(new) > MaxChunks)
  <2>1. /\ points' = [points EXCEPT !["default"] = WithoutFile(@, e) \cup new]
        /\ job' = [job EXCEPT !.todo = @ \ {e},
                              !.listed = [rest EXCEPT ![e.path] = Cardinality(new)]]
        /\ UNCHANGED <<queue, manifest, status, mishap>>
    BY <1>6 DEF ApplyChange, e, new, rest
  <2>2. DOMAIN points' = Colls /\ exists' \subseteq Colls
        /\ (\A k \in Colls : \A x \in points'[k] : PathOf(x) \in Paths)
        /\ \A k \in Colls \ exists' : points'[k] = {}
    BY <1>1, <1>2, <1>3, <2>1, WithoutIs DEF Shape
  <2>3. [rest EXCEPT ![e.path] = Cardinality(new)] \in [Paths -> Nat]
    BY <1>2, <1>4
  <2> DEFINE f == [rest EXCEPT ![e.path] = Cardinality(new)]
  <2> HIDE DEF f
  <2>4. Good(job') /\ Coll' = Coll
    <3>1. job' = [job EXCEPT !.todo = @ \ {e}, !.listed = f] /\ f \in [Paths -> Nat]
      BY <2>1, <2>3 DEF f
    <3>2. QED
      BY <1>1, <3>1 DEF Shape, Good, Staged, Stages, Coll
  <2>5. Rows'
    BY <2>1 DEF Shape, Rows
  <2>6. QED
    BY <1>1, <1>3, <2>1, <2>2, <2>4, <2>5, JobMoves
<1>7. QED
  BY <1>5, <1>6

LEMMA SaveIs ==
  ASSUME Shape, SaveManifest
  PROVE  /\ job.pc \in {"files", "apply"} /\ job.todo = {} /\ job.pc # "idle"
         /\ job.req \in Asked /\ job.req.kind \in Indexing
         /\ job.at \in Commits /\ job.cfg \in Configs
         /\ job.pc = "apply" => /\ job.req.kind = "push" /\ Coll = "default" /\ ~ job.full
                                /\ job.at = job.req.after
         /\ job.pc = "files" => job.full
         /\ manifest' = [manifest EXCEPT ![Coll] =
              [sha |-> job.req.after, at |-> job.at, cfg |-> job.cfg,
               fp |-> Fingerprint(job.cfg), files |-> job.listed]]
         /\ mishap' \in [Colls -> BOOLEAN]
         /\ Coll = "pr" => mishap' = [mishap EXCEPT !["pr"] = FALSE]
         /\ Coll = "default" /\ job.full => mishap' = [mishap EXCEPT !["default"] = StillSpoilt]
         /\ Coll = "default" /\ ~ job.full => mishap' = [mishap EXCEPT !["default"] =
              mishap["default"] \/ Wiped(Changes(job.req.before, job.req.after)) # {}]
         /\ job' = [job EXCEPT !.pc = "finish"]
         /\ UNCHANGED <<github, build, used, queue, points, exists, status>>
<1> DEFINE W == Wiped(Changes(job.req.before, job.req.after)) # {}
<1>1. job.pc \in {"files", "apply"} /\ job.todo = {} /\ job.pc # "idle"
  BY DEF SaveManifest
<1>2. job.req \in Asked /\ job.req.kind \in Indexing
  BY <1>1 DEF Shape, Good, Staged, Indexing
<1>3. job.pc = "apply" => /\ job.req.kind = "push" /\ Coll = "default" /\ ~ job.full
                          /\ job.at = job.req.after
  BY DEF Shape, Good, Staged, Coll
<1>4. job.at \in Commits /\ job.cfg \in Configs /\ (job.pc = "files" => job.full)
  <2>1. job.cfg \in Configs /\ (job.pc = "files" => job.full /\ job.at \in Commits)
    BY <1>1 DEF Shape, Good, Staged
  <2>2. job.pc = "apply" => job.at \in Commits
    BY <1>2, <1>3, AskedIs
  <2>3. QED
    BY <1>1, <2>1, <2>2
<1>5. /\ manifest' = [manifest EXCEPT ![Coll] =
              [sha |-> job.req.after, at |-> job.at, cfg |-> job.cfg,
               fp |-> Fingerprint(job.cfg), files |-> job.listed]]
      /\ job' = [job EXCEPT !.pc = "finish"]
      /\ UNCHANGED <<github, build, used, queue, points, exists, status>>
  BY DEF SaveManifest, Goto
<1>6. mishap' = [mishap EXCEPT ![Coll] =
        CASE Coll = "pr" -> FALSE
          [] Coll # "pr" /\ job.full -> StillSpoilt
          [] Coll # "pr" /\ ~ job.full -> mishap[Coll] \/ W]
  BY DEF SaveManifest
<1> HIDE DEF W
<1>7. Coll \in {"default", "pr"} /\ job.full \in BOOLEAN
  BY JobFields DEF Colls
<1>8. /\ Coll = "pr" => mishap' = [mishap EXCEPT !["pr"] = FALSE]
      /\ Coll = "default" /\ job.full => mishap' = [mishap EXCEPT !["default"] = StillSpoilt]
      /\ Coll = "default" /\ ~ job.full =>
           mishap' = [mishap EXCEPT !["default"] = mishap["default"] \/ W]
  <2>1. ASSUME Coll = "pr" PROVE mishap' = [mishap EXCEPT !["pr"] = FALSE]
    BY <1>6, <2>1
  <2>2. ASSUME Coll = "default", job.full
        PROVE  mishap' = [mishap EXCEPT !["default"] = StillSpoilt]
    BY <1>6, <2>2
  <2>3. ASSUME Coll = "default", ~ job.full
        PROVE  mishap' = [mishap EXCEPT !["default"] = mishap["default"] \/ W]
    BY <1>6, <2>3
  <2>4. QED
    BY <2>1, <2>2, <2>3
<1>9. StillSpoilt \in BOOLEAN /\ (mishap["default"] \/ W) \in BOOLEAN
  BY DEF StillSpoilt
<1>10. mishap' \in [Colls -> BOOLEAN]
  BY <1>7, <1>8, <1>9 DEF Shape
<1>11. QED
  BY <1>1, <1>2, <1>3, <1>4, <1>5, <1>8, <1>10 DEF W

LEMMA ShapeSaveManifest == Shape /\ SaveManifest => Shape'
<1> SUFFICES ASSUME Shape, SaveManifest PROVE Shape'
  OBVIOUS
<1> DEFINE m == [sha |-> job.req.after, at |-> job.at, cfg |-> job.cfg,
                 fp |-> Fingerprint(job.cfg), files |-> job.listed]
<1>1. m \in Manifests
  <2>1. job.req.after \in Commits \cup {Branch}
    BY SaveIs, AskedIs DEF Indexing
  <2>2. Fingerprint(job.cfg) \in Fingerprints
    BY SaveIs, FingerprintIs DEF Shape
  <2>3. QED
    BY <2>1, <2>2, SaveIs, JobFields DEF Manifests
<1>2. manifest' = [manifest EXCEPT ![Coll] = m]
  BY SaveIs
<1> HIDE DEF m
<1>3. Rows'
  BY <1>1, <1>2, SaveIs DEF Rows, Shape
<1>4. Good(job') /\ job'.pc = "finish"
  <2>1. Good(job) /\ job' = [job EXCEPT !.pc = "finish"] /\ job.req \in Asked
        /\ job.req.kind \in Indexing /\ (job.req.kind # "push" => job.full)
    BY SaveIs DEF Shape
  <2>2. Staged(job') /\ job'.pc = "finish"
    BY <2>1 DEF Good, Staged
  <2>3. QED
    BY <2>1, <2>2 DEF Good, Stages
<1>5. DOMAIN points' = Colls /\ exists' \subseteq Colls
      /\ (\A k \in Colls : \A x \in points'[k] : PathOf(x) \in Paths)
      /\ \A k \in Colls \ exists' : points'[k] = {}
  BY SaveIs DEF Shape
<1>6. QED
  BY <1>3, <1>4, <1>5, SaveIs, JobMoves

LEMMA ShapeFinish == Shape /\ Finish => Shape'
<1> SUFFICES ASSUME Shape, Finish PROVE Shape'
  OBVIOUS
<1>1. job.pc = "finish" /\ job' = Idle
      /\ UNCHANGED <<github, build, used, queue, points, exists, manifest, mishap>>
  BY DEF Finish, Step
<1>2. job.req.after \in Commits \cup {Branch}
  <2>1. job.req \in Asked /\ job.req.kind \in Indexing
    BY <1>1 DEF Shape, Good, Staged
  <2>2. QED
    BY <2>1, AskedIs DEF Indexing
<1>3. status' \in [state : {"queued", "indexing", "ready", "failed", "deleted"},
                   sha : Commits \cup {Branch, None}, chunks : {status'.chunks}]
  <2>1. CASE OfDefaultBranch(job.req)
    BY <1>2, <2>1 DEF Finish
  <2>2. CASE ~ OfDefaultBranch(job.req)
    BY <2>2 DEF Finish, Shape
  <2>3. QED
    BY <2>1, <2>2
<1>4. Rows'
  BY <1>1, <1>3 DEF Rows, Shape
<1>5. Good(job') /\ job'.pc = "idle"
  BY <1>1, IdleGood DEF Idle
<1>6. DOMAIN points' = Colls /\ exists' \subseteq Colls
      /\ (\A k \in Colls : \A x \in points'[k] : PathOf(x) \in Paths)
      /\ \A k \in Colls \ exists' : points'[k] = {}
  BY <1>1 DEF Shape
<1>7. QED
  BY <1>1, <1>4, <1>5, <1>6, JobMoves

LEMMA ShapeList == Shape /\ ListCollections => Shape'
<1> SUFFICES ASSUME Shape, ListCollections PROVE Shape'
  OBVIOUS
<1>1. /\ job.pc = "list" /\ job' = [job EXCEPT !.pc = "drop", !.todo = Listed]
      /\ UNCHANGED <<github, build, used, queue, points, exists, manifest, status, mishap>>
  BY DEF ListCollections, Step
<1>2. job.req \in Asked /\ job.req.kind = "delete"
  BY <1>1 DEF Shape, Good, Staged
<1>3. Listed \in (SUBSET Colls) \ {{}}
  BY DEF Listed, Colls
<1>4. Good(job') /\ job'.pc = "drop"
  BY <1>1, <1>2, <1>3 DEF Shape, Good, Staged, Stages
<1>5. QED
  BY <1>1, <1>4, OnlyJob

LEMMA NextCollIs ==
  ASSUME Shape, job.pc \in {"drop", "unlist"}
  PROVE  /\ NextColl \in job.todo /\ NextColl \in Colls
         /\ NextColl = IF "default" \in job.todo THEN "default" ELSE "pr"
         /\ job.req \in Asked /\ job.req.kind \in {"delete", "closePr"}
         /\ job.req.kind = "closePr" => job.todo = {"pr"} /\ NextColl = "pr"
<1>1. /\ job.todo \in (SUBSET Colls) \ {{}} /\ job.req \in Asked
      /\ job.req.kind \in {"delete", "closePr"} /\ (job.req.kind = "closePr" => job.todo = {"pr"})
  BY DEF Shape, Good, Staged
<1> DEFINE first == IF "default" \in job.todo THEN "default" ELSE "pr"
<1>2. first \in job.todo /\ \A l \in job.todo : ~ Sooner(l, first)
  BY <1>1 DEF Sooner, Colls
<1>3. \A k \in job.todo : (\A l \in job.todo : ~ Sooner(l, k)) => k = first
  BY <1>1 DEF Sooner, Colls
<1> HIDE DEF first
<1>4. NextColl = first
  BY <1>2, <1>3 DEF NextColl
<1>5. QED
  BY <1>1, <1>2, <1>4 DEF first

LEMMA ShapeDrop == Shape /\ DropCollection => Shape'
<1> SUFFICES ASSUME Shape, DropCollection PROVE Shape'
  OBVIOUS
<1>1. /\ job.pc = "drop" /\ job' = [job EXCEPT !.pc = "unlist"]
      /\ UNCHANGED <<github, build, used, queue, manifest, status, mishap>>
      /\ points' = [points EXCEPT ![NextColl] = {}] /\ exists' = exists \ {NextColl}
  BY DEF DropCollection, Step, Goto
<1>2. NextColl \in Colls
  BY <1>1, NextCollIs
<1>3. Good(job') /\ job'.pc = "unlist"
  BY <1>1 DEF Shape, Good, Staged, Stages
<1>4. DOMAIN points' = Colls /\ exists' \subseteq Colls
      /\ (\A k \in Colls : \A x \in points'[k] : PathOf(x) \in Paths)
      /\ \A k \in Colls \ exists' : points'[k] = {}
  BY <1>1, <1>2 DEF Shape
<1>5. Rows'
  BY <1>1 DEF Shape, Rows
<1>6. QED
  BY <1>1, <1>3, <1>4, <1>5, JobMoves

LEMMA ShapeDeleteManifest == Shape /\ DeleteManifest => Shape'
<1> SUFFICES ASSUME Shape, DeleteManifest PROVE Shape'
  OBVIOUS
<1>1. /\ job.pc = "unlist" /\ manifest' = [manifest EXCEPT ![NextColl] = None]
      /\ UNCHANGED <<github, build, used, queue, points, exists, status, mishap>>
      /\ job' = IF job.todo # {NextColl}
                THEN [job EXCEPT !.pc = "drop", !.todo = @ \ {NextColl}]
                ELSE IF job.req.kind = "delete" THEN [job EXCEPT !.pc = "gone"] ELSE Idle
  BY DEF DeleteManifest, Step
<1>2. /\ NextColl \in Colls /\ NextColl \in job.todo /\ job.req \in Asked
      /\ job.req.kind \in {"delete", "closePr"}
      /\ job.req.kind = "closePr" => job.todo = {"pr"} /\ NextColl = "pr"
  BY <1>1, NextCollIs
<1> DEFINE n == NextColl
<1> HIDE DEF n
<1>3. Good(job') /\ job'.pc \in {"drop", "gone", "idle"}
  <2>1. CASE job.todo # {n}
    <3>1. job' = [job EXCEPT !.pc = "drop", !.todo = job.todo \ {n}]
      BY <1>1, <2>1 DEF n
    <3>2. job.todo \ {n} \in (SUBSET Colls) \ {{}} /\ job.req.kind = "delete"
      BY <1>1, <1>2, <2>1 DEF n, Shape, Good, Staged
    <3>3. QED
      BY <1>2, <3>1, <3>2 DEF Shape, Good, Staged, Stages
  <2>2. CASE job.todo = {n} /\ job.req.kind = "delete"
    <3>1. job' = [job EXCEPT !.pc = "gone"]
      BY <1>1, <2>2 DEF n
    <3>2. QED
      BY <1>2, <2>2, <3>1 DEF Shape, Good, Staged, Stages
  <2>3. CASE job.todo = {n} /\ job.req.kind # "delete"
    <3>1. job' = Idle
      BY <1>1, <2>3 DEF n
    <3>2. QED
      BY <3>1, IdleGood DEF Idle
  <2>4. QED
    BY <2>1, <2>2, <2>3
<1>4. Rows'
  BY <1>1, <1>2 DEF Shape, Rows
<1>5. DOMAIN points' = Colls /\ exists' \subseteq Colls
      /\ (\A k \in Colls : \A x \in points'[k] : PathOf(x) \in Paths)
      /\ \A k \in Colls \ exists' : points'[k] = {}
  BY <1>1 DEF Shape
<1>6. QED
  BY <1>1, <1>3, <1>4, <1>5, JobMoves

LEMMA ShapeMarkDeleted == Shape /\ MarkDeleted => Shape'
<1> SUFFICES ASSUME Shape, MarkDeleted PROVE Shape'
  OBVIOUS
<1>1. Good(job') /\ job'.pc = "idle"
  BY IdleGood DEF MarkDeleted, Idle
<1>2. QED
  BY <1>1, OnlyJob DEF MarkDeleted, Step

\* A step that throws leaves no point of a path that is not one.
LEMMA HalfDoneIs ==
  ASSUME Shape, job.pc # "idle", NEW S \in HalfDone
  PROVE  /\ At \in Colls /\ \A x \in S : PathOf(x) \in Paths
         /\ At \notin exists => S = {}
<1>1. At \in Colls
  BY NextCollIs, JobFields DEF At
<1>2. /\ \A x \in points[At] : PathOf(x) \in Paths
      /\ At \notin exists => points[At] = {}
  BY <1>1 DEF Shape
<1>3. CASE job.pc = "files" /\ job.todo # {}
  <2>1. At = Coll /\ Coll \in exists
    BY <1>3 DEF At, Shape
  <2>2. PICK p \in job.todo :
          \E T \in SUBSET Chunks(p, Tree[job.at][p], Fingerprint(job.cfg)) :
            S = points[Coll] \cup T
    BY <1>3 DEF HalfDone
  <2>3. p \in Paths /\ \A x \in S \ points[Coll] : PathOf(x) = p
    BY <1>3, <2>2, FilesTodo, ChunksPath
  <2>4. QED
    BY <1>1, <1>2, <2>1, <2>3
<1>4. CASE job.pc = "apply" /\ job.todo # {}
  <2> DEFINE e == NextChange
  <2>1. At = Coll /\ Coll \in exists
    BY <1>4 DEF At, Shape
  <2>2. S \in {points[Coll], WithoutPrevious(points[Coll], e)}
           \cup {WithoutFile(points[Coll], e) \cup T : T \in SUBSET NewChunks(e)}
    BY <1>4 DEF HalfDone
  <2>3. e.path \in Paths /\ \A x \in NewChunks(e) : PathOf(x) = e.path
    BY <1>4, NextChangeIs, NewChunksIs
  <2> HIDE DEF e
  <2>4. \A x \in S : x \in points[Coll] \cup NewChunks(e)
    BY <2>2, WithoutIs
  <2>5. QED
    BY <1>1, <1>2, <2>1, <2>3, <2>4
<1>5. CASE job.pc \in {"reset", "drop"}
  BY <1>1, <1>2, <1>5 DEF HalfDone
<1>6. CASE /\ ~ (job.pc = "files" /\ job.todo # {}) /\ ~ (job.pc = "apply" /\ job.todo # {})
           /\ job.pc \notin {"reset", "drop"}
  <2>1. HalfDone = {points[At]}
    BY <1>6 DEF HalfDone
  <2>2. QED
    BY <1>1, <1>2, <2>1
<1>7. QED
  BY <1>3, <1>4, <1>5, <1>6

LEMMA ShapeStepThrows == Shape /\ StepThrows => Shape'
<1> SUFFICES ASSUME Shape, StepThrows PROVE Shape'
  OBVIOUS
<1>1. job.pc # "idle" /\ Throws /\ UNCHANGED <<github, build>>
  BY DEF StepThrows
<1>2. used' \in [pushes : Nat, requests : Nat, errors : Nat]
  BY DEF StepThrows, Use, Shape
<1>3. PICK S \in HalfDone :
        /\ points' = [points EXCEPT ![At] = S]
        /\ exists' \in {exists} \cup (IF job.pc \in {"reset", "drop"} /\ S = {}
                                      THEN {exists \ {At}} ELSE {})
  BY DEF StepThrows
<1>4. exists' = exists \/ (exists' = exists \ {At} /\ S = {})
  BY <1>3
<1>5. At \in Colls /\ (\A x \in S : PathOf(x) \in Paths) /\ (At \notin exists => S = {})
  BY <1>1, HalfDoneIs
<1>6. DOMAIN points' = Colls /\ exists' \subseteq Colls
      /\ (\A k \in Colls : \A x \in points'[k] : PathOf(x) \in Paths)
      /\ \A k \in Colls \ exists' : points'[k] = {}
  BY <1>3, <1>4, <1>5 DEF Shape
<1>7. QED
  BY <1>1, <1>2, <1>6, ShapeThrows

LEMMA ShapeNext == Shape /\ [Next]_vars => Shape'
<1>1. Shape /\ UNCHANGED vars => Shape'
  <2> SUFFICES ASSUME Shape, UNCHANGED vars PROVE Shape'
    OBVIOUS
  <2>1. Around' /\ Rows' /\ Stock' /\ Good(job)'
    BY ShapeParts DEF vars, Around, Rows, Stock, Coll, PathOf
  <2>2. QED
    BY <2>1, ShapePartsNext
<1>2. Shape /\ Next => Shape'
  BY ShapeWorld, ShapeClaim, ShapeStart, ShapeLoadConfig, ShapeReadTree, ShapeReset,
     ShapeIndexFile, ShapeGetManifest, ShapeLoadPushConfig, ShapeCompare, ShapeApplyChange,
     ShapeSaveManifest, ShapeFinish, ShapeList, ShapeDrop, ShapeDeleteManifest,
     ShapeMarkDeleted, ShapeStepThrows DEF Next, Job
<1>3. QED
  BY <1>1, <1>2

\* Every variable keeps its type; in particular a job is never tried more often than
\* the queue allows, and a collection that does not exist holds no points.
THEOREM TypeCorrect == Spec => []TypeOK
<1>1. Shape => TypeOK
  <2> SUFFICES ASSUME Shape PROVE TypeOK
    OBVIOUS
  <2>1. job.tries < MaxAttempts /\ DOMAIN job.listed = Paths
    BY JobFields, RepoIndexAssumption
  <2>2. QED
    BY <2>1 DEF Shape, TypeOK
<1>2. QED
  BY <1>1, ShapeInit, ShapeNext, PTL DEF Spec

-----------------------------------------------------------------------------
(* The steps of a job, one alternative for each way they may end.          *)

\* Nothing changes but the job.
Still == UNCHANGED <<github, build, used, queue, points, exists, manifest, status, mishap>>

\* The attempt fails, of whatever step.
Fails ==
  /\ job.pc # "idle" /\ Throws /\ UNCHANGED <<github, build>>
  /\ At \in Colls
  /\ points'[At] \in HalfDone /\ \A k \in Colls \ {At} : points'[k] = points[k]
  /\ exists' = exists \/ (/\ job.pc \in {"reset", "drop"} /\ exists' = exists \ {At}
                          /\ points'[At] = {})

Configured ==
  /\ job.pc = "config" /\ Still
  /\ job' = [job EXCEPT !.pc = "tree", !.full = TRUE,
               !.cfg = ConfigOf(IF job.req.kind = "pr" THEN head ELSE RefOf(job.req))]

TreeRead ==
  /\ job.pc = "tree" /\ Still
  /\ job' = [job EXCEPT !.pc = "reset", !.at = RefOf(job.req),
               !.todo = Indexed(RefOf(job.req), job.cfg), !.listed = NoFiles]

FileIndexed(p) ==
  LET new == Chunks(p, Tree[job.at][p], Fingerprint(job.cfg)) IN
  /\ job.pc = "files" /\ p \in job.todo
  /\ points' = [points EXCEPT ![Coll] = @ \cup new]
  /\ job' = [job EXCEPT !.todo = @ \ {p}, !.listed[p] = Cardinality(new)]
  /\ UNCHANGED <<github, build, used, queue, exists, manifest, status, mishap>>

\* A push that turns out to need a full index.
FallsBack ==
  /\ Still /\ job' = [job EXCEPT !.pc = "config"]
  /\ \/ job.pc = "manifest" /\ manifest["default"] = None
     \/ job.pc = "settings" /\ ~ SameFingerprint(Fingerprint(ConfigOf(job.req.after)))
     \/ job.pc = "compare" /\ TooMuchChanged(Changes(job.req.before, job.req.after))

ManifestFound ==
  /\ job.pc = "manifest" /\ manifest["default"] # None /\ Still
  /\ job' = [job EXCEPT !.pc = "settings", !.listed = manifest["default"].files]

PushConfigured ==
  /\ job.pc = "settings" /\ SameFingerprint(Fingerprint(ConfigOf(job.req.after))) /\ Still
  /\ job' = [job EXCEPT !.pc = "compare", !.cfg = ConfigOf(job.req.after)]

Compared ==
  /\ job.pc = "compare" /\ ~ TooMuchChanged(Changes(job.req.before, job.req.after))
  /\ job' = [job EXCEPT !.pc = "apply", !.todo = Changes(job.req.before, job.req.after),
                        !.at = job.req.after]
  /\ exists' = exists \cup {"default"}
  /\ UNCHANGED <<github, build, used, queue, points, manifest, status, mishap>>

ChangeApplied ==
  LET e == NextChange  new == NewChunks(e) IN
  /\ job.pc = "apply" /\ job.todo # {}
  /\ points' = [points EXCEPT !["default"] = WithoutFile(@, e) \cup new]
  /\ job' = [job EXCEPT !.todo = @ \ {e},
                        !.listed = [Unlisted(e) EXCEPT ![e.path] = Cardinality(new)]]
  /\ UNCHANGED <<github, build, used, queue, exists, manifest, status, mishap>>

Unlisting ==
  /\ job.pc = "unlist" /\ manifest' = [manifest EXCEPT ![NextColl] = None]
  /\ UNCHANGED <<github, build, used, queue, points, exists, status, mishap>>
  /\ \/ job.todo # {NextColl} /\ job' = [job EXCEPT !.pc = "drop", !.todo = @ \ {NextColl}]
     \/ job.todo = {NextColl} /\ job.req.kind = "delete" /\ job' = [job EXCEPT !.pc = "gone"]
     \/ job.todo = {NextColl} /\ job.req.kind = "closePr" /\ job' = Idle

JobStep ==
  \/ Claim \/ Start \/ Fails \/ Configured \/ TreeRead \/ Reset
  \/ \E p \in Paths : FileIndexed(p)
  \/ FallsBack \/ ManifestFound \/ PushConfigured \/ Compared \/ ChangeApplied
  \/ SaveManifest \/ Finish \/ ListCollections \/ DropCollection \/ Unlisting \/ MarkDeleted

LEMMA FailsHere ==
  ASSUME Shape, job.pc # "idle", Throws, UNCHANGED <<github, build, points, exists>>,
         points[At] \in HalfDone
  PROVE  Fails
<1>1. At \in Colls
  BY NextCollIs, JobFields DEF At
<1>2. QED
  BY <1>1 DEF Fails

LEMMA PointsHalfDone ==
  ASSUME Shape, job.pc # "idle"
  PROVE  points[At] \in HalfDone
<1>1. CASE job.pc = "files" /\ job.todo # {}
  <2>1. At = Coll
    BY <1>1 DEF At
  <2>2. PICK p \in job.todo : TRUE
    BY <1>1
  <2>3. {} \in SUBSET Chunks(p, Tree[job.at][p], Fingerprint(job.cfg))
    OBVIOUS
  <2>4. points[Coll] \cup {} = points[Coll]
    OBVIOUS
  <2>5. QED
    BY <1>1, <2>1, <2>2, <2>3, <2>4 DEF HalfDone
<1>2. CASE job.pc = "apply" /\ job.todo # {}
  BY <1>2 DEF HalfDone, At
<1>3. CASE job.pc \in {"reset", "drop"}
  BY <1>3 DEF HalfDone
<1>4. CASE /\ ~ (job.pc = "files" /\ job.todo # {}) /\ ~ (job.pc = "apply" /\ job.todo # {})
           /\ job.pc \notin {"reset", "drop"}
  BY <1>4 DEF HalfDone
<1>5. QED
  BY <1>1, <1>2, <1>3, <1>4

LEMMA JobSteps == Shape /\ Job => JobStep
<1> SUFFICES ASSUME Shape, Job PROVE JobStep
  OBVIOUS
<1>1. ASSUME job.pc # "idle", Throws, UNCHANGED <<github, build, points, exists>>
      PROVE  Fails
  BY <1>1, FailsHere, PointsHalfDone
<1>2. ASSUME LoadConfig PROVE Configured \/ Fails
  <2> DEFINE cfg == ConfigOf(IF job.req.kind = "pr" THEN head ELSE RefOf(job.req))
  <2>1. CASE Settings[cfg].valid
    <3>1. job' = [job EXCEPT !.pc = "tree", !.full = TRUE, !.cfg = cfg]
      <4>1. job' = [job EXCEPT !.pc = "tree", !.cfg = cfg, !.full = TRUE]
        BY <1>2, <2>1 DEF LoadConfig
      <4> HIDE DEF cfg
      <4>2. QED
        BY <4>1 DEF Shape, Good
    <3>2. QED
      BY <1>2, <2>1, <3>1 DEF LoadConfig, Configured, Step, Still
  <2>2. CASE ~ Settings[cfg].valid
    <3>1. Throws /\ UNCHANGED <<github, build, points, exists>> /\ job.pc # "idle"
      BY <1>2, <2>2 DEF LoadConfig, Step
    <3>2. QED
      BY <1>1, <3>1
  <2>3. QED
    BY <2>1, <2>2
<1>3. ASSUME ReadTree PROVE TreeRead \/ Fails
  <2>1. CASE Cardinality(Indexed(RefOf(job.req), job.cfg)) > MaxFiles
    <3>1. Throws /\ UNCHANGED <<github, build, points, exists>> /\ job.pc # "idle"
      BY <1>3, <2>1 DEF ReadTree, Step
    <3>2. QED
      BY <1>1, <3>1
  <2>2. CASE ~ (Cardinality(Indexed(RefOf(job.req), job.cfg)) > MaxFiles)
    BY <1>3, <2>2 DEF ReadTree, TreeRead, Step, Still
  <2>3. QED
    BY <2>1, <2>2
<1>4. ASSUME NEW p \in Paths, IndexFile(p) PROVE FileIndexed(p) \/ Fails
  <2> DEFINE new == Chunks(p, Tree[job.at][p], Fingerprint(job.cfg))
  <2>1. CASE Total(job.listed) + Cardinality(new) > MaxChunks
    <3>1. Throws /\ UNCHANGED <<github, build, points, exists>> /\ job.pc # "idle"
      BY <1>4, <2>1 DEF IndexFile, Step
    <3>2. QED
      BY <1>1, <3>1
  <2>2. CASE ~ (Total(job.listed) + Cardinality(new) > MaxChunks)
    BY <1>4, <2>2 DEF IndexFile, FileIndexed, Step
  <2>3. QED
    BY <2>1, <2>2
<1>5. ASSUME GetManifest PROVE FallsBack \/ ManifestFound
  BY <1>5 DEF GetManifest, FallsBack, ManifestFound, Step, Still
<1>6. ASSUME LoadPushConfig PROVE FallsBack \/ PushConfigured \/ Fails
  <2>1. CASE Settings[ConfigOf(job.req.after)].valid
    BY <1>6, <2>1 DEF LoadPushConfig, FallsBack, PushConfigured, Step, Still
  <2>2. CASE ~ Settings[ConfigOf(job.req.after)].valid
    <3>1. Throws /\ UNCHANGED <<github, build, points, exists>> /\ job.pc # "idle"
      BY <1>6, <2>2 DEF LoadPushConfig, Step
    <3>2. QED
      BY <1>1, <3>1
  <2>3. QED
    BY <2>1, <2>2
<1>7. ASSUME Compare PROVE FallsBack \/ Compared \/ Fails
  <2> DEFINE es == Changes(job.req.before, job.req.after)
  <2>1. /\ job.pc = "compare" /\ UNCHANGED <<github, build, used, points>>
        /\ exists' = IF job'.pc = "apply" THEN exists \cup {"default"} ELSE exists
    BY <1>7 DEF Compare, Step
  <2>2. CASE TooMuchChanged(es)
    <3>1. job' = [job EXCEPT !.pc = "config"] /\ UNCHANGED <<queue, manifest, status, mishap>>
      BY <1>7, <2>2 DEF Compare, Goto
    <3>2. job'.pc = "config"
      BY <3>1 DEF Shape, Good
    <3>3. QED
      BY <2>1, <2>2, <3>1, <3>2 DEF FallsBack, Still
  <2>3. CASE ~ TooMuchChanged(es) /\ Cardinality(Projected(es)) > MaxFiles
    <3>1. Throws
      BY <1>7, <2>3 DEF Compare
    <3>2. exists' = exists
      BY <2>1, <3>1, ThrowsIs
    <3>3. QED
      BY <1>1, <2>1, <3>1, <3>2
  <2>4. CASE ~ TooMuchChanged(es) /\ ~ (Cardinality(Projected(es)) > MaxFiles)
    <3>1. /\ job' = [job EXCEPT !.pc = "apply", !.todo = es, !.at = job.req.after]
          /\ UNCHANGED <<queue, manifest, status, mishap>>
      BY <1>7, <2>4 DEF Compare
    <3> HIDE DEF es
    <3>2. job'.pc = "apply"
      BY <3>1 DEF Shape, Good
    <3>3. QED
      BY <2>1, <2>4, <3>1, <3>2 DEF Compared, es
  <2>5. QED
    BY <2>2, <2>3, <2>4
<1>8. ASSUME ApplyChange PROVE ChangeApplied \/ Fails
  <2> DEFINE e == NextChange
             new == NewChunks(e)
             rest == Unlisted(e)
  <2>1. job.pc = "apply" /\ job.todo # {} /\ UNCHANGED <<github, build, used, exists>>
    BY <1>8 DEF ApplyChange, Step
  <2>2. CASE new # {} /\ Total(rest) + Cardinality(new) > MaxChunks
    <3>1. points' = [points EXCEPT !["default"] = WithoutFile(@, e)] /\ Throws
      BY <1>8, <2>2 DEF ApplyChange
    <3>2. At = "default" /\ Coll = "default" /\ "default" \in Colls
      BY <2>1, NextChangeIs DEF At, Coll, Colls, Pushed
    <3>3. WithoutFile(points[Coll], e) \cup {} \in HalfDone
      BY <2>1 DEF HalfDone
    <3>4. WithoutFile(points[Coll], e) \cup {} = WithoutFile(points[Coll], e)
      OBVIOUS
    <3>5. /\ points'["default"] = WithoutFile(points["default"], e)
          /\ \A k \in Colls \ {"default"} : points'[k] = points[k]
      BY <3>1, <3>2 DEF Shape
    <3>6. QED
      BY <2>1, <3>1, <3>2, <3>3, <3>4, <3>5 DEF Fails
  <2>3. CASE ~ (new # {} /\ Total(rest) + Cardinality(new) > MaxChunks)
    BY <1>8, <2>1, <2>3 DEF ApplyChange, ChangeApplied
  <2>4. QED
    BY <2>2, <2>3
<1>9. ASSUME DeleteManifest PROVE Unlisting
  <2>1. job.pc = "unlist" /\ job.req.kind \in {"delete", "closePr"}
    BY <1>9, NextCollIs DEF DeleteManifest, Step
  <2>2. QED
    BY <1>9, <2>1 DEF DeleteManifest, Unlisting, Step
<1>10. ASSUME StepThrows PROVE Fails
  <2>1. At \in Colls
    BY <1>10, NextCollIs, JobFields DEF At, StepThrows
  <2>2. PICK S \in HalfDone :
          /\ points' = [points EXCEPT ![At] = S]
          /\ exists' \in {exists} \cup (IF job.pc \in {"reset", "drop"} /\ S = {}
                                        THEN {exists \ {At}} ELSE {})
    BY <1>10 DEF StepThrows
  <2>3. points'[At] = S /\ \A k \in Colls \ {At} : points'[k] = points[k]
    BY <2>1, <2>2 DEF Shape
  <2>4. QED
    BY <1>10, <2>1, <2>2, <2>3 DEF StepThrows, Fails
<1>11. QED
  BY <1>2, <1>3, <1>4, <1>5, <1>6, <1>7, <1>8, <1>9, <1>10 DEF Job, JobStep

-----------------------------------------------------------------------------
(* What each step does, field by field.                                    *)

\* What the world leaves alone.
LEMMA WorldIs ==
  ASSUME Shape, World
  PROVE  /\ UNCHANGED <<job, points, exists, manifest, status>>
         /\ build' # build => job.pc = "begin"
         /\ \A k \in Colls : mishap[k] => mishap'[k]
         /\ mishap'["pr"] = mishap["pr"]
<1>1. ASSUME NEW c, NEW forced, Push(c, forced)
      PROVE  UNCHANGED <<System, build, mishap>>
  BY <1>1 DEF Push
<1>2. ASSUME NEW c, PullRequestPush(c) PROVE UNCHANGED <<System, build, mishap>>
  BY <1>2 DEF PullRequestPush
<1>3. ASSUME NEW i, Deliver(i) \/ Lose(i)
      PROVE  UNCHANGED <<System, build>> /\ mishap' \in {mishap, Spoilt({"default"})}
  BY <1>3 DEF Deliver, Lose
<1>4. ASSUME NEW kind, NEW c, Request(kind, c) PROVE UNCHANGED <<System, build, mishap>>
  BY <1>4 DEF Request
<1>5. ASSUME Deploy
      PROVE  UNCHANGED System /\ job.pc = "begin" /\ mishap' \in {mishap, Spoilt({"default"})}
  BY <1>5 DEF Deploy
<1>6. \A k \in Colls : Spoilt({"default"})[k] = (mishap[k] \/ k = "default")
  BY DEF Spoilt
<1>7. mishap \in [Colls -> BOOLEAN] /\ "pr" \in Colls
  BY DEF Shape, Colls
<1>8. Spoilt({"default"})["pr"] = mishap["pr"]
  BY <1>6, <1>7
<1>9. UNCHANGED System /\ (UNCHANGED build \/ job.pc = "begin")
      /\ mishap' \in {mishap, Spoilt({"default"})}
  BY <1>1, <1>2, <1>3, <1>4, <1>5 DEF World
<1>10. QED
  BY <1>6, <1>7, <1>8, <1>9 DEF System

LEMMA IdleIs ==
  /\ Idle.pc = "idle" /\ Idle.req = NoRequest /\ Idle.req.kind = "none" /\ Idle.todo = {}
  /\ Idle.tries = 0 /\ Idle.full = FALSE
  BY DEF Idle, NoRequest

LEMMA CollIs ==
  /\ Colls = {"default", "pr"} /\ Coll \in Colls
  /\ Coll = "pr" <=> job.req.kind \in {"pr", "closePr"}
  BY DEF Coll, Colls

LEMMA ClaimIs ==
  ASSUME Shape, Claim
  PROVE  /\ queue # <<>> /\ queue' = Tail(queue) /\ Head(queue) \in Asked
         /\ job.pc = "idle" /\ job.req.kind = "none"
         /\ job'.pc = "begin" /\ job'.req = Head(queue) /\ job'.tries = 0 /\ ~ job'.full
         /\ UNCHANGED <<github, build, used, points, exists, manifest, status, mishap>>
<1>1. queue # <<>> /\ queue' = Tail(queue) /\ Head(queue) \in Asked
  BY DEF Claim, Shape
<1>2. job.pc = "idle" /\ job.req.kind = "none"
  BY DEF Claim, Step, Shape, Good, Staged, Idle, NoRequest
<1>3. job' \in [pc : {"begin"}, req : {Head(queue)}, tries : {0}, at : {None},
                cfg : {None}, todo : {{}}, listed : {NoFiles}, full : {FALSE}]
  BY DEF Claim, Idle
<1>4. job'.pc = "begin" /\ job'.req = Head(queue) /\ job'.tries = 0 /\ ~ job'.full
  BY <1>3
<1>5. QED
  BY <1>1, <1>2, <1>4 DEF Claim, Step

LEMMA StartIs ==
  ASSUME Shape, Start
  PROVE  /\ job.pc = "begin" /\ job.req \in Asked
         /\ job'.req = job.req /\ job'.tries = job.tries /\ ~ job'.full
         /\ job.req.kind \in {"full", "pr"} => job'.pc = "config"
         /\ job.req.kind = "push" => job'.pc = IF job.req.forced THEN "config" ELSE "manifest"
         /\ job.req.kind = "closePr" => job'.pc = "drop" /\ job'.todo = {"pr"}
         /\ job.req.kind = "delete" => job'.pc = "list"
         /\ job'.pc \in {"config", "manifest", "drop", "list"}
         /\ status' = IF OfDefaultBranch(job.req) THEN [status EXCEPT !.state = "indexing"]
                      ELSE status
         /\ UNCHANGED <<github, build, used, queue, points, exists, manifest, mishap>>
<1> DEFINE todo == IF job.req.kind = "closePr" THEN {"pr"} ELSE {}
           pc == FirstStep(job.req)
<1>1. job.pc = "begin" /\ job.req \in Asked /\ ~ job.full
      /\ job' = [job EXCEPT !.pc = pc, !.todo = todo]
  BY DEF Start, Step, Shape, Good, Staged
<1>2. /\ job.req.kind \in {"full", "pr"} => pc = "config"
      /\ job.req.kind = "push" => pc = IF job.req.forced THEN "config" ELSE "manifest"
      /\ job.req.kind = "closePr" => pc = "drop"
      /\ job.req.kind = "delete" => pc = "list"
  BY <1>1, AskedIs DEF FirstStep
<1> HIDE DEF pc, todo
<1>3. job'.pc = pc /\ job'.req = job.req /\ job'.tries = job.tries /\ ~ job'.full
      /\ job'.todo = todo
  BY <1>1 DEF Shape, Good
<1>4. status' = IF OfDefaultBranch(job.req) THEN [status EXCEPT !.state = "indexing"]
                ELSE status
  BY DEF Start
<1>5. UNCHANGED <<github, build, used, queue, points, exists, manifest, mishap>>
  BY DEF Start, Step
<1>6. pc \in {"config", "manifest", "drop", "list"}
  BY <1>1, <1>2, AskedIs
<1>7. QED
  BY <1>1, <1>2, <1>3, <1>4, <1>5, <1>6 DEF todo

\* A failed attempt leaves no more collections than it found.
LEMMA FailsIs ==
  ASSUME Shape, Fails
  PROVE  /\ exists' \subseteq exists /\ job.req \in Asked
         /\ UNCHANGED <<github, build, manifest, queue>>
         /\ job'.pc \in {"begin", "idle"}
         /\ \/ /\ job'.pc = "begin" /\ job'.req = job.req /\ job'.tries = job.tries + 1
               /\ ~ job'.full /\ UNCHANGED <<status, mishap>>
            \/ /\ job' = Idle
               /\ status' = IF OfDefaultBranch(job.req)
                            THEN [status EXCEPT !.state = "failed"] ELSE status
               /\ \A k \in Colls : mishap'[k] <=> mishap[k] \/ job.req.kind = "delete" \/ k = Coll
         /\ At \in Colls /\ points'[At] \in HalfDone
         /\ \A k \in Colls \ {At} : points'[k] = points[k]
<1>1. job.pc # "idle" /\ Throws /\ job.req \in Asked
  BY JobFields DEF Fails
<1>2. exists' \subseteq exists
  BY DEF Fails
<1>3. mishap' = Spoilt(IF job.req.kind = "delete" THEN Colls ELSE {Coll}) =>
        \A k \in Colls : mishap'[k] <=> mishap[k] \/ job.req.kind = "delete" \/ k = Coll
  BY JobFields DEF Spoilt
<1>4. job' = Fresh(job.req, job.tries + 1) =>
        job'.pc = "begin" /\ job'.req = job.req /\ job'.tries = job.tries + 1 /\ ~ job'.full
  BY FreshIs
<1>5. UNCHANGED <<manifest, queue>> /\ job'.pc \in {"begin", "idle"}
      /\ \/ job' = Fresh(job.req, job.tries + 1) /\ UNCHANGED <<status, mishap>>
         \/ /\ job' = Idle
            /\ status' = IF OfDefaultBranch(job.req)
                         THEN [status EXCEPT !.state = "failed"] ELSE status
            /\ mishap' = Spoilt(IF job.req.kind = "delete" THEN Colls ELSE {Coll})
  BY <1>1, ThrowsIs
<1>6. At \in Colls /\ points'[At] \in HalfDone /\ UNCHANGED <<github, build>>
      /\ \A k \in Colls \ {At} : points'[k] = points[k]
  BY DEF Fails
<1>7. QED
  BY <1>1, <1>2, <1>3, <1>4, <1>5, <1>6

LEMMA ConfiguredIs ==
  ASSUME Shape, Configured
  PROVE  /\ job.pc = "config" /\ job'.pc = "tree" /\ job'.full
         /\ job'.req = job.req /\ job'.tries = job.tries
         /\ job'.cfg = ConfigOf(IF job.req.kind = "pr" THEN head ELSE RefOf(job.req))
         /\ UNCHANGED <<github, build, used, queue, points, exists, manifest, status, mishap>>
<1>1. /\ job'.pc = "tree" /\ job'.full /\ job'.req = job.req /\ job'.tries = job.tries
      /\ job'.cfg = ConfigOf(IF job.req.kind = "pr" THEN head ELSE RefOf(job.req))
  BY DEF Configured, Shape, Good
<1>2. QED
  BY <1>1 DEF Configured, Still

LEMMA TreeReadIs ==
  ASSUME Shape, TreeRead
  PROVE  /\ job.pc = "tree" /\ job'.pc = "reset" /\ job.full /\ job'.full
         /\ job'.req = job.req /\ job'.tries = job.tries /\ job'.cfg = job.cfg
         /\ job'.at = RefOf(job.req) /\ job'.todo = Indexed(job'.at, job'.cfg)
         /\ job'.listed = NoFiles
         /\ UNCHANGED <<github, build, used, queue, points, exists, manifest, status, mishap>>
<1> DEFINE at == RefOf(job.req)
           files == Indexed(at, job.cfg)
<1>1. job' = [job EXCEPT !.pc = "reset", !.at = at, !.todo = files, !.listed = NoFiles]
      /\ job.pc = "tree" /\ job.full
  BY DEF TreeRead, Shape, Good, Staged
<1> HIDE DEF at, files
<1>2. /\ job'.pc = "reset" /\ job'.at = at /\ job'.todo = files /\ job'.listed = NoFiles
      /\ job'.cfg = job.cfg /\ job'.req = job.req /\ job'.tries = job.tries /\ job'.full
  BY <1>1 DEF Shape, Good
<1>3. QED
  BY <1>1, <1>2 DEF at, files, TreeRead, Still

LEMMA ResetIs ==
  ASSUME Shape, Reset
  PROVE  /\ job.pc = "reset" /\ job'.pc = "files" /\ job'.at = job.at /\ job'.cfg = job.cfg
         /\ job'.todo = job.todo /\ job'.listed = job.listed /\ job'.req = job.req
         /\ job'.tries = job.tries /\ job'.full = job.full
         /\ job.full /\ job.req.kind \in Indexing /\ Coll' = Coll
         /\ points'[Coll] = {} /\ \A k \in Colls \ {Coll} : points'[k] = points[k]
         /\ exists' = exists \cup {Coll}
         /\ UNCHANGED <<github, build, used, queue, manifest, status, mishap>>
<1>1. /\ job.pc = "reset" /\ job' = [job EXCEPT !.pc = "files"]
      /\ points' = [points EXCEPT ![Coll] = {}] /\ exists' = exists \cup {Coll}
      /\ UNCHANGED <<github, build, used, queue, manifest, status, mishap>>
  BY DEF Reset, Step, Goto, NoPoints
<1>2. /\ job'.pc = "files" /\ job'.at = job.at /\ job'.cfg = job.cfg /\ job'.todo = job.todo
      /\ job'.listed = job.listed /\ job'.req = job.req /\ job'.tries = job.tries
      /\ job'.full = job.full
  BY <1>1 DEF Shape, Good
<1>3. Coll' = Coll
  BY <1>2 DEF Coll
<1>4. points'[Coll] = {} /\ \A k \in Colls \ {Coll} : points'[k] = points[k]
  BY <1>1, CollIs DEF Shape
<1>5. job.full /\ job.req.kind \in Indexing
  BY <1>1 DEF Shape, Good, Staged
<1>6. QED
  BY <1>1, <1>2, <1>3, <1>4, <1>5

LEMMA FileIndexedIs ==
  ASSUME Shape, NEW p \in Paths, FileIndexed(p)
  PROVE  /\ job.pc = "files" /\ job'.pc = "files" /\ job'.at = job.at /\ job'.cfg = job.cfg
         /\ job'.req = job.req /\ job'.tries = job.tries /\ job'.full = job.full
         /\ job.full /\ job.req.kind \in Indexing
         /\ p \in job.todo /\ job'.todo = job.todo \ {p} /\ Coll' = Coll
         /\ LET new == Chunks(p, Tree[job.at][p], Fingerprint(job.cfg)) IN
              /\ job'.listed = [job.listed EXCEPT ![p] = Cardinality(new)]
              /\ points'[Coll] = points[Coll] \cup new
         /\ \A k \in Colls \ {Coll} : points'[k] = points[k]
         /\ UNCHANGED <<github, build, used, queue, exists, manifest, status, mishap>>
<1> DEFINE new == Chunks(p, Tree[job.at][p], Fingerprint(job.cfg))
<1>1. /\ job.pc = "files" /\ p \in job.todo
      /\ points' = [points EXCEPT ![Coll] = @ \cup new]
      /\ job' = [job EXCEPT !.todo = @ \ {p}, !.listed[p] = Cardinality(new)]
      /\ UNCHANGED <<github, build, used, queue, exists, manifest, status, mishap>>
  BY DEF FileIndexed
<1> HIDE DEF new
<1>2. /\ job'.pc = "files" /\ job'.at = job.at /\ job'.cfg = job.cfg
      /\ job'.todo = job.todo \ {p} /\ job'.req = job.req
      /\ job'.tries = job.tries /\ job'.full = job.full
      /\ job'.listed = [job.listed EXCEPT ![p] = Cardinality(new)]
  BY <1>1 DEF Shape, Good
<1>3. Coll' = Coll
  BY <1>2 DEF Coll
<1>4. points'[Coll] = points[Coll] \cup new /\ \A k \in Colls \ {Coll} : points'[k] = points[k]
  BY <1>1, CollIs DEF Shape
<1>5. job.full /\ job.req.kind \in Indexing
  BY <1>1 DEF Shape, Good, Staged
<1>6. QED
  BY <1>1, <1>2, <1>3, <1>4, <1>5 DEF new

\* The steps that read what a push needs.
LEMMA ReadsIs ==
  ASSUME Shape, FallsBack \/ ManifestFound \/ PushConfigured
  PROVE  /\ job'.req = job.req /\ job'.tries = job.tries /\ ~ job'.full
         /\ job.req.kind = "push" /\ ~ job.req.forced /\ job.req \in Asked
         /\ job.pc \in {"manifest", "settings", "compare"}
         /\ FallsBack => job'.pc = "config"
         /\ ManifestFound => job.pc = "manifest" /\ job'.pc = "settings"
                             /\ manifest["default"] # None
                             /\ job'.listed = manifest["default"].files
         /\ PushConfigured => /\ job.pc = "settings" /\ job'.pc = "compare"
                              /\ job'.cfg = ConfigOf(job.req.after) /\ job'.listed = job.listed
         /\ UNCHANGED <<github, build, used, queue, points, exists, manifest, status, mishap>>
<1>1. job.pc \in {"manifest", "settings", "compare"}
  BY DEF FallsBack, ManifestFound, PushConfigured
<1>2. job.req.kind = "push" /\ ~ job.req.forced /\ job.req \in Asked /\ ~ job.full
  BY <1>1 DEF Shape, Good, Staged
<1>3. UNCHANGED <<github, build, used, queue, points, exists, manifest, status, mishap>>
  BY DEF FallsBack, ManifestFound, PushConfigured, Still
<1>4. FallsBack => job'.pc = "config" /\ job'.req = job.req /\ job'.tries = job.tries
                   /\ job'.full = job.full
  BY DEF FallsBack, Shape, Good
<1>5. ManifestFound => /\ job.pc = "manifest" /\ job'.pc = "settings"
                       /\ manifest["default"] # None
                       /\ job'.listed = manifest["default"].files
                       /\ job'.req = job.req /\ job'.tries = job.tries /\ job'.full = job.full
  BY DEF ManifestFound, Shape, Good
<1>6. PushConfigured => /\ job.pc = "settings" /\ job'.pc = "compare"
                        /\ job'.cfg = ConfigOf(job.req.after) /\ job'.listed = job.listed
                        /\ job'.req = job.req /\ job'.tries = job.tries /\ job'.full = job.full
  BY DEF PushConfigured, Shape, Good
<1>7. QED
  BY <1>1, <1>2, <1>3, <1>4, <1>5, <1>6

LEMMA ComparedIs ==
  ASSUME Shape, Compared
  PROVE  /\ job.pc = "compare" /\ job'.pc = "apply"
         /\ job'.req = job.req /\ job'.tries = job.tries /\ ~ job'.full
         /\ job.req.kind = "push" /\ ~ job.req.forced /\ job.req \in Asked
         /\ job'.todo = Changes(job.req.before, job.req.after) /\ job'.at = job.req.after
         /\ job'.cfg = job.cfg /\ job'.listed = job.listed
         /\ ~ TooMuchChanged(Changes(job.req.before, job.req.after))
         /\ exists' = exists \cup {"default"}
         /\ UNCHANGED <<github, build, used, queue, points, manifest, status, mishap>>
<1> DEFINE es == Changes(job.req.before, job.req.after)
<1>1. job.pc = "compare" /\ job' = [job EXCEPT !.pc = "apply", !.todo = es, !.at = job.req.after]
  BY DEF Compared
<1>2. job.req.kind = "push" /\ ~ job.req.forced /\ job.req \in Asked /\ ~ job.full
  BY <1>1 DEF Shape, Good, Staged
<1> HIDE DEF es
<1>3. /\ job'.pc = "apply" /\ job'.req = job.req /\ job'.tries = job.tries /\ job'.full = job.full
      /\ job'.todo = es /\ job'.at = job.req.after /\ job'.cfg = job.cfg
      /\ job'.listed = job.listed
  BY <1>1 DEF Shape, Good
<1>4. QED
  BY <1>1, <1>2, <1>3 DEF es, Compared

LEMMA ChangeAppliedIs ==
  ASSUME Shape, ChangeApplied
  PROVE  /\ job.pc = "apply" /\ job'.pc = "apply" /\ job.todo # {} /\ Coll = "default"
         /\ job'.req = job.req /\ job'.tries = job.tries /\ ~ job'.full
         /\ job.req.kind = "push" /\ ~ job.req.forced /\ job.req \in Asked
         /\ job'.at = job.at /\ job'.cfg = job.cfg
         /\ LET e == NextChange  new == NewChunks(e) IN
              /\ job'.todo = job.todo \ {e}
              /\ job'.listed = [Unlisted(e) EXCEPT ![e.path] = Cardinality(new)]
              /\ points'["default"] = WithoutFile(points["default"], e) \cup new
         /\ points'["pr"] = points["pr"]
         /\ UNCHANGED <<github, build, used, queue, exists, manifest, status, mishap>>
<1> DEFINE e == NextChange
           new == NewChunks(e)
           listed == [Unlisted(e) EXCEPT ![e.path] = Cardinality(new)]
           left == WithoutFile(points["default"], e) \cup new
<1>1. /\ job.pc = "apply" /\ job.todo # {}
      /\ points' = [points EXCEPT !["default"] = left]
      /\ job' = [job EXCEPT !.todo = @ \ {e}, !.listed = listed]
      /\ UNCHANGED <<github, build, used, queue, exists, manifest, status, mishap>>
  BY DEF ChangeApplied
<1>2. job.req.kind = "push" /\ ~ job.req.forced /\ job.req \in Asked /\ ~ job.full
      /\ Coll = "default"
  BY <1>1, CollIs DEF Shape, Good, Staged
<1> HIDE DEF e, listed, left
<1>3. /\ job'.pc = "apply" /\ job'.req = job.req /\ job'.tries = job.tries /\ job'.full = job.full
      /\ job'.todo = job.todo \ {e} /\ job'.at = job.at /\ job'.cfg = job.cfg
      /\ job'.listed = listed
  BY <1>1 DEF Shape, Good
<1>4. points'["default"] = left /\ points'["pr"] = points["pr"]
  BY <1>1, CollIs DEF Shape
<1>5. QED
  BY <1>1, <1>2, <1>3, <1>4 DEF e, listed, left

LEMMA SavedIs ==
  ASSUME Shape, SaveManifest
  PROVE  /\ job.pc \in {"files", "apply"} /\ job.todo = {} /\ job'.pc = "finish"
         /\ job'.req = job.req /\ job'.tries = job.tries /\ job'.full = job.full
         /\ job'.listed = job.listed /\ job'.at = job.at /\ job'.cfg = job.cfg
         /\ job.req \in Asked /\ job.req.kind \in Indexing
         /\ Coll = "pr" <=> job.req.kind = "pr"
         /\ Coll' = Coll
         /\ manifest'[Coll] # None /\ manifest'[Coll] =
              [sha |-> job.req.after, at |-> job.at, cfg |-> job.cfg,
               fp |-> Fingerprint(job.cfg), files |-> job.listed]
         /\ \A k \in Colls \ {Coll} : manifest'[k] = manifest[k] /\ mishap'[k] = mishap[k]
         /\ Coll = "pr" => ~ mishap'["pr"]
         /\ Coll = "default" /\ job.full => mishap'["default"] = StillSpoilt
         /\ Coll = "default" /\ ~ job.full => mishap'["default"] =
              (mishap["default"] \/ Wiped(Changes(job.req.before, job.req.after)) # {})
         /\ UNCHANGED <<github, build, used, queue, points, exists, status>>
<1> DEFINE m == [sha |-> job.req.after, at |-> job.at, cfg |-> job.cfg,
                 fp |-> Fingerprint(job.cfg), files |-> job.listed]
<1>1. job.pc \in {"files", "apply"} /\ job.todo = {} /\ job' = [job EXCEPT !.pc = "finish"]
      /\ job.req \in Asked /\ job.req.kind \in Indexing
      /\ UNCHANGED <<github, build, used, queue, points, exists, status>>
  BY SaveIs
<1>2. /\ job'.pc = "finish" /\ job'.req = job.req /\ job'.tries = job.tries
      /\ job'.full = job.full /\ job'.listed = job.listed /\ job'.at = job.at /\ job'.cfg = job.cfg
  BY <1>1 DEF Shape, Good
<1>3. m \in Manifests
  <2>1. job.req.after \in Commits \cup {Branch}
    BY SaveIs, AskedIs DEF Indexing
  <2>2. Fingerprint(job.cfg) \in Fingerprints
    BY SaveIs, FingerprintIs DEF Shape
  <2>3. QED
    BY <2>1, <2>2, SaveIs, JobFields DEF Manifests
<1>4. m # None
  BY <1>3, RepoIndexAssumption
<1>5. manifest' = [manifest EXCEPT ![Coll] = m]
  BY SaveIs
<1>6. Coll \in Colls /\ (Coll = "pr" <=> job.req.kind = "pr")
  BY <1>1, CollIs DEF Indexing
<1>7. Coll' = Coll
  BY <1>2 DEF Coll
<1> HIDE DEF m
<1>8. manifest'[Coll] = m /\ \A k \in Colls \ {Coll} : manifest'[k] = manifest[k]
  BY <1>5, <1>6 DEF Shape
<1> DEFINE W == Wiped(Changes(job.req.before, job.req.after)) # {}
           S == StillSpoilt
<1>9. /\ Coll = "pr" => mishap' = [mishap EXCEPT !["pr"] = FALSE]
      /\ Coll = "default" /\ job.full => mishap' = [mishap EXCEPT !["default"] = S]
      /\ Coll = "default" /\ ~ job.full => mishap' = [mishap EXCEPT !["default"] =
              mishap["default"] \/ W]
  BY SaveIs
<1> HIDE DEF W, S
<1>10. mishap \in [Colls -> BOOLEAN] /\ Colls = {"default", "pr"}
  BY CollIs DEF Shape
<1>11. /\ Coll = "pr" => ~ mishap'["pr"]
       /\ Coll = "default" /\ job.full => mishap'["default"] = S
       /\ Coll = "default" /\ ~ job.full => mishap'["default"] = (mishap["default"] \/ W)
  BY <1>9, <1>10
<1>12. \A k \in Colls \ {Coll} : mishap'[k] = mishap[k]
  BY <1>6, <1>9, <1>10
<1>13. QED
  BY <1>1, <1>2, <1>4, <1>6, <1>7, <1>8, <1>11, <1>12 DEF m, W, S

LEMMA EndsIs ==
  ASSUME Shape, Finish \/ MarkDeleted
  PROVE  /\ job' = Idle
         /\ Finish => job.pc = "finish"
         /\ MarkDeleted => job.pc = "gone" /\ job.req.kind = "delete"
         /\ Finish => status' = IF OfDefaultBranch(job.req)
               THEN [state |-> "ready", sha |-> job.req.after,
                     chunks |-> IF job.full THEN Total(job.listed)
                                ELSE Cardinality(points["default"])]
               ELSE status
         /\ MarkDeleted => status' = [status EXCEPT !.state = "deleted"]
         /\ UNCHANGED <<github, build, used, queue, points, exists, manifest, mishap>>
<1>1. MarkDeleted => job.pc = "gone" /\ job.req.kind = "delete"
  BY DEF MarkDeleted, Step, Shape, Good, Staged
<1>2. job' = Idle /\ UNCHANGED <<github, build, used, queue, points, exists, manifest, mishap>>
  BY DEF Finish, MarkDeleted, Step
<1>3. Finish => status' = IF OfDefaultBranch(job.req)
               THEN [state |-> "ready", sha |-> job.req.after,
                     chunks |-> IF job.full THEN Total(job.listed)
                                ELSE Cardinality(points["default"])]
               ELSE status
  BY DEF Finish
<1>4. QED
  BY <1>1, <1>2, <1>3 DEF Finish, MarkDeleted, Step

LEMMA ListIs ==
  ASSUME Shape, ListCollections
  PROVE  /\ job.pc = "list" /\ job'.pc = "drop" /\ job'.todo = Listed /\ job'.req = job.req
         /\ job'.tries = job.tries /\ job.req.kind = "delete"
         /\ UNCHANGED <<github, build, used, queue, points, exists, manifest, status, mishap>>
<1>1. job.pc = "list" /\ job' = [job EXCEPT !.pc = "drop", !.todo = Listed]
      /\ UNCHANGED <<github, build, used, queue, points, exists, manifest, status, mishap>>
  BY DEF ListCollections, Step
<1>2. /\ job'.pc = "drop" /\ job'.todo = Listed /\ job'.req = job.req
      /\ job'.tries = job.tries /\ job.req.kind = "delete"
  BY <1>1 DEF Shape, Good, Staged
<1>3. QED
  BY <1>1, <1>2

LEMMA DropIs ==
  ASSUME Shape, DropCollection
  PROVE  /\ job.pc = "drop" /\ job'.pc = "unlist" /\ job'.req = job.req /\ job'.todo = job.todo
         /\ job'.tries = job.tries /\ job.req.kind \in {"delete", "closePr"}
         /\ NextColl \in job.todo /\ NextColl \in Colls /\ NextColl' = NextColl
         /\ job.req.kind = "closePr" => NextColl = "pr"
         /\ points'[NextColl] = {} /\ \A k \in Colls \ {NextColl} : points'[k] = points[k]
         /\ exists' = exists \ {NextColl}
         /\ UNCHANGED <<github, build, used, queue, manifest, status, mishap>>
<1>1. job.pc = "drop" /\ job' = [job EXCEPT !.pc = "unlist"]
      /\ points' = [points EXCEPT ![NextColl] = {}] /\ exists' = exists \ {NextColl}
      /\ UNCHANGED <<github, build, used, queue, manifest, status, mishap>>
  BY DEF DropCollection, Step, Goto
<1>2. job'.req = job.req /\ job'.pc = "unlist" /\ job'.todo = job.todo /\ job'.tries = job.tries
  BY <1>1 DEF Shape, Good
<1>3. NextColl' = NextColl
  BY <1>2 DEF NextColl
<1>4. NextColl \in job.todo /\ NextColl \in Colls /\ DOMAIN points = Colls
      /\ job.req.kind \in {"delete", "closePr"} /\ (job.req.kind = "closePr" => NextColl = "pr")
  BY <1>1, NextCollIs DEF Shape
<1>5. points'[NextColl] = {} /\ \A k \in Colls \ {NextColl} : points'[k] = points[k]
  BY <1>1, <1>4
<1>6. QED
  BY <1>1, <1>2, <1>3, <1>4, <1>5

LEMMA UnlistingIs ==
  ASSUME Shape, Unlisting
  PROVE  /\ job.pc = "unlist" /\ NextColl \in job.todo /\ NextColl \in Colls
         /\ job.req.kind \in {"delete", "closePr"}
         /\ job.req.kind = "closePr" => NextColl = "pr"
         /\ manifest'[NextColl] = None
         /\ \A k \in Colls \ {NextColl} : manifest'[k] = manifest[k]
         /\ \/ /\ job'.pc = "drop" /\ job'.req = job.req /\ job'.tries = job.tries
               /\ job'.todo = job.todo \ {NextColl} /\ job.req.kind = "delete"
            \/ /\ job'.pc = "gone" /\ job'.req = job.req /\ job'.tries = job.tries
               /\ job.todo = {NextColl} /\ job.req.kind = "delete"
            \/ job' = Idle /\ job.req.kind = "closePr"
         /\ UNCHANGED <<github, build, used, queue, points, exists, status, mishap>>
<1>1. /\ job.pc = "unlist" /\ manifest' = [manifest EXCEPT ![NextColl] = None]
      /\ UNCHANGED <<github, build, used, queue, points, exists, status, mishap>>
      /\ \/ job.todo # {NextColl} /\ job' = [job EXCEPT !.pc = "drop", !.todo = @ \ {NextColl}]
         \/ job.todo = {NextColl} /\ job.req.kind = "delete" /\ job' = [job EXCEPT !.pc = "gone"]
         \/ job.todo = {NextColl} /\ job.req.kind = "closePr" /\ job' = Idle
  BY DEF Unlisting
<1>2. NextColl \in job.todo /\ NextColl \in Colls /\ job.req.kind \in {"delete", "closePr"}
      /\ (job.req.kind = "closePr" => job.todo = {"pr"} /\ NextColl = "pr")
  BY <1>1, NextCollIs
<1> DEFINE n == NextColl
<1> HIDE DEF n
<1>3. manifest'[n] = None /\ \A k \in Colls \ {n} : manifest'[k] = manifest[k]
  BY <1>1, <1>2 DEF Shape, n
<1>4. /\ job' = [job EXCEPT !.pc = "drop", !.todo = @ \ {n}] =>
           job'.pc = "drop" /\ job'.req = job.req /\ job'.tries = job.tries
           /\ job'.todo = job.todo \ {n}
      /\ job' = [job EXCEPT !.pc = "gone"] =>
           job'.pc = "gone" /\ job'.req = job.req /\ job'.tries = job.tries
  BY DEF Shape, Good
<1>5. QED
  BY <1>1, <1>2, <1>3, <1>4 DEF n

-----------------------------------------------------------------------------
(* FullInv.                                                                *)

LEMMA PcNext ==
  ASSUME Shape, JobStep
  PROVE  TreeRead \/ Reset \/ (\E p \in Paths : FileIndexed(p)) \/ job'.pc \notin {"reset", "files"}
<1>1. Claim \/ Start \/ Fails \/ Configured => job'.pc \notin {"reset", "files"}
  BY ClaimIs, StartIs, FailsIs, ConfiguredIs
<1>2. FallsBack \/ ManifestFound \/ PushConfigured => job'.pc \notin {"reset", "files"}
  BY ReadsIs
<1>3. Compared \/ ChangeApplied => job'.pc \notin {"reset", "files"}
  BY ComparedIs, ChangeAppliedIs
<1>4. SaveManifest => job'.pc \notin {"reset", "files"}
  BY SavedIs
<1>5. Finish \/ MarkDeleted => job'.pc \notin {"reset", "files"}
  BY EndsIs, IdleIs
<1>6. ListCollections \/ DropCollection \/ Unlisting => job'.pc \notin {"reset", "files"}
  BY ListIs, DropIs, UnlistingIs, IdleIs
<1>7. QED
  BY <1>1, <1>2, <1>3, <1>4, <1>5, <1>6 DEF JobStep

LEMMA FullInit == Init => FullInv
  BY IdleIs DEF Init, FullInv

LEMMA FullNext == Shape /\ FullInv /\ [Next]_vars => FullInv'
<1> SUFFICES ASSUME Shape, FullInv, [Next]_vars PROVE FullInv'
  OBVIOUS
<1>1. CASE UNCHANGED vars \/ World
  <2>1. UNCHANGED <<job, points>> /\ (job.pc \in {"reset", "files"} => UNCHANGED build)
    BY <1>1, WorldIs DEF vars
  <2>2. job.pc \in {"reset", "files"} => \A p : Done(p)' = Done(p)
    BY <2>1 DEF Done, Fingerprint
  <2>3. Coll' = Coll
    BY <2>1 DEF Coll
  <2>4. QED
    BY <2>1, <2>2, <2>3 DEF FullInv
<1>2. CASE JobStep
  <2>1. CASE TreeRead
    <3>1. job'.pc = "reset" /\ job'.todo = Indexed(job'.at, job'.cfg) /\ job'.listed = NoFiles
      BY <2>1, TreeReadIs
    <3>2. \A p \in Paths : Done(p)' = {} /\ job'.listed[p] = 0
      BY <3>1 DEF Done, NoFiles
    <3>3. QED
      BY <3>1, <3>2, FS_EmptySet DEF FullInv
  <2>2. CASE Reset
    <3>1. job.pc = "reset" /\ job'.pc = "files" /\ job'.at = job.at /\ job'.cfg = job.cfg
          /\ job'.todo = job.todo /\ job'.listed = job.listed /\ points'[Coll'] = {}
      BY <2>2, ResetIs
    <3>2. \A p \in Paths : Done(p) = {} /\ Done(p)' = {}
      BY <3>1 DEF Done, FullInv
    <3>3. \A p \in Paths : job'.listed[p] = Cardinality({})
      BY <3>1, <3>2 DEF FullInv
    <3>4. QED
      BY <3>1, <3>2, <3>3 DEF FullInv
  <2>3. ASSUME NEW p \in Paths, FileIndexed(p) PROVE FullInv'
    <3> DEFINE new == Chunks(p, Tree[job.at][p], Fingerprint(job.cfg))
    <3>1. /\ job.pc = "files" /\ job'.pc = "files" /\ job'.at = job.at /\ job'.cfg = job.cfg
          /\ p \in job.todo /\ job'.todo = job.todo \ {p} /\ build' = build
          /\ job'.listed = [job.listed EXCEPT ![p] = Cardinality(new)]
          /\ points'[Coll'] = points[Coll] \cup new
      BY <2>3, FileIndexedIs
    <3>2. p \in Indexed(job.at, job.cfg)
      BY <3>1, FilesTodo
    <3> HIDE DEF new
    <3>3. Done(p)' = new /\ Done(p) = {}
      BY <3>1, <3>2 DEF Done, Fingerprint, new
    <3>4. \A q \in Paths \ {p} : Done(q)' = Done(q)
      BY <3>1 DEF Done, Fingerprint
    <3>5. points[Coll] = UNION {Done(q) : q \in Paths}
      BY <3>1 DEF FullInv
    <3>6. points'[Coll'] = UNION {Done(q)' : q \in Paths}
      <4>1. ASSUME NEW x \in points'[Coll'] PROVE \E q \in Paths : x \in Done(q)'
        BY <3>1, <3>3, <3>4, <3>5
      <4>2. ASSUME NEW q \in Paths, NEW x \in Done(q)' PROVE x \in points'[Coll']
        BY <3>1, <3>3, <3>4, <3>5
      <4>3. QED
        BY <4>1, <4>2
    <3>7. \A q \in Paths : job'.listed[q] = Cardinality(Done(q)')
      BY <3>1, <3>3, <3>4, JobFields DEF FullInv
    <3>8. QED
      BY <3>1, <3>6, <3>7 DEF FullInv
  <2>4. CASE job'.pc \notin {"reset", "files"}
    BY <2>4 DEF FullInv
  <2>5. QED
    BY <1>2, <2>1, <2>2, <2>3, <2>4, PcNext
<1>3. QED
  BY <1>1, <1>2, JobSteps DEF Next

-----------------------------------------------------------------------------
(* Deletion.                                                               *)

LEMMA DropInit == Init => DropInv
  BY IdleIs DEF Init, DropInv, Colls

LEMMA DropNext == Shape /\ DropInv /\ [Next]_vars => DropInv'
<1> SUFFICES ASSUME Shape, DropInv, [Next]_vars PROVE DropInv'
  OBVIOUS
<1>1. CASE UNCHANGED vars \/ World
  <2>1. UNCHANGED <<job, points, exists, manifest>> /\ mishap'["pr"] = mishap["pr"]
    BY <1>1, WorldIs DEF vars
  <2>2. NextColl' = NextColl
    BY <2>1 DEF NextColl
  <2>3. QED
    BY <2>1, <2>2 DEF DropInv, Expected, Gone
\* Away from deletion only the existence of the pull request's collection matters.
<1>2. ASSUME job'.pc \notin {"drop", "unlist", "gone"},
             manifest'["pr"] = None /\ ~ mishap'["pr"] /\ job'.req.kind # "pr" =>
               "pr" \notin exists',
             job'.pc = "finish" /\ job'.req.kind = "pr" => manifest'["pr"] # None
      PROVE  DropInv'
  BY <1>2 DEF DropInv
<1>3. ASSUME UNCHANGED <<exists, manifest, mishap>>, job'.req = job.req,
             job'.pc \notin {"drop", "unlist", "gone", "finish"}
      PROVE  DropInv'
  BY <1>2, <1>3 DEF DropInv
<1>4. CASE Claim
  BY <1>2, <1>4, ClaimIs DEF DropInv
<1>5. CASE Start
  <2>1. UNCHANGED <<points, exists, manifest, mishap>> /\ job'.req = job.req
        /\ job'.pc \in {"config", "manifest", "drop", "list"}
        /\ (job'.pc = "drop" => job.req.kind = "closePr")
    BY <1>5, StartIs, AskedIs
  <2>2. QED
    BY <2>1 DEF DropInv
<1>6. CASE Fails
  <2>1. exists' \subseteq exists /\ UNCHANGED manifest /\ job'.pc \in {"begin", "idle"}
        /\ \/ job'.req = job.req /\ UNCHANGED mishap
           \/ \A k \in Colls : mishap'[k] <=> mishap[k] \/ job.req.kind = "delete" \/ k = Coll
    BY <1>6, FailsIs
  <2>2. CASE job'.req = job.req /\ UNCHANGED mishap
    BY <1>2, <2>1, <2>2 DEF DropInv
  <2>3. CASE \A k \in Colls : mishap'[k] <=> mishap[k] \/ job.req.kind = "delete" \/ k = Coll
    <3>1. ~ mishap'["pr"] => ~ mishap["pr"] /\ job.req.kind # "pr"
      BY <2>3, CollIs
    <3>2. QED
      BY <1>2, <2>1, <3>1 DEF DropInv
  <2>4. QED
    BY <2>1, <2>2, <2>3
<1>7. CASE Configured \/ FallsBack \/ ManifestFound \/ PushConfigured
  BY <1>3, <1>7, ConfiguredIs, ReadsIs
<1>8. CASE TreeRead
  BY <1>3, <1>8, TreeReadIs
<1>9. CASE Reset
  <2>1. UNCHANGED <<manifest, mishap>> /\ exists' = exists \cup {Coll} /\ job'.pc = "files"
        /\ job'.req = job.req /\ (Coll = "pr" => job.req.kind = "pr")
    BY <1>9, ResetIs, CollIs DEF Indexing
  <2>2. QED
    BY <1>2, <2>1 DEF DropInv
<1>10. ASSUME NEW p \in Paths, FileIndexed(p) PROVE DropInv'
  BY <1>3, <1>10, FileIndexedIs
<1>11. CASE Compared
  BY <1>2, <1>11, ComparedIs DEF DropInv
<1>12. CASE ChangeApplied
  BY <1>3, <1>12, ChangeAppliedIs
<1>13. CASE SaveManifest
  <2>1. job'.pc = "finish" /\ job'.req = job.req /\ UNCHANGED exists
        /\ (Coll = "pr" <=> job.req.kind = "pr") /\ manifest'[Coll] # None
        /\ \A k \in Colls \ {Coll} : manifest'[k] = manifest[k] /\ mishap'[k] = mishap[k]
    BY <1>13, SavedIs
  <2>2. CASE Coll = "pr"
    BY <1>2, <2>1, <2>2
  <2>3. CASE Coll # "pr"
    BY <1>2, <2>1, <2>3, CollIs DEF DropInv
  <2>4. QED
    BY <2>2, <2>3
<1>14. CASE Finish \/ MarkDeleted
  <2>1. UNCHANGED <<exists, manifest, mishap>> /\ job' = Idle
        /\ (job.pc = "finish" \/ job.req.kind = "delete")
    BY <1>14, EndsIs
  <2>2. QED
    BY <1>2, <2>1, IdleIs DEF DropInv
<1>15. CASE ListCollections
  <2>1. /\ UNCHANGED <<points, exists, manifest, mishap>> /\ job'.req = job.req
        /\ job'.pc = "drop" /\ job'.todo = Listed /\ job.req.kind = "delete"
    BY <1>15, ListIs
  <2>2. \A k \in Colls : k \notin Listed => k = "pr" /\ manifest["pr"] = None
    BY CollIs DEF Listed
  <2>3. \A k \in Colls : ~ mishap["pr"] /\ k \notin Listed => Gone(k)
    BY <2>1, <2>2 DEF DropInv, Gone, Shape
  <2>4. \A k \in Colls : Expected(k)' /\ k \notin Listed => Gone(k)'
    BY <2>1, <2>2, <2>3 DEF Expected, Gone
  <2>5. QED
    BY <2>1, <2>4 DEF DropInv
<1>16. CASE DropCollection
  <2>1. /\ job.pc = "drop" /\ job'.pc = "unlist" /\ job'.req = job.req /\ job'.todo = job.todo
        /\ NextColl \in job.todo /\ NextColl' = NextColl
        /\ points'[NextColl] = {} /\ \A k \in Colls \ {NextColl} : points'[k] = points[k]
        /\ exists' = exists \ {NextColl} /\ UNCHANGED <<manifest, mishap>>
    BY <1>16, DropIs
  <2>2. \A k \in Colls : Gone(k) => Gone(k)'
    BY <2>1 DEF Gone
  <2>3. \A k \in Colls : Expected(k)' = Expected(k)
    BY <2>1 DEF Expected
  <2>4. QED
    BY <2>1, <2>2, <2>3 DEF DropInv
<1>17. CASE Unlisting
  <2>1. PICK n \in Colls : n = NextColl
    BY <1>17, UnlistingIs
  <2>2. /\ job.pc = "unlist" /\ job.req.kind \in {"delete", "closePr"}
        /\ manifest'[n] = None /\ \A k \in Colls \ {n} : manifest'[k] = manifest[k]
        /\ UNCHANGED <<points, exists, mishap>>
        /\ \/ /\ job'.pc = "drop" /\ job'.req = job.req /\ job.req.kind = "delete"
              /\ job'.todo = job.todo \ {n}
           \/ /\ job'.pc = "gone" /\ job'.req = job.req /\ job.req.kind = "delete"
              /\ job.todo = {n}
           \/ job' = Idle /\ job.req.kind = "closePr"
    BY <1>17, <2>1, UnlistingIs
  <2>3. points[n] = {} /\ n \notin exists
    BY <2>1, <2>2 DEF DropInv
  <2>4. Gone(n)' /\ \A k \in Colls : Gone(k) => Gone(k)'
    BY <2>2, <2>3 DEF Gone
  <2>5. \A k \in Colls : Expected(k)' = Expected(k)
    BY <2>2 DEF Expected
  <2>6. manifest'["pr"] = None => manifest["pr"] = None \/ "pr" \notin exists
    BY <2>2, <2>3, CollIs
  <2>7. CASE job'.req = job.req /\ job.req.kind = "delete"
    <3>1. \A k \in Colls : Expected(k) /\ k \notin job.todo => Gone(k)
      BY <2>2, <2>7 DEF DropInv
    <3>2. manifest'["pr"] = None /\ ~ mishap'["pr"] => "pr" \notin exists'
      BY <2>2, <2>6, <2>7 DEF DropInv
    <3>3. CASE job'.pc = "drop" /\ job'.todo = job.todo \ {n}
      <4>1. \A k \in Colls : Expected(k)' /\ k \notin job'.todo => Gone(k)'
        BY <2>4, <2>5, <3>1, <3>3
      <4>2. QED
        BY <2>7, <3>2, <3>3, <4>1 DEF DropInv
    <3>4. CASE job'.pc = "gone" /\ job.todo = {n}
      <4>1. \A k \in Colls : Expected(k)' => Gone(k)'
        BY <2>4, <2>5, <3>1, <3>4
      <4>2. QED
        BY <2>7, <3>2, <3>4, <4>1 DEF DropInv
    <3>5. QED
      BY <2>2, <2>7, <3>3, <3>4, IdleIs
  <2>8. CASE job' = Idle /\ job.req.kind = "closePr"
    BY <1>2, <2>2, <2>6, <2>8, IdleIs DEF DropInv
  <2>9. QED
    BY <2>2, <2>7, <2>8
<1>18. QED
  BY <1>1, <1>4, <1>5, <1>6, <1>7, <1>8, <1>9, <1>10, <1>11, <1>12, <1>13, <1>14, <1>15, <1>16,
     <1>17, JobSteps DEF Next, JobStep

\* A repository is marked as deleted when neither collections, points nor manifests
\* of what is expected to go are left, whatever attempts of the deletion failed and
\* whatever indexed in between (RepoIndexer.deleteRepoCollections).
THEOREM DeletionIsComplete == Spec => []DeletedIsGone
<1>1. Shape /\ DropInv => DeletedIsGone
  BY DEF DropInv, DeletedIsGone, Expected, Gone
<1>2. QED
  BY <1>1, ShapeInit, ShapeNext, DropInit, DropNext, PTL DEF Spec

-----------------------------------------------------------------------------
(* Pull requests.                                                          *)

\* What the world adds to the queue.
LEMMA WorldQueue ==
  ASSUME Shape, World
  PROVE  \/ UNCHANGED <<queue, prHead>>
         \/ \E r \in Asked : /\ queue' = Append(queue, r)
                             /\ r.kind = "pr" => r.after = prHead'
                             /\ r.kind # "pr" => prHead' = prHead
<1>1. ASSUME NEW c, NEW forced, Push(c, forced) PROVE UNCHANGED <<queue, prHead>>
  BY <1>1 DEF Push
<1>2. ASSUME NEW c \in Commits, PullRequestPush(c)
      PROVE  \E r \in Asked : /\ queue' = Append(queue, r)
                              /\ r.kind = "pr" /\ r.after = prHead'
  <2> DEFINE r == [kind |-> "pr", before |-> None, after |-> c, forced |-> FALSE]
  <2>1. queue' = Append(queue, r) /\ prHead' = c
    BY <1>2, Typed DEF PullRequestPush
  <2>2. r \in Asked
    BY TypedAsked
  <2>3. QED
    BY <2>1, <2>2
<1>3. ASSUME NEW i \in DOMAIN inbox, Deliver(i)
      PROVE  \E r \in Asked : queue' = Append(queue, r) /\ r.kind = "push" /\ prHead' = prHead
  <2>1. inbox[i] \in Pushed
    BY DEF Shape
  <2>2. inbox[i] \in Asked /\ inbox[i].kind = "push"
    BY <2>1 DEF Asked, Pushed
  <2>3. queue' = Append(queue, inbox[i]) /\ prHead' = prHead
    BY <1>3 DEF Deliver
  <2>4. QED
    BY <2>2, <2>3
<1>4. ASSUME NEW i, Lose(i) PROVE UNCHANGED <<queue, prHead>>
  BY <1>4 DEF Lose
<1>5. ASSUME NEW kind \in Requests, NEW c \in Commits, Request(kind, c)
      PROVE  \E r \in Asked : queue' = Append(queue, r) /\ r.kind # "pr" /\ prHead' = prHead
  <2> DEFINE k == IF kind = "rerun" THEN "full" ELSE kind
             a == IF kind = "rerun" THEN c ELSE Branch
             r == [kind |-> k, before |-> None, after |-> a, forced |-> FALSE]
  <2>1. prHead' = prHead /\ queue' = Append(queue, [NoRequest EXCEPT !.kind = k, !.after = a])
    BY <1>5 DEF Request, github
  <2>2. kind \in {"full", "rerun", "closePr", "delete"}
    BY <1>5, RepoIndexAssumption DEF Request
  <2>3. r \in Asked /\ k # "pr"
    BY <2>2, TypedAsked
  <2>4. queue' = Append(queue, r)
    BY <2>1, Typed
  <2>5. QED
    BY <2>1, <2>3, <2>4
<1>6. Deploy => UNCHANGED <<queue, prHead>>
  BY DEF Deploy, github
<1>7. QED
  BY <1>1, <1>2, <1>3, <1>4, <1>5, <1>6 DEF World

LEMMA PullInit == Init => PullRequestInv
<1> SUFFICES ASSUME Init PROVE PullRequestInv
  OBVIOUS
<1>1. queue = <<[kind |-> "full", before |-> None, after |-> Branch, forced |-> FALSE]>>
  BY Typed DEF Init
<1>2. \A i \in DOMAIN queue : queue[i].kind # "pr"
  BY <1>1
<1>3. manifest["pr"] = None /\ job.req.kind = "none"
  BY IdleIs, CollIs DEF Init
<1>4. QED
  BY <1>2, <1>3 DEF PullRequestInv

LEMMA PullWorld == Shape /\ PullRequestInv /\ World => PullRequestInv'
<1> SUFFICES ASSUME Shape, PullRequestInv, World PROVE PullRequestInv'
  OBVIOUS
<1>1. UNCHANGED <<job, points, manifest>> /\ mishap'["pr"] = mishap["pr"]
  BY WorldIs
<1>2. AsListed("pr")' = AsListed("pr")
  BY <1>1 DEF AsListed
<1>3. CASE UNCHANGED <<queue, prHead>>
  BY <1>1, <1>2, <1>3 DEF PullRequestInv, PullsWait
<1>4. ASSUME NEW r \in Asked, queue' = Append(queue, r), r.kind = "pr" => r.after = prHead',
             r.kind # "pr" => prHead' = prHead
      PROVE  PullRequestInv'
  <2>1. queue \in Seq(Asked)
    BY DEF Shape
  <2> DEFINE n == Len(queue) + 1
  <2>2. n \in Nat /\ DOMAIN queue = 1 .. n - 1 /\ DOMAIN queue' = 1 .. n /\ queue'[n] = r
        /\ \A i \in 1 .. n - 1 : queue'[i] = queue[i]
    BY <1>4, <2>1
  <2> HIDE DEF n
  <2>3. CASE r.kind = "pr"
    <3>1. n \in DOMAIN queue' /\ queue'[n].kind = "pr" /\ queue'[n].after = prHead'
      BY <1>4, <2>2, <2>3
    <3>2. PullsWait'
      BY <3>1 DEF PullsWait
    <3>3. \A i \in DOMAIN queue' : i = n \/ n > i
      BY <2>2
    <3>4. \A i \in DOMAIN queue' : queue'[i].after = prHead' \/
             \E j \in DOMAIN queue' : j > i /\ queue'[j].kind = "pr"
      BY <3>1, <3>3
    <3>5. QED
      BY <3>2, <3>4 DEF PullRequestInv
  <2>4. CASE r.kind # "pr"
    <3>1. PullsWait' <=> PullsWait
      BY <2>2, <2>4 DEF PullsWait
    <3>2. \A i \in DOMAIN queue' : queue'[i].kind = "pr" => i \in DOMAIN queue
      BY <2>2, <2>4
    <3>3. \A i \in DOMAIN queue' : queue'[i].kind = "pr" =>
             queue'[i].after = prHead' \/ \E j \in DOMAIN queue' : j > i /\ queue'[j].kind = "pr"
      <4>1. TAKE i \in DOMAIN queue'
      <4>2. HAVE queue'[i].kind = "pr"
      <4>3. i \in DOMAIN queue /\ queue[i].kind = "pr" /\ queue'[i] = queue[i]
        BY <2>2, <3>2, <4>2
      <4>4. queue[i].after = prHead \/ \E j \in DOMAIN queue : j > i /\ queue[j].kind = "pr"
        BY <4>3 DEF PullRequestInv
      <4>5. QED
        BY <1>4, <2>2, <2>4, <4>3, <4>4
    <3>4. prHead' = prHead
      BY <1>4, <2>4
    <3>5. QED
      BY <1>1, <1>2, <3>1, <3>3, <3>4 DEF PullRequestInv
  <2>5. QED
    BY <2>3, <2>4
<1>5. QED
  BY <1>3, <1>4, WorldQueue

\* A manifest that a full index saves lists what it put into its collection.
LEMMA SavedAsListed ==
  ASSUME Shape, FullInv, SaveManifest, job.pc = "files", NEW k \in Colls, k = Coll
  PROVE  AsListed(k)'
<1> DEFINE contents(p) == FilePoints(job.at, job.cfg, Fingerprint(job.cfg), p)
<1>1. job.todo = {} /\ UNCHANGED points /\ manifest'[k] =
         [sha |-> job.req.after, at |-> job.at, cfg |-> job.cfg,
          fp |-> Fingerprint(job.cfg), files |-> job.listed]
  BY SavedIs
<1>2. \A p : Done(p) = contents(p)
  BY <1>1 DEF Done, FilePoints
<1>3. points[k] = UNION {contents(p) : p \in Paths}
      /\ \A p \in Paths : job.listed[p] = Cardinality(contents(p))
  BY <1>2 DEF FullInv
<1> HIDE DEF contents
<1>4. manifest'[k].at = job.at /\ manifest'[k].cfg = job.cfg
      /\ manifest'[k].fp = Fingerprint(job.cfg) /\ manifest'[k].files = job.listed
  BY <1>1
<1>5. \A p : FilePoints(manifest'[k].at, manifest'[k].cfg, manifest'[k].fp, p)
               = contents(p)
  BY <1>4 DEF contents
<1>6. QED
  BY <1>1, <1>3, <1>4, <1>5 DEF AsListed

LEMMA PullNext == Shape /\ FullInv /\ DropInv /\ PullRequestInv /\ [Next]_vars => PullRequestInv'
<1> SUFFICES ASSUME Shape, FullInv, DropInv, PullRequestInv, [Next]_vars PROVE PullRequestInv'
  OBVIOUS
<1>1. CASE UNCHANGED vars
  BY <1>1 DEF vars, PullRequestInv, PullsWait, AsListed
<1>2. CASE World
  BY <1>2, PullWorld
\* Most steps leave the pull request's collection alone.
<1>3. ASSUME UNCHANGED <<queue, prHead>>, points'["pr"] = points["pr"],
             manifest'["pr"] = manifest["pr"], mishap["pr"] => mishap'["pr"],
             job'.req = job.req,
             job'.pc # "finish" \/ job.req.kind # "pr",
             job.req.kind = "pr" /\ ~ PullsWait /\ job'.pc \in {"reset", "files"} =>
               job'.at = prHead
      PROVE  PullRequestInv'
  <2>1. AsListed("pr")' = AsListed("pr")
    BY <1>3 DEF AsListed
  <2>2. PullsWait' = PullsWait
    BY <1>3 DEF PullsWait
  <2>3. QED
    BY <1>3, <2>1, <2>2 DEF PullRequestInv
\* The job of a pull request is over, or never was.
<1>4. ASSUME UNCHANGED <<queue, prHead>>, job' = Idle,
             manifest'["pr"] # None /\ ~ mishap'["pr"] =>
               /\ job.req.kind = "pr" => job.pc = "finish"
               /\ job.req.kind \notin {"closePr", "delete"}
               /\ manifest'["pr"] = manifest["pr"] /\ points'["pr"] = points["pr"] /\ ~ mishap["pr"]
      PROVE  PullRequestInv'
  <2>1. PullsWait' = PullsWait
    BY <1>4 DEF PullsWait
  <2>2. manifest'["pr"] # None /\ ~ mishap'["pr"] => AsListed("pr")' = AsListed("pr")
    BY <1>4 DEF AsListed
  <2>3. QED
    BY <1>4, <2>1, <2>2, IdleIs DEF PullRequestInv
<1>5. CASE Claim
  <2>1. /\ queue # <<>> /\ queue' = Tail(queue) /\ queue \in Seq(Asked)
        /\ job.pc = "idle" /\ job.req.kind = "none"
        /\ job'.pc = "begin" /\ job'.req = Head(queue)
        /\ UNCHANGED <<prHead, points, manifest, mishap>>
    BY <1>5, ClaimIs DEF Shape, github
  <2> DEFINE n == Len(queue)
  <2>2. n \in Nat \ {0} /\ DOMAIN queue = 1 .. n /\ DOMAIN queue' = 1 .. n - 1
        /\ (\A i \in 1 .. n - 1 : queue'[i] = queue[i + 1]) /\ Head(queue) = queue[1]
    BY <2>1
  <2> HIDE DEF n
  <2>3. PullsWait' <=> \E i \in 2 .. n : queue[i].kind = "pr"
    <3>1. ASSUME NEW i \in 2 .. n, queue[i].kind = "pr" PROVE PullsWait'
      <4>1. i - 1 \in DOMAIN queue' /\ queue'[i - 1] = queue[i]
        BY <2>2
      <4>2. QED
        BY <3>1, <4>1 DEF PullsWait
    <3>2. ASSUME NEW i \in DOMAIN queue', queue'[i].kind = "pr"
          PROVE  \E j \in 2 .. n : queue[j].kind = "pr"
      <4>1. i + 1 \in 2 .. n /\ queue[i + 1].kind = "pr"
        BY <2>2, <3>2
      <4>2. QED
        BY <4>1
    <3>3. QED
      BY <3>1, <3>2 DEF PullsWait
  <2>4. \A i \in DOMAIN queue' : queue'[i].kind = "pr" =>
          queue'[i].after = prHead' \/ \E j \in DOMAIN queue' : j > i /\ queue'[j].kind = "pr"
    <3>1. TAKE i \in DOMAIN queue'
    <3>2. HAVE queue'[i].kind = "pr"
    <3>3. i + 1 \in DOMAIN queue /\ queue[i + 1] = queue'[i] /\ i \in Nat
      BY <2>2
    <3>4. queue[i + 1].after = prHead \/ \E j \in DOMAIN queue : j > i + 1 /\ queue[j].kind = "pr"
      BY <3>2, <3>3 DEF PullRequestInv
    <3>5. ASSUME NEW j \in DOMAIN queue, j > i + 1, queue[j].kind = "pr"
          PROVE  \E l \in DOMAIN queue' : l > i /\ queue'[l].kind = "pr"
      <4>1. j - 1 \in DOMAIN queue' /\ j - 1 > i /\ queue'[j - 1] = queue[j]
        BY <2>2, <3>3, <3>5
      <4>2. QED
        BY <3>5, <4>1
    <3>6. QED
      BY <2>1, <3>3, <3>4, <3>5
  <2>5. job'.req.kind = "pr" /\ ~ PullsWait' => job'.req.after = prHead'
    <3>1. 1 \in DOMAIN queue
      BY <2>2
    <3>2. queue[1].kind = "pr" =>
            queue[1].after = prHead \/ \E j \in DOMAIN queue : j > 1 /\ queue[j].kind = "pr"
      BY <3>1 DEF PullRequestInv
    <3>3. \A j \in DOMAIN queue : j > 1 => j \in 2 .. n
      BY <2>2
    <3>4. QED
      BY <2>1, <2>2, <2>3, <3>2, <3>3
  <2>6. job'.req.kind # "pr" /\ ~ PullsWait' => ~ PullsWait
    <3>1. \A j \in DOMAIN queue : j = 1 \/ j \in 2 .. n
      BY <2>2
    <3>2. QED
      BY <2>1, <2>2, <2>3, <3>1 DEF PullsWait
  <2>7. AsListed("pr")' = AsListed("pr")
    BY <2>1 DEF AsListed
  <2>8. QED
    BY <2>1, <2>4, <2>5, <2>6, <2>7 DEF PullRequestInv
<1>6. CASE Start
  BY <1>3, <1>6, StartIs DEF github
<1>7. CASE Fails
  <2>1. At = "pr" => job.req.kind \in {"pr", "closePr", "delete"}
    <3>1. job.pc = "drop" => job.req.kind \in {"closePr", "delete"}
      BY NextCollIs
    <3>2. QED
      BY <3>1, CollIs DEF At
  <2>2. UNCHANGED <<queue, prHead, manifest>> /\ (At # "pr" => points'["pr"] = points["pr"])
    BY <1>7, FailsIs, CollIs DEF github
  <2>3. CASE job'.pc = "begin" /\ job'.req = job.req /\ UNCHANGED mishap
    <3>1. CASE At # "pr"
      BY <1>3, <2>2, <2>3, <3>1
    <3>2. CASE At = "pr"
      <4>1. PullsWait' = PullsWait
        BY <2>2 DEF PullsWait
      <4>2. QED
        BY <2>1, <2>2, <2>3, <3>2, <4>1 DEF PullRequestInv
    <3>3. QED
      BY <3>1, <3>2
  <2>4. CASE /\ job' = Idle
             /\ \A k \in Colls : mishap'[k] <=> mishap[k] \/ job.req.kind = "delete" \/ k = Coll
    BY <1>4, <2>1, <2>2, <2>4, CollIs
  <2>5. QED
    BY <1>7, <2>3, <2>4, FailsIs
<1>8. CASE Configured \/ FallsBack \/ ManifestFound \/ PushConfigured
  BY <1>3, <1>8, ConfiguredIs, ReadsIs DEF github
<1>9. CASE TreeRead
  <2>1. UNCHANGED <<queue, prHead, points, manifest, mishap>> /\ job'.req = job.req
        /\ job'.pc = "reset" /\ job'.at = RefOf(job.req)
    BY <1>9, TreeReadIs DEF github
  <2>2. job.req.kind = "pr" => job'.at = prHead
    BY <2>1 DEF RefOf
  <2>3. QED
    BY <1>3, <2>1, <2>2
<1>10. ASSUME UNCHANGED <<queue, prHead, manifest, mishap>>, job'.req = job.req, Coll' = Coll,
              \A k \in Colls \ {Coll} : points'[k] = points[k], job.req.kind \in Indexing,
              job.pc \in {"reset", "files"}, job'.pc = "files", job'.at = job.at
       PROVE  PullRequestInv'
  <2>1. CASE Coll # "pr"
    BY <1>3, <1>10, <2>1, CollIs
  <2>2. CASE Coll = "pr"
    <3>1. PullsWait' = PullsWait /\ job.req.kind = "pr"
      BY <1>10, <2>2, CollIs DEF PullsWait, Indexing
    <3>2. QED
      BY <1>10, <3>1 DEF PullRequestInv
  <2>3. QED
    BY <2>1, <2>2
<1>11. CASE Reset
  BY <1>10, <1>11, ResetIs DEF github
<1>12. ASSUME NEW p \in Paths, FileIndexed(p) PROVE PullRequestInv'
  BY <1>10, <1>12, FileIndexedIs DEF github
<1>13. CASE Compared \/ ChangeApplied
  BY <1>3, <1>13, ComparedIs, ChangeAppliedIs DEF github
<1>14. CASE SaveManifest
  <2>1. /\ job.pc \in {"files", "apply"} /\ job'.pc = "finish" /\ job'.req = job.req
        /\ UNCHANGED <<queue, prHead, points>> /\ Coll \in Colls
        /\ (Coll = "pr" <=> job.req.kind = "pr")
        /\ \A k \in Colls \ {Coll} : manifest'[k] = manifest[k] /\ mishap'[k] = mishap[k]
        /\ manifest'[Coll] = [sha |-> job.req.after, at |-> job.at, cfg |-> job.cfg,
               fp |-> Fingerprint(job.cfg), files |-> job.listed]
    BY <1>14, SavedIs, CollIs DEF github
  <2>2. CASE Coll # "pr"
    BY <1>3, <2>1, <2>2, CollIs
  <2>3. CASE Coll = "pr"
    <3>1. job.pc = "files"
      BY <1>14, <2>1, <2>3, SaveIs
    <3>2. PullsWait' = PullsWait
      BY <2>1 DEF PullsWait
    <3>3. AsListed("pr")'
      BY <1>14, <2>1, <2>3, <3>1, SavedAsListed
    <3>4. manifest'["pr"].at = job.at /\ manifest'["pr"].sha = job.req.after
      BY <2>1, <2>3
    <3>5. ~ PullsWait => job.at = prHead /\ job.req.after = prHead
      BY <2>1, <2>3, <3>1 DEF PullRequestInv
    <3>6. QED
      BY <2>1, <2>3, <3>2, <3>3, <3>4, <3>5 DEF PullRequestInv
  <2>4. QED
    BY <2>2, <2>3
<1>15. CASE Finish \/ MarkDeleted
  <2>1. UNCHANGED <<queue, prHead, points, manifest, mishap>> /\ job' = Idle
        /\ (job.pc = "finish" \/ (job.pc = "gone" /\ job.req.kind = "delete"))
    BY <1>15, EndsIs DEF github
  <2>2. job.pc = "finish" => job.req.kind \in Indexing
    BY DEF Shape, Good, Staged
  <2>3. job.pc = "gone" => manifest["pr"] = None \/ mishap["pr"]
    BY CollIs DEF DropInv, Expected, Gone
  <2>4. QED
    BY <1>4, <2>1, <2>2, <2>3 DEF Indexing
<1>16. ASSUME job.req.kind \in {"closePr", "delete"}, job'.req = job.req,
              UNCHANGED <<queue, prHead>>
       PROVE  PullRequestInv'
  BY <1>16 DEF PullRequestInv, PullsWait
<1>17. CASE ListCollections \/ DropCollection
  BY <1>16, <1>17, ListIs, DropIs DEF github
<1>18. CASE Unlisting
  <2>1. UNCHANGED <<queue, prHead>> /\ job.req.kind \in {"closePr", "delete"}
        /\ (job'.req = job.req \/ (job' = Idle /\ manifest'["pr"] = None))
    BY <1>18, UnlistingIs DEF github
  <2>2. QED
    BY <1>4, <1>16, <2>1
<1>19. QED
  BY <1>1, <1>2, <1>5, <1>6, <1>7, <1>8, <1>9, <1>11, <1>12, <1>13, <1>14, <1>15, <1>17, <1>18,
     JobSteps DEF Next, JobStep

\* When no job of the pull request runs or waits, its collection holds what the head
\* of the pull request holds, cut as its manifest says, whatever attempts failed half
\* way and were retried and however late a job runs (RepoIndexer.pullRequestIndex).
THEOREM PullRequestFollowsHead == Spec => []PullRequestIsIndexed
<1>1. Shape /\ PullRequestInv => PullRequestIsIndexed
  <2>1. Shape /\ job.pc = "idle" => job.req.kind = "none"
    BY IdleIs DEF Shape, Good, Staged
  <2>2. QED
    BY <2>1 DEF PullRequestInv, PullRequestIsIndexed, PullsWait
<1>2. QED
  BY <1>1, ShapeInit, ShapeNext, FullInit, FullNext, DropInit, DropNext, PullInit, PullNext, PTL
     DEF Spec

-----------------------------------------------------------------------------
(* The repository's row.                                                   *)

LEMMA ReadyInit == Init => ReadyInv
  BY IdleIs DEF Init, ReadyInv, OfDefaultBranch

\* A full index lists as many chunks as it put into the collection.
LEMMA FullTotal ==
  ASSUME Shape, FullInv, job.pc = "files"
  PROVE  Total(job.listed) = Cardinality(points[Coll])
<1> DEFINE C == [p \in Paths |-> Done(p)]
           l == job.listed
<1>1. \A p \in Paths : IsFiniteSet(Done(p)) /\ l[p] = Cardinality(Done(p))
  <2>1. TAKE p \in Paths
  <2>2. CASE Done(p) = {}
    BY <2>2, FS_EmptySet DEF FullInv
  <2>3. CASE Done(p) # {}
    <3>1. p \in Indexed(job.at, job.cfg) /\ job.at \in Commits /\ job.cfg \in Configs
      BY <2>3 DEF Done, Shape, Good, Staged
    <3>2. Tree[job.at][p] \in Blobs /\ Fingerprint(job.cfg) \in Fingerprints
      BY <3>1, BlobIs, FingerprintIs DEF Indexed, Shape
    <3>3. IsFiniteSet(Chunks(p, Tree[job.at][p], Fingerprint(job.cfg)))
      BY <3>2, ChunksFinite
    <3>4. QED
      BY <2>3, <3>3 DEF Done, FullInv
  <2>4. QED
    BY <2>2, <2>3
<1>2. \A p, q \in Paths : p # q => Done(p) \cap Done(q) = {}
  BY ChunksPath DEF Done
<1>3. points[Coll] = UnionOf(C, Paths)
  <2>1. UNION {Done(p) : p \in Paths} = UNION {C[p] : p \in Paths}
    OBVIOUS
  <2>2. QED
    BY <2>1 DEF FullInv, UnionOf
<1>4. \A p \in Paths : IsFiniteSet(C[p]) /\ l[p] = Cardinality(C[p])
  BY <1>1
<1>5. \A p, q \in Paths : p # q => C[p] \cap C[q] = {}
  BY <1>2
<1>6. IsFiniteSet(Paths)
  BY RepoIndexAssumption
<1> HIDE DEF C, l
<1>7. SumOf(l, Paths) = Cardinality(UnionOf(C, Paths))
  BY <1>4, <1>5, <1>6, SumOfSizes
<1>8. Total(l) = SumOf(l, Paths)
  BY DEF Total, SumOf
<1>9. QED
  BY <1>3, <1>7, <1>8 DEF l

LEMMA ReadyNext == Shape /\ FullInv /\ ReadyInv /\ [Next]_vars => ReadyInv'
<1> SUFFICES ASSUME Shape, FullInv, ReadyInv, [Next]_vars PROVE ReadyInv'
  OBVIOUS
<1> USE DEF OfDefaultBranch
<1>1. CASE UNCHANGED vars \/ World
  <2>1. UNCHANGED <<job, points, manifest, status>> /\ (mishap["default"] => mishap'["default"])
    BY <1>1, WorldIs, CollIs DEF vars
  <2>2. QED
    BY <2>1 DEF ReadyInv
\* A job of the default branch that is not saved yet: the row says so.
<1>2. ASSUME job'.req.kind \in {"full", "push"}, job'.pc # "finish", status'.state = "indexing"
      PROVE  ReadyInv'
  BY <1>2 DEF ReadyInv
\* Another job that leaves the row and the default collection alone.
<1>3. ASSUME job'.req.kind \notin {"full", "push"}, UNCHANGED status,
             mishap["default"] => mishap'["default"],
             ~ mishap'["default"] /\ ~ (job'.req.kind = "delete" /\
                  (job'.tries > 0 \/ job'.pc \in {"drop", "unlist", "gone"})) =>
               /\ manifest'["default"] = manifest["default"]
               /\ points'["default"] = points["default"]
               /\ ~ (job.req.kind = "delete" /\
                       (job.tries > 0 \/ job.pc \in {"drop", "unlist", "gone"}))
      PROVE  ReadyInv'
  BY <1>3 DEF ReadyInv
<1>4. job.req.kind \in {"full", "push"} /\ job.pc \notin {"idle", "begin"} =>
        status.state = "indexing"
  BY DEF ReadyInv
\* Another step of a job of the default branch.
<1>5. ASSUME job.pc \notin {"idle", "begin"}, job'.req = job.req, UNCHANGED status,
             job'.pc # "finish", job.req.kind \in {"full", "push"}
      PROVE  ReadyInv'
  BY <1>2, <1>4, <1>5
\* Another step of a job of the pull request.
<1>6. ASSUME job.req.kind \in {"pr", "closePr"}, job'.req = job.req \/ job' = Idle,
             UNCHANGED status, mishap["default"] => mishap'["default"],
             manifest'["default"] = manifest["default"],
             points'["default"] = points["default"]
      PROVE  ReadyInv'
  BY <1>3, <1>6, IdleIs
<1>7. CASE Claim
  <2>1. job.req.kind = "none" /\ job'.pc = "begin" /\ job'.tries = 0
        /\ UNCHANGED <<points, manifest, status, mishap>>
    BY <1>7, ClaimIs
  <2>2. QED
    BY <2>1 DEF ReadyInv
<1>8. CASE Start
  <2>1. /\ job.pc = "begin" /\ job.req \in Asked /\ job'.req = job.req /\ job'.tries = job.tries
        /\ (job.req.kind = "delete" => job'.pc = "list")
        /\ job'.pc \in {"config", "manifest", "drop", "list"}
        /\ status' = IF OfDefaultBranch(job.req) THEN [status EXCEPT !.state = "indexing"]
                     ELSE status
        /\ UNCHANGED <<points, manifest, mishap>>
    BY <1>8, StartIs
  <2>2. CASE job.req.kind \in {"full", "push"}
    <3>1. status'.state = "indexing"
      BY <2>1, <2>2 DEF Shape
    <3>2. QED
      BY <1>2, <2>1, <2>2, <3>1
  <2>3. CASE job.req.kind \notin {"full", "push"}
    BY <1>3, <2>1, <2>3
  <2>4. QED
    BY <2>2, <2>3
<1>9. CASE Fails
  <2>1. /\ job.req \in Asked /\ UNCHANGED manifest /\ At \in Colls /\ points'[At] \in HalfDone
        /\ \A k \in Colls \ {At} : points'[k] = points[k]
        /\ job.pc # "idle"
    BY <1>9, FailsIs DEF Fails
  <2>2. job.pc = "begin" => points'["default"] = points["default"]
    <3>1. job.pc = "begin" => HalfDone = {points[At]}
      BY DEF HalfDone
    <3>2. QED
      BY <2>1, <3>1, CollIs
  <2>3. job.req.kind \in {"pr", "closePr"} => points'["default"] = points["default"]
    <3>1. job.req.kind \in {"pr", "closePr"} => At = "pr"
      BY NextCollIs, CollIs DEF At
    <3>2. QED
      BY <2>1, <3>1, CollIs
  <2>4. CASE job'.pc = "begin" /\ job'.req = job.req /\ job'.tries = job.tries + 1
             /\ UNCHANGED <<status, mishap>>
    <3>1. CASE job.req.kind \in {"full", "push"} /\ job.pc = "begin"
      BY <2>1, <2>2, <2>4, <3>1 DEF ReadyInv
    <3>2. CASE job.req.kind \in {"full", "push"} /\ job.pc # "begin"
      BY <1>2, <1>4, <2>1, <2>4, <3>2
    <3>3. CASE job.req.kind \in {"pr", "closePr"}
      BY <1>6, <2>1, <2>3, <2>4, <3>3
    <3>4. CASE job.req.kind = "delete"
      <4>1. job'.tries > 0
        BY <2>4, JobFields
      <4>2. QED
        BY <1>3, <2>4, <3>4, <4>1
    <3>5. QED
      BY <2>1, <3>1, <3>2, <3>3, <3>4, AskedIs
  <2>5. CASE /\ job' = Idle
             /\ status' = IF OfDefaultBranch(job.req)
                          THEN [status EXCEPT !.state = "failed"] ELSE status
             /\ \A k \in Colls : mishap'[k] <=> mishap[k] \/ job.req.kind = "delete" \/ k = Coll
    <3>1. CASE job.req.kind \in {"full", "push"}
      <4>1. status'.state = "failed"
        BY <2>5, <3>1 DEF Shape
      <4>2. QED
        BY <2>5, <4>1, IdleIs DEF ReadyInv
    <3>2. CASE job.req.kind \in {"pr", "closePr"}
      BY <1>6, <2>1, <2>3, <2>5, <3>2, CollIs
    <3>3. CASE job.req.kind = "delete"
      BY <1>3, <2>5, <3>3, CollIs, IdleIs
    <3>4. QED
      BY <2>1, <3>1, <3>2, <3>3, AskedIs
  <2>6. QED
    BY <1>9, <2>4, <2>5, FailsIs
\* The steps between the first and the last of an index job.
<1>10. ASSUME job.pc \notin {"idle", "begin"}, job.req.kind \in Indexing, job'.req = job.req,
              job'.pc # "finish", UNCHANGED <<manifest, status, mishap>>,
              Coll = "pr" => points'["default"] = points["default"]
       PROVE  ReadyInv'
  <2>1. CASE job.req.kind \in {"full", "push"}
    BY <1>5, <1>10, <2>1
  <2>2. CASE job.req.kind = "pr"
    BY <1>6, <1>10, <2>2, CollIs
  <2>3. QED
    BY <1>10, <2>1, <2>2 DEF Indexing
<1>11. job.pc \in {"config", "tree", "reset", "files", "manifest", "settings", "compare", "apply"}
         => job.req.kind \in Indexing
  BY DEF Shape, Good, Staged, Indexing
<1>12. CASE Configured \/ TreeRead
  BY <1>10, <1>11, <1>12, ConfiguredIs, TreeReadIs
<1>13. CASE Reset
  BY <1>10, <1>13, ResetIs, CollIs
<1>14. ASSUME NEW p \in Paths, FileIndexed(p) PROVE ReadyInv'
  BY <1>10, <1>14, FileIndexedIs, CollIs
<1>15. CASE FallsBack \/ ManifestFound \/ PushConfigured
  BY <1>10, <1>11, <1>15, ReadsIs
<1>16. CASE Compared
  BY <1>10, <1>11, <1>16, ComparedIs
<1>17. CASE ChangeApplied
  BY <1>10, <1>11, <1>17, ChangeAppliedIs
<1>18. CASE SaveManifest
  <2>1. /\ job.pc \in {"files", "apply"} /\ job'.pc = "finish"
        /\ job'.req = job.req /\ job'.full = job.full /\ job'.listed = job.listed
        /\ job.req.kind \in Indexing /\ (Coll = "pr" <=> job.req.kind = "pr")
        /\ manifest'[Coll] # None
        /\ manifest'[Coll] = [sha |-> job.req.after, at |-> job.at, cfg |-> job.cfg,
              fp |-> Fingerprint(job.cfg), files |-> job.listed]
        /\ \A k \in Colls \ {Coll} : manifest'[k] = manifest[k] /\ mishap'[k] = mishap[k]
        /\ UNCHANGED <<points, status>>
    BY <1>18, SavedIs
  <2>2. CASE Coll = "pr"
    BY <1>6, <2>1, <2>2, CollIs
  <2>3. CASE Coll = "default"
    <3>1. job.req.kind \in {"full", "push"} /\ status'.state = "indexing"
      BY <1>4, <2>1, <2>3, CollIs DEF Indexing
    <3>2. manifest'["default"] # None /\ manifest'["default"].sha = job'.req.after
      BY <2>1, <2>3
    <3>3. job'.full => Total(job'.listed) = Cardinality(points'["default"])
      <4>1. job.full => job.pc = "files"
        BY <2>1 DEF Shape, Good, Staged
      <4>2. QED
        BY <2>1, <2>3, <4>1, FullTotal
    <3>4. QED
      BY <2>1, <3>1, <3>2, <3>3 DEF ReadyInv
  <2>4. QED
    BY <2>2, <2>3, CollIs
<1>19. CASE Finish \/ MarkDeleted
  <2>1. /\ job' = Idle /\ UNCHANGED <<points, manifest, mishap>>
        /\ Finish => job.pc = "finish"
        /\ MarkDeleted => job.pc = "gone" /\ job.req.kind = "delete"
        /\ Finish => status' = IF OfDefaultBranch(job.req)
              THEN [state |-> "ready", sha |-> job.req.after,
                    chunks |-> IF job.full THEN Total(job.listed)
                               ELSE Cardinality(points["default"])]
              ELSE status
        /\ MarkDeleted => status' = [status EXCEPT !.state = "deleted"]
    BY <1>19, EndsIs
  <2>2. CASE MarkDeleted
    <3>1. status'.state = "deleted"
      BY <2>1, <2>2 DEF Shape
    <3>2. QED
      BY <2>1, <3>1, IdleIs DEF ReadyInv
  <2>3. CASE Finish /\ job.req.kind \notin {"full", "push"}
    <3>1. job.req.kind \in Indexing
      BY <2>1, <2>3 DEF Shape, Good, Staged
    <3>2. QED
      BY <1>6, <2>1, <2>3, <3>1 DEF Indexing
  <2>4. CASE Finish /\ job.req.kind \in {"full", "push"}
    <3>1. status' = [state |-> "ready", sha |-> job.req.after,
                     chunks |-> IF job.full THEN Total(job.listed)
                                ELSE Cardinality(points["default"])]
      BY <2>1, <2>4
    <3>2. manifest["default"] # None /\ manifest["default"].sha = job.req.after
          /\ (job.full => Total(job.listed) = Cardinality(points["default"]))
      BY <2>1, <2>4 DEF ReadyInv
    <3>3. status'.sha = job.req.after /\ status'.chunks = Cardinality(points["default"])
      BY <3>1, <3>2
    <3>4. QED
      BY <2>1, <3>2, <3>3, IdleIs DEF ReadyInv
  <2>5. QED
    BY <1>19, <2>2, <2>3, <2>4
<1>20. CASE ListCollections \/ DropCollection
  <2>1. /\ job'.req = job.req /\ UNCHANGED <<manifest, status, mishap>>
        /\ \/ job.req.kind = "delete" /\ job'.pc \in {"drop", "unlist"}
           \/ job.req.kind = "closePr" /\ points'["default"] = points["default"]
    BY <1>20, ListIs, DropIs, CollIs
  <2>2. QED
    BY <1>3, <1>6, <2>1
<1>21. CASE Unlisting
  <2>1. UNCHANGED <<points, status, mishap>> /\ job.req.kind \in {"delete", "closePr"}
        /\ (job.req.kind = "closePr" => manifest'["default"] = manifest["default"])
        /\ \/ job'.req = job.req /\ job.req.kind = "delete" /\ job'.pc \in {"drop", "gone"}
           \/ job' = Idle /\ job.req.kind = "closePr"
    BY <1>21, UnlistingIs, CollIs
  <2>2. QED
    BY <1>3, <1>6, <2>1
<1>22. QED
  BY <1>1, <1>7, <1>8, <1>9, <1>12, <1>13, <1>14, <1>15, <1>16, <1>17, <1>18, <1>19, <1>20,
     <1>21, JobSteps DEF Next, JobStep

\* A repository that is shown as ready has an index of the commit it names, with as
\* many points as it says, however attempts before it failed (RepoIndexer.markReady).
THEOREM ReadyNamesIndex == Spec => []ReadyIsIndexed
<1>1. Shape /\ ReadyInv => ReadyIsIndexed
  <2>1. Shape /\ job.pc = "idle" => job.req.kind = "none"
    BY IdleIs DEF Shape, Good, Staged
  <2>2. QED
    BY <2>1 DEF ReadyInv, ReadyIsIndexed
<1>2. QED
  BY <1>1, ShapeInit, ShapeNext, FullInit, FullNext, ReadyInit, ReadyNext, PTL DEF Spec

=============================================================================
