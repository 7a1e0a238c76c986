------------------------- MODULE RepoIndexHeadProofs -------------------------
(***************************************************************************)
(* The index of the default branch follows its head: THEOREM HeadIsFollowed*)
(* about RepoIndex.  Chain says that the pushes that wait lead from commit *)
(* to commit to the head; HeadInv what the collection and its manifest     *)
(* hold where no push is left to be applied; ApplyInv what a push that is  *)
(* half applied has done; PathInv and OrderInv how it got there.           *)
(***************************************************************************)
EXTENDS RepoIndexProofs

-----------------------------------------------------------------------------
(* The default branch.                                                     *)

IsPush(r) == r.kind = "push"
Touches(r, p) == IsPush(r) /\ p \in Differ(r.before, r.after)

\* Some push that waits changes p.
Waits(p) == \E i \in DOMAIN Waiting : Touches(Waiting[i], p)

\* The job that runs is a push that is not saved yet.
PushRuns == IsPush(job.req) /\ job.pc # "finish"

\* Some push that runs or waits makes p what it is to be.
Pends(p) == (PushRuns /\ Touches(job.req, p)) \/ Waits(p)

\* The pushes from i on lead from commit c to the head of the branch.
Leads(c, i) ==
  /\ \A p \in Paths : \/ Tree[c][p] = Tree[head][p]
                      \/ \E j \in DOMAIN Waiting : j >= i /\ Touches(Waiting[j], p)
  /\ c = head \/ \E j \in DOMAIN Waiting : j >= i /\ IsPush(Waiting[j])

Chain == \A i \in DOMAIN Waiting : IsPush(Waiting[i]) => Leads(Waiting[i].after, i + 1)

ChainInv == Chain /\ (IsPush(job.req) => Leads(job.req.after, 1))

\* A push that falls back to a full index.
Rebuilds(r) ==
  \/ r.forced \/ manifest["default"] = None
  \/ ~ SameFingerprint(Fingerprint(ConfigOf(r.after)))
  \/ TooMuchChanged(Changes(r.before, r.after))

\* What a job has found out at each step.
PathInv ==
  /\ IsPush(job.req) /\ job.pc \in {"config", "tree", "reset", "files"} => Rebuilds(job.req)
  /\ job.pc \in {"settings", "compare", "apply"} => manifest["default"] # None
  /\ job.pc \in {"settings", "compare"} => job.listed = manifest["default"].files
  /\ job.pc = "compare" => SameFingerprint(Fingerprint(ConfigOf(job.req.after)))
  /\ job.pc = "apply" => ~ Rebuilds(job.req)
  /\ job.pc \in {"compare", "apply"} => job.cfg = ConfigOf(job.req.after)
  /\ job.req.kind # "pr" /\ job.req.after # Branch =>
       /\ job.pc \in {"tree", "reset", "files"} => job.cfg = ConfigOf(job.req.after)
       /\ job.pc \in {"reset", "files"} => job.at = job.req.after

\* A full index of the branch has read the configuration of its head.
CfgInv ==
  job.req.kind = "full" /\ job.pc \in {"tree", "reset", "files"} /\ job.req.after = Branch =>
    job.cfg = ConfigOf(head) \/ Waits(Config)

\* The files of a push are taken in the order of their names.
OrderInv ==
  job.pc = "apply" => \A e \in Changes(job.req.before, job.req.after) \ job.todo :
     \A x \in job.todo : Rank[e.path] < Rank[x.path]

\* The collection may be half dropped or half built.
Broken ==
  \/ job.req.kind = "delete" /\ (job.tries > 0 \/ job.pc \in {"drop", "unlist", "gone"})
  \/ job.req.kind = "full" /\ job.pc # "finish" /\ (job.tries > 0 \/ job.pc = "files")
  \/ PushRuns /\ Rebuilds(job.req) /\ (job.tries > 0 \/ job.pc = "files")

PointsAt(p) == {x \in points["default"] : PathOf(x) = p}

\* What the manifest should list at p, and the collection should hold.
Expect(p) == FilePoints(head, ConfigOf(head), manifest["default"].fp, p)

HeadInv ==
  ~ Broken /\ manifest["default"] # None /\ ~ Pends(Config) =>
    /\ \A p \in Paths : ~ Pends(p) =>
         PointsAt(p) = Expect(p) /\ manifest["default"].files[p] = Cardinality(Expect(p))
    /\ ~ PushRuns /\ ~ PushesWait =>
         manifest["default"].at = head /\ manifest["default"].cfg = ConfigOf(head)

\* The push that runs has been applied to the file at p.
Applied(p) ==
  \E e \in Changes(job.req.before, job.req.after) \ job.todo : p \in {e.path, e.previous}

ApplyInv ==
  job.pc = "apply" /\ Wiped(Changes(job.req.before, job.req.after)) = {} /\ ~ Waits(Config) =>
    \A p \in Paths : ~ Waits(p) /\ (Touches(job.req, p) => Applied(p)) =>
       PointsAt(p) = Expect(p) /\ job.listed[p] = Cardinality(Expect(p))

Main == ~ mishap["default"] => ChainInv /\ CfgInv /\ HeadInv /\ ApplyInv

-----------------------------------------------------------------------------
(* The pushes that wait.                                                   *)

LEMMA ConcatIs ==
  ASSUME NEW S, NEW s \in Seq(S), NEW t \in Seq(S)
  PROVE  /\ s \o t \in Seq(S) /\ DOMAIN (s \o t) = 1 .. Len(s) + Len(t)
         /\ \A i \in 1 .. Len(s) : (s \o t)[i] = s[i]
         /\ \A i \in 1 .. Len(t) : (s \o t)[Len(s) + i] = t[i]
  OBVIOUS

LEMMA WaitingIs ==
  ASSUME Shape
  PROVE  /\ Waiting \in Seq(Asked) /\ Len(Waiting) = Len(queue) + Len(inbox)
         /\ Len(queue) \in Nat /\ Len(inbox) \in Nat
         /\ \A i \in 1 .. Len(queue) : Waiting[i] = queue[i]
         /\ \A i \in 1 .. Len(inbox) : Waiting[Len(queue) + i] = inbox[i]
<1>1. Pushed \subseteq Asked
  BY DEF Asked
<1>2. queue \in Seq(Asked) /\ inbox \in Seq(Asked)
  BY <1>1 DEF Shape
<1>3. QED
  BY <1>2 DEF Waiting

LEMMA PushIs ==
  ASSUME NEW r \in Asked, IsPush(r)
  PROVE  r \in Pushed /\ r.before \in Commits /\ r.after \in Commits
  BY AskedIs DEF IsPush

\* A push of the branch: what waits leads to its new head.
LEMMA ChainPush ==
  ASSUME Shape, NEW c \in Commits, NEW forced \in BOOLEAN, Push(c, forced)
  PROVE  /\ head' = c /\ PushesWait'
         /\ \A p \in Paths : Waits(p)' <=> (Waits(p) \/ Tree[head][p] # Tree[c][p])
         /\ Chain => Chain'
         /\ \A d : Leads(d, 1) => Leads(d, 1)'
<1> DEFINE r == [kind |-> "push", before |-> head, after |-> c, forced |-> forced]
           n == Len(Waiting) + 1
<1>1. head' = c /\ queue' = queue /\ inbox' = Append(inbox, r) /\ head \in Commits /\ c \in Commits
  BY DEF Push, Shape
<1>2. queue \in Seq(Asked) /\ inbox \in Seq(Pushed) /\ r \in Pushed /\ Pushed \subseteq Asked
  <2>1. r \in Pushed
    BY <1>1 DEF Pushed
  <2>2. QED
    BY <1>1, <2>1 DEF Shape, Asked
<1> HIDE DEF r
<1>3. Waiting' = Append(Waiting, r) /\ Waiting \in Seq(Asked)
  <2>1. inbox \in Seq(Asked) /\ r \in Asked
    BY <1>2
  <2>2. QED
    BY <1>1, <1>2, <2>1 DEF Waiting
<1>4. n \in Nat \ {0} /\ DOMAIN Waiting = 1 .. n - 1 /\ DOMAIN Waiting' = 1 .. n /\ Waiting'[n] = r
      /\ \A i \in 1 .. n - 1 : Waiting'[i] = Waiting[i]
  BY <1>3
<1>5. IsPush(r) /\ r.before = head /\ r.after = c
      /\ \A p \in Paths : Touches(r, p) <=> Tree[head][p] # Tree[c][p]
  BY DEF IsPush, Touches, Differ, r
<1> HIDE DEF n
<1>6. n \in DOMAIN Waiting' /\ \A i \in DOMAIN Waiting' : i = n \/ i \in DOMAIN Waiting
  BY <1>4
<1>7. PushesWait'
  BY <1>4, <1>5, <1>6 DEF PushesWait, IsPush
<1>8. \A p \in Paths : Waits(p)' <=> (Waits(p) \/ Tree[head][p] # Tree[c][p])
  <2>1. TAKE p \in Paths
  <2>2. ASSUME Waits(p)' PROVE Waits(p) \/ Tree[head][p] # Tree[c][p]
    <3>1. PICK i \in DOMAIN Waiting' : Touches(Waiting'[i], p)
      BY <2>2 DEF Waits, Touches, IsPush
    <3>2. QED
      BY <1>4, <1>5, <1>6, <3>1 DEF Waits
  <2>3. ASSUME Waits(p) \/ Tree[head][p] # Tree[c][p]
        PROVE  \E i \in DOMAIN Waiting' : Touches(Waiting'[i], p)
    BY <1>4, <1>5, <1>6, <2>3 DEF Waits
  <2>4. QED
    BY <2>2, <2>3 DEF Waits, Touches, IsPush
<1>9. ASSUME NEW d, NEW i \in 1 .. n, Leads(d, i) PROVE Leads(d, i)'
  <2>1. n >= i /\ \A j \in DOMAIN Waiting : j \in DOMAIN Waiting' /\ Waiting'[j] = Waiting[j]
    BY <1>4
  <2>2. \A p \in Paths : \/ Tree[d][p] = Tree[c][p]
                         \/ \E j \in DOMAIN Waiting' : j >= i /\ Touches(Waiting'[j], p)
    BY <1>4, <1>5, <1>6, <1>9, <2>1 DEF Leads
  <2>3. \E j \in DOMAIN Waiting' : j >= i /\ IsPush(Waiting'[j])
    BY <1>4, <1>5, <1>6, <2>1
  <2>4. QED
    BY <1>1, <2>2, <2>3 DEF Leads, Touches, IsPush
<1>10. ASSUME Chain PROVE Chain'
  <2>1. ASSUME NEW i \in DOMAIN Waiting', IsPush(Waiting'[i]) PROVE Leads(Waiting[i].after, i + 1)'
    <3>1. CASE i = n
      <4>1. Waiting'[i].after = c
        BY <1>4, <1>5, <3>1
      <4>2. QED
        BY <1>1, <4>1 DEF Leads
    <3>2. CASE i \in DOMAIN Waiting
      <4>1. Waiting'[i] = Waiting[i] /\ i + 1 \in 1 .. n
        BY <1>4, <3>2
      <4>2. PICK d : d = Waiting[i].after
        OBVIOUS
      <4>3. Leads(d, i + 1)
        BY <1>10, <2>1, <3>2, <4>1, <4>2 DEF Chain
      <4>4. Leads(d, i + 1)'
        BY <1>9, <4>1, <4>3
      <4>5. QED
        BY <4>1, <4>2, <4>4
    <3>3. QED
      BY <1>6, <3>1, <3>2
  <2>2. QED
    BY <2>1 DEF Chain, IsPush
<1>11. 1 \in 1 .. n
  BY <1>4
<1>12. QED
  BY <1>1, <1>7, <1>8, <1>9, <1>10, <1>11

\* The pushes that wait keep their order, and no other push is among them.
LEMMA ChainShift ==
  ASSUME head' = head, NEW n \in Nat, DOMAIN Waiting = 1 .. n, DOMAIN Waiting' \subseteq Nat \ {0},
         NEW f,
         \A i \in 1 .. n : f[i] \in DOMAIN Waiting' /\ Waiting'[f[i]] = Waiting[i],
         \A i, j \in 1 .. n : j >= i + 1 => f[j] >= f[i] + 1,
         \A k \in DOMAIN Waiting' : IsPush(Waiting'[k]) => \E i \in 1 .. n : f[i] = k
  PROVE  /\ PushesWait' <=> PushesWait
         /\ \A p \in Paths : Waits(p)' <=> Waits(p)
         /\ Chain => Chain'
         /\ \A d : Leads(d, 1) => Leads(d, 1)'
<1>1. PushesWait' <=> PushesWait
  BY DEF PushesWait, IsPush
<1>2. ASSUME NEW p \in Paths PROVE Waits(p)' <=> Waits(p)
  <2>1. ASSUME NEW k \in DOMAIN Waiting', Touches(Waiting'[k], p) PROVE Waits(p)
    <3>1. PICK i \in 1 .. n : f[i] = k
      BY <2>1 DEF Touches
    <3>2. QED
      BY <2>1, <3>1 DEF Waits
  <2>2. ASSUME NEW i \in 1 .. n, Touches(Waiting[i], p)
        PROVE  \E k \in DOMAIN Waiting' : Touches(Waiting'[k], p)
    BY <2>2
  <2>3. QED
    BY <2>1, <2>2 DEF Waits, Touches, IsPush
<1>3. ASSUME NEW d, Leads(d, 1) PROVE Leads(d, 1)'
  <2>1. \A j \in 1 .. n : f[j] >= 1
    OBVIOUS
  <2>2. \A p \in Paths : \/ Tree[d][p] = Tree[head'][p]
                         \/ \E j \in DOMAIN Waiting' : j >= 1 /\ Touches(Waiting'[j], p)
    BY <1>3, <2>1 DEF Leads
  <2>3. d = head' \/ \E j \in DOMAIN Waiting' : j >= 1 /\ IsPush(Waiting'[j])
    BY <1>3, <2>1 DEF Leads
  <2>4. QED
    BY <2>2, <2>3 DEF Leads, Touches, IsPush
<1>4. ASSUME Chain PROVE Chain'
  <2>1. ASSUME NEW k \in DOMAIN Waiting', IsPush(Waiting'[k])
        PROVE  Leads(Waiting[k].after, k + 1)'
    <3>1. PICK i \in 1 .. n : f[i] = k
      BY <2>1
    <3>2. PICK d : d = Waiting[i].after
      OBVIOUS
    <3>3. Waiting'[k] = Waiting[i] /\ Waiting'[k].after = d /\ k \in Nat
      BY <3>1, <3>2
    <3>4. Leads(d, i + 1)
      BY <1>4, <2>1, <3>2, <3>3 DEF Chain
    <3>5. \A j \in 1 .. n : j >= i + 1 =>
             f[j] \in DOMAIN Waiting' /\ f[j] >= k + 1 /\ Waiting'[f[j]] = Waiting[j]
      BY <3>1
    <3>6. \A p \in Paths : \/ Tree[d][p] = Tree[head'][p]
                           \/ \E j \in DOMAIN Waiting' : j >= k + 1 /\ Touches(Waiting'[j], p)
      BY <3>4, <3>5 DEF Leads
    <3>7. d = head' \/ \E j \in DOMAIN Waiting' : j >= k + 1 /\ IsPush(Waiting'[j])
      BY <3>4, <3>5 DEF Leads
    <3>8. Leads(d, k + 1)'
      BY <3>6, <3>7 DEF Leads, Touches, IsPush
    <3>9. QED
      BY <3>3, <3>8
  <2>2. QED
    BY <2>1 DEF Chain, IsPush
<1>5. QED
  BY <1>1, <1>2, <1>3, <1>4

LEMMA ChainInsert ==
  ASSUME Shape, head' = head, inbox' = inbox, NEW r \in Asked, ~ IsPush(r),
         queue' = Append(queue, r)
  PROVE  /\ PushesWait' <=> PushesWait
         /\ \A p \in Paths : Waits(p)' <=> Waits(p)
         /\ Chain => Chain'
         /\ \A d : Leads(d, 1) => Leads(d, 1)'
<1>1. PICK m \in Nat : m = Len(queue)
  BY WaitingIs
<1>2. PICK n \in Nat : n = Len(Waiting)
  BY WaitingIs
<1>3. queue \in Seq(Asked) /\ inbox \in Seq(Asked) /\ Waiting = queue \o inbox
      /\ Waiting' = Append(queue, r) \o inbox
  <2>1. Pushed \subseteq Asked
    BY DEF Asked
  <2>2. QED
    BY <2>1 DEF Shape, Waiting
<1>4. /\ DOMAIN Waiting = 1 .. n /\ DOMAIN Waiting' = 1 .. n + 1 /\ m <= n
      /\ \A i \in 1 .. m : Waiting'[i] = Waiting[i]
      /\ Waiting'[m + 1] = r
      /\ \A i \in m + 1 .. n : Waiting'[i + 1] = Waiting[i]
  BY <1>1, <1>2, <1>3
<1>5. PICK f : f = [i \in 1 .. n |-> IF i <= m THEN i ELSE i + 1]
  OBVIOUS
<1>6. \A i \in 1 .. n : f[i] \in DOMAIN Waiting' /\ Waiting'[f[i]] = Waiting[i]
  BY <1>4, <1>5
<1>7. \A i, j \in 1 .. n : j >= i + 1 => f[j] >= f[i] + 1
  BY <1>5
<1>8. ASSUME NEW k \in DOMAIN Waiting', IsPush(Waiting'[k]) PROVE \E i \in 1 .. n : f[i] = k
  <2>1. k \in 1 .. n + 1 /\ k # m + 1
    BY <1>4, <1>8
  <2>2. CASE k <= m
    <3>1. k \in 1 .. n /\ f[k] = k
      BY <1>4, <1>5, <2>1, <2>2
    <3>2. QED
      BY <3>1
  <2>3. CASE ~ (k <= m)
    <3>1. k - 1 \in 1 .. n /\ f[k - 1] = k
      BY <1>4, <1>5, <2>1, <2>3
    <3>2. QED
      BY <3>1
  <2>4. QED
    BY <2>2, <2>3
<1>9. DOMAIN Waiting = 1 .. n /\ DOMAIN Waiting' \subseteq Nat \ {0}
  BY <1>4
<1>10. QED
  BY <1>6, <1>7, <1>8, <1>9, ChainShift

LEMMA ChainSame ==
  ASSUME head' = head, NEW n \in Nat, DOMAIN Waiting = 1 .. n, DOMAIN Waiting' = 1 .. n,
         \A i \in 1 .. n : Waiting'[i] = Waiting[i]
  PROVE  /\ PushesWait' <=> PushesWait
         /\ \A p \in Paths : Waits(p)' <=> Waits(p)
         /\ Chain => Chain'
         /\ \A d : Leads(d, 1) => Leads(d, 1)'
<1>1. PushesWait' <=> PushesWait
  BY DEF PushesWait
<1>2. \A p \in Paths : Waits(p)' <=> Waits(p)
  BY DEF Waits, Touches, IsPush
<1>3. \A d, i : Leads(d, i) => Leads(d, i)'
  BY DEF Leads, Touches, IsPush
<1>4. Chain => Chain'
  <2>1. ASSUME Chain, NEW i \in DOMAIN Waiting', IsPush(Waiting'[i])
        PROVE  Leads(Waiting[i].after, i + 1)'
    <3>1. PICK d : d = Waiting[i].after
      OBVIOUS
    <3>2. Leads(d, i + 1)
      BY <2>1, <3>1 DEF Chain
    <3>3. QED
      BY <1>3, <2>1, <3>1, <3>2
  <2>2. QED
    BY <2>1 DEF Chain, IsPush
<1>5. QED
  BY <1>1, <1>2, <1>3, <1>4

LEMMA ChainDeliver ==
  ASSUME Shape, head' = head, 1 \in DOMAIN inbox, inbox' = RemoveAt(inbox, 1),
         queue' = Append(queue, inbox[1])
  PROVE  /\ PushesWait' <=> PushesWait
         /\ \A p \in Paths : Waits(p)' <=> Waits(p)
         /\ Chain => Chain'
         /\ \A d : Leads(d, 1) => Leads(d, 1)'
<1>1. PICK m \in Nat : m = Len(queue)
  BY WaitingIs
<1>2. PICK l \in Nat : l = Len(inbox)
  BY WaitingIs
<1>3. PICK r \in Asked : r = inbox[1]
  <2>1. inbox[1] \in Pushed
    BY DEF Shape
  <2>2. QED
    BY <2>1 DEF Asked
<1>4. queue \in Seq(Asked) /\ inbox \in Seq(Asked) /\ Waiting = queue \o inbox
      /\ inbox' \in Seq(Asked) /\ Waiting' = Append(queue, r) \o inbox' /\ Len(inbox') = l - 1
      /\ l >= 1 /\ \A j \in 1 .. l - 1 : inbox'[j] = inbox[j + 1]
  <2>1. Pushed \subseteq Asked
    BY DEF Asked
  <2>2. queue \in Seq(Asked) /\ inbox \in Seq(Asked)
    BY <2>1 DEF Shape
  <2>3. inbox' \in Seq(Asked) /\ Len(inbox') = l - 1
        /\ \A j \in 1 .. l - 1 : inbox'[j] = IF j < 1 THEN inbox[j] ELSE inbox[j + 1]
    BY <1>2, <2>2, RemoveAtIs
  <2>4. QED
    BY <1>2, <1>3, <2>2, <2>3 DEF Waiting
<1>5. /\ DOMAIN Waiting = 1 .. m + l /\ DOMAIN Waiting' = 1 .. m + l
      /\ \A i \in 1 .. m : Waiting[i] = queue[i] /\ Waiting'[i] = queue[i]
      /\ Waiting'[m + 1] = r /\ Waiting[m + 1] = inbox[1]
      /\ \A i \in 1 .. l - 1 : /\ Waiting'[m + 1 + i] = inbox'[i]
                               /\ Waiting[m + 1 + i] = inbox[i + 1]
  <2>1. Append(queue, r) \in Seq(Asked) /\ Len(Append(queue, r)) = m + 1
        /\ (\A i \in 1 .. m : Append(queue, r)[i] = queue[i]) /\ Append(queue, r)[m + 1] = r
    BY <1>1, <1>4
  <2>2. /\ DOMAIN Waiting = 1 .. m + l
        /\ \A i \in 1 .. m : Waiting[i] = queue[i]
        /\ \A i \in 1 .. l : Waiting[m + i] = inbox[i]
    BY <1>1, <1>2, <1>4, ConcatIs
  <2>3. /\ DOMAIN Waiting' = 1 .. m + 1 + (l - 1)
        /\ \A i \in 1 .. m + 1 : Waiting'[i] = Append(queue, r)[i]
        /\ \A i \in 1 .. l - 1 : Waiting'[m + 1 + i] = inbox'[i]
    <3>1. PICK s \in Seq(Asked) : s = Append(queue, r)
      BY <2>1
    <3>2. PICK t \in Seq(Asked) : t = inbox'
      BY <1>4
    <3>3. Waiting' = s \o t /\ Len(s) = m + 1 /\ Len(t) = l - 1
      BY <1>4, <2>1, <3>1, <3>2
    <3>4. /\ DOMAIN (s \o t) = 1 .. Len(s) + Len(t)
          /\ \A i \in 1 .. Len(s) : (s \o t)[i] = s[i]
          /\ \A i \in 1 .. Len(t) : (s \o t)[Len(s) + i] = t[i]
      BY ConcatIs
    <3>5. QED
      BY <3>1, <3>2, <3>3, <3>4
  <2>4. m + 1 + (l - 1) = m + l /\ m + 1 \in 1 .. m + 1 /\ 1 \in 1 .. l
        /\ \A i \in 1 .. m : i \in 1 .. m + 1
    BY <1>4
  <2>5. \A i \in 1 .. l - 1 : i + 1 \in 1 .. l /\ m + (i + 1) = m + 1 + i
    OBVIOUS
  <2>6. \A i \in 1 .. l - 1 : Waiting[m + 1 + i] = inbox[i + 1]
    BY <2>2, <2>5
  <2>7. QED
    BY <2>1, <2>2, <2>3, <2>4, <2>6
<1>6. \A i \in 1 .. m + l : Waiting'[i] = Waiting[i]
  <2>1. TAKE i \in 1 .. m + l
  <2>2. CASE i <= m
    BY <1>5, <2>2
  <2>3. CASE i = m + 1
    BY <1>3, <1>5, <2>3
  <2>4. CASE i > m + 1
    <3>1. PICK j \in 1 .. l - 1 : j = i - m - 1
      BY <1>4, <2>4
    <3>2. i = m + 1 + j
      BY <3>1
    <3>3. Waiting'[m + 1 + j] = inbox'[j] /\ Waiting[m + 1 + j] = inbox[j + 1]
          /\ inbox'[j] = inbox[j + 1]
      BY <1>4, <1>5
    <3>4. QED
      BY <3>2, <3>3
  <2>5. QED
    BY <2>2, <2>3, <2>4
<1>7. PICK n \in Nat : n = m + l
  OBVIOUS
<1>8. DOMAIN Waiting = 1 .. n /\ DOMAIN Waiting' = 1 .. n
  BY <1>5, <1>7
<1>9. \A i \in 1 .. n : Waiting'[i] = Waiting[i]
  BY <1>6, <1>7
<1>10. QED
  BY <1>8, <1>9, ChainSame

\* Claiming a job takes it from the pushes that wait.
LEMMA ChainClaim ==
  ASSUME Shape, Claim
  PROVE  /\ PushesWait <=> IsPush(job'.req) \/ PushesWait'
         /\ \A p \in Paths : Waits(p) <=> Touches(job'.req, p) \/ Waits(p)'
         /\ Chain => Chain'
         /\ Chain /\ IsPush(job'.req) => Leads(job.req.after, 1)'
<1>1. PICK r \in Asked : r = Head(queue)
  BY ClaimIs
<1>2. PICK n \in Nat \ {0} : n = Len(Waiting)
  <2>1. Len(queue) # 0 /\ Len(queue) \in Nat
    BY ClaimIs DEF Shape
  <2>2. Len(queue) + Len(inbox) \in Nat \ {0}
    BY <2>1, WaitingIs
  <2>3. QED
    BY <2>2, WaitingIs
<1>3. queue \in Seq(Asked) /\ inbox \in Seq(Asked) /\ Waiting = queue \o inbox
      /\ queue # <<>> /\ Waiting' = Tail(queue) \o inbox /\ UNCHANGED <<inbox, head>>
      /\ job'.req = r
  <2>1. Pushed \subseteq Asked
    BY DEF Asked
  <2>2. queue' = Tail(queue) /\ queue # <<>> /\ UNCHANGED <<inbox, head>> /\ job'.req = r
    BY <1>1, ClaimIs DEF github
  <2>3. QED
    BY <2>1, <2>2 DEF Shape, Waiting
<1>4. DOMAIN Waiting = 1 .. n /\ DOMAIN Waiting' = 1 .. n - 1 /\ Waiting[1] = r
      /\ \A i \in 1 .. n - 1 : Waiting'[i] = Waiting[i + 1]
  BY <1>1, <1>2, <1>3
<1>5. \A i \in 1 .. n : i = 1 \/ (i - 1 \in 1 .. n - 1 /\ Waiting'[i - 1] = Waiting[i])
  BY <1>4
<1>6. \A i \in 1 .. n - 1 : i + 1 \in 1 .. n
  OBVIOUS
<1>7. PushesWait <=> IsPush(r) \/ PushesWait'
  <2>1. PushesWait => IsPush(r) \/ PushesWait'
    BY <1>4, <1>5 DEF PushesWait, IsPush
  <2>2. IsPush(r) => PushesWait
    BY <1>4 DEF PushesWait, IsPush
  <2>3. PushesWait' => PushesWait
    BY <1>4, <1>6 DEF PushesWait, IsPush
  <2>4. QED
    BY <2>1, <2>2, <2>3
<1>8. ASSUME NEW p \in Paths PROVE Waits(p) <=> Touches(r, p) \/ Waits(p)'
  <2>1. Waits(p) => Touches(r, p) \/ Waits(p)'
    BY <1>4, <1>5 DEF Waits, Touches, IsPush
  <2>2. Touches(r, p) => Waits(p)
    BY <1>4 DEF Waits, Touches, IsPush
  <2>3. Waits(p)' => Waits(p)
    BY <1>4, <1>6 DEF Waits, Touches, IsPush
  <2>4. QED
    BY <2>1, <2>2, <2>3
<1>9. ASSUME NEW d, NEW i \in 1 .. n, Leads(d, i + 1) PROVE Leads(d, i)'
  <2>1. \A j \in 1 .. n : j >= i + 1 =>
           j - 1 \in DOMAIN Waiting' /\ j - 1 >= i /\ Waiting'[j - 1] = Waiting[j]
    BY <1>4
  <2>2. \A p \in Paths : \/ Tree[d][p] = Tree[head'][p]
                         \/ \E j \in DOMAIN Waiting' : j >= i /\ Touches(Waiting'[j], p)
    BY <1>3, <1>4, <1>9, <2>1 DEF Leads
  <2>3. d = head' \/ \E j \in DOMAIN Waiting' : j >= i /\ IsPush(Waiting'[j])
    BY <1>3, <1>4, <1>9, <2>1 DEF Leads
  <2>4. QED
    BY <2>2, <2>3 DEF Leads, Touches, IsPush
<1>10. ASSUME Chain PROVE Chain'
  <2>1. ASSUME NEW i \in DOMAIN Waiting', IsPush(Waiting'[i])
        PROVE  Leads(Waiting[i].after, i + 1)'
    <3>1. PICK d : d = Waiting'[i].after
      OBVIOUS
    <3>2. i \in 1 .. n - 1 /\ i + 1 \in 1 .. n /\ Waiting[i + 1] = Waiting'[i]
      BY <1>4, <1>6
    <3>3. Leads(d, (i + 1) + 1)
      BY <1>4, <1>10, <2>1, <3>1, <3>2 DEF Chain
    <3>4. Leads(d, i + 1)'
      BY <1>9, <3>2, <3>3
    <3>5. QED
      BY <3>1, <3>4
  <2>2. QED
    BY <2>1 DEF Chain, IsPush
<1>11. ASSUME Chain, IsPush(r) PROVE Leads(r.after, 1)'
  <2>1. 1 \in 1 .. n
    OBVIOUS
  <2>2. Leads(r.after, 1 + 1)
    BY <1>4, <1>11, <2>1 DEF Chain
  <2>3. PICK d : d = r.after
    OBVIOUS
  <2>4. QED
    BY <1>9, <2>1, <2>2, <2>3
<1>12. PICK d : d = r.after
  OBVIOUS
<1>13. IsPush(r) /\ Chain => Leads(job.req.after, 1)'
  BY <1>3, <1>11
<1>14. QED
  BY <1>3, <1>7, <1>8, <1>10, <1>13

\* What the rest of the world does to the pushes that wait, but for a delivery that is
\* lost or out of order.
LEMMA ChainWorld ==
  ASSUME Shape, World, ~ mishap'["default"]
  PROVE  /\ \/ \E c \in Commits, forced \in BOOLEAN : Push(c, forced)
            \/ /\ head' = head /\ (PushesWait' <=> PushesWait)
               /\ \A p \in Paths : Waits(p)' <=> Waits(p)
         /\ Chain => Chain'
         /\ \A d : Leads(d, 1) => Leads(d, 1)'
<1>1. ASSUME NEW c \in Commits, NEW forced \in BOOLEAN, Push(c, forced)
      PROVE  (Chain => Chain') /\ \A d : Leads(d, 1) => Leads(d, 1)'
  BY <1>1, ChainPush
<1> DEFINE Kept == /\ head' = head /\ (PushesWait' <=> PushesWait)
                   /\ \A p \in Paths : Waits(p)' <=> Waits(p)
                   /\ Chain => Chain'
                   /\ \A d : Leads(d, 1) => Leads(d, 1)'
<1>2. ASSUME UNCHANGED <<head, queue, inbox>> PROVE Kept
  <2>1. Waiting' = Waiting
    BY <1>2 DEF Waiting
  <2>2. QED
    BY <1>2, <2>1 DEF PushesWait, Waits, Chain, Leads, Touches, IsPush
<1>3. ASSUME NEW r \in Asked, ~ IsPush(r), queue' = Append(queue, r), UNCHANGED <<head, inbox>>
      PROVE  Kept
  BY <1>3, ChainInsert
<1>4. ASSUME NEW c \in Commits, PullRequestPush(c) PROVE Kept
  <2> DEFINE r == [kind |-> "pr", before |-> None, after |-> c, forced |-> FALSE]
  <2>1. queue' = Append(queue, r) /\ UNCHANGED <<head, inbox>>
    BY <1>4, Typed DEF PullRequestPush
  <2>2. r \in Asked /\ ~ IsPush(r)
    BY TypedAsked DEF IsPush
  <2> HIDE DEF r
  <2>3. QED
    BY <1>3, <2>1, <2>2
<1>5. ASSUME NEW i \in DOMAIN inbox, Deliver(i) PROVE Kept
  <2>1. i = 1
    <3>1. i # 1 => mishap' = Spoilt({"default"})
      BY <1>5 DEF Deliver
    <3>2. Spoilt({"default"})["default"]
      BY CollIs DEF Spoilt
    <3>3. QED
      BY <3>1, <3>2
  <2>2. queue' = Append(queue, inbox[1]) /\ inbox' = RemoveAt(inbox, 1) /\ head' = head
    BY <1>5, <2>1 DEF Deliver
  <2>3. QED
    BY <2>1, <2>2, ChainDeliver
<1>6. ASSUME NEW i \in DOMAIN inbox, Lose(i) PROVE FALSE
  <2>1. mishap' = Spoilt({"default"})
    BY <1>6 DEF Lose
  <2>2. Spoilt({"default"})["default"]
    BY CollIs DEF Spoilt
  <2>3. QED
    BY <2>1, <2>2
<1>7. ASSUME NEW kind \in Requests, NEW c \in Commits, Request(kind, c) PROVE Kept
  <2> DEFINE k == IF kind = "rerun" THEN "full" ELSE kind
             a == IF kind = "rerun" THEN c ELSE Branch
             r == [kind |-> k, before |-> None, after |-> a, forced |-> FALSE]
  <2>1. UNCHANGED <<head, inbox>>
        /\ queue' = Append(queue, [NoRequest EXCEPT !.kind = k, !.after = a])
    BY <1>7 DEF Request, github
  <2>2. kind \in {"full", "rerun", "closePr", "delete"}
    BY <1>7, RepoIndexAssumption DEF Request
  <2>3. r \in Asked /\ ~ IsPush(r)
    BY <2>2, TypedAsked DEF IsPush
  <2>4. queue' = Append(queue, r)
    BY <2>1, Typed
  <2> HIDE DEF r
  <2>5. QED
    BY <1>3, <2>1, <2>3, <2>4
<1>8. Deploy => UNCHANGED <<head, queue, inbox>>
  BY DEF Deploy, github
<1>9. QED
  BY <1>1, <1>2, <1>4, <1>5, <1>6, <1>7, <1>8 DEF World

-----------------------------------------------------------------------------
(* PathInv and OrderInv.                                                   *)

LEMMA RebuildsSame ==
  ASSUME UNCHANGED <<build, manifest>>
  PROVE  \A r : Rebuilds(r)' <=> Rebuilds(r)
  BY DEF Rebuilds, SameFingerprint, Fingerprint

LEMMA PathInit == Init => PathInv /\ OrderInv
  BY IdleIs DEF Init, PathInv, OrderInv

LEMMA PathNext == Shape /\ PathInv /\ [Next]_vars => PathInv'
<1> SUFFICES ASSUME Shape, PathInv, [Next]_vars PROVE PathInv'
  OBVIOUS
<1> USE DEF IsPush
<1>1. CASE UNCHANGED vars \/ World
  <2>1. UNCHANGED <<job, manifest>> /\ (job.pc # "begin" => UNCHANGED build)
    BY <1>1, WorldIs DEF vars
  <2>2. PICK r : r = job.req
    OBVIOUS
  <2>3. job.pc # "begin" =>
          /\ Rebuilds(r)' <=> Rebuilds(r)
          /\ \A f : SameFingerprint(f)' <=> SameFingerprint(f)
          /\ \A c : Fingerprint(c)' = Fingerprint(c)
    BY <2>1, RebuildsSame DEF SameFingerprint, Fingerprint
  <2>4. PathInv' <=> PathInv
    <3>1. CASE job.pc = "begin"
      BY <2>1, <3>1 DEF PathInv
    <3>2. CASE job.pc # "begin"
      BY <2>1, <2>2, <2>3, <3>2 DEF PathInv
    <3>3. QED
      BY <3>1, <3>2
  <2>5. QED
    BY <2>4
\* Steps to a place where nothing is known.
<1>2. ASSUME job'.pc \in {"begin", "idle", "manifest", "finish", "list", "drop", "unlist", "gone"}
      PROVE  PathInv'
  BY <1>2 DEF PathInv
\* Steps of a full index.
<1>3. ASSUME NEW r, r = job.req, job'.req = r, UNCHANGED <<build, manifest>>,
             job'.pc \in {"config", "tree", "reset", "files"},
             IsPush(r) => Rebuilds(r),
             r.kind # "pr" /\ r.after # Branch =>
               /\ job'.pc \in {"tree", "reset", "files"} => job'.cfg = ConfigOf(r.after)
               /\ job'.pc \in {"reset", "files"} => job'.at = r.after
      PROVE  PathInv'
  <2>1. Rebuilds(r)' <=> Rebuilds(r)
    BY <1>3, RebuildsSame
  <2>2. QED
    BY <1>3, <2>1 DEF PathInv
\* Steps of a push.
<1>4. ASSUME NEW r, r = job.req, job'.req = r, UNCHANGED <<build, manifest>>,
             job'.pc \in {"settings", "compare", "apply"}, manifest["default"] # None,
             job'.pc \in {"settings", "compare"} => job'.listed = manifest["default"].files,
             job'.pc = "compare" => SameFingerprint(Fingerprint(ConfigOf(r.after))),
             job'.pc = "apply" => ~ Rebuilds(r),
             job'.pc \in {"compare", "apply"} => job'.cfg = ConfigOf(r.after)
      PROVE  PathInv'
  <2>1. Rebuilds(r)' <=> Rebuilds(r)
    BY <1>4, RebuildsSame
  <2>2. SameFingerprint(Fingerprint(ConfigOf(r.after)))' <=>
          SameFingerprint(Fingerprint(ConfigOf(r.after)))
    BY <1>4 DEF SameFingerprint, Fingerprint
  <2>3. QED
    BY <1>4, <2>1, <2>2 DEF PathInv
<1>5. PICK r : r = job.req
  OBVIOUS
<1>6. CASE Claim \/ Fails \/ Finish \/ MarkDeleted
  BY <1>2, <1>6, ClaimIs, FailsIs, EndsIs, IdleIs
<1>7. CASE Start
  <2>1. /\ job.req \in Asked /\ job'.req = job.req /\ UNCHANGED <<build, manifest>>
        /\ job.req.kind \in {"full", "pr"} => job'.pc = "config"
        /\ job.req.kind = "push" => job'.pc = IF job.req.forced THEN "config" ELSE "manifest"
        /\ job'.pc \in {"config", "manifest", "drop", "list"}
    BY <1>7, StartIs
  <2>2. CASE job'.pc = "config"
    <3>1. IsPush(r) => Rebuilds(r)
      BY <1>5, <1>7, <2>2, StartIs DEF Rebuilds
    <3>2. QED
      BY <1>3, <1>5, <1>7, <2>2, <3>1, StartIs
  <2>3. CASE job'.pc # "config"
    BY <1>2, <1>7, <2>3, StartIs
  <2>4. QED
    BY <2>2, <2>3
<1>8. CASE Configured
  <2>1. /\ job.pc = "config" /\ job'.pc = "tree" /\ job'.req = job.req
        /\ job'.cfg = ConfigOf(IF job.req.kind = "pr" THEN head ELSE RefOf(job.req))
        /\ UNCHANGED <<build, manifest>>
    BY <1>8, ConfiguredIs
  <2>2. r.kind # "pr" /\ r.after # Branch => job'.cfg = ConfigOf(r.after)
    BY <1>5, <2>1 DEF RefOf
  <2>3. IsPush(r) => Rebuilds(r)
    BY <1>5, <2>1 DEF PathInv
  <2>4. QED
    BY <1>3, <1>5, <2>1, <2>2, <2>3
<1>9. CASE TreeRead
  <2>1. /\ job.pc = "tree" /\ job'.pc = "reset" /\ job'.req = job.req /\ job'.cfg = job.cfg
        /\ job'.at = RefOf(job.req) /\ UNCHANGED <<build, manifest>>
    BY <1>9, TreeReadIs
  <2>2. r.kind # "pr" /\ r.after # Branch => job'.at = r.after /\ job'.cfg = ConfigOf(r.after)
    BY <1>5, <2>1 DEF RefOf, PathInv
  <2>3. IsPush(r) => Rebuilds(r)
    BY <1>5, <2>1 DEF PathInv
  <2>4. QED
    BY <1>3, <1>5, <2>1, <2>2, <2>3
<1>10. ASSUME job.pc \in {"reset", "files"}, job'.pc = "files", job'.req = job.req,
              job'.cfg = job.cfg, job'.at = job.at, UNCHANGED <<build, manifest>>
       PROVE  PathInv'
  <2>1. r.kind # "pr" /\ r.after # Branch => job'.at = r.after /\ job'.cfg = ConfigOf(r.after)
    BY <1>5, <1>10 DEF PathInv
  <2>2. IsPush(r) => Rebuilds(r)
    BY <1>5, <1>10 DEF PathInv
  <2>3. QED
    BY <1>3, <1>5, <1>10, <2>1, <2>2
<1>11. CASE Reset
  BY <1>10, <1>11, ResetIs
<1>12. ASSUME NEW p \in Paths, FileIndexed(p) PROVE PathInv'
  BY <1>10, <1>12, FileIndexedIs
<1>13. CASE FallsBack
  <2>1. job'.pc = "config" /\ job'.req = job.req /\ UNCHANGED <<build, manifest>>
    BY <1>13, ReadsIs
  <2>2. Rebuilds(r)
    BY <1>5, <1>13 DEF FallsBack, Rebuilds
  <2>3. QED
    BY <1>3, <1>5, <2>1, <2>2
<1>14. CASE ManifestFound
  <2>1. /\ job'.pc = "settings" /\ job'.req = job.req /\ UNCHANGED <<build, manifest>>
        /\ manifest["default"] # None /\ job'.listed = manifest["default"].files
    BY <1>14, ReadsIs
  <2>2. QED
    BY <1>4, <1>5, <2>1
<1>15. CASE PushConfigured
  <2>1. /\ job.pc = "settings" /\ job'.pc = "compare" /\ job'.req = job.req
        /\ UNCHANGED <<build, manifest>>
        /\ job'.cfg = ConfigOf(job.req.after) /\ job'.listed = job.listed
    BY <1>15, ReadsIs
  <2>2. SameFingerprint(Fingerprint(ConfigOf(r.after)))
    BY <1>5, <1>15 DEF PushConfigured
  <2>3. manifest["default"] # None /\ job'.listed = manifest["default"].files
    BY <2>1 DEF PathInv
  <2>4. QED
    BY <1>4, <1>5, <2>1, <2>2, <2>3
<1>16. CASE Compared
  <2>1. /\ job.pc = "compare" /\ job'.pc = "apply" /\ job'.req = job.req /\ ~ job.req.forced
        /\ UNCHANGED <<build, manifest>> /\ job'.cfg = job.cfg
        /\ ~ TooMuchChanged(Changes(job.req.before, job.req.after))
    BY <1>16, ComparedIs
  <2>2. ~ Rebuilds(r) /\ manifest["default"] # None /\ job'.cfg = ConfigOf(r.after)
    BY <1>5, <2>1 DEF PathInv, Rebuilds
  <2>3. QED
    BY <1>4, <1>5, <2>1, <2>2
<1>17. CASE ChangeApplied
  <2>1. /\ job.pc = "apply" /\ job'.pc = "apply" /\ job'.req = job.req
        /\ UNCHANGED <<build, manifest>> /\ job'.cfg = job.cfg
    BY <1>17, ChangeAppliedIs
  <2>2. ~ Rebuilds(r) /\ manifest["default"] # None /\ job'.cfg = ConfigOf(r.after)
    BY <1>5, <2>1 DEF PathInv
  <2>3. QED
    BY <1>4, <1>5, <2>1, <2>2
<1>18. CASE SaveManifest \/ ListCollections \/ DropCollection \/ Unlisting
  BY <1>2, <1>18, SavedIs, ListIs, DropIs, UnlistingIs, IdleIs
<1>19. QED
  BY <1>1, <1>6, <1>7, <1>8, <1>9, <1>11, <1>12, <1>13, <1>14, <1>15, <1>16, <1>17, <1>18,
     JobSteps DEF Next, JobStep

\* Only a comparison starts the application of a push.
LEMMA ApplyNext ==
  ASSUME Shape, JobStep, job'.pc = "apply"
  PROVE  Compared \/ ChangeApplied
<1>1. ~ Claim /\ ~ Fails /\ ~ Finish /\ ~ MarkDeleted /\ ~ Start /\ ~ Configured /\ ~ TreeRead
  BY ClaimIs, FailsIs, EndsIs, IdleIs, StartIs, ConfiguredIs, TreeReadIs
<1>2. ~ Reset /\ ~ SaveManifest /\ ~ ListCollections /\ ~ DropCollection /\ ~ Unlisting
  BY ResetIs, SavedIs, ListIs, DropIs, UnlistingIs, IdleIs
<1>3. ~ FallsBack /\ ~ ManifestFound /\ ~ PushConfigured
  BY ReadsIs
<1>4. ASSUME NEW p \in Paths, FileIndexed(p) PROVE FALSE
  BY <1>4, FileIndexedIs
<1>5. QED
  BY <1>1, <1>2, <1>3, <1>4 DEF JobStep

LEMMA OrderNext == Shape /\ OrderInv /\ [Next]_vars => OrderInv'
<1> SUFFICES ASSUME Shape, OrderInv, [Next]_vars, job'.pc = "apply" PROVE OrderInv'
  BY DEF OrderInv
<1>1. CASE UNCHANGED vars \/ World
  <2>1. UNCHANGED job
    BY <1>1, WorldIs DEF vars
  <2>2. QED
    BY <2>1 DEF OrderInv
<1>2. CASE Compared
  BY <1>2, ComparedIs DEF OrderInv
<1>3. CASE ChangeApplied
  <2> DEFINE es == Changes(job.req.before, job.req.after)
             e == NextChange
  <2>1. job.pc = "apply" /\ job.todo # {} /\ job'.req = job.req /\ job'.todo = job.todo \ {e}
    BY <1>3, ChangeAppliedIs
  <2>2. /\ e \in job.todo /\ e \in es /\ \A x \in job.todo : Rank[e.path] <= Rank[x.path]
        /\ job.req.before \in Commits /\ job.req.after \in Commits /\ job.todo \subseteq es
    BY <2>1, NextChangeIs DEF Shape, Good, Staged, Pushed
  <2>3. ASSUME NEW x \in job.todo, x # e PROVE Rank[e.path] < Rank[x.path]
    <3>1. x \in es /\ x.path # e.path
      BY <2>2, <2>3, ChangesApart
    <3>2. x.path \in Paths /\ e.path \in Paths
      BY <2>2, <3>1, ChangeIs
    <3>3. Rank[x.path] \in Nat /\ Rank[e.path] \in Nat /\ Rank[x.path] # Rank[e.path]
      BY <3>1, <3>2, RepoIndexAssumption
    <3>4. QED
      BY <2>2, <2>3, <3>3
  <2>4. \A d \in es \ job.todo : \A x \in job.todo : Rank[d.path] < Rank[x.path]
    BY <2>1 DEF OrderInv
  <2> HIDE DEF es, e
  <2>5. \A d \in es \ job'.todo : \A x \in job'.todo : Rank[d.path] < Rank[x.path]
    BY <2>1, <2>3, <2>4
  <2>6. QED
    BY <2>1, <2>5 DEF OrderInv, es
<1>4. QED
  BY <1>1, <1>2, <1>3, ApplyNext, JobSteps DEF Next

-----------------------------------------------------------------------------
(* The default branch.                                                     *)

\* A step that leaves the branch and the jobs that wait.
LEMMA Quiet ==
  ASSUME UNCHANGED <<head, queue, inbox>>
  PROVE  /\ PushesWait' <=> PushesWait
         /\ \A p : Waits(p)' <=> Waits(p)
         /\ Chain' <=> Chain
         /\ \A d : Leads(d, 1)' <=> Leads(d, 1)
<1>1. Waiting' = Waiting
  BY DEF Waiting
<1>2. QED
  BY <1>1 DEF PushesWait, Waits, Chain, Leads, Touches, IsPush

\* What does not touch the collection or its manifest.
LEMMA PointsKept ==
  ASSUME points'["default"] = points["default"], manifest'["default"] = manifest["default"],
         NEW p \in Paths, Tree[head'][p] = Tree[head][p], ConfigOf(head') = ConfigOf(head)
  PROVE  PointsAt(p)' = PointsAt(p) /\ Expect(p)' = Expect(p)
  BY DEF PointsAt, Expect, FilePoints, Indexed, Present, Chunks

LEMMA HeadKept ==
  ASSUME HeadInv,
         points'["default"] = points["default"], manifest'["default"] = manifest["default"],
         ~ Broken' => ~ Broken,
         \A p \in Paths : ~ Pends(p)' => ~ Pends(p) /\ Tree[head'][p] = Tree[head][p],
         ~ PushRuns' /\ ~ PushesWait' => ~ PushRuns /\ ~ PushesWait /\ head' = head
  PROVE  HeadInv'
<1> SUFFICES ASSUME ~ Broken', manifest'["default"] # None, ~ Pends(Config)'
             PROVE  /\ \A p \in Paths : ~ Pends(p)' =>
                         PointsAt(p)' = Expect(p)'
                         /\ manifest'["default"].files[p] = Cardinality(Expect(p)')
                    /\ ~ PushRuns' /\ ~ PushesWait' =>
                         /\ manifest'["default"].at = head'
                         /\ manifest'["default"].cfg = ConfigOf(head')
  BY DEF HeadInv, ConfigOf
<1>1. ~ Broken /\ manifest["default"] # None /\ ~ Pends(Config) /\ ConfigOf(head') = ConfigOf(head)
  BY RepoIndexAssumption DEF ConfigOf
<1>2. ASSUME NEW p \in Paths, ~ Pends(p)'
      PROVE  PointsAt(p)' = Expect(p)' /\ manifest'["default"].files[p] = Cardinality(Expect(p)')
  <2>1. ~ Pends(p) /\ PointsAt(p)' = PointsAt(p) /\ Expect(p)' = Expect(p)
    BY <1>1, <1>2, PointsKept
  <2>2. PointsAt(p) = Expect(p) /\ manifest["default"].files[p] = Cardinality(Expect(p))
    BY <1>1, <2>1 DEF HeadInv
  <2>3. QED
    BY <2>1, <2>2
<1>3. ~ PushRuns' /\ ~ PushesWait' =>
        manifest'["default"].at = head' /\ manifest'["default"].cfg = ConfigOf(head')
  BY <1>1 DEF HeadInv
<1>4. QED
  BY <1>2, <1>3

LEMMA MainInit == Init => Main
<1> SUFFICES ASSUME Init PROVE ChainInv /\ CfgInv /\ HeadInv /\ ApplyInv
  BY DEF Main
<1>1. manifest["default"] = None /\ job.pc = "idle" /\ job.req.kind = "none"
  BY IdleIs, CollIs DEF Init
<1>2. DOMAIN Waiting = {1} /\ Waiting[1].kind = "full"
  <2> DEFINE r == [kind |-> "full", before |-> None, after |-> Branch, forced |-> FALSE]
  <2>1. queue = <<r>> /\ inbox = <<>>
    BY Typed DEF Init
  <2> HIDE DEF r
  <2>2. Waiting = <<r>>
    BY <2>1 DEF Waiting
  <2>3. QED
    BY <2>2 DEF r
<1>3. ChainInv
  BY <1>1, <1>2 DEF ChainInv, Chain, IsPush
<1>4. QED
  BY <1>1, <1>3 DEF CfgInv, HeadInv, ApplyInv

\* A deployment keeps the trace of a collection that may be half built.
LEMMA BrokenWorld ==
  ASSUME Shape, World, ~ mishap'["default"], ~ Broken'
  PROVE  ~ Broken
<1>1. UNCHANGED <<job, manifest>> /\ (build' # build => job.pc = "begin")
  BY WorldIs
<1>2. CASE build' = build
  <2>1. PICK r : r = job.req
    OBVIOUS
  <2>2. Rebuilds(r)' <=> Rebuilds(r)
    BY <1>1, <1>2, RebuildsSame
  <2>3. QED
    BY <1>1, <2>1, <2>2 DEF Broken, PushRuns, IsPush
<1>3. CASE build' # build
  <2>1. Deploy
    BY <1>3 DEF World, Push, PullRequestPush, Deliver, Lose, Request
  <2>2. ~ RolledBack /\ build' = 1 - build /\ build \in {0, 1}
    <3>1. mishap' = IF RolledBack THEN Spoilt({"default"}) ELSE mishap
      BY <2>1 DEF Deploy
    <3>2. Spoilt({"default"})["default"]
      BY CollIs DEF Spoilt
    <3>3. QED
      BY <2>1, <3>1, <3>2 DEF Deploy, Shape
  <2>3. SUFFICES ASSUME Broken PROVE FALSE
    OBVIOUS
  <2>4. IsPush(job.req) /\ job.tries > 0
    BY <1>1, <1>3, <2>3 DEF Broken, PushRuns
  <2>5. PICK r : r = job.req
    OBVIOUS
  <2>6. ~ Rebuilds(r)'
    BY <1>1, <1>3, <2>4, <2>5 DEF Broken, PushRuns, IsPush
  <2>7. manifest["default"] # None /\ manifest["default"].fp = <<build', Limits(ConfigOf(r.after))>>
    BY <1>1, <2>6 DEF Rebuilds, SameFingerprint, Fingerprint
  <2>8. manifest["default"].fp[1] = 1 - build
    BY <2>2, <2>7
  <2>9. QED
    BY <2>2, <2>4, <2>7, <2>8 DEF RolledBack, IsPush
<1>4. QED
  BY <1>2, <1>3

LEMMA MainWorld ==
  ASSUME Shape, Main, World, ~ mishap'["default"]
  PROVE  ChainInv' /\ CfgInv' /\ HeadInv' /\ ApplyInv'
<1>1. /\ UNCHANGED <<job, points, manifest>> /\ (build' # build => job.pc = "begin")
      /\ ~ mishap["default"]
  BY WorldIs, CollIs
<1>2. ChainInv /\ CfgInv /\ HeadInv /\ ApplyInv
  BY <1>1 DEF Main
<1>3. /\ \A p \in Paths : ~ Waits(p)' => ~ Waits(p) /\ Tree[head'][p] = Tree[head][p]
      /\ ~ PushesWait' => ~ PushesWait /\ head' = head
      /\ Chain => Chain'
      /\ \A d : Leads(d, 1) => Leads(d, 1)'
  BY ChainWorld, ChainPush
<1>4. PICK r : r = job.req
  OBVIOUS
<1>5. ChainInv'
  <2>1. PICK d : d = job.req.after
    OBVIOUS
  <2>2. IsPush(r) => Leads(d, 1)'
    BY <1>2, <1>3, <1>4, <2>1 DEF ChainInv
  <2>3. QED
    BY <1>1, <1>2, <1>3, <1>4, <2>1, <2>2 DEF ChainInv, IsPush
<1>6. CfgInv'
  <2>1. Waits(Config)' \/ (~ Waits(Config) /\ ConfigOf(head') = ConfigOf(head))
    BY <1>3, RepoIndexAssumption DEF ConfigOf
  <2>2. QED
    BY <1>1, <1>2, <2>1 DEF CfgInv, ConfigOf
<1>7. \A p \in Paths : ~ Pends(p)' => ~ Pends(p) /\ Tree[head'][p] = Tree[head][p]
  BY <1>1, <1>3 DEF Pends, PushRuns, IsPush, Touches
<1>8. HeadInv'
  <2>1. ~ Broken' => ~ Broken
    BY BrokenWorld
  <2>2. ~ PushRuns' /\ ~ PushesWait' => ~ PushRuns /\ ~ PushesWait /\ head' = head
    BY <1>1, <1>3 DEF PushRuns, IsPush
  <2>3. QED
    BY <1>1, <1>2, <1>7, <2>1, <2>2, HeadKept
<1>9. ApplyInv'
  <2>1. SUFFICES ASSUME job.pc = "apply", Wiped(Changes(job.req.before, job.req.after)) = {},
                        ~ Waits(Config)', NEW p \in Paths, ~ Waits(p)',
                        Touches(job.req, p) => Applied(p)
                 PROVE  PointsAt(p)' = Expect(p)' /\ job.listed[p] = Cardinality(Expect(p)')
    BY <1>1 DEF ApplyInv, Applied, Touches, IsPush
  <2>2. ~ Waits(Config) /\ ConfigOf(head') = ConfigOf(head) /\ ~ Waits(p)
        /\ Tree[head'][p] = Tree[head][p]
    BY <1>3, <2>1, RepoIndexAssumption DEF ConfigOf
  <2>3. PointsAt(p)' = PointsAt(p) /\ Expect(p)' = Expect(p)
    BY <1>1, <2>2, PointsKept
  <2>4. QED
    BY <1>2, <2>1, <2>2, <2>3 DEF ApplyInv
<1>10. QED
  BY <1>5, <1>6, <1>8, <1>9

LEMMA MainClaim ==
  ASSUME Shape, Main, Claim, ~ mishap'["default"]
  PROVE  ChainInv' /\ CfgInv' /\ HeadInv' /\ ApplyInv'
<1>1. /\ job.pc = "idle" /\ job.req.kind = "none" /\ job'.pc = "begin" /\ job'.tries = 0
      /\ UNCHANGED <<head, build, points, manifest, mishap>>
  BY ClaimIs DEF github
<1>2. ChainInv /\ HeadInv
  BY <1>1 DEF Main
<1>3. ~ PushRuns /\ ~ Broken /\ ~ Broken'
  BY <1>1 DEF PushRuns, Broken, IsPush
<1>4. PushRuns' <=> IsPush(job'.req)
  BY <1>1 DEF PushRuns, IsPush
<1>5. \A p \in Paths : Pends(p)' <=> Pends(p)
  <2>1. TAKE p \in Paths
  <2>2. Waits(p) <=> Touches(job'.req, p) \/ Waits(p)'
    BY ChainClaim
  <2>3. Pends(p)' <=> (PushRuns' /\ Touches(job'.req, p)) \/ Waits(p)'
    BY DEF Pends, Touches, IsPush
  <2>4. Touches(job'.req, p) => IsPush(job'.req)
    BY DEF Touches
  <2>5. QED
    BY <1>3, <1>4, <2>2, <2>3, <2>4 DEF Pends
<1>6. ~ PushRuns' /\ ~ PushesWait' => ~ PushesWait
  BY <1>4, ChainClaim
<1>7. HeadInv'
  BY <1>1, <1>2, <1>3, <1>5, <1>6, HeadKept
<1>8. ChainInv'
  BY <1>2, ChainClaim DEF ChainInv, IsPush
<1>9. CfgInv' /\ ApplyInv'
  BY <1>1 DEF CfgInv, ApplyInv
<1>10. QED
  BY <1>7, <1>8, <1>9

\* A step that leaves the branch and the request the job serves.
LEMMA ChainKept ==
  ASSUME UNCHANGED <<head, queue, inbox>>, ChainInv, IsPush(job'.req) => job'.req = job.req
  PROVE  ChainInv'
<1>1. PICK d : d = job.req.after
  OBVIOUS
<1>2. (Chain' <=> Chain) /\ (Leads(d, 1)' <=> Leads(d, 1))
  BY Quiet
<1>3. QED
  BY <1>1, <1>2 DEF ChainInv, IsPush

LEMMA HeadKeptByJob ==
  ASSUME UNCHANGED <<head, queue, inbox>>, HeadInv,
         points'["default"] = points["default"], manifest'["default"] = manifest["default"],
         ~ Broken' => ~ Broken,
         (job'.req = job.req /\ job.pc # "finish" /\ job'.pc # "finish")
         \/ (~ PushRuns /\ ~ IsPush(job'.req))
  PROVE  HeadInv'
<1>1. /\ PushesWait' <=> PushesWait
      /\ \A p \in Paths : Waits(p)' <=> Waits(p)
  BY Quiet
<1>2. PushRuns' <=> PushRuns
  BY DEF PushRuns, IsPush
<1>3. \A p \in Paths : Pends(p)' <=> Pends(p)
  BY <1>1, <1>2 DEF Pends, PushRuns, Touches, IsPush
<1>4. QED
  BY <1>1, <1>2, <1>3, HeadKept

\* Steps that do not touch the collection of the default branch.
LEMMA MainQuiet ==
  ASSUME Shape, PathInv, Main, ~ mishap["default"],
         Start \/ Configured \/ TreeRead \/ FallsBack \/ ManifestFound \/ PushConfigured
         \/ ListCollections
  PROVE  ChainInv' /\ CfgInv' /\ HeadInv' /\ ApplyInv'
<1>1. /\ UNCHANGED <<head, prHead, inbox, build, queue, points, manifest>>
      /\ job'.req = job.req /\ job'.tries = job.tries /\ job.pc # "finish"
      /\ job'.pc \notin {"finish", "files", "apply", "unlist", "gone"}
      /\ job'.pc = "drop" => job.req.kind \in {"closePr", "delete"}
  <2>1. CASE Start
    BY <2>1, StartIs, AskedIs DEF github
  <2>2. CASE Configured
    BY <2>2, ConfiguredIs DEF github
  <2>3. CASE TreeRead
    BY <2>3, TreeReadIs DEF github
  <2>4. CASE FallsBack \/ ManifestFound \/ PushConfigured
    <3>1. job'.pc \in {"config", "settings", "compare"}
      BY <2>4, ReadsIs
    <3>2. QED
      BY <2>4, <3>1, ReadsIs DEF github
  <2>5. CASE ListCollections
    BY <2>5, ListIs DEF github
  <2>6. QED
    BY <2>1, <2>2, <2>3, <2>4, <2>5
<1>2. ChainInv /\ CfgInv /\ HeadInv
  BY DEF Main
<1>3. ChainInv'
  BY <1>1, <1>2, ChainKept
<1>4. ~ Broken' => ~ Broken
  <2>1. PICK r : r = job.req
    OBVIOUS
  <2>2. Rebuilds(r)' <=> Rebuilds(r)
    BY <1>1, RebuildsSame
  <2>3. job.pc \notin {"files", "drop", "unlist", "gone"}
    <3>1. Start \/ ListCollections => job.pc \in {"begin", "list"}
      BY StartIs, ListIs
    <3>2. Configured \/ TreeRead => job.pc \in {"config", "tree"}
      BY ConfiguredIs, TreeReadIs
    <3>3. FallsBack \/ ManifestFound \/ PushConfigured =>
            job.pc \in {"manifest", "settings", "compare"}
      BY ReadsIs
    <3>4. QED
      BY <3>1, <3>2, <3>3
  <2>4. QED
    BY <1>1, <2>1, <2>2, <2>3 DEF Broken, PushRuns, IsPush
<1>5. HeadInv'
  BY <1>1, <1>2, <1>4, HeadKeptByJob
<1>6. ApplyInv'
  BY <1>1 DEF ApplyInv
<1>7. CfgInv'
  <2>1. SUFFICES ASSUME job.req.kind = "full", job.req.after = Branch,
                        job'.pc \in {"tree", "reset"}
                 PROVE  job'.cfg = ConfigOf(head) \/ Waits(Config)'
    BY <1>1 DEF CfgInv, ConfigOf
  <2>2. Configured \/ TreeRead
    <3>1. Start => job'.pc \in {"config", "manifest", "drop", "list"}
      BY StartIs
    <3>2. ListCollections => job'.pc = "drop"
      BY ListIs
    <3>3. FallsBack \/ ManifestFound \/ PushConfigured => job.req.kind = "push"
      BY ReadsIs
    <3>4. QED
      BY <2>1, <3>1, <3>2, <3>3
  <2>3. CASE Configured
    BY <2>1, <2>3, ConfiguredIs DEF RefOf
  <2>4. CASE TreeRead
    <3>1. job.pc = "tree" /\ job'.cfg = job.cfg
      BY <2>4, TreeReadIs
    <3>2. job.cfg = ConfigOf(head) \/ Waits(Config)
      BY <1>2, <2>1, <3>1 DEF CfgInv
    <3>3. Waits(Config)' <=> Waits(Config)
      BY <1>1, Quiet
    <3>4. QED
      BY <3>1, <3>2, <3>3
  <2>5. QED
    BY <2>2, <2>3, <2>4
<1>8. QED
  BY <1>3, <1>5, <1>6, <1>7

\* Steps of a full index: the collection is not whole before the manifest is saved.
LEMMA MainFull ==
  ASSUME Shape, PathInv, Main, ~ mishap["default"], Reset \/ \E p \in Paths : FileIndexed(p)
  PROVE  ChainInv' /\ CfgInv' /\ HeadInv' /\ ApplyInv'
<1>1. /\ UNCHANGED <<head, prHead, inbox, build, queue, manifest>>
      /\ job'.req = job.req /\ job'.tries = job.tries /\ job.pc \in {"reset", "files"}
      /\ job'.pc = "files" /\ job'.cfg = job.cfg /\ job.req.kind \in Indexing
      /\ \A k \in Colls \ {Coll} : points'[k] = points[k]
  <2>1. CASE Reset
    BY <2>1, ResetIs DEF github
  <2>2. ASSUME NEW p \in Paths, FileIndexed(p) 
        PROVE  /\ UNCHANGED <<head, prHead, inbox, build, queue, manifest>>
               /\ job'.req = job.req /\ job'.tries = job.tries /\ job.pc \in {"reset", "files"}
               /\ job'.pc = "files" /\ job'.cfg = job.cfg /\ job.req.kind \in Indexing
               /\ \A k \in Colls \ {Coll} : points'[k] = points[k]
    BY <2>2, FileIndexedIs DEF github
  <2>3. QED
    BY <2>1, <2>2
<1>2. ChainInv /\ CfgInv /\ HeadInv
  BY DEF Main
<1>3. ChainInv'
  BY <1>1, <1>2, ChainKept
<1>4. CfgInv'
  <2>1. Waits(Config)' <=> Waits(Config)
    BY <1>1, Quiet
  <2>2. QED
    BY <1>1, <1>2, <2>1 DEF CfgInv, ConfigOf
<1>5. ApplyInv'
  BY <1>1 DEF ApplyInv
<1>6. PICK r : r = job.req
  OBVIOUS
<1>7. Rebuilds(r)' <=> Rebuilds(r)
  BY <1>1, RebuildsSame
<1>8. HeadInv'
  <2>1. CASE r.kind = "full"
    BY <1>1, <1>6, <2>1 DEF HeadInv, Broken
  <2>2. CASE r.kind = "push"
    <3>1. Rebuilds(r)
      BY <1>1, <1>6, <2>2 DEF PathInv, IsPush
    <3>2. Broken'
      BY <1>1, <1>6, <1>7, <2>2, <3>1 DEF Broken, PushRuns, IsPush
    <3>3. QED
      BY <3>2 DEF HeadInv
  <2>3. CASE r.kind = "pr"
    <3>1. ~ Broken /\ ~ PushRuns /\ ~ IsPush(job'.req)
      BY <1>1, <1>6, <2>3 DEF Broken, PushRuns, IsPush
    <3>2. points'["default"] = points["default"]
      BY <1>1, <1>6, <2>3, CollIs
    <3>3. QED
      BY <1>1, <1>2, <3>1, <3>2, HeadKeptByJob
  <2>4. QED
    BY <1>1, <1>6, <2>1, <2>2, <2>3 DEF Indexing
<1>9. QED
  BY <1>3, <1>4, <1>5, <1>8

\* Steps of a deletion and of the end of a pull request.
LEMMA MainDrop ==
  ASSUME Shape, DropInv, Main, ~ mishap["default"], DropCollection \/ Unlisting \/ MarkDeleted
  PROVE  ChainInv' /\ CfgInv' /\ HeadInv' /\ ApplyInv'
<1>1. /\ UNCHANGED <<head, prHead, inbox, build, queue>>
      /\ job.req.kind \in {"delete", "closePr"} /\ job.pc \in {"drop", "unlist", "gone"}
      /\ (job'.req = job.req /\ job'.pc \in {"drop", "unlist", "gone"}) \/ job' = Idle
      /\ job.req.kind = "closePr" =>
           points'["default"] = points["default"] /\ manifest'["default"] = manifest["default"]
      /\ job.req.kind = "delete" /\ job' = Idle => MarkDeleted
  <2>1. CASE DropCollection
    BY <2>1, DropIs, CollIs, IdleIs DEF github
  <2>2. CASE Unlisting
    <3>1. job.req.kind = "delete" => job'.pc \in {"drop", "gone"} /\ job'.req = job.req
      BY <2>2, UnlistingIs, IdleIs
    <3>2. job.req.kind = "closePr" => job' = Idle
      BY <2>2, UnlistingIs
    <3>3. QED
      BY <2>2, <3>1, <3>2, UnlistingIs, CollIs, IdleIs DEF github
  <2>3. CASE MarkDeleted
    BY <2>3, EndsIs DEF github
  <2>4. QED
    BY <2>1, <2>2, <2>3
<1>2. ChainInv /\ HeadInv
  BY DEF Main
<1>3. ChainInv'
  BY <1>1, <1>2, IdleIs, ChainKept DEF IsPush
<1>4. CfgInv' /\ ApplyInv'
  BY <1>1, IdleIs DEF CfgInv, ApplyInv
<1>5. HeadInv'
  <2>1. CASE MarkDeleted
    <3>1. manifest'["default"] = None
      BY <2>1, EndsIs, CollIs DEF DropInv, Expected, Gone
    <3>2. QED
      BY <3>1 DEF HeadInv
  <2>2. CASE job.req.kind = "delete" /\ ~ MarkDeleted
    BY <1>1, <2>2 DEF HeadInv, Broken
  <2>3. CASE job.req.kind = "closePr"
    <3>1. ~ Broken /\ ~ PushRuns /\ ~ IsPush(job'.req)
      BY <1>1, <2>3, IdleIs DEF Broken, PushRuns, IsPush
    <3>2. QED
      BY <1>1, <1>2, <2>3, <3>1, HeadKeptByJob
  <2>4. QED
    BY <1>1, <2>1, <2>2, <2>3
<1>6. QED
  BY <1>3, <1>4, <1>5

LEMMA MainFinish ==
  ASSUME Shape, Main, ~ mishap["default"], Finish
  PROVE  ChainInv' /\ CfgInv' /\ HeadInv' /\ ApplyInv'
<1>1. /\ UNCHANGED <<head, prHead, inbox, build, queue, points, manifest>>
      /\ job.pc = "finish" /\ job' = Idle
  BY EndsIs DEF github
<1>2. ChainInv /\ HeadInv
  BY DEF Main
<1>3. ChainInv'
  BY <1>1, <1>2, IdleIs, ChainKept DEF IsPush
<1>4. CfgInv' /\ ApplyInv'
  BY <1>1, IdleIs DEF CfgInv, ApplyInv
<1>5. ~ PushRuns /\ ~ IsPush(job'.req)
  BY <1>1, IdleIs DEF PushRuns, IsPush
<1>6. ~ Broken
  BY <1>1, <1>5 DEF Broken, Shape, Good, Staged, Indexing
<1>7. HeadInv'
  BY <1>1, <1>2, <1>5, <1>6, HeadKeptByJob
<1>8. QED
  BY <1>3, <1>4, <1>7

-----------------------------------------------------------------------------
(* A file of a push.                                                       *)

\* Below a path that a push touches there is nothing of what it leaves alone.
LEMMA NoFileBelow ==
  ASSUME NEW b \in Commits, NEW a \in Commits, NEW d \in Differ(b, a), NEW p \in Paths,
         p \notin Differ(b, a), IsPrefix(d, p)
  PROVE  Tree[a][p] = None
<1>1. d \in Paths /\ p # d /\ Tree[b][d] # Tree[a][d] /\ Tree[b][p] = Tree[a][p]
  BY DEF Differ
<1>2. \A c \in Commits : Tree[c][d] = None \/ Tree[c][p] = None
  BY <1>1, RepoIndexAssumption
<1>3. Tree[b][d] # None \/ Tree[a][d] # None
  BY <1>1
<1>4. QED
  BY <1>1, <1>2, <1>3

\* What no push changes any more is as in the head.
LEMMA SettledIs ==
  ASSUME NEW c, Leads(c, 1), NEW p \in Paths, ~ Waits(p)
  PROVE  Tree[c][p] = Tree[head][p]
  BY DEF Leads, Waits

LEMMA WithoutAt ==
  ASSUME NEW S, NEW d, NEW p
  PROVE  {x \in Without(S, d) : PathOf(x) = p} =
           IF IsPrefix(d, p) THEN {} ELSE {x \in S : PathOf(x) = p}
  BY DEF Without

LEMMA ItselfIsPrefix == \A p \in Paths : IsPrefix(p, p)
  BY RepoIndexAssumption DEF IsPrefix

\* What the file of a push, applied or half applied, does to the points of another path.
LEMMA ApplyPoints ==
  ASSUME Shape, job.pc = "apply", job.todo # {}, NEW p \in Paths, p # NextChange.path, NEW S,
         S \in HalfDone \/ S = WithoutFile(points["default"], NextChange) \cup NewChunks(NextChange)
  PROVE  \/ {x \in S : PathOf(x) = p} = PointsAt(p)
         \/ /\ {x \in S : PathOf(x) = p} = {}
            /\ \E d \in {NextChange.path, NextChange.previous} : d # None /\ IsPrefix(d, p)
<1> DEFINE e == NextChange
           D == points["default"]
           AtP(T) == {x \in T : PathOf(x) = p}
           Below == \E d \in {e.path, e.previous} : d # None /\ IsPrefix(d, p)
<1>1. Coll = "default" /\ e.path # None
  <2>1. job.req.kind = "push" /\ e.path \in Paths
    BY NextChangeIs DEF Pushed
  <2>2. QED
    BY <2>1, CollIs, RepoIndexAssumption
<1>2. \A x \in NewChunks(e) : PathOf(x) # p
  BY NewChunksIs
<1>3. S \in {D, WithoutPrevious(D, e)}
      \/ \E T : T \subseteq NewChunks(e) /\ S = WithoutFile(D, e) \cup T
  <2>1. CASE S \in HalfDone
    <3>1. HalfDone = {D, WithoutPrevious(D, e)}
                     \cup {WithoutFile(D, e) \cup T : T \in SUBSET NewChunks(e)}
      BY <1>1 DEF HalfDone
    <3>2. QED
      BY <2>1, <3>1
  <2>2. CASE S = WithoutFile(D, e) \cup NewChunks(e)
    BY <2>2
  <2>3. QED
    BY <2>1, <2>2
<1> HIDE DEF e, D
<1>4. AtP(WithoutPrevious(D, e)) = AtP(D) \/ (AtP(WithoutPrevious(D, e)) = {} /\ Below)
  BY WithoutAt DEF WithoutPrevious
<1>5. AtP(WithoutFile(D, e)) = AtP(D) \/ (AtP(WithoutFile(D, e)) = {} /\ Below)
  <2>1. AtP(WithoutFile(D, e)) = AtP(WithoutPrevious(D, e))
        \/ (AtP(WithoutFile(D, e)) = {} /\ IsPrefix(e.path, p))
    BY WithoutAt DEF WithoutFile
  <2>2. QED
    BY <1>1, <1>4, <2>1
<1>6. \A T : T \subseteq NewChunks(e) => AtP(WithoutFile(D, e) \cup T) = AtP(WithoutFile(D, e))
  BY <1>2
<1>7. AtP(D) = PointsAt(p)
  BY DEF D, PointsAt
<1>8. AtP(S) = PointsAt(p) \/ (AtP(S) = {} /\ Below)
  BY <1>3, <1>4, <1>5, <1>6, <1>7
<1>9. QED
  BY <1>8 DEF e

\* The paths of the next file are touched by the push.
LEMMA NextTouched ==
  ASSUME Shape, job.pc = "apply", job.todo # {}
  PROVE  /\ job.req.before \in Commits /\ job.req.after \in Commits /\ IsPush(job.req)
         /\ NextChange.path \in Paths /\ NextChange.path # None
         /\ \A d \in {NextChange.path, NextChange.previous} : d # None =>
              d \in Differ(job.req.before, job.req.after) /\ Touches(job.req, d) /\ d \in Paths
<1>1. /\ job.req \in Pushed /\ NextChange \in Changes(job.req.before, job.req.after)
  BY NextChangeIs
<1>2. job.req.before \in Commits /\ job.req.after \in Commits /\ IsPush(job.req)
  BY <1>1 DEF Pushed, IsPush
<1>3. NextChange.path \in Paths /\ NextChange.path # None
  BY <1>1, NextChangeIs, RepoIndexAssumption
<1>4. \A d \in {NextChange.path, NextChange.previous} : d # None =>
        d \in Differ(job.req.before, job.req.after)
  BY <1>1, <1>2, ChangeIs
<1>5. QED
  BY <1>2, <1>3, <1>4 DEF Touches, Differ

\* A file of a push leaves alone what no push touches.
LEMMA HeadApplying ==
  ASSUME Shape, PathInv, ChainInv, HeadInv, job.pc = "apply", job.todo # {},
         UNCHANGED <<head, queue, inbox, manifest, build>>,
         job'.req = job.req, job'.pc # "finish",
         \/ points'["default"] \in HalfDone
         \/ points'["default"] =
              WithoutFile(points["default"], NextChange) \cup NewChunks(NextChange)
  PROVE  HeadInv'
<1>1. PushRuns /\ PushRuns' /\ Leads(job.req.after, 1)
  BY NextTouched DEF PushRuns, IsPush, ChainInv
<1>2. ~ Broken
  BY NextTouched DEF Broken, PathInv, IsPush
<1>3. \A p \in Paths : Pends(p)' <=> Pends(p)
  <2>1. TAKE p \in Paths
  <2>2. Waits(p)' <=> Waits(p)
    BY Quiet
  <2>3. QED
    BY <1>1, <2>2 DEF Pends, Touches, IsPush
<1>4. SUFFICES ASSUME manifest["default"] # None, ~ Pends(Config), NEW p \in Paths, ~ Pends(p)
               PROVE  PointsAt(p)' = Expect(p)'
                      /\ manifest["default"].files[p] = Cardinality(Expect(p)')
  BY <1>1, <1>3, RepoIndexAssumption DEF HeadInv
<1>5. PointsAt(p) = Expect(p) /\ manifest["default"].files[p] = Cardinality(Expect(p))
  BY <1>2, <1>4 DEF HeadInv
<1>6. Expect(p)' = Expect(p)
  BY DEF Expect, FilePoints, Indexed, Present, Chunks, ConfigOf
<1>7. PointsAt(p)' = PointsAt(p)
  <2>1. PointsAt(p)' = {x \in points'["default"] : PathOf(x) = p}
    BY DEF PointsAt, PathOf
  <2>2. p \notin Differ(job.req.before, job.req.after) /\ p # NextChange.path /\ ~ Waits(p)
    BY <1>1, <1>4, NextTouched DEF Pends, Touches
  <2>3. CASE \E d \in {NextChange.path, NextChange.previous} : d # None /\ IsPrefix(d, p)
    <3>1. PICK d \in {NextChange.path, NextChange.previous} : d # None /\ IsPrefix(d, p)
      BY <2>3
    <3>2. Tree[job.req.after][p] = None
      BY <2>2, <3>1, NextTouched, NoFileBelow
    <3>3. Tree[head][p] = None
      BY <1>1, <2>2, <3>2, SettledIs
    <3>4. Expect(p) = {}
      BY <3>3 DEF Expect, FilePoints, Indexed, Present
    <3>5. QED
      BY <1>5, <2>1, <2>2, <3>4, ApplyPoints
  <2>4. CASE ~ \E d \in {NextChange.path, NextChange.previous} : d # None /\ IsPrefix(d, p)
    BY <2>1, <2>2, <2>4, ApplyPoints
  <2>5. QED
    BY <2>3, <2>4
<1>8. QED
  BY <1>5, <1>6, <1>7

\* A failed attempt: a push may be tried again where it changed nothing that it is not
\* about; after any other job the collection counts as half built.
LEMMA MainFails ==
  ASSUME Shape, PathInv, Main, Fails, ~ mishap'["default"]
  PROVE  ChainInv' /\ CfgInv' /\ HeadInv' /\ ApplyInv'
<1>1. /\ UNCHANGED <<head, prHead, inbox, build, queue, manifest>> /\ job.req \in Asked
      /\ job'.pc \in {"begin", "idle"} /\ (job'.req = job.req \/ ~ IsPush(job'.req))
      /\ ~ mishap["default"]
  BY FailsIs, IdleIs, CollIs DEF github, IsPush
<1>2. ChainInv /\ HeadInv
  BY <1>1 DEF Main
<1>3. ChainInv'
  BY <1>1, <1>2, ChainKept
<1>4. CfgInv' /\ ApplyInv'
  BY <1>1 DEF CfgInv, ApplyInv
<1> SUFFICES HeadInv'
  BY <1>3, <1>4
<1>5. job.req.kind \in {"pr", "closePr"} => points'["default"] = points["default"]
  <2>1. SUFFICES ASSUME job.req.kind \in {"pr", "closePr"} PROVE At = "pr"
    BY FailsIs, CollIs
  <2>2. CASE job.pc = "drop"
    BY <2>1, <2>2, NextCollIs DEF At
  <2>3. CASE job.pc # "drop"
    BY <2>1, <2>3, CollIs DEF At
  <2>4. QED
    BY <2>2, <2>3
<1>6. CASE job.req.kind \in {"pr", "closePr"}
  <2>1. ~ PushRuns /\ ~ Broken /\ ~ IsPush(job'.req)
    BY <1>1, <1>6 DEF PushRuns, Broken, IsPush
  <2>2. QED
    BY <1>1, <1>2, <1>5, <1>6, <2>1, HeadKeptByJob
<1>7. CASE job.req.kind \notin {"pr", "closePr"}
  <2>1. job'.pc = "begin" /\ job'.req = job.req /\ job'.tries = job.tries + 1 /\ job'.tries > 0
    <3>1. Coll = "default" /\ job.tries \in Nat
      BY <1>7, CollIs, JobFields
    <3>2. QED
      BY <3>1, FailsIs, CollIs
  <2>2. CASE job.req.kind \in {"full", "delete"}
    BY <2>1, <2>2 DEF HeadInv, Broken
  <2>3. CASE IsPush(job.req)
    <3>1. PICK r : r = job.req
      OBVIOUS
    <3>2. Rebuilds(r)' <=> Rebuilds(r)
      BY <1>1, RebuildsSame
    <3>3. CASE Rebuilds(r)
      BY <2>1, <2>3, <3>1, <3>2, <3>3 DEF HeadInv, Broken, PushRuns, IsPush
    <3>4. CASE ~ Rebuilds(r)
      <4>1. ~ Broken /\ job.pc \notin {"config", "tree", "reset", "files"}
        BY <2>3, <3>1, <3>4 DEF Broken, PathInv, IsPush
      <4>2. CASE job.pc = "apply" /\ job.todo # {}
        <5>1. At = "default"
          BY <2>3, <4>2, CollIs DEF At, IsPush
        <5>2. points'["default"] \in HalfDone
          BY <5>1, FailsIs
        <5>3. QED
          BY <1>1, <1>2, <2>1, <4>2, <5>2, HeadApplying
      <4>3. CASE ~ (job.pc = "apply" /\ job.todo # {})
        <5>1. job.pc \notin {"reset", "drop"} /\ At = "default"
          BY <2>3, <4>1, CollIs, NextCollIs DEF At, IsPush
        <5>2. HalfDone = {points["default"]}
          BY <4>1, <4>3, <5>1 DEF HalfDone
        <5>3. points'["default"] = points["default"]
          BY <5>1, <5>2, FailsIs
        <5>4. /\ PushesWait' <=> PushesWait
              /\ \A p \in Paths : Waits(p)' <=> Waits(p)
          BY <1>1, Quiet
        <5>5. PushRuns'
          BY <2>1, <2>3 DEF PushRuns, IsPush
        <5>6. \A p \in Paths : ~ Pends(p)' => ~ Pends(p)
          BY <2>1, <5>4, <5>5 DEF Pends, Touches, IsPush
        <5>7. QED
          BY <1>1, <1>2, <4>1, <5>3, <5>5, <5>6, HeadKept
      <4>4. QED
        BY <4>2, <4>3
    <3>5. QED
      BY <3>3, <3>4
  <2>4. QED
    BY <1>1, <1>7, <2>2, <2>3, AskedIs DEF IsPush
<1>8. QED
  BY <1>6, <1>7

\* The comparison of a push that is applied.
LEMMA MainCompared ==
  ASSUME Shape, PathInv, Main, ~ mishap["default"], Compared
  PROVE  ChainInv' /\ CfgInv' /\ HeadInv' /\ ApplyInv'
<1>1. /\ UNCHANGED <<head, prHead, inbox, build, queue, points, manifest>>
      /\ job.pc = "compare" /\ job'.pc = "apply" /\ job'.req = job.req /\ job'.tries = job.tries
      /\ IsPush(job.req) /\ ~ job.req.forced /\ job.req \in Asked
      /\ job'.todo = Changes(job.req.before, job.req.after) /\ job'.listed = job.listed
      /\ ~ TooMuchChanged(Changes(job.req.before, job.req.after))
  BY ComparedIs DEF github, IsPush
<1>2. ChainInv /\ HeadInv
  BY DEF Main
<1>3. ChainInv'
  BY <1>1, <1>2, ChainKept
<1>4. CfgInv'
  BY <1>1 DEF CfgInv
<1>5. PICK r : r = job.req
  OBVIOUS
<1>6. ~ Broken
  BY <1>1 DEF Broken, PathInv, Rebuilds, IsPush
<1>7. HeadInv'
  BY <1>1, <1>2, <1>6, HeadKeptByJob
<1>8. ApplyInv'
  <2>1. SUFFICES ASSUME ~ Waits(Config)', NEW p \in Paths, ~ Waits(p)',
                        Touches(job'.req, p) => Applied(p)'
                 PROVE  PointsAt(p)' = Expect(p)' /\ job'.listed[p] = Cardinality(Expect(p)')
    BY DEF ApplyInv, Touches, IsPush
  <2>2. ~ Waits(Config) /\ ~ Waits(p)
    BY <1>1, <2>1, Quiet
  <2>3. ~ Applied(p)'
    BY <1>1 DEF Applied
  <2>4. ~ Touches(job.req, p)
    BY <1>1, <2>1, <2>3
  <2>5. ~ Touches(job.req, Config)
    <3>1. SUFFICES ASSUME Touches(job.req, Config) PROVE FALSE
      OBVIOUS
    <3>2. job.req.before \in Commits /\ job.req.after \in Commits
      BY <1>1, PushIs
    <3>3. PICK e \in Changes(job.req.before, job.req.after) : Config \in {e.path, e.previous}
      BY <3>1, <3>2, ChangesCover DEF Touches
    <3>4. QED
      BY <1>1, <3>3 DEF TooMuchChanged
  <2>6. ~ Pends(Config) /\ ~ Pends(p)
    BY <2>2, <2>4, <2>5 DEF Pends
  <2>7. manifest["default"] # None /\ job.listed = manifest["default"].files
    BY <1>1 DEF PathInv
  <2>8. PointsAt(p) = Expect(p) /\ job.listed[p] = Cardinality(Expect(p))
    BY <1>2, <1>6, <2>6, <2>7 DEF HeadInv
  <2>9. PointsAt(p)' = PointsAt(p) /\ Expect(p)' = Expect(p)
    BY <1>1, PointsKept
  <2>10. QED
    BY <1>1, <2>8, <2>9
<1>9. QED
  BY <1>3, <1>4, <1>7, <1>8

\* What the head holds at a path that only the running push still changes.
LEMMA ExpectAfter ==
  ASSUME Shape, PathInv, ChainInv, job.pc = "apply", NEW p \in Paths, ~ Waits(p), ~ Waits(Config)
  PROVE  Expect(p) = FilePoints(job.req.after, job.cfg, Fingerprint(job.cfg), p)
<1>1. IsPush(job.req) /\ job.cfg = ConfigOf(job.req.after) /\ ~ Rebuilds(job.req)
  BY DEF PathInv, Shape, Good, Staged, IsPush
<1>2. manifest["default"].fp = Fingerprint(job.cfg)
  BY <1>1 DEF Rebuilds, SameFingerprint
<1>3. PICK c : c = job.req.after
  OBVIOUS
<1>4. Leads(c, 1)
  BY <1>1, <1>3 DEF ChainInv
<1>5. Tree[c][p] = Tree[head][p] /\ Tree[c][Config] = Tree[head][Config]
  BY <1>4, SettledIs, RepoIndexAssumption
<1>6. job.cfg = ConfigOf(head)
  BY <1>1, <1>3, <1>5 DEF ConfigOf
<1>7. QED
  BY <1>2, <1>3, <1>5, <1>6 DEF Expect, FilePoints, Indexed, Present

\* One more file of a push.
LEMMA ApplyApplied ==
  ASSUME Shape, PathInv, OrderInv, ChainInv, ApplyInv, ChangeApplied
  PROVE  ApplyInv'
<1> DEFINE es == Changes(job.req.before, job.req.after)
           e == NextChange
           new == NewChunks(e)
<1>1. /\ UNCHANGED <<head, prHead, inbox, build, queue, manifest>>
      /\ job.pc = "apply" /\ job'.pc = "apply" /\ job.todo # {} /\ job'.req = job.req
      /\ job'.todo = job.todo \ {e}
      /\ job'.listed = [Unlisted(e) EXCEPT ![e.path] = Cardinality(new)]
      /\ points'["default"] = WithoutFile(points["default"], e) \cup new
  BY ChangeAppliedIs DEF github
<1>2. /\ e \in job.todo /\ e \in es /\ job.req.before \in Commits /\ job.req.after \in Commits
      /\ e.path \in Paths /\ e.path # None /\ job.at = job.req.after /\ IsPush(job.req)
      /\ job.todo \subseteq es
  BY <1>1, NextChangeIs, NextTouched DEF Shape, Good, Staged
<1>3. /\ e.path \in Differ(job.req.before, job.req.after)
      /\ e.removed <=> e.path \notin Present(job.req.after)
      /\ e.previous # None => /\ e.previous \in Differ(job.req.before, job.req.after)
                              /\ e.previous \in Paths /\ e.previous \notin Present(job.req.after)
                              /\ e.path \in Present(job.req.after)
  BY <1>2, ChangeIs DEF Differ
<1>4. SUFFICES ASSUME Wiped(es) = {}, ~ Waits(Config)', NEW p \in Paths, ~ Waits(p)',
                      Touches(job'.req, p) => Applied(p)'
               PROVE  PointsAt(p)' = Expect(p)' /\ job'.listed[p] = Cardinality(Expect(p)')
  BY <1>1 DEF ApplyInv, Touches, IsPush
<1>5. ~ Waits(Config) /\ ~ Waits(p)
  BY <1>1, <1>4, Quiet
<1>6. Expect(p)' = Expect(p)
  BY <1>1 DEF Expect, FilePoints, Indexed, Present, Chunks, ConfigOf
<1>7. Expect(p) = FilePoints(job.req.after, job.cfg, Fingerprint(job.cfg), p)
  BY <1>1, <1>5, ExpectAfter
<1>8. PointsAt(p)' = {x \in WithoutFile(points["default"], e) \cup new : PathOf(x) = p}
  BY <1>1 DEF PointsAt, PathOf
<1>9. \A x \in new : PathOf(x) = e.path
  BY <1>1, NewChunksIs
<1>10. job.listed \in [Paths -> Nat] /\ Cardinality({}) = 0
  BY JobFields, FS_EmptySet
<1>11. CASE p = e.path
  <2>1. {x \in WithoutFile(points["default"], e) : PathOf(x) = p} = {}
    BY <1>11, ItselfIsPrefix, WithoutAt DEF WithoutFile
  <2>2. PointsAt(p)' = new
    BY <1>8, <1>9, <1>11, <2>1
  <2>3. new = Expect(p)
    BY <1>2, <1>3, <1>7, <1>11 DEF NewChunks, FilePoints, Indexed
  <2>4. job'.listed[p] = Cardinality(new)
    BY <1>1, <1>11 DEF Unlisted
  <2>5. QED
    BY <1>6, <2>2, <2>3, <2>4
<1>12. CASE p = e.previous /\ p # e.path
  <2>1. p # None
    BY RepoIndexAssumption
  <2>2. Expect(p) = {}
    BY <1>3, <1>7, <1>12, <2>1 DEF FilePoints, Indexed
  <2>3. {x \in WithoutPrevious(points["default"], e) : PathOf(x) = p} = {}
    BY <1>12, <2>1, ItselfIsPrefix, WithoutAt DEF WithoutPrevious
  <2>4. {x \in WithoutFile(points["default"], e) : PathOf(x) = p} = {}
    BY <2>3, WithoutAt DEF WithoutFile
  <2>5. PointsAt(p)' = {}
    BY <1>8, <1>9, <1>12, <2>4
  <2>6. job'.listed[p] = 0
    BY <1>1, <1>12 DEF Unlisted
  <2>7. QED
    BY <1>6, <1>10, <2>2, <2>5, <2>6
<1>13. CASE p # e.path /\ p # e.previous
  <2>1. Touches(job.req, p) => Applied(p)
    <3>1. Applied(p)' => Applied(p)
      BY <1>1, <1>2, <1>13 DEF Applied
    <3>2. QED
      BY <1>1, <1>4, <3>1
  <2>2. PointsAt(p) = Expect(p) /\ job.listed[p] = Cardinality(Expect(p))
    BY <1>1, <1>4, <1>5, <2>1 DEF ApplyInv
  <2>3. job'.listed[p] = job.listed[p]
    BY <1>1, <1>13 DEF Unlisted
  <2>4. PointsAt(p)' = PointsAt(p)
        \/ /\ PointsAt(p)' = {}
           /\ \E d \in {e.path, e.previous} : d # None /\ IsPrefix(d, p)
    BY <1>1, <1>8, <1>13, ApplyPoints
  <2>5. ASSUME NEW d \in {e.path, e.previous}, d # None, IsPrefix(d, p)
        PROVE  p \notin Present(job.req.after)
    <3>1. d \in Differ(job.req.before, job.req.after) /\ d \in Paths /\ d # p
      BY <1>2, <1>3, <1>13, <2>5
    <3>2. CASE ~ Touches(job.req, p)
      <4>1. p \notin Differ(job.req.before, job.req.after)
        BY <1>2, <3>2 DEF Touches
      <4>2. QED
        BY <1>2, <2>5, <3>1, <4>1, NoFileBelow DEF Present
    <3>3. CASE Touches(job.req, p)
      <4>1. PICK y \in es \ job.todo : p \in {y.path, y.previous}
        BY <2>1, <3>3 DEF Applied
      <4>2. /\ y.path \in Paths /\ (y.removed <=> y.path \notin Present(job.req.after))
            /\ y.previous # None => y.previous \notin Present(job.req.after)
        BY <1>2, <4>1, ChangeIs
      <4>3. Rank[y.path] < Rank[e.path]
        BY <1>1, <1>2, <4>1 DEF OrderInv
      <4>4. CASE p = y.previous
        BY <4>2, <4>4, RepoIndexAssumption
      <4>5. CASE p = y.path /\ d = e.path
        <5>1. Rank[d] < Rank[p]
          BY <2>5, <3>1, RepoIndexAssumption
        <5>2. Rank[d] \in Nat /\ Rank[p] \in Nat
          BY <3>1, RepoIndexAssumption
        <5>3. QED
          BY <4>3, <4>5, <5>1, <5>2
      <4>6. CASE p = y.path /\ d = e.previous
        <5>1. Rank[e.path] > Rank[y.path]
          <6>1. Rank[e.path] \in Nat /\ Rank[y.path] \in Nat
            BY <1>2, <4>2, RepoIndexAssumption
          <6>2. QED
            BY <4>3, <6>1
        <5>2. y \in es /\ e \in es /\ e.previous # None /\ IsPrefix(e.previous, y.path)
          BY <1>2, <2>5, <4>1, <4>6
        <5>3. ~ y.removed => y.path \in Wiped(es)
          BY <5>1, <5>2 DEF Wiped
        <5>4. QED
          BY <1>4, <4>2, <4>6, <5>3
      <4>7. QED
        BY <2>5, <4>1, <4>4, <4>5, <4>6
    <3>4. QED
      BY <3>2, <3>3
  <2>6. p \notin Present(job.req.after) => Expect(p) = {}
    BY <1>7 DEF FilePoints, Indexed
  <2>7. PointsAt(p)' = Expect(p)
    BY <2>2, <2>4, <2>5, <2>6
  <2>8. QED
    BY <1>6, <2>2, <2>3, <2>7
<1>14. QED
  BY <1>11, <1>12, <1>13

LEMMA MainApplied ==
  ASSUME Shape, PathInv, OrderInv, Main, ~ mishap["default"], ChangeApplied
  PROVE  ChainInv' /\ CfgInv' /\ HeadInv' /\ ApplyInv'
<1>1. /\ UNCHANGED <<head, prHead, inbox, build, queue, manifest>>
      /\ job.pc = "apply" /\ job'.pc = "apply" /\ job.todo # {} /\ job'.req = job.req
      /\ points'["default"] = WithoutFile(points["default"], NextChange) \cup NewChunks(NextChange)
  BY ChangeAppliedIs DEF github
<1>2. ChainInv /\ HeadInv /\ ApplyInv
  BY DEF Main
<1>3. ChainInv'
  BY <1>1, <1>2, ChainKept
<1>4. CfgInv'
  BY <1>1 DEF CfgInv
<1>5. HeadInv'
  BY <1>1, <1>2, HeadApplying
<1>6. ApplyInv'
  BY <1>2, ApplyApplied
<1>7. QED
  BY <1>3, <1>4, <1>5, <1>6

\* The manifest that a push saves.
LEMMA SavedPush ==
  ASSUME Shape, PathInv, Main, SaveManifest, job.pc = "apply", ~ mishap'["default"]
  PROVE  HeadInv'
<1> DEFINE es == Changes(job.req.before, job.req.after)
<1>1. /\ UNCHANGED <<head, prHead, inbox, build, queue, points>>
      /\ job.todo = {} /\ job'.pc = "finish" /\ job'.req = job.req
      /\ Coll = "default" /\ job.at = job.req.after /\ IsPush(job.req)
      /\ job.req.before \in Commits /\ job.req.after \in Commits
      /\ manifest'["default"] = [sha |-> job.req.after, at |-> job.at, cfg |-> job.cfg,
                                 fp |-> Fingerprint(job.cfg), files |-> job.listed]
      /\ ~ mishap["default"] /\ Wiped(es) = {}
  BY SaveIs, SavedIs, AskedIs DEF github, IsPush
<1>2. ChainInv /\ ApplyInv
  BY <1>1 DEF Main
<1>3. /\ \A p \in Paths : Waits(p)' <=> Waits(p)
      /\ PushesWait' <=> PushesWait
  BY <1>1, Quiet
<1>4. SUFFICES ASSUME ~ Waits(Config)
               PROVE  /\ \A p \in Paths : ~ Waits(p) =>
                           PointsAt(p)' = Expect(p)' /\ job.listed[p] = Cardinality(Expect(p)')
                      /\ ~ PushesWait => job.at = head /\ job.cfg = ConfigOf(head)
  <2>1. Waits(Config)' => Pends(Config)'
    BY DEF Pends
  <2>2. \A p \in Paths : ~ Pends(p)' => ~ Waits(p)
    BY <1>3 DEF Pends
  <2>3. ~ Pends(Config)' => ~ Waits(Config)
    BY <1>3, <2>1, RepoIndexAssumption
  <2>4. manifest'["default"].files = job.listed /\ manifest'["default"].at = job.at
        /\ manifest'["default"].cfg = job.cfg
    BY <1>1
  <2>5. QED
    BY <1>1, <1>3, <1>4, <2>2, <2>3, <2>4 DEF HeadInv, ConfigOf
<1>5. job.cfg = ConfigOf(job.req.after) /\ ~ Rebuilds(job.req)
  BY DEF PathInv
<1>6. PICK c : c = job.req.after
  OBVIOUS
<1>7. Leads(c, 1)
  BY <1>1, <1>2, <1>6 DEF ChainInv
<1>8. ASSUME NEW p \in Paths, ~ Waits(p)
      PROVE  PointsAt(p)' = Expect(p)' /\ job.listed[p] = Cardinality(Expect(p)')
  <2>1. Touches(job.req, p) => Applied(p)
    BY <1>1, ChangesCover DEF Touches, Applied
  <2>2. PointsAt(p) = Expect(p) /\ job.listed[p] = Cardinality(Expect(p))
    BY <1>1, <1>2, <1>4, <1>8, <2>1 DEF ApplyInv
  <2>3. PointsAt(p)' = PointsAt(p)
    BY <1>1 DEF PointsAt, PathOf
  <2>4. manifest'["default"].fp = manifest["default"].fp
    BY <1>1, <1>5 DEF Rebuilds, SameFingerprint
  <2>5. Expect(p)' = Expect(p)
    BY <1>1, <2>4 DEF Expect, FilePoints, Indexed, Present, Chunks, ConfigOf
  <2>6. QED
    BY <2>2, <2>3, <2>5
<1>9. ConfigOf(c) = ConfigOf(head)
  BY <1>4, <1>7, SettledIs, RepoIndexAssumption DEF ConfigOf
<1>10. ~ PushesWait => c = head
  BY <1>7 DEF Leads, PushesWait, IsPush
<1>11. QED
  BY <1>1, <1>5, <1>6, <1>8, <1>9, <1>10

\* A full index leaves the branch as it read it: at its head, or where the next push
\* starts.
LEMMA SavedAhead ==
  ASSUME Shape, Main, SaveManifest, job.pc = "files", Coll = "default", ~ mishap'["default"],
         NEW p \in Paths, ~ Waits(p)
  PROVE  Tree[job.at][p] = Tree[head][p]
<1>1. ~ StillSpoilt
  BY SavedIs, SaveIs
<1>2. CASE job.at = head
  BY <1>2
<1>3. CASE job.at # head
  <2>1. Continues(job.at) /\ ~ mishap["default"]
    BY <1>1, <1>3 DEF StillSpoilt
  <2>2. Chain
    BY <2>1 DEF Main, ChainInv
  <2>3. PICK i \in DOMAIN Waiting : IsPush(Waiting[i]) /\ Waiting[i].before = job.at
    BY <2>1 DEF Continues, IsPush
  <2>4. PICK r : r = Waiting[i]
    OBVIOUS
  <2>5. Leads(r.after, i + 1)
    BY <2>2, <2>3, <2>4 DEF Chain
  <2>6. Tree[r.after][p] = Tree[head][p]
    BY <2>5 DEF Leads, Waits
  <2>7. p \notin Differ(r.before, r.after)
    BY <2>3, <2>4 DEF Waits, Touches
  <2>8. QED
    BY <2>3, <2>4, <2>6, <2>7 DEF Differ
<1>4. QED
  BY <1>2, <1>3

\* The configuration it read is that of the head, too.
LEMMA SavedConfig ==
  ASSUME Shape, PathInv, Main, SaveManifest, job.pc = "files", Coll = "default",
         ~ mishap'["default"], ~ Waits(Config)
  PROVE  job.cfg = ConfigOf(head)
<1>1. ~ StillSpoilt
  BY SavedIs, SaveIs
<1>2. CASE mishap["default"]
  BY <1>1, <1>2 DEF StillSpoilt
<1>3. CASE ~ mishap["default"]
  <2>1. CfgInv /\ job.req.kind \in {"full", "push"} /\ job.req \in Asked
    BY <1>3, SavedIs, CollIs DEF Main, Indexing
  <2>2. CASE job.req.after = Branch
    <3>1. job.req.kind = "full"
      BY <2>1, <2>2, AskedIs, RepoIndexAssumption
    <3>2. QED
      BY <2>1, <2>2, <3>1 DEF CfgInv
  <2>3. CASE job.req.after # Branch
    <3>1. job.cfg = ConfigOf(job.at)
      BY <2>1, <2>3 DEF PathInv
    <3>2. Tree[job.at][Config] = Tree[head][Config]
      BY SavedAhead, RepoIndexAssumption
    <3>3. QED
      BY <3>1, <3>2 DEF ConfigOf
  <2>4. QED
    BY <2>2, <2>3
<1>4. QED
  BY <1>2, <1>3

\* The manifest that a full index saves.
LEMMA SavedFull ==
  ASSUME Shape, FullInv, PathInv, Main, SaveManifest, job.pc = "files", Coll = "default",
         ~ mishap'["default"]
  PROVE  ChainInv' /\ HeadInv'
<1>1. /\ UNCHANGED <<head, prHead, inbox, build, queue, points>>
      /\ job.todo = {} /\ job'.pc = "finish" /\ job'.req = job.req /\ job.req \in Asked
      /\ manifest'["default"] = [sha |-> job.req.after, at |-> job.at, cfg |-> job.cfg,
                                 fp |-> Fingerprint(job.cfg), files |-> job.listed]
  BY SavedIs DEF github
<1>2. ~ StillSpoilt
  BY SavedIs, SaveIs
<1>3. /\ \A p \in Paths : Waits(p)' <=> Waits(p)
      /\ PushesWait' <=> PushesWait
  BY <1>1, Quiet
<1>4. ChainInv
  <2>1. CASE ~ mishap["default"]
    BY <2>1 DEF Main
  <2>2. CASE mishap["default"]
    <3>1. job.at = head /\ ~ PushesWait
      BY <1>2, <2>2 DEF StillSpoilt
    <3>2. Chain
      BY <3>1 DEF Chain, PushesWait, IsPush
    <3>3. IsPush(job.req) => job.req.after = head
      <4>1. IsPush(job.req) => job.req.after \in Commits
        BY <1>1, PushIs
      <4>2. IsPush(job.req) => job.req.after # Branch
        BY <4>1, RepoIndexAssumption
      <4>3. QED
        BY <3>1, <4>2 DEF PathInv, IsPush
    <3>4. Leads(head, 1)
      BY DEF Leads
    <3>5. QED
      BY <3>2, <3>3, <3>4 DEF ChainInv
  <2>3. QED
    BY <2>1, <2>2
<1>5. ChainInv'
  BY <1>1, <1>4, ChainKept
<1>6. HeadInv'
  <2>1. SUFFICES ASSUME ~ Waits(Config)
                 PROVE  /\ \A p \in Paths : ~ Waits(p) =>
                             PointsAt(p)' = Expect(p)' /\ job.listed[p] = Cardinality(Expect(p)')
                        /\ ~ PushesWait => job.at = head /\ job.cfg = ConfigOf(head)
    <3>1. \A p \in Paths : ~ Pends(p)' => ~ Waits(p)
      BY <1>3 DEF Pends
    <3>2. manifest'["default"].files = job.listed /\ manifest'["default"].at = job.at
          /\ manifest'["default"].cfg = job.cfg
      BY <1>1
    <3>3. ~ Pends(Config)' => ~ Waits(Config)
      BY <3>1, RepoIndexAssumption
    <3>4. QED
      BY <1>1, <1>3, <2>1, <3>1, <3>2, <3>3 DEF HeadInv, ConfigOf
  <2>2. job.cfg = ConfigOf(head)
    BY <2>1, SavedConfig
  <2>3. ASSUME NEW p \in Paths, ~ Waits(p)
        PROVE  PointsAt(p)' = Expect(p)' /\ job.listed[p] = Cardinality(Expect(p)')
    <3>1. Tree[job.at][p] = Tree[head][p]
      BY <2>3, SavedAhead
    <3>2. manifest'["default"].fp = Fingerprint(job.cfg)
      BY <1>1
    <3>3. Expect(p)' = FilePoints(head, ConfigOf(head), Fingerprint(job.cfg), p)
      BY <1>1, <3>2 DEF Expect, FilePoints, Indexed, Present, Chunks, ConfigOf
    <3>4. Done(p) = FilePoints(head, ConfigOf(head), Fingerprint(job.cfg), p)
      BY <1>1, <2>2, <3>1 DEF Done, FilePoints, Indexed, Present
    <3>5. \A q \in Paths : \A x \in Done(q) : PathOf(x) = q
      BY ChunksPath DEF Done
    <3>6. {x \in UNION {Done(q) : q \in Paths} : PathOf(x) = p} = Done(p)
      BY <3>5
    <3>7. points["default"] = UNION {Done(q) : q \in Paths} /\ job.listed[p] = Cardinality(Done(p))
      BY DEF FullInv
    <3>8. PointsAt(p)' = Done(p)
      BY <1>1, <3>6, <3>7 DEF PointsAt, PathOf
    <3>9. QED
      BY <3>3, <3>4, <3>7, <3>8
  <2>4. ~ PushesWait => job.at = head
    BY <1>2 DEF StillSpoilt, Continues, PushesWait
  <2>5. QED
    BY <2>2, <2>3, <2>4
<1>7. QED
  BY <1>5, <1>6

LEMMA MainSaved ==
  ASSUME Shape, FullInv, PathInv, Main, SaveManifest, ~ mishap'["default"]
  PROVE  ChainInv' /\ CfgInv' /\ HeadInv' /\ ApplyInv'
<1>1. /\ UNCHANGED <<head, prHead, inbox, build, queue, points>>
      /\ job.pc \in {"files", "apply"} /\ job'.pc = "finish" /\ job'.req = job.req
      /\ job.req \in Asked
  BY SavedIs DEF github
<1>2. CfgInv' /\ ApplyInv'
  BY <1>1 DEF CfgInv, ApplyInv
<1>3. ~ (job.pc = "files" /\ Coll = "default") => ~ mishap["default"]
  BY SaveIs, SavedIs, CollIs
<1>4. CASE job.pc = "apply"
  <2>1. ChainInv'
    BY <1>1, <1>3, <1>4, ChainKept DEF Main
  <2>2. QED
    BY <1>2, <1>4, <2>1, SavedPush
<1>5. CASE job.pc = "files" /\ Coll = "default"
  BY <1>2, <1>5, SavedFull
<1>6. CASE job.pc = "files" /\ Coll = "pr"
  <2>1. ChainInv /\ HeadInv
    BY <1>3, <1>6 DEF Main
  <2>2. job.req.kind = "pr" /\ manifest'["default"] = manifest["default"]
    BY <1>6, SavedIs, CollIs
  <2>3. ~ PushRuns /\ ~ Broken /\ ~ IsPush(job'.req)
    BY <1>1, <2>2 DEF PushRuns, Broken, IsPush
  <2>4. ChainInv' /\ HeadInv'
    BY <1>1, <2>1, <2>2, <2>3, ChainKept, HeadKeptByJob
  <2>5. QED
    BY <1>2, <2>4
<1>7. QED
  BY <1>1, <1>4, <1>5, <1>6, CollIs

LEMMA MainNext ==
  Shape /\ FullInv /\ DropInv /\ PathInv /\ OrderInv /\ Main /\ [Next]_vars => Main'
<1> SUFFICES ASSUME Shape, FullInv, DropInv, PathInv, OrderInv, Main, [Next]_vars,
                    ~ mishap'["default"]
             PROVE  ChainInv' /\ CfgInv' /\ HeadInv' /\ ApplyInv'
  BY DEF Main
<1>1. CASE UNCHANGED vars
  <2>1. /\ UNCHANGED <<head, queue, inbox, job, build, points, manifest>> /\ ~ mishap["default"]
    BY <1>1 DEF vars
  <2>2. ChainInv /\ CfgInv /\ HeadInv /\ ApplyInv
    BY <2>1 DEF Main
  <2>3. ChainInv'
    BY <2>1, <2>2, ChainKept
  <2>4. \A p : Waits(p)' <=> Waits(p)
    BY <2>1, Quiet
  <2>5. CfgInv'
    BY <2>1, <2>2, <2>4 DEF CfgInv, ConfigOf
  <2>6. HeadInv'
    <3>1. PICK r : r = job.req
      OBVIOUS
    <3>2. Rebuilds(r)' <=> Rebuilds(r)
      BY <2>1, RebuildsSame
    <3>3. Broken' <=> Broken
      BY <2>1, <3>1, <3>2 DEF Broken, PushRuns, IsPush
    <3>4. /\ PushRuns' <=> PushRuns
          /\ \A p \in Paths : Pends(p)' <=> Pends(p)
      BY <2>1, <2>4 DEF Pends, PushRuns, Touches, IsPush
    <3>5. PushesWait' <=> PushesWait
      BY <2>1, Quiet
    <3>6. QED
      BY <2>1, <2>2, <3>3, <3>4, <3>5, HeadKept
  <2>7. ApplyInv'
    <3>1. \A p \in Paths : PointsAt(p)' = PointsAt(p) /\ Expect(p)' = Expect(p)
      BY <2>1, PointsKept
    <3>2. QED
      BY <2>1, <2>2, <2>4, <3>1 DEF ApplyInv, Applied, Touches, IsPush
  <2>8. QED
    BY <2>3, <2>5, <2>6, <2>7
<1>2. CASE World
  BY <1>2, MainWorld
<1>3. CASE Claim
  BY <1>3, MainClaim
<1>4. CASE Fails
  BY <1>4, MainFails
<1>5. CASE SaveManifest
  BY <1>5, MainSaved
<1>6. CASE Start \/ Configured \/ TreeRead \/ FallsBack \/ ManifestFound \/ PushConfigured
           \/ ListCollections
  <2>1. ~ mishap["default"]
    BY <1>6, StartIs, ConfiguredIs, TreeReadIs, ReadsIs, ListIs
  <2>2. QED
    BY <1>6, <2>1, MainQuiet
<1>7. CASE Reset \/ \E p \in Paths : FileIndexed(p)
  <2>1. ~ mishap["default"]
    BY <1>7, ResetIs, FileIndexedIs
  <2>2. QED
    BY <1>7, <2>1, MainFull
<1>8. CASE DropCollection \/ Unlisting \/ MarkDeleted
  <2>1. ~ mishap["default"]
    BY <1>8, DropIs, UnlistingIs, EndsIs
  <2>2. QED
    BY <1>8, <2>1, MainDrop
<1>9. CASE Finish
  <2>1. ~ mishap["default"]
    BY <1>9, EndsIs
  <2>2. QED
    BY <1>9, <2>1, MainFinish
<1>10. CASE Compared
  <2>1. ~ mishap["default"]
    BY <1>10, ComparedIs
  <2>2. QED
    BY <1>10, <2>1, MainCompared
<1>11. CASE ChangeApplied
  <2>1. ~ mishap["default"]
    BY <1>11, ChangeAppliedIs
  <2>2. QED
    BY <1>11, <2>1, MainApplied
<1>12. QED
  BY <1>1, <1>2, <1>3, <1>4, <1>5, <1>6, <1>7, <1>8, <1>9, <1>10, <1>11, JobSteps DEF Next, JobStep

\* When nothing runs or waits, no path is left to be changed.
LEMMA HeadIsIndexed == Shape /\ Main => IndexIsHead
<1> SUFFICES ASSUME Shape, Main, AtRest, ~ mishap["default"], manifest["default"] # None
             PROVE  /\ manifest["default"].at = head /\ manifest["default"].cfg = ConfigOf(head)
                    /\ AsListed("default")
  BY DEF IndexIsHead
<1>1. job = Idle /\ Waiting = <<>>
  BY DEF AtRest, Waiting, Shape, Good, Staged
<1>2. ~ PushRuns /\ ~ Broken /\ ~ PushesWait /\ \A p : ~ Waits(p)
  BY <1>1, IdleIs DEF PushRuns, Broken, PushesWait, Waits, IsPush
<1>3. \A p : ~ Pends(p)
  BY <1>2 DEF Pends
<1>4. HeadInv
  BY DEF Main
<1>5. /\ \A p \in Paths : PointsAt(p) = Expect(p)
                          /\ manifest["default"].files[p] = Cardinality(Expect(p))
      /\ manifest["default"].at = head /\ manifest["default"].cfg = ConfigOf(head)
  BY <1>2, <1>3, <1>4 DEF HeadInv
<1>6. points["default"] = UNION {PointsAt(p) : p \in Paths}
  BY CollIs DEF Shape, PointsAt
<1>7. UNION {PointsAt(p) : p \in Paths} = UNION {Expect(p) : p \in Paths}
  BY <1>5
<1>8. QED
  BY <1>5, <1>6, <1>7 DEF AsListed, Expect

\* When every push was applied in its turn, the collection of the default branch and its
\* manifest are what a full index of the head would give, whatever attempts failed half
\* way, were retried or fell back to a full index (RepoIndexer.incrementalPush).
THEOREM HeadIsFollowed == Spec => []IndexIsHead
<1> DEFINE Inv == Shape /\ FullInv /\ DropInv /\ PathInv /\ OrderInv /\ Main
<1>1. Init => Inv
  BY ShapeInit, FullInit, DropInit, PathInit, MainInit
<1>2. Inv /\ [Next]_vars => Inv'
  BY ShapeNext, FullNext, DropNext, PathNext, OrderNext, MainNext
<1>3. Inv => IndexIsHead
  BY HeadIsIndexed
<1>4. QED
  BY <1>1, <1>2, <1>3, PTL DEF Spec

=============================================================================
