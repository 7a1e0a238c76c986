----------------------------- MODULE ServiceProofs -----------------------------
(***************************************************************************)
(* Theorems about Service, for any users, installations, repositories,     *)
(* deliveries and handlers, and any number of requests, throws and crashes. *)
(***************************************************************************)
EXTENDS Service, TLAPS

-----------------------------------------------------------------------------
(* The types, and what a handler, a job, a sign-in and a request to erase  *)
(* know at each of their steps.                                            *)

Stages == {"stored", "source", "enqueue", "record", "release"}
KindOf(name) == CASE name \in {"created", "added"} -> "install"
                  [] name \in {"unsuspend", "rerequested"} -> "full"
                  [] name \in {"deleted", "removed", "branch-deleted"} -> "delete"
                  [] name = "push" -> "push"
                  [] name = "opened" -> "pr"
                  [] name = "closed" -> "closePr"
                  [] OTHER -> None

EventType == [name : Events, installation : Installations, repos : SUBSET Repos]
JobType == [kind : JobKinds, repo : Repos]
HookType == [pc : Stages \cup {"idle", "reserve"}, delivery : Deliveries \cup {None},
             jobs : SUBSET JobType, marks : SUBSET JobType]
RowType == [status : {None} \cup Statuses, sha : BOOLEAN]
PendingType == [kind : JobKinds, from : Deliveries \cup Users]
WorkType == [pc : {"idle", "index", "save", "drop", "done"}, kind : JobKinds \cup {None},
             from : Deliveries \cup Users \cup {None}]
MarkType == {NoMark} \cup [repo : Repos, status : Statuses, insert : BOOLEAN]
CollType == Repos \X {"default", "pr"}
LoginType == [pc : {"idle", "user", "link"},
              found : SUBSET (Installations \X {"active", "suspended"})]
RequestType == [kind : {"idle", "token", "repository", "installation", "enqueue"},
                repo : Repos \cup {None}]
Away == {"idle", "list", "next", "tokens", "user", "ok", "error"}
Present == {"count", "list repositories", "repositories", "list collections", "collections",
            "manifest", "installation"}
EraseType == [pc : Away \cup Present, todo : SUBSET Installations, at : Installations \cup {None},
              repos : SUBSET Repos, repo : Repos \cup {None}, colls : SUBSET CollType,
              coll : CollType \cup {None}]

GithubTypes ==
  /\ installed \in [Installations -> {"active", "suspended", "absent"}] /\ selected \subseteq Repos
  /\ event \in [Deliveries -> EventType \cup {NoEvent}] /\ sent \subseteq Deliveries

\* A handler works on a delivery that reports something, on jobs of the kind it calls for.
GoodHook(x, reported) ==
  /\ x \in HookType
  /\ x.pc # "idle" => x.delivery \in Deliveries /\ reported[x.delivery] \in EventType
  /\ x.pc \in Stages => \A j \in x.jobs \cup x.marks : j.kind = KindOf(reported[x.delivery].name)
  /\ x.pc \in {"reserve", "stored", "source"} => x.marks = {}
  /\ x.pc \in {"stored", "source"} =>
       /\ JobsOf(reported[x.delivery]) = {}
       /\ reported[x.delivery].name \in {"deleted", "unsuspend"}
  /\ x.pc = "source" => reported[x.delivery].name = "unsuspend"

HookTypes ==
  /\ \A h \in Handlers : GoodHook(hook[h], event)
  /\ hook \in [Handlers -> HookType] /\ deliveries \cup lost \subseteq Deliveries

PeopleTypes ==
  /\ users \cup sessions \cup tokens \subseteq Users /\ links \subseteq Users \X Installations
  /\ login \in [Users -> LoginType]

TableTypes ==
  /\ installations \in [Installations -> {None, "active", "suspended", "deleted"}]
  /\ repositories \in [Repos -> RowType]

\* A job is of the kind its delivery calls for; a user asks for a full index.
GoodJob(j, reported) ==
  /\ j.kind \in JobKinds /\ j.from \in Deliveries \cup Users
  /\ j.from \in Users => j.kind = "full"
  /\ j.from \in Deliveries => /\ reported[j.from] \in EventType
                              /\ j.kind = KindOf(reported[j.from].name)

Setting == {"install", "full", "push", "delete"}

GoodWork(r, x, m, reported) ==
  /\ x.pc = "idle" => x = Resting /\ m = NoMark
  /\ x.pc # "idle" => GoodJob(x, reported)
  /\ x.pc = "drop" => x.kind \in {"delete", "closePr"}
  /\ x.pc \in {"index", "save"} => x.kind \notin {"delete", "closePr"}
  /\ x.pc = "done" => x.kind \in Setting
  /\ m # NoMark => m.repo = r /\ x.kind \in Setting

QueueTypes ==
  /\ jobs \in [Repos -> Seq(PendingType)] /\ work \in [Repos -> WorkType]
  /\ mark \in [Handlers \cup Repos -> MarkType]
  /\ \A r \in Repos : GoodWork(r, work[r], mark[r], event)
  /\ \A r \in Repos : \A n \in DOMAIN jobs[r] : GoodJob(jobs[r][n], event)
  /\ \A h \in Handlers : mark[h] # NoMark =>
       hook[h].pc = "record" /\ KindOf(EventOf(h).name) \in {"full", "push"}

IndexTypes == collections \cup manifests \subseteq CollType

GoodRequest(x) == x \in RequestType /\ (x.kind \notin {"idle", "token"} => x.repo \in Repos)

GoodErase(x, swept) ==
  /\ x \in EraseType
  /\ x.pc \in Present <=> x.at # None
  /\ x.pc \in {"list collections", "collections", "manifest"} <=> x.repo # None
  /\ x.repo # None => x.repo \in swept
  /\ x.pc = "manifest" => x.coll \in CollType /\ x.coll[1] = x.repo
  /\ x.pc \in {"collections", "manifest"} => \A c \in x.colls : c[1] = x.repo

DashTypes ==
  /\ request \in [Users -> RequestType] /\ erase \in [Users -> EraseType]
  /\ \A u \in Users : GoodRequest(request[u]) /\ GoodErase(erase[u], astray)

HistoryTypes ==
  /\ log \in [Deliveries -> [Repos -> Nat]]
  /\ astray \subseteq Repos /\ touched \subseteq Users \cup Installations

Shape == GithubTypes /\ HookTypes /\ PeopleTypes /\ TableTypes /\ QueueTypes /\ IndexTypes
         /\ DashTypes /\ HistoryTypes

-----------------------------------------------------------------------------
Holds(h, d) == hook[h].pc \in Stages /\ hook[h].delivery = d

\* A reserved delivery has one handler, or its jobs were enqueued, or it is lost.
HolderInv ==
  /\ \A d \in deliveries : event[d] \in EventType
  /\ \A h \in Handlers : hook[h].pc \in Stages => hook[h].delivery \in deliveries
  /\ \A d \in Deliveries : \A g, h \in Handlers : Holds(g, d) /\ Holds(h, d) => g = h
  /\ \A d \in deliveries \ lost : (\A h \in Handlers : ~Holds(h, d)) =>
       \A j \in JobsOf(event[d]) : log[d][j.repo] > 0
  /\ \A h \in Handlers : hook[h].pc \in {"enqueue", "record"} =>
       \A j \in JobsOf(EventOf(h)) : \/ hook[h].pc = "enqueue" /\ j \in hook[h].jobs
                                     \/ log[hook[h].delivery][j.repo] > 0

\* A delivery no call failed for is enqueued at most once for a repository.
OnceInv ==
  \A d \in Deliveries \ failed :
    /\ \A r \in Repos : log[d][r] <= 1
    /\ d \notin deliveries => \A r \in Repos : log[d][r] = 0
    /\ \A h \in Handlers : Holds(h, d) =>
         /\ hook[h].pc \in {"stored", "source"} => \A r \in Repos : log[d][r] = 0
         /\ hook[h].pc = "enqueue" => \A j \in hook[h].jobs : log[d][j.repo] = 0

-----------------------------------------------------------------------------
DefaultOf(r) == <<r, "default">>
Fits(r, status) ==
  /\ status \in {"ready", "failed", "deleted"}
  /\ status = "ready" => DefaultOf(r) \in collections /\ DefaultOf(r) \in manifests
  /\ status = "deleted" => DefaultOf(r) \notin collections /\ DefaultOf(r) \notin manifests
Final(r) == repositories[r] = NoRow \/ Fits(r, repositories[r].status)
Awaited(r) == \E n \in DOMAIN jobs[r] : jobs[r][n].kind \in Setting
Working(r) == /\ work[r].pc # "idle" /\ work[r].kind \in Setting
              /\ ~(work[r].pc = "done" /\ mark[r] = NoMark)

\* The row is what the last job made it, or a job that will set it waits or runs.
SettleOf(r) ==
  /\ work[r].pc = "save" /\ work[r].kind \in Setting => DefaultOf(r) \in collections
  /\ work[r].pc = "done" /\ mark[r] # NoMark => Fits(r, mark[r].status)
  /\ Awaited(r) \/ Working(r) \/ Final(r)

SettleInv == \A r \in Repos \ astray : SettleOf(r)

-----------------------------------------------------------------------------
\* What is gone of a user, from step to step.
UserOk(u) ==
  /\ erase[u].pc \in {"tokens", "user", "ok"} => u \notin sessions
  /\ erase[u].pc \in {"user", "ok"} => u \notin tokens
  /\ erase[u].pc = "ok" => u \notin users /\ \A l \in links : l[1] # u

UserInv == \A u \in Users \ touched : UserOk(u)

Idle(r) == jobs[r] = <<>> /\ work[r] = Resting
Bare(r) == ListedFor(r) \cap (collections \cup manifests) = {}
Known(r) == repositories[r] # NoRow \/ (Idle(r) /\ Bare(r))

\* What is left of a repository is known to a request that erases it: it is listed
\* and comes later, or its collections are listed, or nothing is left.
Left(x, r) ==
  \/ r \in x.repos
  \/ Idle(r) /\ Bare(r)
  \/ x.pc = "list collections" /\ r = x.repo /\ Idle(r)
  \/ /\ x.pc \in {"collections", "manifest"} /\ r = x.repo /\ Idle(r)
     /\ DefaultOf(r) \in collections => DefaultOf(r) \in x.colls
     /\ \A c \in manifests : c[1] = r => c \in x.colls \/ (x.pc = "manifest" /\ c = x.coll)

Progress(x) ==
  /\ x.pc \in {"repositories", "list collections", "collections", "manifest"} =>
       \A r \in Of(x.at) : Left(x, r)
  /\ x.pc = "installation" =>
       \A r \in Of(x.at) : Idle(r) /\ Bare(r) /\ repositories[r] = NoRow

\* An installation that nothing happens to has a user, or is being erased, or is gone.
InstallationOk(i) ==
  /\ \A r \in Of(i) : Known(r)
  /\ \A u \in Users : erase[u].at = i => Progress(erase[u])
  /\ \/ \E l \in links : l[2] = i
     \/ \E u \in Users : erase[u].at = i
     \/ installations[i] = None /\ \A r \in Of(i) : repositories[r] = NoRow

InstallationInv == \A i \in Installations \ (touched \cup failed) : InstallationOk(i)

-----------------------------------------------------------------------------
(* Who takes a step, and what such a step leaves alone.                    *)

Reported == \E name \in EventNames, i \in Installations, repos \in SUBSET Repos :
              Report(name, i, repos)
HandlerStep(h) == Handle(h) \/ HookThrows(h) \/ ReleaseThrows(h)
WorkStep(r) == Work(r) \/ WorkThrows(r)
UserStep(u) == Ask(u) \/ SignIn(u) \/ Serve(u)
EraseStep(u) == Erase(u) \/ EraseThrows(u)

LEMMA Constant ==
  /\ InstallationOf \in [Repos -> Installations] /\ EventNames \subseteq Events
  /\ MaxActs \in Nat /\ MaxMishaps \in Nat
  /\ Users \cap Installations = {} /\ Users \cap Deliveries = {}
  /\ Installations \cap Deliveries = {} /\ Handlers \cap Repos = {}
  /\ None \notin Users /\ None \notin Installations /\ None \notin Repos
  /\ None \notin Deliveries /\ None \notin Statuses
  BY ServiceAssumption DEF ServiceAssumption

LEMMA ReportIs ==
  ASSUME NEW name, NEW i, NEW repos, Report(name, i, repos)
  PROVE  /\ name \in EventNames
         /\ UNCHANGED <<sent, hook, deliveries, users, sessions, tokens, links, installations,
                        repositories, jobs, work, mark, collections, manifests, login, request,
                        erase, mishaps, log, failed, lost, touched, astray>>
  BY DEF Report, tables, people, queue, index, dash, history

\* What GitHub does is reported, or a delivery is sent.
LEMMA ChangeIs ==
  ASSUME Change, selected \subseteq Repos
  PROVE  Reported \/ \E d \in Deliveries : Deliver(d)
<1>1. ASSUME NEW i \in Installations, InstallApp(i) \/ SuspendApp(i) \/ UnsuspendApp(i)
      PROVE Reported
  <2>1. Of(i) \subseteq Repos
    BY DEF Of
  <2>2. \E name, repos : repos \subseteq Repos /\ Report(name, i, repos)
    BY <1>1, <2>1 DEF InstallApp, SuspendApp, UnsuspendApp
  <2>3. QED
    BY <2>2, ReportIs DEF Reported
<1>2. ASSUME NEW i \in Installations, UninstallApp(i)
      PROVE Reported
  <2>1. PICK listed \in {{}, selected \cap Of(i)} : Report("deleted", i, listed)
    BY <1>2 DEF UninstallApp
  <2>2. listed \subseteq Repos
    BY DEF Of
  <2>3. QED
    BY <2>1, <2>2, ReportIs DEF Reported
<1>3. ASSUME NEW r \in Repos, ChooseRepository(r) \/ ReportChange(r)
      PROVE Reported
  <2>1. \E name : Report(name, InstallationOf[r], {r})
    BY <1>3 DEF ChooseRepository, ReportChange
  <2>2. InstallationOf[r] \in Installations /\ {r} \subseteq Repos
    BY Constant
  <2>3. QED
    BY <2>1, <2>2, ReportIs DEF Reported
<1>4. QED
  BY <1>1, <1>2, <1>3 DEF Change

LEMMA ReportedIs ==
  ASSUME Reported
  PROVE  UNCHANGED <<sent, hook, deliveries, users, sessions, tokens, links, installations,
                     repositories, jobs, work, mark, collections, manifests, login, request,
                     erase, mishaps, log, failed, lost, touched, astray>>
  BY ReportIs DEF Reported

LEMMA HandlerFrame ==
  ASSUME NEW h \in Handlers, HandlerStep(h)
  PROVE  UNCHANGED <<installed, selected, event, sent, users, sessions, tokens, links, work,
                     collections, manifests, login, request, erase>>
<1>1. CASE Reserve(h) \/ ReadStored(h) \/ ReadSource(h) \/ EnqueueNext(h)
  BY <1>1 DEF Reserve, ReadStored, ReadSource, EnqueueNext, github, tables, people, queue,
              index, dash
<1>2. CASE RecordInstallation(h) \/ Accept(h) \/ Release(h)
  BY <1>2 DEF RecordInstallation, Accept, Release, github, tables, people, queue, index, dash
<1>3. CASE RecordNext(h)
  BY <1>3 DEF RecordNext, github, people, queue, index, dash
<1>4. CASE HookThrows(h) \/ ReleaseThrows(h)
  BY <1>4 DEF HookThrows, ReleaseThrows, github, tables, people, queue, index, dash
<1>5. QED
  BY <1>1, <1>2, <1>3, <1>4 DEF HandlerStep, Handle

LEMMA WorkFrame ==
  ASSUME NEW r \in Repos, WorkStep(r)
  PROVE  UNCHANGED <<installed, selected, event, sent, hook, deliveries, users, sessions, tokens,
                     links, installations, repositories, login, request, erase, log, failed,
                     lost, touched>>
<1>1. CASE Claim(r) \/ IndexCollection(r)
  BY <1>1 DEF Claim, IndexCollection, github, tables, people, dash, history
<1>2. CASE SaveManifest(r) \/ DropCollections(r)
  BY <1>2 DEF SaveManifest, DropCollections, github, tables, people, dash, history
<1>3. CASE Complete(r) \/ WorkThrows(r)
  BY <1>3 DEF Complete, WorkThrows, github, tables, people, dash, history
<1>4. QED
  BY <1>1, <1>2, <1>3 DEF WorkStep, Work

LEMMA MarkFrame ==
  ASSUME NEW a \in Handlers \cup Repos, MarkStep(a)
  PROVE  UNCHANGED <<installed, selected, event, sent, hook, deliveries, users, sessions, tokens,
                     links, installations, jobs, work, collections, manifests, login, request,
                     erase, log, failed, lost>>
  BY DEF MarkStep, github, people, queue, index, dash

LEMMA UserFrame ==
  ASSUME NEW u \in Users, UserStep(u)
  PROVE  UNCHANGED <<installed, selected, event, sent, hook, deliveries, repositories, work, mark,
                     collections, manifests, log, failed, lost, astray>>
<1>1. CASE Ask(u)
  BY <1>1 DEF Ask, StartLogin, Logout, StartRequest, StartErase, github, tables, people, queue,
              index, dash, history
<1>2. CASE SignIn(u)
  BY <1>2 DEF SignIn, SaveUser, LinkNext, SaveSession, github, queue, index
<1>3. CASE Serve(u)
  BY <1>3 DEF Serve, CreateToken, CheckRepository, CheckInstallation, EnqueueReindex, github,
              tables, people, queue, index, history
<1>4. QED
  BY <1>1, <1>2, <1>3 DEF UserStep

LEMMA EraseFrame ==
  ASSUME NEW u \in Users, EraseStep(u)
  PROVE  UNCHANGED <<installed, selected, event, sent, hook, deliveries, work, mark, login,
                     request, log, lost>>
<1>1. CASE ListInstallations(u) \/ Unlink(u) \/ CountUsers(u) \/ ListRepositories(u)
  BY <1>1 DEF ListInstallations, Unlink, CountUsers, ListRepositories, github, tables, people,
              queue, index, history
<1>2. CASE DeleteJobs(u) \/ ListCollections(u) \/ DeleteCollection(u) \/ DeleteManifest(u)
  BY <1>2 DEF DeleteJobs, ListCollections, DeleteCollection, DeleteManifest, github, tables,
              people, queue, index, history
<1>3. CASE NextRepository(u) \/ DeleteRepositories(u) \/ DeleteInstallation(u)
  BY <1>3 DEF NextRepository, DeleteRepositories, DeleteInstallation, github, tables, people,
              queue, index, history
<1>4. CASE DeleteSessions(u) \/ DeleteTokens(u) \/ DeleteUser(u) \/ EraseThrows(u)
  BY <1>4 DEF DeleteSessions, DeleteTokens, DeleteUser, EraseThrows, github, tables, people,
              queue, index, history
<1>5. QED
  BY <1>1, <1>2, <1>3, <1>4 DEF EraseStep, Erase

LEMMA LoginThrowsIs ==
  ASSUME NEW u \in Users, LoginThrows(u)
  PROVE  /\ login' = [login EXCEPT ![u] = NoLogin]
         /\ UNCHANGED <<installed, selected, event, sent, hook, deliveries, users, sessions, tokens,
                        links, installations, repositories, jobs, work, mark, collections,
                        manifests, request, erase, log, failed, lost, touched, astray>>
  BY DEF LoginThrows, github, tables, people, queue, index, history

LEMMA StutterIs ==
  ASSUME UNCHANGED vars
  PROVE  UNCHANGED <<installed, selected, event, sent, hook, deliveries, users, sessions, tokens,
                     links, installations, repositories, jobs, work, mark, collections,
                     manifests, login, request, erase, acts, mishaps, log, failed, lost, touched,
                     astray>>
  BY DEF vars, github, tables, people, queue, index, dash, counts, history

LEMMA CrashIs ==
  ASSUME Crash
  PROVE  UNCHANGED <<installed, selected, event, sent, deliveries, users, sessions, tokens, links,
                     installations, repositories, collections, manifests, log, touched, astray>>
  BY DEF Crash, github, tables, people, index

LEMMA Actors ==
  ASSUME Next, selected \subseteq Repos
  PROVE  \/ Reported \/ Crash
         \/ \E d \in Deliveries : Deliver(d)
         \/ \E h \in Handlers : HandlerStep(h)
         \/ \E r \in Repos : WorkStep(r)
         \/ \E a \in Handlers \cup Repos : MarkStep(a)
         \/ \E u \in Users : UserStep(u) \/ EraseStep(u) \/ LoginThrows(u)
  BY ChangeIs DEF Next, Throw, HandlerStep, WorkStep, UserStep, EraseStep

-----------------------------------------------------------------------------
(* The types.                                                              *)

LEMMA JobsOfIs ==
  ASSUME NEW e \in EventType, NEW j \in JobsOf(e)
  PROVE  j \in JobType /\ j.kind = KindOf(e.name) /\ j = Job(j.kind, j.repo) /\ j.repo \in e.repos
<1>1. e.repos \subseteq Repos
  BY DEF EventType
<1>2. ASSUME NEW names, NEW k \in JobKinds, j \in On(e, names, k)
      PROVE  /\ e.name \in names /\ j.kind = k
             /\ j \in JobType /\ j = Job(j.kind, j.repo) /\ j.repo \in e.repos
  <2>1. e.name \in names /\ \E r \in e.repos : j = Job(k, r)
    BY <1>2 DEF On
  <2>2. QED
    BY <2>1, <1>1 DEF Job, JobType
<1>3. \/ j \in On(e, {"created"}, "install") \/ j \in On(e, {"unsuspend"}, "full")
      \/ j \in On(e, {"deleted"}, "delete") \/ j \in On(e, {"added"}, "install")
      \/ j \in On(e, {"removed"}, "delete") \/ j \in On(e, {"push"}, "push")
      \/ j \in On(e, {"branch-deleted"}, "delete") \/ j \in On(e, {"opened"}, "pr")
      \/ j \in On(e, {"closed"}, "closePr") \/ j \in On(e, {"rerequested"}, "full")
  BY DEF JobsOf, InstallationJobs, SelectionJobs, PushJobs, PullRequestJobs, CheckRunJobs
<1>4. {"install", "full", "push", "delete", "pr", "closePr"} = JobKinds
  BY DEF JobKinds
<1>5. \/ e.name \in {"created", "added"} /\ j.kind = "install"
      \/ e.name \in {"unsuspend", "rerequested"} /\ j.kind = "full"
      \/ e.name \in {"deleted", "removed", "branch-deleted"} /\ j.kind = "delete"
      \/ e.name = "push" /\ j.kind = "push"
      \/ e.name = "opened" /\ j.kind = "pr"
      \/ e.name = "closed" /\ j.kind = "closePr"
  BY <1>2, <1>3, <1>4
<1>6. j.kind = KindOf(e.name)
  BY <1>5 DEF KindOf
<1>7. QED
  BY <1>2, <1>3, <1>4, <1>6

\* What a delivery reports never changes.
Stays ==
  /\ event \in [Deliveries -> EventType \cup {NoEvent}]
  /\ event' \in [Deliveries -> EventType \cup {NoEvent}]
  /\ \A d \in Deliveries : event[d] \in EventType => event'[d] = event[d]

LEMMA NoEventIs == NoEvent \notin EventType
  BY Constant DEF NoEvent, EventType

LEMMA EventStays == ASSUME GithubTypes, [Next]_vars  PROVE Stays
<1>1. CASE Reported
  <2>1. PICK name \in EventNames, i \in Installations, repos \in SUBSET Repos :
          Report(name, i, repos)
    BY <1>1 DEF Reported
  <2> DEFINE d == CHOOSE d \in Deliveries : event[d] = NoEvent
             e == [name |-> name, installation |-> i, repos |-> repos]
  <2>2. d \in Deliveries /\ event[d] = NoEvent
    BY <2>1 DEF Report
  <2>3. event' = [event EXCEPT ![d] = e]
    BY <2>1 DEF Report
  <2>4. e \in EventType
    BY Constant DEF EventType
  <2> HIDE DEF d, e
  <2>5. QED
    BY <2>2, <2>3, <2>4, NoEventIs DEF Stays, GithubTypes
<1>2. CASE UNCHANGED event
  BY <1>2 DEF Stays, GithubTypes
<1>3. QED
  BY <1>1, <1>2, Actors, HandlerFrame, WorkFrame, MarkFrame, UserFrame, EraseFrame, CrashIs,
     LoginThrowsIs, StutterIs DEF GithubTypes, Deliver

LEMMA GithubShape == ASSUME GithubTypes, [Next]_vars  PROVE GithubTypes'
<1>1. event' \in [Deliveries -> EventType \cup {NoEvent}]
  BY EventStays DEF Stays
<1>2. CASE Change
  <2>1. ASSUME NEW i \in Installations,
               InstallApp(i) \/ SuspendApp(i) \/ UnsuspendApp(i) \/ UninstallApp(i)
        PROVE  /\ installed' \in [Installations -> {"active", "suspended", "absent"}]
               /\ selected' \subseteq Repos /\ sent' \subseteq Deliveries
    <3>1. Of(i) \subseteq Repos
      BY DEF Of
    <3>2. CASE InstallApp(i)
      BY <3>1, <3>2, ReportIs DEF InstallApp, GithubTypes
    <3>3. CASE SuspendApp(i)
      BY <3>3, ReportIs DEF SuspendApp, GithubTypes
    <3>4. CASE UnsuspendApp(i)
      BY <3>4, ReportIs DEF UnsuspendApp, GithubTypes
    <3>5. CASE UninstallApp(i)
      BY <3>5, ReportIs DEF UninstallApp, GithubTypes
    <3>6. QED
      BY <2>1, <3>2, <3>3, <3>4, <3>5
  <2>2. ASSUME NEW r \in Repos, ChooseRepository(r) \/ ReportChange(r)
        PROVE  /\ installed' \in [Installations -> {"active", "suspended", "absent"}]
               /\ selected' \subseteq Repos /\ sent' \subseteq Deliveries
    <3>1. CASE ChooseRepository(r)
      BY <3>1, ReportIs DEF ChooseRepository, GithubTypes
    <3>2. CASE ReportChange(r)
      BY <3>2, ReportIs DEF ReportChange, GithubTypes
    <3>3. QED
      BY <2>2, <3>1, <3>2
  <2>3. ASSUME NEW d \in Deliveries, Deliver(d)
        PROVE  /\ installed' \in [Installations -> {"active", "suspended", "absent"}]
               /\ selected' \subseteq Repos /\ sent' \subseteq Deliveries
    <3>1. sent' = sent \/ sent' = sent \cup {d}
      BY <2>3 DEF Deliver
    <3>2. QED
      BY <2>3, <3>1 DEF Deliver, GithubTypes
  <2>4. QED
    BY <1>1, <1>2, <2>1, <2>2, <2>3 DEF Change, GithubTypes
<1>3. CASE UNCHANGED <<installed, selected, sent>>
  BY <1>1, <1>3 DEF GithubTypes
<1>4. QED
  BY <1>2, <1>3, HandlerFrame, WorkFrame, MarkFrame, UserFrame, EraseFrame, CrashIs,
     LoginThrowsIs, StutterIs
     DEF Next, Throw, HandlerStep, WorkStep, UserStep, EraseStep

LEMMA HookKept == ASSUME Stays, NEW x, GoodHook(x, event)  PROVE GoodHook(x, event')
  BY DEF Stays, GoodHook, Stages

LEMMA JobKept == ASSUME Stays, NEW j, GoodJob(j, event)  PROVE GoodJob(j, event')
  BY DEF Stays, GoodJob

LEMMA NoHookIsGood == ASSUME NEW reported  PROVE GoodHook(NoHook, reported) /\ NoHook \in HookType
  BY DEF GoodHook, NoHook, HookType, Stages

\* A call of a handler changes that handler only.
HookSet(h) ==
  /\ hook' \in [Handlers -> HookType] /\ GoodHook(hook'[h], event')
  /\ \A g \in Handlers \ {h} : hook'[g] = hook[g]

LEMMA DeliverHook ==
  ASSUME GithubTypes, HookTypes, NEW d \in Deliveries, Deliver(d)
  PROVE  \E h \in Handlers : /\ hook[h] = NoHook /\ HookSet(h)
                             /\ hook'[h].pc = "reserve" /\ hook'[h].delivery = d
<1> DEFINE h == CHOOSE h \in Handlers : hook[h] = NoHook
           y == [NoHook EXCEPT !.pc = "reserve", !.delivery = d]
<1>1. h \in Handlers /\ hook[h] = NoHook
  BY DEF Deliver
<1>2. hook' = [hook EXCEPT ![h] = y] /\ event' = event
  BY DEF Deliver
<1>3. y.pc = "reserve" /\ y.delivery = d /\ y.marks = {} /\ y \in HookType
  BY NoHookIsGood DEF HookType, NoHook
<1>4. event[d] \in EventType
  BY DEF Deliver, GithubTypes
<1> HIDE DEF h, y
<1>5. GoodHook(y, event')
  BY <1>2, <1>3, <1>4 DEF GoodHook, Stages
<1>6. hook \in [Handlers -> HookType]
  BY DEF HookTypes
<1>7. hook'[h] = y /\ \A g \in Handlers \ {h} : hook'[g] = hook[g]
  BY <1>1, <1>2, <1>6
<1>8. HookSet(h)
  BY <1>1, <1>2, <1>3, <1>5, <1>6, <1>7 DEF HookSet
<1>9. QED
  BY <1>1, <1>3, <1>7, <1>8

LEMMA ReserveHook ==
  ASSUME GithubTypes, HookTypes, NEW h \in Handlers, Reserve(h)
  PROVE  LET d == hook[h].delivery
             found == JobsOf(event[d])
         IN /\ d \in Deliveries /\ HookSet(h) /\ hook[h].pc = "reserve"
            /\ \/ d \in deliveries /\ deliveries' = deliveries /\ hook'[h] = NoHook
               \/ /\ d \notin deliveries /\ deliveries' = deliveries \cup {d}
                  /\ hook'[h].delivery = d /\ hook'[h].jobs = found
                  /\ \/ hook'[h].pc = "enqueue"
                     \/ hook'[h].pc = "stored" /\ found = {}
<1> DEFINE d == hook[h].delivery
           found == JobsOf(event[d])
           x == hook[h]
<1>1. /\ x \in HookType /\ x.pc = "reserve" /\ d \in Deliveries /\ event[d] \in EventType
      /\ hook \in [Handlers -> HookType] /\ x.marks = {}
  BY DEF Reserve, At, HookTypes, GoodHook, HookType
<1>2. event' = event
  BY DEF Reserve, github
<1>3. CASE d \in deliveries
  <2>1. hook' = [hook EXCEPT ![h] = NoHook] /\ deliveries' = deliveries
    BY <1>3 DEF Reserve
  <2>2. GoodHook(NoHook, event')
    BY NoHookIsGood
  <2>3. HookSet(h) /\ hook'[h] = NoHook
    BY <2>1, <2>2, <1>1, NoHookIsGood DEF HookSet
  <2>4. QED
    BY <1>1, <1>3, <2>1, <2>3
<1>4. CASE d \notin deliveries
  <2> DEFINE n == IF found = {} /\ event[d].name \in {"deleted", "unsuspend"}
                  THEN "stored" ELSE "enqueue"
             y == [x EXCEPT !.pc = n, !.jobs = found]
  <2>1. hook' = [hook EXCEPT ![h].pc = n, ![h].jobs = found] /\ deliveries' = deliveries \cup {d}
    BY <1>4 DEF Reserve, Reserved
  <2>2. \A j \in found : j \in JobType /\ j.kind = KindOf(event[d].name)
    BY <1>1, JobsOfIs
  <2>3. n = "enqueue" \/ (n = "stored" /\ found = {} /\ event[d].name \in {"deleted", "unsuspend"})
    OBVIOUS
  <2> HIDE DEF n, found
  <2>4. hook' = [hook EXCEPT ![h] = y]
    BY <2>1, <1>1
  <2>5. /\ y \in HookType /\ y.pc = n /\ y.jobs = found /\ y.delivery = d /\ y.marks = x.marks
    BY <2>2, <2>3, <1>1 DEF HookType, Stages
  <2>6. GoodHook(y, event')
    <3> HIDE DEF y, x
    <3>1. CASE n = "enqueue"
      BY <3>1, <2>2, <2>5, <1>1, <1>2 DEF GoodHook, Stages
    <3>2. CASE n = "stored"
      BY <3>2, <2>2, <2>3, <2>5, <1>1, <1>2 DEF GoodHook, Stages, found
    <3>3. QED
      BY <3>1, <3>2, <2>3
  <2>7. hook'[h] = y /\ HookSet(h)
    <3> HIDE DEF y
    <3>1. QED
      BY <2>4, <2>5, <2>6, <1>1 DEF HookSet
  <2>8. QED
    BY <1>1, <1>4, <2>1, <2>3, <2>5, <2>7 DEF found
<1>5. QED
  BY <1>3, <1>4

LEMMA StoredHook ==
  ASSUME GithubTypes, HookTypes, NEW h \in Handlers, ReadStored(h) \/ ReadSource(h)
  PROVE  LET d == hook[h].delivery
         IN /\ HookSet(h) /\ hook[h].pc \in {"stored", "source"} /\ hook'[h].delivery = d
            /\ hook'[h].pc \in {"source", "enqueue"} /\ JobsOf(event[d]) = {}
<1> DEFINE x == hook[h]
           d == x.delivery
           e == event[d]
<1>1. /\ GoodHook(x, event) /\ x \in HookType /\ hook \in [Handlers -> HookType]
      /\ event' = event /\ EventOf(h) = e
  BY HandlerFrame DEF HookTypes, EventOf, HandlerStep, Handle
<1>2. CASE ReadStored(h)
  <2> DEFINE gone == e.name = "deleted"
             rows == {r \in RowsOf(e.installation) : gone \/ repositories[r].status # "deleted"}
             k == IF gone THEN "delete" ELSE "full"
             js == {Job(k, r) : r \in rows}
             n == IF gone THEN "enqueue" ELSE "source"
             y == [x EXCEPT !.pc = n, !.jobs = js]
  <2>1. hook' = [hook EXCEPT ![h].pc = n, ![h].jobs = js] /\ x.pc = "stored"
    BY <1>1, <1>2 DEF ReadStored, At
  <2>2. /\ e \in EventType /\ JobsOf(e) = {} /\ e.name \in {"deleted", "unsuspend"}
        /\ x.marks = {} /\ d \in Deliveries
    BY <1>1, <2>1 DEF GoodHook, Stages
  <2>3. k = KindOf(e.name) /\ k \in JobKinds
    BY <2>2 DEF KindOf, JobKinds
  <2>4. rows \subseteq Repos
    BY DEF RowsOf, Of
  <2>5. js \subseteq JobType /\ \A j \in js : j.kind = k
    BY <2>3, <2>4 DEF Job, JobType
  <2>6. n \in {"enqueue", "source"} /\ (n = "source" => e.name = "unsuspend")
    BY <2>2
  <2> HIDE DEF k, js, n, rows
  <2>7. hook' = [hook EXCEPT ![h] = y]
    BY <2>1, <1>1
  <2>8. /\ y \in HookType /\ y.pc = n /\ y.jobs = js /\ y.delivery = d /\ y.marks = {}
    BY <2>2, <2>5, <2>6, <1>1 DEF HookType, Stages
  <2> HIDE DEF y, x
  <2>9. GoodHook(y, event)
    BY <2>2, <2>3, <2>5, <2>6, <2>8 DEF GoodHook, Stages
  <2>10. hook'[h] = y /\ HookSet(h)
    BY <2>7, <2>8, <2>9, <1>1 DEF HookSet
  <2>11. QED
    BY <2>1, <2>2, <2>6, <2>8, <2>10 DEF x
<1>3. CASE ReadSource(h)
  <2> DEFINE new == {Job("full", r) : r \in selected \cap Of(e.installation)}
             y == [x EXCEPT !.pc = "enqueue", !.jobs = @ \cup new]
  <2>1. hook' = [hook EXCEPT ![h].pc = "enqueue", ![h].jobs = @ \cup new] /\ x.pc = "source"
    BY <1>1, <1>3 DEF ReadSource, At
  <2>2. /\ e \in EventType /\ JobsOf(e) = {} /\ e.name = "unsuspend"
        /\ x.marks = {} /\ d \in Deliveries /\ \A j \in x.jobs : j.kind = KindOf(e.name)
    BY <1>1, <2>1 DEF GoodHook, Stages
  <2>3. "full" = KindOf(e.name) /\ "full" \in JobKinds
    BY <2>2 DEF KindOf, JobKinds
  <2>4. selected \cap Of(e.installation) \subseteq Repos
    BY DEF Of
  <2>5. new \subseteq JobType /\ \A j \in new : j.kind = "full"
    BY <2>3, <2>4 DEF Job, JobType
  <2> HIDE DEF new
  <2>7. hook' = [hook EXCEPT ![h] = y]
    BY <2>1, <1>1
  <2>8. /\ y \in HookType /\ y.pc = "enqueue" /\ y.jobs = x.jobs \cup new
        /\ y.delivery = d /\ y.marks = {}
    BY <2>2, <2>5, <1>1 DEF HookType, Stages
  <2> HIDE DEF y, x
  <2>9. GoodHook(y, event)
    BY <2>2, <2>3, <2>5, <2>8 DEF GoodHook, Stages
  <2>10. hook'[h] = y /\ HookSet(h)
    BY <2>7, <2>8, <2>9, <1>1 DEF HookSet
  <2>11. QED
    BY <2>1, <2>2, <2>8, <2>10 DEF x
<1>4. QED
  BY <1>2, <1>3

\* A job is enqueued for the delivery that calls for it.
LEMMA EnqueueHook ==
  ASSUME GithubTypes, HookTypes, NEW h \in Handlers, EnqueueNext(h)
  PROVE  LET d == hook[h].delivery
         IN \E j \in hook[h].jobs :
              /\ HookSet(h) /\ hook[h].pc = "enqueue" /\ hook'[h].pc = "enqueue"
              /\ hook'[h].delivery = d /\ hook'[h].jobs = hook[h].jobs \ {j}
              /\ j.repo \in Repos /\ j.kind \in JobKinds /\ j.kind = KindOf(event[d].name)
              /\ \A k \in hook[h].jobs : k # j => k.repo # j.repo
              /\ jobs' = Enqueued(j.kind, j.repo, d)
              /\ log' = [log EXCEPT ![d][j.repo] = @ + 1]
              /\ touched' = touched \cup {InstallationOf[j.repo]}
<1> DEFINE x == hook[h]
           d == x.delivery
<1>1. /\ GoodHook(x, event) /\ x \in HookType /\ hook \in [Handlers -> HookType]
      /\ event' = event
  BY HandlerFrame DEF HookTypes, HandlerStep, Handle
<1>2. PICK j \in x.jobs :
        /\ jobs' = Enqueued(j.kind, j.repo, d)
        /\ hook' = [hook EXCEPT ![h].jobs = @ \ {j}, ![h].marks = @ \cup {j}]
        /\ log' = [log EXCEPT ![d][j.repo] = @ + 1]
        /\ touched' = touched \cup {InstallationOf[j.repo]}
  BY DEF EnqueueNext
<1> DEFINE y == [x EXCEPT !.jobs = @ \ {j}, !.marks = @ \cup {j}]
<1>3. x.pc = "enqueue"
  BY DEF EnqueueNext, At
<1>4. /\ x.jobs \subseteq JobType /\ x.marks \subseteq JobType /\ d \in Deliveries
      /\ event[d] \in EventType
      /\ \A k \in x.jobs \cup x.marks : k.kind = KindOf(event[d].name)
  BY <1>1, <1>3 DEF HookType, GoodHook, Stages
<1>5. /\ j.repo \in Repos /\ j.kind \in JobKinds /\ j.kind = KindOf(event[d].name)
      /\ \A k \in x.jobs : k # j => k.repo # j.repo
  BY <1>4 DEF JobType
<1>6. hook' = [hook EXCEPT ![h] = y]
  BY <1>1, <1>2
<1>7. /\ y \in HookType /\ y.pc = "enqueue" /\ y.jobs = x.jobs \ {j}
      /\ y.delivery = d /\ y.marks = x.marks \cup {j}
  BY <1>1, <1>3, <1>4 DEF HookType
<1> HIDE DEF x, y
<1>8. GoodHook(y, event)
  BY <1>3, <1>4, <1>7 DEF GoodHook, Stages
<1>9. hook'[h] = y /\ HookSet(h)
  BY <1>1, <1>6, <1>7, <1>8 DEF HookSet
<1>10. QED
  BY <1>2, <1>3, <1>5, <1>7, <1>9 DEF x

LEMMA RecordInstallationHook ==
  ASSUME GithubTypes, HookTypes, NEW h \in Handlers, RecordInstallation(h)
  PROVE  /\ HookSet(h) /\ hook[h].pc = "enqueue" /\ hook[h].jobs = {}
         /\ hook'[h].pc = "record" /\ hook'[h].delivery = hook[h].delivery
<1> DEFINE x == hook[h]
           y == [x EXCEPT !.pc = "record"]
<1>1. /\ GoodHook(x, event) /\ x \in HookType /\ hook \in [Handlers -> HookType]
      /\ event' = event
  BY HandlerFrame DEF HookTypes, HandlerStep, Handle
<1>2. hook' = [hook EXCEPT ![h] = y] /\ x.pc = "enqueue" /\ x.jobs = {}
  BY <1>1 DEF RecordInstallation, At
<1>3. /\ y \in HookType /\ y.pc = "record" /\ y.jobs = {}
      /\ y.delivery = x.delivery /\ y.marks = x.marks
  BY <1>1, <1>2 DEF HookType, Stages
<1> HIDE DEF x, y
<1>4. GoodHook(y, event)
  BY <1>1, <1>2, <1>3 DEF GoodHook, Stages
<1>5. hook'[h] = y /\ HookSet(h)
  BY <1>1, <1>2, <1>3, <1>4 DEF HookSet
<1>6. QED
  BY <1>2, <1>3, <1>5 DEF x

LEMMA RecordNextHook ==
  ASSUME GithubTypes, HookTypes, NEW h \in Handlers, RecordNext(h)
  PROVE  /\ HookSet(h) /\ hook[h].pc = "record"
         /\ hook'[h].pc = "record" /\ hook'[h].delivery = hook[h].delivery
<1> DEFINE x == hook[h]
<1>1. /\ GoodHook(x, event) /\ x \in HookType /\ hook \in [Handlers -> HookType]
      /\ event' = event
  BY HandlerFrame DEF HookTypes, HandlerStep, Handle
<1>2. PICK j \in x.marks : hook' = [hook EXCEPT ![h].marks = @ \ {j}]
  BY DEF RecordNext
<1> DEFINE y == [x EXCEPT !.marks = @ \ {j}]
<1>3. hook' = [hook EXCEPT ![h] = y] /\ x.pc = "record"
  BY <1>1, <1>2 DEF RecordNext, At
<1>4. /\ y \in HookType /\ y.pc = "record" /\ y.jobs = x.jobs
      /\ y.delivery = x.delivery /\ y.marks = x.marks \ {j}
  BY <1>1, <1>3 DEF HookType, Stages
<1> HIDE DEF x, y
<1>5. GoodHook(y, event)
  BY <1>1, <1>3, <1>4 DEF GoodHook, Stages
<1>6. hook'[h] = y /\ HookSet(h)
  BY <1>1, <1>3, <1>4, <1>5 DEF HookSet
<1>7. QED
  BY <1>3, <1>4, <1>6 DEF x

LEMMA HookThrowsHook ==
  ASSUME GithubTypes, HookTypes, NEW h \in Handlers, HookThrows(h)
  PROVE  /\ HookSet(h) /\ hook[h].pc \in Stages
         /\ hook'[h].pc = "release" /\ hook'[h].delivery = hook[h].delivery
<1> DEFINE x == hook[h]
           y == [x EXCEPT !.pc = "release", !.jobs = {}, !.marks = {}]
<1>1. /\ GoodHook(x, event) /\ x \in HookType /\ hook \in [Handlers -> HookType]
      /\ event' = event
  BY HandlerFrame DEF HookTypes, HandlerStep
<1>2. hook' = [hook EXCEPT ![h] = y] /\ x.pc \in Stages
  BY <1>1 DEF HookThrows, Stages
<1>3. /\ y \in HookType /\ y.pc = "release" /\ y.jobs = {}
      /\ y.delivery = x.delivery /\ y.marks = {}
  BY <1>1, <1>2 DEF HookType, Stages
<1> HIDE DEF x, y
<1>4. GoodHook(y, event)
  BY <1>1, <1>2, <1>3 DEF GoodHook, Stages
<1>5. hook'[h] = y /\ HookSet(h)
  BY <1>1, <1>2, <1>3, <1>4 DEF HookSet
<1>6. QED
  BY <1>2, <1>3, <1>5 DEF x

LEMMA DoneHook ==
  ASSUME GithubTypes, HookTypes, NEW h \in Handlers, Accept(h) \/ Release(h) \/ ReleaseThrows(h)
  PROVE  HookSet(h) /\ hook'[h] = NoHook /\ hook[h].pc \in {"record", "release"}
<1>1. hook \in [Handlers -> HookType] /\ event' = event
  BY HandlerFrame DEF HookTypes, HandlerStep, Handle
<1>2. hook' = [hook EXCEPT ![h] = NoHook] /\ hook[h].pc \in {"record", "release"}
  BY DEF Accept, Release, ReleaseThrows, At
<1>3. QED
  BY <1>1, <1>2, NoHookIsGood DEF HookSet

LEMMA HandlerHook ==
  ASSUME GithubTypes, HookTypes, NEW h \in Handlers, HandlerStep(h)
  PROVE  HookSet(h) /\ hook[h].pc # "idle"
<1>1. CASE Reserve(h)
  BY <1>1, ReserveHook
<1>2. CASE ReadStored(h) \/ ReadSource(h)
  BY <1>2, StoredHook
<1>3. CASE EnqueueNext(h)
  BY <1>3, EnqueueHook
<1>4. CASE RecordInstallation(h)
  BY <1>4, RecordInstallationHook
<1>5. CASE RecordNext(h)
  BY <1>5, RecordNextHook
<1>6. CASE Accept(h) \/ Release(h) \/ ReleaseThrows(h)
  BY <1>6, DoneHook
<1>7. CASE HookThrows(h)
  BY <1>7, HookThrowsHook DEF Stages
<1>8. QED
  BY <1>1, <1>2, <1>3, <1>4, <1>5, <1>6, <1>7 DEF HandlerStep, Handle

LEMMA HandlerLost ==
  ASSUME HookTypes, NEW h \in Handlers, HandlerStep(h)
  PROVE  /\ deliveries' \subseteq deliveries \cup {hook[h].delivery}
         /\ lost' \subseteq lost \cup {hook[h].delivery}
         /\ failed \subseteq failed'
<1>1. CASE Reserve(h) \/ ReadStored(h) \/ ReadSource(h)
  BY <1>1 DEF Reserve, Reserved, ReadStored, ReadSource, history
<1>2. CASE EnqueueNext(h) \/ RecordInstallation(h) \/ RecordNext(h) \/ Accept(h)
  BY <1>2 DEF EnqueueNext, RecordInstallation, RecordNext, Accept, history
<1>3. CASE Release(h) \/ HookThrows(h) \/ ReleaseThrows(h)
  BY <1>3 DEF Release, Released, HookThrows, ReleaseThrows, history
<1>4. QED
  BY <1>1, <1>2, <1>3 DEF HandlerStep, Handle

LEMMA HookShape == ASSUME GithubTypes, HookTypes, [Next]_vars  PROVE HookTypes'
<1> Stays
  BY EventStays
<1>1. ASSUME NEW h \in Handlers, HookSet(h),
             deliveries' \cup lost' \subseteq Deliveries
      PROVE HookTypes'
  <2>1. ASSUME NEW g \in Handlers  PROVE GoodHook(hook'[g], event')
    <3>1. CASE g = h
      BY <1>1, <3>1 DEF HookSet
    <3>2. CASE g # h
      BY <1>1, <3>2, HookKept DEF HookSet, HookTypes
    <3>3. QED
      BY <3>1, <3>2
  <2>2. QED
    BY <1>1, <2>1 DEF HookTypes, HookSet
<1>2. ASSUME NEW h \in Handlers, HandlerStep(h)  PROVE HookTypes'
  <2>1. HookSet(h) /\ hook[h].delivery \in Deliveries
    BY <1>2, HandlerHook DEF HookTypes, GoodHook
  <2>2. QED
    BY <1>1, <1>2, <2>1, HandlerLost DEF HookTypes
<1>3. ASSUME NEW d \in Deliveries, Deliver(d)  PROVE HookTypes'
  <2>1. deliveries' \cup lost' \subseteq Deliveries
    BY <1>3 DEF Deliver, history, HookTypes
  <2>2. QED
    BY <1>1, <1>3, <2>1, DeliverHook
<1>4. CASE Crash
  <2>1. \A h \in Handlers : hook[h].pc # "idle" => hook[h].delivery \in Deliveries
    BY DEF HookTypes, GoodHook
  <2>2. lost' \subseteq Deliveries
    BY <1>4, <2>1 DEF Crash, HookTypes
  <2>3. hook' = [h \in Handlers |-> NoHook]
    BY <1>4 DEF Crash
  <2>4. \A h \in Handlers : hook'[h] = NoHook
    BY <2>3
  <2>5. hook' \in [Handlers -> HookType]
    BY <2>3, NoHookIsGood
  <2>6. \A h \in Handlers : GoodHook(hook'[h], event')
    BY <2>4, NoHookIsGood
  <2>7. QED
    BY <1>4, <2>2, <2>5, <2>6, CrashIs DEF HookTypes
<1>5. CASE UNCHANGED <<hook, deliveries, lost>>
  BY <1>5, HookKept DEF HookTypes
<1>6. QED
  BY <1>2, <1>3, <1>4, <1>5, Actors, ReportedIs, WorkFrame, MarkFrame, UserFrame, EraseFrame,
     LoginThrowsIs, StutterIs DEF GithubTypes, EraseStep

\* What the tables of people and installations hold.
LEMMA PeopleShape ==
  ASSUME GithubTypes, PeopleTypes, [Next]_vars
  PROVE  PeopleTypes'
<1>1. ASSUME NEW u \in Users, Ask(u)  PROVE PeopleTypes'
  <2>1. CASE StartLogin(u)
    <3> DEFINE f == {<<i, installed[i]>> : i \in {j \in Installations : installed[j] # "absent"}}
    <3>1. f \subseteq Installations \X {"active", "suspended"}
      BY DEF GithubTypes
    <3>2. [pc |-> "user", found |-> f] \in LoginType
      BY <3>1 DEF LoginType
    <3>3. login' = [login EXCEPT ![u] = [pc |-> "user", found |-> f]]
      BY <2>1 DEF StartLogin
    <3> HIDE DEF f
    <3>4. login' \in [Users -> LoginType]
      BY <3>2, <3>3 DEF PeopleTypes
    <3>5. QED
      BY <3>4, <2>1 DEF StartLogin, PeopleTypes, tables, people
  <2>2. CASE Logout(u) \/ StartRequest(u) \/ StartErase(u)
    BY <2>2 DEF Logout, StartRequest, StartErase, PeopleTypes, tables, people, dash
  <2>3. QED
    BY <1>1, <2>1, <2>2 DEF Ask
<1>2. ASSUME NEW u \in Users, SignIn(u)  PROVE PeopleTypes'
  <2>1. CASE SaveUser(u)
    <3>1. login' = [login EXCEPT ![u].pc = "link"]
      BY <2>1 DEF SaveUser
    <3>2. login' \in [Users -> LoginType]
      BY <3>1 DEF PeopleTypes, LoginType
    <3>3. QED
      BY <3>2, <2>1 DEF SaveUser, PeopleTypes
  <2>2. CASE LinkNext(u)
    <3>1. PICK f \in login[u].found :
            links' = links \cup {<<u, f[1]>>} /\ login' = [login EXCEPT ![u].found = @ \ {f}]
      BY <2>2 DEF LinkNext
    <3>2. login' \in [Users -> LoginType]
      BY <3>1 DEF PeopleTypes, LoginType
    <3>3. f[1] \in Installations
      BY <3>1 DEF PeopleTypes, LoginType
    <3>4. links' \subseteq Users \X Installations
      BY <3>1, <3>3 DEF PeopleTypes
    <3>5. QED
      BY <3>2, <3>4, <2>2 DEF LinkNext, PeopleTypes
  <2>3. CASE SaveSession(u)
    <3>1. NoLogin \in LoginType
      BY DEF NoLogin, LoginType
    <3>2. QED
      BY <3>1, <2>3 DEF SaveSession, PeopleTypes
  <2>4. QED
    BY <1>2, <2>1, <2>2, <2>3 DEF SignIn
<1>3. ASSUME NEW u \in Users, Serve(u)  PROVE PeopleTypes'
  BY <1>3 DEF Serve, CreateToken, CheckRepository, CheckInstallation, EnqueueReindex, PeopleTypes,
              tables, people
<1>4. ASSUME NEW u \in Users, EraseStep(u)  PROVE PeopleTypes'
  <2>1. /\ links' \subseteq links /\ users' \subseteq users /\ sessions' \subseteq sessions
        /\ tokens' \subseteq tokens
    <3>1. CASE ListInstallations(u) \/ CountUsers(u) \/ ListRepositories(u) \/ DeleteJobs(u)
      BY <3>1 DEF ListInstallations, CountUsers, ListRepositories, DeleteJobs, tables, people
    <3>2. CASE ListCollections(u) \/ DeleteCollection(u) \/ DeleteManifest(u) \/ NextRepository(u)
      BY <3>2 DEF ListCollections, DeleteCollection, DeleteManifest, NextRepository, tables, people
    <3>3. CASE Unlink(u) \/ DeleteRepositories(u) \/ DeleteInstallation(u)
      BY <3>3 DEF Unlink, Unlinked, DeleteRepositories, DeleteInstallation, people
    <3>4. CASE DeleteSessions(u) \/ DeleteTokens(u) \/ DeleteUser(u) \/ EraseThrows(u)
      BY <3>4 DEF DeleteSessions, DeleteTokens, DeleteUser, EraseThrows, tables, people
    <3>5. QED
      BY <1>4, <3>1, <3>2, <3>3, <3>4 DEF EraseStep, Erase
  <2>2. QED
    BY <1>4, <2>1, EraseFrame DEF PeopleTypes
<1>5. NoLogin \in LoginType
  BY DEF NoLogin, LoginType
<1>6. ASSUME NEW u \in Users, LoginThrows(u)  PROVE PeopleTypes'
  BY <1>5, <1>6, LoginThrowsIs DEF PeopleTypes
<1>7. CASE Crash
  <2>1. login' = [u \in Users |-> NoLogin]
    BY <1>7 DEF Crash
  <2>2. QED
    BY <1>5, <1>7, <2>1, CrashIs DEF PeopleTypes
<1>8. CASE UNCHANGED <<users, sessions, tokens, links, login>>
  BY <1>8 DEF PeopleTypes
<1>9. ASSUME NEW d \in Deliveries, Deliver(d)  PROVE PeopleTypes'
  BY <1>8, <1>9 DEF Deliver, tables, people, dash
<1>10. QED
  BY <1>1, <1>2, <1>3, <1>4, <1>6, <1>7, <1>8, <1>9, Actors, ReportedIs, HandlerFrame, WorkFrame,
     MarkFrame, StutterIs DEF GithubTypes, UserStep

LEMMA TableShape == ASSUME Shape, [Next]_vars  PROVE TableTypes'
<1> USE DEF Shape
<1>1. CASE UNCHANGED <<installations, repositories>>
  BY <1>1 DEF TableTypes
<1>2. \A status \in Statuses : Upserted(status) \in RowType
  BY DEF Upserted, RowType
<1>3. ASSUME NEW h \in Handlers, HandlerStep(h)  PROVE TableTypes'
  <2>1. CASE RecordInstallation(h)
    <3>1. hook[h].pc = "enqueue" /\ GoodHook(hook[h], event)
      BY <2>1 DEF RecordInstallation, At, HookTypes
    <3>2. EventOf(h) \in EventType
      BY <3>1 DEF EventOf, GoodHook
    <3>3. repositories' = repositories
      BY <2>1 DEF RecordInstallation
    <3>4. CASE InstallationEvent(EventOf(h))
      <4> DEFINE e == EventOf(h)
      <4>1. /\ installations' = [installations EXCEPT ![e.installation] = StatusOf(e)]
            /\ e.name \in {"created", "deleted", "suspend", "unsuspend"}
        BY <2>1, <3>4 DEF RecordInstallation, InstallationEvent
      <4>2. StatusOf(e) \in {"active", "deleted", "suspended"}
        BY <4>1 DEF StatusOf
      <4> HIDE DEF e
      <4>3. QED
        BY <3>3, <4>1, <4>2 DEF TableTypes
    <3>5. CASE ~InstallationEvent(EventOf(h))
      BY <1>1, <2>1, <3>3, <3>5 DEF RecordInstallation
    <3>6. QED
      BY <3>4, <3>5
  <2>2. CASE RecordNext(h)
    <3>1. PICK j \in hook[h].marks :
            \/ \E status \in {"deleted", "queued"} :
                 repositories' = [repositories EXCEPT ![j.repo] = Upserted(status)]
            \/ repositories' = repositories
      BY <2>2 DEF RecordNext
    <3>2. installations' = installations
      BY <2>2 DEF RecordNext
    <3>3. {"deleted", "queued"} \subseteq Statuses
      BY DEF Statuses
    <3>4. QED
      BY <1>2, <3>1, <3>2, <3>3 DEF TableTypes
  <2>3. CASE Reserve(h) \/ ReadStored(h) \/ ReadSource(h) \/ EnqueueNext(h) \/ Accept(h)
    BY <1>1, <2>3 DEF Reserve, ReadStored, ReadSource, EnqueueNext, Accept, tables
  <2>4. CASE Release(h) \/ HookThrows(h) \/ ReleaseThrows(h)
    BY <1>1, <2>4 DEF Release, HookThrows, ReleaseThrows, tables
  <2>5. QED
    BY <1>3, <2>1, <2>2, <2>3, <2>4 DEF HandlerStep, Handle
<1>4. ASSUME NEW a \in Handlers \cup Repos, MarkStep(a)  PROVE TableTypes'
  <2> DEFINE m == mark[a]
  <2>1. m \in [repo : Repos, status : Statuses, insert : BOOLEAN]
    BY <1>4 DEF MarkStep, QueueTypes, MarkType
  <2>2. \A row \in RowType : Marked(row, m.status) \in RowType
    BY <2>1 DEF Marked, RowType, NoRow
  <2>3. \/ repositories' = [repositories EXCEPT ![m.repo] = Upserted(m.status)]
        \/ repositories' = [repositories EXCEPT ![m.repo] = Marked(@, m.status)]
    BY <1>4 DEF MarkStep
  <2>4. repositories' \in [Repos -> RowType]
    BY <1>2, <2>1, <2>2, <2>3 DEF TableTypes
  <2>5. QED
    BY <1>4, <2>4, MarkFrame DEF TableTypes
<1>5. ASSUME NEW u \in Users, UserStep(u)  PROVE TableTypes'
  <2>1. CASE LinkNext(u)
    <3>1. PICK f \in login[u].found : installations' = [installations EXCEPT ![f[1]] = f[2]]
      BY <2>1 DEF LinkNext
    <3>2. f \in Installations \X {"active", "suspended"}
      BY <3>1 DEF PeopleTypes, LoginType
    <3>3. QED
      BY <1>5, <3>1, <3>2, UserFrame DEF TableTypes
  <2>2. CASE Ask(u) \/ SaveUser(u) \/ SaveSession(u) \/ Serve(u)
    BY <1>1, <2>2 DEF Ask, StartLogin, Logout, StartRequest, StartErase, SaveUser, SaveSession,
       Serve, CreateToken, CheckRepository, CheckInstallation, EnqueueReindex, tables
  <2>3. QED
    BY <1>5, <2>1, <2>2 DEF UserStep, SignIn
<1>6. ASSUME NEW u \in Users, EraseStep(u)  PROVE TableTypes'
  <2>1. CASE DeleteRepositories(u)
    <3>1. NoRow \in RowType
      BY DEF NoRow, RowType
    <3>2. repositories' = [r \in Repos |-> IF r \in Of(erase[u].at) THEN NoRow ELSE repositories[r]]
      BY <2>1 DEF DeleteRepositories
    <3>3. repositories' \in [Repos -> RowType]
      BY <3>1, <3>2 DEF TableTypes
    <3>4. QED
      BY <2>1, <3>3 DEF TableTypes, DeleteRepositories
  <2>2. CASE DeleteInstallation(u)
    BY <2>2 DEF TableTypes, DeleteInstallation
  <2>3. CASE ListInstallations(u) \/ Unlink(u) \/ CountUsers(u) \/ ListRepositories(u)
             \/ DeleteJobs(u)
    BY <1>1, <2>3 DEF ListInstallations, Unlink, CountUsers, ListRepositories, DeleteJobs, tables
  <2>4. CASE ListCollections(u) \/ DeleteCollection(u) \/ DeleteManifest(u) \/ NextRepository(u)
    BY <1>1, <2>4 DEF ListCollections, DeleteCollection, DeleteManifest, NextRepository, tables
  <2>5. CASE DeleteSessions(u) \/ DeleteTokens(u) \/ DeleteUser(u) \/ EraseThrows(u)
    BY <1>1, <2>5 DEF DeleteSessions, DeleteTokens, DeleteUser, EraseThrows, tables
  <2>6. QED
    BY <1>6, <2>1, <2>2, <2>3, <2>4, <2>5 DEF EraseStep, Erase
<1>7. ASSUME NEW d \in Deliveries, Deliver(d)  PROVE TableTypes'
  BY <1>1, <1>7 DEF Deliver, tables
<1>8. QED
  BY <1>1, <1>3, <1>4, <1>5, <1>6, <1>7, Actors, ReportedIs, WorkFrame, CrashIs, LoginThrowsIs,
     StutterIs DEF GithubTypes

-----------------------------------------------------------------------------
(* The steps of a job.                                                     *)

\* A step of r's job changes what belongs to r only.
WorkSet(r) ==
  /\ work' \in [Repos -> WorkType] /\ mark' \in [Handlers \cup Repos -> MarkType]
  /\ jobs' \in [Repos -> Seq(PendingType)]
  /\ \A q \in Repos \ {r} : work'[q] = work[q] /\ jobs'[q] = jobs[q]
  /\ \A a \in (Handlers \cup Repos) \ {r} : mark'[a] = mark[a]
  /\ GoodWork(r, work'[r], mark'[r], event')
  /\ \A n \in DOMAIN jobs'[r] : GoodJob(jobs'[r][n], event')

LEMMA MarkCallIs ==
  ASSUME NEW r \in Repos, NEW status \in Statuses
  PROVE  /\ MarkCall(r, status) \in [repo : Repos, status : Statuses, insert : BOOLEAN]
         /\ MarkCall(r, status).repo = r /\ MarkCall(r, status).status = status
         /\ MarkCall(r, status) # NoMark
<1>1. (repositories[r] = NoRow) \in BOOLEAN
  OBVIOUS
<1> DEFINE b == repositories[r] = NoRow
<1>2. MarkCall(r, status) = [repo |-> r, status |-> status, insert |-> b]
  BY DEF MarkCall
<1> HIDE DEF b
<1>3. QED
  BY <1>1, <1>2, Constant DEF NoMark, b

LEMMA NoMarkIs ==
  NoMark \in MarkType /\ NoMark \notin [repo : Repos, status : Statuses, insert : BOOLEAN]
  BY Constant DEF NoMark, MarkType

LEMMA RestingIs == Resting \in WorkType /\ Resting.pc = "idle" /\ Resting.kind = None
  BY DEF Resting, WorkType

LEMMA ClaimIs ==
  ASSUME Shape, NEW r \in Repos, Claim(r)
  PROVE  /\ WorkSet(r) /\ work[r] = Resting /\ mark[r] = NoMark
         /\ jobs[r] # <<>> /\ jobs'[r] = Tail(jobs[r])
         /\ 1 \in DOMAIN jobs[r] /\ jobs[r][1].kind \in JobKinds
         /\ work'[r].kind = jobs[r][1].kind
         /\ work'[r].pc = IF jobs[r][1].kind \in {"delete", "closePr"} THEN "drop" ELSE "index"
         /\ mark'[r] # NoMark => mark'[r].status = "indexing"
         /\ UNCHANGED <<collections, manifests, astray>>
<1> USE DEF Shape
<1> DEFINE j == jobs[r][1]
           pc == IF j.kind \in {"delete", "closePr"} THEN "drop" ELSE "index"
           w == [pc |-> pc, kind |-> j.kind, from |-> j.from]
<1>1. /\ jobs \in [Repos -> Seq(PendingType)] /\ work \in [Repos -> WorkType]
      /\ mark \in [Handlers \cup Repos -> MarkType] /\ GoodWork(r, work[r], mark[r], event)
      /\ \A n \in DOMAIN jobs[r] : GoodJob(jobs[r][n], event)
  BY DEF QueueTypes
<1>2. work[r] = Resting /\ jobs[r] # <<>> /\ jobs' = [jobs EXCEPT ![r] = Tail(@)]
  BY DEF Claim
<1>3. 1 \in DOMAIN jobs[r] /\ Head(jobs[r]) = j /\ j \in PendingType
  BY <1>1, <1>2
<1>4. /\ work' = [work EXCEPT ![r] = w]
      /\ mark' = IF UpdatesStatus(j.kind)
                  THEN [mark EXCEPT ![r] = MarkCall(r, "indexing")] ELSE mark
      /\ UNCHANGED <<collections, manifests, astray>>
  BY <1>3 DEF Claim, index, history
<1>5. GoodJob(j, event) /\ mark[r] = NoMark
  BY <1>1, <1>2, <1>3, RestingIs DEF GoodWork
<1>6. j.kind \in JobKinds /\ j.from \in Deliveries \cup Users
  BY <1>5 DEF GoodJob
<1>7. w \in WorkType /\ w.pc = pc /\ w.kind = j.kind /\ w.from = j.from
  BY <1>6 DEF WorkType
<1>8. "indexing" \in Statuses
  BY DEF Statuses
<1> DEFINE c == MarkCall(r, "indexing")
<1>9. c \in MarkType /\ c.repo = r /\ c.status = "indexing" /\ c # NoMark
  BY <1>8, MarkCallIs DEF MarkType
<1> HIDE DEF w, c, j
<1>10. work' \in [Repos -> WorkType] /\ work'[r] = w /\ \A q \in Repos \ {r} : work'[q] = work[q]
  BY <1>1, <1>4, <1>7
<1>11. /\ mark' \in [Handlers \cup Repos -> MarkType]
       /\ \A a \in (Handlers \cup Repos) \ {r} : mark'[a] = mark[a]
       /\ mark'[r] = IF UpdatesStatus(j.kind) THEN c ELSE NoMark
  BY <1>1, <1>4, <1>5, <1>9 DEF c
<1>12. /\ jobs' \in [Repos -> Seq(PendingType)] /\ jobs'[r] = Tail(jobs[r])
       /\ \A q \in Repos \ {r} : jobs'[q] = jobs[q]
  BY <1>1, <1>2
<1>13. \A n \in DOMAIN jobs'[r] : n + 1 \in DOMAIN jobs[r] /\ jobs'[r][n] = jobs[r][n + 1]
  BY <1>1, <1>2, <1>12
<1>14. event' = event
  BY WorkFrame DEF WorkStep, Work
<1>15. GoodJob(w, event)
  BY <1>5, <1>7 DEF GoodJob
<1>16. GoodWork(r, work'[r], mark'[r], event')
  BY <1>7, <1>9, <1>10, <1>11, <1>14, <1>15 DEF GoodWork, UpdatesStatus, Setting
<1>17. WorkSet(r)
  BY <1>1, <1>10, <1>11, <1>12, <1>13, <1>14, <1>16 DEF WorkSet
<1>18. QED
  BY <1>2, <1>3, <1>4, <1>5, <1>6, <1>7, <1>9, <1>10, <1>11, <1>12, <1>17 DEF j

LEMMA WorkSetBy ==
  ASSUME QueueTypes, NEW r \in Repos, NEW x \in WorkType, NEW m \in MarkType,
         GoodWork(r, x, m, event), UNCHANGED <<jobs, event>>,
         work' = [work EXCEPT ![r] = x], mark' = [mark EXCEPT ![r] = m]
  PROVE  WorkSet(r) /\ work'[r] = x /\ mark'[r] = m
<1>1. /\ jobs \in [Repos -> Seq(PendingType)] /\ work \in [Repos -> WorkType]
      /\ mark \in [Handlers \cup Repos -> MarkType]
      /\ \A n \in DOMAIN jobs[r] : GoodJob(jobs[r][n], event)
  BY DEF QueueTypes
<1>2. work' \in [Repos -> WorkType] /\ work'[r] = x /\ \A q \in Repos \ {r} : work'[q] = work[q]
  BY <1>1
<1>3. /\ mark' \in [Handlers \cup Repos -> MarkType] /\ mark'[r] = m
      /\ \A a \in (Handlers \cup Repos) \ {r} : mark'[a] = mark[a]
  BY <1>1
<1>4. QED
  BY <1>1, <1>2, <1>3 DEF WorkSet

LEMMA MarkSame ==
  ASSUME QueueTypes, NEW a \in Handlers \cup Repos, UNCHANGED mark
  PROVE  mark[a] \in MarkType /\ mark' = [mark EXCEPT ![a] = mark[a]]
  BY DEF QueueTypes

LEMMA IndexIs ==
  ASSUME Shape, NEW r \in Repos, IndexCollection(r)
  PROVE  /\ WorkSet(r) /\ work[r].pc = "index" /\ mark[r] = NoMark
         /\ work'[r].pc = "save" /\ work'[r].kind = work[r].kind
         /\ collections' = collections \cup {CollOf(r)}
         /\ UNCHANGED <<jobs, mark, manifests, astray>>
<1> USE DEF Shape
<1> DEFINE x == [work[r] EXCEPT !.pc = "save"]
<1>1. work[r] \in WorkType /\ GoodWork(r, work[r], mark[r], event)
  BY DEF QueueTypes
<1>2. /\ work[r].pc = "index" /\ mark[r] = NoMark /\ work' = [work EXCEPT ![r] = x]
      /\ collections' = collections \cup {CollOf(r)}
      /\ UNCHANGED <<jobs, mark, manifests, astray>>
  BY DEF IndexCollection, Doing, history, QueueTypes
<1>3. /\ x \in WorkType /\ x.pc = "save" /\ x.kind = work[r].kind /\ x.from = work[r].from
  BY <1>1, <1>2 DEF WorkType
<1>4. event' = event
  BY WorkFrame DEF WorkStep, Work
<1> HIDE DEF x
<1>5. GoodWork(r, x, mark[r], event)
  BY <1>1, <1>2, <1>3 DEF GoodWork, GoodJob
<1>6. QED
  BY <1>2, <1>3, <1>4, <1>5, MarkSame, WorkSetBy

LEMMA SaveIs ==
  ASSUME Shape, NEW r \in Repos, SaveManifest(r)
  PROVE  /\ WorkSet(r) /\ work[r].pc = "save" /\ mark[r] = NoMark
         /\ manifests' = manifests \cup {CollOf(r)}
         /\ \/ /\ work[r].kind \in {"install", "full", "push"} /\ work'[r].kind = work[r].kind
               /\ work'[r].pc = "done" /\ mark'[r] # NoMark /\ mark'[r].status = "ready"
            \/ /\ work[r].kind \notin Setting /\ work'[r] = Resting /\ mark'[r] = NoMark
         /\ UNCHANGED <<jobs, collections, astray>>
<1> USE DEF Shape
<1>1. work[r] \in WorkType /\ GoodWork(r, work[r], mark[r], event)
  BY DEF QueueTypes
<1>2. /\ work[r].pc = "save" /\ mark[r] = NoMark
      /\ manifests' = manifests \cup {CollOf(r)}
      /\ UNCHANGED <<jobs, collections, astray>>
  BY DEF SaveManifest, Doing, history
<1>3. event' = event
  BY WorkFrame DEF WorkStep, Work
<1>4. CASE work[r].kind \in {"install", "full", "push"}
  <2> DEFINE x == [work[r] EXCEPT !.pc = "done"]
             m == MarkCall(r, "ready")
  <2>1. work' = [work EXCEPT ![r] = x] /\ mark' = [mark EXCEPT ![r] = m]
    BY <1>4 DEF SaveManifest, UpdatesStatus, QueueTypes
  <2>2. /\ x \in WorkType /\ x.pc = "done" /\ x.kind = work[r].kind /\ x.from = work[r].from
    BY <1>1 DEF WorkType
  <2>3. m \in MarkType /\ m.repo = r /\ m.status = "ready" /\ m # NoMark
    BY MarkCallIs DEF Statuses, MarkType
  <2> HIDE DEF x, m
  <2>4. GoodWork(r, x, m, event)
    BY <1>1, <1>2, <1>4, <2>2, <2>3 DEF GoodWork, GoodJob, Setting
  <2>5. WorkSet(r) /\ work'[r] = x /\ mark'[r] = m
    BY <1>2, <1>3, <2>1, <2>2, <2>3, <2>4, WorkSetBy
  <2>6. QED
    BY <1>2, <1>4, <2>1, <2>2, <2>3, <2>5
<1>5. CASE work[r].kind \notin {"install", "full", "push"}
  <2>1. work' = [work EXCEPT ![r] = Resting] /\ mark' = mark
    BY <1>5 DEF SaveManifest, UpdatesStatus, Freed
  <2>2. work[r].kind \notin Setting
    BY <1>1, <1>2, <1>5 DEF GoodWork, Setting
  <2>3. GoodWork(r, Resting, mark[r], event)
    BY <1>2, RestingIs DEF GoodWork
  <2>4. QED
    BY <1>2, <1>3, <2>1, <2>2, <2>3, MarkSame, WorkSetBy, RestingIs
<1>6. QED
  BY <1>4, <1>5

LEMMA DropIs ==
  ASSUME Shape, NEW r \in Repos, DropCollections(r)
  PROVE  /\ WorkSet(r) /\ work[r].pc = "drop" /\ mark[r] = NoMark
         /\ \/ /\ work[r].kind = "delete" /\ work'[r].kind = work[r].kind
               /\ work'[r].pc = "done" /\ mark'[r] # NoMark /\ mark'[r].status = "deleted"
               /\ collections' = collections \ ListedFor(r)
               /\ manifests' = manifests \ ListedFor(r)
            \/ /\ work[r].kind = "closePr" /\ work'[r] = Resting /\ mark'[r] = NoMark
               /\ collections' = collections \ {<<r, "pr">>}
               /\ manifests' = manifests \ {<<r, "pr">>}
         /\ UNCHANGED <<jobs, astray>>
<1> USE DEF Shape
<1>1. work[r] \in WorkType /\ GoodWork(r, work[r], mark[r], event)
  BY DEF QueueTypes
<1>2. work[r].pc = "drop" /\ mark[r] = NoMark /\ UNCHANGED <<jobs, astray>>
  BY DEF DropCollections, Doing, history
<1>3. event' = event
  BY WorkFrame DEF WorkStep, Work
<1>4. CASE work[r].kind = "delete"
  <2> DEFINE x == [work[r] EXCEPT !.pc = "done"]
             m == MarkCall(r, "deleted")
  <2>1. /\ work' = [work EXCEPT ![r] = x] /\ mark' = [mark EXCEPT ![r] = m]
        /\ collections' = collections \ ListedFor(r)
        /\ manifests' = manifests \ ListedFor(r)
    BY <1>4 DEF DropCollections, QueueTypes
  <2>2. /\ x \in WorkType /\ x.pc = "done" /\ x.kind = work[r].kind /\ x.from = work[r].from
    BY <1>1 DEF WorkType
  <2>3. m \in MarkType /\ m.repo = r /\ m.status = "deleted" /\ m # NoMark
    BY MarkCallIs DEF Statuses, MarkType
  <2> HIDE DEF x, m
  <2>4. GoodWork(r, x, m, event)
    BY <1>1, <1>2, <1>4, <2>2, <2>3 DEF GoodWork, GoodJob, Setting
  <2>5. WorkSet(r) /\ work'[r] = x /\ mark'[r] = m
    BY <1>2, <1>3, <2>1, <2>2, <2>3, <2>4, WorkSetBy
  <2>6. QED
    BY <1>2, <1>4, <2>1, <2>2, <2>3, <2>5
<1>5. CASE work[r].kind = "closePr"
  <2>1. /\ work' = [work EXCEPT ![r] = Resting] /\ mark' = mark
        /\ collections' = collections \ {<<r, "pr">>}
        /\ manifests' = manifests \ {<<r, "pr">>}
    BY <1>5 DEF DropCollections, CollOf, Freed
  <2>2. GoodWork(r, Resting, mark[r], event)
    BY <1>2, RestingIs DEF GoodWork
  <2>3. QED
    BY <1>2, <1>3, <1>5, <2>1, <2>2, MarkSame, WorkSetBy, RestingIs
<1>6. QED
  BY <1>1, <1>2, <1>4, <1>5 DEF GoodWork

LEMMA CompleteIs ==
  ASSUME Shape, NEW r \in Repos, Complete(r)
  PROVE  /\ WorkSet(r) /\ work[r].pc = "done" /\ mark[r] = NoMark
         /\ work'[r] = Resting /\ UNCHANGED <<jobs, mark, collections, manifests, astray>>
<1> USE DEF Shape
<1>1. /\ work[r].pc = "done" /\ mark[r] = NoMark /\ work' = [work EXCEPT ![r] = Resting]
      /\ UNCHANGED <<jobs, mark, collections, manifests, astray>>
  BY DEF Complete, Doing, Freed, index, history
<1>2. event' = event
  BY WorkFrame DEF WorkStep, Work
<1>3. GoodWork(r, Resting, mark[r], event)
  BY <1>1, RestingIs DEF GoodWork
<1>4. QED
  BY <1>1, <1>2, <1>3, MarkSame, WorkSetBy, RestingIs

LEMMA WorkThrowsIs ==
  ASSUME Shape, NEW r \in Repos, WorkThrows(r)
  PROVE  /\ WorkSet(r) /\ work[r] # Resting /\ UNCHANGED <<jobs, collections, manifests>>
         /\ \/ /\ work[r].kind \in Setting /\ work'[r].kind = work[r].kind
               /\ work'[r].pc = "done" /\ mark'[r] # NoMark /\ mark'[r].status = "failed"
               /\ astray' = astray
            \/ /\ work'[r] = Resting /\ mark'[r] = NoMark
               /\ \/ work[r].kind \in {"pr", "closePr"} /\ astray' = astray
                  \/ work[r].kind \notin {"pr", "closePr"} /\ astray' = astray \cup {r}
<1> USE DEF Shape
<1>1. work[r] \in WorkType /\ GoodWork(r, work[r], mark[r], event)
  BY DEF QueueTypes
<1>2. work[r] # Resting /\ UNCHANGED <<jobs, collections, manifests>>
  BY DEF WorkThrows, index
<1>3. event' = event
  BY WorkFrame DEF WorkStep
<1>4. CASE UpdatesStatus(work[r].kind) /\ mark[r].status # "failed"
  <2> DEFINE x == [work[r] EXCEPT !.pc = "done"]
             m == MarkCall(r, "failed")
  <2>1. /\ work' = [work EXCEPT ![r] = x] /\ mark' = [mark EXCEPT ![r] = m]
        /\ astray' = astray
    BY <1>4 DEF WorkThrows, FailureMark, QueueTypes
  <2>2. /\ x \in WorkType /\ x.pc = "done" /\ x.kind = work[r].kind /\ x.from = work[r].from
    BY <1>1 DEF WorkType
  <2>3. m \in MarkType /\ m.repo = r /\ m.status = "failed" /\ m # NoMark
    BY MarkCallIs DEF Statuses, MarkType
  <2>4. work[r].kind \in Setting /\ work[r].pc # "idle"
    BY <1>1, <1>2, <1>4 DEF UpdatesStatus, Setting, GoodWork
  <2> HIDE DEF x, m
  <2>5. GoodWork(r, x, m, event)
    BY <1>1, <1>2, <2>2, <2>3, <2>4 DEF GoodWork, GoodJob
  <2>6. WorkSet(r) /\ work'[r] = x /\ mark'[r] = m
    <3>1. QueueTypes /\ x \in WorkType /\ m \in MarkType /\ UNCHANGED <<jobs, event>>
      BY <1>2, <1>3, <2>2, <2>3
    <3> HIDE DEF Shape
    <3>2. QED
      BY <2>1, <2>5, <3>1, WorkSetBy
  <2>7. QED
    BY <1>2, <2>1, <2>2, <2>3, <2>4, <2>6
<1>5. CASE ~(UpdatesStatus(work[r].kind) /\ mark[r].status # "failed")
  <2>1. /\ work' = [work EXCEPT ![r] = Resting] /\ mark' = [mark EXCEPT ![r] = NoMark]
        /\ astray' = IF work[r].kind \in {"pr", "closePr"} THEN astray ELSE astray \cup {r}
    BY <1>5 DEF WorkThrows, Freed
  <2>2. GoodWork(r, Resting, NoMark, event)
    BY RestingIs DEF GoodWork
  <2>3. QED
    BY <1>2, <1>3, <2>1, <2>2, WorkSetBy, RestingIs, NoMarkIs
<1>6. QED
  BY <1>4, <1>5

LEMMA WorkStepSet ==
  ASSUME Shape, NEW r \in Repos, WorkStep(r)
  PROVE  WorkSet(r)
  BY ClaimIs, IndexIs, SaveIs, DropIs, CompleteIs, WorkThrowsIs DEF WorkStep, Work

LEMMA EnqueuedIs ==
  ASSUME QueueTypes, NEW r \in Repos, NEW j \in PendingType, GoodJob(j, event),
         jobs' = [jobs EXCEPT ![r] = Append(@, j)]
  PROVE  /\ jobs' \in [Repos -> Seq(PendingType)]
         /\ \A q \in Repos \ {r} : jobs'[q] = jobs[q]
         /\ DOMAIN jobs'[r] = DOMAIN jobs[r] \cup {Len(jobs[r]) + 1}
         /\ jobs'[r][Len(jobs[r]) + 1] = j
         /\ \A n \in DOMAIN jobs[r] : jobs'[r][n] = jobs[r][n]
         /\ \A q \in Repos : \A n \in DOMAIN jobs'[q] : GoodJob(jobs'[q][n], event)
<1>1. /\ jobs \in [Repos -> Seq(PendingType)] /\ jobs[r] \in Seq(PendingType)
      /\ \A q \in Repos : \A n \in DOMAIN jobs[q] : GoodJob(jobs[q][n], event)
  BY DEF QueueTypes
<1> DEFINE s == jobs[r]
<1>2. jobs' \in [Repos -> Seq(PendingType)]
  BY <1>1
<1>3. jobs'[r] = Append(s, j) /\ \A q \in Repos \ {r} : jobs'[q] = jobs[q]
  BY <1>1
<1> HIDE DEF s
<1>4. s \in Seq(PendingType)
  BY <1>1 DEF s
<1>5. /\ DOMAIN Append(s, j) = DOMAIN s \cup {Len(s) + 1}
      /\ Append(s, j)[Len(s) + 1] = j
      /\ \A n \in DOMAIN s : Append(s, j)[n] = s[n]
  BY <1>4
<1>6. \A n \in DOMAIN jobs'[r] : GoodJob(jobs'[r][n], event)
  BY <1>1, <1>3, <1>5 DEF s
<1>7. QED
  BY <1>1, <1>2, <1>3, <1>5, <1>6 DEF s

\* A process that died leaves what it was doing at the head of the queue.
LEMMA AgainIs ==
  ASSUME Shape, Crash, NEW r \in Repos
  PROVE  /\ work'[r] = Resting /\ mark'[r] = NoMark /\ jobs'[r] \in Seq(PendingType)
         /\ \/ work[r] = Resting /\ jobs'[r] = jobs[r]
            \/ /\ work[r] # Resting /\ DOMAIN jobs'[r] = 1 .. Len(jobs[r]) + 1
               /\ jobs'[r][1] = [kind |-> work[r].kind, from |-> work[r].from]
               /\ work[r].pc # "idle" /\ GoodJob(work[r], event)
               /\ \A n \in DOMAIN jobs[r] : /\ n + 1 \in DOMAIN jobs'[r]
                                            /\ jobs'[r][n + 1] = jobs[r][n]
               /\ \A n \in DOMAIN jobs'[r] : n = 1 \/ (n - 1 \in DOMAIN jobs[r]
                                                       /\ jobs'[r][n] = jobs[r][n - 1])
<1> USE DEF Shape
<1>1. /\ jobs[r] \in Seq(PendingType) /\ work[r] \in WorkType
      /\ GoodWork(r, work[r], mark[r], event) /\ mark \in [Handlers \cup Repos -> MarkType]
  BY DEF QueueTypes
<1>2. /\ work' = [q \in Repos |-> Resting] /\ mark' = [a \in DOMAIN mark |-> NoMark]
      /\ jobs' = [q \in Repos |-> IF work[q] = Resting THEN jobs[q] ELSE Again(q)]
  BY DEF Crash
<1>3. work'[r] = Resting /\ mark'[r] = NoMark
  BY <1>1, <1>2
<1>4. jobs'[r] = IF work[r] = Resting THEN jobs[r] ELSE Again(r)
  BY <1>2
<1>5. CASE work[r] = Resting
  BY <1>1, <1>3, <1>4, <1>5
<1>6. CASE work[r] # Resting
  <2>1. work[r].pc # "idle" /\ GoodJob(work[r], event)
    BY <1>1, <1>6 DEF GoodWork
  <2> DEFINE j == [kind |-> work[r].kind, from |-> work[r].from]
             s == jobs[r]
  <2>2. j \in PendingType
    BY <2>1 DEF GoodJob, PendingType
  <2>3. jobs'[r] = <<j>> \o s /\ s \in Seq(PendingType)
    BY <1>1, <1>4, <1>6 DEF Again
  <2> HIDE DEF j, s
  <2>4. <<j>> \in Seq(PendingType) /\ Len(<<j>>) = 1 /\ <<j>>[1] = j
    BY <2>2
  <2>5. /\ <<j>> \o s \in Seq(PendingType) /\ Len(<<j>> \o s) = Len(s) + 1
        /\ (<<j>> \o s)[1] = j
    BY <2>3, <2>4
  <2>6. \A n \in 2 .. Len(s) + 1 : (<<j>> \o s)[n] = s[n - 1]
    BY <2>3, <2>4
  <2>7. DOMAIN (<<j>> \o s) = 1 .. Len(s) + 1 /\ DOMAIN s = 1 .. Len(s) /\ Len(s) \in Nat
    BY <2>3, <2>5
  <2>8. /\ \A n \in DOMAIN s : /\ n + 1 \in DOMAIN (<<j>> \o s)
                               /\ (<<j>> \o s)[n + 1] = s[n]
        /\ \A n \in DOMAIN (<<j>> \o s) : n = 1 \/ (n - 1 \in DOMAIN s
                                                    /\ (<<j>> \o s)[n] = s[n - 1])
    BY <2>6, <2>7
  <2>9. QED
    BY <1>3, <1>6, <2>1, <2>3, <2>5, <2>7, <2>8 DEF j, s
<1>7. QED
  BY <1>5, <1>6

LEMMA EmptySeq == <<>> \in Seq(PendingType) /\ DOMAIN <<>> = {}
  OBVIOUS

\* The queue, and who has a call of markRepositoryStatus under way.
LEMMA QueueShape == ASSUME Shape, [Next]_vars  PROVE QueueTypes'
<1> USE DEF Shape
<1> Stays
  BY EventStays
<1>1. /\ jobs \in [Repos -> Seq(PendingType)] /\ work \in [Repos -> WorkType]
      /\ mark \in [Handlers \cup Repos -> MarkType]
      /\ \A r \in Repos : GoodWork(r, work[r], mark[r], event)
      /\ \A r \in Repos : \A n \in DOMAIN jobs[r] : GoodJob(jobs[r][n], event)
      /\ \A h \in Handlers : mark[h] # NoMark =>
           hook[h].pc = "record" /\ KindOf(EventOf(h).name) \in {"full", "push"}
  BY DEF QueueTypes
<1>2. ASSUME NEW r, NEW x, NEW m, GoodWork(r, x, m, event)  PROVE GoodWork(r, x, m, event')
  BY <1>2, JobKept DEF GoodWork
<1>3. ASSUME NEW h \in Handlers, hook[h].pc = "record", hook'[h].pc = "record",
             hook'[h].delivery = hook[h].delivery,
             KindOf(EventOf(h).name) \in {"full", "push"}
      PROVE  KindOf(EventOf(h)'.name) \in {"full", "push"}
  <2>1. hook[h].delivery \in Deliveries /\ event[hook[h].delivery] \in EventType
    BY <1>3 DEF HookTypes, GoodHook
  <2>2. event'[hook'[h].delivery] = event[hook[h].delivery]
    BY <1>3, <2>1 DEF Stays
  <2>3. QED
    BY <1>3, <2>2 DEF EventOf
<1>4. CASE UNCHANGED <<hook, jobs, work, mark>>
  <2>1. \A h \in Handlers : mark'[h] # NoMark =>
          hook'[h].pc = "record" /\ KindOf(EventOf(h)'.name) \in {"full", "push"}
    BY <1>1, <1>3, <1>4
  <2>2. QED
    BY <1>1, <1>2, <1>4, <2>1, JobKept DEF QueueTypes
<1>5. ASSUME NEW r \in Repos, WorkStep(r)  PROVE QueueTypes'
  <2>1. WorkSet(r) /\ UNCHANGED <<hook, event>>
    BY <1>5, WorkStepSet, WorkFrame
  <2>2. \A h \in Handlers : mark'[h] = mark[h] /\ EventOf(h)' = EventOf(h)
    BY <2>1, Constant DEF WorkSet, EventOf
  <2>3. \A q \in Repos : GoodWork(q, work'[q], mark'[q], event')
    BY <1>1, <2>1 DEF WorkSet
  <2>4. \A q \in Repos : \A n \in DOMAIN jobs'[q] : GoodJob(jobs'[q][n], event')
    BY <1>1, <2>1 DEF WorkSet
  <2>5. QED
    BY <1>1, <2>1, <2>2, <2>3, <2>4 DEF QueueTypes, WorkSet
<1>6. ASSUME NEW a \in Handlers \cup Repos, MarkStep(a)  PROVE QueueTypes'
  <2> DEFINE m == mark[a]
             n == [m EXCEPT !.insert = FALSE]
  <2>1. m \in [repo : Repos, status : Statuses, insert : BOOLEAN]
    BY <1>1, <1>6 DEF MarkStep, MarkType
  <2>2. n \in MarkType /\ n.repo = m.repo
    BY <2>1 DEF MarkType
  <2>3. mark' = [mark EXCEPT ![a] = n] \/ mark' = [mark EXCEPT ![a] = NoMark]
    BY <1>1, <1>6 DEF MarkStep
  <2>4. UNCHANGED <<hook, event, jobs, work>>
    BY <1>6, MarkFrame
  <2> HIDE DEF n
  <2>5. PICK y \in {n, NoMark} : mark' = [mark EXCEPT ![a] = y]
    BY <2>3
  <2>6. y \in MarkType /\ (y # NoMark => y.repo = m.repo)
    BY <2>2, <2>5, NoMarkIs
  <2>7. /\ mark' \in [Handlers \cup Repos -> MarkType] /\ mark'[a] = y
        /\ \A b \in (Handlers \cup Repos) \ {a} : mark'[b] = mark[b]
    BY <1>1, <2>5, <2>6
  <2>8. m # NoMark
    BY <1>6 DEF MarkStep
  <2>9. \A r \in Repos : GoodWork(r, work[r], mark'[r], event)
    <3> SUFFICES ASSUME NEW r \in Repos, r = a  PROVE GoodWork(r, work[r], mark'[r], event)
      BY <1>1, <2>7
    <3>1. GoodWork(r, work[r], m, event) /\ mark'[r] = y
      BY <1>1, <2>7
    <3> HIDE DEF m
    <3>2. QED
      BY <2>6, <2>8, <3>1 DEF GoodWork
  <2>10. \A h \in Handlers : mark'[h] # NoMark => mark[h] # NoMark
    BY <2>7, <2>8
  <2>11. \A h \in Handlers : EventOf(h)' = EventOf(h)
    BY <2>4 DEF EventOf
  <2>12. QED
    BY <1>1, <2>4, <2>7, <2>9, <2>10, <2>11 DEF QueueTypes
<1>7. ASSUME NEW h \in Handlers, HandlerStep(h)  PROVE QueueTypes'
  <2>1. HookSet(h) /\ UNCHANGED <<event, work>>
    BY <1>7, HandlerHook, HandlerFrame
  <2>2. \A g \in Handlers \ {h} : hook'[g] = hook[g] /\ EventOf(g)' = EventOf(g)
    BY <2>1 DEF HookSet, EventOf
  <2>3. ASSUME mark' \in [Handlers \cup Repos -> MarkType],
               \A a \in (Handlers \cup Repos) \ {h} : mark'[a] = mark[a],
               mark'[h] # NoMark => hook'[h].pc = "record"
                                    /\ KindOf(EventOf(h)'.name) \in {"full", "push"},
               jobs' \in [Repos -> Seq(PendingType)],
               \A r \in Repos : \A n \in DOMAIN jobs'[r] : GoodJob(jobs'[r][n], event)
        PROVE  QueueTypes'
    <3>1. \A r \in Repos : mark'[r] = mark[r]
      BY <2>3, Constant
    <3>2. \A g \in Handlers : mark'[g] # NoMark =>
            hook'[g].pc = "record" /\ KindOf(EventOf(g)'.name) \in {"full", "push"}
      BY <1>1, <2>2, <2>3
    <3>3. QED
      BY <1>1, <2>1, <2>3, <3>1, <3>2 DEF QueueTypes
  <2>4. ASSUME At(h, hook[h].pc), mark' = mark, jobs' = jobs  PROVE QueueTypes'
    BY <1>1, <2>3, <2>4 DEF At
  <2>5. CASE Reserve(h) \/ ReadStored(h) \/ ReadSource(h) \/ RecordInstallation(h)
    BY <2>4, <2>5 DEF Reserve, ReadStored, ReadSource, RecordInstallation, At, queue
  <2>6. CASE Accept(h) \/ Release(h) \/ ReleaseThrows(h)
    BY <2>4, <2>6 DEF Accept, Release, ReleaseThrows, At, queue
  <2>7. CASE HookThrows(h)
    <3>1. mark' = [mark EXCEPT ![h] = NoMark] /\ jobs' = jobs
      BY <2>7 DEF HookThrows, queue
    <3>2. /\ mark' \in [Handlers \cup Repos -> MarkType] /\ mark'[h] = NoMark
          /\ \A a \in (Handlers \cup Repos) \ {h} : mark'[a] = mark[a]
      BY <1>1, <3>1, NoMarkIs
    <3>3. QED
      BY <1>1, <2>3, <3>1, <3>2
  <2>8. CASE EnqueueNext(h)
    <3>1. PICK j \in hook[h].jobs :
            /\ j.repo \in Repos /\ j.kind \in JobKinds
            /\ j.kind = KindOf(event[hook[h].delivery].name)
            /\ jobs' = Enqueued(j.kind, j.repo, hook[h].delivery)
      BY <2>8, EnqueueHook
    <3> DEFINE p == [kind |-> j.kind, from |-> hook[h].delivery]
    <3>2. /\ hook[h].delivery \in Deliveries /\ event[hook[h].delivery] \in EventType
          /\ mark' = mark /\ mark[h] = NoMark
      BY <2>8 DEF EnqueueNext, At, HookTypes, GoodHook
    <3>3. p \in PendingType /\ GoodJob(p, event)
      BY <3>1, <3>2, Constant DEF PendingType, GoodJob
    <3>4. jobs' = [jobs EXCEPT ![j.repo] = Append(@, p)]
      BY <3>1 DEF Enqueued
    <3> HIDE DEF p
    <3>5. /\ jobs' \in [Repos -> Seq(PendingType)]
          /\ \A r \in Repos : \A n \in DOMAIN jobs'[r] : GoodJob(jobs'[r][n], event)
      BY <3>1, <3>3, <3>4, EnqueuedIs
    <3>6. QED
      BY <1>1, <2>3, <3>2, <3>5
  <2>9. CASE RecordNext(h)
    <3>1. /\ hook[h].pc = "record" /\ hook'[h].pc = "record" /\ mark[h] = NoMark
          /\ hook'[h].delivery = hook[h].delivery /\ jobs' = jobs
      BY <2>9, RecordNextHook DEF RecordNext, At, queue
    <3>2. PICK j \in hook[h].marks :
            \/ mark' = mark
            \/ /\ j.kind \in {"full", "push"}
               /\ mark' = [mark EXCEPT ![h] = MarkCall(j.repo, "queued")]
      BY <2>9 DEF RecordNext
    <3>3. CASE mark' = mark
      BY <1>1, <2>3, <3>1, <3>3
    <3>4. CASE /\ j.kind \in {"full", "push"}
               /\ mark' = [mark EXCEPT ![h] = MarkCall(j.repo, "queued")]
      <4>1. j \in JobType /\ j.kind = KindOf(EventOf(h).name)
        BY <3>1, <3>2 DEF HookTypes, GoodHook, HookType, Stages, EventOf
      <4>2. MarkCall(j.repo, "queued") \in MarkType
        BY <4>1, MarkCallIs DEF JobType, Statuses, MarkType
      <4>3. /\ mark' \in [Handlers \cup Repos -> MarkType]
            /\ \A a \in (Handlers \cup Repos) \ {h} : mark'[a] = mark[a]
        BY <1>1, <3>4, <4>2
      <4>4. KindOf(EventOf(h)'.name) \in {"full", "push"}
        BY <1>3, <3>1, <3>4, <4>1
      <4>5. QED
        BY <1>1, <2>3, <3>1, <4>3, <4>4
    <3>5. QED
      BY <3>2, <3>3, <3>4
  <2>10. QED
    BY <1>7, <2>5, <2>6, <2>7, <2>8, <2>9 DEF HandlerStep, Handle
<1>8. ASSUME NEW d \in Deliveries, Deliver(d)  PROVE QueueTypes'
  <2>1. PICK h \in Handlers : hook[h] = NoHook /\ HookSet(h)
    BY <1>8, DeliverHook
  <2>2. UNCHANGED <<event, jobs, work, mark>>
    BY <1>8 DEF Deliver, queue
  <2>3. hook[h].pc # "record"
    BY <2>1 DEF NoHook
  <2>4. \A g \in Handlers : mark[g] # NoMark => hook'[g] = hook[g] /\ EventOf(g)' = EventOf(g)
    BY <1>1, <2>1, <2>2, <2>3 DEF HookSet, EventOf
  <2>5. QED
    BY <1>1, <2>2, <2>4 DEF QueueTypes
<1>9. CASE Crash
  <2>1. \A r \in Repos : GoodWork(r, work'[r], mark'[r], event')
    BY <1>9, AgainIs, RestingIs DEF GoodWork
  <2>2. mark' = [a \in DOMAIN mark |-> NoMark] /\ work' = [r \in Repos |-> Resting]
    BY <1>9 DEF Crash
  <2>3. mark' = [a \in Handlers \cup Repos |-> NoMark]
    BY <1>1, <2>2
  <2>4. /\ mark' \in [Handlers \cup Repos -> MarkType] /\ work' \in [Repos -> WorkType]
        /\ \A h \in Handlers : mark'[h] = NoMark
    BY <2>2, <2>3, NoMarkIs, RestingIs
  <2>5. jobs' = [r \in Repos |-> IF work[r] = Resting THEN jobs[r] ELSE Again(r)]
    BY <1>9 DEF Crash
  <2>6. jobs' \in [Repos -> Seq(PendingType)]
    <3>1. \A r \in Repos : jobs'[r] \in Seq(PendingType)
      BY <1>9, AgainIs
    <3>2. QED
      BY <2>5, <3>1
  <2>7. \A r \in Repos : \A n \in DOMAIN jobs'[r] : GoodJob(jobs'[r][n], event)
    <3> SUFFICES ASSUME NEW r \in Repos, NEW n \in DOMAIN jobs'[r]
                 PROVE  GoodJob(jobs'[r][n], event)
      OBVIOUS
    <3>1. CASE work[r] = Resting
      BY <1>1, <1>9, <3>1, AgainIs
    <3>2. CASE work[r] # Resting
      <4>1. \/ n = 1 /\ jobs'[r][n] = [kind |-> work[r].kind, from |-> work[r].from]
            \/ n - 1 \in DOMAIN jobs[r] /\ jobs'[r][n] = jobs[r][n - 1]
        BY <1>9, <3>2, AgainIs
      <4>2. GoodJob(work[r], event)
        BY <1>9, <3>2, AgainIs
      <4>3. GoodJob([kind |-> work[r].kind, from |-> work[r].from], event)
        BY <4>2 DEF GoodJob
      <4>4. QED
        BY <1>1, <4>1, <4>3
    <3>3. QED
      BY <3>1, <3>2
  <2>8. QED
    BY <1>9, <2>1, <2>4, <2>6, <2>7, CrashIs DEF QueueTypes
<1>10. ASSUME NEW u \in Users, UserStep(u)  PROVE QueueTypes'
  <2>1. UNCHANGED <<hook, event, work, mark>>
    BY <1>10, UserFrame
  <2>2. CASE EnqueueReindex(u)
    <3> DEFINE p == [kind |-> "full", from |-> u]
               r == request[u].repo
    <3>1. jobs' = [jobs EXCEPT ![r] = Append(@, p)]
      BY <2>2 DEF EnqueueReindex, Enqueued
    <3>2. r \in Repos
      BY <2>2 DEF EnqueueReindex, DashTypes, GoodRequest
    <3>3. p \in PendingType /\ GoodJob(p, event)
      BY Constant DEF PendingType, GoodJob, JobKinds
    <3> HIDE DEF p, r
    <3>4. /\ jobs' \in [Repos -> Seq(PendingType)]
          /\ \A q \in Repos : \A n \in DOMAIN jobs'[q] : GoodJob(jobs'[q][n], event)
      BY <3>1, <3>2, <3>3, EnqueuedIs
    <3>5. \A h \in Handlers : EventOf(h)' = EventOf(h)
      BY <2>1 DEF EventOf
    <3>6. QED
      BY <1>1, <2>1, <3>4, <3>5 DEF QueueTypes
  <2>3. CASE Ask(u) \/ SignIn(u) \/ CreateToken(u) \/ CheckRepository(u) \/ CheckInstallation(u)
    <3>1. jobs' = jobs
      BY <2>3 DEF Ask, StartLogin, Logout, StartRequest, StartErase, SignIn, SaveUser, LinkNext,
                  SaveSession, CreateToken, CheckRepository, CheckInstallation, queue
    <3>2. QED
      BY <1>4, <2>1, <3>1
  <2>4. QED
    BY <1>10, <2>2, <2>3 DEF UserStep, Serve
<1>11. ASSUME NEW u \in Users, EraseStep(u)  PROVE QueueTypes'
  <2>1. UNCHANGED <<hook, event, work, mark>>
    BY <1>11, EraseFrame
  <2>2. CASE DeleteJobs(u)
    <3>1. PICK r \in erase[u].repos : jobs' = [jobs EXCEPT ![r] = <<>>]
      BY <2>2 DEF DeleteJobs
    <3>2. r \in Repos
      BY <3>1 DEF DashTypes, EraseType
    <3>3. /\ jobs' \in [Repos -> Seq(PendingType)] /\ jobs'[r] = <<>>
          /\ \A q \in Repos \ {r} : jobs'[q] = jobs[q]
      BY <1>1, <3>1, <3>2, EmptySeq
    <3>4. \A q \in Repos : \A n \in DOMAIN jobs'[q] : GoodJob(jobs'[q][n], event)
      BY <1>1, <3>3, EmptySeq
    <3>5. \A h \in Handlers : EventOf(h)' = EventOf(h)
      BY <2>1 DEF EventOf
    <3>6. QED
      BY <1>1, <2>1, <3>3, <3>4, <3>5 DEF QueueTypes
  <2>3. ASSUME ~DeleteJobs(u)  PROVE jobs' = jobs
    <3>1. CASE ListInstallations(u) \/ Unlink(u) \/ CountUsers(u) \/ ListRepositories(u)
               \/ EraseThrows(u)
      BY <3>1 DEF ListInstallations, Unlink, CountUsers, ListRepositories, EraseThrows, queue
    <3>2. CASE ListCollections(u) \/ DeleteCollection(u) \/ DeleteManifest(u) \/ NextRepository(u)
      BY <3>2 DEF ListCollections, DeleteCollection, DeleteManifest, NextRepository, queue
    <3>3. CASE DeleteRepositories(u) \/ DeleteInstallation(u) \/ DeleteSessions(u)
               \/ DeleteTokens(u) \/ DeleteUser(u)
      BY <3>3 DEF DeleteRepositories, DeleteInstallation, DeleteSessions, DeleteTokens, DeleteUser,
                  queue
    <3>4. QED
      BY <1>11, <2>3, <3>1, <3>2, <3>3 DEF EraseStep, Erase
  <2>4. QED
    BY <1>4, <2>1, <2>2, <2>3
<1>12. QED
  BY <1>4, <1>5, <1>6, <1>7, <1>8, <1>9, <1>10, <1>11, Actors, ReportedIs, LoginThrowsIs, StutterIs
     DEF GithubTypes

-----------------------------------------------------------------------------
(* The steps of a request to erase.                                        *)

EraseSet(u) ==
  /\ erase' \in [Users -> EraseType] /\ GoodErase(erase'[u], astray')
  /\ \A v \in Users \ {u} : erase'[v] = erase[v]

LEMMA EraseSetBy ==
  ASSUME DashTypes, NEW u \in Users, NEW y \in EraseType, GoodErase(y, astray'),
         erase' = [erase EXCEPT ![u] = y]
  PROVE  EraseSet(u) /\ erase'[u] = y
<1>1. erase \in [Users -> EraseType]
  BY DEF DashTypes
<1>2. /\ erase'[u] = y /\ erase' \in [Users -> EraseType]
      /\ \A v \in Users \ {u} : erase'[v] = erase[v]
  BY <1>1
<1>3. QED
  BY <1>2 DEF EraseSet

LEMMA NotErasingIs ==
  ASSUME NEW pc \in Away, NEW swept
  PROVE  LET y == [NotErasing EXCEPT !.pc = pc]
         IN /\ y \in EraseType /\ GoodErase(y, swept) /\ y.pc = pc /\ y.at = None
            /\ y.repo = None /\ y.todo = {} /\ y.repos = {}
<1> DEFINE y == [NotErasing EXCEPT !.pc = pc]
<1>1. /\ y.pc = pc /\ y.at = None /\ y.repo = None /\ y.todo = {} /\ y.repos = {} /\ y.colls = {}
      /\ y.coll = None
  BY DEF NotErasing
<1>2. y \in EraseType
  BY DEF NotErasing, EraseType, Away
<1> HIDE DEF y
<1>3. GoodErase(y, swept)
  BY <1>1, <1>2 DEF GoodErase, Away, Present
<1>4. QED
  BY <1>1, <1>2, <1>3 DEF y

LEMMA StartEraseIs ==
  ASSUME Shape, NEW u \in Users, StartErase(u)
  PROVE  /\ EraseSet(u) /\ erase'[u].pc = "list" /\ erase'[u].at = None
         /\ erase[u].at = None /\ touched' = touched \ {u}
         /\ UNCHANGED <<jobs, links, users, sessions, tokens, installations, login, request>>
<1> USE DEF Shape
<1> DEFINE y == [NotErasing EXCEPT !.pc = "list"]
<1>1. /\ erase' = [erase EXCEPT ![u] = y] /\ erase[u].pc \in {"idle", "ok", "error"}
      /\ touched' = touched \ {u}
      /\ UNCHANGED <<jobs, links, users, sessions, tokens, installations, login, request>>
  BY DEF StartErase, tables, people, queue
<1>2. y \in EraseType /\ GoodErase(y, astray') /\ y.pc = "list" /\ y.at = None
  BY NotErasingIs DEF Away
<1> HIDE DEF y
<1>3. erase[u].at = None
  BY <1>1 DEF DashTypes, GoodErase, Present
<1>4. QED
  BY <1>1, <1>2, <1>3, EraseSetBy

\* What a step of the request that only reads leaves alone.
Reads ==
  UNCHANGED <<jobs, links, users, sessions, tokens, installations, repositories, collections,
              manifests, touched, failed, astray>>

LEMMA ListInstallationsIs ==
  ASSUME Shape, NEW u \in Users, ListInstallations(u)
  PROVE  /\ EraseSet(u) /\ Reads /\ erase'[u].pc = "next" /\ erase'[u].at = None
         /\ erase[u].at = None
<1> USE DEF Shape
<1> DEFINE x == erase[u]
           y == [x EXCEPT !.pc = "next", !.todo = LinkedTo(u)]
<1>1. x \in EraseType /\ GoodErase(x, astray)
  BY DEF DashTypes
<1>2. /\ erase' = [erase EXCEPT ![u] = y] /\ x.pc = "list" /\ Reads
  BY DEF ListInstallations, Reads, tables, people, queue, index, history, DashTypes
<1>3. LinkedTo(u) \subseteq Installations
  BY DEF LinkedTo
<1>4. /\ y \in EraseType /\ y.pc = "next" /\ y.at = x.at /\ y.repos = x.repos
      /\ y.repo = x.repo /\ y.colls = x.colls /\ y.coll = x.coll
  BY <1>1, <1>3 DEF EraseType, Away
<1> HIDE DEF x, y
<1>5. GoodErase(y, astray') /\ x.at = None
  BY <1>1, <1>2, <1>4 DEF GoodErase, Reads, Away, Present
<1>6. QED
  BY <1>1, <1>2, <1>4, <1>5, EraseSetBy DEF x, GoodErase

LEMMA UnlinkIs ==
  ASSUME Shape, NEW u \in Users, Unlink(u)
  PROVE  \E i \in Installations :
           /\ EraseSet(u) /\ erase[u].pc = "next" /\ erase[u].at = None
           /\ erase'[u].pc = "count" /\ erase'[u].at = i
           /\ links' = links \ {<<u, i>>}
           /\ touched' = IF Findable(u, i) THEN touched \ {i} ELSE touched
           /\ UNCHANGED <<jobs, users, sessions, tokens, installations, repositories, collections,
                          manifests, failed, astray>>
<1> USE DEF Shape
<1> DEFINE x == erase[u]
<1>1. x \in EraseType /\ GoodErase(x, astray)
  BY DEF DashTypes
<1>2. PICK i \in x.todo :
        /\ links' = links \ {<<u, i>>}
        /\ erase' = [erase EXCEPT ![u].pc = "count", ![u].at = i, ![u].todo = @ \ {i}]
        /\ touched' = IF Findable(u, i) THEN touched \ {i} ELSE touched
  BY DEF Unlink, Unlinked
<1> DEFINE y == [x EXCEPT !.pc = "count", !.at = i, !.todo = @ \ {i}]
<1>3. /\ erase' = [erase EXCEPT ![u] = y]
      /\ i \in Installations
  BY <1>1, <1>2 DEF DashTypes, EraseType
<1>4. /\ x.pc = "next"
      /\ UNCHANGED <<jobs, users, sessions, tokens, installations, repositories, collections,
                     manifests, failed, astray>>
  BY DEF Unlink, queue, index
<1>5. /\ y \in EraseType /\ y.pc = "count" /\ y.at = i /\ y.repos = x.repos
      /\ y.repo = x.repo /\ y.colls = x.colls /\ y.coll = x.coll
  BY <1>1, <1>3 DEF EraseType, Present
<1> HIDE DEF x, y
<1>6. GoodErase(y, astray') /\ x.at = None
  BY <1>1, <1>3, <1>4, <1>5, Constant DEF GoodErase, Away, Present
<1>7. EraseSet(u) /\ erase'[u] = y
  BY <1>3, <1>5, <1>6, EraseSetBy
<1>8. QED
  BY <1>2, <1>3, <1>4, <1>5, <1>6, <1>7 DEF x

LEMMA CountUsersIs ==
  ASSUME Shape, NEW u \in Users, CountUsers(u)
  PROVE  /\ EraseSet(u) /\ Reads /\ erase[u].pc = "count" /\ erase[u].at \in Installations
         /\ \/ /\ \E v \in Users : <<v, erase[u].at>> \in links
               /\ erase'[u].pc = "next" /\ erase'[u].at = None
            \/ /\ ~ \E v \in Users : <<v, erase[u].at>> \in links
               /\ erase'[u].pc = "list repositories" /\ erase'[u].at = erase[u].at
<1> USE DEF Shape
<1> DEFINE x == erase[u]
           b == Remaining(u, x.at) # {}
           y == IF b THEN [x EXCEPT !.pc = "next", !.at = None]
                ELSE [x EXCEPT !.pc = "list repositories"]
<1>1. x \in EraseType /\ GoodErase(x, astray)
  BY DEF DashTypes
<1>2. /\ erase' = [erase EXCEPT ![u] = y] /\ x.pc = "count" /\ Reads
  BY DEF CountUsers, Reads, tables, people, queue, index, history, DashTypes
<1>3. b <=> \E v \in Users : <<v, x.at>> \in links
  BY DEF Remaining
<1> HIDE DEF b
<1>4. /\ y \in EraseType /\ y.pc = (IF b THEN "next" ELSE "list repositories")
      /\ y.at = (IF b THEN None ELSE x.at) /\ y.repos = x.repos
      /\ y.repo = x.repo /\ y.colls = x.colls /\ y.coll = x.coll
  BY <1>1 DEF EraseType, Away, Present
<1> HIDE DEF x, y
<1>5. x.at # None /\ x.at \in Installations
  BY <1>1, <1>2 DEF GoodErase, EraseType, Present
<1>6. GoodErase(y, astray')
  BY <1>1, <1>2, <1>4, <1>5 DEF GoodErase, Reads, Away, Present
<1>7. EraseSet(u) /\ erase'[u] = y
  BY <1>2, <1>4, <1>6, EraseSetBy
<1>8. QED
  BY <1>2, <1>3, <1>4, <1>5, <1>7 DEF x

LEMMA ListRepositoriesIs ==
  ASSUME Shape, NEW u \in Users, ListRepositories(u)
  PROVE  /\ EraseSet(u) /\ Reads /\ erase[u].pc = "list repositories"
         /\ erase'[u].pc = "repositories" /\ erase'[u].at = erase[u].at
         /\ erase'[u].repos = RowsOf(erase[u].at)
<1> USE DEF Shape
<1> DEFINE x == erase[u]
           rs == RowsOf(x.at)
           y == [x EXCEPT !.pc = "repositories", !.repos = rs]
<1>1. x \in EraseType /\ GoodErase(x, astray)
  BY DEF DashTypes
<1>2. /\ erase' = [erase EXCEPT ![u] = y] /\ x.pc = "list repositories" /\ Reads
  BY DEF ListRepositories, Reads, tables, people, queue, index, history, DashTypes
<1>3. rs \subseteq Repos
  BY DEF RowsOf, Of
<1> HIDE DEF rs
<1>4. /\ y \in EraseType /\ y.pc = "repositories" /\ y.at = x.at /\ y.repos = rs
      /\ y.repo = x.repo /\ y.colls = x.colls /\ y.coll = x.coll
  BY <1>1, <1>3 DEF EraseType, Present
<1> HIDE DEF x, y
<1>5. GoodErase(y, astray')
  BY <1>1, <1>2, <1>4 DEF GoodErase, Reads, Away, Present
<1>6. EraseSet(u) /\ erase'[u] = y
  BY <1>2, <1>4, <1>5, EraseSetBy
<1>7. QED
  BY <1>2, <1>4, <1>6 DEF x, rs

LEMMA DeleteJobsIs ==
  ASSUME Shape, NEW u \in Users, DeleteJobs(u)
  PROVE  \E r \in Repos :
           /\ EraseSet(u) /\ erase[u].pc = "repositories" /\ r \in erase[u].repos
           /\ work[r] = Resting /\ jobs' = [jobs EXCEPT ![r] = <<>>]
           /\ jobs'[r] = <<>> /\ \A q \in Repos \ {r} : jobs'[q] = jobs[q]
           /\ astray' = astray \cup {r}
           /\ erase'[u].pc = "list collections" /\ erase'[u].at = erase[u].at
           /\ erase'[u].repo = r /\ erase'[u].repos = erase[u].repos \ {r}
           /\ UNCHANGED <<links, users, sessions, tokens, installations, repositories,
                          collections, manifests, touched, failed>>
<1> USE DEF Shape
<1> DEFINE x == erase[u]
<1>1. x \in EraseType /\ GoodErase(x, astray)
  BY DEF DashTypes
<1>2. PICK r \in x.repos :
        /\ work[r] = Resting /\ jobs' = [jobs EXCEPT ![r] = <<>>]
        /\ astray' = astray \cup {r}
        /\ erase' = [erase EXCEPT ![u].pc = "list collections", ![u].repo = r,
                                  ![u].repos = @ \ {r}]
  BY DEF DeleteJobs
<1> DEFINE y == [x EXCEPT !.pc = "list collections", !.repo = r, !.repos = @ \ {r}]
<1>3. /\ x.pc = "repositories"
      /\ UNCHANGED <<links, users, sessions, tokens, installations, repositories,
                     collections, manifests, touched, failed>>
  BY DEF DeleteJobs, tables, people, index
<1>4. r \in Repos /\ erase' = [erase EXCEPT ![u] = y] /\ jobs \in [Repos -> Seq(PendingType)]
  BY <1>1, <1>2 DEF DashTypes, EraseType, QueueTypes
<1>5. jobs'[r] = <<>> /\ \A q \in Repos \ {r} : jobs'[q] = jobs[q]
  BY <1>2, <1>4
<1>6. /\ y \in EraseType /\ y.pc = "list collections" /\ y.at = x.at /\ y.repos = x.repos \ {r}
      /\ y.repo = r /\ y.colls = x.colls /\ y.coll = x.coll
  BY <1>1, <1>4 DEF EraseType, Present
<1> HIDE DEF x, y
<1>7. GoodErase(y, astray')
  BY <1>1, <1>2, <1>3, <1>4, <1>6, Constant DEF GoodErase, Away, Present
<1>8. EraseSet(u) /\ erase'[u] = y
  BY <1>4, <1>6, <1>7, EraseSetBy
<1>9. QED
  BY <1>2, <1>3, <1>4, <1>5, <1>6, <1>8 DEF x

LEMMA ListCollectionsIs ==
  ASSUME Shape, NEW u \in Users, ListCollections(u)
  PROVE  /\ EraseSet(u) /\ Reads /\ erase[u].pc = "list collections" /\ erase[u].repo \in Repos
         /\ erase'[u].pc = "collections" /\ erase'[u].at = erase[u].at
         /\ erase'[u].repos = erase[u].repos /\ erase'[u].repo = erase[u].repo
         /\ erase'[u].colls = ListedFor(erase[u].repo)
<1> USE DEF Shape
<1> DEFINE x == erase[u]
           cs == ListedFor(x.repo)
           y == [x EXCEPT !.pc = "collections", !.colls = cs]
<1>1. x \in EraseType /\ GoodErase(x, astray)
  BY DEF DashTypes
<1>2. /\ erase' = [erase EXCEPT ![u] = y] /\ x.pc = "list collections" /\ Reads
  BY DEF ListCollections, Reads, tables, people, queue, index, history, DashTypes
<1>3. x.repo \in Repos
  BY <1>1, <1>2 DEF GoodErase, EraseType
<1>4. cs \subseteq CollType /\ \A c \in cs : c[1] = x.repo
  BY <1>3 DEF ListedFor, CollType, IndexTypes
<1> HIDE DEF cs
<1>5. /\ y \in EraseType /\ y.pc = "collections" /\ y.at = x.at /\ y.repos = x.repos
      /\ y.repo = x.repo /\ y.colls = cs /\ y.coll = x.coll
  BY <1>1, <1>4 DEF EraseType, Present
<1> HIDE DEF x, y
<1>6. GoodErase(y, astray')
  BY <1>1, <1>2, <1>3, <1>4, <1>5 DEF GoodErase, Reads, Away, Present
<1>7. EraseSet(u) /\ erase'[u] = y
  BY <1>2, <1>5, <1>6, EraseSetBy
<1>8. QED
  BY <1>2, <1>3, <1>5, <1>7 DEF x, cs

LEMMA DeleteCollectionIs ==
  ASSUME Shape, NEW u \in Users, DeleteCollection(u)
  PROVE  \E c \in erase[u].colls :
           /\ EraseSet(u) /\ erase[u].pc = "collections" /\ erase[u].repo \in Repos
           /\ c[1] = erase[u].repo
           /\ collections' = collections \ {c}
           /\ erase'[u].pc = "manifest" /\ erase'[u].at = erase[u].at
           /\ erase'[u].repos = erase[u].repos /\ erase'[u].repo = erase[u].repo
           /\ erase'[u].colls = erase[u].colls \ {c} /\ erase'[u].coll = c
           /\ UNCHANGED <<jobs, links, users, sessions, tokens, installations, repositories,
                          manifests, touched, failed, astray>>
<1> USE DEF Shape
<1> DEFINE x == erase[u]
<1>1. x \in EraseType /\ GoodErase(x, astray)
  BY DEF DashTypes
<1>2. PICK c \in x.colls :
        /\ collections' = collections \ {c}
        /\ erase' = [erase EXCEPT ![u].pc = "manifest", ![u].coll = c, ![u].colls = @ \ {c}]
  BY DEF DeleteCollection
<1> DEFINE y == [x EXCEPT !.pc = "manifest", !.coll = c, !.colls = @ \ {c}]
<1>3. /\ x.pc = "collections" /\ erase' = [erase EXCEPT ![u] = y]
      /\ UNCHANGED <<jobs, links, users, sessions, tokens, installations, repositories,
                     manifests, touched, failed, astray>>
  BY <1>1, <1>2 DEF DeleteCollection, tables, people, queue, history, DashTypes
<1>4. x.repo \in Repos /\ c \in CollType /\ c[1] = x.repo
  BY <1>1, <1>2, <1>3 DEF GoodErase, EraseType
<1>5. /\ y \in EraseType /\ y.pc = "manifest" /\ y.at = x.at /\ y.repos = x.repos
      /\ y.repo = x.repo /\ y.colls = x.colls \ {c} /\ y.coll = c
  BY <1>1, <1>4 DEF EraseType, Present
<1> HIDE DEF x, y
<1>6. GoodErase(y, astray')
  BY <1>1, <1>2, <1>3, <1>4, <1>5 DEF GoodErase, Away, Present
<1>7. EraseSet(u) /\ erase'[u] = y
  BY <1>3, <1>5, <1>6, EraseSetBy
<1>8. QED
  BY <1>2, <1>3, <1>4, <1>5, <1>7 DEF x

LEMMA DeleteManifestIs ==
  ASSUME Shape, NEW u \in Users, DeleteManifest(u)
  PROVE  /\ EraseSet(u) /\ erase[u].pc = "manifest" /\ erase[u].repo \in Repos
         /\ erase[u].coll[1] = erase[u].repo
         /\ manifests' = manifests \ {erase[u].coll}
         /\ erase'[u].pc = "collections" /\ erase'[u].at = erase[u].at
         /\ erase'[u].repos = erase[u].repos /\ erase'[u].repo = erase[u].repo
         /\ erase'[u].colls = erase[u].colls
         /\ UNCHANGED <<jobs, links, users, sessions, tokens, installations, repositories,
                        collections, touched, failed, astray>>
<1> USE DEF Shape
<1> DEFINE x == erase[u]
           y == [x EXCEPT !.pc = "collections", !.coll = None]
<1>1. x \in EraseType /\ GoodErase(x, astray)
  BY DEF DashTypes
<1>2. /\ x.pc = "manifest" /\ erase' = [erase EXCEPT ![u] = y]
      /\ manifests' = manifests \ {x.coll}
      /\ UNCHANGED <<jobs, links, users, sessions, tokens, installations, repositories,
                     collections, touched, failed, astray>>
  BY <1>1 DEF DeleteManifest, tables, people, queue, history, DashTypes
<1>3. x.repo \in Repos /\ x.coll[1] = x.repo
  BY <1>1, <1>2 DEF GoodErase, EraseType
<1>4. /\ y \in EraseType /\ y.pc = "collections" /\ y.at = x.at /\ y.repos = x.repos
      /\ y.repo = x.repo /\ y.colls = x.colls /\ y.coll = None
  BY <1>1 DEF EraseType, Present
<1> HIDE DEF x, y
<1>5. GoodErase(y, astray')
  BY <1>1, <1>2, <1>3, <1>4 DEF GoodErase, Away, Present
<1>6. EraseSet(u) /\ erase'[u] = y
  BY <1>2, <1>4, <1>5, EraseSetBy
<1>7. QED
  BY <1>2, <1>3, <1>4, <1>6 DEF x

LEMMA NextRepositoryIs ==
  ASSUME Shape, NEW u \in Users, NextRepository(u)
  PROVE  /\ EraseSet(u) /\ Reads /\ erase[u].pc = "collections" /\ erase[u].colls = {}
         /\ erase'[u].pc = "repositories" /\ erase'[u].at = erase[u].at
         /\ erase'[u].repos = erase[u].repos
<1> USE DEF Shape
<1> DEFINE x == erase[u]
           y == [x EXCEPT !.pc = "repositories", !.repo = None]
<1>1. x \in EraseType /\ GoodErase(x, astray)
  BY DEF DashTypes
<1>2. /\ erase' = [erase EXCEPT ![u] = y] /\ x.pc = "collections" /\ x.colls = {} /\ Reads
  BY DEF NextRepository, Reads, tables, people, queue, index, history, DashTypes
<1>3. /\ y \in EraseType /\ y.pc = "repositories" /\ y.at = x.at /\ y.repos = x.repos
      /\ y.repo = None /\ y.colls = x.colls /\ y.coll = x.coll
  BY <1>1 DEF EraseType, Present
<1> HIDE DEF x, y
<1>4. GoodErase(y, astray')
  BY <1>1, <1>2, <1>3 DEF GoodErase, Reads, Away, Present
<1>5. EraseSet(u) /\ erase'[u] = y
  BY <1>2, <1>3, <1>4, EraseSetBy
<1>6. QED
  BY <1>2, <1>3, <1>5 DEF x

LEMMA DeleteRepositoriesIs ==
  ASSUME Shape, NEW u \in Users, DeleteRepositories(u)
  PROVE  /\ EraseSet(u) /\ erase[u].pc = "repositories" /\ erase[u].repos = {}
         /\ repositories' = [r \in Repos |->
                               IF r \in Of(erase[u].at) THEN NoRow ELSE repositories[r]]
         /\ erase'[u].pc = "installation" /\ erase'[u].at = erase[u].at
         /\ UNCHANGED <<jobs, links, users, sessions, tokens, installations, collections,
                        manifests, touched, failed, astray>>
<1> USE DEF Shape
<1> DEFINE x == erase[u]
           y == [x EXCEPT !.pc = "installation"]
<1>1. x \in EraseType /\ GoodErase(x, astray)
  BY DEF DashTypes
<1>2. /\ x.pc = "repositories" /\ x.repos = {} /\ erase' = [erase EXCEPT ![u] = y]
      /\ repositories' = [r \in Repos |-> IF r \in Of(x.at) THEN NoRow ELSE repositories[r]]
      /\ UNCHANGED <<jobs, links, users, sessions, tokens, installations, collections,
                     manifests, touched, failed, astray>>
  BY <1>1 DEF DeleteRepositories, people, queue, index, history, DashTypes
<1>3. /\ y \in EraseType /\ y.pc = "installation" /\ y.at = x.at /\ y.repos = x.repos
      /\ y.repo = x.repo /\ y.colls = x.colls /\ y.coll = x.coll
  BY <1>1 DEF EraseType, Present
<1> HIDE DEF x, y
<1>4. GoodErase(y, astray')
  BY <1>1, <1>2, <1>3 DEF GoodErase, Away, Present
<1>5. EraseSet(u) /\ erase'[u] = y
  BY <1>2, <1>3, <1>4, EraseSetBy
<1>6. QED
  BY <1>2, <1>3, <1>5 DEF x

LEMMA DeleteInstallationIs ==
  ASSUME Shape, NEW u \in Users, DeleteInstallation(u)
  PROVE  /\ EraseSet(u) /\ erase[u].pc = "installation" /\ erase[u].at \in Installations
         /\ installations' = [installations EXCEPT ![erase[u].at] = None]
         /\ links' = {l \in links : l[2] # erase[u].at}
         /\ erase'[u].pc = "next" /\ erase'[u].at = None
         /\ UNCHANGED <<jobs, users, sessions, tokens, repositories, collections,
                        manifests, touched, failed, astray>>
<1> USE DEF Shape
<1> DEFINE x == erase[u]
           y == [x EXCEPT !.pc = "next", !.at = None]
<1>1. x \in EraseType /\ GoodErase(x, astray)
  BY DEF DashTypes
<1>2. /\ x.pc = "installation" /\ erase' = [erase EXCEPT ![u] = y]
      /\ installations' = [installations EXCEPT ![x.at] = None]
      /\ links' = {l \in links : l[2] # x.at}
      /\ UNCHANGED <<jobs, users, sessions, tokens, repositories, collections,
                     manifests, touched, failed, astray>>
  BY <1>1 DEF DeleteInstallation, queue, index, history, DashTypes
<1>3. /\ y \in EraseType /\ y.pc = "next" /\ y.at = None /\ y.repos = x.repos
      /\ y.repo = x.repo /\ y.colls = x.colls /\ y.coll = x.coll
  BY <1>1 DEF EraseType, Away
<1> HIDE DEF x, y
<1>4. GoodErase(y, astray') /\ x.at \in Installations
  BY <1>1, <1>2, <1>3 DEF GoodErase, Away, Present, EraseType
<1>5. EraseSet(u) /\ erase'[u] = y
  BY <1>2, <1>3, <1>4, EraseSetBy
<1>6. QED
  BY <1>2, <1>3, <1>4, <1>5 DEF x

LEMMA DeleteSessionsIs ==
  ASSUME Shape, NEW u \in Users, DeleteSessions(u) \/ DeleteTokens(u)
  PROVE  /\ EraseSet(u) /\ erase'[u].at = None /\ erase[u].at = None
         /\ \/ /\ sessions' = sessions \ {u} /\ tokens' = tokens /\ erase'[u].pc = "tokens"
            \/ /\ tokens' = tokens \ {u} /\ sessions' = sessions
               /\ erase[u].pc = "tokens" /\ erase'[u].pc = "user"
         /\ UNCHANGED <<jobs, links, users, installations, repositories, collections,
                        manifests, touched, failed, astray>>
<1> USE DEF Shape
<1> DEFINE x == erase[u]
<1>1. x \in EraseType /\ GoodErase(x, astray)
  BY DEF DashTypes
<1>2. PICK pc \in {"tokens", "user"} :
        /\ erase' = [erase EXCEPT ![u].pc = pc] /\ x.pc \in {"next", "tokens"}
        /\ \/ sessions' = sessions \ {u} /\ tokens' = tokens /\ pc = "tokens"
           \/ tokens' = tokens \ {u} /\ sessions' = sessions /\ x.pc = "tokens" /\ pc = "user"
        /\ UNCHANGED <<jobs, links, users, installations, repositories, collections,
                       manifests, touched, failed, astray>>
  BY DEF DeleteSessions, DeleteTokens, queue, index, history
<1> DEFINE y == [x EXCEPT !.pc = pc]
<1>3. /\ y \in EraseType /\ y.pc = pc /\ y.at = x.at /\ y.repos = x.repos
      /\ y.repo = x.repo /\ y.colls = x.colls /\ y.coll = x.coll
      /\ erase' = [erase EXCEPT ![u] = y]
  BY <1>1, <1>2 DEF EraseType, Away, DashTypes
<1> HIDE DEF x, y
<1>4. GoodErase(y, astray') /\ x.at = None
  BY <1>1, <1>2, <1>3 DEF GoodErase, Away, Present
<1>5. EraseSet(u) /\ erase'[u] = y
  BY <1>3, <1>4, EraseSetBy
<1>6. QED
  BY <1>2, <1>3, <1>4, <1>5 DEF x

LEMMA DeleteUserIs ==
  ASSUME Shape, NEW u \in Users, DeleteUser(u)
  PROVE  /\ EraseSet(u) /\ erase[u].pc = "user" /\ erase[u].at = None
         /\ erase'[u].pc = "ok" /\ erase'[u].at = None
         /\ users' = users \ {u} /\ links' = {l \in links : l[1] # u}
         /\ touched' = touched \cup {i \in Installations : <<u, i>> \in links}
         /\ UNCHANGED <<jobs, sessions, tokens, installations, repositories, collections,
                        manifests, failed, astray>>
<1> USE DEF Shape
<1> DEFINE y == [NotErasing EXCEPT !.pc = "ok"]
<1>1. /\ erase' = [erase EXCEPT ![u] = y] /\ erase[u].pc = "user"
      /\ users' = users \ {u} /\ links' = {l \in links : l[1] # u}
      /\ touched' = touched \cup {i \in Installations : <<u, i>> \in links}
      /\ UNCHANGED <<jobs, sessions, tokens, installations, repositories, collections,
                     manifests, failed, astray>>
  BY DEF DeleteUser, queue, index
<1>2. y \in EraseType /\ GoodErase(y, astray') /\ y.pc = "ok" /\ y.at = None
  BY NotErasingIs DEF Away
<1> HIDE DEF y
<1>3. erase[u].at = None
  BY <1>1 DEF DashTypes, GoodErase, Present
<1>4. QED
  BY <1>1, <1>2, <1>3, EraseSetBy

LEMMA EraseThrowsIs ==
  ASSUME Shape, NEW u \in Users, EraseThrows(u)
  PROVE  /\ EraseSet(u) /\ erase'[u].pc = "error" /\ erase'[u].at = None
         /\ failed' = failed \cup ({erase[u].at} \ {None})
         /\ UNCHANGED <<jobs, links, users, sessions, tokens, installations, repositories,
                        collections, manifests, touched, astray>>
<1> USE DEF Shape
<1> DEFINE y == [NotErasing EXCEPT !.pc = "error"]
<1>1. /\ erase' = [erase EXCEPT ![u] = y]
      /\ failed' = failed \cup ({erase[u].at} \ {None})
      /\ UNCHANGED <<jobs, links, users, sessions, tokens, installations, repositories,
                     collections, manifests, touched, astray>>
  BY DEF EraseThrows, Interrupted, tables, people, queue, index
<1>2. y \in EraseType /\ GoodErase(y, astray') /\ y.pc = "error" /\ y.at = None
  BY NotErasingIs DEF Away
<1> HIDE DEF y
<1>3. QED
  BY <1>1, <1>2, EraseSetBy

LEMMA EraseStepSet ==
  ASSUME Shape, NEW u \in Users, EraseStep(u)
  PROVE  EraseSet(u)
<1>1. CASE ListInstallations(u) \/ Unlink(u) \/ CountUsers(u) \/ ListRepositories(u)
  BY <1>1, ListInstallationsIs, UnlinkIs, CountUsersIs, ListRepositoriesIs
<1>2. CASE DeleteJobs(u) \/ ListCollections(u) \/ DeleteCollection(u) \/ DeleteManifest(u)
  BY <1>2, DeleteJobsIs, ListCollectionsIs, DeleteCollectionIs, DeleteManifestIs
<1>3. CASE NextRepository(u) \/ DeleteRepositories(u) \/ DeleteInstallation(u)
  BY <1>3, NextRepositoryIs, DeleteRepositoriesIs, DeleteInstallationIs
<1>4. CASE DeleteSessions(u) \/ DeleteTokens(u) \/ DeleteUser(u) \/ EraseThrows(u)
  BY <1>4, DeleteSessionsIs, DeleteUserIs, EraseThrowsIs
<1>5. QED
  BY <1>1, <1>2, <1>3, <1>4 DEF EraseStep, Erase

\* Only a request that erases takes something out of the index besides the jobs.
LEMMA EraseIndex ==
  ASSUME Shape, NEW u \in Users, EraseStep(u)
  PROVE  /\ collections' \subseteq collections /\ manifests' \subseteq manifests
         /\ astray \subseteq astray' /\ astray' \subseteq Repos /\ failed \subseteq failed'
         /\ touched' \subseteq touched \cup Installations
<1>1. CASE ListInstallations(u) \/ Unlink(u) \/ CountUsers(u) \/ ListRepositories(u)
  BY <1>1, ListInstallationsIs, UnlinkIs, CountUsersIs, ListRepositoriesIs
     DEF Reads, Shape, HistoryTypes
<1>2. CASE DeleteJobs(u) \/ ListCollections(u) \/ DeleteCollection(u) \/ DeleteManifest(u)
  BY <1>2, DeleteJobsIs, ListCollectionsIs, DeleteCollectionIs, DeleteManifestIs
     DEF Reads, Shape, HistoryTypes
<1>3. CASE NextRepository(u) \/ DeleteRepositories(u) \/ DeleteInstallation(u)
  BY <1>3, NextRepositoryIs, DeleteRepositoriesIs, DeleteInstallationIs
     DEF Reads, Shape, HistoryTypes
<1>4. CASE DeleteSessions(u) \/ DeleteTokens(u) \/ DeleteUser(u) \/ EraseThrows(u)
  BY <1>4, DeleteSessionsIs, DeleteUserIs, EraseThrowsIs DEF Shape, HistoryTypes
<1>5. QED
  BY <1>1, <1>2, <1>3, <1>4 DEF EraseStep, Erase

LEMMA IndexShape == ASSUME Shape, [Next]_vars  PROVE IndexTypes'
<1> USE DEF Shape
<1>1. CASE collections' \subseteq collections /\ manifests' \subseteq manifests
  BY <1>1 DEF IndexTypes
<1>2. ASSUME NEW r \in Repos, WorkStep(r)  PROVE IndexTypes'
  <2>1. CollOf(r) \in CollType
    BY DEF CollOf, CollType
  <2>2. CASE IndexCollection(r)
    BY <2>1, <2>2, IndexIs DEF IndexTypes
  <2>3. CASE SaveManifest(r)
    BY <2>1, <2>3, SaveIs DEF IndexTypes
  <2>4. CASE DropCollections(r)
    BY <1>1, <2>4, DropIs
  <2>5. CASE Claim(r) \/ Complete(r) \/ WorkThrows(r)
    BY <1>1, <2>5, ClaimIs, CompleteIs, WorkThrowsIs
  <2>6. QED
    BY <1>2, <2>2, <2>3, <2>4, <2>5 DEF WorkStep, Work
<1>3. ASSUME NEW d \in Deliveries, Deliver(d)  PROVE IndexTypes'
  BY <1>1, <1>3 DEF Deliver, index
<1>4. QED
  BY <1>1, <1>2, <1>3, Actors, ReportedIs, HandlerFrame, MarkFrame, UserFrame, EraseIndex, CrashIs,
     LoginThrowsIs, StutterIs DEF GithubTypes

\* What the histories of a handler's step are.
LEMMA HandlerHistory ==
  ASSUME Shape, NEW h \in Handlers, HandlerStep(h)
  PROVE  /\ astray \subseteq astray' /\ astray' \subseteq Repos
         /\ touched \subseteq touched' /\ touched' \subseteq touched \cup Installations
         /\ log' \in [Deliveries -> [Repos -> Nat]]
<1> USE DEF Shape, HistoryTypes
<1>1. CASE Reserve(h) \/ ReadStored(h) \/ ReadSource(h) \/ Accept(h)
  BY <1>1 DEF Reserve, ReadStored, ReadSource, Accept, history
<1>2. CASE Release(h) \/ HookThrows(h) \/ ReleaseThrows(h)
  BY <1>2 DEF Release, HookThrows, ReleaseThrows, history
<1>3. CASE EnqueueNext(h)
  <2>1. PICK j \in hook[h].jobs :
          /\ j.repo \in Repos /\ touched' = touched \cup {InstallationOf[j.repo]}
          /\ log' = [log EXCEPT ![hook[h].delivery][j.repo] = @ + 1]
    BY <1>3, EnqueueHook
  <2>2. log' \in [Deliveries -> [Repos -> Nat]]
    <3>1. hook[h].delivery \in Deliveries
      BY <1>3, EnqueueHook DEF HookTypes, GoodHook
    <3> DEFINE d == hook[h].delivery
               r == j.repo
    <3>2. log' = [log EXCEPT ![d] = [log[d] EXCEPT ![r] = log[d][r] + 1]]
      BY <2>1
    <3> HIDE DEF d, r
    <3>3. [log[d] EXCEPT ![r] = log[d][r] + 1] \in [Repos -> Nat]
      BY <2>1, <3>1 DEF d, r
    <3>4. QED
      BY <3>2, <3>3
  <2>3. QED
    BY <1>3, <2>1, <2>2, Constant DEF EnqueueNext
<1>4. CASE RecordInstallation(h)
  <2>1. hook[h].pc = "enqueue" /\ GoodHook(hook[h], event)
    BY <1>4 DEF RecordInstallation, At, HookTypes
  <2>2. EventOf(h).installation \in Installations
    BY <2>1 DEF EventOf, GoodHook, EventType
  <2>3. touched' \in {touched, touched \cup {EventOf(h).installation}}
    BY <1>4 DEF RecordInstallation
  <2>4. QED
    BY <1>4, <2>2, <2>3 DEF RecordInstallation
<1>5. CASE RecordNext(h)
  <2>1. PICK j \in hook[h].marks :
          /\ touched' \in {touched, touched \cup {InstallationOf[j.repo]}}
          /\ astray' \in {astray, astray \cup {j.repo}}
    BY <1>5 DEF RecordNext
  <2>2. j.repo \in Repos
    BY <2>1 DEF HookTypes, HookType, JobType
  <2>3. QED
    BY <1>5, <2>1, <2>2, Constant DEF RecordNext
<1>6. QED
  BY <1>1, <1>2, <1>3, <1>4, <1>5 DEF HandlerStep, Handle

LEMMA WorkHistory ==
  ASSUME Shape, NEW r \in Repos, WorkStep(r)
  PROVE  astray' \in {astray, astray \cup {r}}
  BY ClaimIs, IndexIs, SaveIs, DropIs, CompleteIs, WorkThrowsIs DEF WorkStep, Work

LEMMA UserHistory ==
  ASSUME Shape, NEW u \in Users, UserStep(u)
  PROVE  \/ StartErase(u) /\ touched' = touched \ {u}
         \/ touched \subseteq touched' /\ touched' \subseteq touched \cup {u} \cup Installations
<1> USE DEF Shape
<1>1. CASE Ask(u)
  BY <1>1 DEF Ask, StartLogin, Logout, StartRequest, StartErase, history
<1>2. CASE LinkNext(u)
  <2>1. PICK f \in login[u].found : touched' = touched \cup {u, f[1]}
    BY <1>2 DEF LinkNext
  <2>2. f[1] \in Installations
    BY <2>1 DEF PeopleTypes, LoginType
  <2>3. QED
    BY <2>1, <2>2
<1>3. CASE SaveUser(u) \/ SaveSession(u) \/ CreateToken(u) \/ CheckRepository(u)
           \/ CheckInstallation(u)
  BY <1>3 DEF SaveUser, SaveSession, CreateToken, CheckRepository, CheckInstallation, history
<1>4. CASE EnqueueReindex(u)
  <2>1. request[u].repo \in Repos
    BY <1>4 DEF EnqueueReindex, DashTypes, GoodRequest
  <2>2. QED
    BY <1>4, <2>1, Constant DEF EnqueueReindex
<1>5. QED
  BY <1>1, <1>2, <1>3, <1>4 DEF UserStep, SignIn, Serve

LEMMA MarkHistory ==
  ASSUME Shape, NEW a \in Handlers \cup Repos, MarkStep(a)
  PROVE  /\ mark[a] # NoMark /\ mark[a].repo \in Repos
         /\ \/ /\ a \in Handlers
               /\ touched' = touched \cup {InstallationOf[mark[a].repo]}
               /\ astray' = IF Pending(mark[a].repo, hook[a].delivery) THEN astray
                            ELSE astray \cup {mark[a].repo}
            \/ a \in Repos /\ a \notin Handlers /\ touched' = touched /\ astray' = astray
<1>1. mark[a] # NoMark
  BY DEF MarkStep
<1>2. mark[a].repo \in Repos
  BY <1>1 DEF Shape, QueueTypes, MarkType
<1>3. QED
  BY <1>1, <1>2 DEF MarkStep

LEMMA HistoryShape ==
  ASSUME Shape, [Next]_vars
  PROVE  HistoryTypes' /\ astray \subseteq astray'
<1> USE DEF Shape
<1>1. CASE UNCHANGED <<log, astray, touched>>
  BY <1>1 DEF HistoryTypes
<1>2. ASSUME NEW h \in Handlers, HandlerStep(h)  PROVE HistoryTypes' /\ astray \subseteq astray'
  BY <1>2, HandlerHistory DEF HistoryTypes
<1>3. ASSUME NEW r \in Repos, WorkStep(r)  PROVE HistoryTypes' /\ astray \subseteq astray'
  BY <1>3, WorkHistory, WorkFrame DEF HistoryTypes
<1>4. ASSUME NEW a \in Handlers \cup Repos, MarkStep(a)
      PROVE  HistoryTypes' /\ astray \subseteq astray'
  BY <1>4, MarkHistory, MarkFrame, Constant DEF HistoryTypes
<1>5. ASSUME NEW u \in Users, UserStep(u)  PROVE HistoryTypes' /\ astray \subseteq astray'
  BY <1>5, UserHistory, UserFrame DEF HistoryTypes
<1>6. ASSUME NEW u \in Users, EraseStep(u)  PROVE HistoryTypes' /\ astray \subseteq astray'
  BY <1>6, EraseIndex, EraseFrame DEF HistoryTypes
<1>7. ASSUME NEW d \in Deliveries, Deliver(d)  PROVE HistoryTypes' /\ astray \subseteq astray'
  BY <1>1, <1>7 DEF Deliver, history
<1>8. QED
  BY <1>1, <1>2, <1>3, <1>4, <1>5, <1>6, <1>7, Actors, ReportedIs, CrashIs, LoginThrowsIs,
     StutterIs DEF GithubTypes

LEMMA DashShape == ASSUME Shape, [Next]_vars  PROVE DashTypes'
<1> USE DEF Shape
<1>1. /\ request \in [Users -> RequestType] /\ erase \in [Users -> EraseType]
      /\ \A u \in Users : GoodRequest(request[u]) /\ GoodErase(erase[u], astray)
  BY DEF DashTypes
<1>2. astray \subseteq astray'
  BY HistoryShape
<1>3. ASSUME NEW u \in Users  PROVE GoodErase(erase[u], astray')
  BY <1>1, <1>2 DEF GoodErase
<1>4. CASE UNCHANGED <<request, erase>>
  BY <1>1, <1>3, <1>4 DEF DashTypes
<1>5. NoRequest \in RequestType /\ GoodRequest(NoRequest)
  BY DEF NoRequest, RequestType, GoodRequest
<1>6. ASSUME NEW u \in Users, NEW x \in RequestType, GoodRequest(x),
             request' = [request EXCEPT ![u] = x], erase' = erase
      PROVE  DashTypes'
  <2>1. request' \in [Users -> RequestType]
    BY <1>1, <1>6
  <2>2. \A v \in Users : request'[v] = IF v = u THEN x ELSE request[v]
    BY <1>1, <1>6
  <2>3. \A v \in Users : GoodRequest(request'[v])
    BY <1>1, <1>6, <2>2
  <2>4. QED
    BY <1>1, <1>3, <1>6, <2>1, <2>3 DEF DashTypes
<1>7. ASSUME NEW u \in Users, EraseSet(u), request' = request  PROVE DashTypes'
  <2>1. \A v \in Users : GoodErase(erase'[v], astray')
    BY <1>3, <1>7 DEF EraseSet
  <2>2. QED
    BY <1>1, <1>7, <2>1 DEF DashTypes, EraseSet
<1>8. ASSUME NEW u \in Users, UserStep(u)  PROVE DashTypes'
  <2>1. CASE StartErase(u)
    BY <1>7, <2>1, StartEraseIs
  <2>2. CASE StartLogin(u) \/ Logout(u) \/ SignIn(u)
    BY <1>4, <2>2 DEF StartLogin, Logout, SignIn, SaveUser, LinkNext, SaveSession, dash
  <2>3. CASE StartRequest(u)
    <3>1. PICK x \in {[kind |-> "token", repo |-> None]}
                     \cup {[kind |-> "repository", repo |-> r] : r \in Repos} :
            request' = [request EXCEPT ![u] = x]
      BY <2>3 DEF StartRequest
    <3>2. x \in RequestType /\ GoodRequest(x)
      BY <3>1 DEF RequestType, GoodRequest
    <3>3. QED
      BY <1>6, <2>3, <3>1, <3>2 DEF StartRequest
  <2>4. CASE CreateToken(u) \/ EnqueueReindex(u)
    BY <1>5, <1>6, <2>4 DEF CreateToken, EnqueueReindex
  <2>5. CASE CheckRepository(u) \/ CheckInstallation(u)
    <3> DEFINE x == request[u]
    <3>1. x \in RequestType /\ x.repo \in Repos
      BY <1>1, <2>5 DEF CheckRepository, CheckInstallation, GoodRequest
    <3>2. PICK kind \in {"installation", "enqueue"} :
            \/ request' = [request EXCEPT ![u] = [x EXCEPT !.kind = kind]]
            \/ request' = [request EXCEPT ![u] = NoRequest]
      BY <1>1, <2>5 DEF CheckRepository, CheckInstallation
    <3>3. [x EXCEPT !.kind = kind] \in RequestType /\ GoodRequest([x EXCEPT !.kind = kind])
      BY <3>1 DEF RequestType, GoodRequest
    <3>4. erase' = erase
      BY <2>5 DEF CheckRepository, CheckInstallation
    <3> HIDE DEF x
    <3>5. QED
      BY <1>5, <1>6, <3>2, <3>3, <3>4
  <2>6. QED
    BY <1>8, <2>1, <2>2, <2>3, <2>4, <2>5 DEF UserStep, Ask, Serve
<1>9. ASSUME NEW u \in Users, EraseStep(u)  PROVE DashTypes'
  BY <1>7, <1>9, EraseStepSet, EraseFrame
<1>10. CASE Crash
  <2> DEFINE y == [NotErasing EXCEPT !.pc = "error"]
  <2>1. y \in EraseType /\ GoodErase(y, astray')
    BY NotErasingIs DEF Away
  <2> HIDE DEF y
  <2>2. /\ request' = [u \in Users |-> NoRequest]
        /\ erase' = [u \in Users |-> IF Erasing(u) THEN y ELSE erase[u]]
    BY <1>10 DEF Crash, Interrupted, y
  <2>3. erase' \in [Users -> EraseType] /\ request' \in [Users -> RequestType]
    BY <1>1, <1>5, <2>1, <2>2
  <2>4. \A u \in Users : GoodErase(erase'[u], astray') /\ GoodRequest(request'[u])
    BY <1>3, <1>5, <2>1, <2>2
  <2>5. QED
    BY <2>3, <2>4 DEF DashTypes
<1>11. ASSUME NEW d \in Deliveries, Deliver(d)  PROVE DashTypes'
  BY <1>4, <1>11 DEF Deliver, dash
<1>12. QED
  BY <1>4, <1>8, <1>9, <1>10, <1>11, Actors, ReportedIs, HandlerFrame, WorkFrame, MarkFrame,
     LoginThrowsIs, StutterIs DEF GithubTypes

LEMMA InitShape == ASSUME Init  PROVE Shape
<1> USE DEF Init
<1>1. GithubTypes
  BY DEF GithubTypes
<1>2. HookTypes
  <2>1. hook = [h \in Handlers |-> NoHook] /\ \A h \in Handlers : hook[h] = NoHook
    OBVIOUS
  <2>2. QED
    BY <2>1, NoHookIsGood DEF HookTypes
<1>3. PeopleTypes
  BY DEF PeopleTypes, NoLogin, LoginType
<1>4. TableTypes
  BY DEF TableTypes, RowType, Statuses
<1>5. QueueTypes
  <2>1. /\ \A r \in Repos : jobs[r] = <<>> /\ work[r] = Resting /\ mark[r] = NoMark
        /\ \A h \in Handlers : mark[h] = NoMark
        /\ jobs \in [Repos -> Seq(PendingType)]
    BY EmptySeq
  <2>2. work \in [Repos -> WorkType] /\ mark \in [Handlers \cup Repos -> MarkType]
    BY RestingIs, NoMarkIs
  <2>3. \A r \in Repos : GoodWork(r, work[r], mark[r], event)
    BY <2>1, RestingIs DEF GoodWork
  <2>4. QED
    BY <2>1, <2>2, <2>3, EmptySeq DEF QueueTypes
<1>6. IndexTypes
  BY DEF IndexTypes, CollType
<1>7. DashTypes
  <2> DEFINE y == [NotErasing EXCEPT !.pc = "idle"]
  <2>1. NotErasing = y
    <3>1. NotErasing.pc = "idle"
      BY DEF NotErasing
    <3>2. NotErasing = [f \in DOMAIN NotErasing |-> NotErasing[f]]
      BY DEF NotErasing
    <3>3. QED
      BY <3>1, <3>2
  <2>2. NotErasing \in EraseType /\ GoodErase(NotErasing, astray)
    BY <2>1, NotErasingIs DEF Away
  <2>3. NoRequest \in RequestType /\ GoodRequest(NoRequest)
    BY DEF NoRequest, RequestType, GoodRequest
  <2>4. QED
    BY <2>2, <2>3 DEF DashTypes
<1>8. HistoryTypes
  BY DEF HistoryTypes
<1>9. QED
  BY <1>1, <1>2, <1>3, <1>4, <1>5, <1>6, <1>7, <1>8 DEF Shape

LEMMA ShapeStep == ASSUME Shape, [Next]_vars  PROVE Shape'
  BY GithubShape, HookShape, PeopleShape, TableShape, QueueShape, IndexShape, DashShape,
     HistoryShape
     DEF Shape

LEMMA ShapeHolds == Spec => []Shape
<1>1. Init => Shape
  BY InitShape
<1>2. Shape /\ [Next]_vars => Shape'
  BY ShapeStep
<1>3. QED
  BY <1>1, <1>2, PTL DEF Spec

\* Every table, queue and call holds what it may: in particular no handler, job or
\* request is ever at a stage, or about a repository, that the code does not know.
THEOREM TypeCorrect == Spec => []TypeOK
<1>1. ASSUME Shape  PROVE TypeOK
  <2> USE <1>1 DEF Shape
  <2>1. \A d \in Deliveries : event[d].repos \subseteq Repos
    BY DEF GithubTypes, EventType, NoEvent
  <2>2. \A h \in Handlers :
          /\ hook[h].jobs \cup hook[h].marks \subseteq [kind : JobKinds, repo : Repos]
          /\ hook[h].pc \in {"idle", "reserve", "stored", "source", "enqueue", "record", "release"}
    BY DEF HookTypes, HookType, JobType, Stages
  <2>3. /\ repositories \in [Repos -> [status : {None} \cup Statuses, sha : BOOLEAN]]
        /\ installations \in [Installations -> {None, "active", "suspended", "deleted"}]
    BY DEF TableTypes, RowType
  <2>4. \A r \in Repos : work[r].pc \in {"idle", "index", "save", "drop", "done"}
    BY DEF QueueTypes, WorkType
  <2>5. QED
    BY <2>1, <2>2, <2>3, <2>4
       DEF TypeOK, GithubTypes, HookTypes, PeopleTypes, IndexTypes, CollType, HistoryTypes
<1>2. QED
  BY <1>1, ShapeHolds, PTL

-----------------------------------------------------------------------------
(* Who holds a delivery, and how often its jobs are enqueued.              *)

LEMMA HolderSame ==
  ASSUME Shape, Stays, HolderInv, OnceInv, UNCHANGED <<hook, deliveries, log, lost>>,
         failed \subseteq failed'
  PROVE  HolderInv' /\ OnceInv'
<1>1. \A h \in Handlers : hook[h].pc \in Stages =>
        EventOf(h)' = EventOf(h) /\ EventOf(h) \in EventType
  BY DEF Stays, Shape, HookTypes, GoodHook, Stages, EventOf
<1>2. \A d \in deliveries : event'[d] = event[d]
  BY DEF Stays, HolderInv, Shape, HookTypes
<1>3. HolderInv'
  BY <1>1, <1>2 DEF HolderInv, Holds, Stages
<1>4. OnceInv'
  BY DEF OnceInv, Holds
<1>5. QED
  BY <1>3, <1>4

\* A step of h says what the invariants are about for h and its delivery only.
LEMMA HolderBy ==
  ASSUME Shape, HolderInv, NEW h \in Handlers, HookSet(h), event' = event,
         \A d \in Deliveries, r \in Repos : log[d][r] > 0 => log'[d][r] > 0,
         lost \subseteq lost',
         \A d \in deliveries' : d \in Deliveries /\ event[d] \in EventType,
         \A d \in Deliveries \ {hook[h].delivery} : d \in deliveries <=> d \in deliveries',
         hook'[h].pc \in Stages => /\ hook'[h].delivery = hook[h].delivery
                                   /\ hook[h].delivery \in deliveries'
                                   /\ Holds(h, hook[h].delivery)
                                      \/ hook[h].delivery \notin deliveries,
         hook[h].delivery \notin deliveries' =>
           \A g \in Handlers \ {h} : ~Holds(g, hook[h].delivery),
         hook[h].delivery \in deliveries' \ lost' /\ hook'[h].pc \notin Stages =>
           \/ \A j \in JobsOf(event[hook[h].delivery]) : log'[hook[h].delivery][j.repo] > 0
           \/ ~Holds(h, hook[h].delivery) /\ hook[h].delivery \in deliveries,
         hook'[h].pc \in {"enqueue", "record"} =>
           \A j \in JobsOf(event[hook[h].delivery]) :
              \/ hook'[h].pc = "enqueue" /\ j \in hook'[h].jobs
              \/ log'[hook[h].delivery][j.repo] > 0
  PROVE  HolderInv'
<1> DEFINE x == hook[h].delivery
<1>1. \A g \in Handlers \ {h} : /\ hook'[g] = hook[g]
                                /\ \A d : Holds(g, d)' <=> Holds(g, d)
  BY DEF HookSet, Holds
<1>2. \A d : Holds(h, d)' <=> hook'[h].pc \in Stages /\ d = x
  BY DEF Holds
<1>3. ASSUME NEW g \in Handlers, hook'[g].pc \in Stages  PROVE hook'[g].delivery \in deliveries'
  <2>1. CASE g = h
    BY <1>3, <2>1
  <2>2. CASE g # h
    <3>1. Holds(g, hook[g].delivery) /\ hook[g].delivery \in deliveries /\ hook'[g] = hook[g]
      BY <1>1, <1>3, <2>2 DEF Holds, HolderInv
    <3>2. hook[g].delivery \in Deliveries
      BY <3>1 DEF Shape, HookTypes
    <3>3. QED
      BY <2>2, <3>1, <3>2
  <2>3. QED
    BY <2>1, <2>2
<1>4. ASSUME NEW d \in Deliveries, NEW f \in Handlers, NEW g \in Handlers,
             Holds(f, d)', Holds(g, d)'
      PROVE  f = g
  <2>1. ASSUME NEW k \in Handlers, k # h, Holds(k, d)', Holds(h, d)'  PROVE FALSE
    <3>1. d = x /\ hook'[h].pc \in Stages /\ Holds(k, d)
      BY <1>1, <1>2, <2>1
    <3>2. d \in deliveries
      BY <3>1 DEF HolderInv, Holds
    <3>3. Holds(h, d)
      BY <3>1, <3>2
    <3>4. QED
      BY <2>1, <3>1, <3>3 DEF HolderInv
  <2>2. CASE f # h /\ g # h
    BY <1>1, <1>4, <2>2 DEF HolderInv
  <2>3. QED
    BY <1>4, <2>1, <2>2
<1>5. ASSUME NEW d \in deliveries' \ lost', \A g \in Handlers : ~Holds(g, d)',
             NEW j \in JobsOf(event[d])
      PROVE  log'[d][j.repo] > 0
  <2>1. event[d] \in EventType /\ \A g \in Handlers \ {h} : ~Holds(g, d)
    BY <1>1, <1>5
  <2>2. j.repo \in Repos
    BY <2>1, JobsOfIs DEF JobType
  <2>3. d \in Deliveries
    BY <1>5
  <2>4. ASSUME d \in deliveries, ~Holds(h, d)  PROVE log'[d][j.repo] > 0
    <3>1. log[d][j.repo] > 0
      BY <1>5, <2>1, <2>4 DEF HolderInv
    <3>2. QED
      BY <2>2, <2>3, <3>1
  <2>5. CASE d # x
    BY <2>3, <2>4, <2>5 DEF Holds
  <2>6. CASE d = x
    <3>1. hook'[h].pc \notin Stages
      BY <1>2, <1>5, <2>6
    <3>2. QED
      BY <1>5, <2>4, <2>6, <3>1
  <2>7. QED
    BY <2>5, <2>6
<1>6. ASSUME NEW g \in Handlers, hook'[g].pc \in {"enqueue", "record"},
             NEW j \in JobsOf(event'[hook'[g].delivery])
      PROVE  \/ hook'[g].pc = "enqueue" /\ j \in hook'[g].jobs
             \/ log'[hook'[g].delivery][j.repo] > 0
  <2>1. CASE g = h
    BY <1>6, <2>1 DEF Stages
  <2>2. CASE g # h
    <3>1. hook'[g] = hook[g] /\ hook[g].delivery \in Deliveries
          /\ event[hook[g].delivery] \in EventType
      BY <1>1, <1>6, <2>2 DEF Shape, HookTypes, GoodHook
    <3>2. j.repo \in Repos
      BY <1>6, <3>1, JobsOfIs DEF JobType
    <3>3. QED
      BY <1>6, <3>1, <3>2 DEF HolderInv, EventOf
  <2>3. QED
    BY <2>1, <2>2
<1>7. QED
  BY <1>3, <1>4, <1>5, <1>6 DEF HolderInv, EventOf

\* The same for the number of times.
LEMMA OnceBy ==
  ASSUME Shape, HolderInv, OnceInv, NEW h \in Handlers, HookSet(h), failed \subseteq failed',
         UNCHANGED log, deliveries \subseteq deliveries',
         \A d \in Deliveries \ {hook[h].delivery} : d \in deliveries <=> d \in deliveries',
         hook'[h].pc \in {"stored", "source"} =>
           /\ hook'[h].delivery = hook[h].delivery
           /\ \/ hook[h].delivery \notin deliveries
              \/ hook[h].pc \in {"stored", "source"},
         hook'[h].pc = "enqueue" =>
           /\ hook'[h].delivery = hook[h].delivery
           /\ \/ hook[h].delivery \notin deliveries
              \/ hook[h].pc \in {"stored", "source"}
              \/ hook[h].pc = "enqueue" /\ hook'[h].jobs \subseteq hook[h].jobs
  PROVE  OnceInv'
<1> SUFFICES ASSUME NEW d \in Deliveries \ failed'
             PROVE  /\ \A r \in Repos : log[d][r] <= 1
                    /\ d \notin deliveries' => \A r \in Repos : log[d][r] = 0
                    /\ \A g \in Handlers : Holds(g, d)' =>
                         /\ hook'[g].pc \in {"stored", "source"} => \A r \in Repos : log[d][r] = 0
                         /\ hook'[g].pc = "enqueue" => \A j \in hook'[g].jobs : log[d][j.repo] = 0
  BY DEF OnceInv
<1>1. d \notin failed
  OBVIOUS
<1>2. \A r \in Repos : log[d][r] <= 1
  BY <1>1 DEF OnceInv
<1>3. d \notin deliveries' => \A r \in Repos : log[d][r] = 0
  BY <1>1 DEF OnceInv
<1>4. ASSUME NEW g \in Handlers, Holds(g, d)'
      PROVE  /\ hook'[g].pc \in {"stored", "source"} => \A r \in Repos : log[d][r] = 0
             /\ hook'[g].pc = "enqueue" => \A j \in hook'[g].jobs : log[d][j.repo] = 0
  <2>1. CASE g # h
    <3>1. hook'[g] = hook[g] /\ Holds(g, d)
      BY <1>4, <2>1 DEF HookSet, Holds
    <3>2. QED
      BY <1>1, <3>1 DEF OnceInv
  <2>2. CASE g = h
    <3>1. hook'[h] \in HookType /\ hook'[h].delivery = d
      BY <1>4, <2>2 DEF HookSet, Holds
    <3>2. \A j \in hook'[h].jobs : j.repo \in Repos
      BY <3>1 DEF HookType, JobType
    <3>3. hook'[h].pc \in {"stored", "source", "enqueue"} => hook[h].delivery = d
      BY <3>1
    <3>4. CASE hook[h].delivery = d /\ d \notin deliveries
      BY <1>1, <2>2, <3>2, <3>4 DEF OnceInv
    <3>5. CASE hook[h].delivery = d /\ hook[h].pc \in {"stored", "source"}
      <4>1. Holds(h, d)
        BY <3>5 DEF Holds, Stages
      <4>2. \A r \in Repos : log[d][r] = 0
        BY <1>1, <3>5, <4>1 DEF OnceInv
      <4>3. QED
        BY <2>2, <3>2, <4>2
    <3>6. CASE /\ hook[h].delivery = d /\ hook[h].pc = "enqueue"
               /\ hook'[h].jobs \subseteq hook[h].jobs /\ hook'[h].pc = "enqueue"
      <4>1. Holds(h, d)
        BY <3>6 DEF Holds, Stages
      <4>2. \A j \in hook[h].jobs : log[d][j.repo] = 0
        BY <1>1, <3>6, <4>1 DEF OnceInv
      <4>3. QED
        BY <2>2, <3>6, <4>2
    <3>7. QED
      BY <2>2, <3>3, <3>4, <3>5, <3>6
  <2>3. QED
    BY <2>1, <2>2
<1>5. QED
  BY <1>2, <1>3, <1>4

LEMMA HolderHandler ==
  ASSUME Shape, HolderInv, OnceInv, NEW h \in Handlers, HandlerStep(h)
  PROVE  HolderInv' /\ OnceInv'
<1> DEFINE d == hook[h].delivery
<1> USE DEF Shape
<1>1. HookSet(h) /\ d \in Deliveries /\ event[d] \in EventType /\ event' = event
  BY HandlerHook, HandlerFrame DEF HookTypes, GoodHook
<1>2. /\ \A e \in deliveries : e \in Deliveries /\ event[e] \in EventType
      /\ failed \subseteq failed'
  BY HandlerLost DEF HolderInv, HookTypes
<1>3. \A j \in JobsOf(event[d]) : j.repo \in Repos
  BY <1>1, JobsOfIs DEF JobType
<1>4. hook[h].pc \in Stages => Holds(h, d) /\ d \in deliveries
  BY DEF Holds, HolderInv
<1>5. CASE Reserve(h)
  <2>1. UNCHANGED <<log, lost>>
    BY <1>5 DEF Reserve, history
  <2>2. ~Holds(h, d)
    BY <1>5, ReserveHook DEF Holds, Stages
  <2>3. CASE d \in deliveries /\ deliveries' = deliveries /\ hook'[h] = NoHook
    <3>1. hook'[h].pc = "idle"
      BY <2>3 DEF NoHook
    <3>2. HolderInv'
      BY <1>1, <1>2, <2>1, <2>2, <2>3, <3>1, HolderBy DEF Stages
    <3>3. OnceInv'
      BY <1>1, <1>2, <2>1, <2>3, <3>1, OnceBy
    <3>4. QED
      BY <3>2, <3>3
  <2>4. CASE /\ d \notin deliveries /\ deliveries' = deliveries \cup {d}
             /\ hook'[h].delivery = d /\ hook'[h].jobs = JobsOf(event[d])
             /\ \/ hook'[h].pc = "enqueue"
                \/ hook'[h].pc = "stored" /\ JobsOf(event[d]) = {}
    <3>1. HolderInv'
      BY <1>1, <1>2, <2>1, <2>4, HolderBy DEF Stages
    <3>2. OnceInv'
      BY <1>1, <1>2, <2>1, <2>4, OnceBy
    <3>3. QED
      BY <3>1, <3>2
  <2>5. QED
    BY <1>5, <2>3, <2>4, ReserveHook
<1>6. CASE ReadStored(h) \/ ReadSource(h)
  <2>1. UNCHANGED <<log, lost, deliveries>>
    BY <1>6 DEF ReadStored, ReadSource, history
  <2>2. /\ hook[h].pc \in {"stored", "source"} /\ hook'[h].delivery = d
        /\ hook'[h].pc \in {"source", "enqueue"} /\ JobsOf(event[d]) = {}
    BY <1>6, StoredHook
  <2>3. HolderInv'
    BY <1>1, <1>2, <1>4, <2>1, <2>2, HolderBy DEF Stages
  <2>4. OnceInv'
    BY <1>1, <1>2, <2>1, <2>2, OnceBy
  <2>5. QED
    BY <2>3, <2>4
<1>7. CASE EnqueueNext(h)
  <2>1. UNCHANGED <<lost, deliveries, failed>>
    BY <1>7 DEF EnqueueNext
  <2>2. PICK j \in hook[h].jobs :
          /\ hook[h].pc = "enqueue" /\ hook'[h].pc = "enqueue"
          /\ hook'[h].delivery = d /\ hook'[h].jobs = hook[h].jobs \ {j}
          /\ j.repo \in Repos /\ \A k \in hook[h].jobs : k # j => k.repo # j.repo
          /\ log' = [log EXCEPT ![d][j.repo] = @ + 1]
    BY <1>7, EnqueueHook
  <2>3. log \in [Deliveries -> [Repos -> Nat]]
    BY DEF HistoryTypes
  <2>4. /\ log'[d][j.repo] = log[d][j.repo] + 1 /\ log[d][j.repo] \in Nat
        /\ \A r \in Repos \ {j.repo} : log'[d][r] = log[d][r]
        /\ \A e \in Deliveries \ {d} : log'[e] = log[e]
    BY <1>1, <2>2, <2>3
  <2>5. Holds(h, d) /\ d \in deliveries
    BY <1>4, <2>2 DEF Stages
  <2>6. HolderInv'
    <3>1. \A e \in Deliveries, r \in Repos : log[e][r] > 0 => log'[e][r] > 0
      BY <2>3, <2>4
    <3>2. \A k \in JobsOf(event[d]) : \/ k \in hook'[h].jobs
                                      \/ log'[d][k.repo] > 0
      <4> SUFFICES ASSUME NEW k \in JobsOf(event[d])
                   PROVE  k \in hook'[h].jobs \/ log'[d][k.repo] > 0
        OBVIOUS
      <4>1. k \in hook[h].jobs \/ log[d][k.repo] > 0
        BY <2>2 DEF HolderInv, EventOf
      <4>2. CASE k = j
        BY <2>4, <4>2
      <4>3. CASE k # j
        BY <1>1, <1>3, <2>2, <3>1, <4>1, <4>3
      <4>4. QED
        BY <4>2, <4>3
    <3>3. QED
      BY <1>1, <1>2, <2>1, <2>2, <2>5, <3>1, <3>2, HolderBy DEF Stages
  <2>7. OnceInv'
    <3> SUFFICES ASSUME NEW e \in Deliveries \ failed
                 PROVE  /\ \A r \in Repos : log'[e][r] <= 1
                        /\ e \notin deliveries => \A r \in Repos : log'[e][r] = 0
                        /\ \A g \in Handlers : Holds(g, e)' =>
                             /\ hook'[g].pc \in {"stored", "source"} =>
                                  \A r \in Repos : log'[e][r] = 0
                             /\ hook'[g].pc = "enqueue" =>
                                  \A k \in hook'[g].jobs : log'[e][k.repo] = 0
      BY <2>1 DEF OnceInv
    <3>1. \A g \in Handlers \ {h} : hook'[g] = hook[g] /\ (Holds(g, e)' <=> Holds(g, e))
      BY <1>1 DEF HookSet, Holds
    <3>2. CASE e # d
      <4>1. log'[e] = log[e] /\ ~Holds(h, e)'
        BY <2>2, <2>4, <3>2 DEF Holds
      <4>2. QED
        BY <3>1, <4>1 DEF OnceInv
    <3>3. CASE e = d
      <4>1. log[d][j.repo] = 0 /\ \A k \in hook[h].jobs : log[d][k.repo] = 0
        BY <2>2, <2>5, <3>3 DEF OnceInv
      <4>2. \A r \in Repos : log'[d][r] <= 1
        BY <2>4, <3>3, <4>1 DEF OnceInv
      <4>3. \A g \in Handlers \ {h} : ~Holds(g, d)
        BY <1>1, <2>5 DEF HolderInv
      <4>4. \A k \in hook'[h].jobs : k \in hook[h].jobs /\ k # j /\ k.repo \in Repos
        BY <1>1, <2>2 DEF HookTypes, HookType, JobType
      <4>5. \A k \in hook'[h].jobs : log'[d][k.repo] = 0
        BY <2>2, <2>4, <4>1, <4>4
      <4>6. QED
        BY <2>2, <2>5, <3>1, <3>3, <4>2, <4>3, <4>5
    <3>4. QED
      BY <3>2, <3>3
  <2>8. QED
    BY <2>6, <2>7
<1>8. CASE RecordInstallation(h)
  <2>1. UNCHANGED <<log, lost, deliveries>>
    BY <1>8 DEF RecordInstallation
  <2>2. /\ hook[h].pc = "enqueue" /\ hook[h].jobs = {} /\ hook'[h].pc = "record"
        /\ hook'[h].delivery = d
    BY <1>8, RecordInstallationHook
  <2>3. \A j \in JobsOf(event[d]) : log[d][j.repo] > 0
    BY <2>2 DEF HolderInv, EventOf
  <2>4. HolderInv'
    BY <1>1, <1>2, <1>4, <2>1, <2>2, <2>3, HolderBy DEF Stages
  <2>5. OnceInv'
    BY <1>1, <1>2, <2>1, <2>2, OnceBy
  <2>6. QED
    BY <2>4, <2>5
<1>9. CASE RecordNext(h)
  <2>1. UNCHANGED <<log, lost, deliveries>>
    BY <1>9 DEF RecordNext
  <2>2. /\ hook[h].pc = "record" /\ hook'[h].pc = "record" /\ hook'[h].delivery = d
    BY <1>9, RecordNextHook
  <2>3. \A j \in JobsOf(event[d]) : log[d][j.repo] > 0
    BY <2>2 DEF HolderInv, EventOf
  <2>4. HolderInv'
    BY <1>1, <1>2, <1>4, <2>1, <2>2, <2>3, HolderBy DEF Stages
  <2>5. OnceInv'
    BY <1>1, <1>2, <2>1, <2>2, OnceBy
  <2>6. QED
    BY <2>4, <2>5
<1>10. CASE HookThrows(h)
  <2>1. UNCHANGED <<log, lost, deliveries>>
    BY <1>10 DEF HookThrows, history
  <2>2. hook[h].pc \in Stages /\ hook'[h].pc = "release" /\ hook'[h].delivery = d
    BY <1>10, HookThrowsHook
  <2>3. HolderInv'
    BY <1>1, <1>2, <1>4, <2>1, <2>2, HolderBy DEF Stages
  <2>4. OnceInv'
    BY <1>1, <1>2, <2>1, <2>2, OnceBy
  <2>5. QED
    BY <2>3, <2>4
<1>11. CASE Accept(h)
  <2>1. UNCHANGED <<log, lost, deliveries>>
    BY <1>11 DEF Accept, history
  <2>2. hook[h].pc = "record" /\ hook'[h].pc = "idle"
    <3>1. hook'[h] = NoHook
      BY <1>11, DoneHook
    <3>2. QED
      BY <1>11, <3>1 DEF Accept, At, NoHook
  <2>3. \A j \in JobsOf(event[d]) : log[d][j.repo] > 0
    BY <2>2 DEF HolderInv, EventOf
  <2>4. HolderInv'
    BY <1>1, <1>2, <1>4, <2>1, <2>2, <2>3, HolderBy DEF Stages
  <2>5. OnceInv'
    BY <1>1, <1>2, <2>1, <2>2, OnceBy
  <2>6. QED
    BY <2>4, <2>5
<1>12. CASE ReleaseThrows(h)
  <2>1. /\ UNCHANGED <<log, deliveries>> /\ lost' = lost \cup {d}
    BY <1>12 DEF ReleaseThrows
  <2>2. hook[h].pc = "release" /\ hook'[h].pc = "idle"
    <3>1. hook'[h] = NoHook
      BY <1>12, DoneHook
    <3>2. QED
      BY <1>12, <3>1 DEF ReleaseThrows, At, NoHook
  <2>3. HolderInv'
    BY <1>1, <1>2, <1>4, <2>1, <2>2, HolderBy DEF Stages
  <2>4. OnceInv'
    BY <1>1, <1>2, <2>1, <2>2, OnceBy
  <2>5. QED
    BY <2>3, <2>4
<1>13. CASE Release(h)
  <2>1. /\ UNCHANGED <<log, lost>> /\ deliveries' = deliveries \ {d} /\ failed' = failed \cup {d}
    BY <1>13 DEF Release, Released
  <2>2. hook[h].pc = "release" /\ hook'[h].pc = "idle"
    <3>1. hook'[h] = NoHook
      BY <1>13, DoneHook
    <3>2. QED
      BY <1>13, <3>1 DEF Release, At, NoHook
  <2>3. Holds(h, d) /\ d \in deliveries /\ \A g \in Handlers \ {h} : ~Holds(g, d)
    BY <1>1, <1>4, <2>2 DEF HolderInv, Stages
  <2>4. HolderInv'
    BY <1>1, <1>2, <2>1, <2>2, <2>3, HolderBy DEF Stages
  <2>5. OnceInv'
    <3> SUFFICES ASSUME NEW e \in Deliveries \ failed'
                 PROVE  /\ \A r \in Repos : log[e][r] <= 1
                        /\ e \notin deliveries' => \A r \in Repos : log[e][r] = 0
                        /\ \A g \in Handlers : Holds(g, e)' =>
                             /\ hook'[g].pc \in {"stored", "source"} =>
                                  \A r \in Repos : log[e][r] = 0
                             /\ hook'[g].pc = "enqueue" =>
                                  \A k \in hook'[g].jobs : log[e][k.repo] = 0
      BY <2>1 DEF OnceInv
    <3>1. e # d /\ e \notin failed
      BY <2>1
    <3>2. \A g \in Handlers \ {h} : hook'[g] = hook[g] /\ (Holds(g, e)' <=> Holds(g, e))
      BY <1>1 DEF HookSet, Holds
    <3>3. ~Holds(h, e)'
      BY <2>2 DEF Holds, Stages
    <3>4. QED
      BY <2>1, <3>1, <3>2, <3>3 DEF OnceInv
  <2>6. QED
    BY <2>4, <2>5
<1>14. QED
  BY <1>5, <1>6, <1>7, <1>8, <1>9, <1>10, <1>11, <1>12, <1>13 DEF HandlerStep, Handle

LEMMA HolderDeliver ==
  ASSUME Shape, HolderInv, OnceInv, NEW e \in Deliveries, Deliver(e)
  PROVE  HolderInv' /\ OnceInv'
<1> USE DEF Shape
<1>1. PICK h \in Handlers : /\ hook[h] = NoHook /\ HookSet(h) /\ hook'[h].pc = "reserve"
  BY DeliverHook
<1>2. UNCHANGED <<event, deliveries, log, lost, failed>>
  BY DEF Deliver, history
<1>3. \A g \in Handlers : \A d : Holds(g, d)' <=> Holds(g, d)
  BY <1>1 DEF HookSet, Holds, Stages, NoHook
<1>4. \A g \in Handlers : hook'[g].pc \in Stages => hook'[g] = hook[g]
  BY <1>1 DEF HookSet, Stages
<1>5. HolderInv'
  BY <1>2, <1>3, <1>4 DEF HolderInv, EventOf, Stages
<1>6. OnceInv'
  BY <1>2, <1>3, <1>4 DEF OnceInv, Stages
<1>7. QED
  BY <1>5, <1>6

LEMMA HolderCrash ==
  ASSUME Shape, HolderInv, OnceInv, Crash
  PROVE  HolderInv' /\ OnceInv'
<1> USE DEF Shape
<1>1. UNCHANGED <<event, deliveries, log>>
  BY CrashIs
<1>2. hook' = [h \in Handlers |-> NoHook] /\ failed \subseteq failed' /\ lost \subseteq lost'
  BY DEF Crash
<1>3. \A h \in Handlers : hook'[h].pc = "idle"
  BY <1>2 DEF NoHook
<1>4. \A h \in Handlers : hook[h].pc \in Stages => hook[h].delivery \in lost'
  BY DEF Crash, Stages
<1>5. \A h \in Handlers, d \in Deliveries : ~Holds(h, d)' /\ (Holds(h, d) => d \in lost')
  BY <1>3, <1>4 DEF Holds, Stages
<1>6. deliveries \subseteq Deliveries
  BY DEF HookTypes
<1>7. HolderInv'
  BY <1>1, <1>2, <1>3, <1>5, <1>6 DEF HolderInv, Stages
<1>8. OnceInv'
  BY <1>1, <1>2, <1>5 DEF OnceInv
<1>9. QED
  BY <1>7, <1>8

LEMMA HolderStep ==
  ASSUME Shape, HolderInv, OnceInv, [Next]_vars
  PROVE  HolderInv' /\ OnceInv'
<1> Stays
  BY EventStays DEF Shape
<1>1. ASSUME NEW u \in Users, EraseStep(u)  PROVE HolderInv' /\ OnceInv'
  BY <1>1, HolderSame, EraseFrame, EraseIndex
<1>2. QED
  BY <1>1, HolderSame, HolderHandler, HolderDeliver, HolderCrash, Actors, ReportedIs, WorkFrame,
     MarkFrame, UserFrame, LoginThrowsIs, StutterIs DEF Shape, GithubTypes

LEMMA HolderInit == ASSUME Init  PROVE HolderInv /\ OnceInv
<1> USE DEF Init
<1>1. /\ \A h \in Handlers : hook[h].pc = "idle"
      /\ \A d \in Deliveries, r \in Repos : log[d][r] = 0
      /\ deliveries = {}
  BY DEF NoHook
<1>2. HolderInv
  BY <1>1 DEF HolderInv, Holds, Stages
<1>3. OnceInv
  BY <1>1 DEF OnceInv, Holds, Stages
<1>4. QED
  BY <1>2, <1>3

\* A delivery that stays reserved has had its jobs enqueued, unless the process died or
\* the release failed, and no job is enqueued twice unless the first attempt failed.
THEOREM HandledOnce == Spec => []JobsOfDeliveries
<1>1. Init => Shape /\ HolderInv /\ OnceInv
  BY InitShape, HolderInit
<1>2. (Shape /\ HolderInv /\ OnceInv) /\ [Next]_vars => (Shape /\ HolderInv /\ OnceInv)'
  BY ShapeStep, HolderStep
<1>3. ASSUME Shape, HolderInv, OnceInv  PROVE JobsOfDeliveries
  <2>1. ASSUME NEW d \in deliveries \ lost, \A h \in Handlers : hook[h].delivery # d
        PROVE  \A j \in JobsOf(event[d]) : log[d][j.repo] > 0
    BY <1>3, <2>1 DEF HolderInv, Holds
  <2>2. ASSUME NEW d \in Deliveries, NEW r \in Repos, log[d][r] > 1  PROVE d \in failed
    <3>1. log[d][r] \in Nat
      BY <1>3 DEF Shape, HistoryTypes
    <3>2. QED
      BY <1>3, <2>2, <3>1 DEF OnceInv
  <2>3. QED
    BY <2>1, <2>2 DEF JobsOfDeliveries
<1>4. QED
  BY <1>1, <1>2, <1>3, PTL DEF Spec

-----------------------------------------------------------------------------
(* What becomes of the index, and what the row says.                       *)

LEMMA SettleSame ==
  ASSUME NEW q \in Repos, SettleOf(q),
         work'[q] = work[q], mark'[q] = mark[q], repositories'[q] = repositories[q],
         Awaited(q) => Awaited(q)',
         DefaultOf(q) \in collections' <=> DefaultOf(q) \in collections,
         DefaultOf(q) \in manifests' <=> DefaultOf(q) \in manifests
  PROVE  SettleOf(q)'
<1>1. DefaultOf(q)' = DefaultOf(q)
  BY DEF DefaultOf
<1>2. Final(q) => Final(q)'
  BY <1>1 DEF Final, Fits
<1>3. Working(q) => Working(q)'
  BY DEF Working
<1>4. work'[q].pc = "done" /\ mark'[q] # NoMark => Fits(q, mark[q].status)'
  BY <1>1 DEF SettleOf, Fits
<1>5. QED
  BY <1>1, <1>2, <1>3, <1>4 DEF SettleOf

\* A pending job of a delivery whose jobs set the row will set it.
LEMMA PendingAwaited ==
  ASSUME QueueTypes, NEW r \in Repos, NEW d \in Deliveries, Pending(r, d),
         KindOf(event[d].name) \in Setting
  PROVE  Awaited(r)
<1>1. PICK n \in DOMAIN jobs[r] : jobs[r][n].from = d
  BY DEF Pending
<1>2. jobs[r][n].kind = KindOf(event[d].name)
  BY <1>1 DEF QueueTypes, GoodJob
<1>3. QED
  BY <1>2 DEF Awaited

LEMMA SettleHandler ==
  ASSUME Shape, SettleInv, NEW h \in Handlers, HandlerStep(h)
  PROVE  SettleInv'
<1> USE DEF Shape
<1>1. /\ UNCHANGED <<work, collections, manifests>> /\ astray \subseteq astray'
      /\ QueueTypes /\ mark \in [Handlers \cup Repos -> MarkType]
  BY HandlerFrame, HandlerHistory DEF QueueTypes
<1>2. \A r \in Repos : DefaultOf(r)' = DefaultOf(r)
  BY DEF DefaultOf
<1>3. ASSUME UNCHANGED <<jobs, repositories>>, \A r \in Repos : mark'[r] = mark[r]
      PROVE  SettleInv'
  <2>1. \A r \in Repos : SettleOf(r) => SettleOf(r)'
    BY <1>1, <1>2, <1>3, SettleSame DEF Awaited
  <2>2. QED
    BY <1>1, <2>1 DEF SettleInv
<1>4. CASE Reserve(h) \/ ReadStored(h) \/ ReadSource(h) \/ RecordInstallation(h) \/ Accept(h)
  BY <1>3, <1>4 DEF Reserve, ReadStored, ReadSource, RecordInstallation, Accept, tables, queue
<1>5. CASE Release(h) \/ ReleaseThrows(h)
  BY <1>3, <1>5 DEF Release, ReleaseThrows, tables, queue
<1>6. CASE HookThrows(h)
  <2>1. mark' = [mark EXCEPT ![h] = NoMark] /\ UNCHANGED <<jobs, repositories>>
    BY <1>6 DEF HookThrows, tables, queue
  <2>2. \A r \in Repos : mark'[r] = mark[r]
    BY <1>1, <2>1, Constant
  <2>3. QED
    BY <1>3, <2>1, <2>2
<1>7. CASE EnqueueNext(h)
  <2>1. PICK j \in hook[h].jobs :
          /\ j.repo \in Repos /\ j.kind \in JobKinds
          /\ j.kind = KindOf(event[hook[h].delivery].name)
          /\ jobs' = Enqueued(j.kind, j.repo, hook[h].delivery)
    BY <1>7, EnqueueHook
  <2> DEFINE p == [kind |-> j.kind, from |-> hook[h].delivery]
  <2>2. /\ hook[h].delivery \in Deliveries /\ event[hook[h].delivery] \in EventType
        /\ UNCHANGED <<mark, repositories>>
    BY <1>7 DEF EnqueueNext, At, HookTypes, GoodHook, tables
  <2>3. p \in PendingType /\ GoodJob(p, event)
    BY <2>1, <2>2, Constant DEF PendingType, GoodJob
  <2>4. jobs' = [jobs EXCEPT ![j.repo] = Append(@, p)]
    BY <2>1 DEF Enqueued
  <2> HIDE DEF p
  <2>5. /\ \A q \in Repos \ {j.repo} : jobs'[q] = jobs[q]
        /\ DOMAIN jobs[j.repo] \subseteq DOMAIN jobs'[j.repo]
        /\ \A n \in DOMAIN jobs[j.repo] : jobs'[j.repo][n] = jobs[j.repo][n]
    BY <1>1, <2>1, <2>3, <2>4, EnqueuedIs
  <2>6. \A q \in Repos : Awaited(q) => Awaited(q)'
    BY <2>1, <2>5 DEF Awaited
  <2>7. \A r \in Repos : SettleOf(r) => SettleOf(r)'
    BY <1>1, <1>2, <2>2, <2>6, SettleSame
  <2>8. QED
    BY <1>1, <2>7 DEF SettleInv
<1>8. CASE RecordNext(h)
  <2>1. PICK j \in hook[h].marks :
          \/ /\ j.kind \in {"delete", "install"} /\ mark' = mark
             /\ \E row : repositories' = [repositories EXCEPT ![j.repo] = row]
             /\ astray' = IF ~Pending(j.repo, hook[h].delivery) THEN astray \cup {j.repo}
                          ELSE astray
          \/ /\ \E m : mark' = [mark EXCEPT ![h] = m]
             /\ UNCHANGED repositories
          \/ UNCHANGED <<repositories, mark>>
    BY <1>8 DEF RecordNext
  <2>2. jobs' = jobs
    BY <1>8 DEF RecordNext, queue
  <2>3. CASE UNCHANGED <<repositories, mark>>
    BY <1>3, <2>2, <2>3
  <2>4. CASE (\E m : mark' = [mark EXCEPT ![h] = m]) /\ UNCHANGED repositories
    <3>1. \A r \in Repos : mark'[r] = mark[r]
      BY <1>1, <2>4, Constant
    <3>2. QED
      BY <1>3, <2>2, <2>4, <3>1
  <2>5. CASE /\ j.kind \in {"delete", "install"} /\ mark' = mark
             /\ \E row : repositories' = [repositories EXCEPT ![j.repo] = row]
             /\ astray' = IF ~Pending(j.repo, hook[h].delivery) THEN astray \cup {j.repo}
                          ELSE astray
    <3> DEFINE q == j.repo
               d == hook[h].delivery
    <3>1. /\ d \in Deliveries /\ j \in JobType /\ j.kind = KindOf(event[d].name)
      BY <1>8, RecordNextHook DEF HookTypes, GoodHook, HookType, Stages
    <3>2. q \in Repos
      BY <3>1 DEF JobType
    <3>3. \A r \in Repos \ {q} : repositories'[r] = repositories[r]
      BY <2>5 DEF TableTypes
    <3>4. ASSUME NEW r \in Repos \ astray'  PROVE SettleOf(r)'
      <4>1. SettleOf(r)
        BY <1>1 DEF SettleInv
      <4>2. CASE r # q
        BY <1>1, <1>2, <2>2, <2>5, <3>3, <4>1, <4>2, SettleSame DEF Awaited
      <4>3. CASE r = q
        <5>1. Pending(r, d)
          BY <2>5, <4>3
        <5>2. Awaited(r)
          BY <1>1, <2>5, <3>1, <5>1, PendingAwaited DEF Setting
        <5>3. Awaited(r)'
          BY <2>2, <5>2 DEF Awaited
        <5>4. /\ work'[r].pc = "save" /\ work'[r].kind \in Setting => DefaultOf(r)' \in collections'
              /\ work'[r].pc = "done" /\ mark'[r] # NoMark => Fits(r, mark[r].status)'
          BY <1>1, <1>2, <2>5, <4>1 DEF SettleOf, Fits
        <5>5. QED
          BY <5>3, <5>4 DEF SettleOf
      <4>4. QED
        BY <4>2, <4>3
    <3>5. QED
      BY <3>4 DEF SettleInv
  <2>6. QED
    BY <2>1, <2>3, <2>4, <2>5
<1>9. QED
  BY <1>4, <1>5, <1>6, <1>7, <1>8 DEF HandlerStep, Handle

LEMMA SettleMark ==
  ASSUME Shape, SettleInv, NEW a \in Handlers \cup Repos, MarkStep(a)
  PROVE  SettleInv'
<1> USE DEF Shape
<1> DEFINE m == mark[a]
           q == m.repo
<1>1. /\ UNCHANGED <<jobs, work, collections, manifests>> /\ astray \subseteq astray'
      /\ QueueTypes /\ mark \in [Handlers \cup Repos -> MarkType]
      /\ repositories \in [Repos -> RowType]
  BY MarkFrame, MarkHistory DEF QueueTypes, TableTypes
<1>2. \A r \in Repos : DefaultOf(r)' = DefaultOf(r) /\ (Awaited(r)' <=> Awaited(r))
  BY <1>1 DEF DefaultOf, Awaited
<1>3. m # NoMark /\ m \in [repo : Repos, status : Statuses, insert : BOOLEAN] /\ q \in Repos
  BY <1>1 DEF MarkStep, MarkType
<1>4. \/ /\ m.insert
         /\ repositories' = [repositories EXCEPT ![q] = Upserted(m.status)]
         /\ mark' = [mark EXCEPT ![a].insert = FALSE]
      \/ /\ ~m.insert
         /\ repositories' = [repositories EXCEPT ![q] = Marked(@, m.status)]
         /\ mark' = [mark EXCEPT ![a] = NoMark]
  BY DEF MarkStep
<1>5. /\ \A r \in Repos \ {q} : repositories'[r] = repositories[r]
      /\ \A b \in (Handlers \cup Repos) \ {a} : mark'[b] = mark[b]
  BY <1>1, <1>4
<1>6. CASE a \in Handlers
  <2>1. /\ \A r \in Repos : mark'[r] = mark[r]
        /\ astray' = IF Pending(q, hook[a].delivery) THEN astray ELSE astray \cup {q}
    BY <1>5, <1>6, Constant, MarkHistory
  <2>2. hook[a].delivery \in Deliveries /\ KindOf(event[hook[a].delivery].name) \in {"full", "push"}
    BY <1>3, <1>6 DEF QueueTypes, HookTypes, GoodHook, EventOf
  <2>3. ASSUME NEW r \in Repos \ astray'  PROVE SettleOf(r)'
    <3>1. SettleOf(r)
      BY <1>1 DEF SettleInv
    <3>2. CASE r # q
      BY <1>1, <1>2, <1>5, <2>1, <3>1, <3>2, SettleSame
    <3>3. CASE r = q
      <4>1. Pending(r, hook[a].delivery)
        BY <2>1, <3>3
      <4>2. Awaited(r)
        BY <1>1, <2>2, <4>1, PendingAwaited DEF Setting
      <4>3. /\ work'[r].pc = "save" /\ work'[r].kind \in Setting => DefaultOf(r)' \in collections'
            /\ work'[r].pc = "done" /\ mark'[r] # NoMark => Fits(r, mark[r].status)'
        BY <1>1, <1>2, <2>1, <3>1 DEF SettleOf, Fits
      <4>4. QED
        BY <1>2, <2>1, <4>2, <4>3 DEF SettleOf
    <3>4. QED
      BY <3>2, <3>3
  <2>4. QED
    BY <2>3 DEF SettleInv
<1>7. CASE a \in Repos
  <2>1. q = a /\ work[a].kind \in Setting /\ work[a].pc # "idle" /\ astray' = astray
    BY <1>3, <1>7, MarkHistory, Constant DEF QueueTypes, GoodWork
  <2>2. ASSUME NEW r \in Repos \ astray'  PROVE SettleOf(r)'
    <3>1. SettleOf(r)
      BY <1>1 DEF SettleInv
    <3>2. CASE r # a
      BY <1>1, <1>2, <1>5, <2>1, <3>1, <3>2, SettleSame
    <3>3. CASE r = a
      <4>1. mark'[a] # NoMark => mark'[a].status = m.status
        BY <1>1, <1>3, <1>4
      <4>2. work'[r].pc = "done" /\ mark'[r] # NoMark => Fits(r, mark'[r].status)
        BY <1>1, <1>3, <3>1, <3>3, <4>1 DEF SettleOf
      <4>3. \A s : Fits(r, s)' <=> Fits(r, s)
        BY <1>1, <1>2 DEF Fits
      <4>4. work'[r].pc = "done" /\ mark'[r] # NoMark => Fits(r, mark[r].status)'
        BY <1>1, <1>2, <4>2 DEF Fits
      <4>5. Working(r)' \/ Final(r)'
        <5>1. CASE work[a].pc # "done"
          BY <1>1, <2>1, <3>3, <5>1 DEF Working
        <5>2. CASE work[a].pc = "done" /\ m.insert
          <6>1. mark'[a] = [m EXCEPT !.insert = FALSE]
            BY <1>1, <1>4, <5>2
          <6> HIDE DEF m
          <6>2. mark'[a].repo = m.repo
            BY <1>3, <6>1
          <6>3. mark'[a] # NoMark
            BY <1>3, <6>2, Constant DEF NoMark
          <6>4. QED
            BY <1>1, <2>1, <3>3, <6>3 DEF Working
        <5>3. CASE work[a].pc = "done" /\ ~m.insert
          <6>1. repositories'[a] = Marked(repositories[a], m.status)
            <7>1. repositories' = [repositories EXCEPT ![q] = Marked(@, m.status)]
              BY <1>4, <5>3
            <7> HIDE DEF m, q
            <7>2. repositories'[q] = Marked(repositories[q], m.status)
              BY <1>1, <1>3, <7>1
            <7>3. QED
              BY <2>1, <7>2
          <6>2. Fits(a, m.status)
            BY <1>3, <3>1, <3>3, <5>3 DEF SettleOf
          <6>3. repositories'[a] = NoRow \/ repositories'[a].status = m.status
            BY <1>1, <1>7, <6>1 DEF Marked, RowType
          <6>4. Fits(a, m.status) => Fits(a, repositories[a].status)' \/ repositories'[a] = NoRow
            BY <1>1, <1>2, <1>7, <6>3 DEF Fits
          <6>5. QED
            BY <3>3, <6>2, <6>4 DEF Final
        <5>4. QED
          BY <5>1, <5>2, <5>3
      <4>6. work'[r].pc = "save" /\ work'[r].kind \in Setting => DefaultOf(r)' \in collections'
        BY <1>1, <1>2, <3>1 DEF SettleOf
      <4>7. QED
        BY <4>4, <4>5, <4>6 DEF SettleOf
    <3>4. QED
      BY <3>2, <3>3
  <2>3. QED
    BY <2>2 DEF SettleInv
<1>8. QED
  BY <1>6, <1>7

LEMMA SettleWork ==
  ASSUME Shape, SettleInv, NEW r \in Repos, WorkStep(r)
  PROVE  SettleInv'
<1> USE DEF Shape
<1>1. /\ WorkSet(r) /\ UNCHANGED repositories /\ astray' \in {astray, astray \cup {r}}
      /\ GoodWork(r, work[r], mark[r], event) /\ jobs[r] \in Seq(PendingType)
  BY WorkStepSet, WorkFrame, WorkHistory DEF QueueTypes
<1>2. /\ collections' = collections \/ collections' = collections \cup {CollOf(r)}
         \/ collections' = collections \ ListedFor(r) \/ collections' = collections \ {<<r, "pr">>}
      /\ manifests' = manifests \/ manifests' = manifests \cup {CollOf(r)}
         \/ manifests' = manifests \ ListedFor(r) \/ manifests' = manifests \ {<<r, "pr">>}
  BY ClaimIs, IndexIs, SaveIs, DropIs, CompleteIs, WorkThrowsIs DEF WorkStep, Work
<1>3. ASSUME NEW q \in Repos \ astray', q # r  PROVE SettleOf(q)'
  <2>1. SettleOf(q)
    BY <1>1 DEF SettleInv
  <2>2. DefaultOf(q) # CollOf(r) /\ DefaultOf(q) # <<r, "pr">>
    BY <1>3 DEF DefaultOf, CollOf
  <2>3. DefaultOf(q) \notin ListedFor(r)
    BY <1>3 DEF DefaultOf, ListedFor
  <2>4. /\ DefaultOf(q) \in collections' <=> DefaultOf(q) \in collections
        /\ DefaultOf(q) \in manifests' <=> DefaultOf(q) \in manifests
    BY <1>2, <2>2, <2>3
  <2>5. work'[q] = work[q] /\ mark'[q] = mark[q] /\ jobs'[q] = jobs[q]
    BY <1>1, <1>3 DEF WorkSet
  <2>6. Awaited(q) => Awaited(q)'
    BY <2>5 DEF Awaited
  <2>7. QED
    BY <1>1, <2>1, <2>4, <2>5, <2>6, SettleSame
<1>4. ASSUME r \notin astray'  PROVE SettleOf(r)'
  <2>1. SettleOf(r)
    BY <1>1, <1>4 DEF SettleInv
  <2>2. /\ DefaultOf(r) # <<r, "pr">> /\ DefaultOf(r) \in ListedFor(r)
        /\ DefaultOf(r)' = DefaultOf(r)
        /\ work[r].kind \in Setting => CollOf(r) = DefaultOf(r)
        /\ work[r].kind \in {"pr", "closePr"} => CollOf(r) = <<r, "pr">>
    BY DEF DefaultOf, CollOf, ListedFor, Setting
  <2>3. ASSUME /\ DefaultOf(r) \in collections' <=> DefaultOf(r) \in collections
               /\ DefaultOf(r) \in manifests' <=> DefaultOf(r) \in manifests
        PROVE  Final(r) => Final(r)'
    BY <1>1, <2>2, <2>3 DEF Final, Fits
  <2>4. jobs' = jobs => (Awaited(r) => Awaited(r)')
    BY DEF Awaited
  <2>5. work[r].kind \in JobKinds \/ work[r] = Resting
    BY <1>1 DEF GoodWork, GoodJob
  <2>6. CASE Claim(r)
    <3>1. /\ work[r].pc = "idle" /\ jobs'[r] = Tail(jobs[r]) /\ jobs[r] # <<>>
          /\ work'[r].kind = jobs[r][1].kind /\ work'[r].pc \in {"drop", "index"}
          /\ UNCHANGED <<collections, manifests>>
      BY <2>6, ClaimIs, RestingIs
    <3>2. \A n \in DOMAIN jobs[r] : n = 1 \/ (n - 1 \in DOMAIN jobs'[r]
                                                /\ jobs'[r][n - 1] = jobs[r][n])
      BY <1>1, <3>1
    <3>3. CASE Awaited(r)
      <4>1. PICK n \in DOMAIN jobs[r] : jobs[r][n].kind \in Setting
        BY <3>3 DEF Awaited
      <4>2. CASE n = 1
        BY <3>1, <4>1, <4>2 DEF Working, SettleOf
      <4>3. CASE n # 1
        <5>1. Awaited(r)'
          BY <3>2, <4>1, <4>3 DEF Awaited
        <5>2. QED
          BY <3>1, <5>1 DEF SettleOf
      <4>4. QED
        BY <4>2, <4>3
    <3>4. CASE Final(r)
      BY <2>3, <3>1, <3>4 DEF SettleOf
    <3>5. QED
      BY <2>1, <3>1, <3>3, <3>4 DEF SettleOf, Working
  <2>7. CASE IndexCollection(r)
    <3>1. /\ work[r].pc = "index" /\ mark[r] = NoMark /\ jobs' = jobs
          /\ work'[r].pc = "save" /\ work'[r].kind = work[r].kind
          /\ collections' = collections \cup {CollOf(r)} /\ UNCHANGED manifests
      BY <2>7, IndexIs
    <3>2. CASE work[r].kind \in Setting
      BY <2>2, <3>1, <3>2 DEF SettleOf, Working
    <3>3. CASE work[r].kind \notin Setting
      <4>1. work[r].kind \in {"pr", "closePr"}
        BY <2>5, <3>1, <3>3, RestingIs DEF JobKinds, Setting
      <4>2. DefaultOf(r) \in collections' <=> DefaultOf(r) \in collections
        BY <2>2, <3>1, <4>1
      <4>3. Awaited(r)' \/ Final(r)'
        BY <2>1, <2>3, <2>4, <3>1, <3>3, <4>2 DEF SettleOf, Working
      <4>4. QED
        BY <3>1, <3>3, <4>3 DEF SettleOf
    <3>4. QED
      BY <3>2, <3>3
  <2>8. CASE SaveManifest(r)
    <3>1. /\ work[r].pc = "save" /\ mark[r] = NoMark /\ jobs' = jobs
          /\ manifests' = manifests \cup {CollOf(r)} /\ UNCHANGED collections
      BY <2>8, SaveIs
    <3>2. CASE /\ work[r].kind \in {"install", "full", "push"} /\ work'[r].kind = work[r].kind
               /\ work'[r].pc = "done" /\ mark'[r] # NoMark /\ mark'[r].status = "ready"
      <4>1. work[r].kind \in Setting /\ DefaultOf(r) \in collections'
        BY <2>1, <3>1, <3>2 DEF Setting, SettleOf
      <4>2. DefaultOf(r) \in manifests'
        BY <2>2, <3>1, <4>1
      <4>3. Fits(r, mark[r].status)'
        BY <2>2, <3>2, <4>1, <4>2 DEF Fits
      <4>4. QED
        BY <3>2, <4>1, <4>3 DEF SettleOf, Working
    <3>3. CASE work[r].kind \notin Setting /\ work'[r] = Resting /\ mark'[r] = NoMark
      <4>1. work[r].kind \in {"pr", "closePr"}
        BY <2>5, <3>1, <3>3, RestingIs DEF JobKinds, Setting
      <4>2. DefaultOf(r) \in manifests' <=> DefaultOf(r) \in manifests
        BY <2>2, <3>1, <4>1
      <4>3. Awaited(r)' \/ Final(r)'
        BY <2>1, <2>3, <2>4, <3>1, <3>3, <4>2 DEF SettleOf, Working
      <4>4. QED
        BY <3>1, <3>3, <4>3, RestingIs DEF SettleOf
    <3>4. QED
      BY <2>8, <3>2, <3>3, SaveIs
  <2>9. CASE DropCollections(r)
    <3>1. work[r].pc = "drop" /\ mark[r] = NoMark /\ jobs' = jobs
      BY <2>9, DropIs
    <3>2. CASE /\ work[r].kind = "delete" /\ work'[r].kind = work[r].kind
               /\ work'[r].pc = "done" /\ mark'[r] # NoMark /\ mark'[r].status = "deleted"
               /\ collections' = collections \ ListedFor(r)
               /\ manifests' = manifests \ ListedFor(r)
      <4>1. Fits(r, mark[r].status)'
        BY <2>2, <3>2 DEF Fits
      <4>2. QED
        BY <3>2, <4>1 DEF SettleOf, Working, Setting
    <3>3. CASE /\ work[r].kind = "closePr" /\ work'[r] = Resting /\ mark'[r] = NoMark
               /\ collections' = collections \ {<<r, "pr">>}
               /\ manifests' = manifests \ {<<r, "pr">>}
      <4>1. /\ DefaultOf(r) \in collections' <=> DefaultOf(r) \in collections
            /\ DefaultOf(r) \in manifests' <=> DefaultOf(r) \in manifests
        BY <2>2, <3>3
      <4>2. Awaited(r)' \/ Final(r)'
        BY <2>1, <2>3, <2>4, <3>1, <3>3, <4>1 DEF SettleOf, Working, Setting
      <4>3. QED
        BY <3>3, <4>2, RestingIs DEF SettleOf
    <3>4. QED
      BY <2>9, <3>2, <3>3, DropIs
  <2>10. CASE Complete(r)
    <3>1. /\ work[r].pc = "done" /\ mark[r] = NoMark /\ work'[r] = Resting
          /\ UNCHANGED <<jobs, mark, collections, manifests>>
      BY <2>10, CompleteIs
    <3>2. Awaited(r)' \/ Final(r)'
      BY <2>1, <2>3, <2>4, <3>1 DEF SettleOf, Working
    <3>3. QED
      BY <3>1, <3>2, RestingIs DEF SettleOf
  <2>11. CASE WorkThrows(r)
    <3>1. UNCHANGED <<jobs, collections, manifests>>
      BY <2>11, WorkThrowsIs
    <3>2. CASE /\ work[r].kind \in Setting /\ work'[r].kind = work[r].kind
               /\ work'[r].pc = "done" /\ mark'[r] # NoMark /\ mark'[r].status = "failed"
      BY <3>2 DEF SettleOf, Working, Fits
    <3>3. CASE work'[r] = Resting /\ mark'[r] = NoMark /\ work[r].kind \in {"pr", "closePr"}
      <4>1. Awaited(r)' \/ Final(r)'
        BY <2>1, <2>3, <2>4, <3>1, <3>3 DEF SettleOf, Working, Setting
      <4>2. QED
        BY <3>3, <4>1, RestingIs DEF SettleOf
    <3>4. QED
      BY <1>4, <2>11, <3>2, <3>3, WorkThrowsIs
  <2>12. QED
    BY <2>6, <2>7, <2>8, <2>9, <2>10, <2>11 DEF WorkStep, Work
<1>5. QED
  BY <1>3, <1>4 DEF SettleInv

LEMMA SettleUser ==
  ASSUME Shape, SettleInv, NEW u \in Users, UserStep(u)
  PROVE  SettleInv'
<1> USE DEF Shape
<1>1. UNCHANGED <<repositories, work, mark, collections, manifests, astray>>
  BY UserFrame
<1>2. \A q \in Repos : Awaited(q) => Awaited(q)'
  <2>1. CASE EnqueueReindex(u)
    <3> DEFINE p == [kind |-> "full", from |-> u]
               r == request[u].repo
    <3>1. jobs' = [jobs EXCEPT ![r] = Append(@, p)]
      BY <2>1 DEF EnqueueReindex, Enqueued
    <3>2. r \in Repos
      BY <2>1 DEF EnqueueReindex, DashTypes, GoodRequest
    <3>3. p \in PendingType /\ GoodJob(p, event)
      BY Constant DEF PendingType, GoodJob, JobKinds
    <3> HIDE DEF p, r
    <3>4. /\ \A q \in Repos \ {r} : jobs'[q] = jobs[q]
          /\ DOMAIN jobs[r] \subseteq DOMAIN jobs'[r]
          /\ \A n \in DOMAIN jobs[r] : jobs'[r][n] = jobs[r][n]
      BY <3>1, <3>2, <3>3, EnqueuedIs
    <3>5. QED
      BY <3>4 DEF Awaited
  <2>2. CASE Ask(u) \/ SignIn(u) \/ CreateToken(u) \/ CheckRepository(u) \/ CheckInstallation(u)
    <3>1. jobs' = jobs
      BY <2>2 DEF Ask, StartLogin, Logout, StartRequest, StartErase, SignIn, SaveUser, LinkNext,
                  SaveSession, CreateToken, CheckRepository, CheckInstallation, queue
    <3>2. QED
      BY <3>1 DEF Awaited
  <2>3. QED
    BY <2>1, <2>2 DEF UserStep, Serve
<1>3. \A r \in Repos : SettleOf(r) => SettleOf(r)'
  BY <1>1, <1>2, SettleSame
<1>4. QED
  BY <1>1, <1>3 DEF SettleInv

LEMMA SettleErase ==
  ASSUME Shape, SettleInv, NEW u \in Users, EraseStep(u)
  PROVE  SettleInv'
<1> USE DEF Shape
<1>1. /\ UNCHANGED <<work, mark>> /\ astray \subseteq astray'
      /\ GoodErase(erase[u], astray)
  BY EraseFrame, EraseIndex DEF DashTypes
<1>2. \A r \in Repos : DefaultOf(r)' = DefaultOf(r)
  BY DEF DefaultOf
<1>3. ASSUME UNCHANGED <<jobs, repositories, collections, manifests>>  PROVE SettleInv'
  <2>1. \A r \in Repos : SettleOf(r) => SettleOf(r)'
    BY <1>1, <1>3, SettleSame DEF Awaited
  <2>2. QED
    BY <1>1, <2>1 DEF SettleInv
<1>4. CASE ListInstallations(u) \/ CountUsers(u) \/ ListRepositories(u) \/ ListCollections(u)
           \/ NextRepository(u)
  BY <1>3, <1>4, ListInstallationsIs, CountUsersIs, ListRepositoriesIs, ListCollectionsIs,
     NextRepositoryIs DEF Reads
<1>5. CASE Unlink(u) \/ DeleteInstallation(u)
  BY <1>3, <1>5, UnlinkIs, DeleteInstallationIs
<1>6. CASE DeleteSessions(u) \/ DeleteTokens(u) \/ DeleteUser(u) \/ EraseThrows(u)
  BY <1>3, <1>6, DeleteSessionsIs, DeleteUserIs, EraseThrowsIs
<1>7. CASE DeleteJobs(u)
  <2>1. PICK r \in Repos : /\ \A q \in Repos \ {r} : jobs'[q] = jobs[q]
                           /\ astray' = astray \cup {r}
                           /\ UNCHANGED <<repositories, collections, manifests>>
    BY <1>7, DeleteJobsIs
  <2>2. \A q \in Repos \ {r} : SettleOf(q) => SettleOf(q)'
    BY <1>1, <2>1, SettleSame DEF Awaited
  <2>3. QED
    BY <2>1, <2>2 DEF SettleInv
<1>8. CASE DeleteCollection(u) \/ DeleteManifest(u)
  <2>1. PICK c : /\ c[1] = erase[u].repo
                 /\ collections' = collections \/ collections' = collections \ {c}
                 /\ manifests' = manifests \/ manifests' = manifests \ {c}
                 /\ UNCHANGED <<jobs, repositories, astray>>
    BY <1>8, DeleteCollectionIs, DeleteManifestIs
  <2>2. erase[u].repo \in astray
    BY <1>1, <1>8, Constant, DeleteCollectionIs, DeleteManifestIs DEF GoodErase
  <2>3. \A q \in Repos \ astray : DefaultOf(q) # c
    BY <2>1, <2>2 DEF DefaultOf
  <2>4. \A q \in Repos \ astray : SettleOf(q) => SettleOf(q)'
    BY <1>1, <2>1, <2>3, SettleSame DEF Awaited
  <2>5. QED
    BY <2>1, <2>4 DEF SettleInv
<1>9. CASE DeleteRepositories(u)
  <2>1. /\ UNCHANGED <<jobs, collections, manifests, astray>>
        /\ \A q \in Repos : repositories'[q] \in {NoRow, repositories[q]}
    BY <1>9, DeleteRepositoriesIs
  <2>2. ASSUME NEW q \in Repos, SettleOf(q)  PROVE SettleOf(q)'
    <3>1. CASE repositories'[q] = repositories[q]
      BY <1>1, <2>1, <2>2, <3>1, SettleSame DEF Awaited
    <3>2. CASE repositories'[q] = NoRow
      <4>1. \A s : Fits(q, s)' <=> Fits(q, s)
        BY <1>2, <2>1 DEF Fits
      <4>2. Final(q)'
        BY <3>2 DEF Final
      <4>3. Fits(q, mark[q].status) => Fits(q, mark[q].status)'
        BY <1>1, <1>2, <2>1 DEF Fits
      <4>4. QED
        BY <1>1, <1>2, <2>1, <2>2, <4>2, <4>3 DEF SettleOf
    <3>3. QED
      BY <2>1, <3>1, <3>2
  <2>3. QED
    BY <2>1, <2>2 DEF SettleInv
<1>10. QED
  BY <1>4, <1>5, <1>6, <1>7, <1>8, <1>9 DEF EraseStep, Erase

LEMMA SettleCrash ==
  ASSUME Shape, SettleInv, Crash
  PROVE  SettleInv'
<1> USE DEF Shape
<1>1. UNCHANGED <<repositories, collections, manifests, astray>>
  BY CrashIs
<1>2. ASSUME NEW r \in Repos, SettleOf(r)  PROVE SettleOf(r)'
  <2>1. work'[r] = Resting /\ mark'[r] = NoMark
    BY AgainIs
  <2>2. Final(r) => Final(r)'
    BY <1>1 DEF Final, Fits, DefaultOf
  <2>3. Awaited(r) => Awaited(r)'
    <3>1. CASE work[r] = Resting
      <4>1. jobs'[r] = jobs[r]
        BY <3>1, AgainIs
      <4>2. QED
        BY <4>1 DEF Awaited
    <3>2. CASE work[r] # Resting
      <4>1. \A n \in DOMAIN jobs[r] : n + 1 \in DOMAIN jobs'[r] /\ jobs'[r][n + 1] = jobs[r][n]
        BY <3>2, AgainIs
      <4>2. QED
        BY <4>1 DEF Awaited
    <3>3. QED
      BY <3>1, <3>2
  <2>4. Working(r) => Awaited(r)'
    <3>1. SUFFICES ASSUME Working(r)  PROVE Awaited(r)'
      OBVIOUS
    <3>2. work[r] # Resting /\ work[r].kind \in Setting
      BY <3>1, RestingIs DEF Working
    <3> DEFINE k == work[r].kind
               n == Len(jobs[r])
    <3>3. jobs'[r][1] = [kind |-> k, from |-> work[r].from]
      BY <3>2, AgainIs
    <3>4. DOMAIN jobs'[r] = 1 .. n + 1
      BY <3>2, AgainIs
    <3>5. n \in Nat
      BY DEF QueueTypes
    <3> HIDE DEF n
    <3>6. 1 \in DOMAIN jobs'[r]
      BY <3>4, <3>5
    <3>7. jobs'[r][1].kind = k
      BY <3>3
    <3>8. QED
      BY <3>2, <3>6, <3>7 DEF Awaited
  <2>5. QED
    BY <1>2, <2>1, <2>2, <2>3, <2>4, RestingIs DEF SettleOf
<1>3. QED
  BY <1>1, <1>2 DEF SettleInv

LEMMA SettleStep == ASSUME Shape, SettleInv, [Next]_vars  PROVE SettleInv'
<1>1. CASE UNCHANGED <<repositories, jobs, work, mark, collections, manifests, astray>>
  <2>1. \A r \in Repos : SettleOf(r) => SettleOf(r)'
    BY <1>1, SettleSame DEF Awaited
  <2>2. QED
    BY <1>1, <2>1 DEF SettleInv
<1>2. ASSUME NEW d \in Deliveries, Deliver(d)  PROVE SettleInv'
  BY <1>1, <1>2 DEF Deliver, tables, queue, index, history
<1>3. QED
  BY <1>1, <1>2, SettleHandler, SettleMark, SettleWork, SettleUser, SettleErase, SettleCrash,
     Actors, ReportedIs, LoginThrowsIs, StutterIs DEF Shape, GithubTypes

LEMMA SettleInit == ASSUME Init  PROVE SettleInv
<1> USE DEF Init
<1>1. ASSUME NEW r \in Repos  PROVE SettleOf(r)
  <2>1. /\ repositories[r].status = "ready" /\ work[r].pc = "idle"
        /\ DefaultOf(r) \in collections /\ DefaultOf(r) \in manifests
    BY RestingIs DEF DefaultOf
  <2>2. QED
    BY <2>1 DEF SettleOf, Final, Fits
<1>2. QED
  BY <1>1 DEF SettleInv

\* When nothing goes on for a repository its row says what became of its index, except
\* for the repositories in astray.
THEOREM SettledRows == Spec => []Settled
<1>1. Init => Shape /\ SettleInv
  BY InitShape, SettleInit
<1>2. (Shape /\ SettleInv) /\ [Next]_vars => (Shape /\ SettleInv)'
  BY ShapeStep, SettleStep
<1>3. ASSUME Shape, SettleInv  PROVE Settled
  <2> SUFFICES ASSUME NEW r \in Repos \ astray, Quiet(r), repositories[r] # NoRow
               PROVE  /\ repositories[r].status \in {"ready", "failed", "deleted"}
                      /\ repositories[r].status = "ready" =>
                           <<r, "default">> \in collections \cap manifests
                      /\ repositories[r].status = "deleted" =>
                           <<r, "default">> \notin collections \cup manifests
    BY DEF Settled
  <2>1. ~Awaited(r) /\ ~Working(r)
    BY EmptySeq, RestingIs DEF Quiet, Awaited, Working
  <2>2. Fits(r, repositories[r].status)
    BY <1>3, <2>1 DEF SettleInv, SettleOf, Final
  <2>3. QED
    BY <2>2 DEF Fits, DefaultOf
<1>4. QED
  BY <1>1, <1>2, <1>3, PTL DEF Spec

-----------------------------------------------------------------------------
(* delete-my-data leaves nothing.                                          *)

\* A step keeps what is known of a repository: something of it waits or runs, or nothing
\* of it comes back.
Kept(r) ==
  \/ ~Idle(r) /\ (repositories[r] # NoRow => repositories'[r] # NoRow)
  \/ /\ Idle(r) => Idle(r)'
     /\ \A c \in collections' : c[1] = r => c \in collections
     /\ \A c \in manifests' : c[1] = r => c \in manifests
     /\ repositories'[r] = NoRow <=> repositories[r] = NoRow

LEMMA BareKept ==
  ASSUME NEW r, Bare(r), \A c \in collections' : c[1] = r => c \in collections,
         \A c \in manifests' : c[1] = r => c \in manifests
  PROVE  Bare(r)'
  BY DEF Bare, ListedFor

LEMMA KnownKept == ASSUME NEW r, Known(r), Kept(r)  PROVE Known(r)'
<1>1. CASE Idle(r)
  <2>1. Bare(r) => Bare(r)'
    BY <1>1, BareKept DEF Kept
  <2>2. Idle(r)' /\ (repositories'[r] = NoRow <=> repositories[r] = NoRow)
    BY <1>1 DEF Kept
  <2>3. QED
    BY <2>1, <2>2 DEF Known
<1>2. CASE ~Idle(r)
  <2>1. repositories[r] # NoRow
    BY <1>2 DEF Known
  <2>2. repositories'[r] # NoRow
    BY <2>1 DEF Kept
  <2>3. QED
    BY <2>2 DEF Known
<1>3. QED
  BY <1>1, <1>2

LEMMA LeftKept ==
  ASSUME NEW r, NEW u \in Users, Left(erase[u], r), Kept(r), erase'[u] = erase[u]
  PROVE  Left(erase[u], r)'
<1>1. CASE r \in erase[u].repos
  BY <1>1 DEF Left
<1>2. CASE r \notin erase[u].repos
  <2>1. Idle(r)
    BY <1>2 DEF Left
  <2>2. /\ Idle(r)'
        /\ \A c \in collections' : c[1] = r => c \in collections
        /\ \A c \in manifests' : c[1] = r => c \in manifests
    BY <2>1 DEF Kept
  <2>3. Bare(r) => Bare(r)'
    BY <2>2, BareKept
  <2>4. DefaultOf(r)' = DefaultOf(r) /\ DefaultOf(r)[1] = r
    BY DEF DefaultOf
  <2>5. QED
    BY <1>2, <2>2, <2>3, <2>4 DEF Left
<1>3. QED
  BY <1>1, <1>2

LEMMA InstallationKept ==
  ASSUME NEW i \in Installations, InstallationOk(i), \A r \in Of(i) : Kept(r),
         \A u \in Users : erase[u].at = i \/ erase'[u].at = i => erase'[u] = erase[u],
         \A l \in links : l[2] = i => l \in links', installations'[i] = installations[i]
  PROVE  InstallationOk(i)'
<1>1. \A r \in Of(i) : Known(r)'
  BY KnownKept DEF InstallationOk
<1>2. ASSUME NEW r \in Of(i), Idle(r), repositories[r] = NoRow
      PROVE  repositories'[r] = NoRow
  BY <1>2 DEF Kept
<1>3. ASSUME NEW u \in Users, erase'[u].at = i  PROVE Progress(erase[u])'
  <2>1. erase'[u] = erase[u] /\ erase[u].at = i /\ Progress(erase[u])
    BY <1>3 DEF InstallationOk
  <2>2. \A r \in Of(i) : Left(erase[u], r) => Left(erase[u], r)'
    BY <2>1, LeftKept
  <2>3. ASSUME NEW r \in Of(i), Idle(r), Bare(r)  PROVE Idle(r)' /\ Bare(r)'
    BY <2>3, BareKept DEF Kept
  <2>4. Of(i)' = Of(i)
    BY DEF Of
  <2>5. QED
    BY <1>2, <2>1, <2>2, <2>3, <2>4 DEF Progress
<1>4. ASSUME \A r \in Of(i) : repositories[r] = NoRow
      PROVE  \A r \in Of(i) : repositories'[r] = NoRow
  <2>1. \A r \in Of(i) : Idle(r)
    BY <1>4 DEF InstallationOk, Known
  <2>2. QED
    BY <1>2, <1>4, <2>1
<1>5. Of(i)' = Of(i)
  BY DEF Of
<1>6. QED
  BY <1>1, <1>3, <1>4, <1>5 DEF InstallationOk

LEMMA GoneHandler ==
  ASSUME Shape, InstallationInv, NEW h \in Handlers, HandlerStep(h)
  PROVE  InstallationInv'
<1> USE DEF Shape
<1>1. /\ UNCHANGED <<links, work, collections, manifests, erase>> /\ touched \subseteq touched'
      /\ repositories \in [Repos -> RowType] /\ jobs \in [Repos -> Seq(PendingType)]
      /\ installations \in [Installations -> {None, "active", "suspended", "deleted"}]
      /\ GoodHook(hook[h], event)
  BY HandlerFrame, HandlerHistory DEF TableTypes, QueueTypes, HookTypes
<1>2. failed \subseteq failed'
  BY DEF HandlerStep, Handle, Reserve, ReadStored, ReadSource, EnqueueNext, RecordInstallation,
         RecordNext, Accept, Release, HookThrows, ReleaseThrows, history
<1>3. ASSUME NEW i \in Installations \ (touched' \cup failed')
      PROVE  /\ installations'[i] = installations[i]
             /\ \A r \in Of(i) : jobs'[r] = jobs[r] /\ repositories'[r] = repositories[r]
  <2>1. CASE EnqueueNext(h)
    <3>1. PICK j \in hook[h].jobs : /\ jobs' = Enqueued(j.kind, j.repo, hook[h].delivery)
                                    /\ touched' = touched \cup {InstallationOf[j.repo]}
      BY <2>1 DEF EnqueueNext
    <3>2. \A r \in Of(i) : r # j.repo /\ r \in Repos
      BY <1>3, <3>1 DEF Of
    <3>3. \A r \in Of(i) : jobs'[r] = jobs[r]
      BY <1>1, <3>1, <3>2 DEF Enqueued
    <3>4. UNCHANGED <<installations, repositories>>
      BY <2>1 DEF EnqueueNext, tables
    <3>5. QED
      BY <3>3, <3>4
  <2>2. CASE RecordInstallation(h)
    <3>1. /\ \/ /\ installations' = [installations EXCEPT ![EventOf(h).installation] =
                                       StatusOf(EventOf(h))]
                /\ touched' = touched \cup {EventOf(h).installation}
             \/ UNCHANGED installations
          /\ UNCHANGED <<jobs, repositories>>
      BY <2>2 DEF RecordInstallation, queue
    <3>2. QED
      BY <1>1, <1>3, <3>1
  <2>3. CASE RecordNext(h)
    <3>1. PICK j \in hook[h].marks :
            \/ /\ \E row : repositories' = [repositories EXCEPT ![j.repo] = row]
               /\ touched' = touched \cup {InstallationOf[j.repo]}
            \/ UNCHANGED repositories
      BY <2>3 DEF RecordNext
    <3>2. \A r \in Of(i) : repositories'[r] = repositories[r]
      BY <1>1, <1>3, <3>1 DEF Of
    <3>3. UNCHANGED <<jobs, installations>>
      BY <2>3 DEF RecordNext, queue
    <3>4. QED
      BY <3>2, <3>3
  <2>4. CASE Reserve(h) \/ ReadStored(h) \/ ReadSource(h) \/ Accept(h) \/ Release(h)
             \/ HookThrows(h) \/ ReleaseThrows(h)
    BY <2>4 DEF Reserve, ReadStored, ReadSource, Accept, Release, HookThrows, ReleaseThrows,
                tables, queue
  <2>5. QED
    BY <2>1, <2>2, <2>3, <2>4 DEF HandlerStep, Handle
<1>4. ASSUME NEW i \in Installations \ (touched' \cup failed')  PROVE InstallationOk(i)'
  <2>1. InstallationOk(i)
    BY <1>1, <1>2 DEF InstallationInv
  <2>2. \A r \in Of(i) : Kept(r)
    BY <1>1, <1>3 DEF Kept, Idle
  <2>3. QED
    BY <1>1, <1>3, <2>1, <2>2, InstallationKept
<1>5. QED
  BY <1>4 DEF InstallationInv

LEMMA GoneMark ==
  ASSUME Shape, InstallationInv, NEW a \in Handlers \cup Repos, MarkStep(a)
  PROVE  InstallationInv'
<1> USE DEF Shape
<1> DEFINE m == mark[a]
           q == m.repo
<1>1. /\ UNCHANGED <<links, jobs, work, collections, manifests, erase, installations, failed>>
      /\ mark \in [Handlers \cup Repos -> MarkType] /\ repositories \in [Repos -> RowType]
  BY MarkFrame DEF QueueTypes, TableTypes
<1>2. /\ m # NoMark /\ q \in Repos
      /\ \/ a \in Handlers /\ touched' = touched \cup {InstallationOf[q]}
         \/ a \in Repos /\ a \notin Handlers /\ touched' = touched
  BY MarkHistory
<1>3. /\ m.status \in Statuses
      /\ \/ repositories' = [repositories EXCEPT ![q] = Upserted(m.status)]
         \/ repositories' = [repositories EXCEPT ![q] = Marked(@, m.status)]
  BY <1>1, <1>2 DEF MarkStep, MarkType
<1>4. /\ \A r \in Repos \ {q} : repositories'[r] = repositories[r]
      /\ repositories[q] # NoRow => repositories'[q] # NoRow
  <2>1. m.status # None
    BY <1>3, Constant
  <2>2. Upserted(m.status) # NoRow
    BY <2>1 DEF Upserted, NoRow
  <2>3. repositories[q] # NoRow => Marked(repositories[q], m.status).status = m.status
    BY <1>1, <1>2 DEF Marked, RowType
  <2>4. repositories[q] # NoRow => Marked(repositories[q], m.status) # NoRow
    BY <2>1, <2>3 DEF NoRow
  <2>5. QED
    BY <1>1, <1>2, <1>3, <2>2, <2>4
<1>5. ASSUME NEW i \in Installations \ (touched' \cup failed')  PROVE InstallationOk(i)'
  <2>1. InstallationOk(i)
    BY <1>1, <1>2, <1>5 DEF InstallationInv
  <2>2. ASSUME NEW r \in Of(i), r = q  PROVE ~Idle(r)
    <3>1. a \in Repos /\ InstallationOf[q] = i
      BY <1>2, <1>5, <2>2 DEF Of
    <3>2. work[a].pc # "idle" /\ q = a
      BY <1>2, <3>1 DEF QueueTypes, GoodWork
    <3>3. QED
      BY <2>2, <3>2, RestingIs DEF Idle
  <2>3. ASSUME NEW r \in Of(i)  PROVE Kept(r)
    <3>1. CASE r = q
      BY <1>4, <2>2, <3>1 DEF Kept
    <3>2. CASE r # q
      <4>1. repositories'[r] = repositories[r]
        BY <1>4, <3>2 DEF Of
      <4>2. QED
        BY <1>1, <4>1 DEF Kept, Idle
    <3>3. QED
      BY <3>1, <3>2
  <2>4. QED
    BY <1>1, <2>1, <2>3, InstallationKept
<1>6. QED
  BY <1>5 DEF InstallationInv

LEMMA GoneWork ==
  ASSUME Shape, InstallationInv, NEW q \in Repos, WorkStep(q)
  PROVE  InstallationInv'
<1> USE DEF Shape
<1>1. /\ WorkSet(q) /\ GoodWork(q, work[q], mark[q], event)
      /\ UNCHANGED <<links, erase, repositories, installations, failed, touched>>
  BY WorkStepSet, WorkFrame DEF QueueTypes
<1>2. /\ collections' \subseteq collections \cup {CollOf(q)}
         \/ collections' \subseteq collections
      /\ manifests' \subseteq manifests \cup {CollOf(q)} \/ manifests' \subseteq manifests
  BY ClaimIs, IndexIs, SaveIs, DropIs, CompleteIs, WorkThrowsIs DEF WorkStep, Work
<1>3. ~Idle(q)
  BY RestingIs DEF WorkStep, Work, Claim, IndexCollection, SaveManifest, DropCollections, Complete,
         WorkThrows, Doing, Idle
<1>4. CollOf(q)[1] = q
  BY DEF CollOf
<1>5. ASSUME NEW i \in Installations \ (touched \cup failed)  PROVE InstallationOk(i)'
  <2>1. InstallationOk(i)
    BY <1>5 DEF InstallationInv
  <2>2. ASSUME NEW r \in Of(i)  PROVE Kept(r)
    <3>1. CASE r = q
      BY <1>1, <1>3, <3>1 DEF Kept
    <3>2. CASE r # q
      <4>1. work'[r] = work[r] /\ jobs'[r] = jobs[r]
        BY <1>1, <3>2 DEF WorkSet, Of
      <4>2. /\ \A c \in collections' : c[1] = r => c \in collections
            /\ \A c \in manifests' : c[1] = r => c \in manifests
        BY <1>2, <1>4, <3>2
      <4>3. QED
        BY <1>1, <4>1, <4>2 DEF Kept, Idle
    <3>3. QED
      BY <3>1, <3>2
  <2>3. QED
    BY <1>1, <2>1, <2>2, InstallationKept
<1>6. QED
  BY <1>1, <1>5 DEF InstallationInv

\* A step in which no user signs in, asks for a token or asks to be erased brings
\* nothing of a user back.
LEMMA UserKept ==
  ASSUME NEW u \in Users, UserOk(u), erase'[u] = erase[u],
         u \in users' => u \in users, u \in sessions' => u \in sessions,
         u \in tokens' => u \in tokens, \A l \in links' : l[1] = u => l \in links
  PROVE  UserOk(u)'
  BY DEF UserOk

LEMMA GoneUser ==
  ASSUME Shape, UserInv, InstallationInv, NEW u \in Users, UserStep(u)
  PROVE  UserInv' /\ InstallationInv'
<1> USE DEF Shape
<1>1. /\ UNCHANGED <<repositories, work, collections, manifests, failed>>
      /\ erase \in [Users -> EraseType] /\ jobs \in [Repos -> Seq(PendingType)]
      /\ installations \in [Installations -> {None, "active", "suspended", "deleted"}]
      /\ Users \cap Installations = {} /\ GoodErase(erase[u], astray)
  BY UserFrame, Constant DEF DashTypes, QueueTypes, TableTypes
<1>2. /\ \A v \in Users \ {u} : erase'[v] = erase[v]
      /\ \/ erase' = erase /\ touched \subseteq touched'
         \/ /\ erase[u].at = None /\ erase'[u].at = None /\ erase'[u].pc = "list"
            /\ touched' = touched \ {u}
            /\ UNCHANGED <<jobs, links, users, sessions, tokens, installations>>
  <2>1. CASE StartErase(u)
    BY <2>1, StartEraseIs DEF EraseSet
  <2>2. CASE StartLogin(u) \/ Logout(u) \/ StartRequest(u)
    BY <2>2 DEF StartLogin, Logout, StartRequest, history, dash
  <2>3. CASE SignIn(u)
    BY <2>3 DEF SignIn, SaveUser, LinkNext, SaveSession
  <2>4. CASE Serve(u)
    BY <2>4 DEF Serve, CreateToken, CheckRepository, CheckInstallation, EnqueueReindex, history
  <2>5. QED
    BY <2>1, <2>2, <2>3, <2>4 DEF UserStep, Ask
<1>3. /\ links \subseteq links'
      /\ \A v \in Users \ touched' :
           /\ v \in users' => v \in users
           /\ v \in sessions' => v \in sessions
           /\ v \in tokens' => v \in tokens
           /\ \A l \in links' : l[1] = v => l \in links
      /\ \A i \in Installations \ touched' :
           /\ installations'[i] = installations[i]
           /\ \A r \in Of(i) : jobs'[r] = jobs[r]
  <2>1. CASE Ask(u)
    BY <2>1 DEF Ask, StartLogin, Logout, StartRequest, StartErase, tables, people, queue
  <2>2. CASE LinkNext(u)
    <3>1. PICK f \in login[u].found :
            /\ installations' = [installations EXCEPT ![f[1]] = f[2]]
            /\ links' = links \cup {<<u, f[1]>>}
            /\ touched' = touched \cup {u, f[1]}
            /\ UNCHANGED <<jobs, users, sessions, tokens>>
      BY <2>2 DEF LinkNext, queue
    <3>2. \A i \in Installations \ touched' : installations'[i] = installations[i]
      BY <1>1, <3>1
    <3>3. QED
      BY <3>1, <3>2
  <2>3. CASE SaveUser(u) \/ SaveSession(u) \/ CreateToken(u)
    BY <2>3 DEF SaveUser, SaveSession, CreateToken, tables, people, queue
  <2>4. CASE CheckRepository(u) \/ CheckInstallation(u)
    BY <2>4 DEF CheckRepository, CheckInstallation, tables, people, queue
  <2>5. CASE EnqueueReindex(u)
    <3> DEFINE q == request[u].repo
    <3>1. /\ jobs' = Enqueued("full", q, u) /\ touched' = touched \cup {InstallationOf[q]}
          /\ UNCHANGED <<links, users, sessions, tokens, installations>>
      BY <2>5 DEF EnqueueReindex, tables, people
    <3>2. \A i \in Installations \ touched' : \A r \in Of(i) : r # q /\ r \in Repos
      BY <3>1 DEF Of
    <3>3. \A i \in Installations \ touched' : \A r \in Of(i) : jobs'[r] = jobs[r]
      BY <1>1, <3>1, <3>2 DEF Enqueued
    <3>4. QED
      BY <3>1, <3>3
  <2>6. QED
    BY <2>1, <2>2, <2>3, <2>4, <2>5 DEF UserStep, SignIn, Serve
<1>4. ASSUME NEW v \in Users \ touched'  PROVE UserOk(v)'
  <2>1. CASE erase'[v] = erase[v] /\ v \notin touched
    <3>1. UserOk(v)
      BY <2>1 DEF UserInv
    <3>2. QED
      BY <1>3, <2>1, <3>1, UserKept
  <2>2. CASE erase'[v] # erase[v] \/ v \in touched
    <3>1. erase'[v].pc = "list"
      BY <1>2, <1>4, <2>2
    <3>2. QED
      BY <3>1 DEF UserOk
  <2>3. QED
    BY <2>1, <2>2
<1>5. ASSUME NEW i \in Installations \ (touched' \cup failed')  PROVE InstallationOk(i)'
  <2>1. InstallationOk(i)
    BY <1>1, <1>2, <1>5 DEF InstallationInv
  <2>2. \A r \in Of(i) : Kept(r)
    BY <1>1, <1>3, <1>5 DEF Kept, Idle
  <2>3. i # None
    BY Constant
  <2>4. \A v \in Users : erase[v].at = i \/ erase'[v].at = i => erase'[v] = erase[v]
    BY <1>2, <2>3
  <2>5. QED
    BY <1>3, <1>5, <2>1, <2>2, <2>4, InstallationKept
<1>6. QED
  BY <1>4, <1>5 DEF UserInv, InstallationInv

LEMMA GoneCrash ==
  ASSUME Shape, UserInv, InstallationInv, Crash
  PROVE  UserInv' /\ InstallationInv'
<1> USE DEF Shape
<1>1. /\ UNCHANGED <<users, sessions, tokens, links, installations, repositories, collections,
                     manifests, touched>>
      /\ failed' = failed \cup ({erase[u].at : u \in {v \in Users : Erasing(v)}} \ {None})
      /\ erase' = [u \in Users |-> IF Erasing(u) THEN Interrupted(u) ELSE erase[u]]
  BY CrashIs DEF Crash
<1>2. ASSUME NEW u \in Users
      PROVE  /\ erase'[u] = erase[u] \/ (erase'[u].pc = "error" /\ erase'[u].at = None)
             /\ erase[u].at # None => erase[u].at \in failed'
  <2>1. erase'[u] = IF Erasing(u) THEN Interrupted(u) ELSE erase[u]
    BY <1>1
  <2>2. Interrupted(u).pc = "error" /\ Interrupted(u).at = None
    BY DEF Interrupted, NotErasing
  <2>3. erase[u].at # None => Erasing(u)
    BY DEF DashTypes, GoodErase, Present, Erasing
  <2>4. QED
    BY <1>1, <2>1, <2>2, <2>3
<1>3. ASSUME NEW u \in Users \ touched'  PROVE UserOk(u)'
  <2>1. UserOk(u)
    BY <1>1, <1>3 DEF UserInv
  <2>2. CASE erase'[u] = erase[u]
    BY <1>1, <2>1, <2>2, UserKept
  <2>3. CASE erase'[u].pc = "error"
    BY <2>3 DEF UserOk
  <2>4. QED
    BY <1>2, <2>2, <2>3
<1>4. ASSUME NEW i \in Installations \ (touched' \cup failed')  PROVE InstallationOk(i)'
  <2>1. InstallationOk(i) /\ i # None
    BY <1>1, <1>4, Constant DEF InstallationInv
  <2>2. ASSUME NEW r \in Of(i)  PROVE Kept(r)
    <3>1. r \in Repos
      BY DEF Of
    <3>2. work'[r] = Resting /\ (work[r] = Resting => jobs'[r] = jobs[r])
      BY <3>1, AgainIs
    <3>3. QED
      BY <1>1, <3>2 DEF Kept, Idle
  <2>3. \A u \in Users : erase[u].at # i /\ erase'[u].at # i
    BY <1>2, <1>4, <2>1
  <2>4. QED
    BY <1>1, <2>1, <2>2, <2>3, InstallationKept
<1>5. QED
  BY <1>3, <1>4 DEF UserInv, InstallationInv

LEMMA EraseKept ==
  ASSUME NEW r, collections' \subseteq collections, manifests' \subseteq manifests, work' = work,
         jobs'[r] = jobs[r] \/ jobs'[r] = <<>>, repositories'[r] = repositories[r]
  PROVE  Kept(r) /\ (Idle(r) => Idle(r)') /\ (Bare(r) => Bare(r)')
<1>1. Bare(r) => Bare(r)'
  BY BareKept
<1>2. Idle(r) => Idle(r)'
  BY DEF Idle
<1>3. QED
  BY <1>1, <1>2 DEF Kept

\* The user who erases i has taken a step.
LEMMA InstallationMoved ==
  ASSUME NEW i \in Installations, InstallationOk(i), \A r \in Of(i) : Kept(r),
         NEW u \in Users, \A v \in Users \ {u} : erase'[v] = erase[v],
         erase'[u].at = i => Progress(erase[u])',
         \/ \E l \in links' : l[2] = i
         \/ erase'[u].at = i
         \/ installations'[i] = None /\ \A r \in Of(i) : repositories'[r] = NoRow
  PROVE  InstallationOk(i)'
<1>1. \A r \in Of(i) : Known(r)'
  BY KnownKept DEF InstallationOk
<1>2. ASSUME NEW v \in Users, v # u, erase'[v].at = i  PROVE Progress(erase[v])'
  <2>1. erase'[v] = erase[v] /\ erase[v].at = i /\ Progress(erase[v])
    BY <1>2 DEF InstallationOk
  <2>2. \A r \in Of(i) : Left(erase[v], r) => Left(erase[v], r)'
    BY <2>1, LeftKept
  <2>3. ASSUME NEW r \in Of(i), Idle(r), Bare(r), repositories[r] = NoRow
        PROVE  Idle(r)' /\ Bare(r)' /\ repositories'[r] = NoRow
    BY <2>3, BareKept DEF Kept
  <2>4. Of(i)' = Of(i)
    BY DEF Of
  <2>5. QED
    BY <2>1, <2>2, <2>3, <2>4 DEF Progress
<1>3. Of(i)' = Of(i)
  BY DEF Of
<1>4. QED
  BY <1>1, <1>2, <1>3 DEF InstallationOk

\* What the request knows of the installation it erases, from step to step.
LEMMA ProgressKept ==
  ASSUME Shape, NEW u \in Users, EraseStep(u), InstallationOk(erase[u].at),
         erase'[u].at = erase[u].at, erase[u].at \in Installations,
         \A r \in Repos : (Idle(r) => Idle(r)') /\ (Bare(r) => Bare(r)')
  PROVE  Progress(erase[u])'
<1> USE DEF Shape
<1> DEFINE x == erase[u]
           i == erase[u].at
<1>1. /\ Progress(x) /\ GoodErase(x, astray) /\ \A r \in Of(i) : Known(r) /\ r \in Repos
      /\ x \in EraseType
  BY DEF InstallationOk, DashTypes, Of
<1>2. Of(i)' = Of(i) /\ i # None
  BY Constant DEF Of
<1>3. SUFFICES /\ erase'[u].pc \in {"repositories", "list collections", "collections", "manifest"}
                    => \A r \in Of(i) : Left(erase[u], r)'
               /\ erase'[u].pc = "installation" =>
                    \A r \in Of(i) : Idle(r)' /\ Bare(r)' /\ repositories'[r] = NoRow
  BY <1>2 DEF Progress
<1>4. CASE ListRepositories(u)
  <2>1. /\ erase'[u].pc = "repositories" /\ erase'[u].repos = RowsOf(i)
    BY <1>4, ListRepositoriesIs
  <2>2. \A r \in Of(i) : r \in RowsOf(i) \/ (Idle(r)' /\ Bare(r)')
    BY <1>1 DEF RowsOf, Known
  <2>3. QED
    BY <2>1, <2>2 DEF Left
<1>5. CASE DeleteJobs(u)
  <2>1. PICK q \in Repos :
           /\ x.pc = "repositories" /\ erase'[u].pc = "list collections"
           /\ erase'[u].repo = q /\ erase'[u].repos = x.repos \ {q}
           /\ jobs'[q] = <<>> /\ work[q] = Resting
    BY <1>5, DeleteJobsIs
  <2>2. work' = work
    BY EraseFrame
  <2>3. Idle(q)'
    BY <2>1, <2>2 DEF Idle
  <2>4. ASSUME NEW r \in Of(i)  PROVE Left(erase[u], r)'
    <3>1. Left(x, r)
      BY <1>1, <2>1 DEF Progress
    <3>2. r \in x.repos \/ (Idle(r)' /\ Bare(r)')
      BY <1>1, <2>1, <3>1 DEF Left
    <3>3. QED
      BY <2>1, <2>3, <3>2 DEF Left
  <2>5. QED
    BY <2>1, <2>4
<1>6. CASE ListCollections(u)
  <2>1. /\ x.pc = "list collections" /\ erase'[u].pc = "collections"
        /\ erase'[u].repos = x.repos /\ erase'[u].repo = x.repo
        /\ erase'[u].colls = ListedFor(x.repo) /\ UNCHANGED manifests
    BY <1>6, ListCollectionsIs DEF Reads
  <2>2. ASSUME NEW r \in Of(i)  PROVE Left(erase[u], r)'
    <3>1. Left(x, r)
      BY <1>1, <2>1 DEF Progress
    <3>2. \/ r \in x.repos
          \/ Idle(r)' /\ Bare(r)'
          \/ r = x.repo /\ Idle(r)'
      BY <1>1, <2>1, <3>1 DEF Left
    <3>3. /\ DefaultOf(r)' \in ListedFor(r)
          /\ \A c \in manifests' : c[1] = r => c \in ListedFor(r)
      BY <2>1 DEF DefaultOf, ListedFor
    <3>4. QED
      BY <2>1, <3>2, <3>3 DEF Left
  <2>3. QED
    BY <2>1, <2>2
<1>7. CASE DeleteCollection(u)
  <2>1. PICK c \in x.colls :
           /\ x.pc = "collections" /\ collections' = collections \ {c}
           /\ erase'[u].pc = "manifest" /\ erase'[u].repos = x.repos
           /\ erase'[u].repo = x.repo /\ erase'[u].colls = x.colls \ {c}
           /\ erase'[u].coll = c /\ UNCHANGED manifests
    BY <1>7, DeleteCollectionIs
  <2>2. ASSUME NEW r \in Of(i)  PROVE Left(erase[u], r)'
    <3>1. Left(x, r)
      BY <1>1, <2>1 DEF Progress
    <3>2. \/ r \in x.repos
          \/ Idle(r)' /\ Bare(r)'
          \/ /\ r = x.repo /\ Idle(r)'
             /\ DefaultOf(r) \in collections => DefaultOf(r) \in x.colls
             /\ \A d \in manifests : d[1] = r => d \in x.colls
      BY <1>1, <2>1, <3>1 DEF Left
    <3>3. DefaultOf(r)' = DefaultOf(r)
      BY DEF DefaultOf
    <3>4. QED
      BY <2>1, <3>2, <3>3 DEF Left
  <2>3. QED
    BY <2>1, <2>2
<1>8. CASE DeleteManifest(u)
  <2>1. /\ x.pc = "manifest" /\ manifests' = manifests \ {x.coll}
        /\ erase'[u].pc = "collections" /\ erase'[u].repos = x.repos
        /\ erase'[u].repo = x.repo /\ erase'[u].colls = x.colls /\ UNCHANGED collections
    BY <1>8, DeleteManifestIs
  <2>2. ASSUME NEW r \in Of(i)  PROVE Left(erase[u], r)'
    <3>1. Left(x, r)
      BY <1>1, <2>1 DEF Progress
    <3>2. \/ r \in x.repos
          \/ Idle(r)' /\ Bare(r)'
          \/ /\ r = x.repo /\ Idle(r)'
             /\ DefaultOf(r) \in collections => DefaultOf(r) \in x.colls
             /\ \A d \in manifests : d[1] = r => d \in x.colls \/ d = x.coll
      BY <1>1, <2>1, <3>1 DEF Left
    <3>3. DefaultOf(r)' = DefaultOf(r)
      BY DEF DefaultOf
    <3>4. QED
      BY <2>1, <3>2, <3>3 DEF Left
  <2>3. QED
    BY <2>1, <2>2
<1>9. CASE NextRepository(u)
  <2>1. /\ x.pc = "collections" /\ x.colls = {} /\ erase'[u].pc = "repositories"
        /\ erase'[u].repos = x.repos
    BY <1>9, NextRepositoryIs
  <2>2. ASSUME NEW r \in Of(i)  PROVE Left(erase[u], r)'
    <3>1. Left(x, r)
      BY <1>1, <2>1 DEF Progress
    <3>2. \/ r \in x.repos
          \/ Idle(r) /\ Bare(r)
          \/ /\ Idle(r) /\ DefaultOf(r) \notin collections
             /\ \A d \in manifests : d[1] # r
      BY <2>1, <3>1 DEF Left
    <3>3. DefaultOf(r) \notin collections /\ (\A d \in manifests : d[1] # r) => Bare(r)
      <4>1. SUFFICES ASSUME DefaultOf(r) \notin collections, \A d \in manifests : d[1] # r,
                            NEW c \in ListedFor(r)
                     PROVE  c \notin collections \cup manifests
        BY DEF Bare
      <4>2. c = DefaultOf(r) /\ c[1] = r
        BY <4>1 DEF ListedFor, DefaultOf
      <4>3. QED
        BY <4>1, <4>2
    <3>4. r \in x.repos \/ (Idle(r)' /\ Bare(r)')
      BY <1>1, <3>2, <3>3
    <3>5. QED
      BY <2>1, <3>4 DEF Left
  <2>3. QED
    BY <2>1, <2>2
<1>10. CASE DeleteRepositories(u)
  <2>1. /\ x.pc = "repositories" /\ x.repos = {} /\ erase'[u].pc = "installation"
        /\ repositories' = [r \in Repos |-> IF r \in Of(i) THEN NoRow ELSE repositories[r]]
    BY <1>10, DeleteRepositoriesIs
  <2>2. ASSUME NEW r \in Of(i)  PROVE Idle(r)' /\ Bare(r)' /\ repositories'[r] = NoRow
    <3>1. Left(x, r)
      BY <1>1, <2>1 DEF Progress
    <3>2. Idle(r) /\ Bare(r)
      BY <2>1, <3>1 DEF Left
    <3>3. QED
      BY <1>1, <2>1, <3>2
  <2>3. QED
    BY <2>1, <2>2
<1>11. CASE CountUsers(u)
  BY <1>2, <1>11, CountUsersIs
<1>12. CASE ListInstallations(u) \/ Unlink(u) \/ DeleteInstallation(u) \/ DeleteSessions(u)
            \/ DeleteTokens(u) \/ DeleteUser(u) \/ EraseThrows(u)
  <2>1. ListInstallations(u) \/ Unlink(u) => x.at = None
    BY ListInstallationsIs, UnlinkIs
  <2>2. DeleteInstallation(u) \/ EraseThrows(u) => erase'[u].at = None
    BY DeleteInstallationIs, EraseThrowsIs
  <2>3. DeleteSessions(u) \/ DeleteTokens(u) \/ DeleteUser(u) => x.at = None
    BY DeleteSessionsIs, DeleteUserIs
  <2>4. QED
    BY <1>2, <1>12, <2>1, <2>2, <2>3
<1>13. QED
  BY <1>4, <1>5, <1>6, <1>7, <1>8, <1>9, <1>10, <1>11, <1>12 DEF EraseStep, Erase

LEMMA EraseFacts ==
  ASSUME Shape, NEW u \in Users, EraseStep(u)
  PROVE  /\ \A v \in Users \ {u} : erase'[v] = erase[v]
         /\ failed \subseteq failed' /\ erase'[u].at \in Installations \cup {None}
         /\ \A r \in Repos : (Idle(r) => Idle(r)') /\ (Bare(r) => Bare(r)')
         /\ \A r \in Repos : repositories'[r] = repositories[r] => Kept(r)
<1>1. /\ collections' \subseteq collections /\ manifests' \subseteq manifests
      /\ failed \subseteq failed' /\ work' = work /\ EraseSet(u)
  BY EraseIndex, EraseFrame, EraseStepSet
<1>2. ASSUME NEW r \in Repos  PROVE jobs'[r] = jobs[r] \/ jobs'[r] = <<>>
  <2>1. CASE DeleteJobs(u)
    BY <2>1, DeleteJobsIs
  <2>2. CASE ListInstallations(u) \/ Unlink(u) \/ CountUsers(u) \/ ListRepositories(u)
             \/ ListCollections(u) \/ DeleteCollection(u) \/ DeleteManifest(u)
    BY <2>2, ListInstallationsIs, UnlinkIs, CountUsersIs, ListRepositoriesIs, ListCollectionsIs,
       DeleteCollectionIs, DeleteManifestIs DEF Reads
  <2>3. CASE NextRepository(u) \/ DeleteRepositories(u) \/ DeleteInstallation(u)
             \/ DeleteSessions(u) \/ DeleteTokens(u) \/ DeleteUser(u) \/ EraseThrows(u)
    BY <2>3, NextRepositoryIs, DeleteRepositoriesIs, DeleteInstallationIs, DeleteSessionsIs,
       DeleteUserIs, EraseThrowsIs DEF Reads
  <2>4. QED
    BY <2>1, <2>2, <2>3 DEF EraseStep, Erase
<1>3. erase'[u].at \in Installations \cup {None}
  BY <1>1 DEF EraseSet, EraseType
<1>4. ASSUME NEW r \in Repos
      PROVE  (Idle(r) => Idle(r)') /\ (Bare(r) => Bare(r)')
  <2>1. Idle(r) => Idle(r)'
    BY <1>1, <1>2 DEF Idle
  <2>2. Bare(r) => Bare(r)'
    BY <1>1, BareKept
  <2>3. QED
    BY <2>1, <2>2
<1>5. \A r \in Repos : repositories'[r] = repositories[r] => Kept(r)
  BY <1>1, <1>2, EraseKept
<1>6. QED
  BY <1>1, <1>3, <1>4, <1>5 DEF EraseSet

LEMMA GoneErase ==
  ASSUME Shape, InstallationInv, NEW u \in Users, EraseStep(u)
  PROVE  InstallationInv'
<1> USE DEF Shape
<1> DEFINE at == erase[u].at
<1>1. /\ \A v \in Users \ {u} : erase'[v] = erase[v]
      /\ failed \subseteq failed' /\ erase'[u].at \in Installations \cup {None}
      /\ \A r \in Repos : (Idle(r) => Idle(r)') /\ (Bare(r) => Bare(r)')
      /\ \A r \in Repos : repositories'[r] = repositories[r] => Kept(r)
  BY EraseFacts
<1>2. SUFFICES ASSUME NEW i \in Installations \ (touched' \cup failed')
               PROVE  InstallationOk(i)'
  BY DEF InstallationInv
<1>3. i # None /\ Of(i)' = Of(i) /\ Of(i) \subseteq Repos
  BY Constant DEF Of
<1>4. ASSUME erase'[u].at = at, at = i, InstallationOk(i)  PROVE Progress(erase[u])'
  BY <1>1, <1>4, ProgressKept
<1>5. i \notin touched => InstallationOk(i)
  BY <1>1, <1>2 DEF InstallationInv
<1>6. CASE DeleteRepositories(u)
  <2>1. /\ at # None /\ erase'[u].at = at /\ erase'[u].pc = "installation"
        /\ repositories' = [r \in Repos |-> IF r \in Of(at) THEN NoRow ELSE repositories[r]]
        /\ UNCHANGED <<links, installations, touched>>
    BY <1>6, DeleteRepositoriesIs DEF DashTypes, GoodErase, Present
  <2>2. InstallationOk(i)
    BY <1>5, <2>1
  <2>3. CASE at # i
    <3>1. \A r \in Of(i) : r \notin Of(at)
      BY <2>3 DEF Of
    <3>2. \A r \in Of(i) : Kept(r)
      BY <1>1, <1>3, <2>1, <3>1
    <3>3. QED
      BY <1>1, <2>1, <2>2, <2>3, <3>2, InstallationKept
  <2>4. CASE at = i
    <3>1. Progress(erase[u])'
      BY <1>4, <2>1, <2>2, <2>4
    <3>2. \A r \in Of(i) : Idle(r)' /\ Bare(r)' /\ repositories'[r] = NoRow
      BY <1>3, <2>1, <2>4, <3>1 DEF Progress
    <3>3. \A v \in Users : erase'[v].at = i => Progress(erase[v])'
      BY <1>3, <3>2 DEF Progress, Left
    <3>4. \A r \in Of(i) : Known(r)'
      BY <3>2 DEF Known
    <3>5. QED
      BY <1>3, <2>1, <2>4, <3>3, <3>4 DEF InstallationOk
  <2>5. QED
    BY <2>3, <2>4
<1>7. CASE Unlink(u)
  <2>1. PICK j \in Installations :
           /\ at = None /\ erase'[u].pc = "count" /\ erase'[u].at = j
           /\ links' = links \ {<<u, j>>}
           /\ touched' = IF Findable(u, j) THEN touched \ {j} ELSE touched
           /\ UNCHANGED <<jobs, installations, repositories, collections, manifests>>
    BY <1>7, UnlinkIs
  <2>2. Progress(erase[u])'
    BY <2>1 DEF Progress
  <2>3. \A r \in Of(i) : Kept(r)
    BY <1>1, <1>3, <2>1
  <2>4. CASE i = j /\ InstallationOk(i)
    BY <1>1, <2>1, <2>2, <2>3, <2>4, InstallationMoved
  <2>5. CASE i # j
    <3>1. InstallationOk(i)
      BY <1>2, <1>5, <2>1, <2>5
    <3>2. \A l \in links : l[2] = i => l \in links'
      BY <2>1, <2>5
    <3>3. QED
      BY <1>1, <1>3, <2>1, <2>3, <2>5, <3>1, <3>2, InstallationKept
  <2>6. CASE i = j /\ i \in touched
    <3>1. Findable(u, i)
      BY <1>2, <2>1, <2>6
    <3>2. \A r \in Of(i) : repositories[r] # NoRow \/ (Idle(r) /\ Bare(r))
      BY <3>1 DEF Findable, RowsOf, Idle, Bare
    <3>3. \A r \in Of(i) : Known(r)'
      BY <1>1, <1>3, <2>1, <3>2 DEF Known
    <3>4. \A v \in Users \ {u} : erase'[v].at # i
      BY <1>1, <3>1 DEF Findable
    <3>5. QED
      BY <1>3, <2>1, <2>2, <2>6, <3>3, <3>4 DEF InstallationOk
  <2>7. QED
    BY <1>5, <2>4, <2>5, <2>6
<1>8. CASE CountUsers(u)
  <2>1. /\ Reads
        /\ \/ erase'[u].at = None /\ \E l \in links : l[2] = at
           \/ erase'[u].at = at
    BY <1>8, CountUsersIs
  <2>2. InstallationOk(i) /\ \A r \in Of(i) : Kept(r)
    BY <1>1, <1>3, <1>5, <2>1, <1>2 DEF Reads
  <2>3. CASE at # i
    BY <1>1, <1>3, <2>1, <2>2, <2>3, InstallationKept DEF Reads
  <2>4. CASE at = i
    <3>1. (\E l \in links' : l[2] = i) \/ erase'[u].at = i
      BY <2>1, <2>4 DEF Reads
    <3>2. erase'[u].at = i => Progress(erase[u])'
      BY <1>4, <2>2, <2>4
    <3>3. QED
      BY <1>1, <2>2, <3>1, <3>2, InstallationMoved
  <2>5. QED
    BY <2>3, <2>4
<1>9. CASE ListRepositories(u) \/ DeleteJobs(u) \/ ListCollections(u) \/ DeleteCollection(u)
           \/ DeleteManifest(u) \/ NextRepository(u)
  <2>1. /\ erase'[u].at = at
        /\ UNCHANGED <<links, installations, repositories, touched>>
    BY <1>9, ListRepositoriesIs, DeleteJobsIs, ListCollectionsIs, DeleteCollectionIs,
       DeleteManifestIs, NextRepositoryIs DEF Reads
  <2>2. InstallationOk(i) /\ \A r \in Of(i) : Kept(r)
    BY <1>1, <1>2, <1>3, <1>5, <2>1
  <2>3. CASE at # i
    BY <1>1, <2>1, <2>2, <2>3, InstallationKept
  <2>4. CASE at = i
    <3>1. Progress(erase[u])'
      BY <1>4, <2>1, <2>2, <2>4
    <3>2. QED
      BY <1>1, <2>1, <2>2, <2>4, <3>1, InstallationMoved
  <2>5. QED
    BY <2>3, <2>4
<1>10. CASE DeleteInstallation(u)
  <2>1. /\ erase[u].pc = "installation" /\ at \in Installations
        /\ installations' = [installations EXCEPT ![at] = None]
        /\ links' = {l \in links : l[2] # at} /\ erase'[u].at = None
        /\ installations \in [Installations -> {None, "active", "suspended", "deleted"}]
        /\ UNCHANGED <<repositories, touched>>
    BY <1>10, DeleteInstallationIs DEF TableTypes
  <2>2. InstallationOk(i) /\ \A r \in Of(i) : Kept(r)
    BY <1>1, <1>2, <1>3, <1>5, <2>1
  <2>3. CASE at # i
    <3>1. /\ installations'[i] = installations[i]
          /\ \A l \in links : l[2] = i => l \in links'
      BY <2>1, <2>3
    <3>2. QED
      BY <1>1, <1>3, <2>1, <2>2, <2>3, <3>1, InstallationKept
  <2>4. CASE at = i
    <3>1. installations'[i] = None /\ \A r \in Of(i) : repositories'[r] = NoRow
      BY <2>1, <2>2, <2>4 DEF InstallationOk, Progress
    <3>2. QED
      BY <1>1, <1>3, <2>1, <2>2, <3>1, InstallationMoved
  <2>5. QED
    BY <2>3, <2>4
<1>11. CASE EraseThrows(u)
  <2>1. /\ erase'[u].at = None /\ failed' = failed \cup ({at} \ {None})
        /\ UNCHANGED <<links, installations, repositories, touched>>
    BY <1>11, EraseThrowsIs
  <2>2. InstallationOk(i) /\ \A r \in Of(i) : Kept(r)
    BY <1>1, <1>2, <1>3, <1>5, <2>1
  <2>3. at # i
    BY <1>2, <1>3, <2>1
  <2>4. QED
    BY <1>1, <1>3, <2>1, <2>2, <2>3, InstallationKept
<1>12. CASE ListInstallations(u) \/ DeleteSessions(u) \/ DeleteTokens(u) \/ DeleteUser(u)
  <2>1. /\ at = None /\ erase'[u].at = None
        /\ UNCHANGED <<installations, repositories>> /\ touched \subseteq touched'
        /\ \A l \in links : l[2] \in touched' \/ l \in links'
    <3>1. CASE ListInstallations(u) \/ DeleteSessions(u) \/ DeleteTokens(u)
      BY <3>1, ListInstallationsIs, DeleteSessionsIs DEF Reads
    <3>2. CASE DeleteUser(u)
      <4>1. /\ at = None /\ erase'[u].at = None
            /\ UNCHANGED <<installations, repositories>>
            /\ links' = {l \in links : l[1] # u}
            /\ touched' = touched \cup {j \in Installations : <<u, j>> \in links}
        BY <3>2, DeleteUserIs
      <4>2. ASSUME NEW l \in links  PROVE l = <<l[1], l[2]>> /\ l[2] \in Installations
        BY DEF PeopleTypes
      <4>3. QED
        BY <4>1, <4>2
    <3>3. QED
      BY <1>12, <3>1, <3>2
  <2>2. InstallationOk(i) /\ \A r \in Of(i) : Kept(r)
    BY <1>1, <1>2, <1>3, <1>5, <2>1
  <2>3. QED
    BY <1>1, <1>2, <1>3, <2>1, <2>2, InstallationKept
<1>13. QED
  BY <1>6, <1>7, <1>8, <1>9, <1>10, <1>11, <1>12 DEF EraseStep, Erase

LEMMA UserErase ==
  ASSUME Shape, UserInv, NEW u \in Users, EraseStep(u)
  PROVE  UserInv'
<1> USE DEF Shape
<1>1. /\ \A v \in Users \ {u} : erase'[v] = erase[v]
      /\ users' \subseteq users /\ sessions' \subseteq sessions /\ tokens' \subseteq tokens
      /\ links' \subseteq links /\ \A v \in Users : v \in touched => v \in touched'
  <2>1. CASE ListInstallations(u) \/ Unlink(u) \/ CountUsers(u) \/ ListRepositories(u)
    <3>1. CASE Unlink(u)
      <4>1. u \notin Installations
        BY Constant
      <4>2. PICK i \in Installations :
              /\ EraseSet(u) /\ links' = links \ {<<u, i>>}
              /\ touched' = IF Findable(u, i) THEN touched \ {i} ELSE touched
              /\ UNCHANGED <<users, sessions, tokens>>
        BY <3>1, UnlinkIs
      <4>3. \A v \in Users : v # i
        BY Constant
      <4>4. QED
        BY <4>2, <4>3 DEF EraseSet
    <3>2. CASE ListInstallations(u) \/ CountUsers(u) \/ ListRepositories(u)
      BY <3>2, ListInstallationsIs, CountUsersIs, ListRepositoriesIs DEF Reads, EraseSet
    <3>3. QED
      BY <2>1, <3>1, <3>2
  <2>2. CASE DeleteJobs(u) \/ ListCollections(u) \/ DeleteCollection(u) \/ DeleteManifest(u)
    BY <2>2, DeleteJobsIs, ListCollectionsIs, DeleteCollectionIs, DeleteManifestIs
       DEF Reads, EraseSet
  <2>3. CASE NextRepository(u) \/ DeleteRepositories(u) \/ DeleteInstallation(u)
    BY <2>3, NextRepositoryIs, DeleteRepositoriesIs, DeleteInstallationIs DEF Reads, EraseSet
  <2>4. CASE DeleteSessions(u) \/ DeleteTokens(u) \/ DeleteUser(u) \/ EraseThrows(u)
    BY <2>4, DeleteSessionsIs, DeleteUserIs, EraseThrowsIs DEF EraseSet
  <2>5. QED
    BY <2>1, <2>2, <2>3, <2>4 DEF EraseStep, Erase
<1>2. ASSUME u \notin touched'  PROVE UserOk(u)'
  <2>1. UserOk(u)
    BY <1>1, <1>2 DEF UserInv
  <2>2. CASE DeleteSessions(u) \/ DeleteTokens(u)
    BY <2>1, <2>2, DeleteSessionsIs DEF UserOk
  <2>3. CASE DeleteUser(u)
    BY <2>1, <2>3, DeleteUserIs DEF UserOk
  <2>4. CASE ListInstallations(u) \/ Unlink(u) \/ CountUsers(u) \/ ListRepositories(u)
             \/ DeleteJobs(u) \/ ListCollections(u) \/ EraseThrows(u)
    <3>1. erase'[u].pc \in {"next", "count", "list repositories", "repositories",
                            "list collections", "collections", "error"}
      BY <2>4, ListInstallationsIs, UnlinkIs, CountUsersIs, ListRepositoriesIs, DeleteJobsIs,
         ListCollectionsIs, EraseThrowsIs
    <3>2. QED
      BY <3>1 DEF UserOk
  <2>5. CASE DeleteCollection(u) \/ DeleteManifest(u) \/ NextRepository(u)
             \/ DeleteRepositories(u) \/ DeleteInstallation(u)
    <3>1. erase'[u].pc \in {"manifest", "collections", "repositories", "installation", "next"}
      BY <2>5, DeleteCollectionIs, DeleteManifestIs, NextRepositoryIs, DeleteRepositoriesIs,
         DeleteInstallationIs
    <3>2. QED
      BY <3>1 DEF UserOk
  <2>6. QED
    BY <2>2, <2>3, <2>4, <2>5 DEF EraseStep, Erase
<1>3. ASSUME NEW v \in Users \ touched', v # u  PROVE UserOk(v)'
  BY <1>1, <1>3, UserKept DEF UserInv
<1>4. QED
  BY <1>2, <1>3 DEF UserInv

LEMMA GoneStep ==
  ASSUME Shape, UserInv, InstallationInv, [Next]_vars
  PROVE  UserInv' /\ InstallationInv'
<1> USE DEF Shape
<1>1. ASSUME UNCHANGED <<users, sessions, tokens, links, erase>>,
             \A u \in Users : u \in touched => u \in touched'
      PROVE  UserInv'
  BY <1>1, UserKept DEF UserInv
<1>2. ASSUME UNCHANGED <<links, installations, repositories, jobs, work, collections, manifests,
                         erase, failed, touched>>
      PROVE  InstallationInv'
  <2>1. \A r : Kept(r)
    BY <1>2 DEF Kept, Idle
  <2>2. QED
    BY <1>2, <2>1, InstallationKept DEF InstallationInv
<1>3. ASSUME NEW h \in Handlers, HandlerStep(h)  PROVE UserInv' /\ InstallationInv'
  BY <1>1, <1>3, GoneHandler, HandlerFrame, HandlerHistory
<1>4. ASSUME NEW r \in Repos, WorkStep(r)  PROVE UserInv' /\ InstallationInv'
  BY <1>1, <1>4, GoneWork, WorkFrame
<1>5. ASSUME NEW a \in Handlers \cup Repos, MarkStep(a)  PROVE UserInv' /\ InstallationInv'
  BY <1>1, <1>5, GoneMark, MarkFrame, MarkHistory
<1>6. ASSUME NEW d \in Deliveries, Deliver(d)  PROVE UserInv' /\ InstallationInv'
  BY <1>1, <1>2, <1>6 DEF Deliver, tables, people, queue, index, dash, history
<1>7. ASSUME NEW u \in Users, LoginThrows(u)  PROVE UserInv' /\ InstallationInv'
  BY <1>1, <1>2, <1>7, LoginThrowsIs
<1>8. ASSUME Reported \/ UNCHANGED vars  PROVE UserInv' /\ InstallationInv'
  BY <1>1, <1>2, <1>8, ReportedIs, StutterIs
<1>9. QED
  BY <1>3, <1>4, <1>5, <1>6, <1>7, <1>8, GoneUser, UserErase, GoneErase, GoneCrash, Actors
     DEF GithubTypes

LEMMA GoneInit == ASSUME Init  PROVE UserInv /\ InstallationInv
<1> USE DEF Init
<1>1. \A u \in Users : erase[u].pc = "idle" /\ erase[u].at = None
  BY DEF NotErasing
<1>2. UserInv
  BY <1>1 DEF UserInv, UserOk
<1>3. \A r \in Repos : repositories[r] # NoRow
  BY Constant DEF NoRow, Statuses
<1>4. ASSUME NEW i \in Installations  PROVE InstallationOk(i)
  <2>1. PICK U \in (SUBSET Users) \ {{}} : links = U \X Installations
    OBVIOUS
  <2>2. PICK u \in U : TRUE
    OBVIOUS
  <2>3. <<u, i>> \in links /\ <<u, i>>[2] = i
    BY <2>1
  <2>4. \A r \in Of(i) : Known(r)
    BY <1>3 DEF Known, Of
  <2>5. i # None
    BY Constant
  <2>6. QED
    BY <1>1, <2>3, <2>4, <2>5 DEF InstallationOk
<1>5. QED
  BY <1>2, <1>4 DEF InstallationInv

\* When delete-my-data has answered ok nothing of the user is left, and nothing of an
\* installation nobody is linked to, except what came in again or whose deletion failed.
THEOREM NothingLeft == Spec => []ErasedIsGone
<1>1. Init => Shape /\ UserInv /\ InstallationInv
  BY InitShape, GoneInit
<1>2. (Shape /\ UserInv /\ InstallationInv) /\ [Next]_vars
        => (Shape /\ UserInv /\ InstallationInv)'
  BY ShapeStep, GoneStep
<1>3. ASSUME Shape, UserInv, InstallationInv  PROVE ErasedIsGone
  <2>1. ASSUME NEW u \in Users, erase[u].pc = "ok", u \notin touched
        PROVE  u \notin users \cup sessions \cup tokens /\ ~ \E l \in links : l[1] = u
    BY <1>3, <2>1 DEF UserInv, UserOk
  <2>2. ASSUME NEW i \in Installations,
               \A u \in Users : <<u, i>> \notin links /\ erase[u].at # i,
               i \notin touched \cup failed
        PROVE  /\ \A c \in manifests \cup {d \in collections : d[2] = "default"} : c[1] \notin Of(i)
               /\ RowsOf(i) = {} /\ installations[i] = None
    <3>1. InstallationOk(i)
      BY <1>3, <2>2 DEF InstallationInv
    <3>2. ~ \E l \in links : l[2] = i
      BY <1>3, <2>2 DEF Shape, PeopleTypes
    <3>3. installations[i] = None /\ \A r \in Of(i) : repositories[r] = NoRow
      BY <2>2, <3>1, <3>2 DEF InstallationOk
    <3>4. \A r \in Of(i) : Bare(r)
      BY <3>1, <3>3 DEF InstallationOk, Known
    <3>5. ASSUME NEW c \in manifests \cup {d \in collections : d[2] = "default"}, c[1] \in Of(i)
          PROVE  FALSE
      <4>1. c \in CollType
        BY <1>3, <3>5 DEF Shape, IndexTypes
      <4>2. c \in ListedFor(c[1])
        BY <3>5, <4>1 DEF ListedFor, CollType
      <4>3. QED
        BY <3>4, <3>5, <4>2 DEF Bare
    <3>6. RowsOf(i) = {}
      BY <3>3 DEF RowsOf
    <3>7. QED
      BY <3>3, <3>5, <3>6
  <2>3. QED
    BY <2>1, <2>2 DEF ErasedIsGone
<1>4. QED
  BY <1>1, <1>2, <1>3, PTL DEF Spec

=============================================================================
