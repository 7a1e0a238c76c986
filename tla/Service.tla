------------------------------- MODULE Service -------------------------------
(***************************************************************************)
(* The service around the indexer (src/code-indexer): the webhook handler  *)
(* (webhooks.ts), the tables of users, installations and repositories      *)
(* (saasStore.ts), signing in (server.ts), the dashboard API with          *)
(* delete-my-data (publicApi.ts), and the indexer as far as it writes      *)
(* those tables.  Every call of a store is a step of its own: the handlers *)
(* of one process interleave at each await, and each call may throw.       *)
(*                                                                         *)
(* The queue is what IndexingQueue promises: the jobs of a repository run  *)
(* one at a time and in order, a job that was running in a crash runs      *)
(* again, and deleteRepositoryJobs returns when nothing of the repository  *)
(* waits or runs.  A job that fails here has failed for the last time.     *)
(***************************************************************************)
EXTENDS Naturals, Sequences, FiniteSets, Functions

CONSTANTS Users, Installations, Repos,
          InstallationOf,        \* the installation a repository belongs to
          Deliveries,            \* X-GitHub-Delivery
          Handlers,              \* requests of /github/webhook that run at a time
          EventNames,            \* what GitHub reports
          Requests,              \* what users ask for: "erase", "login", "logout", "reindex", "token"
          MaxActs,               \* how often users ask, and GitHub reports or sends again
          MaxMishaps,            \* how many calls throw or processes die
          None

Events == { "created", "deleted", "suspend", "unsuspend",   \* installation
            "added", "removed",                             \* installation_repositories
            "push", "branch-deleted",                       \* push
            "rerequested",                                  \* check_run
            "opened", "closed" }                            \* pull_request

Statuses == {"queued", "indexing", "ready", "failed", "deleted"}   \* of a repository

\* What has different names here is different.
ASSUME ServiceAssumption ==
  /\ InstallationOf \in [Repos -> Installations]
  /\ EventNames \subseteq Events
  /\ Requests \subseteq {"erase", "login", "logout", "reindex", "token"}
  /\ {MaxActs, MaxMishaps} \subseteq Nat
  /\ Users \cap (Installations \cup Deliveries) = {} /\ Installations \cap Deliveries = {}
  /\ Handlers \cap Repos = {}
  /\ None \notin Users \cup Installations \cup Repos \cup Deliveries \cup Statuses

VARIABLES
  installed,     \* GitHub: the state of the app's installations
  selected,      \* GitHub: the repositories the app may read
  event,         \* event[d]: what delivery d reports, or NoEvent
  sent,          \* the deliveries GitHub has sent at least once
  hook,          \* hook[h]: a running webhook handler, see NoHook
  deliveries,    \* qdrant_code_indexer_deliveries
  users, sessions, tokens,       \* the users with such a row
  links,         \* code_indexer_installation_users
  installations, \* the status of an installation's row, or None
  repositories,  \* a repository's row: its status and whether a sha is recorded
  jobs,          \* jobs[r]: the pending jobs of r
  work,          \* work[r]: the job of r that runs, see Resting
  mark,          \* mark[a]: a markRepositoryStatus call of a handler or of r's job
  collections, manifests,        \* of <<repository, "default" or "pr">>
  login, request, erase,         \* what a user's requests are doing
  acts, mishaps,                 \* how many so far
  log,           \* history: how often a delivery's job for a repository was enqueued
  failed,        \* history: deliveries and erased installations some call failed for
  lost,          \* history: deliveries that stay reserved though nobody handles them
  touched,       \* history: see ErasedIsGone
  astray         \* history: see Settled

github  == <<installed, selected, event, sent>>
people  == <<users, sessions, tokens, links>>
tables  == <<people, installations, repositories>>
queue   == <<jobs, work>>
index   == <<collections, manifests>>
dash    == <<login, request, erase>>
counts  == <<acts, mishaps>>
history == <<log, failed, lost, touched, astray>>
vars == <<github, hook, deliveries, tables, queue, mark, index, dash, counts, history>>

-----------------------------------------------------------------------------
(* Jobs, rows and calls.                                                   *)

JobKinds == {"install", "full", "push", "delete", "pr", "closePr"}
Job(k, r) == [kind |-> k, repo |-> r]
UpdatesStatus(k) == k \in {"install", "full", "push"}     \* updatesDefaultBranchStatus

NoEvent == [name |-> None, installation |-> None, repos |-> {}]
NoHook  == [pc |-> "idle", delivery |-> None, jobs |-> {}, marks |-> {}]
NoMark  == [repo |-> None, status |-> None, insert |-> FALSE]
NoRow   == [status |-> None, sha |-> FALSE]
Resting == [pc |-> "idle", kind |-> None, from |-> None]
NoLogin == [pc |-> "idle", found |-> {}]
NoRequest == [kind |-> "idle", repo |-> None]
NotErasing == [pc |-> "idle", todo |-> {}, at |-> None, repos |-> {}, repo |-> None,
               colls |-> {}, coll |-> None]

Of(i) == {r \in Repos : InstallationOf[r] = i}
RowsOf(i) == {r \in Of(i) : repositories[r] # NoRow}
LinkedTo(u) == {i \in Installations : <<u, i>> \in links /\ installations[i] # None}

\* The jobs of an event, mapWebhookToJobs.
On(e, names, kind) == IF e.name \in names THEN {Job(kind, r) : r \in e.repos} ELSE {}
InstallationJobs(e) == On(e, {"created"}, "install") \cup On(e, {"unsuspend"}, "full")
                       \cup On(e, {"deleted"}, "delete")
SelectionJobs(e) == On(e, {"added"}, "install") \cup On(e, {"removed"}, "delete")
PushJobs(e) == On(e, {"push"}, "push") \cup On(e, {"branch-deleted"}, "delete")
PullRequestJobs(e) == On(e, {"opened"}, "pr") \cup On(e, {"closed"}, "closePr")
CheckRunJobs(e) == On(e, {"rerequested"}, "full")
JobsOf(e) == InstallationJobs(e) \cup SelectionJobs(e) \cup PushJobs(e)
             \cup PullRequestJobs(e) \cup CheckRunJobs(e)

\* upsertRepository writes every column of the row.
Upserted(status) == [status |-> status, sha |-> FALSE]

\* The UPDATE of markRepositoryStatus, nothing when there is no row.
Marked(row, status) ==
  IF row = NoRow THEN NoRow
  ELSE [row EXCEPT !.status = status, !.sha = @ \/ status = "ready"]

\* What markRepositoryStatus begins with: it reads the row, and inserts one
\* when there is none.
MarkCall(r, status) == [repo |-> r, status |-> status, insert |-> repositories[r] = NoRow]

Pending(r, d) == \E n \in DOMAIN jobs[r] : jobs[r][n].from = d

-----------------------------------------------------------------------------
(* GitHub.                                                                 *)

\* GitHub reports something under a delivery id of its own.
Report(name, i, repos) ==
  /\ name \in EventNames /\ acts < MaxActs /\ acts' = acts + 1
  /\ \E d \in Deliveries : event[d] = NoEvent
  /\ event' = [event EXCEPT ![CHOOSE d \in Deliveries : event[d] = NoEvent] =
                             [name |-> name, installation |-> i, repos |-> repos]]
  /\ UNCHANGED <<sent, hook, deliveries, tables, queue, mark, index, dash, mishaps, history>>

\* The app is installed, suspended, taken up again or uninstalled; the payload of
\* the last two may leave the repositories out.
InstallApp(i) ==
  /\ installed[i] = "absent"
  /\ installed' = [installed EXCEPT ![i] = "active"]
  /\ selected' = selected \cup Of(i)
  /\ Report("created", i, Of(i))

SuspendApp(i) ==
  /\ installed[i] = "active"
  /\ installed' = [installed EXCEPT ![i] = "suspended"]
  /\ Report("suspend", i, {})
  /\ UNCHANGED selected

UnsuspendApp(i) ==
  /\ installed[i] = "suspended"
  /\ installed' = [installed EXCEPT ![i] = "active"]
  /\ Report("unsuspend", i, {})
  /\ UNCHANGED selected

UninstallApp(i) ==
  /\ installed[i] # "absent"
  /\ installed' = [installed EXCEPT ![i] = "absent"]
  /\ selected' = selected \ Of(i)
  /\ \E listed \in {{}, selected \cap Of(i)} : Report("deleted", i, listed)

ChooseRepository(r) ==
  /\ installed[InstallationOf[r]] = "active"
  /\ \/ r \notin selected /\ selected' = selected \cup {r} /\ Report("added", InstallationOf[r], {r})
     \/ r \in selected /\ selected' = selected \ {r} /\ Report("removed", InstallationOf[r], {r})
  /\ UNCHANGED installed

\* A push, a deleted default branch, a check that is asked for again, a pull request.
ReportChange(r) ==
  /\ r \in selected /\ installed[InstallationOf[r]] = "active"
  /\ \E name \in {"push", "branch-deleted", "rerequested", "opened", "closed"} :
       Report(name, InstallationOf[r], {r})
  /\ UNCHANGED <<installed, selected>>

-----------------------------------------------------------------------------
(* The webhook handler.                                                    *)

\* GitHub sends a delivery, at first or again; the express app calls the handler.
Deliver(d) ==
  /\ event[d] # NoEvent /\ \E h \in Handlers : hook[h] = NoHook
  /\ IF d \in sent THEN acts < MaxActs /\ acts' = acts + 1 /\ UNCHANGED sent
     ELSE sent' = sent \cup {d} /\ UNCHANGED acts
  /\ hook' = [hook EXCEPT ![CHOOSE h \in Handlers : hook[h] = NoHook] =
                             [NoHook EXCEPT !.pc = "reserve", !.delivery = d]]
  /\ UNCHANGED <<installed, selected, event, deliveries, tables, queue, mark, index, dash,
                 mishaps, history>>

At(h, pc) == hook[h].pc = pc /\ mark[h] = NoMark
EventOf(h) == event[hook[h].delivery]
InstallationEvent(e) == e.name \in {"created", "deleted", "suspend", "unsuspend"}

Reserved(d) == deliveries \cup {d}

\* An id that is known is answered "duplicate".
Reserve(h) ==
  /\ At(h, "reserve")
  /\ LET d == hook[h].delivery
         found == JobsOf(event[d])
     IN IF d \in deliveries
        THEN hook' = [hook EXCEPT ![h] = NoHook] /\ UNCHANGED deliveries
        ELSE /\ deliveries' = Reserved(d)
             /\ hook' = [hook EXCEPT
                  ![h].pc = IF found = {} /\ event[d].name \in {"deleted", "unsuspend"}
                            THEN "stored" ELSE "enqueue",
                  ![h].jobs = found]
  /\ UNCHANGED <<github, tables, queue, mark, index, dash, counts, history>>

\* The repositories an uninstall or unsuspend is about, from the table.
ReadStored(h) ==
  /\ At(h, "stored")
  /\ LET e == EventOf(h)
         gone == e.name = "deleted"
         rows == {r \in RowsOf(e.installation) : gone \/ repositories[r].status # "deleted"}
     IN hook' = [hook EXCEPT ![h].pc = IF gone THEN "enqueue" ELSE "source",
                             ![h].jobs = {Job(IF gone THEN "delete" ELSE "full", r) : r \in rows}]
  /\ UNCHANGED <<github, deliveries, tables, queue, mark, index, dash, counts, history>>

ReadSource(h) ==
  /\ At(h, "source")
  /\ hook' = [hook EXCEPT ![h].pc = "enqueue",
                          ![h].jobs = @ \cup {Job("full", r) :
                                                r \in selected \cap Of(EventOf(h).installation)}]
  /\ UNCHANGED <<github, deliveries, tables, queue, mark, index, dash, counts, history>>

Enqueued(kind, r, from) == [jobs EXCEPT ![r] = Append(@, [kind |-> kind, from |-> from])]

EnqueueNext(h) ==
  /\ At(h, "enqueue")
  /\ \E j \in hook[h].jobs :
       /\ jobs' = Enqueued(j.kind, j.repo, hook[h].delivery)
       /\ hook' = [hook EXCEPT ![h].jobs = @ \ {j}, ![h].marks = @ \cup {j}]
       /\ log' = [log EXCEPT ![hook[h].delivery][j.repo] = @ + 1]
       /\ touched' = touched \cup {InstallationOf[j.repo]}
  /\ UNCHANGED <<github, deliveries, tables, work, mark, index, dash, counts,
                 failed, lost, astray>>

ActionAsStatus(e) == e.name
StatusOf(e) == CASE e.name \in {"created", "unsuspend"} -> "active"
                 [] e.name = "deleted" -> "deleted"
                 [] e.name = "suspend" -> "suspended"

\* recordInstallationLifecycle.
RecordInstallation(h) ==
  /\ At(h, "enqueue") /\ hook[h].jobs = {}
  /\ LET e == EventOf(h)
     IN IF InstallationEvent(e)
        THEN /\ installations' = [installations EXCEPT ![e.installation] = StatusOf(e)]
             /\ touched' = touched \cup {e.installation}
        ELSE UNCHANGED <<installations, touched>>
  /\ hook' = [hook EXCEPT ![h].pc = "record"]
  /\ UNCHANGED <<github, deliveries, people, repositories, queue, mark, index, dash,
                 counts, log, failed, lost, astray>>

\* recordJobQueuedOrDeleted: the row of a job that is enqueued already.
RecordNext(h) ==
  /\ At(h, "record")
  /\ \E j \in hook[h].marks :
       LET r == j.repo
           late == ~ Pending(r, hook[h].delivery)
       IN /\ hook' = [hook EXCEPT ![h].marks = @ \ {j}]
          /\ CASE j.kind \in {"delete", "install"} ->
                    /\ repositories' = [repositories EXCEPT
                         ![r] = Upserted(IF j.kind = "delete" THEN "deleted" ELSE "queued")]
                    /\ astray' = IF late THEN astray \cup {r} ELSE astray
                    /\ touched' = touched \cup {InstallationOf[r]}
                    /\ UNCHANGED mark
               [] j.kind \in {"full", "push"} ->
                    /\ mark' = [mark EXCEPT ![h] = MarkCall(r, "queued")]
                    /\ UNCHANGED <<repositories, astray, touched>>
               [] OTHER -> UNCHANGED <<repositories, mark, astray, touched>>
  /\ UNCHANGED <<github, deliveries, people, installations, queue, index, dash, counts,
                 log, failed, lost>>

Accept(h) ==
  /\ At(h, "record") /\ hook[h].marks = {}
  /\ hook' = [hook EXCEPT ![h] = NoHook]
  /\ UNCHANGED <<github, deliveries, tables, queue, mark, index, dash, counts, history>>

\* The statements of markRepositoryStatus after its read, of a handler or a job.
MarkStep(a) ==
  /\ mark[a] # NoMark
  /\ LET m == mark[a]
         r == m.repo
     IN /\ IF m.insert
           THEN /\ repositories' = [repositories EXCEPT ![r] = Upserted(m.status)]
                /\ mark' = [mark EXCEPT ![a].insert = FALSE]
           ELSE /\ repositories' = [repositories EXCEPT ![r] = Marked(@, m.status)]
                /\ mark' = [mark EXCEPT ![a] = NoMark]
        /\ IF a \in Handlers
           THEN /\ touched' = touched \cup {InstallationOf[r]}
                /\ astray' = IF Pending(r, hook[a].delivery) THEN astray ELSE astray \cup {r}
           ELSE UNCHANGED <<touched, astray>>
  /\ UNCHANGED <<github, hook, deliveries, people, installations, queue, index, dash,
                 counts, log, failed, lost>>

KeepsReservation(d) == deliveries
Released(d) == deliveries \ {d}

\* A call of the handler throws: the reservation is released and the answer is
\* 500; a release that throws as well is ignored.
HookThrows(h) ==
  /\ hook[h].pc \in {"stored", "source", "enqueue", "record"}
  /\ mishaps < MaxMishaps /\ mishaps' = mishaps + 1
  /\ hook' = [hook EXCEPT ![h].pc = "release", ![h].jobs = {}, ![h].marks = {}]
  /\ mark' = [mark EXCEPT ![h] = NoMark]
  /\ UNCHANGED <<github, deliveries, tables, queue, index, dash, acts, history>>

Release(h) ==
  /\ At(h, "release")
  /\ deliveries' = Released(hook[h].delivery)
  /\ failed' = failed \cup {hook[h].delivery}
  /\ hook' = [hook EXCEPT ![h] = NoHook]
  /\ UNCHANGED <<github, tables, queue, mark, index, dash, counts, log, lost, touched,
                 astray>>

ReleaseThrows(h) ==
  /\ At(h, "release")
  /\ lost' = lost \cup {hook[h].delivery}
  /\ hook' = [hook EXCEPT ![h] = NoHook]
  /\ UNCHANGED <<github, deliveries, tables, queue, mark, index, dash, counts,
                 log, failed, touched, astray>>

-----------------------------------------------------------------------------
(* The indexer: RepoIndexer.processJob and reportFinalFailure.             *)

Doing(r, pc) == work[r].pc = pc /\ mark[r] = NoMark
CollOf(r) == <<r, IF work[r].kind \in {"pr", "closePr"} THEN "pr" ELSE "default">>

KeptBusy(r) == work
Freed(r) == [work EXCEPT ![r] = Resting]

Claim(r) ==
  /\ work[r] = Resting /\ jobs[r] # <<>>
  /\ LET j == Head(jobs[r])
     IN /\ work' = [work EXCEPT ![r] =
             [pc |-> IF j.kind \in {"delete", "closePr"} THEN "drop" ELSE "index",
              kind |-> j.kind, from |-> j.from]]
        /\ mark' = IF UpdatesStatus(j.kind)
                   THEN [mark EXCEPT ![r] = MarkCall(r, "indexing")] ELSE mark
  /\ jobs' = [jobs EXCEPT ![r] = Tail(@)]
  /\ UNCHANGED <<github, hook, deliveries, tables, index, dash, counts, history>>

\* The points are written, and then the manifest.
IndexCollection(r) ==
  /\ Doing(r, "index")
  /\ collections' = collections \cup {CollOf(r)}
  /\ work' = [work EXCEPT ![r].pc = "save"]
  /\ UNCHANGED <<github, hook, deliveries, tables, jobs, mark, manifests, dash, counts,
                 history>>

SaveManifest(r) ==
  /\ Doing(r, "save")
  /\ manifests' = manifests \cup {CollOf(r)}
  /\ IF UpdatesStatus(work[r].kind)
     THEN /\ mark' = [mark EXCEPT ![r] = MarkCall(r, "ready")]
          /\ work' = [work EXCEPT ![r].pc = "done"]
     ELSE work' = Freed(r) /\ UNCHANGED mark
  /\ UNCHANGED <<github, hook, deliveries, tables, jobs, collections, dash, counts,
                 history>>

\* The default branch's collection and those with a manifest.
DefaultOnly(r) == {<<r, "default">>}
ListedFor(r) == {<<r, "default">>} \cup {c \in manifests : c[1] = r}

DropCollections(r) ==
  /\ Doing(r, "drop")
  /\ LET gone == IF work[r].kind = "delete" THEN ListedFor(r) ELSE {CollOf(r)}
     IN collections' = collections \ gone /\ manifests' = manifests \ gone
  /\ IF work[r].kind = "delete"
     THEN /\ mark' = [mark EXCEPT ![r] = MarkCall(r, "deleted")]
          /\ work' = [work EXCEPT ![r].pc = "done"]
     ELSE work' = Freed(r) /\ UNCHANGED mark
  /\ UNCHANGED <<github, hook, deliveries, tables, jobs, dash, counts, history>>

Complete(r) ==
  /\ Doing(r, "done")
  /\ work' = Freed(r)
  /\ UNCHANGED <<github, hook, deliveries, tables, jobs, mark, index, dash, counts,
                 history>>

NoFailureMark(r) == [mark EXCEPT ![r] = NoMark]
FailureMark(r) == [mark EXCEPT ![r] = MarkCall(r, "failed")]

\* The job fails for the last time; the failure is recorded for the jobs of the
\* default branch, and recording it may fail too.
WorkThrows(r) ==
  /\ work[r] # Resting
  /\ mishaps < MaxMishaps /\ mishaps' = mishaps + 1
  /\ IF UpdatesStatus(work[r].kind) /\ mark[r].status # "failed"
     THEN /\ mark' = FailureMark(r)
          /\ work' = [work EXCEPT ![r].pc = "done"]
          /\ UNCHANGED astray
     ELSE /\ mark' = [mark EXCEPT ![r] = NoMark]
          /\ work' = Freed(r)
          /\ astray' = IF work[r].kind \in {"pr", "closePr"} THEN astray ELSE astray \cup {r}
  /\ UNCHANGED <<github, hook, deliveries, tables, jobs, index, dash, acts,
                 log, failed, lost, touched>>

-----------------------------------------------------------------------------
(* Signing in, and the requests of the dashboard.                          *)

Asks(u, kind) == kind \in Requests /\ acts < MaxActs /\ acts' = acts + 1

\* /github/oauth/callback: GitHub lists the installations of the user.
StartLogin(u) ==
  /\ Asks(u, "login") /\ login[u] = NoLogin
  /\ login' = [login EXCEPT ![u] =
       [pc |-> "user",
        found |-> {<<i, installed[i]>> : i \in {j \in Installations : installed[j] # "absent"}}]]
  /\ UNCHANGED <<github, hook, deliveries, tables, queue, mark, index, request, erase,
                 mishaps, history>>

SaveUser(u) ==
  /\ login[u].pc = "user"
  /\ users' = users \cup {u}
  /\ login' = [login EXCEPT ![u].pc = "link"]
  /\ touched' = touched \cup {u}
  /\ UNCHANGED <<github, hook, deliveries, sessions, tokens, links, installations,
                 repositories, queue, mark, index, request, erase, counts, log, failed, lost, astray>>

LinkNext(u) ==
  /\ login[u].pc = "link"
  /\ \E f \in login[u].found :
       /\ installations' = [installations EXCEPT ![f[1]] = f[2]]
       /\ links' = links \cup {<<u, f[1]>>}
       /\ login' = [login EXCEPT ![u].found = @ \ {f}]
       /\ touched' = touched \cup {u, f[1]}
  /\ UNCHANGED <<github, hook, deliveries, users, sessions, tokens, repositories, queue,
                 mark, index, request, erase, counts, log, failed, lost, astray>>

SaveSession(u) ==
  /\ login[u].pc = "link" /\ login[u].found = {}
  /\ sessions' = sessions \cup {u}
  /\ login' = [login EXCEPT ![u] = NoLogin]
  /\ touched' = touched \cup {u}
  /\ UNCHANGED <<github, hook, deliveries, users, tokens, links, installations,
                 repositories, queue, mark, index, request, erase, counts, log, failed, lost, astray>>

Logout(u) ==
  /\ Asks(u, "logout") /\ u \in sessions
  /\ sessions' = sessions \ {u}
  /\ UNCHANGED <<github, hook, deliveries, users, tokens, links, installations,
                 repositories, queue, mark, index, dash, mishaps, history>>

\* requireContext: the session and the user have rows.
SessionOf(u) == {v \in sessions : v = u}
UserOf(u) == {v \in users : v = u}
Context(u) == SessionOf(u) # {} /\ UserOf(u) # {}

StartRequest(u) ==
  /\ Context(u) /\ request[u] = NoRequest
  /\ \/ /\ Asks(u, "token")
        /\ request' = [request EXCEPT ![u] = [kind |-> "token", repo |-> None]]
     \/ /\ Asks(u, "reindex")
        /\ \E r \in Repos : request' = [request EXCEPT ![u] = [kind |-> "repository", repo |-> r]]
  /\ UNCHANGED <<github, hook, deliveries, tables, queue, mark, index, login, erase,
                 mishaps, history>>

CreateToken(u) ==
  /\ request[u].kind = "token"
  /\ tokens' = tokens \cup {u}
  /\ request' = [request EXCEPT ![u] = NoRequest]
  /\ touched' = touched \cup {u}
  /\ UNCHANGED <<github, hook, deliveries, users, sessions, links, installations,
                 repositories, queue, mark, index, login, erase, counts, log, failed, lost, astray>>

\* requireRepositoryAccess reads the repository, and then the user's installations.
CheckRepository(u) ==
  /\ request[u].kind = "repository"
  /\ LET row == repositories[request[u].repo]
     IN request' = [request EXCEPT
          ![u] = IF row = NoRow \/ row.status = "deleted" THEN NoRequest
                 ELSE [@ EXCEPT !.kind = "installation"]]
  /\ UNCHANGED <<github, hook, deliveries, tables, queue, mark, index, login, erase,
                 counts, history>>

CheckInstallation(u) ==
  /\ request[u].kind = "installation"
  /\ LET i == InstallationOf[request[u].repo]
     IN request' = [request EXCEPT
          ![u] = IF i \in LinkedTo(u) /\ installations[i] = "active"
                 THEN [@ EXCEPT !.kind = "enqueue"] ELSE NoRequest]
  /\ UNCHANGED <<github, hook, deliveries, tables, queue, mark, index, login, erase,
                 counts, history>>

EnqueueReindex(u) ==
  /\ request[u].kind = "enqueue"
  /\ jobs' = Enqueued("full", request[u].repo, u)
  /\ request' = [request EXCEPT ![u] = NoRequest]
  /\ touched' = touched \cup {InstallationOf[request[u].repo]}
  /\ UNCHANGED <<github, hook, deliveries, tables, work, mark, index, login, erase,
                 counts, log, failed, lost, astray>>

-----------------------------------------------------------------------------
(* /privacy/delete-my-data.                                                *)

StartErase(u) ==
  /\ Asks(u, "erase") /\ Context(u) /\ erase[u].pc \in {"idle", "ok", "error"}
  /\ erase' = [erase EXCEPT ![u] = [NotErasing EXCEPT !.pc = "list"]]
  /\ touched' = touched \ {u}
  /\ UNCHANGED <<github, hook, deliveries, tables, queue, mark, index, login, request,
                 mishaps, log, failed, lost, astray>>

ListInstallations(u) ==
  /\ erase[u].pc = "list"
  /\ erase' = [erase EXCEPT ![u].pc = "next", ![u].todo = LinkedTo(u)]
  /\ UNCHANGED <<github, hook, deliveries, tables, queue, mark, index, login, request,
                 counts, history>>

Unlinked(u, i) == links \ {<<u, i>>}

\* History: a request that begins to erase i now finds everything of it.  Nobody else is
\* erasing it, and a repository without a row, which the request will not list, has no
\* job and no index: the job of a new repository is enqueued before its row is written.
Findable(u, i) ==
  /\ \A v \in Users \ {u} : erase[v].at # i
  /\ \A r \in Of(i) \ RowsOf(i) :
       jobs[r] = <<>> /\ work[r] = Resting /\ ListedFor(r) \cap (collections \cup manifests) = {}

Unlink(u) ==
  /\ erase[u].pc = "next"
  /\ \E i \in erase[u].todo :
       /\ links' = Unlinked(u, i)
       /\ erase' = [erase EXCEPT ![u].pc = "count", ![u].at = i, ![u].todo = @ \ {i}]
       /\ touched' = IF Findable(u, i) THEN touched \ {i} ELSE touched
  /\ UNCHANGED <<github, hook, deliveries, users, sessions, tokens, installations,
                 repositories, queue, mark, index, login, request, counts, log, failed, lost,
                 astray>>

Remaining(u, i) == {v \in Users : <<v, i>> \in links}

\* The installation is kept while somebody else is linked to it.
CountUsers(u) ==
  /\ erase[u].pc = "count"
  /\ erase' = [erase EXCEPT
       ![u] = IF Remaining(u, @.at) # {} THEN [@ EXCEPT !.pc = "next", !.at = None]
              ELSE [@ EXCEPT !.pc = "list repositories"]]
  /\ UNCHANGED <<github, hook, deliveries, tables, queue, mark, index, login, request,
                 counts, history>>

ListRepositories(u) ==
  /\ erase[u].pc = "list repositories"
  /\ erase' = [erase EXCEPT ![u].pc = "repositories", ![u].repos = RowsOf(erase[u].at)]
  /\ UNCHANGED <<github, hook, deliveries, tables, queue, mark, index, login, request,
                 counts, history>>

\* queue.deleteRepositoryJobs.
DeleteJobs(u) ==
  /\ erase[u].pc = "repositories"
  /\ \E r \in erase[u].repos :
       /\ work[r] = Resting
       /\ jobs' = [jobs EXCEPT ![r] = <<>>]
       /\ astray' = astray \cup {r}
       /\ erase' = [erase EXCEPT ![u].pc = "list collections", ![u].repo = r,
                                 ![u].repos = @ \ {r}]
  /\ UNCHANGED <<github, hook, deliveries, tables, work, mark, index, login, request,
                 counts, log, failed, lost, touched>>

ListCollections(u) ==
  /\ erase[u].pc = "list collections"
  /\ erase' = [erase EXCEPT ![u].pc = "collections", ![u].colls = ListedFor(erase[u].repo)]
  /\ UNCHANGED <<github, hook, deliveries, tables, queue, mark, index, login, request,
                 counts, history>>

DeleteCollection(u) ==
  /\ erase[u].pc = "collections"
  /\ \E c \in erase[u].colls :
       /\ collections' = collections \ {c}
       /\ erase' = [erase EXCEPT ![u].pc = "manifest", ![u].coll = c, ![u].colls = @ \ {c}]
  /\ UNCHANGED <<github, hook, deliveries, tables, queue, mark, manifests, login,
                 request, counts, history>>

DeleteManifest(u) ==
  /\ erase[u].pc = "manifest"
  /\ manifests' = manifests \ {erase[u].coll}
  /\ erase' = [erase EXCEPT ![u].pc = "collections", ![u].coll = None]
  /\ UNCHANGED <<github, hook, deliveries, tables, queue, mark, collections, login,
                 request, counts, history>>

NextRepository(u) ==
  /\ erase[u].pc = "collections" /\ erase[u].colls = {}
  /\ erase' = [erase EXCEPT ![u].pc = "repositories", ![u].repo = None]
  /\ UNCHANGED <<github, hook, deliveries, tables, queue, mark, index, login, request,
                 counts, history>>

DeleteRepositories(u) ==
  /\ erase[u].pc = "repositories" /\ erase[u].repos = {}
  /\ repositories' = [r \in Repos |-> IF r \in Of(erase[u].at) THEN NoRow ELSE repositories[r]]
  /\ erase' = [erase EXCEPT ![u].pc = "installation"]
  /\ UNCHANGED <<github, hook, deliveries, people, installations, queue, mark, index,
                 login, request, counts, history>>

\* The row, and the links of whoever signed in meanwhile.
DeleteInstallation(u) ==
  /\ erase[u].pc = "installation"
  /\ installations' = [installations EXCEPT ![erase[u].at] = None]
  /\ links' = {l \in links : l[2] # erase[u].at}
  /\ erase' = [erase EXCEPT ![u].pc = "next", ![u].at = None]
  /\ UNCHANGED <<github, hook, deliveries, users, sessions, tokens, repositories, queue,
                 mark, index, login, request, counts, history>>

DeleteSessions(u) ==
  /\ erase[u].pc = "next" /\ erase[u].todo = {}
  /\ sessions' = sessions \ {u}
  /\ erase' = [erase EXCEPT ![u].pc = "tokens"]
  /\ UNCHANGED <<github, hook, deliveries, users, tokens, links, installations,
                 repositories, queue, mark, index, login, request, counts, history>>

DeleteTokens(u) ==
  /\ erase[u].pc = "tokens"
  /\ tokens' = tokens \ {u}
  /\ erase' = [erase EXCEPT ![u].pc = "user"]
  /\ UNCHANGED <<github, hook, deliveries, users, sessions, links, installations,
                 repositories, queue, mark, index, login, request, counts, history>>

\* The user's row, and links that are still there.
DeleteUser(u) ==
  /\ erase[u].pc = "user"
  /\ users' = users \ {u}
  /\ links' = {l \in links : l[1] # u}
  /\ touched' = touched \cup {i \in Installations : <<u, i>> \in links}
  /\ erase' = [erase EXCEPT ![u] = [NotErasing EXCEPT !.pc = "ok"]]
  /\ UNCHANGED <<github, hook, deliveries, sessions, tokens, installations, repositories,
                 queue, mark, index, login, request, counts, log, failed, lost, astray>>

Erasing(u) == erase[u].pc \notin {"idle", "ok", "error"}
Interrupted(u) == [NotErasing EXCEPT !.pc = "error"]

\* Any call may throw: the answer is 500, and what is done stays done.
EraseThrows(u) ==
  /\ Erasing(u)
  /\ mishaps < MaxMishaps /\ mishaps' = mishaps + 1
  /\ erase' = [erase EXCEPT ![u] = Interrupted(u)]
  /\ failed' = failed \cup ({erase[u].at} \ {None})
  /\ UNCHANGED <<github, hook, deliveries, tables, queue, mark, index, login, request,
                 acts, log, lost, touched, astray>>

LoginThrows(u) ==
  /\ login[u] # NoLogin
  /\ mishaps < MaxMishaps /\ mishaps' = mishaps + 1
  /\ login' = [login EXCEPT ![u] = NoLogin]
  /\ UNCHANGED <<github, hook, deliveries, tables, queue, mark, index, request, erase,
                 acts, history>>

-----------------------------------------------------------------------------
(* The process dies.  The tables and the jobs stay; a job that ran is      *)
(* pending again.                                                          *)

Again(r) == <<[kind |-> work[r].kind, from |-> work[r].from]>> \o jobs[r]

Crash ==
  /\ mishaps < MaxMishaps /\ mishaps' = mishaps + 1
  /\ lost' = lost \cup {hook[h].delivery : h \in {g \in Handlers :
                                  hook[g].pc \notin {"idle", "reserve"}}}
  /\ failed' = failed \cup ({erase[u].at : u \in {v \in Users : Erasing(v)}} \ {None})
  /\ hook' = [h \in Handlers |-> NoHook]
  /\ mark' = [a \in DOMAIN mark |-> NoMark]
  /\ jobs' = [r \in Repos |-> IF work[r] = Resting THEN jobs[r] ELSE Again(r)]
  /\ work' = [r \in Repos |-> Resting]
  /\ login' = [u \in Users |-> NoLogin]
  /\ request' = [u \in Users |-> NoRequest]
  /\ erase' = [u \in Users |-> IF Erasing(u) THEN Interrupted(u) ELSE erase[u]]
  /\ UNCHANGED <<github, deliveries, tables, index, acts, log, touched, astray>>

-----------------------------------------------------------------------------
(* A service in use: the app is installed on every repository, each of     *)
(* them is indexed, and some users have signed in.                         *)

Init ==
  /\ installed = [i \in Installations |-> "active"] /\ selected = Repos
  /\ event = [d \in Deliveries |-> NoEvent] /\ sent = {}
  /\ hook = [h \in Handlers |-> NoHook] /\ deliveries = {}
  /\ \E U \in (SUBSET Users) \ {{}} : users = U /\ sessions = U /\ links = U \X Installations
  /\ tokens = {}
  /\ installations = [i \in Installations |-> "active"]
  /\ repositories = [r \in Repos |-> [status |-> "ready", sha |-> TRUE]]
  /\ jobs = [r \in Repos |-> <<>>] /\ work = [r \in Repos |-> Resting]
  /\ mark = [a \in Handlers \cup Repos |-> NoMark]
  /\ collections = Repos \X {"default"} /\ manifests = collections
  /\ login = [u \in Users |-> NoLogin] /\ request = [u \in Users |-> NoRequest]
  /\ erase = [u \in Users |-> NotErasing]
  /\ acts = 0 /\ mishaps = 0
  /\ log = [d \in Deliveries |-> [r \in Repos |-> 0]]
  /\ failed = {} /\ lost = {} /\ touched = {} /\ astray = {}

Change ==
  \/ \E i \in Installations : InstallApp(i) \/ SuspendApp(i) \/ UnsuspendApp(i) \/ UninstallApp(i)
  \/ \E r \in Repos : ChooseRepository(r) \/ ReportChange(r)
  \/ \E d \in Deliveries : Deliver(d)

Handle(h) ==
  \/ Reserve(h) \/ ReadStored(h) \/ ReadSource(h) \/ EnqueueNext(h) \/ RecordInstallation(h)
  \/ RecordNext(h) \/ Accept(h) \/ Release(h)

Work(r) ==
  Claim(r) \/ IndexCollection(r) \/ SaveManifest(r) \/ DropCollections(r) \/ Complete(r)

SignIn(u) == SaveUser(u) \/ LinkNext(u) \/ SaveSession(u)

Serve(u) == CreateToken(u) \/ CheckRepository(u) \/ CheckInstallation(u) \/ EnqueueReindex(u)

Erase(u) ==
  \/ ListInstallations(u) \/ Unlink(u) \/ CountUsers(u) \/ ListRepositories(u) \/ DeleteJobs(u)
  \/ ListCollections(u) \/ DeleteCollection(u) \/ DeleteManifest(u) \/ NextRepository(u)
  \/ DeleteRepositories(u) \/ DeleteInstallation(u) \/ DeleteSessions(u) \/ DeleteTokens(u)
  \/ DeleteUser(u)

Ask(u) == StartLogin(u) \/ Logout(u) \/ StartRequest(u) \/ StartErase(u)

Throw ==
  \/ \E h \in Handlers : HookThrows(h) \/ ReleaseThrows(h)
  \/ \E r \in Repos : WorkThrows(r)
  \/ \E u \in Users : EraseThrows(u) \/ LoginThrows(u)

Next ==
  \/ Change \/ Throw \/ Crash
  \/ \E h \in Handlers : Handle(h)
  \/ \E r \in Repos : Work(r)
  \/ \E a \in Handlers \cup Repos : MarkStep(a)
  \/ \E u \in Users : Ask(u) \/ SignIn(u) \/ Serve(u) \/ Erase(u)

Spec == Init /\ [][Next]_vars

\* Each request and each job goes on while the process lives; nobody is obliged to
\* ask for anything, and nothing has to fail.
Fairness ==
  /\ \A h \in Handlers : WF_vars(Handle(h))
  /\ \A r \in Repos : WF_vars(Work(r))
  /\ \A a \in Handlers \cup Repos : WF_vars(MarkStep(a))
  /\ \A u \in Users : WF_vars(SignIn(u)) /\ WF_vars(Serve(u)) /\ WF_vars(Erase(u))

FairSpec == Spec /\ Fairness

-----------------------------------------------------------------------------
TypeOK ==
  /\ installed \in [Installations -> {"active", "suspended", "absent"}] /\ selected \subseteq Repos
  /\ \A d \in Deliveries : event[d].repos \subseteq Repos
  /\ \A h \in Handlers :
       /\ hook[h].jobs \cup hook[h].marks \subseteq [kind : JobKinds, repo : Repos]
       /\ hook[h].pc \in {"idle", "reserve", "stored", "source", "enqueue", "record", "release"}
  /\ deliveries \cup lost \cup sent \subseteq Deliveries
  /\ users \cup sessions \cup tokens \subseteq Users
  /\ links \subseteq Users \X Installations
  /\ installations \in [Installations -> {None, "active", "suspended", "deleted"}]
  /\ repositories \in
       [Repos -> [status : {None} \cup Statuses, sha : BOOLEAN]]
  /\ \A r \in Repos : work[r].pc \in {"idle", "index", "save", "drop", "done"}
  /\ collections \cup manifests \subseteq Repos \X {"default", "pr"}
  /\ astray \subseteq Repos /\ touched \subseteq Users \cup Installations

\* delete-my-data answers ok: nothing of the user is left, and nothing of an
\* installation that no user is linked to any more.  The user's own row, session,
\* token and links come back only when she signs in or asks for a token at the
\* same time (touched holds her); an installation's data, when it is linked, a
\* webhook or reindex request writes or enqueues something for it (touched holds
\* it, see Findable; so does a sign-in that linked it again before DeleteUser), or
\* the request that had removed its last link failed.  A collection of a
\* pull request whose job failed before its manifest was saved is not found.
ErasedIsGone ==
  /\ \A u \in Users : erase[u].pc = "ok" /\ u \notin touched =>
       u \notin users \cup sessions \cup tokens /\ ~ \E l \in links : l[1] = u
  /\ \A i \in Installations :
       /\ \A u \in Users : <<u, i>> \notin links /\ erase[u].at # i
       /\ i \notin touched \cup failed
       => /\ \A c \in manifests \cup {d \in collections : d[2] = "default"} : c[1] \notin Of(i)
          /\ RowsOf(i) = {} /\ installations[i] = None

Quiet(r) ==
  /\ \A h \in Handlers : hook[h] = NoHook
  /\ jobs[r] = <<>> /\ work[r] = Resting
  /\ \A a \in DOMAIN mark : mark[a] = NoMark

\* When nothing is going on for a repository, its row says what became of its index:
\* not queued or indexing, ready only with an index, deleted only without one.
\* astray holds the repositories of which this cannot be said: a webhook
\* recorded queued or deleted after the job it had enqueued was taken, their
\* jobs were deleted by delete-my-data, or a failure could not be recorded.
Settled ==
  \A r \in Repos \ astray : Quiet(r) /\ repositories[r] # NoRow =>
    /\ repositories[r].status \in {"ready", "failed", "deleted"}
    /\ repositories[r].status = "ready" => <<r, "default">> \in collections \cap manifests
    /\ repositories[r].status = "deleted" => <<r, "default">> \notin collections \cup manifests

\* A delivery id is reserved only while a handler is at work or after its jobs
\* were enqueued, and they are enqueued again only when the first attempt had
\* failed.  (Of an uninstall that leaves the list out the jobs are not known.)
JobsOfDeliveries ==
  \A d \in Deliveries :
    /\ d \in deliveries \ lost /\ (\A h \in Handlers : hook[h].delivery # d) =>
         \A j \in JobsOf(event[d]) : log[d][j.repo] > 0
    /\ (\E r \in Repos : log[d][r] > 1) => d \in failed

\* Every delete-my-data request is answered, whatever runs for the repositories.
EraseEnds == \A u \in Users : Erasing(u) ~> ~ Erasing(u)

\* docs/github-app-code-indexer.md:173 "Dashboard data deletion removes eligible
\* sessions, MCP tokens, installation links, repository rows, ... and indexed
\* collections owned by the user's linked installations", also when a request
\* failed and the user asked again and was told ok.
RetryErases ==
  \A i \in Installations :
    /\ i \notin touched
    /\ \A u \in Users : <<u, i>> \notin links /\ erase[u].pc = "ok"
    => \A r \in Of(i) : <<r, "default">> \notin collections
=============================================================================
