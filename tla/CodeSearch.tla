------------------------------ MODULE CodeSearch ------------------------------
(***************************************************************************)
(* Code search: the MCP endpoint (mcpHttp.ts, mcp.ts), POST /search        *)
(* (server.ts), the search itself (searchAdapter.ts), its daily quota      *)
(* (quota.ts) and the statements of saasStore.ts they rest on.             *)
(*                                                                         *)
(* A request awaits one statement after the other: the token, the          *)
(* installations of its user, the repository, the usage row, the embedding *)
(* and the points.  Between two of them other requests, the dashboard and  *)
(* the webhook handlers go on and change the same tables (Service has      *)
(* these handlers; here only what their statements do to a row).           *)
(***************************************************************************)
EXTENDS Naturals, FiniteSets

CONSTANTS Users, Tokens, Installations, Repos,
          Names,          \* owner and name of a repository
          Requests,
          Owner,          \* the user a token is made for
          Limit,          \* searchesPerUserPerDay
          MaxDay,         \* the days 1 .. MaxDay
          MaxActs,        \* how often the rows a search reads are changed
          MaxErrors,      \* how many statements or calls throw
          None

ASSUME CodeSearchAssumption ==
  /\ Owner \in [Tokens -> Users] /\ IsFiniteSet(Requests)
  /\ {Limit, MaxDay, MaxActs, MaxErrors} \subseteq Nat
  /\ MaxDay > 0
  /\ None \notin Users \cup Tokens \cup Installations \cup Repos \cup Names

VARIABLES
  tokens,          \* code_indexer_api_tokens: "live", "revoked" or None
  links,           \* code_indexer_installation_users
  installations,   \* the status of an installation's row
  repositories,    \* a repository's row, or NoRow
  usage,           \* code_indexer_usage_daily: usage[u][day]
  indexed,         \* the collections that hold points, <<installation, repository>>
  day,
  request,         \* request[q]: see NoRequest
  acts, errors,    \* how many so far
  held,            \* history: held[q], what was true at some moment since q arrived
  counted,         \* history: the requests whose usage was written, <<request, day>>
  found            \* history: the searches that read points, <<request, collection>>

rows == <<tokens, links, installations, repositories>>
vars == <<rows, usage, indexed, day, request, acts, errors, held, counted, found>>

Days == 1 .. MaxDay
NoRow == [installation |-> None, name |-> None, status |-> None]
Rows == [installation : Installations, name : Names, status : {"ready", "deleted"}]

\* What a client asks for: a repository by id and installation, or by name.
ById(i, r)  == [by |-> "id", installation |-> i, repo |-> r, name |-> None]
ByName(n)   == [by |-> "name", installation |-> None, repo |-> None, name |-> n]
Nothing     == [by |-> None, installation |-> None, repo |-> None, name |-> None]
Asks == {ById(i, r) : i \in Installations, r \in Repos} \cup {ByName(n) : n \in Names}

NoTarget  == <<None, None>>
NoRequest == [pc |-> "idle", via |-> None, user |-> None, ask |-> Nothing,
              left |-> {}, target |-> NoTarget]

\* activeInstallations and isSearchableRepository.
Active(i) == installations[i] \notin {None, "deleted", "suspended"}
Searchable(row) == row # NoRow /\ row.status # "deleted"

\* listInstallationsForUser joins the links with the rows of installations.
Installed(u) == {i \in Installations : <<u, i>> \in links /\ Active(i)}

\* What is true of the rows now, for the requests under way.
Now == [tokens |-> {t \in Tokens : tokens[t] = "live"},
        links  |-> {l \in links : Active(l[2])},
        places |-> {<<r, repositories[r]>> : r \in {s \in Repos : Searchable(repositories[s])}}]
Never == [tokens |-> {}, links |-> {}, places |-> {}]
Joined(a, b) == [k \in DOMAIN a |-> a[k] \cup b[k]]

Init ==
  /\ tokens \in [Tokens -> {None, "live"}]
  /\ links \in SUBSET (Users \X Installations)
  /\ installations = [i \in Installations |-> "active"]
  /\ repositories \in [Repos -> {[installation |-> i, name |-> n, status |-> "ready"] :
                                  i \in Installations, n \in Names}]
  /\ usage = [u \in Users |-> [d \in Days |-> 0]]
  /\ indexed = {<<repositories[r].installation, r>> : r \in Repos}
  /\ day = 1 /\ acts = 0 /\ errors = 0
  /\ request = [q \in Requests |-> NoRequest]
  /\ held = [q \in Requests |-> Never]
  /\ counted = {} /\ found = {}

-----------------------------------------------------------------------------
(* The rows change: the dashboard, the webhooks and the indexer.           *)

\* Every request under way has now seen the rows as they become.
Watch == held' = [q \in Requests |-> IF request[q].pc = "idle" THEN Never
                                     ELSE Joined(held[q], Now')]
Act == /\ acts < MaxActs /\ acts' = acts + 1
       /\ Watch
       /\ UNCHANGED <<usage, indexed, day, request, errors, counted, found>>

\* createApiToken; revokeApiToken; deleteApiTokensForUser.
CreateToken(t) == /\ tokens[t] = None
                  /\ tokens' = [tokens EXCEPT ![t] = "live"]
                  /\ UNCHANGED <<links, installations, repositories>> /\ Act
RevokeToken(t) == /\ tokens[t] = "live"
                  /\ tokens' = [tokens EXCEPT ![t] = "revoked"]
                  /\ UNCHANGED <<links, installations, repositories>> /\ Act
DeleteTokens(u) == /\ \E t \in Tokens : Owner[t] = u /\ tokens[t] # None
                   /\ tokens' = [t \in Tokens |-> IF Owner[t] = u THEN None ELSE tokens[t]]
                   /\ UNCHANGED <<links, installations, repositories>> /\ Act

\* upsertInstallation links the user it is called for; deleteInstallationUser;
\* deleteInstallation.
UpsertInstallation(i, s, who) ==
  /\ installations' = [installations EXCEPT ![i] = s]
  /\ links' = links \cup (who \X {i})
  /\ <<installations', links'>> # <<installations, links>>
  /\ UNCHANGED <<tokens, repositories>> /\ Act
DeleteInstallationUser(u, i) ==
  /\ <<u, i>> \in links /\ links' = links \ {<<u, i>>}
  /\ UNCHANGED <<tokens, installations, repositories>> /\ Act
DeleteInstallation(i) ==
  /\ installations[i] # None
  /\ installations' = [installations EXCEPT ![i] = None]
  /\ links' = links \ (Users \X {i})
  /\ UNCHANGED <<tokens, repositories>> /\ Act

\* upsertRepository: a push or a new installation names the repository anew, under
\* the installation it comes from; deleteRepositoriesForInstallation;
\* markRepositoryStatus with deleted, when the index is gone.
UpsertRepository(r, i, n) ==
  /\ repositories' = [repositories EXCEPT ![r] =
                        [installation |-> i, name |-> n, status |-> "ready"]]
  /\ repositories' # repositories
  /\ UNCHANGED <<tokens, links, installations>> /\ Act
DeleteRepositories(i) ==
  /\ \E r \in Repos : repositories[r].installation = i
  /\ repositories' = [r \in Repos |-> IF repositories[r].installation = i THEN NoRow
                                      ELSE repositories[r]]
  /\ UNCHANGED <<tokens, links, installations>> /\ Act
MarkDeleted(r) ==
  /\ Searchable(repositories[r])
  /\ repositories' = [repositories EXCEPT ![r].status = "deleted"]
  /\ indexed' = indexed \ {<<repositories[r].installation, r>>}
  /\ acts < MaxActs /\ acts' = acts + 1
  /\ UNCHANGED <<tokens, links, installations, usage, day, request, errors, counted, found>>
  /\ Watch

Midnight == /\ day < MaxDay /\ day' = day + 1
            /\ UNCHANGED <<rows, usage, indexed, request, acts, errors, held, counted, found>>

-----------------------------------------------------------------------------
(* A request.                                                              *)

\* The answer is sent: the rest of the request is forgotten.
Answer(q) == /\ request' = [request EXCEPT ![q] = [@ EXCEPT !.pc = "done", !.left = {}]]
             /\ UNCHANGED <<rows, usage, indexed, day, acts, errors, held, counted, found>>

Go(q, next) == /\ request' = [request EXCEPT ![q] = next]
               /\ UNCHANGED <<rows, usage, indexed, day, acts, errors, held, counted, found>>

\* A call of /mcp arrives with a token, one of /search with the search key.
Call(q, t, ask) ==
  /\ request[q].pc = "idle"
  /\ request' = [request EXCEPT ![q] = [NoRequest EXCEPT !.pc = "token", !.via = t, !.ask = ask]]
  /\ held' = [held EXCEPT ![q] = Now]
  /\ UNCHANGED <<rows, usage, indexed, day, acts, errors, counted, found>>
Search(q, ask) ==
  /\ request[q].pc = "idle" /\ ask.by = "id"
  /\ request' = [request EXCEPT ![q] = [NoRequest EXCEPT
       !.pc = "embed", !.ask = ask, !.target = <<ask.installation, ask.repo>>]]
  /\ UNCHANGED <<rows, usage, indexed, day, acts, errors, held, counted, found>>

\* authenticate: findApiTokenByPlaintextToken answers null for a revoked token.
Known(t) == tokens[t] = "live"
Authenticate(q) ==
  /\ request[q].pc = "token"
  /\ IF Known(request[q].via)
     THEN Go(q, [request[q] EXCEPT !.pc = "installations", !.user = Owner[request[q].via]])
     ELSE Answer(q)

\* resolveAccessibleRepository begins with the installations of the user.
ListInstallations(q) ==
  /\ request[q].pc = "installations"
  /\ Go(q, [request[q] EXCEPT !.pc = request[q].ask.by, !.left = Installed(request[q].user)])

Resolved(q, r) == [request[q] EXCEPT !.pc = "count", !.left = {},
                                     !.target = <<repositories[r].installation, r>>]

\* The row of the id asked for, in an installation of the user and in the one asked for.
AnyInstallation(q, r) ==                   \* mutant: the installation asked for is trusted
  Searchable(repositories[r]) /\ repositories[r].installation = request[q].ask.installation
Accessible(q, r) ==
  LET row == repositories[r]
  IN Searchable(row) /\ row.installation \in request[q].left
                     /\ row.installation = request[q].ask.installation
ResolveId(q) ==
  /\ request[q].pc = "id"
  /\ LET r == request[q].ask.repo
     IN IF Accessible(q, r) THEN Go(q, Resolved(q, r)) ELSE Answer(q)

\* One installation after the other; of two rows of the same name the first in
\* the order of the query, which the name does not settle.
ResolveName(q) ==
  /\ request[q].pc = "name"
  /\ \/ request[q].left = {} /\ Answer(q)
     \/ \E i \in request[q].left :
          LET match == {r \in Repos : /\ Searchable(repositories[r])
                                      /\ repositories[r].installation = i
                                      /\ repositories[r].name = request[q].ask.name}
          IN \/ /\ match = {}
                /\ Go(q, [request[q] EXCEPT !.left = @ \ {i}])
             \/ \E r \in match : Go(q, Resolved(q, r))

\* incrementDailyUsage is one transaction, which runs once: the count it read and
\* the one it wrote go together, and a lost answer is an error of the search.
NextCount(count) == count + 1
TooManyLate(count) == count > Limit + 1    \* mutant: off by one
TooMany(count) == count > Limit
Written(q, n) == [usage EXCEPT ![request[q].user][day] = n]

Count(q) ==
  /\ request[q].pc = "count"
  /\ LET n == NextCount(usage[request[q].user][day])
     IN /\ usage' = Written(q, n)
        /\ counted' = counted \cup {<<q, day>>}
        /\ request' = [request EXCEPT ![q].pc = IF TooMany(n) THEN "done" ELSE "embed"]
  /\ UNCHANGED <<rows, indexed, day, acts, errors, held, found>>

\* The statement throws, before it is committed or after.
CountedAgain(q) == request' = request      \* mutant: withSession runs it again
Uncounted(q) == request' = [request EXCEPT ![q].pc = "done"]
CountThrows(q) ==
  /\ request[q].pc = "count" /\ errors < MaxErrors /\ errors' = errors + 1
  /\ Uncounted(q)
  /\ \/ UNCHANGED <<usage, counted>>
     \/ /\ usage' = Written(q, NextCount(usage[request[q].user][day]))
        /\ counted' = counted \cup {<<q, day>>}
  /\ UNCHANGED <<rows, indexed, day, acts, held, found>>

\* embedQuery, then the points; a collection that is missing has none.
Embed(q) == request[q].pc = "embed" /\ Go(q, [request[q] EXCEPT !.pc = "search"])
ReadPoints(q) ==
  /\ request[q].pc = "search"
  /\ request' = [request EXCEPT ![q].pc = "done"]
  /\ found' = IF request[q].target \in indexed THEN found \cup {<<q, request[q].target>>}
              ELSE found
  /\ UNCHANGED <<rows, usage, indexed, day, acts, errors, held, counted>>

\* Any other statement or call throws: an error answer.
Throw(q) ==
  /\ request[q].pc \in {"token", "installations", "id", "name", "embed", "search"}
  /\ errors < MaxErrors /\ errors' = errors + 1
  /\ request' = [request EXCEPT ![q] = [@ EXCEPT !.pc = "done", !.left = {}]]
  /\ UNCHANGED <<rows, usage, indexed, day, acts, held, counted, found>>

-----------------------------------------------------------------------------

Change ==
  \/ \E t \in Tokens : CreateToken(t) \/ RevokeToken(t)
  \/ \E u \in Users : DeleteTokens(u)
  \/ \E i \in Installations, s \in {"active", "suspended", "deleted"},
        who \in {{}} \cup {{u} : u \in Users} : UpsertInstallation(i, s, who)
  \/ \E u \in Users, i \in Installations : DeleteInstallationUser(u, i)
  \/ \E i \in Installations : DeleteInstallation(i) \/ DeleteRepositories(i)
  \/ \E r \in Repos, i \in Installations, n \in Names : UpsertRepository(r, i, n)
  \/ \E r \in Repos : MarkDeleted(r)
  \/ Midnight

Arrive(q) == \/ \E t \in Tokens, ask \in Asks : Call(q, t, ask)
             \/ \E ask \in Asks : Search(q, ask)

Step(q) == \/ Authenticate(q) \/ ListInstallations(q) \/ ResolveId(q) \/ ResolveName(q)
           \/ Count(q) \/ CountThrows(q) \/ Embed(q) \/ ReadPoints(q) \/ Throw(q)

Next == Change \/ \E q \in Requests : Arrive(q) \/ Step(q)
Spec == Init /\ [][Next]_vars

-----------------------------------------------------------------------------
(* Properties.                                                             *)

TypeOK ==
  /\ tokens \in [Tokens -> {"live", "revoked", None}]
  /\ links \subseteq Users \X Installations
  /\ installations \in [Installations -> {"active", "suspended", "deleted", None}]
  /\ repositories \in [Repos -> Rows \cup {NoRow}]
  /\ usage \in [Users -> [Days -> 0 .. Cardinality(Requests)]]
  /\ indexed \subseteq Installations \X Repos
  /\ day \in Days /\ acts \in 0 .. MaxActs /\ errors \in 0 .. MaxErrors
  /\ request \in [Requests -> [pc : {"idle", "token", "installations", "id", "name", "count",
                                     "embed", "search", "done"},
                               via : Tokens \cup {None}, user : Users \cup {None},
                               ask : Asks \cup {Nothing}, left : SUBSET Installations,
                               target : (Installations \X Repos) \cup {NoTarget}]]
  /\ counted \subseteq Requests \X Days
  /\ found \subseteq Requests \X (Installations \X Repos)

\* A search of /mcp reads no collection that was never its user's to read: while it
\* ran there was a moment its token was good, a moment its user was linked to that
\* very installation and the installation was active, and a moment the repository
\* was there, not deleted, under the name asked for (mcpHttp.ts:162).  The three
\* are read one after the other, so nothing says it was one moment.
FoundWasAccessible ==
  \A f \in found :
    LET q == request[f[1]]  i == f[2][1]  r == f[2][2]
    IN q.via # None =>
         /\ q.via \in held[f[1]].tokens
         /\ <<Owner[q.via], i>> \in held[f[1]].links
         /\ \E place \in held[f[1]].places :
              /\ place[1] = r /\ place[2].installation = i
              /\ q.ask.by = "name" => place[2].name = q.ask.name
              /\ q.ask.by = "id" => r = q.ask.repo /\ i = q.ask.installation

\* However the searches of a user overlap, no more than Limit of those counted on
\* a day read any points, and the usage row is the number of searches counted, each
\* on one day, also when the answer of the statement is lost: why it runs under
\* withSessionOnce (quota.ts:123, saasStore.ts:1705).
WithinLimit ==
  \A u \in Users, d \in Days :
    LET mine == {q \in Requests : request[q].user = u /\ <<q, d>> \in counted}
        searched == {q \in mine : \E c \in Installations \X Repos : <<q, c>> \in found}
    IN /\ Cardinality(searched) <= Limit
       /\ usage[u][d] = Cardinality(mine)
       /\ \A q \in mine, e \in Days : <<q, e>> \in counted => e = d
=============================================================================
