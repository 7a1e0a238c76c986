------------------------- MODULE CodeSearchProofs -------------------------
(***************************************************************************)
(* Theorems about CodeSearch, for every number of users, tokens,           *)
(* repositories, requests, days and changes.                               *)
(***************************************************************************)
EXTENDS CodeSearch, TLAPS, FiniteSetTheorems

LEMMA Constant ==
  /\ Owner \in [Tokens -> Users] /\ IsFiniteSet(Requests)
  /\ Limit \in Nat /\ MaxDay \in Nat /\ MaxActs \in Nat /\ MaxErrors \in Nat /\ MaxDay > 0
  /\ None \notin Users /\ None \notin Tokens /\ None \notin Installations
  /\ None \notin Repos /\ None \notin Names
  BY CodeSearchAssumption DEF CodeSearchAssumption

-----------------------------------------------------------------------------
(* The shape of the state.                                                 *)

Stages == {"idle", "token", "installations", "id", "name", "count", "embed", "search", "done"}

RequestType == [pc : Stages, via : Tokens \cup {None}, user : Users \cup {None},
                ask : Asks \cup {Nothing}, left : SUBSET Installations,
                target : (Installations \X Repos) \cup {NoTarget}]

RowShape ==
  /\ tokens \in [Tokens -> {"live", "revoked", None}]
  /\ links \subseteq Users \X Installations
  /\ installations \in [Installations -> {"active", "suspended", "deleted", None}]
  /\ repositories \in [Repos -> Rows \cup {NoRow}]
  /\ indexed \subseteq Installations \X Repos
  /\ day \in Days /\ acts \in 0 .. MaxActs

RequestShape ==
  /\ usage \in [Users -> [Days -> Nat]]
  /\ errors \in 0 .. MaxErrors
  /\ request \in [Requests -> RequestType]
  /\ counted \subseteq Requests \X Days
  /\ found \subseteq Requests \X (Installations \X Repos)

\* What a request carries from one await to the next.
Stage(q) ==
  /\ request[q].pc # "idle" => request[q].ask \in Asks
  /\ request[q].pc \in {"token", "installations", "id", "name", "count"}
       => request[q].via \in Tokens
  /\ request[q].pc \in {"installations", "id", "name", "count"}
       => request[q].user = Owner[request[q].via]
  /\ request[q].pc \in {"id", "name"} => request[q].ask.by = request[q].pc
  /\ request[q].pc \in {"embed", "search"} => request[q].target \in Installations \X Repos

Shape == RowShape /\ RequestShape /\ \A q \in Requests : Stage(q)

LEMMA AsksFields ==
  \A ask \in Asks :
    /\ ask.by \in {"id", "name"}
    /\ ask.by = "id" => ask.installation \in Installations /\ ask.repo \in Repos
  BY DEF Asks, ById, ByName

LEMMA SearchableRow ==
  ASSUME RowShape, NEW r \in Repos, Searchable(repositories[r])
  PROVE  repositories[r] \in Rows /\ repositories[r].installation \in Installations
  BY DEF RowShape, Searchable, Rows, NoRow

LEMMA ShapeInit == Init => Shape
<1> SUFFICES ASSUME Init PROVE Shape
  OBVIOUS
<1>1. RowShape
  <2>1. repositories \in [Repos -> Rows \cup {NoRow}]
    BY DEF Init, Rows
  <2>2. indexed \subseteq Installations \X Repos
    BY DEF Init
  <2>3. day \in Days /\ acts \in 0 .. MaxActs
    BY Constant DEF Init, Days
  <2>4. QED
    BY <2>1, <2>2, <2>3 DEF Init, RowShape
<1>2. NoRequest \in RequestType
  BY DEF NoRequest, RequestType, Stages
<1>3. RequestShape
  BY <1>2, Constant DEF Init, RequestShape
<1>4. \A q \in Requests : Stage(q)
  BY DEF Init, Stage, NoRequest
<1>5. QED
  BY <1>1, <1>3, <1>4 DEF Shape

\* The rows keep their shape, whoever changes them.
LEMMA RowsKept == ASSUME RowShape, Change PROVE RowShape'
<1>1. ASSUME NEW t \in Tokens, CreateToken(t) \/ RevokeToken(t)  PROVE RowShape'
  BY <1>1, Constant DEF CreateToken, RevokeToken, Act, RowShape
<1>2. ASSUME NEW u \in Users, DeleteTokens(u)  PROVE RowShape'
  BY <1>2, Constant DEF DeleteTokens, Act, RowShape
<1>3. ASSUME NEW i \in Installations, NEW s \in {"active", "suspended", "deleted"},
             NEW who \in {{}} \cup {{u} : u \in Users}, UpsertInstallation(i, s, who)
      PROVE  RowShape'
  <2>1. who \subseteq Users
    OBVIOUS
  <2>2. QED
    BY <1>3, <2>1, Constant DEF UpsertInstallation, Act, RowShape
<1>4. ASSUME NEW u \in Users, NEW i \in Installations, DeleteInstallationUser(u, i)
      PROVE  RowShape'
  BY <1>4, Constant DEF DeleteInstallationUser, Act, RowShape
<1>5. ASSUME NEW i \in Installations, DeleteInstallation(i)  PROVE RowShape'
  BY <1>5, Constant DEF DeleteInstallation, Act, RowShape
<1>6. ASSUME NEW i \in Installations, DeleteRepositories(i)  PROVE RowShape'
  BY <1>6, Constant DEF DeleteRepositories, Act, RowShape
<1>7. ASSUME NEW r \in Repos, NEW i \in Installations, NEW n \in Names,
             UpsertRepository(r, i, n)
      PROVE  RowShape'
  <2>1. [installation |-> i, name |-> n, status |-> "ready"] \in Rows
    BY DEF Rows
  <2>2. QED
    BY <1>7, <2>1, Constant DEF UpsertRepository, Act, RowShape
<1>8. ASSUME NEW r \in Repos, MarkDeleted(r)  PROVE RowShape'
  <2>1. repositories[r] \in Rows
    BY <1>8, SearchableRow DEF MarkDeleted
  <2>2. [repositories[r] EXCEPT !.status = "deleted"] \in Rows
    BY <2>1 DEF Rows
  <2>3. repositories' \in [Repos -> Rows \cup {NoRow}]
    BY <1>8, <2>2 DEF MarkDeleted, RowShape
  <2>4. QED
    BY <1>8, <2>3, Constant DEF MarkDeleted, RowShape
<1>9. CASE Midnight
  BY <1>9, Constant DEF Midnight, rows, RowShape, Days
<1>10. QED
  BY <1>1, <1>2, <1>3, <1>4, <1>5, <1>6, <1>7, <1>8, <1>9 DEF Change

LEMMA ChangeView ==
  ASSUME Change
  PROVE  /\ UNCHANGED <<usage, request, errors, counted, found>>
         /\ Watch \/ UNCHANGED <<rows, held>>
  BY DEF Change, CreateToken, RevokeToken, DeleteTokens, UpsertInstallation,
         DeleteInstallationUser, DeleteInstallation, DeleteRepositories, UpsertRepository,
         MarkDeleted, Midnight, Act

-----------------------------------------------------------------------------
(* What a request has seen.  held grows with the rows, and whatever a      *)
(* request concluded from them is still in it.                             *)

HeldType == [tokens : SUBSET Tokens, links : SUBSET (Users \X Installations),
             places : SUBSET (Repos \X Rows)]

CoversNow(q) ==
  /\ \A t \in Tokens : tokens[t] = "live" => t \in held[q].tokens
  /\ \A l \in links : Active(l[2]) => l \in held[q].links
  /\ \A r \in Repos : Searchable(repositories[r]) => <<r, repositories[r]>> \in held[q].places

\* The collection c was the user's to read, see FoundWasAccessible.
MayRead(q, c) ==
  /\ request[q].via \in held[q].tokens
  /\ <<Owner[request[q].via], c[1]>> \in held[q].links
  /\ \E place \in held[q].places :
       /\ place[1] = c[2] /\ place[2].installation = c[1]
       /\ request[q].ask.by = "name" => place[2].name = request[q].ask.name
       /\ request[q].ask.by = "id" => c[2] = request[q].ask.repo
                                      /\ c[1] = request[q].ask.installation

Seen(q) ==
  /\ \A c \in Installations \X Repos : <<q, c>> \in found => request[q].pc = "done"
  /\ request[q].pc # "idle" /\ request[q].via # None =>
       /\ CoversNow(q)
       /\ request[q].pc \in {"installations", "id", "name", "count"}
            => request[q].via \in held[q].tokens
       /\ request[q].pc \in {"id", "name"} =>
            \A i \in request[q].left : <<Owner[request[q].via], i>> \in held[q].links
       /\ request[q].pc \in {"count", "embed", "search"} => MayRead(q, request[q].target)
       /\ \A c \in Installations \X Repos : <<q, c>> \in found => MayRead(q, c)

SeenInv == held \in [Requests -> HeldType] /\ \A q \in Requests : Seen(q)

LEMMA NowTypePrime == RowShape' => (Now)' \in HeldType
<1> SUFFICES ASSUME RowShape' PROVE (Now)' \in HeldType
  OBVIOUS
<1>1. \A r \in Repos : Searchable(repositories[r])' => <<r, repositories'[r]>> \in Repos \X Rows
  BY DEF RowShape, Searchable, Rows, NoRow
<1>2. QED
  BY <1>1 DEF Now, HeldType, RowShape, Searchable, Active

LEMMA NowType == RowShape => Now \in HeldType
<1> SUFFICES ASSUME RowShape PROVE Now \in HeldType
  OBVIOUS
<1>1. \A r \in Repos : Searchable(repositories[r]) => <<r, repositories[r]>> \in Repos \X Rows
  BY SearchableRow
<1>2. QED
  BY <1>1 DEF Now, HeldType, RowShape

\* The rows change: what was held is held, and the rows as they become as well.
LEMMA WatchHolds ==
  ASSUME RowShape', SeenInv, Watch, UNCHANGED <<request, found>>
  PROVE  SeenInv'
<1>1. (Now)' \in HeldType
  BY NowTypePrime
<1>2. Never \in HeldType
  BY DEF Never, HeldType
<1>3. \A h \in HeldType : Joined(h, (Now)') \in HeldType
  BY <1>1 DEF Joined, HeldType
<1>4. held' \in [Requests -> HeldType]
  BY <1>2, <1>3 DEF Watch, SeenInv
<1>5. ASSUME NEW q \in Requests  PROVE Seen(q)'
  <2>1. CASE request[q].pc = "idle"
    BY <2>1 DEF SeenInv, Seen
  <2>2. CASE request[q].pc # "idle"
    <3>1. held'[q] = Joined(held[q], (Now)') /\ held[q] \in HeldType
      BY <2>2 DEF Watch, SeenInv
    <3>2. /\ held'[q].tokens = held[q].tokens \cup (Now').tokens
          /\ held'[q].links = held[q].links \cup (Now').links
          /\ held'[q].places = held[q].places \cup (Now').places
      BY <3>1 DEF Joined, HeldType
    <3>3. CoversNow(q)'
      BY <3>2 DEF CoversNow, Now
    <3>4. \A c : MayRead(q, c) => MayRead(q, c)'
      BY <3>2 DEF MayRead
    <3>5. QED
      BY <3>2, <3>3, <3>4 DEF SeenInv, Seen
  <2>3. QED
    BY <2>1, <2>2
<1>6. QED
  BY <1>4, <1>5 DEF SeenInv

-----------------------------------------------------------------------------
(* A step of a request touches nothing but this request.                   *)

Frame(q) ==
  /\ request' \in [Requests -> RequestType]
  /\ \A p \in Requests \ {q} : request'[p] = request[p] /\ held'[p] = held[p]
  /\ held' \in [Requests -> HeldType]
  /\ UNCHANGED <<rows, indexed, day, acts>>
  /\ \A p \in Requests \ {q}, c \in Installations \X Repos : <<p, c>> \in found' <=> <<p, c>> \in found

\* What others have seen stays seen.
LEMMA OthersKeep ==
  ASSUME Shape, SeenInv, NEW q \in Requests, Frame(q), Stage(q)', Seen(q)'
  PROVE  /\ \A p \in Requests : Stage(p)'
         /\ SeenInv'
<1>1. \A p \in Requests \ {q} : Stage(p)'
  BY DEF Frame, Shape, Stage
<1>2. ASSUME NEW p \in Requests \ {q}  PROVE Seen(p)'
  <2>1. request'[p] = request[p] /\ held'[p] = held[p]
    BY DEF Frame
  <2>2. CoversNow(p)' <=> CoversNow(p)
    BY <2>1 DEF CoversNow, Frame, rows, Active
  <2>3. \A c : MayRead(p, c)' <=> MayRead(p, c)
    BY <2>1 DEF MayRead
  <2>4. QED
    BY <2>1, <2>2, <2>3 DEF SeenInv, Seen, Frame
<1>3. QED
  BY <1>1, <1>2 DEF SeenInv, Frame

LEMMA Replaced ==
  ASSUME Shape, SeenInv, NEW q \in Requests, NEW r \in RequestType,
         request' = [request EXCEPT ![q] = r], UNCHANGED <<rows, indexed, day, acts, held, found>>
  PROVE  Frame(q) /\ request'[q] = r
  BY DEF Frame, Shape, RequestShape, SeenInv

LEMMA ArriveSeen ==
  ASSUME Shape, SeenInv, NEW q \in Requests, Arrive(q)
  PROVE  /\ Frame(q) /\ Stage(q)' /\ Seen(q)'
         /\ UNCHANGED <<usage, errors, counted, found>>
         /\ request[q].pc = "idle" /\ request'[q].pc \in {"token", "embed"}
         /\ request'[q].pc = "embed" => request'[q].user = None
<1>1. ASSUME NEW t \in Tokens, NEW ask \in Asks, Call(q, t, ask)
      PROVE  /\ Frame(q) /\ Stage(q)' /\ Seen(q)'
             /\ request[q].pc = "idle" /\ request'[q].pc \in {"token", "embed"}
             /\ request'[q].pc = "embed" => request'[q].user = None
  <2> DEFINE r == [NoRequest EXCEPT !.pc = "token", !.via = t, !.ask = ask]
  <2>1. r \in RequestType /\ r.pc = "token" /\ r.via = t /\ r.ask = ask /\ r.left = {}
    BY DEF NoRequest, RequestType, Stages
  <2>2. /\ request[q].pc = "idle"
        /\ request' = [request EXCEPT ![q] = r] /\ held' = [held EXCEPT ![q] = Now]
        /\ UNCHANGED <<rows, indexed, day, acts, found>>
    BY <1>1 DEF Call
  <2> HIDE DEF r
  <2>3. Frame(q) /\ request'[q] = r
    BY <2>1, <2>2, NowType DEF Frame, Shape, RequestShape, SeenInv
  <2>4. held'[q] = Now
    BY <2>2 DEF SeenInv
  <2>5. Stage(q)'
    BY <2>1, <2>3 DEF Stage
  <2>6. CoversNow(q)'
    BY <2>2, <2>4 DEF CoversNow, Now, rows, Active, Searchable
  <2>7. \A c \in Installations \X Repos : <<q, c>> \notin found'
    BY <2>2 DEF SeenInv, Seen
  <2>8. Seen(q)'
    BY <2>1, <2>3, <2>6, <2>7 DEF Seen
  <2>9. QED
    BY <2>1, <2>2, <2>3, <2>5, <2>8
<1>2. ASSUME NEW ask \in Asks, Search(q, ask)
      PROVE  /\ Frame(q) /\ Stage(q)' /\ Seen(q)'
             /\ request[q].pc = "idle" /\ request'[q].pc \in {"token", "embed"}
             /\ request'[q].pc = "embed" => request'[q].user = None
  <2> DEFINE r == [NoRequest EXCEPT !.pc = "embed", !.ask = ask,
                                    !.target = <<ask.installation, ask.repo>>]
  <2>1. /\ r \in RequestType /\ r.pc = "embed" /\ r.via = None /\ r.ask = ask /\ r.user = None
        /\ r.target \in Installations \X Repos
    BY <1>2, AsksFields DEF Search, NoRequest, RequestType, Stages
  <2>2. /\ request[q].pc = "idle"
        /\ request' = [request EXCEPT ![q] = r]
        /\ UNCHANGED <<rows, indexed, day, acts, held, found>>
    BY <1>2 DEF Search
  <2> HIDE DEF r
  <2>3. Frame(q) /\ request'[q] = r
    BY <2>1, <2>2, Replaced
  <2>4. Stage(q)'
    BY <2>1, <2>3 DEF Stage
  <2>5. \A c \in Installations \X Repos : <<q, c>> \notin found'
    BY <2>2 DEF SeenInv, Seen
  <2>6. Seen(q)'
    BY <2>1, <2>3, <2>5 DEF Seen
  <2>7. QED
    BY <2>1, <2>2, <2>3, <2>4, <2>6
<1>3. UNCHANGED <<usage, errors, counted, found>>
  BY DEF Arrive, Call, Search
<1>4. QED
  BY <1>1, <1>2, <1>3 DEF Arrive

\* A step that leaves the rows alone, keeps who asks for what and only moves request q on.
Moves(q, r) ==
  /\ request[q].pc # "idle" /\ request[q].pc # "done"
  /\ request' = [request EXCEPT ![q] = r]
  /\ UNCHANGED <<rows, indexed, day, acts, held>>

LEMMA MovesKeep ==
  ASSUME Shape, SeenInv, NEW q \in Requests, NEW r \in RequestType, Moves(q, r),
         r.via = request[q].via, r.ask = request[q].ask,
         \A p \in Requests \ {q}, c \in Installations \X Repos :
           <<p, c>> \in found' <=> <<p, c>> \in found
  PROVE  /\ Frame(q) /\ request'[q] = r /\ held'[q] = held[q]
         /\ CoversNow(q)' <=> CoversNow(q)
         /\ \A c : MayRead(q, c)' <=> MayRead(q, c)
<1>1. Frame(q) /\ request'[q] = r /\ held'[q] = held[q]
  BY DEF Moves, Frame, Shape, RequestShape, SeenInv
<1>2. CoversNow(q)' <=> CoversNow(q)
  BY <1>1 DEF CoversNow, Frame, rows, Active, Searchable
<1>3. \A c : MayRead(q, c)' <=> MayRead(q, c)
  BY <1>1 DEF MayRead
<1>4. QED
  BY <1>1, <1>2, <1>3

\* A request that ends has read what it has read before.
LEMMA Ends ==
  ASSUME Shape, SeenInv, NEW q \in Requests, NEW r \in RequestType, Moves(q, r),
         r.via = request[q].via, r.ask = request[q].ask, r.pc = "done", found' = found
  PROVE  Frame(q) /\ Stage(q)' /\ Seen(q)'
<1>1. /\ Frame(q) /\ request'[q] = r
      /\ CoversNow(q)' <=> CoversNow(q)
      /\ \A c : MayRead(q, c)' <=> MayRead(q, c)
  BY MovesKeep
<1>2. request[q].pc # "idle" /\ request[q].pc # "done"
  BY DEF Moves
<1>3. Stage(q)'
  BY <1>1, <1>2 DEF Stage, Shape
<1>4. Seen(q)'
  BY <1>1, <1>2 DEF Seen, SeenInv
<1>5. QED
  BY <1>1, <1>3, <1>4

LEMMA AnswerSeen ==
  ASSUME Shape, SeenInv, NEW q \in Requests, request[q].pc # "idle", request[q].pc # "done",
         request' = [request EXCEPT ![q] = [@ EXCEPT !.pc = "done", !.left = {}]],
         UNCHANGED <<rows, indexed, day, acts, held, found>>
  PROVE  /\ Frame(q) /\ Stage(q)' /\ Seen(q)'
         /\ request'[q].user = request[q].user /\ request'[q].pc = "done"
<1> DEFINE r == [request[q] EXCEPT !.pc = "done", !.left = {}]
<1>1. /\ r \in RequestType /\ r.pc = "done" /\ r.via = request[q].via /\ r.ask = request[q].ask
      /\ r.user = request[q].user
  BY DEF Shape, RequestShape, RequestType, Stages
<1>2. request' = [request EXCEPT ![q] = r]
  OBVIOUS
<1> HIDE DEF r
<1>3. Moves(q, r)
  BY <1>2 DEF Moves
<1>4. Frame(q) /\ Stage(q)' /\ Seen(q)'
  BY <1>1, <1>3, Ends
<1>5. request'[q] = r
  BY <1>2 DEF Shape, RequestShape
<1>6. QED
  BY <1>1, <1>4, <1>5

\* authenticate: the token was live at this moment.
LEMMA AuthenticateSeen ==
  ASSUME Shape, SeenInv, NEW q \in Requests, Authenticate(q)
  PROVE  Frame(q) /\ Stage(q)' /\ Seen(q)' /\ request'[q].pc \in {"installations", "done"}
<1>0. request[q].pc = "token" /\ request[q] \in RequestType /\ request[q].via \in Tokens
  BY DEF Authenticate, Shape, RequestShape, Stage
<1>1. CASE Known(request[q].via)
  <2> DEFINE r == [request[q] EXCEPT !.pc = "installations", !.user = Owner[request[q].via]]
  <2>1. /\ r \in RequestType /\ r.pc = "installations" /\ r.user = Owner[request[q].via]
        /\ r.via = request[q].via /\ r.ask = request[q].ask
    BY <1>0, Constant DEF RequestType, Stages
  <2>2. Moves(q, r) /\ found' = found
    BY <1>0, <1>1 DEF Authenticate, Go, Moves
  <2> HIDE DEF r
  <2>3. /\ Frame(q) /\ request'[q] = r /\ held'[q] = held[q]
        /\ CoversNow(q)' <=> CoversNow(q)
        /\ \A c : MayRead(q, c)' <=> MayRead(q, c)
    BY <2>1, <2>2, MovesKeep
  <2>4. Stage(q)'
    BY <1>0, <2>1, <2>3 DEF Stage, Shape
  <2>5. CoversNow(q)
    BY <1>0, Constant DEF SeenInv, Seen
  <2>6. request[q].via \in held[q].tokens
    BY <1>0, <1>1, <2>5 DEF CoversNow, Known
  <2>7. \A c \in Installations \X Repos : <<q, c>> \notin found'
    BY <1>0, <2>2 DEF SeenInv, Seen
  <2>8. Seen(q)'
    BY <2>1, <2>3, <2>5, <2>6, <2>7 DEF Seen
  <2>9. QED
    BY <2>1, <2>3, <2>4, <2>8
<1>2. CASE ~Known(request[q].via)
  BY <1>0, <1>2, AnswerSeen DEF Authenticate, Answer
<1>3. QED
  BY <1>1, <1>2

\* listInstallationsForUser: every installation listed was linked at this moment.
LEMMA ListSeen ==
  ASSUME Shape, SeenInv, NEW q \in Requests, ListInstallations(q)
  PROVE  /\ Frame(q) /\ Stage(q)' /\ Seen(q)' /\ request'[q].pc \in {"id", "name"}
         /\ request'[q].user = request[q].user
<1> DEFINE r == [request[q] EXCEPT !.pc = request[q].ask.by, !.left = Installed(request[q].user)]
<1>0. /\ request[q].pc = "installations" /\ request[q] \in RequestType
      /\ request[q].via \in Tokens /\ request[q].user = Owner[request[q].via]
      /\ request[q].ask \in Asks
  BY DEF ListInstallations, Shape, RequestShape, Stage
<1>1. /\ r \in RequestType /\ r.pc = request[q].ask.by /\ r.left = Installed(request[q].user)
      /\ r.via = request[q].via /\ r.ask = request[q].ask /\ r.user = request[q].user
      /\ r.pc \in {"id", "name"}
  BY <1>0, AsksFields DEF RequestType, Stages, Installed
<1>2. Moves(q, r) /\ found' = found
  BY <1>0 DEF ListInstallations, Go, Moves
<1> HIDE DEF r
<1>3. /\ Frame(q) /\ request'[q] = r /\ held'[q] = held[q]
      /\ CoversNow(q)' <=> CoversNow(q)
      /\ \A c : MayRead(q, c)' <=> MayRead(q, c)
  BY <1>1, <1>2, MovesKeep
<1>4. Stage(q)'
  BY <1>0, <1>1, <1>3 DEF Stage, Shape
<1>5. CoversNow(q) /\ request[q].via \in held[q].tokens
  BY <1>0, Constant DEF SeenInv, Seen
<1>6. \A i \in r.left : <<Owner[request[q].via], i>> \in held[q].links
  BY <1>0, <1>1, <1>5 DEF Installed, CoversNow
<1>7. \A c \in Installations \X Repos : <<q, c>> \notin found'
  BY <1>0, <1>2 DEF SeenInv, Seen
<1>8. Seen(q)'
  BY <1>1, <1>3, <1>5, <1>6, <1>7 DEF Seen
<1>9. QED
  BY <1>1, <1>3, <1>4, <1>8

\* The repository is resolved: its row was seen at this moment, its installation before.
LEMMA ResolvedSeen ==
  ASSUME Shape, SeenInv, NEW q \in Requests, NEW row \in Repos,
         request[q].pc \in {"id", "name"}, Go(q, Resolved(q, row)),
         Searchable(repositories[row]), repositories[row].installation \in request[q].left,
         request[q].pc = "id" => /\ row = request[q].ask.repo
                                 /\ repositories[row].installation = request[q].ask.installation,
         request[q].pc = "name" => repositories[row].name = request[q].ask.name
  PROVE  /\ Frame(q) /\ Stage(q)' /\ Seen(q)' /\ request'[q].pc = "count"
         /\ request'[q].user = request[q].user
<1> DEFINE r == Resolved(q, row)
           c == <<repositories[row].installation, row>>
<1>0. /\ request[q] \in RequestType
      /\ request[q].via \in Tokens /\ request[q].user = Owner[request[q].via]
      /\ request[q].ask \in Asks /\ request[q].ask.by = request[q].pc
  BY DEF Shape, RequestShape, Stage
<1>1. repositories[row].installation \in Installations
  BY SearchableRow DEF Shape
<1>2. /\ r \in RequestType /\ r.pc = "count" /\ r.target = c
      /\ r.via = request[q].via /\ r.ask = request[q].ask /\ r.user = request[q].user
  BY <1>0, <1>1 DEF RequestType, Stages, Resolved
<1>3. Moves(q, r) /\ found' = found
  BY <1>0 DEF Go, Moves
<1> HIDE DEF r
<1>4. /\ Frame(q) /\ request'[q] = r /\ held'[q] = held[q]
      /\ CoversNow(q)' <=> CoversNow(q)
      /\ \A d : MayRead(q, d)' <=> MayRead(q, d)
  BY <1>2, <1>3, MovesKeep
<1>5. Stage(q)'
  BY <1>0, <1>2, <1>4 DEF Stage, Shape
<1>6. CoversNow(q) /\ request[q].via \in held[q].tokens
      /\ \A i \in request[q].left : <<Owner[request[q].via], i>> \in held[q].links
  BY <1>0, Constant DEF SeenInv, Seen
<1>7. <<row, repositories[row]>> \in held[q].places
  BY <1>6 DEF CoversNow
<1>8. MayRead(q, c)
  <2> DEFINE place == <<row, repositories[row]>>
  <2>1. /\ place \in held[q].places
        /\ place[1] = c[2] /\ place[2].installation = c[1]
        /\ request[q].ask.by = "name" => place[2].name = request[q].ask.name
        /\ request[q].ask.by = "id" => c[2] = request[q].ask.repo
                                       /\ c[1] = request[q].ask.installation
    BY <1>0, <1>7
  <2>2. <<Owner[request[q].via], c[1]>> \in held[q].links
    BY <1>6
  <2> HIDE DEF place, c
  <2>3. QED
    BY <1>6, <2>1, <2>2 DEF MayRead
<1>9. \A d \in Installations \X Repos : <<q, d>> \notin found'
  BY <1>0, <1>3 DEF SeenInv, Seen
<1>10. Seen(q)'
  BY <1>2, <1>4, <1>6, <1>8, <1>9 DEF Seen
<1>11. QED
  BY <1>2, <1>4, <1>5, <1>10

LEMMA ResolveSeen ==
  ASSUME Shape, SeenInv, NEW q \in Requests, ResolveId(q) \/ ResolveName(q)
  PROVE  /\ Frame(q) /\ Stage(q)' /\ Seen(q)' /\ request'[q].pc \in {"name", "count", "done"}
         /\ request'[q].user = request[q].user
<1>0. /\ request[q].pc \in {"id", "name"} /\ request[q] \in RequestType
      /\ request[q].via \in Tokens /\ request[q].ask \in Asks
      /\ request[q].ask.by = request[q].pc
  BY DEF ResolveId, ResolveName, Shape, RequestShape, Stage
<1>1. CASE ResolveId(q)
  <2>1. request[q].ask.repo \in Repos /\ request[q].pc = "id"
    BY <1>0, <1>1, AsksFields DEF ResolveId
  <2>2. CASE Accessible(q, request[q].ask.repo)
    <3>1. Go(q, Resolved(q, request[q].ask.repo))
      BY <1>1, <2>2 DEF ResolveId
    <3>2. QED
      BY <2>1, <2>2, <3>1, ResolvedSeen DEF Accessible
  <2>3. CASE ~Accessible(q, request[q].ask.repo)
    <3>1. Answer(q)
      BY <1>1, <2>3 DEF ResolveId
    <3>2. QED
      BY <1>0, <3>1, AnswerSeen DEF Answer
  <2>4. QED
    BY <2>2, <2>3
<1>2. CASE ResolveName(q)
  <2>1. CASE Answer(q)
    BY <1>0, <2>1, AnswerSeen DEF Answer
  <2>2. ASSUME NEW i \in request[q].left, Go(q, [request[q] EXCEPT !.left = @ \ {i}])
        PROVE  /\ Frame(q) /\ Stage(q)' /\ Seen(q)' /\ request'[q].pc = "name"
               /\ request'[q].user = request[q].user
    <3> DEFINE r == [request[q] EXCEPT !.left = @ \ {i}]
    <3>0. request[q].pc = "name"
      BY <1>2 DEF ResolveName
    <3>1. /\ r \in RequestType /\ r.pc = "name" /\ r.left \subseteq request[q].left
          /\ r.via = request[q].via /\ r.ask = request[q].ask /\ r.user = request[q].user
      BY <1>0, <3>0 DEF RequestType
    <3>2. Moves(q, r) /\ found' = found
      BY <1>0, <2>2 DEF Go, Moves
    <3> HIDE DEF r
    <3>3. /\ Frame(q) /\ request'[q] = r /\ held'[q] = held[q]
          /\ CoversNow(q)' <=> CoversNow(q)
          /\ \A d : MayRead(q, d)' <=> MayRead(q, d)
      BY <3>1, <3>2, MovesKeep
    <3>4. Stage(q)'
      BY <3>0, <3>1, <3>3 DEF Stage, Shape
    <3>5. Seen(q)'
      BY <1>0, <3>0, <3>1, <3>2, <3>3, Constant DEF Seen, SeenInv
    <3>6. QED
      BY <3>1, <3>3, <3>4, <3>5
  <2>3. ASSUME NEW r \in Repos, Searchable(repositories[r]),
               repositories[r].installation \in request[q].left,
               repositories[r].name = request[q].ask.name, Go(q, Resolved(q, r))
        PROVE  /\ Frame(q) /\ Stage(q)' /\ Seen(q)' /\ request'[q].pc = "count"
               /\ request'[q].user = request[q].user
    BY <1>0, <1>2, <2>3, ResolvedSeen DEF ResolveName
  <2>4. QED
    BY <1>2, <2>1, <2>2, <2>3 DEF ResolveName
<1>3. QED
  BY <1>1, <1>2

\* The usage row: whether it answers or throws, the request goes on or ends.
LEMMA CountSeen ==
  ASSUME Shape, SeenInv, NEW q \in Requests, Count(q) \/ CountThrows(q)
  PROVE  /\ Frame(q) /\ Stage(q)' /\ Seen(q)' /\ request'[q].pc \in {"embed", "done"}
         /\ request'[q].user = request[q].user /\ found' = found
<1>0. /\ request[q].pc = "count" /\ request[q] \in RequestType
      /\ request[q].via \in Tokens /\ request[q].ask \in Asks
  BY DEF Count, CountThrows, Shape, RequestShape, Stage
<1>1. PICK next \in {"embed", "done"} : request' = [request EXCEPT ![q].pc = next]
  BY DEF Count, CountThrows, Uncounted
<1> DEFINE r == [request[q] EXCEPT !.pc = next]
<1>2. /\ r \in RequestType /\ r.pc = next /\ r.target = request[q].target
      /\ r.via = request[q].via /\ r.ask = request[q].ask /\ r.user = request[q].user
  BY <1>0 DEF RequestType, Stages
<1>3. Moves(q, r) /\ found' = found
  BY <1>0, <1>1 DEF Count, CountThrows, Moves
<1> HIDE DEF r
<1>4. /\ Frame(q) /\ request'[q] = r /\ held'[q] = held[q]
      /\ CoversNow(q)' <=> CoversNow(q)
      /\ \A d : MayRead(q, d)' <=> MayRead(q, d)
  BY <1>2, <1>3, MovesKeep
<1>5. CoversNow(q) /\ MayRead(q, request[q].target)
  BY <1>0, Constant DEF SeenInv, Seen
<1>6. request[q].target = NoTarget \/ request[q].target \in Installations \X Repos
  BY <1>0 DEF RequestType
<1>7. request[q].target \in Installations \X Repos
  BY <1>5, <1>6, Constant DEF MayRead, SeenInv, HeldType, NoTarget
<1>8. Stage(q)'
  BY <1>0, <1>2, <1>4, <1>7 DEF Stage, Shape
<1>9. Seen(q)'
  BY <1>0, <1>2, <1>3, <1>4, <1>5, Constant DEF Seen, SeenInv
<1>10. QED
  BY <1>2, <1>3, <1>4, <1>8, <1>9

\* The points are read of the very collection that was resolved.
LEMMA ReadSeen ==
  ASSUME Shape, SeenInv, NEW q \in Requests, Embed(q) \/ ReadPoints(q)
  PROVE  /\ Frame(q) /\ Stage(q)' /\ Seen(q)' /\ request'[q].pc \in {"search", "done"}
         /\ request'[q].user = request[q].user
         /\ request[q].target \in Installations \X Repos
         /\ found' \in {found, found \cup {<<q, request[q].target>>}}
<1>0. /\ request[q].pc \in {"embed", "search"} /\ request[q] \in RequestType
      /\ request[q].target \in Installations \X Repos
  BY DEF Embed, ReadPoints, Shape, RequestShape, Stage
<1>1. PICK next \in {"search", "done"} :
        /\ request' = [request EXCEPT ![q].pc = next]
        /\ next = "search" => found' = found
  BY DEF Embed, ReadPoints, Go
<1> DEFINE r == [request[q] EXCEPT !.pc = next]
<1>2. /\ r \in RequestType /\ r.pc = next /\ r.target = request[q].target
      /\ r.via = request[q].via /\ r.ask = request[q].ask /\ r.user = request[q].user
  BY <1>0 DEF RequestType, Stages
<1>3. Moves(q, r) /\ found' \in {found, found \cup {<<q, request[q].target>>}}
  BY <1>0, <1>1 DEF Embed, ReadPoints, Go, Moves
<1> HIDE DEF r
<1>4. /\ Frame(q) /\ request'[q] = r /\ held'[q] = held[q]
      /\ CoversNow(q)' <=> CoversNow(q)
      /\ \A d : MayRead(q, d)' <=> MayRead(q, d)
  BY <1>2, <1>3, MovesKeep
<1>5. Stage(q)'
  BY <1>0, <1>2, <1>4 DEF Stage, Shape
<1>6. \A d \in Installations \X Repos : <<q, d>> \notin found
  BY <1>0 DEF SeenInv, Seen
<1>7. \A d \in Installations \X Repos :
        <<q, d>> \in found' => d = request[q].target /\ next = "done"
  BY <1>1, <1>3, <1>6
<1>8. Seen(q)'
  BY <1>0, <1>2, <1>4, <1>7, Constant DEF Seen, SeenInv
<1>9. QED
  BY <1>0, <1>2, <1>3, <1>4, <1>5, <1>8

\* A step leaves the other requests alone, and what it does to this one is Stage and Seen.
LEMMA StepSeen ==
  ASSUME Shape, SeenInv, NEW q \in Requests, Step(q)
  PROVE  Frame(q) /\ Stage(q)' /\ Seen(q)'
<1>1. CASE Authenticate(q)
  BY <1>1, AuthenticateSeen
<1>2. CASE ListInstallations(q)
  BY <1>2, ListSeen
<1>3. CASE ResolveId(q) \/ ResolveName(q)
  BY <1>3, ResolveSeen
<1>4. CASE Count(q) \/ CountThrows(q)
  BY <1>4, CountSeen
<1>5. CASE Embed(q) \/ ReadPoints(q)
  BY <1>5, ReadSeen
<1>6. CASE Throw(q)
  BY <1>6, AnswerSeen DEF Throw
<1>7. QED
  BY <1>1, <1>2, <1>3, <1>4, <1>5, <1>6 DEF Step

-----------------------------------------------------------------------------
(* The daily quota.                                                        *)

\* The requests of a user that were counted on a day, and those of them the quota let through.
Mine(u, d) == {q \in Requests : request[q].user = u /\ <<q, d>> \in counted}
Let(u, d) ==
  {q \in Mine(u, d) : \/ request[q].pc \in {"embed", "search"}
                      \/ \E c \in Installations \X Repos : <<q, c>> \in found}

CountInv ==
  /\ \A q \in Requests, d \in Days :
       <<q, d>> \in counted => request[q].pc \in {"embed", "search", "done"}
  /\ \A q \in Requests, d, e \in Days : <<q, d>> \in counted /\ <<q, e>> \in counted => d = e
  /\ \A u \in Users, d \in Days : /\ usage[u][d] = Cardinality(Mine(u, d))
                                  /\ Cardinality(Let(u, d)) <= Limit

LEMMA MineFinite ==
  \A u, d : /\ IsFiniteSet(Mine(u, d)) /\ Cardinality(Mine(u, d)) \in Nat
            /\ Cardinality(Mine(u, d)) <= Cardinality(Requests)
            /\ IsFiniteSet(Let(u, d)) /\ Cardinality(Let(u, d)) \in Nat
<1> TAKE u, d
<1>1. Mine(u, d) \subseteq Requests /\ Let(u, d) \subseteq Mine(u, d)
  BY DEF Mine, Let
<1>2. IsFiniteSet(Mine(u, d)) /\ Cardinality(Mine(u, d)) <= Cardinality(Requests)
  BY <1>1, Constant, FS_Subset
<1>3. IsFiniteSet(Let(u, d))
  BY <1>1, <1>2, FS_Subset
<1>4. QED
  BY <1>2, <1>3, FS_CardinalityType

\* A request that was counted keeps its user, and only the quota lets one through.
KeepsCount(q) ==
  \A d \in Days : <<q, d>> \in counted =>
    /\ request'[q].user = request[q].user
    /\ request'[q].pc \in {"embed", "search", "done"}
    /\ \/ request'[q].pc \in {"embed", "search"}
       \/ \E c \in Installations \X Repos : <<q, c>> \in found'
       => \/ request[q].pc \in {"embed", "search"}
          \/ \E c \in Installations \X Repos : <<q, c>> \in found

LEMMA CountKept ==
  ASSUME CountInv, UNCHANGED <<usage, counted>>, \A q \in Requests : KeepsCount(q)
  PROVE  CountInv'
<1>1. ASSUME NEW u \in Users, NEW d \in Days
      PROVE  /\ usage'[u][d] = Cardinality(Mine(u, d)')
             /\ Cardinality(Let(u, d)') <= Limit
  <2>1. Mine(u, d)' = Mine(u, d)
    BY DEF Mine, KeepsCount
  <2>2. Let(u, d)' \subseteq Let(u, d)
    BY <2>1 DEF Let, KeepsCount, Mine
  <2>3. /\ Cardinality(Let(u, d)') <= Cardinality(Let(u, d))
        /\ Cardinality(Let(u, d)') \in Nat /\ Cardinality(Let(u, d)) \in Nat
    BY <2>2, MineFinite, FS_Subset, FS_CardinalityType
  <2>4. QED
    BY <2>1, <2>3, Constant DEF CountInv
<1>2. QED
  BY <1>1 DEF CountInv, KeepsCount

\* The count was written: the request is one more of its user's, of today.
LEMMA CountWritten ==
  ASSUME Shape, SeenInv, CountInv, NEW q \in Requests, request[q].pc = "count",
         request'[q].user = request[q].user, request'[q].pc \in {"embed", "done"},
         \A p \in Requests \ {q} : request'[p] = request[p],
         found' = found, usage' = Written(q, NextCount(usage[request[q].user][day])),
         counted' = counted \cup {<<q, day>>},
         request'[q].pc = "embed" => NextCount(usage[request[q].user][day]) <= Limit
  PROVE  CountInv'
<1>0. request[q].user \in Users /\ day \in Days
  BY Constant DEF Shape, RowShape, Stage
<1>a. PICK me \in Users, today \in Days : me = request[q].user /\ today = day
  BY <1>0
<1>1. \A d \in Days : <<q, d>> \notin counted
  BY DEF CountInv
<1>2. \A c \in Installations \X Repos : <<q, c>> \notin found'
  BY DEF SeenInv, Seen
<1>3. ASSUME NEW u \in Users, NEW d \in Days, u # me \/ d # today
      PROVE  /\ usage'[u][d] = Cardinality(Mine(u, d)')
             /\ Cardinality(Let(u, d)') <= Limit
  <2>1. usage'[u][d] = usage[u][d]
    BY <1>a, <1>3 DEF Shape, RequestShape, Written
  <2>2. Mine(u, d)' = Mine(u, d)
    BY <1>a, <1>1, <1>3 DEF Mine
  <2>3. q \notin Mine(u, d)
    BY <1>1 DEF Mine
  <2>4. Let(u, d)' = Let(u, d)
    BY <2>2, <2>3 DEF Let, Mine
  <2>5. QED
    BY <2>1, <2>2, <2>4 DEF CountInv
<1>4. /\ usage'[me][today] = Cardinality(Mine(me, today)')
      /\ Cardinality(Let(me, today)') <= Limit
  <2>1. Mine(me, today)' = Mine(me, today) \cup {q} /\ q \notin Mine(me, today)
    BY <1>a, <1>1 DEF Mine
  <2>2. Cardinality(Mine(me, today)') = Cardinality(Mine(me, today)) + 1
    BY <2>1, MineFinite, FS_AddElement
  <2>3. usage'[me][today] = usage[me][today] + 1
    BY <1>a DEF Shape, RequestShape, Written, NextCount
  <2>4. usage'[me][today] = Cardinality(Mine(me, today)')
    BY <1>a, <2>2, <2>3 DEF CountInv
  <2>5. CASE request'[q].pc = "embed"
    <3>0. Let(me, today)' \subseteq Mine(me, today)'
      BY DEF Let
    <3>1. IsFiniteSet(Mine(me, today)')
      BY <2>1, MineFinite, FS_AddElement
    <3>2. /\ Cardinality(Let(me, today)') <= Cardinality(Mine(me, today)')
          /\ Cardinality(Let(me, today)') \in Nat
      BY <3>0, <3>1, FS_Subset, FS_CardinalityType
    <3>3. Cardinality(Mine(me, today)') <= Limit
      BY <1>a, <2>2, <2>5 DEF CountInv, NextCount
    <3>4. QED
      BY <2>4, <3>2, <3>3, <2>2, MineFinite, Constant
  <2>6. CASE request'[q].pc = "done"
    <3>1. Let(me, today)' = Let(me, today)
      BY <1>2, <2>1, <2>6 DEF Let, Mine
    <3>2. QED
      BY <1>a, <2>4, <3>1 DEF CountInv
  <2>7. QED
    BY <2>5, <2>6
<1>5. \A p \in Requests, d \in Days :
        <<p, d>> \in counted' => request'[p].pc \in {"embed", "search", "done"}
  BY DEF CountInv
<1>6. \A p \in Requests, d, e \in Days : <<p, d>> \in counted' /\ <<p, e>> \in counted' => d = e
  BY <1>1 DEF CountInv
<1>7. QED
  BY <1>3, <1>4, <1>5, <1>6 DEF CountInv

\* The statement that counts, and everything else: what a request keeps.
LEMMA CountNext ==
  ASSUME Shape, SeenInv, CountInv, NEW q \in Requests, Arrive(q) \/ Step(q)
  PROVE  CountInv' /\ RequestShape'
<1>1. Frame(q) /\ Stage(q)'
  BY ArriveSeen, StepSeen
<1>2. \A p \in Requests \ {q} : KeepsCount(p)
  BY <1>1 DEF Frame, KeepsCount, CountInv
<1>3. ASSUME UNCHANGED <<usage, counted>>, errors' \in 0 .. MaxErrors,
             found' \subseteq Requests \X (Installations \X Repos), KeepsCount(q)
      PROVE  CountInv' /\ RequestShape'
  <2>1. CountInv'
    BY <1>2, <1>3, CountKept
  <2>2. RequestShape'
    BY <1>1, <1>3 DEF RequestShape, Shape, Frame
  <2>3. QED
    BY <2>1, <2>2
<1>4. errors' \in 0 .. MaxErrors /\ found' \subseteq Requests \X (Installations \X Repos)
  <2>1. CASE Arrive(q)
    BY <2>1, ArriveSeen DEF Shape, RequestShape
  <2>2. CASE Authenticate(q) \/ ListInstallations(q) \/ ResolveId(q) \/ ResolveName(q) \/ Count(q)
    BY <2>2 DEF Authenticate, ListInstallations, ResolveId, ResolveName, Count, Go, Answer,
                Shape, RequestShape
  <2>3. CASE CountThrows(q) \/ Throw(q)
    BY <2>3, Constant DEF CountThrows, Throw, Shape, RequestShape
  <2>4. CASE Embed(q) \/ ReadPoints(q)
    <3>1. errors' = errors
      BY <2>4 DEF Embed, ReadPoints, Go
    <3>2. QED
      BY <2>4, <3>1, ReadSeen DEF Shape, RequestShape
  <2>5. QED
    BY <2>1, <2>2, <2>3, <2>4 DEF Step
<1>5. CASE Arrive(q) \/ Authenticate(q) \/ ListInstallations(q) \/ ResolveId(q) \/ ResolveName(q)
  <2>1. request[q].pc \in {"idle", "token", "installations", "id", "name"}
    BY <1>5, ArriveSeen DEF Authenticate, ListInstallations, ResolveId, ResolveName
  <2>2. KeepsCount(q)
    BY <2>1 DEF KeepsCount, CountInv
  <2>3. UNCHANGED <<usage, counted>>
    BY <1>5, ArriveSeen DEF Authenticate, ListInstallations, ResolveId, ResolveName, Go, Answer
  <2>4. QED
    BY <1>3, <1>4, <2>2, <2>3
<1>6. CASE Embed(q) \/ ReadPoints(q) \/ Throw(q)
  <2>1. UNCHANGED <<usage, counted>>
    BY <1>6 DEF Embed, ReadPoints, Throw, Go
  <2>2. KeepsCount(q)
    <3>1. CASE Embed(q) \/ ReadPoints(q)
      BY <3>1, ReadSeen DEF KeepsCount, Embed, ReadPoints
    <3>2. CASE Throw(q)
      <4>1. /\ request[q].pc # "idle" /\ request[q].pc # "done" /\ found' = found
            /\ UNCHANGED <<rows, indexed, day, acts, held>>
            /\ request' = [request EXCEPT ![q] = [@ EXCEPT !.pc = "done", !.left = {}]]
        BY <3>2 DEF Throw
      <4>2. request'[q].pc = "done" /\ request'[q].user = request[q].user
        BY <4>1, AnswerSeen
      <4>3. QED
        BY <4>1, <4>2 DEF KeepsCount
    <3>3. QED
      BY <1>6, <3>1, <3>2
  <2>3. QED
    BY <1>3, <1>4, <2>1, <2>2
<1>7. CASE Count(q) \/ CountThrows(q)
  <2>1. /\ request[q].pc = "count" /\ request'[q].pc \in {"embed", "done"}
        /\ request'[q].user = request[q].user /\ found' = found
    BY <1>7, CountSeen DEF Count, CountThrows
  <2>2. CASE UNCHANGED <<usage, counted>>
    <3>1. KeepsCount(q)
      BY <2>1 DEF KeepsCount, CountInv
    <3>2. QED
      BY <1>3, <1>4, <2>2, <3>1
  <2>3. CASE ~UNCHANGED <<usage, counted>>
    <3>1. /\ usage' = Written(q, NextCount(usage[request[q].user][day]))
          /\ counted' = counted \cup {<<q, day>>}
      BY <1>7, <2>3 DEF Count, CountThrows
    <3>2. request'[q].pc = "embed" => NextCount(usage[request[q].user][day]) <= Limit
      <4>0. request[q].user \in Users /\ day \in Days
        BY <2>1, Constant DEF Shape, RowShape, Stage
      <4>1. usage[request[q].user][day] \in Nat
        BY <4>0 DEF Shape, RequestShape
      <4>2. CASE Count(q)
        BY <4>1, <4>2, Constant DEF Count, TooMany, NextCount, Shape, RequestShape
      <4>3. CASE CountThrows(q)
        BY <4>3 DEF CountThrows, Uncounted, Shape, RequestShape, RequestType
      <4>4. QED
        BY <1>7, <4>2, <4>3
    <3>3. CountInv'
      BY <1>1, <2>1, <3>1, <3>2, CountWritten DEF Frame
    <3>4. request[q].user \in Users /\ day \in Days
      BY <2>1, Constant DEF Shape, RowShape, Stage
    <3>5. usage' \in [Users -> [Days -> Nat]] /\ counted' \subseteq Requests \X Days
      BY <3>1, <3>4 DEF Shape, RequestShape, Written, NextCount
    <3>6. RequestShape'
      BY <1>1, <1>4, <3>5 DEF RequestShape, Frame
    <3>7. QED
      BY <3>3, <3>6
  <2>4. QED
    BY <2>2, <2>3
<1>8. QED
  BY <1>5, <1>6, <1>7 DEF Step

-----------------------------------------------------------------------------
(* The theorems.                                                           *)

Inv == Shape /\ SeenInv /\ CountInv

LEMMA InvInit == Init => Inv
<1> SUFFICES ASSUME Init PROVE Inv
  OBVIOUS
<1>1. Shape
  BY ShapeInit
<1>2. SeenInv
  BY DEF Init, SeenInv, Seen, HeldType, Never, NoRequest
<1>3. CountInv
  <2>1. ASSUME NEW u \in Users, NEW d \in Days
        PROVE  usage[u][d] = Cardinality(Mine(u, d)) /\ Cardinality(Let(u, d)) <= Limit
    <3>1. Mine(u, d) = {} /\ Let(u, d) = {}
      BY DEF Init, Mine, Let
    <3>2. QED
      BY <3>1, FS_EmptySet, Constant DEF Init
  <2>2. QED
    BY <2>1 DEF Init, CountInv
<1>4. QED
  BY <1>1, <1>2, <1>3 DEF Inv

LEMMA InvNext == Inv /\ [Next]_vars => Inv'
<1> SUFFICES ASSUME Inv, [Next]_vars PROVE Inv'
  OBVIOUS
<1> USE DEF Inv
<1>1. CASE Change
  <2>1. /\ UNCHANGED <<usage, request, errors, counted, found>>
        /\ Watch \/ UNCHANGED <<rows, held>>
    BY <1>1, ChangeView
  <2>2. RowShape'
    BY <1>1, RowsKept DEF Shape
  <2>3. Shape'
    BY <2>1, <2>2 DEF Shape, RequestShape, Stage
  <2>4. SeenInv'
    <3>1. CASE Watch
      BY <2>1, <2>2, <3>1, WatchHolds
    <3>2. CASE UNCHANGED <<rows, held>>
      BY <2>1, <3>2 DEF SeenInv, Seen, CoversNow, MayRead, rows, Active, Searchable
    <3>3. QED
      BY <2>1, <3>1, <3>2
  <2>5. CountInv'
    <3>1. \A q \in Requests : KeepsCount(q)
      BY <2>1 DEF KeepsCount, CountInv
    <3>2. QED
      BY <2>1, <3>1, CountKept
  <2>6. QED
    BY <2>3, <2>4, <2>5
<1>2. ASSUME NEW q \in Requests, Arrive(q) \/ Step(q)  PROVE Inv'
  <2>1. Frame(q) /\ Stage(q)' /\ Seen(q)'
    BY <1>2, ArriveSeen, StepSeen
  <2>2. (\A p \in Requests : Stage(p)') /\ SeenInv'
    BY <2>1, OthersKeep
  <2>3. CountInv' /\ RequestShape'
    BY <1>2, CountNext
  <2>4. RowShape'
    BY <2>1 DEF Shape, RowShape, Frame, rows
  <2>5. QED
    BY <2>2, <2>3, <2>4 DEF Shape
<1>3. CASE UNCHANGED vars
  <2>1. Shape'
    BY <1>3 DEF vars, rows, Shape, RowShape, RequestShape, Stage
  <2>2. SeenInv'
    BY <1>3 DEF vars, rows, SeenInv, Seen, CoversNow, MayRead, Active, Searchable
  <2>3. CountInv'
    <3>1. \A q \in Requests : KeepsCount(q)
      BY <1>3 DEF vars, KeepsCount, CountInv
    <3>2. QED
      BY <1>3, <3>1, CountKept DEF vars
  <2>4. QED
    BY <2>1, <2>2, <2>3
<1>4. QED
  BY <1>1, <1>2, <1>3 DEF Next

LEMMA Invariant == Spec => []Inv
<1>1. Init => Inv
  BY InvInit
<1>2. Inv /\ [Next]_vars => Inv'
  BY InvNext
<1>3. QED
  BY <1>1, <1>2, PTL DEF Spec

\* Every variable keeps its type; a user's count never exceeds the number of requests,
\* because each of them is counted at most once.
THEOREM TypeCorrect == Spec => []TypeOK
<1>1. Inv => TypeOK
  <2> SUFFICES ASSUME Inv PROVE TypeOK
    OBVIOUS
  <2>1. \A u \in Users, d \in Days : usage[u][d] \in 0 .. Cardinality(Requests)
    BY MineFinite, Constant, FS_CardinalityType DEF Inv, CountInv
  <2>2. usage \in [Users -> [Days -> 0 .. Cardinality(Requests)]]
    BY <2>1 DEF Inv, Shape, RequestShape
  <2>3. QED
    BY <2>2 DEF Inv, Shape, RowShape, RequestShape, RequestType, Stages, TypeOK
<1>2. QED
  BY <1>1, Invariant, PTL

\* A search over MCP reads no collection that was never its user's to read: a moment
\* its token was live, a moment the link to the installation was there and the
\* installation active, and a moment the row was there, however the dashboard, the
\* webhooks and the indexer change the rows between its statements.
THEOREM ReadsOnlyAccessible == Spec => []FoundWasAccessible
<1>1. Inv => FoundWasAccessible
  <2> SUFFICES ASSUME Inv, NEW f \in found, request[f[1]].via # None
               PROVE  MayRead(f[1], f[2])
    BY DEF FoundWasAccessible, MayRead
  <2>1. f[1] \in Requests /\ f[2] \in Installations \X Repos /\ f = <<f[1], f[2]>>
    BY DEF Inv, Shape, RequestShape
  <2>2. <<f[1], f[2]>> \in found
    BY <2>1
  <2>3. request[f[1]].pc # "idle"
    BY <2>1, <2>2 DEF Inv, SeenInv, Seen
  <2>4. QED
    BY <2>1, <2>2, <2>3 DEF Inv, SeenInv, Seen
<1>2. QED
  BY <1>1, Invariant, PTL

\* No more than Limit of the searches counted for a user on a day read points, and the
\* usage row is the number of searches counted, for any number of them at once.
THEOREM QuotaHolds == Spec => []WithinLimit
<1>1. Inv => WithinLimit
  <2> SUFFICES ASSUME Inv, NEW u \in Users, NEW d \in Days
               PROVE  LET mine == {q \in Requests : request[q].user = u /\ <<q, d>> \in counted}
                          searched == {q \in mine : \E c \in Installations \X Repos :
                                                       <<q, c>> \in found}
                      IN /\ Cardinality(searched) <= Limit
                         /\ usage[u][d] = Cardinality(mine)
                         /\ \A q \in mine, e \in Days : <<q, e>> \in counted => e = d
    BY DEF WithinLimit
  <2> DEFINE searched == {q \in Mine(u, d) : \E c \in Installations \X Repos : <<q, c>> \in found}
  <2>1. searched \subseteq Let(u, d)
    BY DEF Let
  <2>2. Cardinality(searched) <= Cardinality(Let(u, d)) /\ Cardinality(searched) \in Nat
    BY <2>1, MineFinite, FS_Subset, FS_CardinalityType
  <2>3. Cardinality(searched) <= Limit
    BY <2>2, MineFinite, Constant DEF Inv, CountInv
  <2>4. usage[u][d] = Cardinality(Mine(u, d))
    BY DEF Inv, CountInv
  <2>5. \A q \in Mine(u, d), e \in Days : <<q, e>> \in counted => e = d
    BY DEF Inv, CountInv, Mine
  <2>6. QED
    BY <2>3, <2>4, <2>5 DEF Mine
<1>2. QED
  BY <1>1, Invariant, PTL
=============================================================================
