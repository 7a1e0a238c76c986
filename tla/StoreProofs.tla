----------------------------- MODULE StoreProofs -----------------------------
(***************************************************************************)
(* Theorems about Store, for every number of requests, ids, paths and      *)
(* errors, and every menu of requests.                                     *)
(***************************************************************************)
EXTENDS Store, TLAPS, FiniteSetTheorems

LEMMA Constant ==
  /\ {Batch, Limit, SweepLimit, Parallel} \subseteq Nat \ {0}
  /\ MaxRequests \in Nat /\ MaxErrors \in Nat /\ IsFiniteSet(Ids)
  /\ None \notin Menu /\ None \notin Dims /\ None \notin [path : Paths, dim : Dims]
  BY StoreAssumption DEF StoreAssumption

-----------------------------------------------------------------------------
(* What clients send.                                                      *)

LEMMA MinOfTwo == \A a, b \in Nat : LET m == Min({a, b}) IN m \in {a, b} /\ m <= a /\ m <= b
<1> SUFFICES ASSUME NEW a \in Nat, NEW b \in Nat
             PROVE  Min({a, b}) \in {a, b} /\ Min({a, b}) <= a /\ Min({a, b}) <= b
  OBVIOUS
<1>1. \E x \in {a, b} : \A y \in {a, b} : x <= y
  OBVIOUS
<1>2. QED
  BY <1>1 DEF Min

LEMMA MenuTypes ==
  ASSUME NEW r \in Menu
  PROVE  /\ r.op \in Ops /\ r.dim \in Dims /\ r.ids \subseteq Ids
         /\ Len(r.points) \in Nat /\ DOMAIN r.points = 1 .. Len(r.points)
         /\ Len(r.paths) \in Nat /\ DOMAIN r.paths = 1 .. Len(r.paths)
         /\ \A i \in DOMAIN r.points : r.points[i].id \in Ids /\ r.points[i].path \in Paths
         /\ r.op = "upsert" => 1 \in DOMAIN r.points
         /\ r.op = "deletePaths" => 1 \in DOMAIN r.paths
<1>1. /\ r.op \in Ops /\ r.dim \in Dims /\ r.ids \subseteq Ids
      /\ r.points \in Seq(Range(r.points)) /\ r.paths \in Seq(Range(r.paths))
      /\ \A i \in DOMAIN r.points : r.points[i].id \in Ids
      /\ r.op = "upsert" => r.points # <<>>
      /\ r.op = "deletePaths" => r.paths # <<>>
  BY StoreAssumption DEF StoreAssumption
<1>2. ASSUME NEW i \in DOMAIN r.points  PROVE r.points[i].path \in Paths
  <2>1. r.points[i].path \in Range([j \in DOMAIN r.points |-> r.points[j].path])
    BY DEF Range
  <2>2. QED
    BY <2>1 DEF Paths
<1>3. /\ Len(r.points) \in Nat /\ DOMAIN r.points = 1 .. Len(r.points)
      /\ Len(r.paths) \in Nat /\ DOMAIN r.paths = 1 .. Len(r.paths)
  BY <1>1
<1>4. /\ r.op = "upsert" => Len(r.points) # 0
      /\ r.op = "deletePaths" => Len(r.paths) # 0
  BY <1>1
<1>5. QED
  BY <1>1, <1>2, <1>3, <1>4

-----------------------------------------------------------------------------
(* The shape of the state, and the stage a request is in.                  *)

PointType == [path : Paths, dim : Dims]
SelType == Ids \cup (Folders \X Ids) \cup Nat
SlotType == [pc : Working \cup {"idle", "body"}, request : Menu \cup {None}, answer : Answers,
             said : {0, 1}, at : Nat \ {0}, sel : SUBSET SelType, failed : BOOLEAN]

\* A request under way has told its client nothing but that it took too long.
Open(x) == /\ x.said = 0 <=> x.answer = "none"
           /\ x.pc # "idle" => x.request \in Menu /\ x.answer \in {"none", "503"}
           /\ x.answer # "none" => x.request # None

Stage(x) ==
  /\ x.pc \in {"body", "sync", "bulk"} => x.request.op = "upsert"
  /\ x.pc \in {"deleteIds", "deletePaths"} => x.request.op = x.pc
  /\ x.pc \in Sweeping => x.request.op \in {"drop", "clear"}
  /\ x.pc = "dropMeta" => x.request.op = "drop"
  /\ x.pc = "write" => x.request.op = "create"
  /\ x.pc = "read" => x.request.op = "search"
  /\ x.pc \in {"body", "meta"} => x.at = 1 /\ x.sel = {} /\ ~x.failed
  /\ x.pc \in {"sync", "bulk"} => x.at \in DOMAIN x.request.points
  /\ x.pc = "cut" => x.sel \subseteq Ids
  /\ x.pc = "cutRows" => x.sel \subseteq Folders \X Ids
  /\ x.pc = "deletePaths" => x.sel \subseteq DOMAIN x.request.paths

Good(x) == x \in SlotType /\ Open(x) /\ Stage(x)

Shape ==
  /\ meta \in Dims \cup {None}
  /\ points \in [Ids -> PointType \cup {None}]
  /\ lookup \subseteq Folders \X Ids
  /\ slot \in [Slots -> SlotType] /\ \A s \in Slots : Good(slot[s])
  /\ was \in [Ids -> SUBSET Paths]
  /\ raced \subseteq Ids /\ clash \in BOOLEAN
  /\ due \in [Slots -> SUBSET Ids]

LEMMA SaysOnce ==
  ASSUME NEW s \in Slots, Good(slot[s]), slot[s].pc # "idle", NEW a \in Answers \ {"none"}
  PROVE  LET x == Says(s, a)
         IN /\ x \in SlotType /\ x.said = 1 /\ x.answer \in {a, "503"} /\ x.answer # "none"
            /\ x.pc = slot[s].pc /\ x.request = slot[s].request /\ x.at = slot[s].at
            /\ x.sel = slot[s].sel /\ x.failed = slot[s].failed
<1> DEFINE x == slot[s]
<1>1. x \in SlotType /\ (x.said = 0 <=> x.answer = "none") /\ x.answer \in {"none", "503"}
  BY DEF Good, Open
<1>2. CASE x.answer = "none"
  <2>1. Says(s, a) = [x EXCEPT !.answer = a, !.said = @ + 1] /\ x.said = 0
    BY <1>1, <1>2 DEF Says
  <2> HIDE DEF x
  <2>2. [x EXCEPT !.answer = a, !.said = @ + 1] = [x EXCEPT !.answer = a, !.said = 1]
    BY <2>1
  <2> DEFINE y == [x EXCEPT !.answer = a, !.said = 1]
  <2>3. /\ y \in SlotType /\ y.said = 1 /\ y.answer = a
        /\ y.pc = x.pc /\ y.request = x.request /\ y.at = x.at
        /\ y.sel = x.sel /\ y.failed = x.failed
    BY <1>1 DEF SlotType
  <2> HIDE DEF y
  <2>4. Says(s, a) = y
    BY <2>1, <2>2 DEF y
  <2>5. QED
    BY <2>3, <2>4 DEF x
<1>3. CASE x.answer # "none"
  <2>1. Says(s, a) = x /\ x.said # 0
    BY <1>1, <1>3 DEF Says
  <2> HIDE DEF x
  <2>2. x.said = 1
    BY <1>1, <2>1 DEF SlotType
  <2>3. QED
    BY <1>1, <1>3, <2>1, <2>2 DEF x
<1>4. QED
  BY <1>2, <1>3

LEMMA SaysGood ==
  ASSUME NEW s \in Slots, Good(slot[s]), slot[s].pc # "idle"
  PROVE  Good(Says(s, "503"))
<1> DEFINE x == Says(s, "503")
<1>1. /\ x \in SlotType /\ x.said = 1 /\ x.answer = "503"
      /\ x.pc = slot[s].pc /\ x.request = slot[s].request /\ x.at = slot[s].at
      /\ x.sel = slot[s].sel /\ x.failed = slot[s].failed
  BY SaysOnce DEF Answers
<1> HIDE DEF x
<1>2. Open(x)
  BY <1>1, Constant DEF Good, Open
<1>3. Stage(x)
  BY <1>1 DEF Good, Stage
<1>4. QED
  BY <1>1, <1>2, <1>3 DEF Good, x

LEMMA DoneGood ==
  ASSUME NEW s \in Slots, Good(slot[s]), slot[s].pc # "idle", NEW a \in Answers \ {"none"}
  PROVE  /\ Good(Done(s, a))
         /\ Done(s, a).pc = "idle" /\ Done(s, a).request = slot[s].request
         /\ Done(s, a).answer \in {a, "503"}
<1> DEFINE x == Says(s, a)
           y == [x EXCEPT !.pc = "idle", !.sel = {}]
<1>1. /\ x \in SlotType /\ x.said = 1 /\ x.answer \in {a, "503"} /\ x.answer # "none"
      /\ x.request = slot[s].request
  BY SaysOnce
<1>2. slot[s].request \in Menu
  BY DEF Good, Open
<1> HIDE DEF x
<1>3. /\ y \in SlotType /\ y.pc = "idle" /\ y.request = slot[s].request
      /\ y.answer = x.answer /\ y.said = 1
  BY <1>1 DEF SlotType
<1> HIDE DEF y
<1>4. Open(y)
  BY <1>1, <1>2, <1>3, Constant DEF Open
<1>5. Stage(y)
  BY <1>3 DEF Stage, Sweeping
<1>6. Done(s, a) = y
  BY DEF Done, x, y
<1>7. QED
  BY <1>1, <1>3, <1>4, <1>5, <1>6 DEF Good

LEMMA AtGood ==
  ASSUME NEW s \in Slots, Good(slot[s]), slot[s].pc # "idle", NEW pc \in Working,
         pc \in {"sync", "bulk"} => /\ slot[s].request.op = "upsert"
                                    /\ slot[s].at \in DOMAIN slot[s].request.points,
         pc \in {"deleteIds", "deletePaths"} => slot[s].request.op = pc,
         pc \in Sweeping => slot[s].request.op \in {"drop", "clear"},
         pc = "dropMeta" => slot[s].request.op = "drop",
         pc = "write" => slot[s].request.op = "create",
         pc = "read" => slot[s].request.op = "search",
         pc # "meta"
  PROVE  LET x == At(s, pc)
         IN /\ Good(x) /\ x.pc = pc /\ x.request = slot[s].request /\ x.at = slot[s].at
            /\ x.sel = {} /\ x.failed = slot[s].failed /\ x.answer = slot[s].answer
<1> DEFINE x == At(s, pc)
<1>1. /\ x \in SlotType /\ x.pc = pc /\ x.request = slot[s].request /\ x.at = slot[s].at
      /\ x.sel = {} /\ x.failed = slot[s].failed /\ x.answer = slot[s].answer
      /\ x.said = slot[s].said
  BY DEF Good, SlotType, At
<1> HIDE DEF x
<1>2. Open(x)
  BY <1>1 DEF Good, Open
<1>3. Stage(x)
  BY <1>1 DEF Stage, Working, Sweeping
<1>4. QED
  BY <1>1, <1>2, <1>3 DEF Good, x

-----------------------------------------------------------------------------
(* What the steps do to the slot they work for.                            *)

Moves(s) == /\ slot' \in [Slots -> SlotType] /\ Good(slot'[s])
            /\ \A t \in Slots \ {s} : slot'[t] = slot[t]
Stays(s) == slot'[s].pc = slot[s].pc /\ slot'[s].request = slot[s].request
            /\ slot'[s].at = slot[s].at /\ slot'[s].sel = slot[s].sel
            /\ slot'[s].failed = slot[s].failed
Ends(s) == /\ slot'[s].pc = "idle" /\ slot'[s].request = slot[s].request
Goes(s, pc) == /\ slot'[s].pc = pc /\ slot'[s].request = slot[s].request
               /\ slot'[s].at = slot[s].at /\ slot'[s].failed = slot[s].failed

LEMMA Assigned ==
  ASSUME Shape, NEW s \in Slots, NEW x, Good(x), slot' = [slot EXCEPT ![s] = x]
  PROVE  Moves(s) /\ slot'[s] = x
  BY DEF Shape, Good, Moves

LEMMA SendMoves ==
  ASSUME Shape, NEW s \in Slots, Send(s)
  PROVE  /\ Moves(s) /\ slot[s].pc = "idle" /\ slot'[s].answer = "none"
         /\ slot'[s].pc \in {"body", "meta"} /\ slot'[s].request \in Menu
         /\ due' = [due EXCEPT ![s] = IF slot'[s].request.op = "upsert"
                                      THEN Uploaded(slot'[s].request) ELSE {}]
         /\ slot'[s].request.op = "upsert" <=> slot'[s].pc = "body"
<1>1. PICK r \in Menu :
        /\ slot' = [slot EXCEPT ![s] =
             [Free EXCEPT !.request = r, !.pc = IF r.op = "upsert" THEN "body" ELSE "meta"]]
        /\ due' = [due EXCEPT ![s] = IF r.op = "upsert" THEN Uploaded(r) ELSE {}]
  BY DEF Send
<1>a. PICK pc \in {"body", "meta"} : pc = IF r.op = "upsert" THEN "body" ELSE "meta"
  OBVIOUS
<1> DEFINE x == [Free EXCEPT !.request = r, !.pc = pc]
<1>2. Free \in SlotType
  BY DEF Free, SlotType, Answers, SelType
<1>3. x \in SlotType
  BY <1>2 DEF SlotType, Working
<1>b. /\ Free.answer = "none" /\ Free.said = 0 /\ Free.at = 1 /\ Free.sel = {}
      /\ Free.failed = FALSE
  BY DEF Free
<1>4. /\ x.request = r /\ x.pc = pc /\ x.answer = "none" /\ x.said = 0 /\ x.at = 1
      /\ x.sel = {} /\ x.failed = FALSE
  BY <1>2, <1>b DEF SlotType
<1>5. slot' = [slot EXCEPT ![s] = x]
  BY <1>1, <1>a
<1> HIDE DEF x
<1>6. Good(x)
  BY <1>3, <1>4, <1>a DEF Good, Open, Stage, Sweeping
<1>7. Moves(s) /\ slot'[s] = x
  BY <1>5, <1>6, Assigned
<1>8. QED
  BY <1>1, <1>4, <1>7, <1>a DEF Send

LEMMA BodyMoves ==
  ASSUME Shape, NEW s \in Slots, TakeBody(s) \/ BadBody(s)
  PROVE  /\ Moves(s) /\ slot[s].pc = "body" /\ slot'[s].request = slot[s].request
         /\ \/ slot'[s].pc = "meta"
            \/ slot'[s].pc = "idle" /\ slot'[s].answer \in {"400", "503"}
<1>0. Good(slot[s]) /\ slot[s].pc = "body"
  BY DEF Shape, TakeBody, BadBody
<1>1. ASSUME NEW a \in {"400", "503"}, slot' = [slot EXCEPT ![s] = Done(s, a)]
      PROVE  /\ Moves(s) /\ slot'[s].request = slot[s].request
             /\ slot'[s].pc = "idle" /\ slot'[s].answer \in {"400", "503"}
  <2>1. Good(Done(s, a)) /\ Done(s, a).pc = "idle" /\ Done(s, a).request = slot[s].request
        /\ Done(s, a).answer \in {a, "503"}
    BY <1>0, DoneGood DEF Answers
  <2>2. QED
    BY <1>1, <2>1, Assigned
<1>2. ASSUME slot' = [slot EXCEPT ![s].pc = "meta"]
      PROVE  Moves(s) /\ slot'[s].request = slot[s].request /\ slot'[s].pc = "meta"
  <2> DEFINE x == [slot[s] EXCEPT !.pc = "meta"]
  <2>1. /\ x \in SlotType /\ x.pc = "meta" /\ x.request = slot[s].request
        /\ x.at = slot[s].at /\ x.sel = slot[s].sel /\ x.failed = slot[s].failed
        /\ x.said = slot[s].said /\ x.answer = slot[s].answer
    BY <1>0 DEF Good, SlotType, Working
  <2>2. slot' = [slot EXCEPT ![s] = x]
    BY <1>2
  <2> HIDE DEF x
  <2>3. Good(x)
    BY <1>0, <2>1 DEF Good, Open, Stage, Sweeping
  <2>4. QED
    BY <2>1, <2>2, <2>3, Assigned
<1>3. QED
  BY <1>0, <1>1, <1>2 DEF TakeBody, BadBody

LEMMA TimeoutMoves ==
  ASSUME Shape, NEW s \in Slots, BodyTimeout(s) \/ ProcessingTimeout(s)
  PROVE  Moves(s) /\ Stays(s) /\ slot[s].pc # "idle"
<1>1. Good(slot[s]) /\ slot[s].pc # "idle" /\ slot' = [slot EXCEPT ![s] = Says(s, "503")]
  BY DEF Shape, BodyTimeout, ProcessingTimeout, TimeOut, BodyArmed, ProcessingArmed, Serves
<1>2. Good(Says(s, "503"))
  BY <1>1, SaysGood
<1>3. Moves(s) /\ slot'[s] = Says(s, "503")
  BY <1>1, <1>2, Assigned
<1>4. QED
  BY <1>1, <1>3, SaysOnce DEF Stays, Answers

\* A request ends.
LEMMA DoneMoves ==
  ASSUME Shape, NEW s \in Slots, slot[s].pc # "idle", NEW a \in Answers \ {"none"},
         slot' = [slot EXCEPT ![s] = Done(s, a)]
  PROVE  Moves(s) /\ Ends(s) /\ slot'[s].answer \in {a, "503"} /\ slot'[s] = Done(s, a)
<1>1. Good(slot[s])
  BY DEF Shape
<1>2. /\ Good(Done(s, a)) /\ Done(s, a).pc = "idle" /\ Done(s, a).request = slot[s].request
      /\ Done(s, a).answer \in {a, "503"}
  BY <1>1, DoneGood
<1>3. QED
  BY <1>2, Assigned DEF Ends

LEMMA AtMoves ==
  ASSUME Shape, NEW s \in Slots, slot[s].pc # "idle", NEW pc \in Working, pc # "meta",
         pc \in {"sync", "bulk"} => /\ slot[s].request.op = "upsert"
                                    /\ slot[s].at \in DOMAIN slot[s].request.points,
         pc \in {"deleteIds", "deletePaths"} => slot[s].request.op = pc,
         pc \in Sweeping => slot[s].request.op \in {"drop", "clear"},
         pc = "dropMeta" => slot[s].request.op = "drop",
         pc = "write" => slot[s].request.op = "create",
         pc = "read" => slot[s].request.op = "search",
         slot' = [slot EXCEPT ![s] = At(s, pc)]
  PROVE  Moves(s) /\ Goes(s, pc) /\ slot'[s].sel = {} /\ slot'[s].answer # "ok"
<1>1. Good(slot[s])
  BY DEF Shape
<1> DEFINE x == At(s, pc)
<1>2. /\ Good(x) /\ x.pc = pc /\ x.request = slot[s].request /\ x.at = slot[s].at
      /\ x.sel = {} /\ x.failed = slot[s].failed /\ x.answer = slot[s].answer
  BY <1>1, AtGood
<1> HIDE DEF x
<1>3. Moves(s) /\ slot'[s] = x
  BY <1>2, Assigned DEF x
<1>4. QED
  BY <1>1, <1>2, <1>3 DEF Goes, Good, Open

\* The answer of getCollectionMeta: the request ends, or it goes on with its work.
MetaTurn(s) ==
  \/ /\ Ends(s)
     /\ slot'[s].answer = "ok" => \/ slot[s].request.op = "create"
                                  \/ slot[s].request.op = "drop" /\ meta = None
  \/ Goes(s, "write") /\ meta = None
  \/ Goes(s, "sync") /\ slot[s].request.dim = meta
  \/ Goes(s, "read")
  \/ Goes(s, "points") /\ meta # None
  \/ slot[s].request.op \in {"deleteIds", "deletePaths"}
     /\ Goes(s, slot[s].request.op) /\ meta # None
     /\ slot'[s].at = 1 /\ slot'[s].sel = {} /\ ~slot'[s].failed

LEMMA MetaMoves ==
  ASSUME Shape, NEW s \in Slots, ReadMeta(s)
  PROVE  Moves(s) /\ MetaTurn(s)
<1> DEFINE op == slot[s].request.op
<1>0. /\ Good(slot[s]) /\ slot[s].pc = "meta" /\ slot[s].request \in Menu
      /\ slot[s].at = 1 /\ slot[s].sel = {} /\ ~slot[s].failed
  BY DEF Shape, ReadMeta, Good, Open, Stage
<1>1. op \in Ops /\ (op = "upsert" => 1 \in DOMAIN slot[s].request.points)
  BY <1>0, MenuTypes
<1>2. ASSUME NEW a \in {"ok", "400", "404"}, slot' = [slot EXCEPT ![s] = Done(s, a)],
             a = "ok" => op = "create" \/ (op = "drop" /\ meta = None)
      PROVE  Moves(s) /\ MetaTurn(s)
  <2>1. Moves(s) /\ Ends(s) /\ slot'[s].answer \in {a, "503"}
    BY <1>0, <1>2, DoneMoves DEF Answers
  <2>2. slot'[s].answer = "ok" => a = "ok"
    BY <2>1
  <2>3. slot'[s].answer = "ok" => \/ slot[s].request.op = "create"
                                  \/ slot[s].request.op = "drop" /\ meta = None
    BY <1>2, <2>2
  <2>4. QED
    BY <2>1, <2>3 DEF MetaTurn
<1>3. ASSUME NEW pc \in {"write", "sync", "read", "points", "deleteIds", "deletePaths"},
             slot' = [slot EXCEPT ![s] = At(s, pc)],
             pc = "write" => op = "create" /\ meta = None,
             pc = "sync" => op = "upsert" /\ slot[s].request.dim = meta,
             pc = "read" => op = "search",
             pc = "points" => op \in {"drop", "clear"} /\ meta # None,
             pc \in {"deleteIds", "deletePaths"} => op = pc /\ meta # None
      PROVE  Moves(s) /\ MetaTurn(s)
  <2>1. Moves(s) /\ Goes(s, pc) /\ slot'[s].sel = {}
    BY <1>0, <1>1, <1>3, AtMoves DEF Working, Sweeping
  <2>2. slot'[s].at = 1 /\ ~slot'[s].failed
    BY <1>0, <2>1 DEF Goes
  <2>3. QED
    BY <1>3, <2>1, <2>2 DEF MetaTurn
<1>4. CASE op = "create"
  <2>1. slot' = [slot EXCEPT ![s] = OnCreate(s)]
    BY <1>0, <1>4 DEF ReadMeta, Serves
  <2>2. QED
    BY <1>2, <1>3, <1>4, <2>1 DEF OnCreate
<1>5. CASE op = "drop"
  <2>1. slot' = [slot EXCEPT ![s] = OnDrop(s)]
    BY <1>0, <1>5 DEF ReadMeta, Serves
  <2>2. QED
    BY <1>2, <1>3, <1>5, <2>1 DEF OnDrop
<1>6. CASE op = "upsert"
  <2>1. slot' = [slot EXCEPT ![s] = OnUpsert(s)]
    BY <1>0, <1>6 DEF ReadMeta, Serves
  <2>2. QED
    BY <1>2, <1>3, <1>6, <2>1 DEF OnUpsert, Fits
<1>7. CASE op = "search"
  <2>1. slot' = [slot EXCEPT ![s] = OnSearch(s)]
    BY <1>0, <1>7 DEF ReadMeta, Serves
  <2>2. QED
    BY <1>2, <1>3, <1>7, <2>1 DEF OnSearch, Fits
<1>8. CASE op \in {"deleteIds", "deletePaths", "clear"}
  <2>1. slot' = [slot EXCEPT ![s] = OnDelete(s)]
    BY <1>0, <1>8 DEF ReadMeta, Serves
  <2>2. CASE meta = None
    BY <1>2, <2>1, <2>2 DEF OnDelete
  <2>3. CASE meta # None /\ op = "clear"
    BY <1>3, <2>1, <2>3 DEF OnDelete
  <2>4. CASE meta # None /\ op # "clear"
    <3>1. slot' = [slot EXCEPT ![s] = At(s, op)]
      BY <2>1, <2>4 DEF OnDelete
    <3>2. QED
      BY <1>3, <1>8, <2>4, <3>1
  <2>5. QED
    BY <2>2, <2>3, <2>4
<1>9. QED
  BY <1>1, <1>4, <1>5, <1>6, <1>7, <1>8 DEF Ops

LEMMA ExecutedMoves ==
  ASSUME Shape, NEW s \in Slots, NEW next, Good(next), Executed(s, next)
  PROVE  Moves(s) /\ slot'[s] \in {next, slot[s]}
<1>1. CASE slot' = [slot EXCEPT ![s] = next]
  BY <1>1, Assigned
<1>2. CASE slot' = slot
  BY <1>2 DEF Moves, Shape
<1>3. QED
  BY <1>1, <1>2 DEF Executed

LEMMA WriteMoves ==
  ASSUME Shape, NEW s \in Slots, WriteMeta(s) \/ DropMeta(s) \/ DeleteIds(s)
  PROVE  /\ Moves(s) /\ (Ends(s) \/ slot'[s] = slot[s])
         /\ slot[s].pc \in {"write", "dropMeta", "deleteIds"}
         /\ slot[s].request.op \in {"create", "drop", "deleteIds"}
<1>1. /\ Good(slot[s]) /\ slot[s].pc \in {"write", "dropMeta", "deleteIds"}
      /\ Executed(s, Done(s, "ok"))
  BY DEF Shape, WriteMeta, DropMeta, DeleteIds
<1>2. Good(Done(s, "ok")) /\ Done(s, "ok").pc = "idle" /\ Done(s, "ok").request = slot[s].request
  BY <1>1, DoneGood DEF Answers
<1>3. Moves(s) /\ slot'[s] \in {Done(s, "ok"), slot[s]}
  BY <1>1, <1>2, ExecutedMoves
<1>4. slot[s].request.op \in {"create", "drop", "deleteIds"}
  BY <1>1 DEF Good, Stage
<1>5. QED
  BY <1>1, <1>2, <1>3, <1>4 DEF Ends

LEMMA SyncMoves ==
  ASSUME Shape, NEW s \in Slots, Sync(s)
  PROVE  Moves(s) /\ (Goes(s, "bulk") \/ slot'[s] = slot[s])
<1>1. Good(slot[s]) /\ slot[s].pc = "sync" /\ Executed(s, At(s, "bulk"))
  BY DEF Shape, Sync
<1> DEFINE x == At(s, "bulk")
<1>2. /\ Good(x) /\ x.pc = "bulk" /\ x.request = slot[s].request /\ x.at = slot[s].at
      /\ x.failed = slot[s].failed
  <2>1. slot[s].request.op = "upsert" /\ slot[s].at \in DOMAIN slot[s].request.points
    BY <1>1 DEF Good, Stage
  <2>2. QED
    BY <1>1, <2>1, AtGood DEF Working, Sweeping
<1> HIDE DEF x
<1>3. Moves(s) /\ slot'[s] \in {x, slot[s]}
  BY <1>1, <1>2, ExecutedMoves DEF x
<1>4. QED
  BY <1>2, <1>3 DEF Goes

\* The next batch, or the last one is written and the upsert completed.
BulkTurn(s) ==
  \/ slot'[s] = slot[s]
  \/ /\ slot[s].at + Batch \in DOMAIN slot[s].request.points
     /\ slot'[s].pc = "sync" /\ slot'[s].request = slot[s].request
     /\ slot'[s].at = slot[s].at + Batch
  \/ slot[s].at + Batch \notin DOMAIN slot[s].request.points /\ Ends(s)

LEMMA BulkMoves ==
  ASSUME Shape, NEW s \in Slots, Bulk(s)
  PROVE  Moves(s) /\ BulkTurn(s)
<1> DEFINE more == slot[s].at + Batch \in DOMAIN slot[s].request.points
<1>1. Good(slot[s]) /\ slot[s].pc = "bulk" /\ Executed(s, NextBatch(s))
  BY DEF Shape, Bulk
<1>2. slot[s].request.op = "upsert" /\ slot[s].at \in DOMAIN slot[s].request.points
  BY <1>1 DEF Good, Stage
<1>3. CASE ~more
  <2>1. NextBatch(s) = Done(s, "ok")
    BY <1>3 DEF NextBatch
  <2>2. /\ Good(Done(s, "ok")) /\ Done(s, "ok").pc = "idle"
        /\ Done(s, "ok").request = slot[s].request
    BY <1>1, DoneGood DEF Answers
  <2>3. Moves(s) /\ slot'[s] \in {Done(s, "ok"), slot[s]}
    BY <1>1, <2>1, <2>2, ExecutedMoves
  <2>4. QED
    BY <1>3, <2>2, <2>3 DEF BulkTurn, Ends
<1>4. CASE more
  <2> DEFINE x == At(s, "sync")
             y == [x EXCEPT !.at = @ + Batch]
  <2>1. /\ Good(x) /\ x.pc = "sync" /\ x.request = slot[s].request /\ x.at = slot[s].at
    BY <1>1, <1>2, AtGood DEF Working, Sweeping
  <2>2. NextBatch(s) = y
    BY <1>4 DEF NextBatch
  <2> HIDE DEF x
  <2>3. x \in SlotType /\ x.at \in Nat \ {0} /\ x.at + Batch \in Nat \ {0}
    BY <2>1, Constant DEF Good, SlotType
  <2>4. /\ y \in SlotType /\ y.pc = "sync" /\ y.request = x.request /\ y.at = x.at + Batch
        /\ y.said = x.said /\ y.answer = x.answer
    BY <2>1, <2>3 DEF SlotType
  <2> HIDE DEF y
  <2>5. Good(y)
    BY <1>2, <1>4, <2>1, <2>4 DEF Good, Open, Stage, Sweeping
  <2>6. Moves(s) /\ slot'[s] \in {y, slot[s]}
    BY <1>1, <2>2, <2>5, ExecutedMoves
  <2>7. QED
    BY <1>4, <2>1, <2>4, <2>6 DEF BulkTurn
<1>5. QED
  BY <1>3, <1>4

\* A chunk is settled: others of its group are still running, the next group starts,
\* or the request ends.
ChunkTurn(s, i, failed) ==
  /\ i \in Chunks(s) \ slot[s].sel
  /\ \/ /\ slot'[s].pc = "deletePaths" /\ slot'[s].request = slot[s].request
        /\ slot'[s].at = slot[s].at
        /\ slot'[s].sel = slot[s].sel \cup {i}
        /\ slot[s].failed \/ failed => slot'[s].failed
     \/ /\ slot[s].failed \/ failed
        /\ Ends(s) /\ slot'[s].answer # "ok"
     \/ /\ Chunks(s) \subseteq slot[s].sel \cup {i} /\ ~slot[s].failed /\ ~failed
        /\ slot[s].at + Parallel > Len(slot[s].request.paths)
        /\ Ends(s)
     \/ /\ Chunks(s) \subseteq slot[s].sel \cup {i} /\ ~slot[s].failed /\ ~failed
        /\ slot'[s].pc = "deletePaths" /\ slot'[s].request = slot[s].request
        /\ slot'[s].at = slot[s].at + Parallel /\ slot'[s].sel = {}

LEMMA ChunksOfPaths ==
  ASSUME Shape, NEW s \in Slots, slot[s].pc = "deletePaths"
  PROVE  /\ Chunks(s) \subseteq DOMAIN slot[s].request.paths
         /\ Len(slot[s].request.paths) \in Nat
         /\ DOMAIN slot[s].request.paths = 1 .. Len(slot[s].request.paths)
         /\ \A i \in DOMAIN slot[s].request.paths :
              i < slot[s].at + Parallel => i < slot[s].at \/ i \in Chunks(s)
         /\ slot[s].at \in Nat \ {0}
<1>1. /\ Len(slot[s].request.paths) \in Nat
      /\ DOMAIN slot[s].request.paths = 1 .. Len(slot[s].request.paths)
  BY MenuTypes DEF Shape, Good, Open
<1>2. slot[s].at \in Nat \ {0} /\ Parallel \in Nat \ {0}
  BY Constant DEF Shape, Good, SlotType
<1>3. slot[s].at + Parallel - 1 \in Nat
  BY <1>2
<1>4. /\ Min({slot[s].at + Parallel - 1, Len(slot[s].request.paths)})
           \in {slot[s].at + Parallel - 1, Len(slot[s].request.paths)}
      /\ Min({slot[s].at + Parallel - 1, Len(slot[s].request.paths)})
           <= Len(slot[s].request.paths)
  BY <1>1, <1>3, MinOfTwo
<1> DEFINE m == Min({slot[s].at + Parallel - 1, Len(slot[s].request.paths)})
<1>5. Chunks(s) = slot[s].at .. m
  BY DEF Chunks
<1> HIDE DEF m
<1>6. m \in {slot[s].at + Parallel - 1, Len(slot[s].request.paths)}
      /\ m <= Len(slot[s].request.paths)
  BY <1>4 DEF m
<1>7. QED
  BY <1>1, <1>2, <1>5, <1>6

LEMMA ChunkMoves ==
  ASSUME Shape, NEW s \in Slots, slot[s].pc = "deletePaths", NEW i \in Chunks(s) \ slot[s].sel,
         NEW failed \in BOOLEAN, slot' = [slot EXCEPT ![s] = NextChunks(s, i, failed)]
  PROVE  Moves(s) /\ ChunkTurn(s, i, failed)
<1> DEFINE next == [slot[s] EXCEPT !.sel = @ \cup {i}, !.failed = @ \/ failed]
           last == slot[s].at + Parallel > Len(slot[s].request.paths)
<1>0. Good(slot[s]) /\ slot[s].request.op = "deletePaths"
  BY DEF Shape, Good, Stage
<1>1. Chunks(s) \subseteq DOMAIN slot[s].request.paths /\ slot[s].at \in Nat \ {0}
      /\ DOMAIN slot[s].request.paths = 1 .. Len(slot[s].request.paths)
  BY ChunksOfPaths
<1>2. NextChunks(s, i, failed) =
        IF ~(Chunks(s) \subseteq next.sel) THEN next
        ELSE IF next.failed THEN Done(s, "500")
        ELSE IF last THEN Done(s, "ok")
        ELSE [At(s, "deletePaths") EXCEPT !.at = @ + Parallel]
  BY DEF NextChunks
<1> HIDE DEF last
<1>3. next.sel = slot[s].sel \cup {i} /\ next.failed = (slot[s].failed \/ failed)
  BY <1>0 DEF Good, SlotType
<1>4. /\ next \in SlotType /\ next.pc = "deletePaths" /\ next.request = slot[s].request
      /\ next.at = slot[s].at /\ next.said = slot[s].said /\ next.answer = slot[s].answer
  <2>1. i \in Nat
    BY <1>1
  <2>2. slot[s].sel \cup {i} \in SUBSET SelType
    BY <1>0, <2>1 DEF Good, SlotType, SelType
  <2>3. (slot[s].failed \/ failed) \in BOOLEAN
    OBVIOUS
  <2>4. QED
    BY <1>0, <2>2, <2>3 DEF Good, SlotType
<1> HIDE DEF next
<1>5. CASE ~(Chunks(s) \subseteq next.sel)
  <2>1. slot' = [slot EXCEPT ![s] = next]
    BY <1>2, <1>5
  <2>2. Good(next)
    BY <1>0, <1>1, <1>3, <1>4 DEF Good, Open, Stage, Sweeping
  <2>3. Moves(s) /\ slot'[s] = next
    BY <2>1, <2>2, Assigned
  <2>4. QED
    BY <1>3, <1>4, <2>3 DEF ChunkTurn
<1>6. CASE Chunks(s) \subseteq next.sel /\ next.failed
  <2>1. slot' = [slot EXCEPT ![s] = Done(s, "500")]
    BY <1>2, <1>6
  <2>2. Moves(s) /\ Ends(s) /\ slot'[s].answer \in {"500", "503"}
    BY <2>1, DoneMoves DEF Answers
  <2>3. QED
    BY <1>3, <1>6, <2>2 DEF ChunkTurn
<1>7. CASE Chunks(s) \subseteq next.sel /\ ~next.failed /\ last
  <2>1. slot' = [slot EXCEPT ![s] = Done(s, "ok")]
    BY <1>2, <1>7
  <2>2. Moves(s) /\ Ends(s)
    BY <2>1, DoneMoves DEF Answers
  <2>3. QED
    BY <1>3, <1>7, <2>2 DEF ChunkTurn, last
<1>8. CASE Chunks(s) \subseteq next.sel /\ ~next.failed /\ ~last
  <2> DEFINE x == At(s, "deletePaths")
             y == [x EXCEPT !.at = @ + Parallel]
  <2>1. slot' = [slot EXCEPT ![s] = y]
    BY <1>2, <1>8
  <2>2. /\ Good(x) /\ x.pc = "deletePaths" /\ x.request = slot[s].request /\ x.at = slot[s].at
        /\ x.sel = {}
    BY <1>0, AtGood DEF Working, Sweeping
  <2> HIDE DEF x
  <2>3. x \in SlotType /\ x.at + Parallel \in Nat \ {0}
    BY <1>1, <2>2, Constant DEF Good
  <2>4. /\ y \in SlotType /\ y.pc = "deletePaths" /\ y.request = x.request
        /\ y.at = x.at + Parallel /\ y.said = x.said /\ y.answer = x.answer /\ y.sel = {}
    BY <2>2, <2>3 DEF SlotType
  <2> HIDE DEF y
  <2>5. Good(y)
    BY <2>2, <2>4, <1>0 DEF Good, Open, Stage, Sweeping
  <2>6. Moves(s) /\ slot'[s] = y
    BY <2>1, <2>5, Assigned
  <2>7. QED
    BY <1>3, <1>8, <2>2, <2>4, <2>6 DEF ChunkTurn
<1>9. QED
  BY <1>5, <1>6, <1>7, <1>8

LEMMA PicksNone ==
  ASSUME {} \in Picks(Stored, SweepLimit)  PROVE Stored = {}
<1>1. IsFiniteSet(Stored)
  <2>1. Stored \subseteq Ids
    BY DEF Stored
  <2>2. QED
    BY <2>1, Constant, FS_Subset
<1>2. Cardinality(Stored) \in Nat /\ SweepLimit \in Nat \ {0}
  BY <1>1, Constant, FS_CardinalityType
<1>3. Min({SweepLimit, Cardinality(Stored)}) \in {SweepLimit, Cardinality(Stored)}
  BY <1>2, MinOfTwo
<1>4. Cardinality({}) = Min({SweepLimit, Cardinality(Stored)})
  BY DEF Picks
<1>5. Cardinality(Stored) = 0
  BY <1>2, <1>3, <1>4, FS_EmptySet
<1>6. QED
  BY <1>1, <1>5, FS_EmptySet

\* The lookup rows are gone: a drop goes on with the collection, a clear is done.
AfterTurn(s) == \/ slot[s].request.op = "drop" /\ Goes(s, "dropMeta")
                \/ slot[s].request.op # "drop" /\ Ends(s)

LEMMA AfterGood ==
  ASSUME Shape, NEW s \in Slots, slot[s].pc \in Sweeping
  PROVE  /\ Good(AfterSweep(s))
         /\ slot'[s] = AfterSweep(s) => AfterTurn(s)
<1>1. Good(slot[s]) /\ slot[s].pc # "idle" /\ slot[s].request.op \in {"drop", "clear"}
  BY DEF Shape, Good, Stage, Sweeping
<1>2. CASE slot[s].request.op = "drop"
  <2> DEFINE x == At(s, "dropMeta")
  <2>1. /\ Good(x) /\ x.pc = "dropMeta" /\ x.request = slot[s].request /\ x.at = slot[s].at
        /\ x.failed = slot[s].failed
    BY <1>1, <1>2, AtGood DEF Working, Sweeping
  <2>2. AfterSweep(s) = x
    BY <1>2 DEF AfterSweep
  <2> HIDE DEF x
  <2>3. QED
    BY <1>2, <2>1, <2>2 DEF AfterTurn, Goes
<1>3. CASE slot[s].request.op # "drop"
  <2>1. AfterSweep(s) = Done(s, "ok")
    BY <1>3 DEF AfterSweep
  <2>2. /\ Good(Done(s, "ok")) /\ Done(s, "ok").pc = "idle"
        /\ Done(s, "ok").request = slot[s].request
    BY <1>1, DoneGood DEF Answers
  <2>3. QED
    BY <1>3, <2>1, <2>2 DEF AfterTurn, Ends
<1>4. QED
  BY <1>2, <1>3

LEMMA SweepAt ==
  ASSUME Shape, NEW s \in Slots, slot[s].pc \in Sweeping,
         NEW pc \in {"points", "pick", "lookup", "pickRows"}
  PROVE  LET x == At(s, pc)
         IN Good(x) /\ x.pc = pc /\ x.request = slot[s].request /\ x.at = slot[s].at
            /\ x.failed = slot[s].failed
<1>1. Good(slot[s]) /\ slot[s].pc # "idle" /\ slot[s].request.op \in {"drop", "clear"}
  BY DEF Shape, Good, Stage, Sweeping
<1>2. QED
  BY <1>1, AtGood DEF Working, Sweeping

LEMMA SelectMoves ==
  ASSUME Shape, NEW s \in Slots, Select(s)
  PROVE  /\ Moves(s) /\ slot[s].pc \in Sweeping
         /\ \/ Goes(s, "lookup") /\ Stored = {}
            \/ Goes(s, "cut")
            \/ slot[s].pc \in {"lookup", "pickRows"} /\ (AfterTurn(s) \/ Goes(s, "cutRows"))
<1>1. /\ slot[s].pc \in {"points", "pick", "lookup", "pickRows"} /\ slot[s].pc \in Sweeping
      /\ Good(slot[s]) /\ slot[s].request.op \in {"drop", "clear"}
  BY DEF Select, Sweeping, Shape, Good, Stage
<1>2. ASSUME {} \in Picks(Stored, SweepLimit), slot' = [slot EXCEPT ![s] = At(s, "lookup")]
      PROVE  Moves(s) /\ Goes(s, "lookup") /\ Stored = {}
  <2> DEFINE x == At(s, "lookup")
  <2>1. /\ Good(x) /\ x.pc = "lookup" /\ x.request = slot[s].request /\ x.at = slot[s].at
        /\ x.failed = slot[s].failed
    BY <1>1, SweepAt
  <2> HIDE DEF x
  <2>2. Moves(s) /\ slot'[s] = x
    BY <1>2, <2>1, Assigned DEF x
  <2>3. QED
    BY <1>2, <2>1, <2>2, PicksNone DEF Goes
<1>3. ASSUME NEW pc \in {"cut", "cutRows"}, NEW part,
             pc = "cut" => part \subseteq Ids, pc = "cutRows" => part \subseteq Folders \X Ids,
             slot' = [slot EXCEPT ![s] = [At(s, pc) EXCEPT !.sel = part]]
      PROVE  Moves(s) /\ Goes(s, pc)
  <2> DEFINE x == At(s, pc)
             y == [x EXCEPT !.sel = part]
  <2>1. /\ x \in SlotType /\ x.pc = pc /\ x.request = slot[s].request /\ x.at = slot[s].at
        /\ x.failed = slot[s].failed /\ x.said = slot[s].said /\ x.answer = slot[s].answer
    BY <1>1 DEF Good, SlotType, At, Working, Sweeping
  <2>2. part \in SUBSET SelType
    BY <1>3 DEF SelType
  <2> HIDE DEF x
  <2>3. /\ y \in SlotType /\ y.pc = pc /\ y.request = slot[s].request /\ y.at = slot[s].at
        /\ y.failed = slot[s].failed /\ y.said = slot[s].said /\ y.answer = slot[s].answer
        /\ y.sel = part
    BY <2>1, <2>2 DEF SlotType
  <2>4. slot' = [slot EXCEPT ![s] = y]
    BY <1>3 DEF x
  <2> HIDE DEF y
  <2>5. Open(y)
    BY <1>1, <2>3 DEF Good, Open, Sweeping
  <2>6. Stage(y)
    BY <1>1, <1>3, <2>3 DEF Stage, Sweeping
  <2>7. Moves(s) /\ slot'[s] = y
    BY <2>3, <2>4, <2>5, <2>6, Assigned DEF Good
  <2>8. QED
    BY <2>3, <2>7 DEF Goes
<1>4. CASE slot[s].pc \in {"points", "pick"}
  <2>1. PICK ids \in Picks(Stored, SweepLimit) :
          slot' = [slot EXCEPT ![s] =
            IF ids = {} THEN At(s, "lookup") ELSE [At(s, "cut") EXCEPT !.sel = ids]]
    BY <1>4 DEF Select
  <2>2. ids \subseteq Ids
    BY DEF Picks, Stored
  <2>3. CASE ids = {}
    BY <1>1, <1>2, <2>1, <2>3
  <2>4. CASE ids # {}
    BY <1>1, <1>3, <2>1, <2>2, <2>4
  <2>5. QED
    BY <2>3, <2>4
<1>5. CASE slot[s].pc \in {"lookup", "pickRows"}
  <2>1. PICK part \in Picks(lookup, SweepLimit) :
          slot' = [slot EXCEPT ![s] =
            IF part = {} THEN AfterSweep(s) ELSE [At(s, "cutRows") EXCEPT !.sel = part]]
    BY <1>5 DEF Select
  <2>2. part \subseteq Folders \X Ids
    BY DEF Picks, Shape
  <2>3. CASE part = {}
    <3>1. slot' = [slot EXCEPT ![s] = AfterSweep(s)]
      BY <2>1, <2>3
    <3>2. Moves(s) /\ slot'[s] = AfterSweep(s)
      BY <1>1, <3>1, AfterGood, Assigned
    <3>3. QED
      BY <1>1, <1>5, <3>2, AfterGood
  <2>4. CASE part # {}
    <3>1. slot' = [slot EXCEPT ![s] = [At(s, "cutRows") EXCEPT !.sel = part]]
      BY <2>1, <2>4
    <3>2. Moves(s) /\ Goes(s, "cutRows")
      BY <1>3, <2>2, <3>1
    <3>3. QED
      BY <1>1, <1>5, <3>2
  <2>5. QED
    BY <2>3, <2>4
<1>6. QED
  BY <1>1, <1>4, <1>5

\* The points are swept, all or those selected.
LEMMA SweepPointsMoves ==
  ASSUME Shape, NEW s \in Slots, BatchDelete(s) \/ Cut(s), slot[s].pc \in {"points", "cut"}
  PROVE  /\ Moves(s) /\ slot[s].pc \in Sweeping
         /\ \E ids \in SUBSET Ids :
              /\ points' = Removed(ids) /\ Noted(s, ids \cap Stored, {})
              /\ UNCHANGED <<meta, lookup, requests, was, raced, clash>>
              /\ \/ slot'[s] = slot[s]
                 \/ Goes(s, "lookup") /\ ids = Stored
                 \/ Goes(s, "pick")
<1>1. slot[s].pc \in Sweeping /\ Good(slot[s])
  BY DEF Sweeping, Shape
<1>2. ASSUME NEW ids \in SUBSET Ids, NEW pc \in {"lookup", "pick"},
             SweepPoints(s, ids, At(s, pc)), pc = "lookup" => ids = Stored
      PROVE  /\ Moves(s)
             /\ points' = Removed(ids) /\ Noted(s, ids \cap Stored, {})
             /\ UNCHANGED <<meta, lookup, requests, was, raced, clash>>
             /\ \/ slot'[s] = slot[s]
                \/ Goes(s, "lookup") /\ ids = Stored
                \/ Goes(s, "pick")
  <2> DEFINE x == At(s, pc)
  <2>1. /\ Good(x) /\ x.pc = pc /\ x.request = slot[s].request /\ x.at = slot[s].at
        /\ x.failed = slot[s].failed
    BY <1>1, SweepAt
  <2> HIDE DEF x
  <2>2. Moves(s) /\ slot'[s] \in {x, slot[s]}
    BY <1>2, <2>1, ExecutedMoves DEF SweepPoints, x
  <2>3. slot'[s] = slot[s] \/ Goes(s, pc)
    BY <2>1, <2>2 DEF Goes
  <2>4. QED
    BY <1>2, <2>2, <2>3 DEF SweepPoints
<1>3. CASE slot[s].pc = "points"
  <2>1. SweepPoints(s, Stored, At(s, "lookup")) /\ Stored \in SUBSET Ids
    BY <1>3 DEF BatchDelete, Cut, Stored
  <2>2. QED
    BY <1>1, <1>2, <2>1
<1>4. CASE slot[s].pc = "cut"
  <2>1. SweepPoints(s, slot[s].sel, At(s, "pick")) /\ slot[s].sel \in SUBSET Ids
    BY <1>1, <1>4 DEF BatchDelete, Cut, Good, Stage
  <2>2. QED
    BY <1>1, <1>2, <2>1
<1>5. QED
  BY <1>3, <1>4

\* The lookup rows are swept, all or those selected.
LEMMA SweepRowsMoves ==
  ASSUME Shape, NEW s \in Slots, BatchDelete(s) \/ Cut(s), slot[s].pc \notin {"points", "cut"}
  PROVE  /\ Moves(s) /\ slot[s].pc \in {"lookup", "cutRows"} /\ slot[s].pc \in Sweeping
         /\ \E part \in SUBSET (Folders \X Ids) :
              /\ lookup' = lookup \ part /\ Raced(s, IdsOf(part))
              /\ UNCHANGED <<meta, points, requests, was, clash, due>>
         /\ slot'[s] = slot[s] \/ AfterTurn(s) \/ Goes(s, "pickRows")
<1>1. slot[s].pc \in {"lookup", "cutRows"} /\ slot[s].pc \in Sweeping /\ Good(slot[s])
  BY DEF Sweeping, Shape, BatchDelete, Cut
<1>2. CASE slot[s].pc = "lookup"
  <2>1. SweepRows(s, lookup, AfterSweep(s)) /\ lookup \in SUBSET (Folders \X Ids)
    BY <1>2 DEF BatchDelete, Cut, Shape
  <2>2. Moves(s) /\ slot'[s] \in {AfterSweep(s), slot[s]}
    BY <1>1, <2>1, AfterGood, ExecutedMoves DEF SweepRows
  <2>3. slot'[s] = slot[s] \/ AfterTurn(s)
    BY <1>1, <2>2, AfterGood
  <2>4. QED
    BY <1>1, <2>1, <2>2, <2>3 DEF SweepRows
<1>3. CASE slot[s].pc = "cutRows"
  <2>1. /\ SweepRows(s, slot[s].sel, At(s, "pickRows"))
        /\ slot[s].sel \in SUBSET (Folders \X Ids)
    BY <1>1, <1>3 DEF BatchDelete, Cut, Good, Stage
  <2> DEFINE x == At(s, "pickRows")
  <2>2. /\ Good(x) /\ x.pc = "pickRows" /\ x.request = slot[s].request /\ x.at = slot[s].at
        /\ x.failed = slot[s].failed
    BY <1>1, SweepAt
  <2> HIDE DEF x
  <2>3. Moves(s) /\ slot'[s] \in {x, slot[s]}
    BY <2>1, <2>2, ExecutedMoves DEF SweepRows, x
  <2>4. slot'[s] = slot[s] \/ Goes(s, "pickRows")
    BY <2>2, <2>3 DEF Goes
  <2>5. QED
    BY <1>1, <2>1, <2>3, <2>4 DEF SweepRows
<1>4. QED
  BY <1>1, <1>2, <1>3

LEMMA SearchMoves ==
  ASSUME Shape, NEW s \in Slots, Search(s)
  PROVE  Moves(s) /\ Ends(s) /\ slot[s].pc = "read" /\ slot[s].request.op = "search"
<1>1. PICK hits \in SUBSET Ids : slot' = [slot EXCEPT ![s] = [Done(s, "ok") EXCEPT !.sel = hits]]
  BY DEF Search, Stored, Under
<1>2. Good(slot[s]) /\ slot[s].pc = "read" /\ slot[s].request.op = "search"
  BY DEF Shape, Search, Good, Stage
<1> DEFINE x == Done(s, "ok")
           y == [x EXCEPT !.sel = hits]
<1>3. Good(x) /\ x.pc = "idle" /\ x.request = slot[s].request
  BY <1>2, DoneGood DEF Answers
<1> HIDE DEF x
<1>4. /\ y \in SlotType /\ y.pc = "idle" /\ y.request = slot[s].request
      /\ y.said = x.said /\ y.answer = x.answer
  BY <1>3 DEF Good, SlotType, SelType
<1>5. slot' = [slot EXCEPT ![s] = y]
  BY <1>1 DEF x
<1> HIDE DEF y
<1>6. Good(y)
  BY <1>3, <1>4 DEF Good, Open, Stage, Sweeping
<1>7. Moves(s) /\ slot'[s] = y
  BY <1>5, <1>6, Assigned
<1>8. QED
  BY <1>2, <1>4, <1>7 DEF Ends

LEMMA FailMoves ==
  ASSUME Shape, NEW s \in Slots, Fail(s)
  PROVE  Moves(s) /\ Ends(s) /\ slot'[s].answer # "ok" /\ slot[s].pc # "idle"
<1>1. slot[s].pc # "idle" /\ slot' = [slot EXCEPT ![s] = Done(s, "500")]
  BY DEF Fail, Working, Sweeping
<1>2. QED
  BY <1>1, DoneMoves DEF Answers

LEMMA RerunMoves ==
  ASSUME Shape, NEW s \in Slots, Rerun(s)
  PROVE  /\ Moves(s) /\ slot'[s].request = slot[s].request
         /\ \/ Uploading(s) /\ slot'[s].pc = "sync" /\ slot'[s].at = 1
            \/ slot[s].pc \in Sweeping /\ slot'[s].pc = "points"
<1>0. Good(slot[s])
  BY DEF Shape
<1>1. CASE IsSweeping(s) /\ slot' = [slot EXCEPT ![s] = FirstOf(s)]
  <2>1. slot[s].pc \in Sweeping /\ slot' = [slot EXCEPT ![s] = At(s, "points")]
    BY <1>1 DEF IsSweeping, FirstOf
  <2> DEFINE x == At(s, "points")
  <2>2. /\ Good(x) /\ x.pc = "points" /\ x.request = slot[s].request
    BY <2>1, SweepAt
  <2> HIDE DEF x
  <2>3. Moves(s) /\ slot'[s] = x
    BY <2>1, <2>2, Assigned DEF x
  <2>4. QED
    BY <2>1, <2>2, <2>3
<1>2. CASE Uploading(s) /\ slot' = [slot EXCEPT ![s] = [At(s, "sync") EXCEPT !.at = 1]]
  <2> DEFINE x == At(s, "sync")
             y == [x EXCEPT !.at = 1]
  <2>0. slot[s].pc \in {"sync", "bulk"}
    BY <1>2 DEF Uploading
  <2>1. /\ slot[s].request.op = "upsert" /\ slot[s].at \in DOMAIN slot[s].request.points
        /\ slot[s].request \in Menu /\ 1 \in DOMAIN slot[s].request.points
    BY <1>0, <2>0, MenuTypes DEF Good, Stage, Open
  <2>2. Good(x) /\ x.pc = "sync" /\ x.request = slot[s].request
    BY <1>0, <2>0, <2>1, AtGood DEF Working, Sweeping
  <2> HIDE DEF x
  <2>3. /\ y \in SlotType /\ y.pc = "sync" /\ y.request = slot[s].request /\ y.at = 1
        /\ y.said = x.said /\ y.answer = x.answer
    BY <2>2 DEF Good, SlotType
  <2>4. slot' = [slot EXCEPT ![s] = y]
    BY <1>2 DEF x
  <2> HIDE DEF y
  <2>5. Good(y)
    BY <2>1, <2>2, <2>3 DEF Good, Open, Stage, Sweeping
  <2>6. Moves(s) /\ slot'[s] = y
    BY <2>4, <2>5, Assigned
  <2>7. QED
    BY <1>2, <2>3, <2>6
<1>3. QED
  BY <1>1, <1>2 DEF Rerun

LEMMA CrashMoves ==
  ASSUME Shape, Crash
  PROVE  /\ slot' \in [Slots -> SlotType]
         /\ \A s \in Slots :
              /\ Good(slot'[s])
              /\ \/ slot'[s] = slot[s] /\ slot[s].pc = "idle"
                 \/ Ends(s) /\ slot'[s].answer # "ok" /\ slot[s].pc # "idle"
<1>1. ASSUME NEW s \in Slots
      PROVE  /\ Good(slot'[s]) /\ slot'[s] \in SlotType
             /\ \/ slot'[s] = slot[s] /\ slot[s].pc = "idle"
                \/ Ends(s) /\ slot'[s].answer # "ok" /\ slot[s].pc # "idle"
  <2>1. Good(slot[s]) /\ slot'[s] = IF slot[s].pc = "idle" THEN slot[s] ELSE Done(s, "cut")
    BY DEF Shape, Crash
  <2>2. CASE slot[s].pc = "idle"
    BY <2>1, <2>2 DEF Good
  <2>3. CASE slot[s].pc # "idle"
    BY <2>1, <2>3, DoneGood DEF Answers, Ends, Good
  <2>4. QED
    BY <2>2, <2>3
<1>2. slot' \in [Slots -> SlotType]
  BY <1>1 DEF Crash
<1>3. QED
  BY <1>1, <1>2

-----------------------------------------------------------------------------
(* The shape is kept.                                                      *)

LEMMA ImageFinite ==
  ASSUME NEW S, IsFiniteSet(S), NEW f, DOMAIN f = S
  PROVE  IsFiniteSet({f[x] : x \in S})
<1> DEFINE T == {f[x] : x \in S}
           g == [x \in S |-> f[x]]
<1>1. g \in Surjection(S, T)
  BY DEF Surjection
<1>2. QED
  BY <1>1, FS_Surjection

LEMMA CardinalityOfTwo ==
  ASSUME NEW a, NEW b, a # b  PROVE Cardinality({a, b}) = 2
<1>1. {a, b} = {a} \cup {b} /\ b \notin {a}
  OBVIOUS
<1>2. IsFiniteSet({a}) /\ Cardinality({a}) = 1
  BY FS_Singleton
<1>3. Cardinality({a} \cup {b}) = Cardinality({a}) + 1
  BY <1>1, <1>2, FS_AddElement
<1>4. QED
  BY <1>1, <1>2, <1>3

LEMMA BatchTypes ==
  ASSUME Shape, NEW s \in Slots, Uploading(s)
  PROVE  /\ \A p \in InBatch(s) : p.id \in Ids /\ p.path \in Paths
         /\ \A p \in InBatch(s) : \E i \in DOMAIN slot[s].request.points :
              /\ p = slot[s].request.points[i] /\ i >= slot[s].at /\ i < slot[s].at + Batch
         /\ \A i \in DOMAIN slot[s].request.points :
              i >= slot[s].at /\ i < slot[s].at + Batch => slot[s].request.points[i] \in InBatch(s)
         /\ slot[s].request \in Menu /\ slot[s].request.dim \in Dims
         /\ IsFiniteSet(InBatch(s))
<1> DEFINE r == slot[s].request
           at == slot[s].at
           m == Min({at + Batch - 1, Len(r.points)})
<1>1. /\ r \in Menu /\ at \in Nat \ {0} /\ Batch \in Nat \ {0}
  BY Constant DEF Uploading, Shape, Good, Open, SlotType
<1>2. /\ Len(r.points) \in Nat /\ DOMAIN r.points = 1 .. Len(r.points) /\ r.dim \in Dims
      /\ \A i \in DOMAIN r.points : r.points[i].id \in Ids /\ r.points[i].path \in Paths
  BY <1>1, MenuTypes
<1>3. at + Batch - 1 \in Nat
  BY <1>1
<1>4. m \in {at + Batch - 1, Len(r.points)} /\ m <= at + Batch - 1 /\ m <= Len(r.points)
  BY <1>2, <1>3, MinOfTwo
<1>5. InBatch(s) = {r.points[i] : i \in at .. m}
  BY DEF InBatch
<1> HIDE DEF m
<1>6. at .. m \subseteq DOMAIN r.points /\ m \in Int
  BY <1>1, <1>2, <1>3, <1>4
<1>7. IsFiniteSet(at .. m)
  BY <1>1, <1>6, FS_Interval
<1>8. IsFiniteSet(InBatch(s))
  <2> DEFINE f == [i \in at .. m |-> r.points[i]]
  <2>1. IsFiniteSet({f[i] : i \in at .. m})
    BY <1>7, ImageFinite
  <2>2. {f[i] : i \in at .. m} = InBatch(s)
    BY <1>5
  <2>3. QED
    BY <2>1, <2>2
<1>9. \A p \in InBatch(s) : \E i \in DOMAIN r.points : p = r.points[i] /\ i >= at /\ i < at + Batch
  BY <1>1, <1>3, <1>4, <1>5, <1>6
<1>10. \A i \in DOMAIN r.points : i >= at /\ i < at + Batch => r.points[i] \in InBatch(s)
  BY <1>1, <1>2, <1>3, <1>4, <1>5
<1>11. QED
  BY <1>1, <1>2, <1>8, <1>9, <1>10

\* A chunk finds no row and is settled, or some of its rows go with their points.
LEMMA DeleteChunkMoves ==
  ASSUME Shape, NEW s \in Slots, DeleteChunk(s)
  PROVE  /\ Moves(s) /\ slot[s].pc = "deletePaths" /\ slot[s].request.op = "deletePaths"
         /\ UNCHANGED <<meta, was, clash>>
         /\ \E i \in Chunks(s) \ slot[s].sel :
              \/ /\ Listed(slot[s].request.paths[i]) = {}
                 /\ UNCHANGED <<points, lookup, raced, due>> /\ ChunkTurn(s, i, FALSE)
              \/ /\ slot'[s] = slot[s]
                 /\ \E part \in SUBSET (Folders \X Ids) :
                      /\ part \subseteq Listed(slot[s].request.paths[i])
                      /\ points' = Removed(IdsOf(part)) /\ lookup' = lookup \ part
                      /\ Raced(s, IdsOf(part)) /\ Noted(s, IdsOf(part) \cap Stored, {})
<1>0. slot[s].pc = "deletePaths" /\ slot[s].request.op = "deletePaths" /\ Good(slot[s])
  BY DEF DeleteChunk, Shape, Good, Stage
<1>1. PICK i \in Chunks(s) \ slot[s].sel :
        LET found == Listed(slot[s].request.paths[i])
        IN \/ /\ found = {}
              /\ slot' = [slot EXCEPT ![s] = NextChunks(s, i, FALSE)]
              /\ UNCHANGED <<store, raced, due>>
           \/ /\ found # {}
              /\ \E part \in Picks(found, Limit) :
                   /\ points' = Removed(IdsOf(part))
                   /\ lookup' = lookup \ part
                   /\ Raced(s, IdsOf(part)) /\ Noted(s, IdsOf(part) \cap Stored, {})
              /\ UNCHANGED <<meta, slot>>
  BY DEF DeleteChunk
<1>2. CASE /\ Listed(slot[s].request.paths[i]) = {}
           /\ slot' = [slot EXCEPT ![s] = NextChunks(s, i, FALSE)]
           /\ UNCHANGED <<store, raced, due>>
  BY <1>0, <1>2, ChunkMoves DEF DeleteChunk, store
<1>3. CASE /\ \E part \in Picks(Listed(slot[s].request.paths[i]), Limit) :
                /\ points' = Removed(IdsOf(part))
                /\ lookup' = lookup \ part
                /\ Raced(s, IdsOf(part)) /\ Noted(s, IdsOf(part) \cap Stored, {})
           /\ UNCHANGED <<meta, slot>>
  <2>1. PICK part \in Picks(Listed(slot[s].request.paths[i]), Limit) :
          /\ points' = Removed(IdsOf(part)) /\ lookup' = lookup \ part
          /\ Raced(s, IdsOf(part)) /\ Noted(s, IdsOf(part) \cap Stored, {})
    BY <1>3
  <2>2. part \subseteq Listed(slot[s].request.paths[i]) /\ part \in SUBSET (Folders \X Ids)
    BY DEF Picks, Listed, Shape
  <2>3. Moves(s) /\ slot'[s] = slot[s]
    BY <1>3 DEF Shape, Moves
  <2>4. QED
    BY <1>0, <1>3, <2>1, <2>2, <2>3 DEF DeleteChunk
<1>4. QED
  BY <1>1, <1>2, <1>3

LEMMA ChunkFailsMoves ==
  ASSUME Shape, NEW s \in Slots, ChunkFails(s)
  PROVE  /\ Moves(s) /\ slot[s].pc = "deletePaths" /\ UNCHANGED <<store, history>>
         /\ \E i \in Chunks(s) \ slot[s].sel : ChunkTurn(s, i, TRUE)
<1>1. PICK i \in Chunks(s) \ slot[s].sel : slot' = [slot EXCEPT ![s] = NextChunks(s, i, TRUE)]
  BY DEF ChunkFails
<1>2. QED
  BY <1>1, ChunkMoves DEF ChunkFails

LEMMA RemovedTypes ==
  ASSUME Shape, NEW ids, points' = Removed(ids)
  PROVE  /\ points' \in [Ids -> PointType \cup {None}]
         /\ (Stored)' = Stored \ ids
         /\ \A id \in (Stored)' : points'[id] = points[id]
  BY DEF Removed, Shape, Stored

LEMMA NotedTypes ==
  ASSUME Shape, NEW s \in Slots, NEW gone, NEW new, Noted(s, gone, new)
  PROVE  due' \in [Slots -> SUBSET Ids]
  BY DEF Noted, Shape

LEMMA RacedTypes ==
  ASSUME Shape, NEW s \in Slots, NEW ids \in SUBSET Ids, Raced(s, ids)
  PROVE  raced' \subseteq Ids /\ raced \subseteq raced' /\ raced' \subseteq raced \cup ids
  BY DEF Raced, Shape

RestShape ==
  /\ meta \in Dims \cup {None}
  /\ points \in [Ids -> PointType \cup {None}]
  /\ lookup \subseteq Folders \X Ids
  /\ was \in [Ids -> SUBSET Paths]
  /\ raced \subseteq Ids /\ clash \in BOOLEAN
  /\ due \in [Slots -> SUBSET Ids]

LEMMA LookupRowsTypes ==
  ASSUME NEW batch, \A p \in batch : p.id \in Ids /\ p.path \in Paths
  PROVE  LookupRows(batch) \subseteq Folders \X Ids
<1> SUFFICES ASSUME NEW p \in batch, NEW row \in Ancestors(p.path) \X {p.id}
             PROVE  row \in Folders \X Ids
  BY DEF LookupRows
<1>1. Ancestors(p.path) \subseteq Folders
  BY DEF Folders
<1>2. QED
  BY <1>1

\* The points as a batch leaves them.
LEMMA BulkPoints ==
  ASSUME Shape, NEW s \in Slots, Bulk(s)
  PROVE  LET new == {p.id : p \in InBatch(s)}
         IN /\ points' \in [Ids -> PointType \cup {None}]
            /\ \A id \in Ids \ new : points'[id] = points[id]
            /\ \A id \in new : \E p \in InBatch(s) :
                 p.id = id /\ points'[id] = [path |-> p.path, dim |-> slot[s].request.dim]
            /\ (Stored)' = Stored \cup new /\ new \subseteq Ids
<1> DEFINE new == {p.id : p \in InBatch(s)}
           pathOf(id) == (CHOOSE p \in InBatch(s) : p.id = id).path
<1>1. /\ \A p \in InBatch(s) : p.id \in Ids /\ p.path \in Paths
      /\ slot[s].request.dim \in Dims
  BY BatchTypes DEF Bulk, Uploading
<1>2. points' = [id \in Ids |->
        IF id \in new THEN [path |-> pathOf(id), dim |-> slot[s].request.dim] ELSE points[id]]
  BY DEF Bulk
<1>3. \A id \in new : \E p \in InBatch(s) : p.id = id /\ pathOf(id) = p.path
  OBVIOUS
<1> HIDE DEF pathOf
<1>4. \A id \in new : \E p \in InBatch(s) :
        p.id = id /\ points'[id] = [path |-> p.path, dim |-> slot[s].request.dim]
  BY <1>1, <1>2, <1>3
<1>5. \A id \in new : points'[id] \in PointType /\ points'[id] # None
  <2> SUFFICES ASSUME NEW id \in new PROVE points'[id] \in PointType /\ points'[id] # None
    OBVIOUS
  <2>1. PICK p \in InBatch(s) : points'[id] = [path |-> p.path, dim |-> slot[s].request.dim]
    BY <1>4
  <2>2. points'[id] \in PointType
    BY <1>1, <2>1 DEF PointType
  <2>3. QED
    BY <2>2, Constant DEF PointType
<1>6. \A id \in Ids \ new : points'[id] = points[id]
  BY <1>2
<1>7. new \subseteq Ids
  BY <1>1
<1> HIDE DEF new
<1>8. points' \in [Ids -> PointType \cup {None}]
  BY <1>2, <1>5, <1>6 DEF Shape
<1>9. (Stored)' = Stored \cup new
  BY <1>5, <1>6, <1>7 DEF Stored
<1>10. QED
  BY <1>4, <1>6, <1>7, <1>8, <1>9 DEF new

LEMMA GoneTypes ==
  ASSUME Shape, NEW s \in Slots, slot[s].pc # "idle"
  PROVE  Gone(s) \subseteq Ids
<1>1. slot[s].request \in Menu /\ due[s] \subseteq Ids
  BY DEF Shape, Good, Open
<1>2. Stored \subseteq Ids /\ \A p : Under(p) \subseteq Ids
  BY DEF Stored, Under
<1>3. QED
  BY <1>1, <1>2 DEF Gone

LEMMA ShapeNext == Shape /\ [Next]_vars => Shape'
<1> SUFFICES ASSUME Shape, [Next]_vars PROVE Shape'
  OBVIOUS
<1>1. ASSUME NEW s \in Slots, Moves(s), RestShape'  PROVE Shape'
  BY <1>1 DEF Moves, Shape, RestShape
<1>2. ASSUME UNCHANGED <<meta, points, lookup, was, raced, clash>>,
             due' \in [Slots -> SUBSET Ids]
      PROVE  RestShape'
  BY <1>2 DEF Shape, RestShape
<1>3. ASSUME NEW s \in Slots, Send(s)  PROVE Shape'
  <2>1. Moves(s) /\ slot'[s].request \in Menu
    BY <1>3, SendMoves
  <2>2. slot'[s].request.op = "upsert" => Uploaded(slot'[s].request) \subseteq Ids
    BY <2>1, MenuTypes DEF Uploaded
  <2>3. due' \in [Slots -> SUBSET Ids]
    BY <1>3, <2>2, SendMoves DEF Shape
  <2>4. QED
    BY <1>1, <1>2, <1>3, <2>1, <2>3 DEF Send, store
<1>4. ASSUME NEW s \in Slots, Moves(s), UNCHANGED <<store, history>>  PROVE Shape'
  <2>1. UNCHANGED <<meta, points, lookup, was, raced, clash, due>>
    BY <1>4 DEF store, history
  <2>2. due' \in [Slots -> SUBSET Ids]
    BY <2>1 DEF Shape
  <2>3. RestShape'
    BY <1>2, <2>1, <2>2
  <2>4. QED
    BY <1>1, <1>4, <2>3
<1>5. ASSUME NEW s \in Slots, TakeBody(s) \/ BadBody(s)  PROVE Shape'
  BY <1>4, <1>5, BodyMoves DEF TakeBody, BadBody
<1>6. ASSUME NEW s \in Slots, BodyTimeout(s) \/ ProcessingTimeout(s)  PROVE Shape'
  BY <1>4, <1>6, TimeoutMoves DEF BodyTimeout, ProcessingTimeout, TimeOut
<1>7. ASSUME NEW s \in Slots, ReadMeta(s)  PROVE Shape'
  <2>1. Moves(s) /\ slot[s].pc # "idle"
    BY <1>7, MetaMoves DEF ReadMeta
  <2>2. due' \in [Slots -> SUBSET Ids]
    BY <1>7, <2>1, GoneTypes DEF ReadMeta, Shape
  <2>3. QED
    BY <1>1, <1>2, <1>7, <2>1, <2>2 DEF ReadMeta, store
<1>8. ASSUME NEW s \in Slots, WriteMeta(s) \/ DropMeta(s)  PROVE Shape'
  <2>1. Moves(s)
    BY <1>8, WriteMoves
  <2>2. slot[s].request \in Menu
    BY <1>8 DEF WriteMeta, DropMeta, Shape, Good, Open
  <2>3. meta' \in Dims \cup {None}
    BY <1>8, <2>2, MenuTypes DEF WriteMeta, DropMeta
  <2>4. clash' \in BOOLEAN
    BY <1>8 DEF WriteMeta, DropMeta
  <2>5. RestShape'
    BY <1>8, <2>3, <2>4 DEF WriteMeta, DropMeta, Shape, RestShape
  <2>6. QED
    BY <1>1, <2>1, <2>5
<1>9. ASSUME NEW s \in Slots, Sync(s)  PROVE Shape'
  <2>1. Moves(s) /\ Uploading(s)
    BY <1>9, SyncMoves DEF Sync, Uploading
  <2>2. \A p \in InBatch(s) : p.id \in Ids /\ p.path \in Paths
    BY <2>1, BatchTypes
  <2>3. lookup' \subseteq Folders \X Ids
    BY <1>9, <2>2, LookupRowsTypes DEF Sync, Shape
  <2>4. was' \in [Ids -> SUBSET Paths]
    BY <1>9, <2>2 DEF Sync, Shape
  <2>5. RestShape'
    BY <1>9, <2>3, <2>4 DEF Sync, Shape, RestShape
  <2>6. QED
    BY <1>1, <2>1, <2>5
<1>10. ASSUME NEW s \in Slots, Bulk(s)  PROVE Shape'
  <2>1. Moves(s)
    BY <1>10, BulkMoves
  <2>2. points' \in [Ids -> PointType \cup {None}] /\ {p.id : p \in InBatch(s)} \subseteq Ids
    BY <1>10, BulkPoints
  <2>3. due' \in [Slots -> SUBSET Ids]
    BY <1>10, NotedTypes DEF Bulk
  <2>4. raced' \subseteq Ids
    BY <1>10, <2>2 DEF Bulk, Shape
  <2>5. clash' \in BOOLEAN
    BY <1>10 DEF Bulk
  <2>6. RestShape'
    BY <1>10, <2>2, <2>3, <2>4, <2>5 DEF Bulk, Shape, RestShape
  <2>7. QED
    BY <1>1, <2>1, <2>6
<1>11. ASSUME NEW s \in Slots, DeleteIds(s)  PROVE Shape'
  <2>1. Moves(s)
    BY <1>11, WriteMoves
  <2>2. IdsOf(RowsOf(slot[s].request.ids)) \in SUBSET Ids
    BY DEF IdsOf, RowsOf, Shape
  <2>3. raced' \subseteq Ids
    BY <1>11, <2>2, RacedTypes DEF DeleteIds
  <2>4. points' \in [Ids -> PointType \cup {None}]
    BY <1>11, RemovedTypes DEF DeleteIds
  <2>5. due' \in [Slots -> SUBSET Ids]
    BY <1>11, NotedTypes DEF DeleteIds
  <2>6. RestShape'
    BY <1>11, <2>3, <2>4, <2>5 DEF DeleteIds, Shape, RestShape
  <2>7. QED
    BY <1>1, <2>1, <2>6
<1>12. ASSUME NEW s \in Slots, DeleteChunk(s)  PROVE Shape'
  <2>1. Moves(s) /\ UNCHANGED <<meta, was, clash>>
    BY <1>12, DeleteChunkMoves
  <2>2. CASE UNCHANGED <<points, lookup, raced, due>>
    BY <1>1, <2>1, <2>2 DEF Shape, RestShape
  <2>3. ASSUME NEW part \in SUBSET (Folders \X Ids),
               points' = Removed(IdsOf(part)), lookup' = lookup \ part,
               Raced(s, IdsOf(part)), Noted(s, IdsOf(part) \cap Stored, {})
        PROVE  Shape'
    <3>1. IdsOf(part) \in SUBSET Ids
      BY DEF IdsOf
    <3>2. raced' \subseteq Ids
      BY <2>3, <3>1, RacedTypes
    <3>3. points' \in [Ids -> PointType \cup {None}]
      BY <2>3, RemovedTypes
    <3>4. due' \in [Slots -> SUBSET Ids]
      BY <2>3, NotedTypes
    <3>5. RestShape'
      BY <2>1, <2>3, <3>2, <3>3, <3>4 DEF Shape, RestShape
    <3>6. QED
      BY <1>1, <2>1, <3>5
  <2>4. QED
    BY <1>12, <2>2, <2>3, DeleteChunkMoves
<1>13. ASSUME NEW s \in Slots, ChunkFails(s)  PROVE Shape'
  BY <1>4, <1>13, ChunkFailsMoves
<1>14. ASSUME NEW s \in Slots, BatchDelete(s) \/ Cut(s)  PROVE Shape'
  <2>1. CASE slot[s].pc \in {"points", "cut"}
    <3>1. PICK ids \in SUBSET Ids :
            /\ points' = Removed(ids) /\ Noted(s, ids \cap Stored, {})
            /\ UNCHANGED <<meta, lookup, requests, was, raced, clash>>
      BY <1>14, <2>1, SweepPointsMoves
    <3>2. points' \in [Ids -> PointType \cup {None}] /\ due' \in [Slots -> SUBSET Ids]
      BY <3>1, RemovedTypes, NotedTypes
    <3>3. RestShape'
      BY <3>1, <3>2 DEF Shape, RestShape
    <3>4. QED
      BY <1>1, <1>14, <2>1, <3>3, SweepPointsMoves
  <2>2. CASE slot[s].pc \notin {"points", "cut"}
    <3>1. PICK part \in SUBSET (Folders \X Ids) :
            /\ lookup' = lookup \ part /\ Raced(s, IdsOf(part))
            /\ UNCHANGED <<meta, points, requests, was, clash, due>>
      BY <1>14, <2>2, SweepRowsMoves
    <3>2. IdsOf(part) \in SUBSET Ids
      BY DEF IdsOf
    <3>3. raced' \subseteq Ids
      BY <3>1, <3>2, RacedTypes
    <3>4. RestShape'
      BY <3>1, <3>3 DEF Shape, RestShape
    <3>5. QED
      BY <1>1, <1>14, <2>2, <3>4, SweepRowsMoves
  <2>3. QED
    BY <2>1, <2>2
<1>15. ASSUME NEW s \in Slots, Select(s)  PROVE Shape'
  BY <1>4, <1>15, SelectMoves DEF Select
<1>16. ASSUME NEW s \in Slots, Search(s)  PROVE Shape'
  BY <1>4, <1>16, SearchMoves DEF Search
<1>17. ASSUME NEW s \in Slots, Fail(s)  PROVE Shape'
  BY <1>4, <1>17, FailMoves DEF Fail
<1>18. ASSUME NEW s \in Slots, Rerun(s)  PROVE Shape'
  BY <1>4, <1>18, RerunMoves DEF Rerun
<1>19. CASE Crash
  <2>1. slot' \in [Slots -> SlotType] /\ \A s \in Slots : Good(slot'[s])
    BY <1>19, CrashMoves
  <2>2. UNCHANGED <<meta, points, lookup, was, raced, clash, due>>
    BY <1>19 DEF Crash, store, history
  <2>3. QED
    BY <2>1, <2>2 DEF Shape
<1>20. CASE UNCHANGED vars
  BY <1>20 DEF vars, store, history, Shape
<1>21. QED
  BY <1>3, <1>5, <1>6, <1>7, <1>8, <1>9, <1>10, <1>11, <1>12, <1>13, <1>14, <1>15, <1>16, <1>17,
     <1>18, <1>19, <1>20 DEF Next, Statement

-----------------------------------------------------------------------------
(* Points, their lookup rows and their collection.                         *)

Swept == {"lookup", "pickRows", "cutRows", "dropMeta"}

\* While somebody sweeps the lookup rows, every stored point was written meanwhile.
SweptInv == \A s \in Slots : slot[s].pc \in Swept => Stored \subseteq raced

\* A stored point has its rows, and a batch has them before its points are written.
ListedInv ==
  /\ \A id \in Stored \ raced : \A f \in Ancestors(points[id].path) : <<f, id>> \in lookup
  /\ \A s \in Slots : slot[s].pc = "bulk" =>
       \A p \in InBatch(s) : p.id \notin raced =>
         \A f \in Ancestors(p.path) : <<f, p.id>> \in lookup

\* was knows the path of every point and of every row.
WasInv ==
  /\ \A id \in Ids : IsFiniteSet(was[id])
  /\ \A id \in Stored : points[id].path \in was[id]
  /\ \A row \in lookup : \E w \in was[row[2]] : row[1] \in Ancestors(w)
  /\ \A s \in Slots : slot[s].pc = "bulk" => \A p \in InBatch(s) : p.path \in was[p.id]

\* The dimension a request was checked against is still the collection's.
DimInv ==
  ~clash => /\ \A id \in Stored : points[id].dim = meta
            /\ \A s \in Slots : Uploading(s) => slot[s].request.dim = meta
            /\ \A s \in Slots : slot[s].pc \in Swept /\ slot[s].request.op = "drop" => Stored = {}

Core == SweptInv /\ ListedInv /\ WasInv /\ DimInv

\* A slot comes to the rows when the points are gone, to a batch only from its rows,
\* and to uploading only with the dimension of the collection.
Calm(s) ==
  /\ slot'[s].pc \in Swept =>
       \/ slot[s].pc \in Swept /\ slot'[s].request = slot[s].request
       \/ (Stored)' = {}
  /\ slot'[s].pc = "bulk" =>
       slot[s].pc = "bulk" /\ slot'[s].request = slot[s].request /\ slot'[s].at = slot[s].at
  /\ Uploading(s)' => \/ Uploading(s) /\ slot'[s].request = slot[s].request
                      \/ slot'[s].request.dim = meta

\* Points and rows are removed, and no row of a point that stays and is not raced.
LEMMA EraseCore ==
  ASSUME Shape, Core, NEW s \in Slots, Moves(s), Calm(s), NEW ids, NEW part,
         points' = Removed(ids), lookup' = lookup \ part, part \subseteq Folders \X Ids,
         Raced(s, IdsOf(part)), IdsOf(part) \cap (Stored)' \subseteq raced,
         Uploading(s) => part = {},
         UNCHANGED <<meta, was, clash>>
  PROVE  Core'
<1>1. /\ (Stored)' \subseteq Stored /\ \A id \in (Stored)' : points'[id] = points[id]
      /\ (Stored)' \subseteq Ids /\ Stored \subseteq Ids
  BY RemovedTypes DEF Stored
<1>2. raced \subseteq raced'
  BY DEF Raced
<1>3. \A t \in Slots : slot'[t].pc = "bulk" =>
        slot[t].pc = "bulk" /\ InBatch(t)' = InBatch(t) /\ slot'[t].request = slot[t].request
  BY DEF Calm, Moves, InBatch
<1>4. \A row \in part : row = <<row[1], row[2]>> /\ row[2] \in IdsOf(part)
  BY DEF IdsOf
<1>5. SweptInv'
  BY <1>1, <1>2 DEF Core, SweptInv, Calm, Moves
<1>6. ListedInv'
  <2>1. ASSUME NEW id \in (Stored)' \ raced', NEW f \in Ancestors(points'[id].path)
        PROVE  <<f, id>> \in lookup'
    <3>1. id \in Stored \ raced /\ f \in Ancestors(points[id].path)
      BY <1>1, <1>2
    <3>2. <<f, id>> \in lookup
      BY <3>1 DEF Core, ListedInv
    <3>3. id \notin IdsOf(part)
      BY <1>2
    <3>4. QED
      BY <1>4, <3>2, <3>3
  <2>2. ASSUME NEW t \in Slots, slot'[t].pc = "bulk", NEW p \in InBatch(t), p.id \notin raced',
               NEW f \in Ancestors(p.path)
        PROVE  <<f, p.id>> \in lookup'
    <3>1. slot[t].pc = "bulk" /\ <<f, p.id>> \in lookup
      BY <1>2, <1>3, <2>2 DEF Core, ListedInv
    <3>2. CASE t = s
      BY <3>1, <3>2 DEF Uploading
    <3>3. CASE t # s
      <4>1. Uploading(t) /\ p.id \in Uploaded(slot[t].request)
        BY <3>1, BatchTypes DEF Uploading, Uploaded
      <4>2. p.id \notin IdsOf(part)
        BY <2>2, <3>3, <4>1 DEF Raced
      <4>3. QED
        BY <1>4, <3>1, <4>2
    <3>4. QED
      BY <3>2, <3>3
  <2>3. QED
    BY <1>3, <2>1, <2>2 DEF ListedInv
<1>7. WasInv'
  BY <1>1, <1>3 DEF Core, WasInv
<1>8. DimInv'
  <2>1. ASSUME ~clash, NEW t \in Slots, Uploading(t)'  PROVE slot'[t].request.dim = meta
    BY <2>1 DEF Core, DimInv, Calm, Moves, Uploading
  <2>2. ASSUME ~clash, NEW t \in Slots, slot'[t].pc \in Swept, slot'[t].request.op = "drop"
        PROVE  (Stored)' = {}
    BY <1>1, <2>2 DEF Core, DimInv, Calm, Moves
  <2>3. QED
    BY <1>1, <2>1, <2>2 DEF Core, DimInv
<1>9. QED
  BY <1>5, <1>6, <1>7, <1>8 DEF Core

LEMMA QuietCore ==
  ASSUME Shape, Core, NEW s \in Slots, Moves(s), Calm(s),
         UNCHANGED <<meta, points, lookup, was, raced, clash>>
  PROVE  Core'
<1>1. points' = Removed({})
  BY DEF Shape, Removed
<1>2. lookup' = lookup \ {} /\ Raced(s, IdsOf({})) /\ IdsOf({}) = {}
  BY DEF Raced, IdsOf
<1>3. QED
  BY <1>1, <1>2, EraseCore

\* The rows of a batch are written before its points.
LEMMA SyncCore ==
  ASSUME Shape, Core, NEW s \in Slots, Sync(s)
  PROVE  Core'
<1>0. Uploading(s) /\ slot[s].pc = "sync"
  BY DEF Sync, Uploading
<1>1. /\ Moves(s) /\ (Goes(s, "bulk") \/ slot'[s] = slot[s])
      /\ \A p \in InBatch(s) : p.id \in Ids /\ p.path \in Paths
      /\ IsFiniteSet(InBatch(s))
  BY <1>0, SyncMoves, BatchTypes
<1>2. /\ UNCHANGED <<meta, points, raced, clash>>
      /\ lookup' = lookup \cup LookupRows(InBatch(s))
      /\ was' = [id \in Ids |-> was[id] \cup {p.path : p \in {q \in InBatch(s) : q.id = id}}]
  BY DEF Sync
<1>3. (Stored)' = Stored
  BY <1>2 DEF Stored
<1>4. \A t \in Slots : slot'[t].pc = "bulk" =>
        InBatch(t)' = InBatch(t) /\ (t = s \/ slot[t].pc = "bulk")
  BY <1>1 DEF Moves, InBatch, Goes
<1>5. \A id \in Ids : was[id] \subseteq was'[id]
  BY <1>2
<1>6. \A p \in InBatch(s) : p.path \in was'[p.id]
  BY <1>1, <1>2
<1>7. SweptInv'
  BY <1>0, <1>1, <1>2, <1>3 DEF Core, SweptInv, Moves, Goes, Swept
<1>8. ListedInv'
  <2>1. \A p \in InBatch(s) : \A f \in Ancestors(p.path) : <<f, p.id>> \in lookup'
    BY <1>2 DEF LookupRows
  <2>2. QED
    BY <1>2, <1>3, <1>4, <2>1 DEF Core, ListedInv
<1>9. WasInv'
  <2>1. ASSUME NEW id \in Ids  PROVE IsFiniteSet(was'[id])
    <3> DEFINE mine == {q \in InBatch(s) : q.id = id}
               path == [p \in mine |-> p.path]
    <3>1. IsFiniteSet(mine)
      BY <1>1, FS_Subset
    <3>2. IsFiniteSet({path[p] : p \in mine})
      BY <3>1, ImageFinite
    <3>3. was'[id] = was[id] \cup {path[p] : p \in mine} /\ IsFiniteSet(was[id])
      BY <1>2 DEF Core, WasInv
    <3> DEFINE new == {path[p] : p \in mine}
    <3> HIDE DEF new
    <3>4. IsFiniteSet(was[id] \cup new)
      BY <3>2, <3>3, FS_Union DEF new
    <3>5. QED
      BY <3>3, <3>4 DEF new
  <2>2. ASSUME NEW row \in lookup'  PROVE \E w \in was'[row[2]] : row[1] \in Ancestors(w)
    <3>1. CASE row \in lookup
      <4>1. row[2] \in Ids
        BY <3>1 DEF Shape
      <4>2. QED
        BY <1>5, <3>1, <4>1 DEF Core, WasInv
    <3>2. CASE row \in LookupRows(InBatch(s))
      <4>1. PICK p \in InBatch(s) : row \in Ancestors(p.path) \X {p.id}
        BY <3>2 DEF LookupRows
      <4>2. QED
        BY <1>6, <4>1
    <3>3. QED
      BY <1>2, <3>1, <3>2
  <2>3. \A id \in (Stored)' : points'[id].path \in was'[id]
    BY <1>2, <1>3, <1>5 DEF Core, WasInv, Stored
  <2>4. ASSUME NEW t \in Slots, slot'[t].pc = "bulk", NEW p \in InBatch(t)
        PROVE  p.path \in was'[p.id]
    <3>1. CASE t = s
      BY <1>6, <3>1
    <3>2. CASE t # s
      <4>1. slot[t].pc = "bulk" /\ p.path \in was[p.id]
        BY <1>4, <2>4, <3>2 DEF Core, WasInv
      <4>2. p.id \in Ids
        BY <4>1, BatchTypes DEF Uploading
      <4>3. QED
        BY <1>5, <4>1, <4>2
    <3>3. QED
      BY <3>1, <3>2
  <2>5. QED
    BY <1>4, <2>1, <2>2, <2>3, <2>4 DEF WasInv
<1>10. DimInv'
  BY <1>0, <1>1, <1>2, <1>3 DEF Core, DimInv, Moves, Goes, Uploading, Swept
<1>11. QED
  BY <1>7, <1>8, <1>9, <1>10 DEF Core

LEMMA BulkCore ==
  ASSUME Shape, Core, NEW s \in Slots, Bulk(s)
  PROVE  Core'
<1> DEFINE new == {p.id : p \in InBatch(s)}
<1>0. Uploading(s) /\ slot[s].pc = "bulk" /\ UNCHANGED <<meta, lookup, was>>
      /\ raced' = (IF Overlap(s, IsSweeping) THEN raced \cup new ELSE raced)
      /\ clash' = (clash \/ Overlap(s, Recreating))
  BY DEF Bulk, Uploading
<1>1. Moves(s) /\ BulkTurn(s)
  BY BulkMoves
<1>2. /\ \A id \in Ids \ new : points'[id] = points[id]
      /\ \A id \in new : \E p \in InBatch(s) :
           p.id = id /\ points'[id] = [path |-> p.path, dim |-> slot[s].request.dim]
      /\ (Stored)' = Stored \cup new /\ new \subseteq Ids /\ Stored \subseteq Ids
  BY BulkPoints DEF Stored
<1> HIDE DEF new
<1>3. raced \subseteq raced'
  BY <1>0
<1>4. \A t \in Slots : slot'[t].pc = "bulk" => slot[t].pc = "bulk" /\ InBatch(t)' = InBatch(t)
  BY <1>0, <1>1 DEF Moves, BulkTurn, InBatch, Ends
<1>5. SweptInv'
  <2>1. ASSUME NEW t \in Slots, slot'[t].pc \in Swept  PROVE (Stored)' \subseteq raced'
    <3>1. t # s /\ slot[t].pc \in Swept
      BY <1>0, <1>1, <2>1 DEF Moves, BulkTurn, Ends, Swept
    <3>2. Overlap(s, IsSweeping)
      BY <3>1 DEF Overlap, IsSweeping, Sweeping, Swept
    <3>3. Stored \subseteq raced
      BY <3>1 DEF Core, SweptInv
    <3>4. QED
      BY <1>0, <1>2, <3>2, <3>3
  <2>2. QED
    BY <2>1 DEF SweptInv
<1>6. ListedInv'
  <2>1. ASSUME NEW id \in (Stored)' \ raced', NEW f \in Ancestors(points'[id].path)
        PROVE  <<f, id>> \in lookup'
    <3>1. CASE id \in new
      <4>1. PICK p \in InBatch(s) :
              p.id = id /\ points'[id] = [path |-> p.path, dim |-> slot[s].request.dim]
        BY <1>2, <3>1
      <4>2. f \in Ancestors(p.path)
        BY <4>1
      <4>3. QED
        BY <1>0, <1>3, <4>1, <4>2 DEF Core, ListedInv
    <3>2. CASE id \notin new
      BY <1>0, <1>2, <1>3, <3>2 DEF Core, ListedInv
    <3>3. QED
      BY <3>1, <3>2
  <2>2. QED
    BY <1>0, <1>3, <1>4, <2>1 DEF Core, ListedInv
<1>7. WasInv'
  <2>1. ASSUME NEW id \in (Stored)'  PROVE points'[id].path \in was'[id]
    <3>1. CASE id \in new
      <4>1. PICK p \in InBatch(s) :
              p.id = id /\ points'[id] = [path |-> p.path, dim |-> slot[s].request.dim]
        BY <1>2, <3>1
      <4>2. QED
        BY <1>0, <4>1 DEF Core, WasInv
    <3>2. CASE id \notin new
      BY <1>0, <1>2, <3>2 DEF Core, WasInv
    <3>3. QED
      BY <3>1, <3>2
  <2>2. QED
    BY <1>0, <1>4, <2>1 DEF Core, WasInv
<1>8. DimInv'
  <2> SUFFICES ASSUME ~clash'
               PROVE  /\ \A id \in (Stored)' : points'[id].dim = meta'
                      /\ \A t \in Slots : Uploading(t)' => slot'[t].request.dim = meta'
                      /\ \A t \in Slots : slot'[t].pc \in Swept /\ slot'[t].request.op = "drop"
                                          => (Stored)' = {}
    BY DEF DimInv
  <2>1. ~clash /\ ~Overlap(s, Recreating)
    BY <1>0
  <2>2. slot[s].request.dim = meta
    BY <1>0, <2>1 DEF Core, DimInv
  <2>3. \A id \in (Stored)' : points'[id].dim = meta'
    <3>1. ASSUME NEW id \in new  PROVE points'[id].dim = meta
      <4>1. \E p \in InBatch(s) :
              points'[id] = [path |-> p.path, dim |-> slot[s].request.dim]
        BY <1>2
      <4>2. QED
        BY <2>2, <4>1
    <3>2. \A id \in Stored \ new : points'[id].dim = meta
      BY <1>2, <2>1 DEF Core, DimInv
    <3>3. QED
      BY <1>0, <1>2, <3>1, <3>2
  <2>4. \A t \in Slots : Uploading(t)' => slot'[t].request.dim = meta'
    BY <1>0, <1>1, <2>1, <2>2 DEF Core, DimInv, Moves, BulkTurn, Uploading, Ends
  <2>5. ASSUME NEW t \in Slots, slot'[t].pc \in Swept, slot'[t].request.op = "drop"
        PROVE  (Stored)' = {}
    <3>1. t # s /\ slot[t].pc \in Swept /\ slot[t].request.op = "drop"
      BY <1>0, <1>1, <2>5 DEF Moves, BulkTurn, Ends, Swept
    <3>2. Overlap(s, Recreating)
      BY <3>1 DEF Overlap, Recreating, Sweeping, Swept
    <3>3. QED
      BY <2>1, <3>2
  <2>6. QED
    BY <2>3, <2>4, <2>5
<1>9. QED
  BY <1>5, <1>6, <1>7, <1>8 DEF Core

LEMMA MetaCore ==
  ASSUME Shape, Core, NEW s \in Slots, WriteMeta(s) \/ DropMeta(s)
  PROVE  Core'
<1>1. /\ Moves(s) /\ (Ends(s) \/ slot'[s] = slot[s])
      /\ slot[s].pc \in {"write", "dropMeta"} /\ ~Uploading(s)
      /\ slot[s].pc = "dropMeta" => slot[s].request.op = "drop"
  BY WriteMoves DEF WriteMeta, DropMeta, Uploading, Shape, Good, Stage
<1>2. UNCHANGED <<points, lookup, was, raced>> /\ (Stored)' = Stored
  BY DEF WriteMeta, DropMeta, Stored
<1>3. \A t \in Slots : slot'[t] = slot[t] \/ (t = s /\ slot'[t].pc = "idle")
  BY <1>1 DEF Moves, Ends
<1>4. SweptInv'
  BY <1>2, <1>3 DEF Core, SweptInv, Swept
<1>5. ListedInv'
  BY <1>2, <1>3 DEF Core, ListedInv, InBatch
<1>6. WasInv'
  BY <1>2, <1>3 DEF Core, WasInv, InBatch
<1>7. DimInv'
  <2> SUFFICES ASSUME ~clash' PROVE (Stored)' = {} /\ \A t \in Slots : ~Uploading(t)'
    BY DEF DimInv
  <2>1. ~clash /\ ~Overlap(s, Uploading)
    BY DEF WriteMeta, DropMeta
  <2>2. \A t \in Slots : ~Uploading(t)'
    BY <1>1, <1>3, <2>1 DEF Overlap, Uploading
  <2>3. CASE WriteMeta(s)
    <3>1. meta = None
      BY <2>3 DEF WriteMeta
    <3>2. \A id \in Stored : points[id].dim = None /\ points[id] \in PointType
      BY <2>1, <3>1 DEF Core, DimInv, Stored, Shape
    <3>3. Stored = {}
      BY <3>2, Constant DEF PointType
    <3>4. QED
      BY <1>2, <2>2, <3>3
  <2>4. CASE DropMeta(s)
    <3>1. slot[s].pc = "dropMeta" /\ slot[s].request.op = "drop"
      BY <1>1, <2>4 DEF DropMeta
    <3>2. Stored = {}
      BY <2>1, <3>1 DEF Core, DimInv, Swept
    <3>3. QED
      BY <1>2, <2>2, <3>2
  <2>5. QED
    BY <2>3, <2>4
<1>8. QED
  BY <1>4, <1>5, <1>6, <1>7 DEF Core

LEMMA CoreInit == Init => Shape /\ Core
<1> SUFFICES ASSUME Init PROVE Shape /\ Core
  OBVIOUS
<1>1. \A s \in Slots : slot[s].pc = "idle" /\ slot[s] \in SlotType /\ Good(slot[s])
  <2>1. Free \in SlotType /\ Free.pc = "idle"
    BY DEF Free, SlotType, Answers, SelType
  <2>2. Free.answer = "none" /\ Free.said = 0
    BY DEF Free
  <2>3. Good(Free)
    BY <2>1, <2>2 DEF Good, Open, Stage, Sweeping
  <2>4. QED
    BY <2>1, <2>3 DEF Init
<1>2. slot \in [Slots -> SlotType]
  BY <1>1 DEF Init
<1>3. due \in [Slots -> SUBSET Ids] /\ raced \subseteq Ids /\ clash \in BOOLEAN
      /\ meta \in Dims \cup {None}
  BY DEF Init
<1>4. CASE /\ points = [i \in Ids |-> None] /\ lookup = {} /\ was = [i \in Ids |-> {}]
  <2>1. Stored = {}
    BY <1>4 DEF Stored
  <2>2. Shape
    BY <1>1, <1>2, <1>3, <1>4 DEF Shape
  <2>3. Core
    BY <1>1, <1>4, <2>1, FS_EmptySet
       DEF Core, SweptInv, ListedInv, WasInv, DimInv, Swept, Uploading
  <2>4. QED
    BY <2>2, <2>3
<1>5. CASE /\ meta # None
           /\ \E p \in Existing :
                /\ points = [id \in Ids |-> IF id = p.id THEN [path |-> p.path, dim |-> meta]
                                            ELSE None]
                /\ lookup = Ancestors(p.path) \X {p.id}
                /\ was = [id \in Ids |-> IF id = p.id THEN {p.path} ELSE {}]
  <2>1. PICK p \in Existing :
          /\ points = [id \in Ids |-> IF id = p.id THEN [path |-> p.path, dim |-> meta] ELSE None]
          /\ lookup = Ancestors(p.path) \X {p.id}
          /\ was = [id \in Ids |-> IF id = p.id THEN {p.path} ELSE {}]
    BY <1>5
  <2>2. p.id \in Ids /\ p.path \in Paths
    BY StoreAssumption DEF StoreAssumption
  <2>3. [path |-> p.path, dim |-> meta] \in PointType
    BY <1>3, <1>5, <2>2 DEF PointType
  <2>4. Ancestors(p.path) \subseteq Folders
    BY <2>2 DEF Folders
  <2>5. Shape
    BY <1>1, <1>2, <1>3, <2>1, <2>2, <2>3, <2>4 DEF Shape
  <2>6. Stored \subseteq {p.id} /\ \A id \in Stored : points[id] = [path |-> p.path, dim |-> meta]
    BY <2>1 DEF Stored
  <2>7. WasInv
    <3>1. \A id \in Ids : IsFiniteSet(was[id])
      BY <2>1, FS_EmptySet, FS_Singleton
    <3>2. \A id \in Stored : points[id].path \in was[id]
      BY <2>1, <2>2, <2>6
    <3>3. \A row \in lookup : \E w \in was[row[2]] : row[1] \in Ancestors(w)
      BY <2>1, <2>2
    <3>4. QED
      BY <1>1, <3>1, <3>2, <3>3 DEF WasInv
  <2>8. ListedInv
    BY <1>1, <2>1, <2>6 DEF ListedInv
  <2>9. SweptInv /\ DimInv
    BY <1>1, <2>6 DEF SweptInv, DimInv, Swept, Uploading
  <2>10. QED
    BY <2>5, <2>7, <2>8, <2>9 DEF Core
<1>6. QED
  BY <1>4, <1>5 DEF Init

LEMMA CoreNext == Shape /\ Core /\ [Next]_vars => Core'
<1> SUFFICES ASSUME Shape, Core, [Next]_vars PROVE Core'
  OBVIOUS
<1>1. ASSUME NEW s \in Slots, Moves(s), slot'[s].pc \notin Swept \cup {"bulk", "sync"},
             UNCHANGED <<meta, points, lookup, was, raced, clash>>
      PROVE  Core'
  BY <1>1, QuietCore DEF Calm, Uploading
<1>2. ASSUME NEW s \in Slots, Send(s)  PROVE Core'
  BY <1>1, <1>2, SendMoves DEF Send, store, Swept
<1>3. ASSUME NEW s \in Slots, TakeBody(s) \/ BadBody(s)  PROVE Core'
  BY <1>1, <1>3, BodyMoves DEF TakeBody, BadBody, store, history, Swept
<1>4. ASSUME NEW s \in Slots, BodyTimeout(s) \/ ProcessingTimeout(s)  PROVE Core'
  <2>1. Moves(s) /\ Stays(s)
    BY <1>4, TimeoutMoves
  <2>2. Calm(s)
    BY <2>1 DEF Stays, Calm, Uploading
  <2>3. QED
    BY <1>4, <2>1, <2>2, QuietCore
       DEF BodyTimeout, ProcessingTimeout, TimeOut, store, history
<1>5. ASSUME NEW s \in Slots, ReadMeta(s)  PROVE Core'
  <2>1. Moves(s) /\ MetaTurn(s)
    BY <1>5, MetaMoves
  <2>2. Calm(s)
    BY <2>1 DEF MetaTurn, Goes, Ends, Calm, Uploading, Swept
  <2>3. QED
    BY <1>5, <2>1, <2>2, QuietCore DEF ReadMeta, store
<1>6. ASSUME NEW s \in Slots, WriteMeta(s) \/ DropMeta(s)  PROVE Core'
  BY <1>6, MetaCore
<1>7. ASSUME NEW s \in Slots, Sync(s)  PROVE Core'
  BY <1>7, SyncCore
<1>8. ASSUME NEW s \in Slots, Bulk(s)  PROVE Core'
  BY <1>8, BulkCore
<1>9. ASSUME NEW s \in Slots, DeleteIds(s)  PROVE Core'
  <2>1. Moves(s) /\ (Ends(s) \/ slot'[s] = slot[s]) /\ slot[s].pc = "deleteIds"
    BY <1>9, WriteMoves DEF DeleteIds
  <2>2. Calm(s) /\ ~Uploading(s)
    BY <2>1 DEF Calm, Ends, Uploading, Swept
  <2> DEFINE ids == slot[s].request.ids
             part == RowsOf(ids)
  <2>3. /\ points' = Removed(ids) /\ lookup' = lookup \ part /\ Raced(s, IdsOf(part))
        /\ UNCHANGED <<meta, was, clash>>
    BY <1>9 DEF DeleteIds
  <2>4. part \subseteq Folders \X Ids /\ IdsOf(part) \subseteq ids
    BY DEF RowsOf, IdsOf, Shape
  <2>5. IdsOf(part) \cap (Stored)' \subseteq raced
    BY <2>3, <2>4, RemovedTypes
  <2> HIDE DEF ids, part
  <2>6. QED
    BY <2>1, <2>2, <2>3, <2>4, <2>5, EraseCore
<1>10. ASSUME NEW s \in Slots, DeleteChunk(s)  PROVE Core'
  <2>1. Moves(s) /\ slot[s].pc = "deletePaths" /\ UNCHANGED <<meta, was, clash>>
    BY <1>10, DeleteChunkMoves
  <2>2. ASSUME NEW i, ChunkTurn(s, i, FALSE), UNCHANGED <<points, lookup, raced, due>>
        PROVE  Core'
    <3>1. slot'[s].pc \in {"deletePaths", "idle"}
      BY <2>2 DEF ChunkTurn, Ends
    <3>2. QED
      BY <1>1, <2>1, <2>2, <3>1 DEF Swept
  <2>3. ASSUME slot'[s] = slot[s], NEW part \in SUBSET (Folders \X Ids),
               points' = Removed(IdsOf(part)), lookup' = lookup \ part,
               Raced(s, IdsOf(part))
        PROVE  Core'
    <3>1. Calm(s) /\ ~Uploading(s)
      BY <2>1, <2>3 DEF Calm, Uploading, Swept
    <3>2. IdsOf(part) \cap (Stored)' \subseteq raced
      BY <2>3, RemovedTypes
    <3>3. QED
      BY <2>1, <2>3, <3>1, <3>2, EraseCore
  <2>4. QED
    BY <1>10, <2>2, <2>3, DeleteChunkMoves
<1>11. ASSUME NEW s \in Slots, ChunkFails(s)  PROVE Core'
  <2>1. PICK i : ChunkTurn(s, i, TRUE)
    BY <1>11, ChunkFailsMoves
  <2>2. slot'[s].pc \in {"deletePaths", "idle"}
    BY <2>1 DEF ChunkTurn, Ends
  <2>3. QED
    BY <1>1, <1>11, <2>2, ChunkFailsMoves DEF store, history, Swept
<1>12. ASSUME NEW s \in Slots, BatchDelete(s) \/ Cut(s)  PROVE Core'
  <2>1. CASE slot[s].pc \in {"points", "cut"}
    <3>1. PICK ids \in SUBSET Ids :
            /\ points' = Removed(ids)
            /\ UNCHANGED <<meta, lookup, was, raced, clash>>
            /\ \/ slot'[s] = slot[s]
               \/ Goes(s, "lookup") /\ ids = Stored
               \/ Goes(s, "pick")
      BY <1>12, <2>1, SweepPointsMoves
    <3>2. ids = Stored => (Stored)' = {}
      BY <3>1, RemovedTypes
    <3>3. Moves(s) /\ Calm(s) /\ ~Uploading(s)
      BY <1>12, <2>1, <3>1, <3>2, SweepPointsMoves DEF Calm, Goes, Uploading, Swept
    <3>4. lookup' = lookup \ {} /\ Raced(s, IdsOf({})) /\ IdsOf({}) = {}
      BY <3>1 DEF Raced, IdsOf
    <3>5. QED
      BY <3>1, <3>3, <3>4, EraseCore
  <2>2. CASE slot[s].pc \notin {"points", "cut"}
    <3>1. PICK part \in SUBSET (Folders \X Ids) :
            /\ lookup' = lookup \ part /\ Raced(s, IdsOf(part))
            /\ UNCHANGED <<meta, points, was, clash>>
      BY <1>12, <2>2, SweepRowsMoves
    <3>2. /\ Moves(s) /\ slot[s].pc \in Swept
          /\ slot'[s] = slot[s] \/ AfterTurn(s) \/ Goes(s, "pickRows")
      BY <1>12, <2>2, SweepRowsMoves DEF Swept
    <3>3. Calm(s) /\ ~Uploading(s)
      BY <3>2 DEF Calm, AfterTurn, Goes, Ends, Uploading, Swept
    <3>4. points' = Removed({}) /\ (Stored)' = Stored
      BY <3>1 DEF Shape, Removed, Stored
    <3>5. IdsOf(part) \cap (Stored)' \subseteq raced
      BY <3>2, <3>4 DEF Core, SweptInv
    <3>6. QED
      BY <3>1, <3>2, <3>3, <3>4, <3>5, EraseCore
  <2>3. QED
    BY <2>1, <2>2
<1>13. ASSUME NEW s \in Slots, Select(s)  PROVE Core'
  <2>1. UNCHANGED <<meta, points, lookup, was, raced, clash>> /\ (Stored)' = Stored
    BY <1>13 DEF Select, store, history, Stored
  <2>2. Moves(s) /\ Calm(s)
    BY <1>13, <2>1, SelectMoves DEF Calm, AfterTurn, Goes, Ends, Uploading, Swept
  <2>3. QED
    BY <2>1, <2>2, QuietCore
<1>14. ASSUME NEW s \in Slots, Search(s) \/ Fail(s)  PROVE Core'
  <2>1. Moves(s) /\ Ends(s)
    BY <1>14, SearchMoves, FailMoves
  <2>2. QED
    BY <1>1, <1>14, <2>1 DEF Ends, Search, Fail, store, history, Swept
<1>15. ASSUME NEW s \in Slots, Rerun(s)  PROVE Core'
  <2>1. Moves(s) /\ Calm(s)
    BY <1>15, RerunMoves DEF Calm, Uploading, Swept
  <2>2. QED
    BY <1>15, <2>1, QuietCore DEF Rerun, store, history
<1>16. CASE Crash
  <2>1. \A s \in Slots : slot'[s].pc = "idle"
    BY <1>16, CrashMoves DEF Ends
  <2>2. UNCHANGED <<meta, points, lookup, was, raced, clash, due>> /\ (Stored)' = Stored
    BY <1>16 DEF Crash, store, history, Stored
  <2>3. QED
    BY <2>1, <2>2 DEF Core, SweptInv, ListedInv, WasInv, DimInv, Uploading, Swept
<1>17. CASE UNCHANGED vars
  <2>1. UNCHANGED <<meta, points, lookup, slot, was, raced, clash>> /\ (Stored)' = Stored
    BY <1>17 DEF vars, store, history, Stored
  <2>2. QED
    BY <2>1 DEF Core, SweptInv, ListedInv, WasInv, DimInv, Uploading, InBatch
<1>18. QED
  BY <1>2, <1>3, <1>4, <1>5, <1>6, <1>7, <1>8, <1>9, <1>10, <1>11, <1>12, <1>13, <1>14, <1>15,
     <1>16, <1>17 DEF Next, Statement

-----------------------------------------------------------------------------
(* Paths.                                                                  *)

LEMMA PrefixIsAncestor ==
  ASSUME NEW q \in Paths, NEW path, path \in Seq(Range(path)), path # <<>>, IsPrefix(path, q)
  PROVE  path \in Ancestors(q)
<1>1. q \in Seq(Range(q))
  BY StoreAssumption DEF StoreAssumption
<1>2. Len(path) \in 1 .. Len(q)
  BY <1>1 DEF IsPrefix
<1>3. SubSeq(path, 1, Len(path)) = path
  OBVIOUS
<1>4. path = SubSeq(q, 1, Len(path))
  BY <1>3 DEF IsPrefix
<1>5. QED
  BY <1>2, <1>4 DEF Ancestors

LEMMA AncestorIsPrefix ==
  ASSUME NEW q \in Paths, NEW f \in Ancestors(q)
  PROVE  IsPrefix(f, q) /\ f \in Seq(Range(f)) /\ f # <<>>
<1>1. q \in Seq(Range(q))
  BY StoreAssumption DEF StoreAssumption
<1>2. PICK n \in 1 .. Len(q) : f = SubSeq(q, 1, n)
  BY DEF Ancestors
<1>3. f \in Seq(Range(q)) /\ Len(f) = n /\ n \in Nat
  BY <1>1, <1>2
<1>4. SubSeq(f, 1, n) = f
  BY <1>3
<1>5. f \in Seq(Range(f))
  BY <1>3 DEF Range
<1>6. QED
  BY <1>1, <1>2, <1>3, <1>4, <1>5 DEF IsPrefix

\* A point under a path, that is not raced, has the row of the path.
LEMMA UnderIsListed ==
  ASSUME Shape, ListedInv, NEW path, path \in Seq(Range(path)), path # <<>>,
         NEW id \in Under(path), id \notin raced
  PROVE  id \in IdsOf(Listed(path))
<1>1. id \in Stored /\ points[id].path \in Paths /\ IsPrefix(path, points[id].path)
  BY DEF Under, Stored, Shape, PointType
<1>2. path \in Ancestors(points[id].path)
  BY <1>1, PrefixIsAncestor
<1>3. <<path, id>> \in lookup
  BY <1>1, <1>2 DEF ListedInv
<1>4. <<path, id>> \in Listed(path)
  BY <1>3 DEF Listed
<1>5. QED
  BY <1>4 DEF IdsOf

-----------------------------------------------------------------------------
(* What an answer speaks for.                                              *)

\* A step leaves alone what the answer to t speaks for, except for ids it takes from due[t]:
\* no such point is written or raced, and, if t is an upsert, none is removed.
Spared(t) ==
  /\ due'[t] \subseteq due[t]
  /\ \A id \in due'[t] \cap (Stored)' :
       /\ id \in Stored /\ points'[id] = points[id]
       /\ id \in raced' => id \in raced
  /\ slot[t].request # None /\ slot[t].request.op = "upsert" =>
       \A id \in due'[t] : points'[id] = points[id]

LEMMA IdleSpares ==
  ASSUME Shape, NEW t \in Slots, UNCHANGED <<points, raced>>, due'[t] = due[t]
  PROVE  Spared(t)
  BY DEF Spared, Stored

LEMMA EraseSpares ==
  ASSUME Shape, NEW s \in Slots, NEW ids, points' = Removed(ids), Noted(s, ids \cap Stored, {}),
         raced' \cap (Stored)' \subseteq raced, slot[s].request.op # "upsert"
  PROVE  \A t \in Slots : Spared(t)
<1> SUFFICES ASSUME NEW t \in Slots PROVE Spared(t)
  OBVIOUS
<1>1. /\ (Stored)' = Stored \ ids /\ \A id \in (Stored)' : points'[id] = points[id]
  BY RemovedTypes
<1>2. due'[t] \subseteq due[t] /\ due[t] \subseteq Ids
  BY DEF Noted, Shape
<1>3. ASSUME slot[t].request # None, slot[t].request.op = "upsert", NEW id \in due'[t]
      PROVE  points'[id] = points[id]
  <2>1. id \notin ids \cap Stored /\ id \in Ids
    BY <1>2, <1>3 DEF Noted
  <2>2. QED
    BY <2>1 DEF Removed, Stored
<1>4. QED
  BY <1>1, <1>2, <1>3 DEF Spared

LEMMA BulkSpares ==
  ASSUME Shape, NEW s \in Slots, Bulk(s), NEW t \in Slots \ {s}
  PROVE  Spared(t)
<1> DEFINE new == {p.id : p \in InBatch(s)}
<1>1. /\ \A id \in Ids \ new : points'[id] = points[id]
      /\ (Stored)' = Stored \cup new /\ new \subseteq Ids
  BY BulkPoints
<1>2. raced' \subseteq raced \cup new /\ Noted(s, {}, new)
  BY DEF Bulk
<1> HIDE DEF new
<1>3. due'[t] \subseteq due[t] \ new /\ due[t] \subseteq Ids
  BY <1>2 DEF Noted, Shape
<1>4. QED
  BY <1>1, <1>2, <1>3 DEF Spared

\* Rows that go while their points stay were swept after the points.
LEMMA SweepSpares ==
  ASSUME Shape, Core, NEW s \in Slots, BatchDelete(s) \/ Cut(s)
  PROVE  \A t \in Slots : Spared(t)
<1>1. CASE slot[s].pc \in {"points", "cut"}
  <2>1. PICK ids \in SUBSET Ids :
          points' = Removed(ids) /\ Noted(s, ids \cap Stored, {}) /\ raced' = raced
    BY <1>1, SweepPointsMoves
  <2>2. slot[s].request.op # "upsert"
    BY <1>1 DEF Shape, Good, Stage, Sweeping
  <2>3. QED
    BY <2>1, <2>2, EraseSpares
<1>2. CASE slot[s].pc \notin {"points", "cut"}
  <2>1. PICK part \in SUBSET (Folders \X Ids) : Raced(s, IdsOf(part)) /\ UNCHANGED <<points, due>>
    BY <1>2, SweepRowsMoves
  <2>2. slot[s].pc \in Swept
    BY <1>2, SweepRowsMoves DEF Swept
  <2>3. Stored \subseteq raced /\ (Stored)' = Stored
    BY <2>1, <2>2 DEF Core, SweptInv, Stored
  <2>4. QED
    BY <2>1, <2>3 DEF Spared
<1>3. QED
  BY <1>1, <1>2

LEMMA DeleteSpares ==
  ASSUME Shape, NEW s \in Slots, DeleteIds(s) \/ DeleteChunk(s)
  PROVE  \A t \in Slots : Spared(t)
<1>1. ASSUME NEW ids, NEW part, points' = Removed(ids), Noted(s, ids \cap Stored, {}),
             Raced(s, IdsOf(part)), IdsOf(part) \subseteq ids, slot[s].request.op # "upsert"
      PROVE  \A t \in Slots : Spared(t)
  <2>1. (Stored)' = Stored \ ids
    BY <1>1, RemovedTypes
  <2>2. raced' \subseteq raced \cup ids
    BY <1>1 DEF Raced
  <2>3. QED
    BY <1>1, <2>1, <2>2, EraseSpares
<1>2. CASE DeleteIds(s)
  <2>1. slot[s].request.op = "deleteIds"
    BY <1>2 DEF DeleteIds, Shape, Good, Stage
  <2>2. IdsOf(RowsOf(slot[s].request.ids)) \subseteq slot[s].request.ids
    BY DEF IdsOf, RowsOf
  <2>3. QED
    BY <1>1, <1>2, <2>1, <2>2 DEF DeleteIds
<1>3. CASE DeleteChunk(s)
  <2>1. CASE UNCHANGED <<points, raced, due>>
    BY <2>1, IdleSpares
  <2>2. CASE \E part : /\ points' = Removed(IdsOf(part)) /\ Raced(s, IdsOf(part))
                       /\ Noted(s, IdsOf(part) \cap Stored, {})
    <3>1. PICK part : /\ points' = Removed(IdsOf(part)) /\ Raced(s, IdsOf(part))
                      /\ Noted(s, IdsOf(part) \cap Stored, {})
      BY <2>2
    <3>2. slot[s].request.op = "deletePaths"
      BY <1>3, DeleteChunkMoves
    <3>3. QED
      BY <1>1, <3>1, <3>2
  <2>3. QED
    BY <1>3, <2>1, <2>2, DeleteChunkMoves
<1>4. QED
  BY <1>2, <1>3

\* Whatever a request does, the others are spared.
LEMMA OthersSpared ==
  ASSUME Shape, Core, NEW s \in Slots, NEW t \in Slots \ {s},
         \/ Send(s) \/ TakeBody(s) \/ BadBody(s) \/ BodyTimeout(s) \/ ProcessingTimeout(s)
         \/ Statement(s)
  PROVE  Spared(t)
<1>1. CASE \/ Send(s) \/ TakeBody(s) \/ BadBody(s) \/ BodyTimeout(s) \/ ProcessingTimeout(s)
           \/ ReadMeta(s) \/ WriteMeta(s) \/ Sync(s) \/ ChunkFails(s) \/ Select(s)
           \/ DropMeta(s) \/ Search(s) \/ Fail(s) \/ Rerun(s)
  <2>1. UNCHANGED <<points, raced>>
    BY <1>1 DEF Send, TakeBody, BadBody, BodyTimeout, ProcessingTimeout, TimeOut, ReadMeta,
                WriteMeta, Sync, ChunkFails, Select, DropMeta, Search, Fail, Rerun, store, history
  <2>2. due'[t] = due[t]
    <3>1. due' = due \/ \E x : due' = [due EXCEPT ![s] = x]
      BY <1>1 DEF Send, TakeBody, BadBody, BodyTimeout, ProcessingTimeout, TimeOut, ReadMeta,
                  WriteMeta, Sync, ChunkFails, Select, DropMeta, Search, Fail, Rerun, history
    <3>2. QED
      BY <3>1 DEF Shape
  <2>3. QED
    BY <2>1, <2>2, IdleSpares
<1>2. CASE Bulk(s)
  BY <1>2, BulkSpares
<1>3. CASE BatchDelete(s) \/ Cut(s)
  BY <1>3, SweepSpares
<1>4. CASE DeleteIds(s) \/ DeleteChunk(s)
  BY <1>4, DeleteSpares
<1>5. QED
  BY <1>1, <1>2, <1>3, <1>4 DEF Statement

LEMMA OthersStay ==
  ASSUME Shape, NEW s \in Slots, NEW t \in Slots \ {s},
         \/ Send(s) \/ TakeBody(s) \/ BadBody(s) \/ BodyTimeout(s) \/ ProcessingTimeout(s)
         \/ Statement(s)
  PROVE  slot'[t] = slot[t]
<1>1. Moves(s)
  <2>1. CASE Send(s) \/ TakeBody(s) \/ BadBody(s) \/ BodyTimeout(s) \/ ProcessingTimeout(s)
    BY <2>1, SendMoves, BodyMoves, TimeoutMoves
  <2>2. CASE ReadMeta(s) \/ WriteMeta(s) \/ Sync(s) \/ Bulk(s) \/ DropMeta(s) \/ DeleteIds(s)
    BY <2>2, MetaMoves, WriteMoves, SyncMoves, BulkMoves
  <2>3. CASE DeleteChunk(s) \/ ChunkFails(s) \/ BatchDelete(s) \/ Cut(s) \/ Select(s)
    BY <2>3, DeleteChunkMoves, ChunkFailsMoves, SweepPointsMoves, SweepRowsMoves, SelectMoves
  <2>4. CASE Search(s) \/ Fail(s) \/ Rerun(s)
    BY <2>4, SearchMoves, FailMoves, RerunMoves
  <2>5. QED
    BY <2>1, <2>2, <2>3, <2>4 DEF Statement
<1>2. QED
  BY <1>1 DEF Moves

-----------------------------------------------------------------------------
(* Deletes, clears and drops.                                              *)

DeleteOps == {"drop", "clear", "deleteIds", "deletePaths"}

\* How much of what a delete answers for is gone, at each stage of it.
GoneAt(t) ==
  LET r == slot[t].request
      left == due[t] \cap Stored
  IN /\ slot[t].pc \in Swept => left = {}
     /\ slot[t].pc = "idle" /\ slot[t].answer = "ok" /\ r.op \in DeleteOps => left = {}
     /\ slot[t].pc = "deleteIds" => due[t] \subseteq r.ids
     /\ slot[t].pc = "deletePaths" =>
          /\ left \cap raced = {}
          /\ \A id \in left : \E i \in DOMAIN r.paths : id \in Under(r.paths[i])
          /\ ~slot[t].failed => \A i \in DOMAIN r.paths :
               i < slot[t].at \/ i \in slot[t].sel => Under(r.paths[i]) \cap due[t] = {}

GoneInv == \A t \in Slots : GoneAt(t)

LEMMA KeepGone ==
  ASSUME Shape, NEW t \in Slots, GoneAt(t), slot'[t] = slot[t], Spared(t)
  PROVE  GoneAt(t)'
<1>1. due'[t] \cap (Stored)' \subseteq due[t] \cap Stored /\ due'[t] \subseteq due[t]
  BY DEF Spared
<1>2. ASSUME NEW path, NEW id \in due'[t] \cap (Stored)'
      PROVE  id \in Under(path)' <=> id \in Under(path)
  BY <1>2 DEF Spared, Under
<1>3. \A path : Under(path)' \subseteq (Stored)'
  BY DEF Under
<1>4. ASSUME slot[t].pc = "deletePaths"
      PROVE  LET r == slot[t].request
             IN /\ due'[t] \cap (Stored)' \cap raced' = {}
                /\ \A id \in due'[t] \cap (Stored)' :
                     \E i \in DOMAIN r.paths : id \in Under(r.paths[i])'
                /\ ~slot[t].failed => \A i \in DOMAIN r.paths :
                     i < slot[t].at \/ i \in slot[t].sel => Under(r.paths[i])' \cap due'[t] = {}
  <2>1. due'[t] \cap (Stored)' \cap raced' = {}
    BY <1>4 DEF GoneAt, Spared
  <2>2. \A id \in due'[t] \cap (Stored)' :
          \E i \in DOMAIN slot[t].request.paths : id \in Under(slot[t].request.paths[i])'
    BY <1>1, <1>2, <1>4 DEF GoneAt
  <2>3. ASSUME ~slot[t].failed, NEW i \in DOMAIN slot[t].request.paths,
               i < slot[t].at \/ i \in slot[t].sel
        PROVE  Under(slot[t].request.paths[i])' \cap due'[t] = {}
    <3>1. Under(slot[t].request.paths[i]) \cap due[t] = {}
      BY <1>4, <2>3 DEF GoneAt
    <3>2. QED
      BY <1>1, <1>2, <1>3, <3>1
  <2>4. QED
    BY <2>1, <2>2, <2>3
<1>5. QED
  BY <1>1, <1>4 DEF GoneAt

\* A slot that answers for nothing: it is not at a stage GoneAt speaks of.
Quits(t) ==
  /\ slot'[t].pc \notin Swept \cup {"deleteIds", "deletePaths"}
  /\ ~(slot'[t].pc = "idle" /\ slot'[t].answer = "ok" /\ slot'[t].request.op \in DeleteOps)

LEMMA QuitGone ==
  ASSUME NEW t \in Slots,
         \/ Quits(t)
         \/ slot'[t].pc \in Swept \cup {"idle"} /\ due'[t] \cap (Stored)' = {}
  PROVE  GoneAt(t)'
  BY DEF Quits, GoneAt, Swept

\* A chunk that found no row leaves no point below its path that the answer speaks for.
LEMMA ChunkEmpty ==
  ASSUME Shape, Core, NEW s \in Slots, slot[s].pc = "deletePaths", GoneAt(s),
         NEW i \in Chunks(s), Listed(slot[s].request.paths[i]) = {}
  PROVE  Under(slot[s].request.paths[i]) \cap due[s] = {}
<1> DEFINE p == slot[s].request.paths[i]
<1>1. i \in DOMAIN slot[s].request.paths /\ slot[s].request \in Menu
  BY ChunksOfPaths DEF Shape, Good, Open
<1>2. p \in Range(slot[s].request.paths)
  BY <1>1 DEF Range
<1>3. p \in Seq(Range(p)) /\ p # <<>>
  BY <1>1, <1>2, StoreAssumption DEF StoreAssumption
<1>4. ASSUME NEW id \in Under(p) \cap due[s]  PROVE FALSE
  <2>1. id \notin raced
    BY DEF GoneAt, Under
  <2>2. id \in IdsOf(Listed(p))
    BY <1>3, <2>1, UnderIsListed DEF Core
  <2>3. QED
    BY <2>2 DEF IdsOf
<1>5. QED
  BY <1>4

LEMMA ChunkGone ==
  ASSUME Shape, Core, NEW s \in Slots, slot[s].pc = "deletePaths", GoneAt(s),
         UNCHANGED <<points, raced, due>>, NEW i, NEW failed \in BOOLEAN, ChunkTurn(s, i, failed),
         failed \/ Listed(slot[s].request.paths[i]) = {}
  PROVE  GoneAt(s)'
<1> DEFINE r == slot[s].request
           left == due[s] \cap Stored
<1>0. /\ (Stored)' = Stored /\ \A path : Under(path)' = Under(path)
      /\ slot[s].request.op = "deletePaths"
  BY DEF Stored, Under, Shape, Good, Stage
<1>1. /\ Chunks(s) \subseteq DOMAIN r.paths /\ i \in Chunks(s)
      /\ Len(r.paths) \in Nat /\ DOMAIN r.paths = 1 .. Len(r.paths)
      /\ \A j \in DOMAIN r.paths : j < slot[s].at + Parallel => j < slot[s].at \/ j \in Chunks(s)
      /\ slot[s].at \in Nat \ {0} /\ Parallel \in Nat \ {0}
  BY ChunksOfPaths, Constant DEF ChunkTurn
<1>2. /\ left \cap raced = {}
      /\ \A id \in left : \E j \in DOMAIN r.paths : id \in Under(r.paths[j])
      /\ ~slot[s].failed => \A j \in DOMAIN r.paths :
           j < slot[s].at \/ j \in slot[s].sel => Under(r.paths[j]) \cap due[s] = {}
  BY DEF GoneAt
<1>3. ASSUME ~slot[s].failed, ~failed, NEW j \in DOMAIN r.paths,
             j < slot[s].at \/ j \in slot[s].sel \cup {i}
      PROVE  Under(r.paths[j]) \cap due[s] = {}
  <2>1. CASE j = i
    BY <1>1, <1>3, <2>1, ChunkEmpty
  <2>2. CASE j # i
    BY <1>2, <1>3, <2>2
  <2>3. QED
    BY <2>1, <2>2
<1>4. ASSUME Chunks(s) \subseteq slot[s].sel \cup {i}, ~slot[s].failed, ~failed,
             NEW j \in DOMAIN r.paths, j < slot[s].at + Parallel
      PROVE  Under(r.paths[j]) \cap due[s] = {}
  BY <1>1, <1>3, <1>4
<1>5. ASSUME slot'[s].pc = "deletePaths", slot'[s].request = r,
             ~slot'[s].failed => \A j \in DOMAIN r.paths :
               j < slot'[s].at \/ j \in slot'[s].sel => Under(r.paths[j]) \cap due[s] = {}
      PROVE  GoneAt(s)'
  BY <1>0, <1>2, <1>5 DEF GoneAt, Swept
<1>6. CASE /\ slot'[s].pc = "deletePaths" /\ slot'[s].request = slot[s].request
           /\ slot'[s].at = slot[s].at
           /\ slot'[s].sel = slot[s].sel \cup {i}
           /\ slot[s].failed \/ failed => slot'[s].failed
  BY <1>3, <1>5, <1>6
<1>7. CASE Ends(s) /\ slot'[s].answer # "ok"
  BY <1>7, QuitGone DEF Ends, Quits, Swept
<1>8. CASE /\ Chunks(s) \subseteq slot[s].sel \cup {i} /\ ~slot[s].failed /\ ~failed
           /\ slot[s].at + Parallel > Len(slot[s].request.paths)
           /\ Ends(s)
  <2>1. \A j \in DOMAIN r.paths : j < slot[s].at + Parallel
    BY <1>1, <1>8
  <2>2. left = {}
    BY <1>2, <1>4, <1>8, <2>1
  <2>3. QED
    BY <1>0, <1>8, <2>2, QuitGone DEF Ends
<1>9. CASE /\ Chunks(s) \subseteq slot[s].sel \cup {i} /\ ~slot[s].failed /\ ~failed
           /\ slot'[s].pc = "deletePaths" /\ slot'[s].request = slot[s].request
           /\ slot'[s].at = slot[s].at + Parallel /\ slot'[s].sel = {}
  BY <1>4, <1>5, <1>9
<1>10. QED
  BY <1>6, <1>7, <1>8, <1>9 DEF ChunkTurn

LEMMA MetaGone ==
  ASSUME Shape, NEW s \in Slots, ReadMeta(s)
  PROVE  GoneAt(s)'
<1> DEFINE r == slot[s].request
<1>1. Moves(s) /\ MetaTurn(s) /\ UNCHANGED <<meta, points, raced>> /\ due'[s] = Gone(s)
  BY MetaMoves DEF ReadMeta, store, Shape
<1>2. (Stored)' = Stored /\ \A path : Under(path)' = Under(path)
  BY <1>1 DEF Stored, Under
<1>3. CASE Ends(s)
  <2>1. CASE slot'[s].answer = "ok" /\ r.op \in DeleteOps
    <3>1. r.op = "drop" /\ meta = None
      BY <1>1, <1>3, <2>1 DEF MetaTurn, Goes, Ends, DeleteOps
    <3>2. Gone(s) = {}
      BY <3>1 DEF Gone
    <3>3. QED
      BY <1>1, <1>3, <3>2, QuitGone DEF Ends
  <2>2. CASE ~(slot'[s].answer = "ok" /\ r.op \in DeleteOps)
    BY <1>3, <2>2, QuitGone DEF Ends, Quits, Swept
  <2>3. QED
    BY <2>1, <2>2
<1>4. CASE Goes(s, "write") \/ Goes(s, "sync") \/ Goes(s, "read") \/ Goes(s, "points")
  BY <1>4, QuitGone DEF Goes, Quits, Swept
<1>5. CASE r.op = "deleteIds" /\ Goes(s, "deleteIds")
  <2>1. Gone(s) \subseteq r.ids
    BY <1>5 DEF Gone
  <2>2. QED
    BY <1>1, <1>5, <2>1 DEF Goes, GoneAt, Swept
<1>6. CASE r.op = "deletePaths" /\ Goes(s, "deletePaths")
           /\ slot'[s].at = 1 /\ slot'[s].sel = {} /\ ~slot'[s].failed
  <2>1. Gone(s) = (UNION {Under(p) : p \in Range(r.paths)}) \ raced
    BY <1>6 DEF Gone
  <2>2. \A id \in Gone(s) : \E i \in DOMAIN r.paths : id \in Under(r.paths[i])
    BY <2>1 DEF Range
  <2>3. Gone(s) \cap raced = {}
    BY <2>1
  <2>4. \A i \in DOMAIN r.paths : i >= 1 /\ i \in Int
    BY MenuTypes DEF ReadMeta, Shape, Good, Open
  <2>5. QED
    BY <1>1, <1>2, <1>6, <2>2, <2>3, <2>4 DEF Goes, GoneAt, Swept
<1>7. QED
  BY <1>1, <1>3, <1>4, <1>5, <1>6 DEF MetaTurn

LEMMA SelfGone ==
  ASSUME Shape, Core, GoneInv, NEW s \in Slots,
         \/ Send(s) \/ TakeBody(s) \/ BadBody(s) \/ BodyTimeout(s) \/ ProcessingTimeout(s)
         \/ Statement(s)
  PROVE  GoneAt(s)'
<1>0. GoneAt(s) /\ Good(slot[s])
  BY DEF GoneInv, Shape
<1>1. CASE Send(s)
  BY <1>1, SendMoves, QuitGone DEF Quits, Swept
<1>2. CASE TakeBody(s) \/ BadBody(s)
  BY <1>2, BodyMoves, QuitGone DEF Quits, Swept
<1>3. CASE BodyTimeout(s) \/ ProcessingTimeout(s)
  <2>1. slot[s].pc = "body" \/ slot[s].request.op = "upsert"
    BY <1>3 DEF BodyTimeout, ProcessingTimeout, TimeOut, BodyArmed, ProcessingArmed, Serves
  <2>2. slot[s].pc \notin Swept \cup {"deleteIds", "deletePaths"}
    BY <1>0, <2>1 DEF Good, Stage, Swept, Sweeping
  <2>3. QED
    BY <1>3, <2>2, TimeoutMoves, QuitGone DEF Stays, Quits
<1>4. CASE ReadMeta(s)
  BY <1>4, MetaGone
<1>5. CASE WriteMeta(s) \/ DropMeta(s)
  <2>1. /\ Ends(s) \/ slot'[s] = slot[s]
        /\ \/ slot[s].pc = "write" /\ slot[s].request.op = "create"
           \/ slot[s].pc = "dropMeta"
        /\ UNCHANGED <<points, raced, due>> /\ (Stored)' = Stored
    BY <1>0, <1>5, WriteMoves DEF WriteMeta, DropMeta, Good, Stage, Stored
  <2>2. CASE slot'[s] = slot[s]
    BY <1>0, <2>1, <2>2, IdleSpares, KeepGone
  <2>3. CASE Ends(s) /\ slot[s].pc = "write" /\ slot[s].request.op = "create"
    BY <2>3, QuitGone DEF Ends, Quits, Swept, DeleteOps
  <2>4. CASE Ends(s) /\ slot[s].pc = "dropMeta"
    BY <1>0, <2>1, <2>4, QuitGone DEF Ends, GoneAt, Swept
  <2>5. QED
    BY <2>1, <2>2, <2>3, <2>4
<1>6. CASE Sync(s) \/ Bulk(s)
  <2>1. slot[s].request.op = "upsert" /\ slot[s].pc \in {"sync", "bulk"}
    BY <1>0, <1>6 DEF Sync, Bulk, Good, Stage
  <2>2. slot'[s].request = slot[s].request /\ slot'[s].pc \in {"sync", "bulk", "idle"}
    BY <1>6, <2>1, SyncMoves, BulkMoves DEF Goes, BulkTurn, Ends
  <2>3. QED
    BY <2>1, <2>2, QuitGone DEF Quits, Swept, DeleteOps
<1>7. CASE DeleteIds(s)
  <2>1. (Ends(s) \/ slot'[s] = slot[s]) /\ slot[s].pc = "deleteIds"
        /\ points' = Removed(slot[s].request.ids)
        /\ Noted(s, slot[s].request.ids \cap Stored, {})
    BY <1>7, WriteMoves DEF DeleteIds
  <2>2. CASE slot'[s] = slot[s]
    BY <1>0, <1>7, <2>2, DeleteSpares, KeepGone
  <2>3. CASE Ends(s)
    <3>1. due[s] \subseteq slot[s].request.ids /\ due'[s] = due[s]
      BY <1>0, <2>1 DEF GoneAt, Noted
    <3>2. (Stored)' = Stored \ slot[s].request.ids
      BY <2>1, RemovedTypes
    <3>3. QED
      BY <2>3, <3>1, <3>2, QuitGone DEF Ends
  <2>4. QED
    BY <2>1, <2>2, <2>3
<1>8. CASE DeleteChunk(s)
  <2>0. slot[s].pc = "deletePaths"
    BY <1>8, DeleteChunkMoves
  <2>1. CASE slot'[s] = slot[s]
    BY <1>0, <1>8, <2>1, DeleteSpares, KeepGone
  <2>2. ASSUME NEW i, Listed(slot[s].request.paths[i]) = {},
               UNCHANGED <<points, lookup, raced, due>>, ChunkTurn(s, i, FALSE)
        PROVE  GoneAt(s)'
    BY <1>0, <2>0, <2>2, ChunkGone
  <2>3. QED
    BY <1>8, <2>1, <2>2, DeleteChunkMoves
<1>9. CASE ChunkFails(s)
  <2>1. PICK i : ChunkTurn(s, i, TRUE)
    BY <1>9, ChunkFailsMoves
  <2>2. slot[s].pc = "deletePaths" /\ UNCHANGED <<points, raced, due>>
    BY <1>9, ChunkFailsMoves DEF store, history
  <2>3. QED
    BY <1>0, <2>1, <2>2, ChunkGone
<1>10. CASE (BatchDelete(s) \/ Cut(s)) /\ slot[s].pc \in {"points", "cut"}
  <2>1. PICK ids \in SUBSET Ids :
          /\ points' = Removed(ids)
          /\ \/ slot'[s] = slot[s]
             \/ Goes(s, "lookup") /\ ids = Stored
             \/ Goes(s, "pick")
    BY <1>10, SweepPointsMoves
  <2>2. CASE slot'[s] = slot[s]
    BY <1>0, <1>10, <2>2, SweepSpares, KeepGone
  <2>3. CASE Goes(s, "lookup") /\ ids = Stored
    <3>1. (Stored)' = {}
      BY <2>1, <2>3, RemovedTypes
    <3>2. QED
      BY <2>3, <3>1, QuitGone DEF Goes, Swept
  <2>4. CASE Goes(s, "pick")
    BY <2>4, QuitGone DEF Goes, Quits, Swept
  <2>5. QED
    BY <2>1, <2>2, <2>3, <2>4
<1>11. CASE (BatchDelete(s) \/ Cut(s)) /\ slot[s].pc \notin {"points", "cut"}
  <2>1. /\ slot'[s] = slot[s] \/ AfterTurn(s) \/ Goes(s, "pickRows")
        /\ slot[s].pc \in {"lookup", "cutRows"} /\ UNCHANGED <<points, due>>
    BY <1>11, SweepRowsMoves
  <2>2. due'[s] \cap (Stored)' = {}
    BY <1>0, <2>1 DEF GoneAt, Swept, Stored
  <2>3. slot'[s].pc \in Swept \cup {"idle"}
    BY <2>1 DEF AfterTurn, Goes, Ends, Swept
  <2>4. QED
    BY <2>2, <2>3, QuitGone
<1>12. CASE Select(s)
  <2>1. /\ \/ Goes(s, "lookup") /\ Stored = {}
           \/ Goes(s, "cut")
           \/ slot[s].pc \in {"lookup", "pickRows"} /\ (AfterTurn(s) \/ Goes(s, "cutRows"))
        /\ (Stored)' = Stored /\ due' = due
    BY <1>12, SelectMoves DEF Select, store, history, Stored
  <2>2. CASE Goes(s, "cut")
    BY <2>2, QuitGone DEF Goes, Quits, Swept
  <2>3. CASE ~Goes(s, "cut")
    <3>1. due'[s] \cap (Stored)' = {}
      BY <1>0, <2>1, <2>3 DEF GoneAt, Swept
    <3>2. slot'[s].pc \in Swept \cup {"idle"}
      BY <2>1, <2>3 DEF AfterTurn, Goes, Ends, Swept
    <3>3. QED
      BY <3>1, <3>2, QuitGone
  <2>4. QED
    BY <2>2, <2>3
<1>13. CASE Search(s) \/ Fail(s)
  BY <1>13, SearchMoves, FailMoves, QuitGone DEF Ends, Quits, Swept, DeleteOps
<1>14. CASE Rerun(s)
  BY <1>14, RerunMoves, QuitGone DEF Quits, Swept
<1>15. QED
  BY <1>1, <1>2, <1>3, <1>4, <1>5, <1>6, <1>7, <1>8, <1>9, <1>10, <1>11, <1>12, <1>13, <1>14
     DEF Statement

LEMMA CrashSpares ==
  ASSUME Shape, Crash \/ UNCHANGED vars
  PROVE  /\ \A t \in Slots : Spared(t)
         /\ \A t \in Slots : \/ slot'[t] = slot[t]
                             \/ Ends(t) /\ slot'[t].answer # "ok"
<1>1. UNCHANGED <<points, raced, due>>
  BY DEF Crash, vars, store, history
<1>2. QED
  BY <1>1, CrashMoves, IdleSpares DEF vars

LEMMA GoneNext == Shape /\ Core /\ GoneInv /\ [Next]_vars => GoneInv'
<1> SUFFICES ASSUME Shape, Core, GoneInv, [Next]_vars PROVE GoneInv'
  OBVIOUS
<1>1. ASSUME NEW s \in Slots,
             \/ Send(s) \/ TakeBody(s) \/ BadBody(s) \/ BodyTimeout(s) \/ ProcessingTimeout(s)
             \/ Statement(s)
      PROVE  GoneInv'
  <2>1. GoneAt(s)'
    BY <1>1, SelfGone
  <2>2. ASSUME NEW t \in Slots \ {s}  PROVE GoneAt(t)'
    <3>1. Spared(t)
      BY <1>1, OthersSpared
    <3>2. slot'[t] = slot[t]
      BY <1>1, OthersStay
    <3>3. QED
      BY <3>1, <3>2, KeepGone DEF GoneInv
  <2>3. QED
    BY <2>1, <2>2 DEF GoneInv
<1>2. CASE Crash \/ UNCHANGED vars
  <2> SUFFICES ASSUME NEW t \in Slots PROVE GoneAt(t)'
    BY DEF GoneInv
  <2>1. CASE slot'[t] = slot[t]
    BY <1>2, <2>1, CrashSpares, KeepGone DEF GoneInv
  <2>2. CASE Ends(t) /\ slot'[t].answer # "ok"
    BY <2>2, QuitGone DEF Ends, Quits, Swept
  <2>3. QED
    BY <1>2, <2>1, <2>2, CrashSpares
<1>3. QED
  BY <1>1, <1>2 DEF Next

-----------------------------------------------------------------------------
(* Upserts.                                                                *)

\* No request names an id twice.  The code does not look for that: of two points with one
\* id the one that YDB writes last stays.
DistinctIds == \A r \in Menu : \A i, j \in DOMAIN r.points :
                 r.points[i].id = r.points[j].id => i = j

Whole(t, i) == LET p == slot[t].request.points[i]
               IN p.id \in due[t] => points[p.id] = [path |-> p.path, dim |-> slot[t].request.dim]

\* The batches before the one at hand are stored; all are when the answer is "ok".
WholeAt(t) ==
  /\ Uploading(t) => \A i \in DOMAIN slot[t].request.points : i < slot[t].at => Whole(t, i)
  /\ Answered(t, "upsert") => \A i \in DOMAIN slot[t].request.points : Whole(t, i)

WholeInv == \A t \in Slots : WholeAt(t)

LEMMA KeepWhole ==
  ASSUME Shape, NEW t \in Slots, WholeAt(t), slot'[t] = slot[t], Spared(t)
  PROVE  WholeAt(t)'
<1>1. CASE slot[t].request # None /\ slot[t].request.op = "upsert"
  <2>1. ASSUME NEW i, Whole(t, i)  PROVE Whole(t, i)'
    BY <1>1, <2>1 DEF Spared, Whole
  <2>2. QED
    BY <2>1 DEF WholeAt, Uploading, Answered
<1>2. CASE ~(slot[t].request # None /\ slot[t].request.op = "upsert")
  <2>1. Good(slot[t])
    BY DEF Shape
  <2>2. ~Uploading(t) /\ ~Answered(t, "upsert")
    BY <1>2, <2>1, Constant DEF Uploading, Answered, Good, Open, Stage
  <2>3. QED
    BY <2>2 DEF WholeAt, Uploading, Answered
<1>3. QED
  BY <1>1, <1>2

LEMMA BulkWhole ==
  ASSUME DistinctIds, Shape, NEW s \in Slots, Bulk(s), WholeAt(s)
  PROVE  WholeAt(s)'
<1> DEFINE r == slot[s].request
           new == {p.id : p \in InBatch(s)}
<1>0. Uploading(s) /\ r \in Menu /\ due'[s] = due[s] /\ slot[s].at \in Nat \ {0}
      /\ due[s] \subseteq Ids
  BY DEF Bulk, Uploading, Shape, Good, Open, SlotType, Noted
<1>1. /\ \A p \in InBatch(s) : \E i \in DOMAIN r.points :
           /\ p = r.points[i] /\ i >= slot[s].at /\ i < slot[s].at + Batch
      /\ \A i \in DOMAIN r.points :
           i >= slot[s].at /\ i < slot[s].at + Batch => r.points[i] \in InBatch(s)
  BY <1>0, BatchTypes
<1>2. /\ \A id \in Ids \ new : points'[id] = points[id]
      /\ \A id \in new : \E p \in InBatch(s) :
           p.id = id /\ points'[id] = [path |-> p.path, dim |-> r.dim]
  BY BulkPoints
<1>3. DOMAIN r.points = 1 .. Len(r.points) /\ Len(r.points) \in Nat /\ Batch \in Nat \ {0}
  BY <1>0, MenuTypes, Constant
<1>4. \A i, j \in DOMAIN r.points : r.points[i].id = r.points[j].id => i = j
  BY <1>0 DEF DistinctIds
<1>5. ASSUME NEW i \in DOMAIN r.points, i < slot[s].at, r.points[i].id \in due[s]
      PROVE  points'[r.points[i].id] = [path |-> r.points[i].path, dim |-> r.dim]
  <2>1. points[r.points[i].id] = [path |-> r.points[i].path, dim |-> r.dim]
    BY <1>0, <1>5 DEF WholeAt, Whole
  <2>2. r.points[i].id \notin new
    <3>1. SUFFICES ASSUME NEW p \in InBatch(s), p.id = r.points[i].id PROVE FALSE
      OBVIOUS
    <3>2. PICK j \in DOMAIN r.points : p = r.points[j] /\ j >= slot[s].at
      BY <1>1
    <3>3. i = j
      BY <1>4, <3>1, <3>2
    <3>4. QED
      BY <1>0, <1>3, <1>5, <3>2, <3>3
  <2>3. QED
    BY <1>0, <1>2, <1>5, <2>1, <2>2
<1>6. ASSUME NEW i \in DOMAIN r.points, i >= slot[s].at, i < slot[s].at + Batch
      PROVE  points'[r.points[i].id] = [path |-> r.points[i].path, dim |-> r.dim]
  <2>1. r.points[i].id \in new
    BY <1>1, <1>6
  <2>2. PICK p \in InBatch(s) :
          /\ p.id = r.points[i].id
          /\ points'[r.points[i].id] = [path |-> p.path, dim |-> r.dim]
    BY <1>2, <2>1
  <2>3. PICK j \in DOMAIN r.points : p = r.points[j]
    BY <1>1
  <2>4. i = j
    BY <1>4, <2>2, <2>3
  <2>5. QED
    BY <2>2, <2>3, <2>4
<1> HIDE DEF new
<1>7. BulkTurn(s)
  BY BulkMoves
<1>8. CASE slot'[s] = slot[s]
  <2>1. ~Answered(s, "upsert")' /\ slot'[s].request = r /\ slot'[s].at = slot[s].at
    BY <1>0, <1>8 DEF Answered, Uploading
  <2>2. ASSUME NEW i \in DOMAIN r.points, i < slot[s].at  PROVE Whole(s, i)'
    BY <1>0, <1>5, <2>1, <2>2 DEF Whole
  <2>3. QED
    BY <2>1, <2>2 DEF WholeAt
<1>9. CASE /\ slot'[s].pc = "sync" /\ slot'[s].request = r /\ slot'[s].at = slot[s].at + Batch
  <2>1. ~Answered(s, "upsert")'
    BY <1>9 DEF Answered
  <2>2. ASSUME NEW i \in DOMAIN r.points, i < slot[s].at + Batch  PROVE Whole(s, i)'
    <3>1. i < slot[s].at \/ i >= slot[s].at
      BY <1>0, <1>3
    <3>2. QED
      BY <1>0, <1>5, <1>6, <1>9, <2>2, <3>1 DEF Whole
  <2>3. QED
    BY <1>9, <2>1, <2>2 DEF WholeAt
<1>10. CASE slot[s].at + Batch \notin DOMAIN r.points /\ Ends(s)
  <2>1. \A i \in DOMAIN r.points : i < slot[s].at + Batch /\ (i < slot[s].at \/ i >= slot[s].at)
    BY <1>0, <1>3, <1>10
  <2>2. ASSUME NEW i \in DOMAIN r.points  PROVE Whole(s, i)'
    BY <1>0, <1>5, <1>6, <1>10, <2>1 DEF Whole, Ends
  <2>3. QED
    BY <1>10, <2>2 DEF WholeAt, Ends, Uploading
<1>11. QED
  BY <1>7, <1>8, <1>9, <1>10 DEF BulkTurn

LEMMA QuitWhole ==
  ASSUME NEW t \in Slots, slot'[t].pc \notin {"sync", "bulk"},
         ~(slot'[t].pc = "idle" /\ slot'[t].answer = "ok" /\ slot'[t].request.op = "upsert")
  PROVE  WholeAt(t)'
  BY DEF WholeAt, Uploading, Answered

LEMMA FirstWhole ==
  ASSUME Shape', NEW t \in Slots, slot'[t].pc = "sync", slot'[t].at = 1
  PROVE  WholeAt(t)'
<1>1. slot'[t].request \in Menu
  BY DEF Shape, Good, Open
<1>2. \A i \in DOMAIN slot'[t].request.points : i >= 1 /\ i \in Int
  BY <1>1, MenuTypes
<1>3. QED
  BY <1>2 DEF WholeAt, Answered

LEMMA SelfWhole ==
  ASSUME DistinctIds, Shape, Shape', Core, WholeInv, NEW s \in Slots,
         \/ Send(s) \/ TakeBody(s) \/ BadBody(s) \/ BodyTimeout(s) \/ ProcessingTimeout(s)
         \/ Statement(s)
  PROVE  WholeAt(s)'
<1>0. WholeAt(s) /\ Good(slot[s])
  BY DEF WholeInv, Shape
<1>1. CASE Send(s)
  BY <1>1, SendMoves, QuitWhole
<1>2. CASE TakeBody(s) \/ BadBody(s)
  BY <1>2, BodyMoves, QuitWhole
<1>3. ASSUME UNCHANGED <<points, due>>, slot[s].pc # "idle", slot'[s].pc # "idle",
             slot'[s].pc = slot[s].pc \/ slot[s].pc \in {"sync", "bulk"},
             slot'[s].request = slot[s].request, slot'[s].at = slot[s].at
      PROVE  WholeAt(s)'
  BY <1>0, <1>3 DEF WholeAt, Whole, Uploading, Answered
<1>4. CASE BodyTimeout(s) \/ ProcessingTimeout(s)
  <2>1. UNCHANGED <<points, due>>
    BY <1>4 DEF BodyTimeout, ProcessingTimeout, TimeOut, store, history
  <2>2. QED
    BY <1>3, <1>4, <2>1, TimeoutMoves DEF Stays
<1>5. CASE ReadMeta(s)
  <2>1. MetaTurn(s) /\ slot[s].at = 1
    BY <1>0, <1>5, MetaMoves DEF ReadMeta, Good, Stage
  <2>2. CASE Goes(s, "sync")
    BY <2>1, <2>2, FirstWhole DEF Goes
  <2>3. CASE ~Goes(s, "sync")
    BY <2>1, <2>3, QuitWhole DEF MetaTurn, Goes, Ends
  <2>4. QED
    BY <2>2, <2>3
<1>6. CASE WriteMeta(s) \/ DropMeta(s) \/ DeleteIds(s)
  BY <1>6, WriteMoves, QuitWhole DEF Ends
<1>7. CASE Sync(s)
  <2>1. slot[s].pc = "sync" /\ UNCHANGED <<points, due>>
    BY <1>7 DEF Sync
  <2>2. QED
    BY <1>3, <1>7, <2>1, SyncMoves DEF Goes
<1>8. CASE Bulk(s)
  BY <1>0, <1>8, BulkWhole
<1>9. CASE DeleteChunk(s) \/ ChunkFails(s)
  <2>1. slot[s].pc = "deletePaths" /\ slot[s].request.op = "deletePaths"
    BY <1>0, <1>9, DeleteChunkMoves DEF Good, Stage, ChunkFails
  <2>2. slot'[s] = slot[s] \/ \E i, failed : ChunkTurn(s, i, failed)
    BY <1>9, DeleteChunkMoves, ChunkFailsMoves
  <2>3. slot'[s].pc \in {"deletePaths", "idle"} /\ slot'[s].request = slot[s].request
    BY <2>1, <2>2 DEF ChunkTurn, Ends
  <2>4. QED
    BY <2>1, <2>3, QuitWhole
<1>10. CASE BatchDelete(s) \/ Cut(s) \/ Select(s)
  <2>1. /\ slot[s].pc \in Sweeping
        /\ slot'[s] = slot[s] \/ AfterTurn(s)
           \/ \E pc \in {"lookup", "pick", "cut", "cutRows", "pickRows"} : Goes(s, pc)
    BY <1>10, SweepPointsMoves, SweepRowsMoves, SelectMoves
  <2>2. slot[s].request.op \in {"drop", "clear"}
    BY <1>0, <2>1 DEF Good, Stage
  <2>3. /\ slot'[s].pc \in Sweeping \cup {"idle"} /\ slot'[s].request = slot[s].request
    BY <2>1 DEF AfterTurn, Goes, Ends, Sweeping
  <2>4. QED
    BY <2>2, <2>3, QuitWhole DEF Sweeping
<1>11. CASE Search(s) \/ Fail(s)
  BY <1>11, SearchMoves, FailMoves, QuitWhole DEF Ends
<1>12. CASE Rerun(s)
  <2>1. (slot'[s].pc = "sync" /\ slot'[s].at = 1) \/ slot'[s].pc = "points"
    BY <1>12, RerunMoves
  <2>2. QED
    BY <2>1, FirstWhole, QuitWhole
<1>13. QED
  BY <1>1, <1>2, <1>4, <1>5, <1>6, <1>7, <1>8, <1>9, <1>10, <1>11, <1>12 DEF Statement

LEMMA WholeNext ==
  ASSUME DistinctIds
  PROVE  Shape /\ Shape' /\ Core /\ WholeInv /\ [Next]_vars => WholeInv'
<1> SUFFICES ASSUME Shape, Shape', Core, WholeInv, [Next]_vars PROVE WholeInv'
  OBVIOUS
<1>1. ASSUME NEW s \in Slots,
             \/ Send(s) \/ TakeBody(s) \/ BadBody(s) \/ BodyTimeout(s) \/ ProcessingTimeout(s)
             \/ Statement(s)
      PROVE  WholeInv'
  <2>1. WholeAt(s)'
    BY <1>1, SelfWhole
  <2>2. ASSUME NEW t \in Slots \ {s}  PROVE WholeAt(t)'
    <3>1. Spared(t)
      BY <1>1, OthersSpared
    <3>2. slot'[t] = slot[t]
      BY <1>1, OthersStay
    <3>3. QED
      BY <3>1, <3>2, KeepWhole DEF WholeInv
  <2>3. QED
    BY <2>1, <2>2 DEF WholeInv
<1>2. CASE Crash \/ UNCHANGED vars
  <2> SUFFICES ASSUME NEW t \in Slots PROVE WholeAt(t)'
    BY DEF WholeInv
  <2>1. CASE slot'[t] = slot[t]
    BY <1>2, <2>1, CrashSpares, KeepWhole DEF WholeInv
  <2>2. CASE Ends(t) /\ slot'[t].answer # "ok"
    BY <2>2, QuitWhole DEF Ends
  <2>3. QED
    BY <1>2, <2>1, <2>2, CrashSpares
<1>3. QED
  BY <1>1, <1>2 DEF Next

-----------------------------------------------------------------------------
(* The theorems.                                                           *)

LEMMA Invariant == Spec => [](Shape /\ Core)
<1>1. Init => Shape /\ Core
  BY CoreInit
<1>2. Shape /\ Core /\ [Next]_vars => (Shape /\ Core)'
  BY ShapeNext, CoreNext
<1>3. QED
  BY <1>1, <1>2, PTL DEF Spec

\* The types, and that a request is answered once, whichever of its timers and its
\* handler comes first.
THEOREM TypeCorrect == Spec => []TypeOK
<1>1. Shape => TypeOK
  <2> SUFFICES ASSUME Shape PROVE TypeOK
    OBVIOUS
  <2>1. \A id \in Stored : points[id].path \in Paths /\ points[id].dim \in Dims
    BY DEF Shape, Stored, PointType
  <2>2. ASSUME NEW s \in Slots
        PROVE  /\ slot[s].pc \in Working \cup {"idle", "body"}
               /\ slot[s].answer \in Answers /\ slot[s].said \in {0, 1}
               /\ slot[s].pc = "body" => slot[s].answer \in {"none", "503"}
               /\ slot[s].pc # "idle" => slot[s].request \in Menu
               /\ slot[s].pc = "cut" => slot[s].sel \subseteq Ids
               /\ slot[s].pc = "cutRows" => slot[s].sel \subseteq Folders \X Ids
               /\ slot[s].pc = "deletePaths" => slot[s].sel \subseteq DOMAIN slot[s].request.paths
               /\ slot[s].pc \in {"sync", "bulk"} => slot[s].at \in DOMAIN slot[s].request.points
               /\ due[s] \subseteq Ids
    <3>1. Good(slot[s]) /\ due[s] \subseteq Ids
      BY DEF Shape
    <3>2. QED
      BY <3>1 DEF Good, SlotType, Open, Stage
  <2>3. QED
    BY <2>1, <2>2 DEF Shape, TypeOK
<1>2. QED
  BY <1>1, Invariant, PTL

\* A delete by path finds the points a search under the path finds, except for ids that an
\* upsert and a delete worked on at the same time: for any number of overlapping, failing
\* and repeated requests.
THEOREM DeleteFinds == Spec => []DeleteFindsWhatSearchFinds
<1>1. Shape /\ Core => DeleteFindsWhatSearchFinds
  <2> SUFFICES ASSUME Shape, Core, NEW path \in Folders, NEW id \in Under(path) \ raced
               PROVE  id \in IdsOf(Listed(path))
    BY DEF DeleteFindsWhatSearchFinds
  <2>1. PICK q \in Paths : path \in Ancestors(q)
    BY DEF Folders
  <2>2. path \in Seq(Range(path)) /\ path # <<>>
    BY <2>1, AncestorIsPrefix
  <2>3. QED
    BY <2>2, UnderIsListed DEF Core
<1>2. QED
  BY <1>1, Invariant, PTL

\* Points belong to a collection that exists and have its dimension, also when the process
\* dies in the middle of a drop, unless an upsert overlapped it or two creations met.
THEOREM PointsBelong == Spec => []PointsOfCollection
<1>1. Core => PointsOfCollection
  BY DEF Core, DimInv, PointsOfCollection
<1>2. QED
  BY <1>1, Invariant, PTL

\* A point disappears only through a request that names its id, a directory above it or the
\* whole collection, unless its id was upserted with more than one path.
THEOREM OnPurpose == Spec => RemovedOnPurpose
<1> DEFINE Purpose(s, id) ==
             LET r == slot[s].request
             IN \/ r.op \in {"drop", "clear"}
                \/ r.op = "deleteIds" /\ id \in r.ids
                \/ /\ r.op = "deletePaths"
                   /\ \/ \E p \in Range(r.paths) : IsPrefix(p, points[id].path)
                      \/ Cardinality(was[id]) > 1
           Kept == \A id \in Ids : points[id] # None /\ points'[id] = None =>
                     \E s \in Slots : /\ slot[s].pc \in Working
                                      /\ Purpose(s, id)
<1>1. Shape /\ Core /\ [Next]_vars => Kept
  <2> SUFFICES ASSUME Shape, Core, [Next]_vars, NEW id \in Ids,
                      points[id] # None, points'[id] = None
               PROVE  \E s \in Slots : slot[s].pc \in Working /\ Purpose(s, id)
    OBVIOUS
  <2>1. ASSUME NEW s \in Slots, DeleteIds(s)
        PROVE  slot[s].pc \in Working /\ Purpose(s, id)
    <3>1. slot[s].request.op = "deleteIds" /\ slot[s].pc = "deleteIds"
      BY <2>1 DEF DeleteIds, Shape, Good, Stage
    <3>2. id \in slot[s].request.ids
      BY <2>1 DEF DeleteIds, Removed
    <3>3. QED
      BY <3>1, <3>2 DEF Working
  <2>2. ASSUME NEW s \in Slots, DeleteChunk(s)
        PROVE  slot[s].pc \in Working /\ Purpose(s, id)
    <3>0. slot[s].pc = "deletePaths" /\ slot[s].request.op = "deletePaths"
      BY <2>2, DeleteChunkMoves
    <3>1. PICK i \in Chunks(s), part \in SUBSET (Folders \X Ids) :
            /\ part \subseteq Listed(slot[s].request.paths[i])
            /\ points' = Removed(IdsOf(part))
      <4>1. points' # points
        OBVIOUS
      <4>2. PICK i \in Chunks(s) \ slot[s].sel :
              \E part \in SUBSET (Folders \X Ids) :
                /\ part \subseteq Listed(slot[s].request.paths[i])
                /\ points' = Removed(IdsOf(part))
        BY <2>2, <4>1, DeleteChunkMoves
      <4>3. QED
        BY <4>2
    <3>2. id \in IdsOf(part)
      BY <3>1 DEF Removed
    <3> DEFINE p == slot[s].request.paths[i]
    <3>3. PICK row \in lookup : row[1] = p /\ row[2] = id
      BY <3>1, <3>2 DEF IdsOf, Listed
    <3>4. p \in Range(slot[s].request.paths)
      BY <3>0, ChunksOfPaths DEF Range
    <3>5. PICK w \in was[id] : p \in Ancestors(w)
      BY <3>3 DEF Core, WasInv
    <3>6. points[id].path \in was[id] /\ was[id] \subseteq Paths /\ IsFiniteSet(was[id])
      BY DEF Core, WasInv, Stored, Shape
    <3> HIDE DEF p
    <3>7. CASE w = points[id].path
      <4>1. IsPrefix(p, points[id].path)
        BY <3>5, <3>6, <3>7, AncestorIsPrefix
      <4>2. QED
        BY <3>0, <3>4, <4>1 DEF Working
    <3>8. CASE w # points[id].path
      <4>1. Cardinality({w, points[id].path}) = 2
        BY <3>8, CardinalityOfTwo
      <4>2. {w, points[id].path} \subseteq was[id]
        BY <3>5, <3>6
      <4>3. Cardinality({w, points[id].path}) <= Cardinality(was[id])
            /\ Cardinality(was[id]) \in Nat
        BY <3>6, <4>2, FS_Subset, FS_CardinalityType
      <4>4. QED
        BY <3>0, <4>1, <4>3 DEF Working
    <3>9. QED
      BY <3>7, <3>8
  <2>3. ASSUME NEW s \in Slots, BatchDelete(s) \/ Cut(s)
        PROVE  slot[s].pc \in Working /\ Purpose(s, id)
    <3>1. slot[s].pc \in Sweeping
      BY <2>3 DEF BatchDelete, Cut, Sweeping
    <3>2. slot[s].request.op \in {"drop", "clear"}
      BY <3>1 DEF Shape, Good, Stage
    <3>3. QED
      BY <3>1, <3>2 DEF Working
  <2>4. ASSUME NEW s \in Slots, Bulk(s)  PROVE FALSE
    <3>1. id \in (Stored)'
      BY <2>4, BulkPoints DEF Stored
    <3>2. QED
      BY <3>1 DEF Stored
  <2>5. CASE UNCHANGED points
    BY <2>5
  <2>6. QED
    <3>1. ASSUME NEW s \in Slots,
                 \/ Send(s) \/ TakeBody(s) \/ BadBody(s) \/ BodyTimeout(s) \/ ProcessingTimeout(s)
                 \/ ReadMeta(s) \/ WriteMeta(s) \/ Sync(s) \/ ChunkFails(s) \/ Select(s)
                 \/ DropMeta(s) \/ Search(s) \/ Fail(s) \/ Rerun(s)
          PROVE  points' = points
      BY <3>1 DEF Send, TakeBody, BadBody, BodyTimeout, ProcessingTimeout, TimeOut, ReadMeta,
                  WriteMeta, Sync, ChunkFails, Select, DropMeta, Search, Fail, Rerun, store
    <3>2. Crash \/ UNCHANGED vars => points' = points
      BY DEF Crash, vars, store
    <3>3. QED
      BY <2>1, <2>2, <2>3, <2>4, <2>5, <3>1, <3>2 DEF Next, Statement
<1>2. Spec => [][Kept]_vars
  BY <1>1, Invariant, PTL DEF Spec
<1>3. QED
  BY <1>2, PTL DEF RemovedOnPurpose

\* A delete, a clear or a drop that was answered has removed what it was told to remove,
\* however the statements of others come in between and fail, except for what they upserted
\* since.
THEOREM DeletesComplete == Spec => []DeletedIsGone
<1>1. Init => GoneInv
  BY DEF Init, GoneInv, GoneAt, Free, Swept
<1>2. Shape /\ Core /\ GoneInv /\ [Next]_vars => GoneInv'
  BY GoneNext
<1>3. GoneInv => DeletedIsGone
  BY DEF GoneInv, GoneAt, DeletedIsGone, Answered, DeleteOps
<1>4. QED
  BY <1>1, <1>2, <1>3, Invariant, PTL DEF Spec

\* An upsert that was answered "completed" has stored all its batches, however often it was
\* run again, except for points others wrote or removed since it was sent, if no request
\* names an id twice.
THEOREM UpsertsComplete == ASSUME DistinctIds PROVE Spec => []CompletedIsWhole
<1>1. Init => WholeInv
  BY DEF Init, WholeInv, WholeAt, Free, Uploading, Answered
<1>2. Shape /\ Shape' /\ Core /\ WholeInv /\ [Next]_vars => WholeInv'
  BY WholeNext
<1>3. WholeInv => CompletedIsWhole
  BY DEF WholeInv, WholeAt, Whole, CompletedIsWhole
<1>4. QED
  BY <1>1, <1>2, <1>3, Invariant, PTL DEF Spec

=============================================================================
