------------------------------- MODULE Catalog -------------------------------
(***************************************************************************)
(* Who is shown which project, and when: the lists and pages of the web    *)
(* service (apps/projects, account, users, faculty, frontend), and the     *)
(* search and the recommendations that ask the ml service (apps/recs) and  *)
(* are cached in the memory of a worker (frontend/views/projects.py).      *)
(***************************************************************************)
EXTENDS Notices, Integers

CONSTANTS
  Owner,         \* of each project
  Confirmed,     \* projects with a confirmed faculty match
  Words,         \* what a project's text and tags say, as InterestSets do
  InitialStatus,
  StatusMoves,   \* statuses that moderation, staffing and edits give
  SearchLimit, RecommendedCount,
  CacheTTL,      \* _RECS_CACHE_TTL, in ticks
  RemoteTicks,   \* what one call of the ml service may last, at most
  MaxMoves, MaxTicks  \* bounds

Statuses == {"draft", "on_moderation", "published", "staffed", "gone"}
Catalogued == {"published", "staffed"}
ASSUME CatalogAssumption ==
  /\ InitialStatus \in [Projects -> Statuses] /\ StatusMoves \subseteq Statuses
  /\ Words \in [Projects -> SUBSET UNION InterestSets]
  /\ {CacheTTL, RemoteTicks, SearchLimit, RecommendedCount} \subseteq Nat \ {0}
  /\ MaxMoves \in Nat /\ MaxTicks \in Nat

VARIABLES
  now,       \* the clock, in ticks
  page,      \* of each worker: the recommendations it has cached
  shown,     \* the answer that is being given, if any
  lastPublic,\* history: when each project was last in the catalogue
  moves      \* bound

clockVars == <<now, page, lastPublic, moves>>
catalogVars == <<clockVars, shown>>
vars == <<project, profileVars, request, requests, asked, clash, notice, catalogVars>>

\* Further back than any answer looks.
Never == -1 - CacheTTL - RemoteTicks

Public == {p \in Projects : project[p] \in Catalogued}
Published == {p \in Projects : project[p] = "published"}
Own(u) == {p \in Existing : Owner[p] = u}

-----------------------------------------------------------------------------
(***************************************************************************)
(* Filters of the API against what a row says of itself.  A window is the  *)
(* first and the last day of applications; 0 stands for NULL.              *)
(***************************************************************************)
StaffingState(row) == IF row.accepted >= row.team THEN "full" ELSE "open"

WindowState(row, today) ==
  IF row.opened # 0 /\ today < row.opened THEN "upcoming"
  ELSE IF row.deadline # 0 /\ today > row.deadline THEN "closed"
  ELSE "open"

StaffingFilter(row, state) ==
  \/ state = "open" /\ row.accepted < row.team
  \/ state = "full" /\ row.accepted >= row.team

\* Mutation of WindowFilter: the last day is closed already.
WindowFilterLastDay(row, today, state) ==
  \/ state = "upcoming" /\ row.opened # 0 /\ row.opened > today
  \/ state = "closed" /\ row.deadline # 0 /\ row.deadline <= today
  \/ state = "open" /\ (row.opened = 0 \/ row.opened <= today)
                    /\ (row.deadline = 0 \/ row.deadline >= today)

WindowFilter(row, today, state) ==
  \/ state = "upcoming" /\ row.opened # 0 /\ row.opened > today
  \/ state = "closed" /\ row.deadline # 0 /\ row.deadline < today
  \/ state = "open" /\ (row.opened = 0 \/ row.opened <= today)
                    /\ (row.deadline = 0 \/ row.deadline >= today)

-----------------------------------------------------------------------------
(***************************************************************************)
(* Lists and pages that are read in one go.                                *)
(***************************************************************************)
\* The API's list and detail; who may change and delete.
Visible(u) == Public \union Own(u)
Editable(u) == IF Role[u] = "staff" THEN Existing ELSE IF Role[u] = "customer" THEN Own(u) ELSE {}

\* The second router lists every row.
Alternate == Existing

\* The project page: a customer's own projects, everybody else's catalogue.
Catalogue(u) == IF Role[u] = "customer" THEN Own(u) ELSE Published

\* The page of one project.
Detail(u) == Visible(u) \union (IF Role[u] = "staff" THEN Existing ELSE {})

\* The bookmarks of the project page are rows of any status, the favourites of
\* the API are in the catalogue; overviews have rows of any status again.
Bookmarks(u) == Existing \intersect profile[u].favourites
Favourites(u) == Public \intersect profile[u].favourites
Overview(u) == IF HasRole(u, {"student"}) THEN Bookmarks(u) ELSE {}
OverviewPage(u) == IF Role[u] = "student" THEN Bookmarks(u) ELSE {}

\* A customer's projects, the moderators' queue, a person's confirmed projects.
Mine(u) == IF HasRole(u, {"customer"}) THEN Own(u) ELSE {}
Queue(u) == IF IsModerator(u) THEN {p \in Projects : project[p] = "on_moderation"} ELSE {}
Supervised == Public \intersect Confirmed

InStatus(S, status) == Cardinality({p \in S : project[p] = status})

\* The numbers of the account page; those of a moderator count every row.
Counters(u) ==
  [projects |-> Cardinality(Own(u)),
   onModeration |-> InStatus(IF IsModerator(u) THEN Projects ELSE Own(u), "on_moderation"),
   favourites |-> Cardinality(profile[u].favourites)]

\* The numbers of the moderators' page, and its file.
Dashboard ==
  [status \in {"published", "on_moderation", "staffed", "draft"} |-> InStatus(Projects, status)]
Exported == Existing

\* A step that gives no answer.
Nobody == [user |-> "none", kind |-> "none", items |-> {}, at |-> 0]
Silent == shown' = Nobody

Answer(u, kind, items) == shown' = [user |-> u, kind |-> kind, items |-> items, at |-> now]

-----------------------------------------------------------------------------
(***************************************************************************)
(* Search and recommendations.  The rows are loaded before the ml service  *)
(* is asked, and it is those rows that are shown.                          *)
(***************************************************************************)
\* The first of S, at most limit of them.
Top(S, limit, Before(_, _)) == {p \in S : Cardinality({q \in S : Before(q, p)}) < limit}

\* _heuristic_rank: by the words in common, then by key.
Heuristic(rows, query, limit) ==
  LET Score(p) == Cardinality(Words[p] \intersect query)
      Before(q, p) == Score(q) > Score(p) \/ (Score(q) = Score(p) /\ q < p)
  IN  Top({p \in rows : Score(p) > 0}, limit, Before)

\* The newest published projects, for those who name no interests.
Latest ==
  LET Newer(q, p) == q > p IN Top(Published, RecommendedCount, Newer)

\* _hydrate_remote_items: what the ml service names and was loaded.
Hydrated(rows, ids) == rows \intersect ids

Ask(t, u, kind, query) ==
  /\ request[t] = Idle /\ requests < MaxRequests
  /\ requests' = requests + 1 /\ Silent
  /\ request' = [request EXCEPT ![t] = [op |-> "remote", user |-> u, kind |-> kind,
                                        query |-> query, rows |-> Public, since |-> now]]
  /\ UNCHANGED <<project, profileVars, asked, clash, notice, clockVars>>

\* Anybody may search; recommendations are for the interests of the request or
\* of the profile.
Search(t, u, query) == query # {} /\ Ask(t, u, "search", query)
Recommend(t, u, query) ==
  Role[u] # "none" /\ Ask(t, u, "recommend", IF query = {} THEN profile[u].interests ELSE query)

\* An entry of the worker's cache, by user and interests, until it expires.
Cached(t, u) ==
  {e \in page[t] : e.user = u /\ e.interests = profile[u].interests /\ e.until > now}

\* The recommendations of the project page, for students.
PageHit(t, u) ==
  /\ Role[u] = "student" /\ request[t] = Idle /\ requests < MaxRequests
  /\ profile[u].interests # {}
  /\ \E e \in Cached(t, u) : Answer(u, "page", e.ids \intersect Existing)
  /\ requests' = requests + 1
  /\ UNCHANGED <<project, profileVars, request, asked, clash, notice, clockVars>>

\* Mutation of PageMiss: recommendations for no interests are cached too.
PageMissEmpty(t, u) ==
  /\ Role[u] = "student"
  /\ Cached(t, u) = {}
  /\ Ask(t, u, "page", profile[u].interests)

PageMiss(t, u) ==
  /\ Role[u] = "student"
  /\ profile[u].interests # {} /\ Cached(t, u) = {}
  /\ Ask(t, u, "page", profile[u].interests)

PageLatest(t, u) ==
  /\ Role[u] = "student" /\ request[t] = Idle /\ requests < MaxRequests
  /\ profile[u].interests = {}
  /\ Answer(u, "page", Latest)
  /\ requests' = requests + 1
  /\ UNCHANGED <<project, profileVars, request, asked, clash, notice, clockVars>>

\* Mutation of Store: the entry never expires.
StoreForever(t, r, items) ==
  {e \in page[t] : e.user # r.user \/ e.interests # r.query}
  \union {[user |-> r.user, interests |-> r.query, ids |-> items, until |-> MaxTicks + 1]}

\* cache.set replaces the entry of the key.
Store(t, r, items) ==
  {e \in page[t] : e.user # r.user \/ e.interests # r.query}
  \union {[user |-> r.user, interests |-> r.query, ids |-> items, until |-> now + CacheTTL]}

Reply(t, items) ==
  LET r == request[t] IN
  /\ Answer(r.user, r.kind, items)
  /\ page' = IF r.kind = "page" THEN [page EXCEPT ![t] = Store(t, r, items)] ELSE page
  /\ request' = [request EXCEPT ![t] = Idle]
  /\ UNCHANGED <<project, profileVars, requests, asked, clash, notice, now, lastPublic, moves>>

\* The ml service answers with any ids, of projects it still has and no longer has.
RemoteAnswers(t, ids) ==
  /\ request[t].op = "remote"
  /\ Reply(t, Hydrated(request[t].rows, ids))

\* No service, a timeout, an error, a body or a mode that is not expected.
RemoteFails(t) ==
  LET r == request[t] IN
  /\ r.op = "remote"
  /\ Reply(t, Heuristic(r.rows, r.query,
                        IF r.kind = "page" THEN RecommendedCount ELSE SearchLimit))

\* The page shows the newest projects when the gateway raises, and caches nothing.
GatewayRaises(t) ==
  /\ request[t].op = "remote" /\ request[t].kind = "page"
  /\ Answer(request[t].user, "page", Latest)
  /\ request' = [request EXCEPT ![t] = Idle]
  /\ UNCHANGED <<project, profileVars, requests, asked, clash, notice, clockVars>>

-----------------------------------------------------------------------------
\* A moderator, a customer, an import or an admin changes the status, or deletes.
Move(p, status) ==
  /\ project[p] \notin {"gone", status} /\ moves < MaxMoves
  /\ project' = [project EXCEPT ![p] = status]
  /\ lastPublic' = IF status \in Catalogued THEN [lastPublic EXCEPT ![p] = now] ELSE lastPublic
  /\ moves' = moves + 1 /\ Silent
  /\ UNCHANGED <<profileVars, request, requests, asked, clash, notice, now, page>>

\* A call of the ml service ends, or times out, within RemoteTicks.
Tick ==
  /\ now < MaxTicks
  /\ \A t \in Workers : request[t].op = "remote" => now < request[t].since + RemoteTicks
  /\ now' = now + 1 /\ Silent
  /\ lastPublic' = [p \in Projects |-> IF p \in Public THEN now + 1 ELSE lastPublic[p]]
  /\ UNCHANGED <<project, profileVars, request, requests, asked, clash, notice, page, moves>>

\* A worker is killed and started again: its request ends, its cache is empty.
WorkerDies(t) ==
  LET r == request[t] IN
  /\ moves < MaxMoves /\ moves' = moves + 1 /\ Silent
  /\ request' = [request EXCEPT ![t] = Idle]
  /\ page' = [page EXCEPT ![t] = {}]
  /\ clash' = IF r.op = "relate" THEN [clash EXCEPT ![r.user] = @ \union {"linked"}] ELSE clash
  /\ UNCHANGED <<project, profileVars, requests, asked, notice, now, lastPublic>>

Init ==
  /\ ProfileInit
  /\ project = InitialStatus
  /\ notice = InitialNotice
  /\ request = [t \in Workers |-> Idle] /\ requests = 0
  /\ asked = [x \in Users \union Notices |-> IF x \in Users THEN InitialProfile[x] ELSE InitialNotice[x]]
  /\ clash = [x \in Users \union Notices |-> {}]
  /\ now = 0
  /\ page = [t \in Workers |-> {}]
  /\ shown = Nobody
  /\ lastPublic = [p \in Projects |-> IF p \in Public THEN 0 ELSE Never]
  /\ moves = 0

NoticeStep(t) ==
  /\ \/ Switch(t)
     \/ DeleteNotice(t)
     \/ \E u \in Active, n \in Notices, op \in {"switch", "delete"} : LoadNotice(t, u, n, op)
     \/ \E u \in Active, n \in Notices, a \in NewAudiences, b \in BOOLEAN : CreateNotice(u, n, a, b)
  /\ Silent /\ UNCHANGED clockVars

ProfileStep(t) ==
  /\ \/ Save(t)
     \/ Relate(t)
     \/ \E u \in Active : Role[u] # "none" /\ \E c \in Changes : Load(t, u, c)
  /\ Silent /\ UNCHANGED <<notice, clockVars>>

RecommendationStep(t) ==
  \/ RemoteFails(t)
  \/ GatewayRaises(t)
  \/ \E ids \in SUBSET Projects : RemoteAnswers(t, ids)
  \/ \E u \in Active, I \in InterestSets : Search(t, u, I) \/ Recommend(t, u, I)
  \/ \E u \in Active : PageHit(t, u) \/ PageMiss(t, u) \/ PageLatest(t, u)

Next ==
  \/ \E t \in Workers : NoticeStep(t) \/ ProfileStep(t) \/ RecommendationStep(t) \/ WorkerDies(t)
  \/ \E p \in Projects, s \in StatusMoves : Move(p, s)
  \/ Tick

Spec == Init /\ [][Next]_vars
-----------------------------------------------------------------------------
Requests ==
  {Idle}
  \union [op : {"save"}, user : Users, change : Changes, copy : Row]
  \union [op : {"relate"}, user : Users, interests : SUBSET UNION InterestSets]
  \union [op : {"switch", "delete"}, notice : Notices, active : BOOLEAN]
  \union [op : {"remote"}, user : Users, kind : {"search", "recommend", "page"},
          query : SUBSET UNION InterestSets, rows : SUBSET Projects, since : 0..MaxTicks]

\* The variables hold values of their types, and a cached page is of a student
\* with interests.
TypeOK ==
  /\ project \in [Projects -> Statuses]
  /\ profile \in [Users -> Row] /\ linked \in [Users -> SUBSET UNION InterestSets]
  /\ notice \in [Notices -> Notice]
  /\ request \in [Workers -> Requests]
  /\ requests \in 0..MaxRequests /\ moves \in 0..MaxMoves
  /\ now \in 0..MaxTicks /\ lastPublic \in [Projects -> {Never} \union 0..MaxTicks]
  /\ \A t \in Workers : \A e \in page[t] :
       Role[e.user] = "student" /\ e.interests # {} /\ e.until <= MaxTicks + CacheTTL

\* How long ago a project that is shown may have left the catalogue.
Lag(kind) == IF kind = "page" THEN CacheTTL + RemoteTicks ELSE RemoteTicks

\* Search and recommendations show a project only if it was in the catalogue when
\* the answer's rows were loaded: one call of the ml service ago, and for the
\* cached recommendations of the page the life of the cache entry besides.
ShownWasPublic == \A p \in shown.items : lastPublic[p] + Lag(shown.kind) >= shown.at

\* Requests of users and of the office are kept (ProfilesAreKept, NoticesAreKept).
RequestsAreKept == ProfilesAreKept /\ NoticesAreKept

\* A filter of the API selects the rows that say of themselves what it asks for,
\* on the first and the last day of applications too, if the window is not
\* inverted.
FiltersAgree ==
  /\ \A row \in [team : 1..2, accepted : 0..3], state \in {"open", "full"} :
       StaffingFilter(row, state) <=> StaffingState(row) = state
  /\ \A row \in [opened : 0..MaxTicks, deadline : 0..MaxTicks],
        state \in {"open", "closed", "upcoming"} :
       (row.opened = 0 \/ row.deadline = 0 \/ row.opened <= row.deadline)
         => (WindowFilter(row, now, state) <=> WindowState(row, now) = state)

\* What a list shows a user its page opens: the catalogue, favourites, a customer's
\* and a person's projects, for staff the queue too.  Bookmarks of projects that
\* left the catalogue do not open, nor does the queue for a moderator who is not
\* staff.  Who may change a project may open it.
ListsOpen ==
  \A u \in Users :
    /\ Catalogue(u) \union Favourites(u) \union Mine(u) \union Supervised \union Editable(u)
         \subseteq Detail(u)
    /\ Role[u] = "staff" => Queue(u) \union Alternate \subseteq Detail(u)
    /\ (Bookmarks(u) \union Overview(u) \union OverviewPage(u)) \intersect Public \subseteq Visible(u)

\* What a number counts is what the list beside it shows; only the number of
\* favourites counts projects that left the catalogue, which no list of the API has.
CountersAgree ==
  /\ \A u \in Users :
       /\ Counters(u).favourites >= Cardinality(Favourites(u))
       /\ Role[u] = "customer" => /\ Counters(u).projects = Cardinality(Mine(u))
                                  /\ Counters(u).onModeration = InStatus(Mine(u), "on_moderation")
       /\ IsModerator(u) => /\ Counters(u).onModeration = Cardinality(Queue(u))
                            /\ Dashboard["on_moderation"] = Cardinality(Queue(u))
  /\ Dashboard["published"] + Dashboard["staffed"] = Cardinality(Public)
  /\ Public \subseteq Exported

\* Lists, filters, numbers and pages agree on a project (FiltersAgree, ListsOpen,
\* CountersAgree).
SurfacesAgree == FiltersAgree /\ ListsOpen /\ CountersAgree
=============================================================================
