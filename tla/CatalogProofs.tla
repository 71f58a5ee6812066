--------------------------- MODULE CatalogProofs ---------------------------
(***************************************************************************)
(* What is proved of the catalogue, its recommendations, the profiles and  *)
(* the notices, for any users, projects, workers and bounds.               *)
(***************************************************************************)
EXTENDS Catalog, FiniteSetTheorems, TLAPS

ProfileFields == {"interests", "favourites"}

\* What a change of a profile carries.
LEMMA ChangesAreTyped ==
  ASSUME NEW c \in Changes
  PROVE  /\ c.op \in {"toggle", "remove", "replace", "add", "patch", "page"}
         /\ c.op \in {"toggle", "remove", "replace", "add"} => c.ids \subseteq Projects
         /\ c.op = "page" => c.interests \subseteq UNION InterestSets
         /\ c.op = "patch" =>
              \/ \E ids \in SUBSET Projects : c.given = [favourites |-> ids]
              \/ \E I \in SUBSET UNION InterestSets : c.given = [interests |-> I]
         /\ Fields(c) \subseteq ProfileFields
<1>1. CASE c \in [op : {"toggle", "remove"}, ids : {{p} : p \in Projects}]
  BY <1>1 DEF Fields, ProfileFields
<1>2. CASE c \in [op : {"replace", "add"}, ids : IdSets]
  BY <1>2, InputsAssumption DEF Fields, ProfileFields
<1>3. CASE c \in [op : {"patch"},
                  given : {[favourites |-> ids] : ids \in IdSets}
                          \union {[interests |-> I] : I \in InterestSets}]
  <2>1. c.op = "patch"
    BY <1>3
  <2>2. \/ \E ids \in IdSets : c.given = [favourites |-> ids]
        \/ \E I \in InterestSets : c.given = [interests |-> I]
    BY <1>3
  <2>3. IdSets \subseteq SUBSET Projects /\ InterestSets \subseteq SUBSET UNION InterestSets
    BY InputsAssumption
  <2> QED  BY <2>1, <2>2, <2>3 DEF Fields, ProfileFields
<1>4. CASE c \in [op : {"page"}, interests : InterestSets]
  BY <1>4 DEF Fields, ProfileFields
<1> QED  BY <1>1, <1>2, <1>3, <1>4 DEF Changes

\* A row is a function of its two fields.
LEMMA RowsAreFunctions ==
  ASSUME NEW r
  PROVE  r \in Row <=>
           /\ r = [f \in ProfileFields |-> r[f]]
           /\ r["interests"] \in SUBSET UNION InterestSets
           /\ r["favourites"] \in SUBSET Projects
BY DEF Row, ProfileFields

\* A change of a copy is a copy, it changes a field by what was in that field, and
\* it changes the fields that are saved and no other.
LEMMA ChangedFields ==
  ASSUME NEW c \in Changes, NEW r \in Row
  PROVE  /\ Changed(c, r) \in Row
         /\ \A q \in Row : \A f \in ProfileFields :
              r[f] = q[f] => Changed(c, r)[f] = Changed(c, q)[f]
         /\ \A f \in ProfileFields \ Fields(c) : Changed(c, r)[f] = r[f]
<1> USE DEF ProfileFields
<1>1. CASE c.op \in {"toggle", "remove", "replace", "add"}
  <2>1. c.ids \subseteq Projects
    BY <1>1, ChangesAreTyped
  <2>2. \A q \in Row :
          \E new \in SUBSET Projects :
            Changed(c, q) = [q EXCEPT !.favourites = new]
    BY <1>1, <2>1 DEF Changed, Row
  <2> QED  BY <1>1, <2>1, <2>2 DEF Changed, Row, Fields
<1>2. CASE c.op = "page"
  BY <1>2, ChangesAreTyped DEF Changed, Row, Fields
<1>3. CASE c.op = "patch"
  <2>1. \A q : Changed(c, q) = [f \in DOMAIN q |-> IF f \in DOMAIN c.given THEN c.given[f]
                                                                          ELSE q[f]]
    BY <1>3 DEF Changed
  <2>2. \A q \in Row : DOMAIN q = ProfileFields
    BY DEF Row
  <2>3. \/ \E ids \in SUBSET Projects : c.given = [favourites |-> ids]
        \/ \E I \in SUBSET UNION InterestSets : c.given = [interests |-> I]
    BY <1>3, ChangesAreTyped
  <2>4. Fields(c) = ProfileFields
    BY <1>3 DEF Fields
  <2>5. \A q \in Row :
          /\ Changed(c, q) = [f \in ProfileFields |-> Changed(c, q)[f]]
          /\ \A f \in ProfileFields :
               Changed(c, q)[f] = IF f \in DOMAIN c.given THEN c.given[f] ELSE q[f]
    BY <2>1, <2>2
  <2>6. \A f \in DOMAIN c.given :
          /\ f = "interests" => c.given[f] \in SUBSET UNION InterestSets
          /\ f = "favourites" => c.given[f] \in SUBSET Projects
    <3>1. ASSUME NEW ids \in SUBSET Projects, c.given = [favourites |-> ids]
          PROVE  DOMAIN c.given = {"favourites"} /\ c.given["favourites"] = ids
      BY <3>1
    <3>2. ASSUME NEW I \in SUBSET UNION InterestSets, c.given = [interests |-> I]
          PROVE  DOMAIN c.given = {"interests"} /\ c.given["interests"] = I
      BY <3>2
    <3>3. \/ /\ DOMAIN c.given = {"favourites"}
             /\ c.given["favourites"] \in SUBSET Projects
          \/ /\ DOMAIN c.given = {"interests"}
             /\ c.given["interests"] \in SUBSET UNION InterestSets
      BY <2>3, <3>1, <3>2
    <3> QED  BY <3>3
  <2>7. Changed(c, r) \in Row
    <3> DEFINE new == Changed(c, r)
    <3>1. r["interests"] \in SUBSET UNION InterestSets /\ r["favourites"] \in SUBSET Projects
      BY RowsAreFunctions
    <3>2. /\ new["interests"] \in SUBSET UNION InterestSets
          /\ new["favourites"] \in SUBSET Projects
      BY <2>5, <2>6, <3>1
    <3>3. new = [f \in ProfileFields |-> new[f]]
      BY <2>5
    <3> HIDE DEF new, ProfileFields
    <3>4. new \in Row
      BY <3>2, <3>3, RowsAreFunctions
    <3> QED  BY <3>4 DEF new
  <2> QED  BY <2>4, <2>5, <2>7
<1> QED  BY <1>1, <1>2, <1>3, ChangesAreTyped

\* A save writes the fields of the change and leaves the others.
LEMMA SavedFields ==
  ASSUME NEW c \in Changes, NEW r \in Row, NEW copy \in Row
  PROVE  /\ Saved(c, r, copy) \in Row
         /\ \A f \in Fields(c) : Saved(c, r, copy)[f] = copy[f]
         /\ \A f \in ProfileFields \ Fields(c) : Saved(c, r, copy)[f] = r[f]
<1>1. DOMAIN r = ProfileFields /\ Fields(c) \subseteq ProfileFields
  BY ChangesAreTyped DEF Row, ProfileFields
<1>2. \A f \in ProfileFields : Saved(c, r, copy)[f] = IF f \in Fields(c) THEN copy[f] ELSE r[f]
  BY <1>1 DEF Saved
<1>3. Saved(c, r, copy) = [f \in ProfileFields |-> Saved(c, r, copy)[f]]
  BY <1>1 DEF Saved
<1> QED  BY <1>1, <1>2, <1>3, RowsAreFunctions DEF ProfileFields

-----------------------------------------------------------------------------
(***************************************************************************)
(* The inductive invariant, in three parts.                                *)
(***************************************************************************)
Entry ==
  [user : Users, interests : SUBSET UNION InterestSets, ids : SUBSET Projects, until : Nat]
ClashFields == ProfileFields \union {"linked", "active"}

TypeInv ==
  /\ project \in [Projects -> Statuses]
  /\ profile \in [Users -> Row] /\ linked \in [Users -> SUBSET UNION InterestSets]
  /\ notice \in [Notices -> Notice]
  /\ request \in [Workers -> Requests]
  /\ requests \in 0..MaxRequests /\ moves \in 0..MaxMoves
  /\ now \in 0..MaxTicks /\ lastPublic \in [Projects -> {Never} \union 0..MaxTicks]
  /\ asked \in [Users \union Notices -> Row \union Notice]
  /\ (\A u \in Users : asked[u] \in Row) /\ \A n \in Notices : asked[n] \in Notice
  /\ clash \in [Users \union Notices -> SUBSET ClashFields]
  /\ page \in [Workers -> SUBSET Entry]
  /\ \A t \in Workers : \A e \in page[t] :
       Role[e.user] = "student" /\ e.interests # {} /\ e.until <= MaxTicks + CacheTTL
  /\ \A t \in Workers :
       request[t].op = "remote" /\ request[t].kind = "page"
         => Role[request[t].user] = "student" /\ request[t].query # {}

\* What a call of the ml service was asked with, and what is cached of its answers,
\* was in the catalogue when the call began.
PublicInv ==
  /\ \A p \in Projects : lastPublic[p] <= now /\ (p \in Public => lastPublic[p] = now)
  /\ \A t \in Workers : request[t].op = "remote" =>
       /\ request[t].since <= now /\ now <= request[t].since + RemoteTicks
       /\ \A p \in request[t].rows : lastPublic[p] >= request[t].since
  /\ \A t \in Workers : \A e \in page[t] : \A p \in e.ids :
       lastPublic[p] + CacheTTL + RemoteTicks >= e.until
  /\ ShownWasPublic

\* A press of a button was loaded from a notice that is there, which is as the copy
\* says unless two presses overlapped.
Presses(t) == request[t].op \in {"switch", "delete"}
NoticeInv ==
  /\ NoticesAreKept
  /\ \A t \in Workers : Presses(t) =>
       /\ notice[request[t].notice].state # "free"
       /\ clash[request[t].notice] = {} => request[t].active = notice[request[t].notice].active
  /\ \A t, s \in Workers :
       t # s /\ Presses(t) /\ Presses(s) /\ request[t].notice = request[s].notice
         => clash[request[t].notice] # {}

\* A copy in flight is what its change makes of the row as it is now, in the fields
\* that no other request wrote; and the row's technologies are still to be related.
Saves(t, u) == request[t].op = "save" /\ request[t].user = u
Relates(t, u) == request[t].op = "relate" /\ request[t].user = u
Kept(u) ==
  /\ \A f \in ProfileFields \ clash[u] : profile[u][f] = asked[u][f]
  /\ \A t, s \in Workers : t # s => Writes(t, u) \intersect Writes(s, u) \subseteq clash[u]
  /\ \A t \in Workers : Saves(t, u) =>
       \A f \in ProfileFields :
         f \in Fields(request[t].change) \ clash[u] \/ "linked" \notin clash[u]
           => request[t].copy[f] = Changed(request[t].change, profile[u])[f]
  /\ "linked" \notin clash[u] =>
       /\ \A t \in Workers : Relates(t, u) => request[t].interests = profile[u].interests
       /\ (\A t \in Workers : ~Relates(t, u)) => linked[u] = profile[u].interests
ProfileInv == \A u \in Users : Kept(u)

CatalogInv == TypeInv /\ PublicInv /\ NoticeInv /\ ProfileInv

-----------------------------------------------------------------------------
(***************************************************************************)
(* Types.                                                                  *)
(***************************************************************************)
SaveRequest == [op : {"save"}, user : Users, change : Changes, copy : Row]
RelateRequest == [op : {"relate"}, user : Users, interests : SUBSET UNION InterestSets]
PressRequest == [op : {"switch", "delete"}, notice : Notices, active : BOOLEAN]
RemoteRequest ==
  [op : {"remote"}, user : Users, kind : {"search", "recommend", "page"},
   query : SUBSET UNION InterestSets, rows : SUBSET Projects, since : 0..MaxTicks]

LEMMA RequestsAreTyped ==
  /\ Idle \in Requests /\ Idle.op = "idle"
  /\ SaveRequest \subseteq Requests /\ RelateRequest \subseteq Requests
  /\ PressRequest \subseteq Requests /\ RemoteRequest \subseteq Requests
  /\ \A r \in Requests :
       /\ r.op = "save" => r \in SaveRequest
       /\ r.op = "relate" => r \in RelateRequest
       /\ r.op \in {"switch", "delete"} => r \in PressRequest
       /\ r.op = "remote" => r \in RemoteRequest
BY DEF Requests, Idle, SaveRequest, RelateRequest, PressRequest, RemoteRequest

\* What a worker runs now, and the others what they ran.
LEMMA RequestsStayTyped ==
  ASSUME TypeInv, NEW t \in Workers, NEW r \in Requests,
         request' = [request EXCEPT ![t] = r],
         r.op = "remote" /\ r.kind = "page" => Role[r.user] = "student" /\ r.query # {}
  PROVE  /\ request' \in [Workers -> Requests]
         /\ request'[t] = r /\ \A s \in Workers \ {t} : request'[s] = request[s]
         /\ \A s \in Workers :
              request'[s].op = "remote" /\ request'[s].kind = "page"
                => Role[request'[s].user] = "student" /\ request'[s].query # {}
BY DEF TypeInv

LEMMA NoticeStepIsTyped ==
  ASSUME TypeInv, NEW t \in Workers, NoticeStep(t)
  PROVE  TypeInv'
<1>1. UNCHANGED <<project, profileVars, clockVars>>
  BY DEF NoticeStep, Switch, DeleteNotice, LoadNotice, CreateNotice
<1>2. CASE Switch(t)
  <2>1. request[t] \in PressRequest
    BY <1>2, RequestsAreTyped DEF Switch, TypeInv
  <2>2. request' = [request EXCEPT ![t] = Idle] /\ requests' = requests /\ clash' = clash
    BY <1>2 DEF Switch
  <2>3. /\ notice' \in [Notices -> Notice]
        /\ asked' \in [Users \union Notices -> Row \union Notice]
        /\ \A u \in Users : asked'[u] \in Row
        /\ \A n \in Notices : asked'[n] \in Notice
    <3>1. CASE request[t].notice \in Live
      <4>1. /\ notice' = [notice EXCEPT ![request[t].notice].active = ~request[t].active]
            /\ asked' = [asked EXCEPT ![request[t].notice].active = ~@]
        BY <1>2, <3>1 DEF Switch
      <4>2. request[t].notice \in Notices /\ request[t].notice \notin Users
        BY <2>1, NoticesAssumption DEF PressRequest
      <4>3. \A n \in Notices : \A b \in BOOLEAN : \A v \in Notice :
              [v EXCEPT !.active = b] \in Notice
        BY DEF Notice
      <4>4. asked[request[t].notice] \in Notice /\ notice[request[t].notice] \in Notice
        BY <4>2 DEF TypeInv
      <4>5. /\ [notice[request[t].notice] EXCEPT !.active = ~request[t].active] \in Notice
            /\ [asked[request[t].notice] EXCEPT !.active = ~@] \in Notice
        BY <2>1, <4>4 DEF Notice, PressRequest
      <4> QED  BY <4>1, <4>2, <4>5 DEF TypeInv
    <3>2. CASE request[t].notice \notin Live
      BY <1>2, <3>2 DEF Switch, TypeInv
    <3> QED  BY <3>1, <3>2
  <2> QED  BY <1>1, <2>2, <2>3, RequestsStayTyped, RequestsAreTyped
           DEF TypeInv, profileVars, clockVars
<1>3. CASE DeleteNotice(t)
  <2>1. request[t] \in PressRequest
    BY <1>3, RequestsAreTyped DEF DeleteNotice, TypeInv
  <2>2. /\ request' = [request EXCEPT ![t] = Idle] /\ requests' = requests /\ clash' = clash
        /\ notice' = [notice EXCEPT ![request[t].notice].state = "gone"]
        /\ asked' = [asked EXCEPT ![request[t].notice].state = "gone"]
    BY <1>3 DEF DeleteNotice
  <2>3. request[t].notice \in Notices /\ request[t].notice \notin Users
    BY <2>1, NoticesAssumption DEF PressRequest
  <2>4. \A v \in Notice : [v EXCEPT !.state = "gone"] \in Notice
    BY DEF Notice
  <2>5. asked[request[t].notice] \in Notice /\ notice[request[t].notice] \in Notice
    BY <2>3 DEF TypeInv
  <2>6. /\ notice' \in [Notices -> Notice]
        /\ asked' \in [Users \union Notices -> Row \union Notice]
        /\ \A u \in Users : asked'[u] \in Row
        /\ \A n \in Notices : asked'[n] \in Notice
    BY <2>2, <2>3, <2>4, <2>5 DEF TypeInv
  <2> QED  BY <1>1, <2>2, <2>6, RequestsStayTyped, RequestsAreTyped
           DEF TypeInv, profileVars, clockVars
<1>4. ASSUME NEW u \in Active, NEW n \in Notices, NEW op \in {"switch", "delete"},
             LoadNotice(t, u, n, op)
      PROVE  TypeInv'
  <2> DEFINE r == [op |-> op, notice |-> n, active |-> notice[n].active]
  <2>1. r \in PressRequest
    BY DEF TypeInv, Notice, PressRequest
  <2>2. /\ request' = [request EXCEPT ![t] = r] /\ requests < MaxRequests
        /\ requests' = requests + 1 /\ UNCHANGED <<notice, asked>>
        /\ clash' \in {clash, [clash EXCEPT ![n] = {"active"}]}
    BY <1>4 DEF LoadNotice
  <2>3. clash' \in [Users \union Notices -> SUBSET ClashFields]
    BY <2>2 DEF TypeInv, ClashFields
  <2>4. requests' \in 0..MaxRequests
    BY <2>2, InputsAssumption DEF TypeInv
  <2>5. r.op # "remote" /\ r \in Requests
    BY <2>1, RequestsAreTyped
  <2> HIDE DEF r
  <2> QED  BY <1>1, <2>2, <2>3, <2>4, <2>5, RequestsStayTyped
           DEF TypeInv, profileVars, clockVars
<1>5. ASSUME NEW u \in Active, NEW n \in Notices, NEW a \in NewAudiences, NEW b \in BOOLEAN,
             CreateNotice(u, n, a, b)
      PROVE  TypeInv'
  <2> DEFINE v == [state |-> "live", audience |-> a, active |-> b]
  <2>1. v \in Notice /\ n \notin Users
    BY AudiencesAssumption, NoticesAssumption DEF Notice
  <2>2. /\ notice' = [notice EXCEPT ![n] = v] /\ asked' = [asked EXCEPT ![n] = notice'[n]]
        /\ requests < MaxRequests /\ requests' = requests + 1
        /\ UNCHANGED <<request, clash>>
    BY <1>5 DEF CreateNotice
  <2> HIDE DEF v
  <2>3. notice'[n] = v /\ notice' \in [Notices -> Notice]
    BY <2>1, <2>2 DEF TypeInv
  <2>4. /\ asked' \in [Users \union Notices -> Row \union Notice]
        /\ \A w \in Users : asked'[w] \in Row
        /\ \A m \in Notices : asked'[m] \in Notice
    BY <2>1, <2>2, <2>3 DEF TypeInv
  <2>5. requests' \in 0..MaxRequests
    BY <2>2, InputsAssumption DEF TypeInv
  <2> QED  BY <1>1, <2>2, <2>3, <2>4, <2>5 DEF TypeInv, profileVars, clockVars
<1> QED  BY <1>2, <1>3, <1>4, <1>5 DEF NoticeStep

LEMMA ProfileStepIsTyped ==
  ASSUME TypeInv, NEW t \in Workers, ProfileStep(t)
  PROVE  TypeInv'
<1>1. UNCHANGED <<project, notice, clockVars>>
  BY DEF ProfileStep, Save, Relate, Load
<1>2. CASE Save(t)
  <2>1. request[t] \in SaveRequest
    BY <1>2, RequestsAreTyped DEF Save, TypeInv
  <2>2. PICK u \in Users, c \in Changes, copy \in Row :
          /\ request[t].user = u /\ request[t].change = c /\ request[t].copy = copy
          /\ u \notin Notices
    BY <2>1, NoticesAssumption DEF SaveRequest
  <2> DEFINE r == [op |-> "relate", user |-> u, interests |-> copy.interests]
  <2>3. /\ profile' = [profile EXCEPT ![u] = Saved(c, profile[u], copy)]
        /\ asked' = [asked EXCEPT ![u] = Changed(c, asked[u])]
        /\ request' = [request EXCEPT ![t] = r]
        /\ UNCHANGED <<linked, requests, clash>>
    BY <1>2, <2>2 DEF Save
  <2>4. r \in RelateRequest
    BY DEF RelateRequest, Row
  <2>5. Saved(c, profile[u], copy) \in Row /\ Changed(c, asked[u]) \in Row
    BY SavedFields, ChangedFields DEF TypeInv
  <2>6. r.op = "relate" /\ r \in Requests
    BY <2>4, RequestsAreTyped
  <2>7. /\ profile' \in [Users -> Row]
        /\ asked' \in [Users \union Notices -> Row \union Notice]
        /\ \A w \in Users : asked'[w] \in Row
        /\ \A n \in Notices : asked'[n] \in Notice
    BY <2>2, <2>3, <2>5 DEF TypeInv
  <2> HIDE DEF r
  <2> QED  BY <1>1, <2>3, <2>6, <2>7, RequestsStayTyped DEF TypeInv, clockVars
<1>3. CASE Relate(t)
  <2>1. request[t] \in RelateRequest
    BY <1>3, RequestsAreTyped DEF Relate, TypeInv
  <2>2. /\ linked' = [linked EXCEPT ![request[t].user] = request[t].interests]
        /\ request' = [request EXCEPT ![t] = Idle]
        /\ UNCHANGED <<profile, requests, asked, clash>>
    BY <1>3 DEF Relate
  <2>3. linked' \in [Users -> SUBSET UNION InterestSets]
    BY <2>1, <2>2 DEF TypeInv, RelateRequest
  <2> QED  BY <1>1, <2>2, <2>3, RequestsStayTyped, RequestsAreTyped DEF TypeInv, clockVars
<1>4. ASSUME NEW u \in Active, NEW c \in Changes, Load(t, u, c) PROVE TypeInv'
  <2> DEFINE r == [op |-> "save", user |-> u, change |-> c, copy |-> Changed(c, profile[u])]
             new == clash[u] \union
                      ((Fields(c) \union {"linked"}) \intersect UNION {Writes(s, u) : s \in Workers})
  <2>1. u \in Users
    BY UsersAssumption
  <2>2. r \in SaveRequest
    BY <2>1, ChangedFields DEF TypeInv, SaveRequest
  <2>3. r.op = "save" /\ r \in Requests
    BY <2>2, RequestsAreTyped
  <2>4. /\ request' = [request EXCEPT ![t] = r] /\ requests < MaxRequests
        /\ requests' = requests + 1 /\ clash' = [clash EXCEPT ![u] = new]
        /\ UNCHANGED <<profileVars, asked>>
    BY <1>4 DEF Load
  <2>5. new \subseteq ClashFields
    BY <2>1, ChangesAreTyped DEF TypeInv, ClashFields
  <2>6. requests' \in 0..MaxRequests
    BY <2>4, InputsAssumption DEF TypeInv
  <2> HIDE DEF r, new
  <2>7. clash' \in [Users \union Notices -> SUBSET ClashFields]
    BY <2>1, <2>4, <2>5 DEF TypeInv
  <2> QED  BY <1>1, <2>3, <2>4, <2>6, <2>7, RequestsStayTyped DEF TypeInv, clockVars, profileVars
<1> QED  BY <1>2, <1>3, <1>4 DEF ProfileStep

\* The rows that are ranked without the ml service are those that were loaded.
LEMMA HeuristicRanksRows ==
  ASSUME NEW rows, NEW query, NEW limit
  PROVE  Heuristic(rows, query, limit) \subseteq rows
BY DEF Heuristic, Top

LEMMA LatestIsPublished == Latest \subseteq Published
BY DEF Latest, Top

\* What a call of the ml service begins with.
LEMMA AskIsTyped ==
  ASSUME TypeInv, NEW t \in Workers, NEW u \in Users,
         NEW kind \in {"search", "recommend", "page"}, NEW query \in SUBSET UNION InterestSets,
         kind = "page" => Role[u] = "student" /\ query # {},
         Ask(t, u, kind, query)
  PROVE  /\ TypeInv'
         /\ request'[t] = [op |-> "remote", user |-> u, kind |-> kind, query |-> query,
                           rows |-> Public, since |-> now]
         /\ \A s \in Workers \ {t} : request'[s] = request[s]
         /\ request[t] = Idle /\ shown' = Nobody
         /\ UNCHANGED <<project, profileVars, asked, clash, notice, clockVars>>
<1> DEFINE r == [op |-> "remote", user |-> u, kind |-> kind, query |-> query,
                 rows |-> Public, since |-> now]
<1>1. r \in RemoteRequest
  BY DEF TypeInv, RemoteRequest, Public
<1>2. r \in Requests /\ r.op = "remote" /\ r.kind = kind /\ r.query = query /\ r.user = u
  BY <1>1, RequestsAreTyped
<1>3. /\ request' = [request EXCEPT ![t] = r] /\ requests < MaxRequests
      /\ requests' = requests + 1 /\ request[t] = Idle /\ shown' = Nobody
      /\ UNCHANGED <<project, profileVars, asked, clash, notice, clockVars>>
  BY DEF Ask, Silent
<1>4. requests' \in 0..MaxRequests
  BY <1>3, InputsAssumption DEF TypeInv
<1> HIDE DEF r
<1>5. TypeInv' /\ request'[t] = r /\ \A s \in Workers \ {t} : request'[s] = request[s]
  BY <1>2, <1>3, <1>4, RequestsStayTyped DEF TypeInv, clockVars, profileVars
<1> QED  BY <1>3, <1>5 DEF r

\* What the answer of a call leaves in the cache.
LEMMA ReplyIsTyped ==
  ASSUME TypeInv, NEW t \in Workers, NEW items, request[t].op = "remote",
         items \subseteq request[t].rows, Reply(t, items)
  PROVE  /\ TypeInv' /\ request'[t] = Idle
         /\ \A s \in Workers \ {t} : request'[s] = request[s] /\ page'[s] = page[s]
         /\ \A e \in page'[t] :
              e \in page[t] \/ (e.ids = items /\ e.until = now + CacheTTL)
<1> DEFINE r == request[t]
           e0 == [user |-> r.user, interests |-> r.query, ids |-> items,
                  until |-> now + CacheTTL]
<1>1. r \in RemoteRequest
  BY RequestsAreTyped DEF TypeInv
<1>2. /\ request' = [request EXCEPT ![t] = Idle]
      /\ page' = IF r.kind = "page" THEN [page EXCEPT ![t] = Store(t, r, items)] ELSE page
      /\ UNCHANGED <<project, profileVars, requests, asked, clash, notice, now, lastPublic,
                     moves>>
  BY DEF Reply
<1>3. e0 \in Entry /\ e0.until = now + CacheTTL /\ e0.ids = items
      /\ e0.user = r.user /\ e0.interests = r.query
  BY <1>1, CatalogAssumption DEF TypeInv, RemoteRequest, Entry
<1>4. Store(t, r, items) \subseteq page[t] \union {e0}
  BY DEF Store
<1>5. e0.until <= MaxTicks + CacheTTL
  BY <1>3, CatalogAssumption DEF TypeInv
<1> HIDE DEF e0
<1>6. page' \in [Workers -> SUBSET Entry]
  BY <1>2, <1>3, <1>4 DEF TypeInv
<1>7. /\ \A s \in Workers \ {t} : page'[s] = page[s]
      /\ page'[t] \subseteq page[t] \union (IF r.kind = "page" THEN {e0} ELSE {})
  BY <1>2, <1>4 DEF TypeInv
<1>8. r.kind = "page" => Role[e0.user] = "student" /\ e0.interests # {}
  BY <1>3 DEF TypeInv
<1>9. \A s \in Workers : \A e \in page'[s] :
        Role[e.user] = "student" /\ e.interests # {} /\ e.until <= MaxTicks + CacheTTL
  BY <1>5, <1>7, <1>8 DEF TypeInv
<1>10. TypeInv'
  BY <1>2, <1>6, <1>9, RequestsStayTyped, RequestsAreTyped DEF TypeInv, profileVars
<1> QED  BY <1>2, <1>3, <1>7, <1>10, RequestsStayTyped, RequestsAreTyped

LEMMA RecommendationStepIsTyped ==
  ASSUME TypeInv, NEW t \in Workers, RecommendationStep(t)
  PROVE  TypeInv'
<1>1. CASE RemoteFails(t)
  BY <1>1, HeuristicRanksRows, ReplyIsTyped DEF RemoteFails
<1>2. ASSUME NEW ids \in SUBSET Projects, RemoteAnswers(t, ids) PROVE TypeInv'
  BY <1>2, ReplyIsTyped DEF RemoteAnswers, Hydrated
<1>3. CASE GatewayRaises(t)
  BY <1>3, RequestsStayTyped, RequestsAreTyped
  DEF GatewayRaises, TypeInv, profileVars, clockVars
<1>4. ASSUME NEW u \in Active, NEW I \in InterestSets, Search(t, u, I) PROVE TypeInv'
  <2>1. u \in Users /\ I \in SUBSET UNION InterestSets
    BY UsersAssumption
  <2> QED  BY <1>4, <2>1, AskIsTyped DEF Search
<1>5. ASSUME NEW u \in Active, NEW I \in InterestSets, Recommend(t, u, I) PROVE TypeInv'
  <2>1. u \in Users /\ I \in SUBSET UNION InterestSets
    BY UsersAssumption
  <2>2. profile[u].interests \in SUBSET UNION InterestSets
    BY <2>1 DEF TypeInv, Row
  <2> QED  BY <1>5, <2>1, <2>2, AskIsTyped DEF Recommend
<1>6. ASSUME NEW u \in Active, PageMiss(t, u) PROVE TypeInv'
  <2>1. u \in Users
    BY UsersAssumption
  <2>2. profile[u].interests \in SUBSET UNION InterestSets
    BY <2>1 DEF TypeInv, Row
  <2> QED  BY <1>6, <2>1, <2>2, AskIsTyped DEF PageMiss
<1>7. ASSUME NEW u \in Active, PageHit(t, u) \/ PageLatest(t, u) PROVE TypeInv'
  <2>1. requests' \in 0..MaxRequests
    BY <1>7, InputsAssumption DEF PageHit, PageLatest, TypeInv
  <2> QED  BY <1>7, <2>1 DEF PageHit, PageLatest, TypeInv, profileVars, clockVars
<1> QED  BY <1>1, <1>2, <1>3, <1>4, <1>5, <1>6, <1>7 DEF RecommendationStep

LEMMA OtherStepIsTyped ==
  ASSUME TypeInv,
         \/ Tick
         \/ \E t \in Workers : WorkerDies(t)
         \/ \E p \in Projects, s \in StatusMoves : Move(p, s)
  PROVE  TypeInv'
<1> USE CatalogAssumption
<1>1. CASE Tick
  <2>1. now' \in 0..MaxTicks /\ now' = now + 1
    BY <1>1 DEF Tick, TypeInv
  <2>2. lastPublic' \in [Projects -> {Never} \union 0..MaxTicks]
    BY <1>1, <2>1 DEF Tick, TypeInv
  <2> QED  BY <1>1, <2>1, <2>2 DEF Tick, TypeInv, profileVars
<1>2. ASSUME NEW t \in Workers, WorkerDies(t) PROVE TypeInv'
  <2>1. /\ request' = [request EXCEPT ![t] = Idle] /\ page' = [page EXCEPT ![t] = {}]
        /\ moves < MaxMoves /\ moves' = moves + 1
        /\ UNCHANGED <<project, profileVars, requests, asked, notice, now, lastPublic>>
    BY <1>2 DEF WorkerDies
  <2>2. clash' \in [Users \union Notices -> SUBSET ClashFields]
    <3>1. CASE request[t].op = "relate"
      <4>1. request[t].user \in Users
        BY <3>1, RequestsAreTyped DEF TypeInv, RelateRequest
      <4>2. clash' = [clash EXCEPT ![request[t].user] = @ \union {"linked"}]
        BY <1>2, <3>1 DEF WorkerDies
      <4> QED  BY <4>1, <4>2 DEF TypeInv, ClashFields
    <3>2. CASE request[t].op # "relate"
      BY <1>2, <3>2 DEF WorkerDies, TypeInv
    <3> QED  BY <3>1, <3>2
  <2>3. moves' \in 0..MaxMoves
    BY <2>1 DEF TypeInv
  <2>4. page' \in [Workers -> SUBSET Entry] /\ \A s \in Workers : page'[s] \subseteq page[s]
    BY <2>1 DEF TypeInv
  <2> QED  BY <2>1, <2>2, <2>3, <2>4, RequestsStayTyped, RequestsAreTyped
           DEF TypeInv, profileVars
<1>3. ASSUME NEW p \in Projects, NEW s \in StatusMoves, Move(p, s) PROVE TypeInv'
  <2>1. /\ project' = [project EXCEPT ![p] = s] /\ s \in Statuses
        /\ lastPublic' = IF s \in Catalogued THEN [lastPublic EXCEPT ![p] = now] ELSE lastPublic
        /\ moves < MaxMoves /\ moves' = moves + 1
        /\ UNCHANGED <<profileVars, request, requests, asked, clash, notice, now, page>>
    BY <1>3 DEF Move
  <2>2. project' \in [Projects -> Statuses] /\ moves' \in 0..MaxMoves
    BY <2>1 DEF TypeInv
  <2>3. lastPublic' \in [Projects -> {Never} \union 0..MaxTicks]
    BY <2>1 DEF TypeInv
  <2> QED  BY <2>1, <2>2, <2>3 DEF TypeInv, profileVars
<1> QED  BY <1>1, <1>2, <1>3

LEMMA CatalogInitIsTyped == Init => TypeInv
<1> SUFFICES ASSUME Init PROVE TypeInv
  OBVIOUS
<1> USE CatalogAssumption, UsersAssumption, NoticesAssumption, InputsAssumption
<1>1. /\ profile = InitialProfile /\ notice = InitialNotice /\ project = InitialStatus
      /\ linked = [u \in Users |-> InitialProfile[u].interests]
      /\ requests = 0 /\ moves = 0 /\ now = 0
  BY DEF Init, ProfileInit
<1>2. linked \in [Users -> SUBSET UNION InterestSets]
  BY <1>1 DEF Row
<1>3. /\ request = [t \in Workers |-> Idle] /\ page = [t \in Workers |-> {}]
      /\ clash = [x \in Users \union Notices |-> {}]
      /\ lastPublic = [p \in Projects |-> IF p \in Public THEN 0 ELSE Never]
      /\ asked = [x \in Users \union Notices |-> IF x \in Users THEN InitialProfile[x]
                                                                ELSE InitialNotice[x]]
  BY DEF Init
<1>4. /\ asked \in [Users \union Notices -> Row \union Notice]
      /\ (\A u \in Users : asked[u] \in Row) /\ \A n \in Notices : asked[n] \in Notice
  BY <1>3
<1> QED  BY <1>1, <1>2, <1>3, <1>4, RequestsAreTyped DEF TypeInv

LEMMA CatalogStepIsTyped ==
  ASSUME TypeInv, [Next]_vars
  PROVE  TypeInv'
<1>1. CASE Next
  BY <1>1, NoticeStepIsTyped, ProfileStepIsTyped, RecommendationStepIsTyped, OtherStepIsTyped
  DEF Next
<1>2. CASE UNCHANGED vars
  BY <1>2 DEF vars, TypeInv, profileVars, catalogVars, clockVars
<1> QED  BY <1>1, <1>2

\* The variables hold values of their types, and a cached page is of a student
\* with interests.
THEOREM CatalogTypeCorrect == Spec => []TypeOK
<1>1. TypeInv => TypeOK
  BY DEF TypeInv, TypeOK
<1> QED  BY <1>1, CatalogInitIsTyped, CatalogStepIsTyped, PTL DEF Spec

-----------------------------------------------------------------------------
(***************************************************************************)
(* What is shown was in the catalogue.                                     *)
(***************************************************************************)
LEMMA TicksAreIntegers ==
  ASSUME TypeInv
  PROVE  /\ now \in Nat /\ CacheTTL \in Nat /\ RemoteTicks \in Nat
         /\ \A p \in Projects : lastPublic[p] \in Int
         /\ \A t \in Workers : request[t].op = "remote" =>
              /\ request[t].since \in Nat /\ request[t].rows \subseteq Projects
              /\ request[t].user \in Users
              /\ request[t].kind \in {"search", "recommend", "page"}
         /\ \A t \in Workers : \A e \in page[t] : e.until \in Nat /\ e.ids \subseteq Projects
<1>1. CacheTTL \in Nat /\ RemoteTicks \in Nat /\ MaxTicks \in Nat
  BY CatalogAssumption
<1>2. Never \in Int
  BY <1>1 DEF Never
<1> QED  BY <1>1, <1>2, RequestsAreTyped DEF TypeInv, RemoteRequest, Entry

LEMMA SilenceShowsNothing ==
  ASSUME shown' = Nobody
  PROVE  ShownWasPublic'
BY DEF Nobody, ShownWasPublic

\* Steps in which the clock and the projects stand still and nothing is asked.
LEMMA PublicStays ==
  ASSUME TypeInv, PublicInv, UNCHANGED <<project, now, lastPublic>>,
         \A t \in Workers : request'[t].op = "remote" => request'[t] = request[t],
         \A t \in Workers : page'[t] \subseteq page[t],
         ShownWasPublic'
  PROVE  PublicInv'
BY DEF PublicInv, Public

LEMMA NoticeStepsShowNothing ==
  ASSUME TypeInv, PublicInv, NEW t \in Workers, NoticeStep(t)
  PROVE  PublicInv'
<1>1. /\ UNCHANGED <<project, clockVars>> /\ shown' = Nobody
      /\ \/ request' = request
         \/ \E r : r.op # "remote" /\ request' = [request EXCEPT ![t] = r]
  <2>1. Idle.op # "remote"
    BY DEF Idle
  <2>2. ASSUME NEW u \in Active, NEW n \in Notices, NEW op \in {"switch", "delete"},
               LoadNotice(t, u, n, op)
        PROVE  \E r : r.op # "remote" /\ request' = [request EXCEPT ![t] = r]
    BY <2>2 DEF LoadNotice
  <2> QED  BY <2>1, <2>2 DEF NoticeStep, Silent, Switch, DeleteNotice, CreateNotice, LoadNotice
<1>2. \A s \in Workers : request'[s].op = "remote" => request'[s] = request[s]
  BY <1>1 DEF TypeInv
<1> QED  BY <1>1, <1>2, SilenceShowsNothing, PublicStays DEF clockVars

LEMMA ProfileStepsShowNothing ==
  ASSUME TypeInv, PublicInv, NEW t \in Workers, ProfileStep(t)
  PROVE  PublicInv'
<1>1. /\ UNCHANGED <<project, clockVars>> /\ shown' = Nobody
      /\ \E r : r.op # "remote" /\ request' = [request EXCEPT ![t] = r]
  <2>1. UNCHANGED <<project, clockVars>> /\ shown' = Nobody
    BY DEF ProfileStep, Silent, Save, Relate, Load
  <2>2. CASE Save(t)
    <3>1. request' = [request EXCEPT ![t] = [op |-> "relate", user |-> request[t].user,
                                             interests |-> request[t].copy.interests]]
      BY <2>2 DEF Save
    <3> QED  BY <2>1, <3>1
  <2>3. CASE Relate(t)
    BY <2>1, <2>3 DEF Relate, Idle
  <2>4. ASSUME NEW u \in Active, NEW c \in Changes, Load(t, u, c)
        PROVE  \E r : r.op # "remote" /\ request' = [request EXCEPT ![t] = r]
    BY <2>4 DEF Load
  <2> QED  BY <2>1, <2>2, <2>3, <2>4 DEF ProfileStep
<1>2. \A s \in Workers : request'[s].op = "remote" => request'[s] = request[s]
  BY <1>1 DEF TypeInv
<1> QED  BY <1>1, <1>2, SilenceShowsNothing, PublicStays DEF clockVars

\* The rows of a call are of the catalogue when it begins.
LEMMA AskLoadsTheCatalogue ==
  ASSUME TypeInv, PublicInv, NEW t \in Workers, NEW u \in Users,
         NEW kind \in {"search", "recommend", "page"}, NEW query \in SUBSET UNION InterestSets,
         kind = "page" => Role[u] = "student" /\ query # {},
         Ask(t, u, kind, query)
  PROVE  PublicInv'
<1>1. /\ request'[t].rows = Public /\ request'[t].since = now
      /\ \A s \in Workers \ {t} : request'[s] = request[s]
      /\ shown' = Nobody /\ UNCHANGED <<project, clockVars>>
  <2>1. /\ request'[t] = [op |-> "remote", user |-> u, kind |-> kind, query |-> query,
                          rows |-> Public, since |-> now]
        /\ \A s \in Workers \ {t} : request'[s] = request[s]
    BY AskIsTyped
  <2>2. shown' = Nobody /\ UNCHANGED <<project, clockVars>>
    BY DEF Ask, Silent
  <2> QED  BY <2>1, <2>2
<1>2. ASSUME NEW s \in Workers, request'[s].op = "remote"
      PROVE  /\ request'[s].since <= now /\ now <= request'[s].since + RemoteTicks
             /\ \A p \in request'[s].rows : lastPublic[p] >= request'[s].since
  <2>1. CASE s = t
    BY <1>1, <2>1, TicksAreIntegers DEF PublicInv, Public
  <2>2. CASE s # t
    BY <1>1, <1>2, <2>2 DEF PublicInv
  <2> QED  BY <2>1, <2>2
<1> QED  BY <1>1, <1>2, SilenceShowsNothing DEF PublicInv, Public, clockVars

\* An answer has rows of the call that it ends, which began RemoteTicks ago or later.
LEMMA ReplyShowsTheCall ==
  ASSUME TypeInv, PublicInv, NEW t \in Workers, NEW items, request[t].op = "remote",
         items \subseteq request[t].rows, Reply(t, items)
  PROVE  PublicInv'
<1>1. /\ request'[t] = Idle
      /\ \A s \in Workers \ {t} : request'[s] = request[s] /\ page'[s] = page[s]
      /\ \A e \in page'[t] :
           e \in page[t] \/ (e.ids = items /\ e.until = now + CacheTTL)
      /\ UNCHANGED <<project, now, lastPublic>>
      /\ shown' = [user |-> request[t].user, kind |-> request[t].kind, items |-> items,
                   at |-> now]
  BY ReplyIsTyped DEF Reply, Answer
<1>2. ASSUME NEW p \in items
      PROVE  p \in Projects /\ lastPublic[p] \in Int /\ lastPublic[p] + RemoteTicks >= now
  BY TicksAreIntegers DEF PublicInv
<1>3. ShownWasPublic'
  <2> SUFFICES ASSUME NEW p \in items
      PROVE  lastPublic[p] + Lag(request[t].kind) >= now
    BY <1>1 DEF ShownWasPublic, Lag
  <2> QED  BY <1>2, TicksAreIntegers DEF Lag
<1>4. ASSUME NEW s \in Workers, NEW e \in page'[s], NEW p \in e.ids
      PROVE  lastPublic[p] + CacheTTL + RemoteTicks >= e.until
  <2>1. CASE e \in page[s]
    BY <2>1 DEF PublicInv
  <2>2. CASE e \notin page[s]
    <3>1. e.ids = items /\ e.until = now + CacheTTL
      BY <1>1, <2>2
    <3> QED  BY <1>2, <3>1, TicksAreIntegers
  <2> QED  BY <2>1, <2>2
<1>5. \A s \in Workers : request'[s].op = "remote" => request'[s] = request[s]
  BY <1>1 DEF Idle
<1> QED  BY <1>1, <1>3, <1>4, <1>5 DEF PublicInv, Public

\* What is shown at once is in the catalogue, and what is cached was, until the
\* entry expires.
LEMMA PageShowsTheCatalogue ==
  ASSUME TypeInv, PublicInv, NEW t \in Workers, NEW u, NEW items,
         \/ items = Latest
         \/ \E e \in page[t] : e.until > now /\ items = e.ids \intersect Existing,
         Answer(u, "page", items), UNCHANGED <<now, lastPublic>>
  PROVE  ShownWasPublic'
<1>1. shown' = [user |-> u, kind |-> "page", items |-> items, at |-> now]
  BY DEF Answer
<1> SUFFICES ASSUME NEW p \in items
    PROVE  lastPublic[p] + (CacheTTL + RemoteTicks) >= now
  BY <1>1 DEF ShownWasPublic, Lag
<1>2. CASE items = Latest
  <2>1. p \in Public /\ p \in Projects
    BY <1>2, LatestIsPublished DEF Published, Public, Catalogued
  <2> QED  BY <2>1, TicksAreIntegers DEF PublicInv
<1>3. ASSUME NEW e \in page[t], e.until > now, p \in e.ids
      PROVE  lastPublic[p] + (CacheTTL + RemoteTicks) >= now
  <2>1. lastPublic[p] + CacheTTL + RemoteTicks >= e.until
    BY <1>3 DEF PublicInv
  <2>2. p \in Projects /\ e.until \in Nat
    BY <1>3, TicksAreIntegers
  <2> QED  BY <1>3, <2>1, <2>2, TicksAreIntegers
<1> QED  BY <1>2, <1>3

LEMMA RecommendationStepsShowTheCatalogue ==
  ASSUME TypeInv, PublicInv, NEW t \in Workers, RecommendationStep(t)
  PROVE  PublicInv'
<1>1. CASE RemoteFails(t)
  BY <1>1, HeuristicRanksRows, ReplyShowsTheCall DEF RemoteFails
<1>2. ASSUME NEW ids \in SUBSET Projects, RemoteAnswers(t, ids) PROVE PublicInv'
  BY <1>2, ReplyShowsTheCall DEF RemoteAnswers, Hydrated
<1>3. CASE GatewayRaises(t)
  <2>1. ShownWasPublic'
    BY <1>3, PageShowsTheCatalogue DEF GatewayRaises, clockVars
  <2>2. \A s \in Workers : request'[s].op = "remote" => request'[s] = request[s]
    BY <1>3 DEF GatewayRaises, TypeInv, Idle
  <2> QED  BY <1>3, <2>1, <2>2, PublicStays DEF GatewayRaises, clockVars
<1>4. ASSUME NEW u \in Active, NEW I \in InterestSets, Search(t, u, I) \/ Recommend(t, u, I)
      PROVE  PublicInv'
  <2>1. u \in Users /\ I \in SUBSET UNION InterestSets
    BY UsersAssumption
  <2>2. profile[u].interests \in SUBSET UNION InterestSets
    BY <2>1 DEF TypeInv, Row
  <2> QED  BY <1>4, <2>1, <2>2, AskLoadsTheCatalogue DEF Search, Recommend
<1>5. ASSUME NEW u \in Active, PageMiss(t, u) PROVE PublicInv'
  <2>1. u \in Users
    BY UsersAssumption
  <2>2. profile[u].interests \in SUBSET UNION InterestSets
    BY <2>1 DEF TypeInv, Row
  <2> QED  BY <1>5, <2>1, <2>2, AskLoadsTheCatalogue DEF PageMiss
<1>6. ASSUME NEW u \in Active, PageHit(t, u) \/ PageLatest(t, u) PROVE PublicInv'
  <2>1. UNCHANGED <<project, request, clockVars>>
    BY <1>6 DEF PageHit, PageLatest
  <2>2. ShownWasPublic'
    <3>1. CASE PageLatest(t, u)
      BY <3>1, PageShowsTheCatalogue DEF PageLatest, clockVars
    <3>2. CASE PageHit(t, u)
      <4>1. PICK e \in Cached(t, u) : Answer(u, "page", e.ids \intersect Existing)
        BY <3>2 DEF PageHit
      <4>2. e \in page[t] /\ e.until > now
        BY DEF Cached
      <4> QED  BY <2>1, <4>1, <4>2, PageShowsTheCatalogue DEF clockVars
    <3> QED  BY <1>6, <3>1, <3>2
  <2> QED  BY <2>1, <2>2, PublicStays DEF clockVars
<1> QED  BY <1>1, <1>2, <1>3, <1>4, <1>5, <1>6 DEF RecommendationStep

\* The clock takes the catalogue along; a project that leaves it stays behind.
LEMMA OtherStepsKeepTheCatalogue ==
  ASSUME TypeInv, PublicInv,
         \/ Tick
         \/ \E t \in Workers : WorkerDies(t)
         \/ \E p \in Projects, s \in StatusMoves : Move(p, s)
  PROVE  PublicInv'
<1>1. CASE Tick
  <2>1. /\ now' = now + 1 /\ shown' = Nobody /\ UNCHANGED <<project, request, page>>
        /\ lastPublic' = [p \in Projects |-> IF p \in Public THEN now + 1 ELSE lastPublic[p]]
        /\ \A t \in Workers : request[t].op = "remote" => now < request[t].since + RemoteTicks
    BY <1>1 DEF Tick, Silent
  <2>2. \A p \in Projects : /\ lastPublic'[p] >= lastPublic[p] /\ lastPublic'[p] <= now'
                            /\ p \in Public => lastPublic'[p] = now'
                            /\ lastPublic'[p] \in Int /\ lastPublic[p] \in Int
    BY <2>1, TicksAreIntegers DEF PublicInv
  <2>3. ASSUME NEW t \in Workers, request[t].op = "remote"
        PROVE  /\ request[t].since <= now' /\ now' <= request[t].since + RemoteTicks
               /\ \A p \in request[t].rows : lastPublic'[p] >= request[t].since
    BY <2>1, <2>2, <2>3, TicksAreIntegers DEF PublicInv
  <2>4. ASSUME NEW t \in Workers, NEW e \in page[t], NEW p \in e.ids
        PROVE  lastPublic'[p] + CacheTTL + RemoteTicks >= e.until
    <3>1. p \in Projects /\ lastPublic[p] + CacheTTL + RemoteTicks >= e.until
      BY TicksAreIntegers DEF PublicInv
    <3> QED  BY <2>2, <3>1, TicksAreIntegers
  <2> QED  BY <2>1, <2>2, <2>3, <2>4, SilenceShowsNothing DEF PublicInv, Public
<1>2. ASSUME NEW t \in Workers, WorkerDies(t) PROVE PublicInv'
  <2>1. /\ request' = [request EXCEPT ![t] = Idle] /\ page' = [page EXCEPT ![t] = {}]
        /\ shown' = Nobody /\ UNCHANGED <<project, now, lastPublic>>
    BY <1>2 DEF WorkerDies, Silent
  <2>2. /\ \A s \in Workers : request'[s].op = "remote" => request'[s] = request[s]
        /\ \A s \in Workers : page'[s] \subseteq page[s]
    BY <2>1 DEF TypeInv, Idle
  <2> QED  BY <2>1, <2>2, SilenceShowsNothing, PublicStays
<1>3. ASSUME NEW p \in Projects, NEW s \in StatusMoves, Move(p, s) PROVE PublicInv'
  <2>1. /\ project' = [project EXCEPT ![p] = s] /\ shown' = Nobody
        /\ lastPublic' = IF s \in Catalogued THEN [lastPublic EXCEPT ![p] = now] ELSE lastPublic
        /\ UNCHANGED <<request, now, page>>
    BY <1>3 DEF Move, Silent
  <2>2. \A q \in Projects : /\ lastPublic'[q] >= lastPublic[q] /\ lastPublic'[q] <= now
                            /\ lastPublic'[q] \in Int /\ lastPublic[q] \in Int
    BY <2>1, TicksAreIntegers DEF PublicInv, TypeInv
  <2>3. \A q \in Projects : project'[q] \in Catalogued => lastPublic'[q] = now
    BY <2>1, TicksAreIntegers DEF PublicInv, Public, TypeInv
  <2>4. ASSUME NEW t \in Workers, request[t].op = "remote"
        PROVE  \A q \in request[t].rows : lastPublic'[q] >= request[t].since
    BY <2>2, <2>4, TicksAreIntegers DEF PublicInv
  <2>5. ASSUME NEW t \in Workers, NEW e \in page[t], NEW q \in e.ids
        PROVE  lastPublic'[q] + CacheTTL + RemoteTicks >= e.until
    <3>1. q \in Projects /\ lastPublic[q] + CacheTTL + RemoteTicks >= e.until
      BY TicksAreIntegers DEF PublicInv
    <3> QED  BY <2>2, <3>1, TicksAreIntegers
  <2> QED  BY <2>1, <2>2, <2>3, <2>4, <2>5, SilenceShowsNothing DEF PublicInv, Public
<1> QED  BY <1>1, <1>2, <1>3

LEMMA CatalogueInit == Init => PublicInv
<1> SUFFICES ASSUME Init PROVE PublicInv
  OBVIOUS
<1>1. CacheTTL \in Nat /\ RemoteTicks \in Nat
  BY CatalogAssumption
<1>2. /\ now = 0 /\ lastPublic = [p \in Projects |-> IF p \in Public THEN 0 ELSE Never]
      /\ request = [t \in Workers |-> Idle] /\ page = [t \in Workers |-> {}]
      /\ shown = Nobody
  BY DEF Init
<1>3. Never < 0 /\ Never \in Int
  BY <1>1 DEF Never
<1> QED  BY <1>1, <1>2, <1>3 DEF PublicInv, ShownWasPublic, Nobody, Idle, Public

\* Search, recommendations and the cached ones of the page show only projects that
\* were in the catalogue as lately as the code can promise.
THEOREM ShownAlwaysWasPublic == Spec => []ShownWasPublic
<1>1. TypeInv /\ PublicInv /\ [Next]_vars => PublicInv'
  <2>1. ASSUME TypeInv, PublicInv, Next PROVE PublicInv'
    BY <2>1, NoticeStepsShowNothing, ProfileStepsShowNothing,
       RecommendationStepsShowTheCatalogue, OtherStepsKeepTheCatalogue
    DEF Next
  <2>2. ASSUME PublicInv, UNCHANGED vars PROVE PublicInv'
    BY <2>2 DEF vars, catalogVars, clockVars, PublicInv, Public, ShownWasPublic
  <2> QED  BY <2>1, <2>2
<1>2. TypeInv /\ [Next]_vars => TypeInv'
  BY CatalogStepIsTyped
<1>3. PublicInv => ShownWasPublic
  BY DEF PublicInv
<1> QED  BY <1>1, <1>2, <1>3, CatalogInitIsTyped, CatalogueInit, PTL DEF Spec

-----------------------------------------------------------------------------
(***************************************************************************)
(* Requests are kept: the notices.                                         *)
(***************************************************************************)
LEMMA PressesAreTyped ==
  ASSUME TypeInv, NEW t \in Workers, Presses(t)
  PROVE  /\ request[t].notice \in Notices /\ request[t].notice \notin Users
         /\ request[t].active \in BOOLEAN
BY RequestsAreTyped, NoticesAssumption DEF TypeInv, Presses, PressRequest

\* Steps that touch no notice and press no button.
LEMMA NoticesUntouched ==
  ASSUME TypeInv, NoticeInv, notice' = notice,
         \A n \in Notices : asked'[n] = asked[n] /\ clash'[n] = clash[n],
         \A t \in Workers : Presses(t)' => request'[t] = request[t]
  PROVE  NoticeInv'
<1>1. \A t \in Workers :
        Presses(t)' => Presses(t) /\ request'[t] = request[t] /\ request[t].notice \in Notices
  BY PressesAreTyped DEF Presses
<1>2. NoticesAreKept'
  BY DEF NoticeInv, NoticesAreKept
<1>3. \A t \in Workers : Presses(t)' =>
        /\ notice'[request'[t].notice].state # "free"
        /\ clash'[request'[t].notice] = {}
             => request'[t].active = notice'[request'[t].notice].active
  BY <1>1 DEF NoticeInv
<1>4. \A t, s \in Workers :
        t # s /\ Presses(t)' /\ Presses(s)' /\ request'[t].notice = request'[s].notice
          => clash'[request'[t].notice] # {}
  BY <1>1 DEF NoticeInv
<1> QED  BY <1>2, <1>3, <1>4 DEF NoticeInv

\* A press is done: the other presses of the notice overlapped it.
LEMMA PressIsKept ==
  ASSUME TypeInv, NoticeInv, NEW t \in Workers, Switch(t) \/ DeleteNotice(t)
  PROVE  NoticeInv'
<1> DEFINE n == request[t].notice
<1>1. /\ Presses(t) /\ n \in Notices
      /\ request' = [request EXCEPT ![t] = Idle] /\ clash' = clash
  BY PressesAreTyped DEF Switch, DeleteNotice, Presses
<1>2. /\ \A m \in Notices \ {n} : notice'[m] = notice[m] /\ asked'[m] = asked[m]
      /\ notice'[n].state = asked'[n].state /\ notice'[n].state # "free"
      /\ clash[n] = {} => notice'[n].active = asked'[n].active
  <2>1. /\ notice[n] \in Notice /\ asked[n] \in Notice
        /\ notice[n].state = asked[n].state /\ notice[n].state # "free"
        /\ clash[n] = {} => /\ notice[n].active = asked[n].active
                            /\ request[t].active = notice[n].active
    BY <1>1 DEF TypeInv, NoticeInv, NoticesAreKept
  <2>2. n \in DOMAIN asked /\ n \in DOMAIN notice
    BY <1>1 DEF TypeInv
  <2>3. CASE UNCHANGED <<notice, asked>>
    BY <2>1, <2>3
  <2>4. CASE Switch(t) /\ n \in Live
    <3>1. /\ notice' = [notice EXCEPT ![n] = [notice[n] EXCEPT !.active = ~request[t].active]]
          /\ asked' = [asked EXCEPT ![n] = [asked[n] EXCEPT !.active = ~asked[n].active]]
      BY <2>4 DEF Switch
    <3> QED  BY <2>1, <2>2, <3>1 DEF TypeInv, Notice
  <2>5. CASE DeleteNotice(t)
    <3>1. /\ notice' = [notice EXCEPT ![n] = [notice[n] EXCEPT !.state = "gone"]]
          /\ asked' = [asked EXCEPT ![n] = [asked[n] EXCEPT !.state = "gone"]]
      BY <2>5 DEF DeleteNotice
    <3> QED  BY <2>1, <2>2, <3>1 DEF TypeInv, Notice
  <2> QED  BY <2>3, <2>4, <2>5 DEF Switch
<1>3. NoticesAreKept'
  BY <1>1, <1>2 DEF NoticesAreKept, NoticeInv
<1>4. \A s \in Workers : Presses(s)' => s # t /\ Presses(s) /\ request'[s] = request[s]
  BY <1>1 DEF TypeInv, Presses, Idle
<1>5. ASSUME NEW s \in Workers, Presses(s)'
      PROVE  /\ notice'[request'[s].notice].state # "free"
             /\ clash'[request'[s].notice] = {}
                  => request'[s].active = notice'[request'[s].notice].active
  <2>1. s # t /\ Presses(s) /\ request'[s] = request[s] /\ request[s].notice \in Notices
    BY <1>4, <1>5, PressesAreTyped
  <2>2. CASE request[s].notice = n
    BY <1>1, <1>2, <2>1, <2>2 DEF NoticeInv
  <2>3. CASE request[s].notice # n
    BY <1>1, <1>2, <2>1, <2>3 DEF NoticeInv
  <2> QED  BY <2>2, <2>3
<1>6. \A r, s \in Workers :
        r # s /\ Presses(r)' /\ Presses(s)' /\ request'[r].notice = request'[s].notice
          => clash'[request'[r].notice] # {}
  BY <1>1, <1>4 DEF NoticeInv
<1> QED  BY <1>3, <1>5, <1>6 DEF NoticeInv

LEMMA LoadNoticeIsKept ==
  ASSUME TypeInv, NoticeInv, NEW t \in Workers, NEW u \in Active, NEW n \in Notices,
         NEW op \in {"switch", "delete"}, LoadNotice(t, u, n, op)
  PROVE  NoticeInv'
<1>1. /\ request' = [request EXCEPT ![t] = [op |-> op, notice |-> n, active |-> notice[n].active]]
      /\ UNCHANGED <<notice, asked>> /\ n \in Live
      /\ clash' = IF \E s \in Workers : Presses(s) /\ request[s].notice = n
                    THEN [clash EXCEPT ![n] = {"active"}] ELSE clash
  BY DEF LoadNotice, Presses
<1>2. \A m \in Notices : /\ clash'[m] = {} => clash[m] = {}
                         /\ clash[m] # {} => clash'[m] # {}
  BY <1>1 DEF TypeInv
<1>3. /\ request'[t].notice = n /\ request'[t].active = notice[n].active
      /\ \A s \in Workers \ {t} : request'[s] = request[s]
      /\ \A s \in Workers \ {t} : Presses(s) /\ request[s].notice = n => clash'[n] # {}
  BY <1>1 DEF TypeInv
<1>4. NoticesAreKept'
  BY <1>1, <1>2 DEF NoticesAreKept, NoticeInv
<1>5. ASSUME NEW s \in Workers, Presses(s)'
      PROVE  /\ notice'[request'[s].notice].state # "free"
             /\ clash'[request'[s].notice] = {}
                  => request'[s].active = notice'[request'[s].notice].active
  <2>1. CASE s = t
    BY <1>1, <1>3, <2>1 DEF Live
  <2>2. CASE s # t
    <3>1. Presses(s) /\ request'[s] = request[s] /\ request[s].notice \in Notices
      BY <1>3, <1>5, <2>2, PressesAreTyped DEF Presses
    <3> QED  BY <1>1, <1>2, <3>1 DEF NoticeInv
  <2> QED  BY <2>1, <2>2
<1>6. ASSUME NEW r \in Workers, NEW s \in Workers, r # s, Presses(r)', Presses(s)',
             request'[r].notice = request'[s].notice
      PROVE  clash'[request'[r].notice] # {}
  <2>1. CASE r = t
    <3>1. Presses(s) /\ request[s].notice = n
      BY <1>3, <1>6, <2>1 DEF Presses
    <3> QED  BY <1>3, <1>6, <2>1, <3>1
  <2>2. CASE s = t
    <3>1. Presses(r) /\ request[r].notice = n
      BY <1>3, <1>6, <2>2 DEF Presses
    <3> QED  BY <1>3, <1>6, <2>2, <3>1
  <2>3. CASE r # t /\ s # t
    <3>1. /\ Presses(r) /\ Presses(s) /\ request'[r] = request[r] /\ request'[s] = request[s]
          /\ request[r].notice \in Notices
      BY <1>3, <1>6, <2>3, PressesAreTyped DEF Presses
    <3> QED  BY <1>2, <1>6, <3>1 DEF NoticeInv
  <2> QED  BY <2>1, <2>2, <2>3
<1> QED  BY <1>4, <1>5, <1>6 DEF NoticeInv

\* A notice that is created was pressed by nobody.
LEMMA CreateNoticeIsKept ==
  ASSUME TypeInv, NoticeInv, NEW u \in Active, NEW n \in Notices, NEW a \in NewAudiences,
         NEW b \in BOOLEAN, CreateNotice(u, n, a, b)
  PROVE  NoticeInv'
<1>1. /\ notice[n].state = "free" /\ UNCHANGED <<request, clash>>
      /\ notice' = [notice EXCEPT ![n] = [state |-> "live", audience |-> a, active |-> b]]
      /\ asked' = [asked EXCEPT ![n] = notice'[n]]
  BY DEF CreateNotice
<1>2. /\ asked'[n] = notice'[n]
      /\ \A m \in Notices \ {n} : notice'[m] = notice[m] /\ asked'[m] = asked[m]
  BY <1>1 DEF TypeInv
<1>3. NoticesAreKept'
  BY <1>1, <1>2 DEF NoticesAreKept, NoticeInv
<1>4. \A t \in Workers : Presses(t) => request[t].notice \in Notices \ {n}
  BY <1>1, PressesAreTyped DEF NoticeInv
<1>5. \A t \in Workers : Presses(t)' <=> Presses(t)
  BY <1>1 DEF Presses
<1> QED  BY <1>1, <1>2, <1>3, <1>4, <1>5 DEF NoticeInv

\* Answers, moderation and the clock write no profile and no notice.
LEMMA AnswersWriteNothing ==
  ASSUME TypeInv,
         \/ \E t \in Workers : RecommendationStep(t)
         \/ \E p \in Projects, s \in StatusMoves : Move(p, s)
         \/ Tick
  PROVE  /\ UNCHANGED <<profile, linked, notice, asked, clash>>
         /\ \A s \in Workers :
              \/ request'[s] = request[s]
              \/ request[s].op \in {"idle", "remote"} /\ request'[s].op \in {"idle", "remote"}
<1>1. ASSUME NEW t \in Workers, NEW u, NEW kind, NEW query, Ask(t, u, kind, query)
      PROVE  /\ UNCHANGED <<profile, linked, notice, asked, clash>>
             /\ request[t].op = "idle" /\ request'[t].op = "remote"
             /\ \A s \in Workers \ {t} : request'[s] = request[s]
  <2>1. /\ request' = [request EXCEPT ![t] = [op |-> "remote", user |-> u, kind |-> kind,
                                              query |-> query, rows |-> Public, since |-> now]]
        /\ request[t] = Idle
        /\ UNCHANGED <<profile, linked, notice, asked, clash>>
    BY <1>1 DEF Ask, profileVars
  <2> QED  BY <2>1 DEF TypeInv, Idle
<1>2. ASSUME NEW t \in Workers, request[t].op = "remote",
             request' = [request EXCEPT ![t] = Idle]
      PROVE  request'[t].op = "idle" /\ \A s \in Workers \ {t} : request'[s] = request[s]
  BY <1>2 DEF TypeInv, Idle
<1>3. ASSUME NEW t \in Workers, NEW items, request[t].op = "remote", Reply(t, items)
      PROVE  /\ UNCHANGED <<profile, linked, notice, asked, clash>>
             /\ request'[t].op = "idle" /\ \A s \in Workers \ {t} : request'[s] = request[s]
  BY <1>2, <1>3 DEF Reply, profileVars
<1>4. ASSUME NEW t \in Workers, RecommendationStep(t)
      PROVE  /\ UNCHANGED <<profile, linked, notice, asked, clash>>
             /\ \A s \in Workers :
                  \/ request'[s] = request[s]
                  \/ /\ request[s].op \in {"idle", "remote"}
                     /\ request'[s].op \in {"idle", "remote"}
  <2>1. CASE RemoteFails(t)
    BY <1>3, <2>1 DEF RemoteFails
  <2>2. CASE GatewayRaises(t)
    BY <1>2, <2>2 DEF GatewayRaises, profileVars
  <2>3. ASSUME NEW ids \in SUBSET Projects, RemoteAnswers(t, ids)
        PROVE  /\ UNCHANGED <<profile, linked, notice, asked, clash>>
               /\ request[t].op = "remote" /\ request'[t].op = "idle"
               /\ \A s \in Workers \ {t} : request'[s] = request[s]
    BY <1>3, <2>3 DEF RemoteAnswers
  <2>4. ASSUME NEW u \in Active, NEW I \in InterestSets, Search(t, u, I) \/ Recommend(t, u, I)
        PROVE  /\ UNCHANGED <<profile, linked, notice, asked, clash>>
               /\ request[t].op = "idle" /\ request'[t].op = "remote"
               /\ \A s \in Workers \ {t} : request'[s] = request[s]
    BY <1>1, <2>4 DEF Search, Recommend
  <2>5. ASSUME NEW u \in Active, PageMiss(t, u)
        PROVE  /\ UNCHANGED <<profile, linked, notice, asked, clash>>
               /\ request[t].op = "idle" /\ request'[t].op = "remote"
               /\ \A s \in Workers \ {t} : request'[s] = request[s]
    BY <1>1, <2>5 DEF PageMiss
  <2>6. ASSUME NEW u \in Active, PageHit(t, u) \/ PageLatest(t, u)
        PROVE  UNCHANGED <<profile, linked, notice, asked, clash, request>>
    BY <2>6 DEF PageHit, PageLatest, profileVars
  <2> QED  BY <1>4, <2>1, <2>2, <2>3, <2>4, <2>5, <2>6 DEF RecommendationStep
<1>5. CASE \E p \in Projects, s \in StatusMoves : Move(p, s)
  BY <1>5 DEF Move, profileVars
<1>6. CASE Tick
  BY <1>6 DEF Tick, profileVars
<1> QED  BY <1>4, <1>5, <1>6

\* Every other step presses nothing.
LEMMA OtherStepsKeepNotices ==
  ASSUME TypeInv, NoticeInv,
         \/ \E t \in Workers : ProfileStep(t) \/ RecommendationStep(t) \/ WorkerDies(t)
         \/ \E p \in Projects, s \in StatusMoves : Move(p, s)
         \/ Tick
  PROVE  NoticeInv'
<1>1. CASE \/ \E t \in Workers : RecommendationStep(t)
           \/ \E p \in Projects, s \in StatusMoves : Move(p, s)
           \/ Tick
  BY <1>1, AnswersWriteNothing, NoticesUntouched DEF Presses
<1>2. ASSUME NEW t \in Workers, Save(t), notice' = notice PROVE NoticeInv'
  <2>1. /\ request' = [request EXCEPT ![t] = [op |-> "relate", user |-> request[t].user,
                                              interests |-> request[t].copy.interests]]
        /\ clash' = clash
        /\ asked' = [asked EXCEPT ![request[t].user] = Changed(request[t].change, @)]
    BY <1>2 DEF Save
  <2>2. request[t].user \in Users
    BY <1>2, RequestsAreTyped DEF Save, TypeInv, SaveRequest
  <2>3. \A n \in Notices : asked'[n] = asked[n]
    BY <2>1, <2>2, NoticesAssumption DEF TypeInv
  <2> QED  BY <1>2, <2>1, <2>3, NoticesUntouched DEF TypeInv, Presses
<1>3. ASSUME NEW t \in Workers, Relate(t), notice' = notice PROVE NoticeInv'
  <2>1. request' = [request EXCEPT ![t] = Idle] /\ UNCHANGED <<asked, clash>>
    BY <1>3 DEF Relate
  <2> QED  BY <1>3, <2>1, NoticesUntouched DEF TypeInv, Presses, Idle
<1>4. ASSUME NEW t \in Workers, NEW u \in Active, NEW c \in Changes, Load(t, u, c),
             notice' = notice
      PROVE  NoticeInv'
  <2> DEFINE more == (Fields(c) \union {"linked"}) \intersect UNION {Writes(s, u) : s \in Workers}
  <2>1. /\ request' = [request EXCEPT ![t] = [op |-> "save", user |-> u, change |-> c,
                                              copy |-> Changed(c, profile[u])]]
        /\ asked' = asked
        /\ clash' = [clash EXCEPT ![u] = @ \union more]
    BY <1>4 DEF Load
  <2> HIDE DEF more
  <2>2. \A n \in Notices : clash'[n] = clash[n]
    BY <2>1, UsersAssumption, NoticesAssumption DEF TypeInv
  <2> QED  BY <1>4, <2>1, <2>2, NoticesUntouched DEF TypeInv, Presses
<1>5. ASSUME NEW t \in Workers, WorkerDies(t) PROVE NoticeInv'
  <2>1. /\ request' = [request EXCEPT ![t] = Idle] /\ UNCHANGED <<notice, asked>>
        /\ clash' = IF request[t].op = "relate"
                      THEN [clash EXCEPT ![request[t].user] = @ \union {"linked"}] ELSE clash
    BY <1>5 DEF WorkerDies
  <2>2. request[t].op = "relate" => request[t].user \in Users
    BY RequestsAreTyped DEF TypeInv, RelateRequest
  <2>3. \A n \in Notices : clash'[n] = clash[n]
    BY <2>1, <2>2, NoticesAssumption DEF TypeInv
  <2> QED  BY <2>1, <2>3, NoticesUntouched DEF TypeInv, Presses, Idle
<1> QED  BY <1>1, <1>2, <1>3, <1>4, <1>5 DEF ProfileStep

-----------------------------------------------------------------------------
(***************************************************************************)
(* Requests are kept: the profiles.                                        *)
(***************************************************************************)
Of(t, u) == Saves(t, u) \/ Relates(t, u)

LEMMA SavesAreTyped ==
  ASSUME TypeInv, NEW t \in Workers
  PROVE  /\ request[t].op = "save" =>
              /\ request[t].user \in Users /\ request[t].change \in Changes
              /\ request[t].copy \in Row
         /\ request[t].op = "relate" => request[t].user \in Users
BY RequestsAreTyped DEF TypeInv, SaveRequest, RelateRequest

\* Nothing of the profile of a user is touched.
LEMMA ProfileUntouched ==
  ASSUME TypeInv, NEW u \in Users, Kept(u),
         profile'[u] = profile[u], linked'[u] = linked[u],
         asked'[u] = asked[u], clash'[u] = clash[u],
         \A t \in Workers : request'[t] = request[t] \/ (~Of(t, u) /\ ~Of(t, u)')
  PROVE  Kept(u)'
<1>1. \A t \in Workers : /\ Saves(t, u)' => Saves(t, u) /\ request'[t] = request[t]
                         /\ Relates(t, u)' <=> Relates(t, u)
                         /\ Relates(t, u)' => request'[t] = request[t]
                         /\ Writes(t, u)' = Writes(t, u)
  BY DEF Of, Saves, Relates, Writes
<1> QED  BY <1>1 DEF Kept

LEMMA LoadIsKept ==
  ASSUME TypeInv, ProfileInv, NEW t \in Workers, NEW u \in Users, NEW c \in Changes,
         Load(t, u, c)
  PROVE  ProfileInv'
<1> DEFINE more == (Fields(c) \union {"linked"}) \intersect UNION {Writes(s, u) : s \in Workers}
           r == [op |-> "save", user |-> u, change |-> c, copy |-> Changed(c, profile[u])]
<1>1. /\ request' = [request EXCEPT ![t] = r] /\ request[t] = Idle
      /\ clash' = [clash EXCEPT ![u] = @ \union more]
      /\ UNCHANGED <<profile, linked, asked>>
  BY DEF Load, profileVars
<1>2. /\ r.op = "save" /\ r.user = u /\ r.change = c /\ r.copy = Changed(c, profile[u])
      /\ \A s \in Workers :
           (Fields(c) \union {"linked"}) \intersect Writes(s, u) \subseteq more
  OBVIOUS
<1> HIDE DEF r, more
<1>3. /\ request'[t] = r /\ \A s \in Workers \ {t} : request'[s] = request[s]
      /\ clash'[u] = clash[u] \union more
      /\ \A v \in Users \ {u} : clash'[v] = clash[v]
  BY <1>1, UsersAssumption DEF TypeInv
<1>4. request[t].op = "idle"
  BY <1>1 DEF Idle
<1>5. ASSUME NEW v \in Users \ {u} PROVE Kept(v)'
  <2>1. ~Of(t, v) /\ ~Of(t, v)'
    BY <1>2, <1>3, <1>4 DEF Of, Saves, Relates
  <2> QED  BY <1>1, <1>3, <2>1, ProfileUntouched DEF ProfileInv
<1>6. Kept(u)'
  <2>1. Kept(u) /\ clash[u] \subseteq clash'[u]
    BY <1>3 DEF ProfileInv
  <2>2. /\ \A s \in Workers \ {t} : /\ Writes(s, u)' = Writes(s, u)
                                    /\ Saves(s, u)' <=> Saves(s, u)
                                    /\ Relates(s, u)' <=> Relates(s, u)
        /\ Writes(t, u)' = {"linked"} \union Fields(c) /\ ~Relates(t, u) /\ ~Relates(t, u)'
    BY <1>2, <1>3, <1>4 DEF Writes, Saves, Relates
  <2>3. \A f \in ProfileFields \ clash'[u] : profile'[u][f] = asked'[u][f]
    BY <1>1, <2>1 DEF Kept
  <2>4. ASSUME NEW x \in Workers, NEW y \in Workers, x # y
        PROVE  Writes(x, u)' \intersect Writes(y, u)' \subseteq clash'[u]
    <3>1. CASE x = t
      BY <1>2, <1>3, <2>2, <2>4, <3>1
    <3>2. CASE y = t
      BY <1>2, <1>3, <2>2, <2>4, <3>2
    <3>3. CASE x # t /\ y # t
      BY <2>1, <2>2, <2>4, <3>3 DEF Kept
    <3> QED  BY <3>1, <3>2, <3>3
  <2>5. ASSUME NEW s \in Workers, Saves(s, u)', NEW f \in ProfileFields,
               f \in Fields(request'[s].change) \ clash'[u] \/ "linked" \notin clash'[u]
        PROVE  request'[s].copy[f] = Changed(request'[s].change, profile'[u])[f]
    <3>1. CASE s = t
      BY <1>1, <1>2, <1>3, <3>1
    <3>2. CASE s # t
      BY <1>1, <1>3, <2>1, <2>2, <2>5, <3>2 DEF Kept
    <3> QED  BY <3>1, <3>2
  <2>6. "linked" \notin clash'[u] =>
          /\ \A s \in Workers : Relates(s, u)' => request'[s].interests = profile'[u].interests
          /\ (\A s \in Workers : ~Relates(s, u)') => linked'[u] = profile'[u].interests
    BY <1>1, <1>3, <2>1, <2>2 DEF Kept
  <2> QED  BY <2>3, <2>4, <2>5, <2>6 DEF Kept
<1> QED  BY <1>5, <1>6 DEF ProfileInv

\* What is saved is what was asked for, in the fields that nobody else was writing.
LEMMA SaveIsKept ==
  ASSUME TypeInv, ProfileInv, NEW t \in Workers, Save(t)
  PROVE  ProfileInv'
<1>1. PICK u \in Users, c \in Changes, copy \in Row :
        Saves(t, u) /\ request[t].change = c /\ request[t].copy = copy
  BY SavesAreTyped DEF Save, Saves
<1> DEFINE r == [op |-> "relate", user |-> u, interests |-> copy.interests]
<1>2. /\ request' = [request EXCEPT ![t] = r]
      /\ profile' = [profile EXCEPT ![u] = Saved(c, @, copy)]
      /\ asked' = [asked EXCEPT ![u] = Changed(c, @)]
      /\ UNCHANGED <<linked, clash>>
  BY <1>1 DEF Save, Saves
<1>3. r.op = "relate" /\ r.user = u /\ r.interests = copy.interests
  OBVIOUS
<1> HIDE DEF r
<1>4. /\ request'[t] = r /\ \A s \in Workers \ {t} : request'[s] = request[s]
      /\ profile'[u] = Saved(c, profile[u], copy) /\ asked'[u] = Changed(c, asked[u])
      /\ \A v \in Users \ {u} : profile'[v] = profile[v] /\ asked'[v] = asked[v]
  BY <1>1, <1>2 DEF TypeInv
<1>5. ASSUME NEW v \in Users \ {u} PROVE Kept(v)'
  <2>1. ~Of(t, v) /\ ~Of(t, v)'
    BY <1>1, <1>3, <1>4 DEF Of, Saves, Relates
  <2> QED  BY <1>2, <1>4, <2>1, ProfileUntouched DEF ProfileInv
<1>6. Kept(u)'
  <2>1. /\ Kept(u) /\ profile[u] \in Row /\ asked[u] \in Row
        /\ Fields(c) \subseteq ProfileFields
    BY <1>1, ChangesAreTyped DEF ProfileInv, TypeInv
  <2>2. /\ \A f \in Fields(c) : profile'[u][f] = copy[f]
        /\ \A f \in ProfileFields \ Fields(c) : profile'[u][f] = profile[u][f]
    BY <1>1, <1>4, <2>1, SavedFields
  <2>3. /\ \A f \in Fields(c) \ clash[u] : copy[f] = Changed(c, profile[u])[f]
        /\ "linked" \notin clash[u] =>
             \A f \in ProfileFields : copy[f] = Changed(c, profile[u])[f]
    BY <1>1, <2>1 DEF Kept
  <2>4. \A f \in ProfileFields \ clash[u] : profile'[u][f] = asked'[u][f]
    <3>1. \A f \in ProfileFields \ clash[u] :
            /\ Changed(c, profile[u])[f] = Changed(c, asked[u])[f]
            /\ f \notin Fields(c) => Changed(c, profile[u])[f] = profile[u][f]
      BY <1>1, <2>1, ChangedFields DEF Kept
    <3> QED  BY <1>4, <2>2, <2>3, <3>1
  <2>5. /\ \A s \in Workers \ {t} : /\ Writes(s, u)' = Writes(s, u)
                                    /\ Saves(s, u)' <=> Saves(s, u)
                                    /\ Relates(s, u)' <=> Relates(s, u)
        /\ Writes(t, u)' = {"linked"} /\ Writes(t, u) = {"linked"} \union Fields(c)
        /\ ~Saves(t, u)' /\ Relates(t, u)'
    BY <1>1, <1>3, <1>4 DEF Writes, Saves, Relates
  <2>6. \A s \in Workers \ {t} : Writes(t, u) \intersect Writes(s, u) \subseteq clash[u]
    BY <2>1 DEF Kept
  <2>7. ASSUME NEW x \in Workers, NEW y \in Workers, x # y
        PROVE  Writes(x, u)' \intersect Writes(y, u)' \subseteq clash'[u]
    <3>1. Writes(x, u)' \subseteq Writes(x, u) /\ Writes(y, u)' \subseteq Writes(y, u)
      BY <2>5
    <3> QED  BY <1>2, <2>1, <2>7, <3>1 DEF Kept
  <2>8. \A s \in Workers \ {t} : Of(s, u) => "linked" \in clash[u]
    BY <2>5, <2>6 DEF Of, Saves, Relates, Writes
  <2>9. ASSUME NEW s \in Workers, Saves(s, u)', NEW f \in ProfileFields,
               f \in Fields(request'[s].change) \ clash'[u] \/ "linked" \notin clash'[u]
        PROVE  request'[s].copy[f] = Changed(request'[s].change, profile'[u])[f]
    <3>1. s # t /\ Saves(s, u) /\ request'[s] = request[s] /\ request[s].change \in Changes
      BY <1>4, <2>5, <2>9, SavesAreTyped DEF Saves
    <3>2. f \in Fields(request[s].change) \ clash[u]
      BY <1>2, <2>8, <2>9, <3>1 DEF Of
    <3>3. f \notin Fields(c)
      BY <2>5, <2>6, <3>1, <3>2 DEF Writes, Saves
    <3>4. profile'[u][f] = profile[u][f] /\ profile'[u] \in Row
      BY <1>1, <1>4, <2>1, <2>2, <3>3, SavedFields
    <3>5. Changed(request[s].change, profile'[u])[f] = Changed(request[s].change, profile[u])[f]
      BY <2>1, <3>1, <3>4, ChangedFields
    <3>6. request[s].copy[f] = Changed(request[s].change, profile[u])[f]
      BY <2>1, <3>1, <3>2 DEF Kept
    <3> QED  BY <3>1, <3>5, <3>6
  <2>10. ASSUME "linked" \notin clash'[u]
         PROVE  /\ \A s \in Workers :
                     Relates(s, u)' => request'[s].interests = profile'[u].interests
                /\ ~\A s \in Workers : ~Relates(s, u)'
    <3>1. \A s \in Workers : Relates(s, u)' => s = t
      BY <1>2, <2>5, <2>8, <2>10 DEF Of
    <3>2. profile'[u]["interests"] = copy["interests"]
      <4>1. "interests" \notin Fields(c)
              => Changed(c, profile[u])["interests"] = profile[u]["interests"]
        BY <1>1, <2>1, ChangedFields DEF ProfileFields
      <4> QED  BY <1>2, <2>2, <2>3, <2>10, <4>1 DEF ProfileFields
    <3>3. ~\A s \in Workers : ~Relates(s, u)'
      BY <2>5
    <3>4. request'[t].interests = profile'[u].interests
      BY <1>3, <1>4, <3>2
    <3> QED  BY <3>1, <3>3, <3>4
  <2>11. "linked" \notin clash'[u] =>
           /\ \A s \in Workers : Relates(s, u)' => request'[s].interests = profile'[u].interests
           /\ (\A s \in Workers : ~Relates(s, u)') => linked'[u] = profile'[u].interests
    BY <2>10
  <2> QED  BY <1>2, <2>4, <2>7, <2>9, <2>11 DEF Kept
<1> QED  BY <1>5, <1>6 DEF ProfileInv

\* The technologies of the copy are those of the row, unless two requests overlapped.
LEMMA RelateIsKept ==
  ASSUME TypeInv, ProfileInv, NEW t \in Workers, Relate(t)
  PROVE  ProfileInv'
<1>1. PICK u \in Users : Relates(t, u)
  BY SavesAreTyped DEF Relate, Relates
<1>2. /\ request' = [request EXCEPT ![t] = Idle]
      /\ linked' = [linked EXCEPT ![u] = request[t].interests]
      /\ UNCHANGED <<profile, asked, clash>>
  BY <1>1 DEF Relate, Relates
<1>3. /\ request'[t].op = "idle" /\ \A s \in Workers \ {t} : request'[s] = request[s]
      /\ linked'[u] = request[t].interests
      /\ \A v \in Users \ {u} : linked'[v] = linked[v]
  BY <1>1, <1>2 DEF TypeInv, Idle
<1>4. ASSUME NEW v \in Users \ {u} PROVE Kept(v)'
  <2>1. ~Of(t, v) /\ ~Of(t, v)'
    BY <1>1, <1>3 DEF Of, Saves, Relates
  <2> QED  BY <1>2, <1>3, <2>1, ProfileUntouched DEF ProfileInv
<1>5. Kept(u)'
  <2>1. Kept(u)
    BY DEF ProfileInv
  <2>2. /\ \A s \in Workers : /\ Writes(s, u)' \subseteq Writes(s, u)
                              /\ Saves(s, u)' => Saves(s, u) /\ request'[s] = request[s]
                              /\ Relates(s, u)' => s # t /\ Relates(s, u)
        /\ Writes(t, u) = {"linked"}
    BY <1>1, <1>3 DEF Writes, Saves, Relates
  <2>3. "linked" \notin clash[u] => \A s \in Workers : ~Relates(s, u)'
    <3>1. \A s \in Workers \ {t} : Relates(s, u) => "linked" \in clash[u]
      BY <2>1, <2>2 DEF Kept, Relates, Writes
    <3> QED  BY <2>2, <3>1
  <2>4. "linked" \notin clash[u] => linked'[u] = profile[u].interests
    BY <1>1, <1>3, <2>1 DEF Kept
  <2>5. \A x, y \in Workers : x # y => Writes(x, u)' \intersect Writes(y, u)' \subseteq clash[u]
    BY <2>1, <2>2 DEF Kept
  <2>6. \A s \in Workers : Saves(s, u)' =>
          \A f \in ProfileFields :
            f \in Fields(request'[s].change) \ clash[u] \/ "linked" \notin clash[u]
              => request'[s].copy[f] = Changed(request'[s].change, profile[u])[f]
    BY <2>1, <2>2 DEF Kept
  <2>7. \A f \in ProfileFields \ clash[u] : profile[u][f] = asked[u][f]
    BY <2>1 DEF Kept
  <2> QED  BY <1>2, <2>3, <2>4, <2>5, <2>6, <2>7 DEF Kept
<1> QED  BY <1>4, <1>5 DEF ProfileInv

\* The technologies of a worker that dies stay as they were, which counts as a clash;
\* a row that it had not saved yet is as it was.
LEMMA DyingWorkerIsKept ==
  ASSUME TypeInv, ProfileInv, NEW t \in Workers, WorkerDies(t)
  PROVE  ProfileInv'
<1>1. /\ request' = [request EXCEPT ![t] = Idle] /\ UNCHANGED <<profile, linked, asked>>
      /\ clash' = IF request[t].op = "relate"
                    THEN [clash EXCEPT ![request[t].user] = @ \union {"linked"}] ELSE clash
  BY DEF WorkerDies, profileVars
<1>2. request'[t].op = "idle" /\ \A s \in Workers \ {t} : request'[s] = request[s]
  BY <1>1 DEF TypeInv, Idle
<1>3. ASSUME NEW u \in Users PROVE Kept(u)'
  <2>1. Kept(u)
    BY DEF ProfileInv
  <2>2. /\ clash[u] \subseteq clash'[u]
        /\ Relates(t, u) => "linked" \in clash'[u]
    BY <1>1, <1>3 DEF TypeInv, Relates
  <2>3. \A s \in Workers : /\ Writes(s, u)' \subseteq Writes(s, u)
                           /\ Saves(s, u)' => Saves(s, u) /\ request'[s] = request[s]
                           /\ Relates(s, u)' => Relates(s, u) /\ request'[s] = request[s]
                           /\ Relates(s, u) => s = t \/ Relates(s, u)'
    BY <1>2 DEF Writes, Saves, Relates
  <2>4. "linked" \notin clash'[u] => \A s \in Workers : Relates(s, u)' <=> Relates(s, u)
    BY <2>2, <2>3
  <2>5. \A x, y \in Workers : x # y => Writes(x, u)' \intersect Writes(y, u)' \subseteq clash'[u]
    <3>1. \A x, y \in Workers : x # y => Writes(x, u) \intersect Writes(y, u) \subseteq clash[u]
      BY <2>1 DEF Kept
    <3> QED  BY <2>2, <2>3, <3>1
  <2>6. \A s \in Workers : Saves(s, u)' =>
          \A f \in ProfileFields :
            f \in Fields(request'[s].change) \ clash'[u] \/ "linked" \notin clash'[u]
              => request'[s].copy[f] = Changed(request'[s].change, profile'[u])[f]
    BY <1>1, <2>1, <2>2, <2>3 DEF Kept
  <2>7. \A f \in ProfileFields \ clash'[u] : profile'[u][f] = asked'[u][f]
    BY <1>1, <2>1, <2>2 DEF Kept
  <2>8. "linked" \notin clash'[u] =>
          /\ \A s \in Workers : Relates(s, u)' => request'[s].interests = profile'[u].interests
          /\ (\A s \in Workers : ~Relates(s, u)') => linked'[u] = profile'[u].interests
    BY <1>1, <2>1, <2>2, <2>3, <2>4 DEF Kept
  <2> QED  BY <2>5, <2>6, <2>7, <2>8 DEF Kept
<1> QED  BY <1>3 DEF ProfileInv

\* A button of the office touches no profile.
LEMMA NoticeStepsKeepProfiles ==
  ASSUME TypeInv, ProfileInv, NEW t \in Workers, NoticeStep(t)
  PROVE  ProfileInv'
<1>1. UNCHANGED <<profile, linked>>
  BY DEF NoticeStep, Switch, DeleteNotice, LoadNotice, CreateNotice, profileVars
<1>2. /\ \A u \in Users : asked'[u] = asked[u] /\ clash'[u] = clash[u]
      /\ \A s \in Workers :
           \/ request'[s] = request[s]
           \/ /\ request[s].op \notin {"save", "relate"}
              /\ request'[s].op \notin {"save", "relate"}
  <2>1. CASE Switch(t)
    <3>1. Presses(t)
      BY <2>1 DEF Switch, Presses
    <3>2. request[t].notice \notin Users
      BY <3>1, PressesAreTyped
    <3>3. /\ request' = [request EXCEPT ![t] = Idle] /\ clash' = clash
          /\ asked' = asked \/ asked' = [asked EXCEPT ![request[t].notice].active = ~@]
      BY <2>1 DEF Switch
    <3> QED  BY <3>1, <3>2, <3>3 DEF TypeInv, Presses, Idle
  <2>2. CASE DeleteNotice(t)
    <3>1. Presses(t)
      BY <2>2 DEF DeleteNotice, Presses
    <3>2. request[t].notice \notin Users
      BY <3>1, PressesAreTyped
    <3>3. /\ request' = [request EXCEPT ![t] = Idle] /\ clash' = clash
          /\ asked' = [asked EXCEPT ![request[t].notice].state = "gone"]
      BY <2>2 DEF DeleteNotice
    <3> QED  BY <3>1, <3>2, <3>3 DEF TypeInv, Presses, Idle
  <2>3. ASSUME NEW u \in Active, NEW n \in Notices, NEW op \in {"switch", "delete"},
               LoadNotice(t, u, n, op)
        PROVE  /\ \A v \in Users : asked'[v] = asked[v] /\ clash'[v] = clash[v]
               /\ \A s \in Workers \ {t} : request'[s] = request[s]
               /\ request[t].op = "idle" /\ request'[t].op \in {"switch", "delete"}
    <3>1. /\ request' = [request EXCEPT ![t] = [op |-> op, notice |-> n,
                                                active |-> notice[n].active]]
          /\ request[t] = Idle /\ asked' = asked
          /\ clash' = clash \/ clash' = [clash EXCEPT ![n] = {"active"}]
      BY <2>3 DEF LoadNotice
    <3> QED  BY <3>1, NoticesAssumption DEF TypeInv, Idle
  <2>4. ASSUME NEW u \in Active, NEW n \in Notices, NEW a \in NewAudiences, NEW b \in BOOLEAN,
               CreateNotice(u, n, a, b)
        PROVE  /\ \A v \in Users : asked'[v] = asked[v] /\ clash'[v] = clash[v]
               /\ request' = request
    <3>1. asked' = [asked EXCEPT ![n] = notice'[n]] /\ UNCHANGED <<clash, request>>
      BY <2>4 DEF CreateNotice
    <3> QED  BY <3>1, NoticesAssumption DEF TypeInv
  <2> QED  BY <2>1, <2>2, <2>3, <2>4 DEF NoticeStep
<1>3. \A u \in Users, s \in Workers :
        request'[s] = request[s] \/ (~Of(s, u) /\ ~Of(s, u)')
  BY <1>2 DEF Of, Saves, Relates
<1> QED  BY <1>1, <1>2, <1>3, ProfileUntouched DEF ProfileInv

LEMMA AnswersKeepProfiles ==
  ASSUME TypeInv, ProfileInv,
         \/ \E t \in Workers : RecommendationStep(t)
         \/ \E p \in Projects, s \in StatusMoves : Move(p, s)
         \/ Tick
  PROVE  ProfileInv'
<1>1. UNCHANGED <<profile, linked, asked, clash>>
  BY AnswersWriteNothing
<1>2. \A u \in Users, s \in Workers :
        request'[s] = request[s] \/ (~Of(s, u) /\ ~Of(s, u)')
  BY AnswersWriteNothing DEF Of, Saves, Relates
<1> QED  BY <1>1, <1>2, ProfileUntouched DEF ProfileInv

LEMMA RequestsInit == Init => NoticeInv /\ ProfileInv
<1> SUFFICES ASSUME Init PROVE NoticeInv /\ ProfileInv
  OBVIOUS
<1>1. /\ profile = InitialProfile /\ linked = [u \in Users |-> InitialProfile[u].interests]
      /\ notice = InitialNotice
      /\ asked = [x \in Users \union Notices |->
                    IF x \in Users THEN InitialProfile[x] ELSE InitialNotice[x]]
      /\ clash = [x \in Users \union Notices |-> {}]
      /\ request = [t \in Workers |-> Idle]
  BY DEF Init, ProfileInit
<1>2. \A t \in Workers : request[t].op = "idle"
  BY <1>1 DEF Idle
<1>3. NoticeInv
  BY <1>1, <1>2, NoticesAssumption DEF NoticeInv, NoticesAreKept, Presses
<1>4. \A u \in Users, t \in Workers : /\ ~Saves(t, u) /\ ~Relates(t, u)
                                      /\ Writes(t, u) = {}
  BY <1>2 DEF Saves, Relates, Writes
<1>5. ProfileInv
  BY <1>1, <1>4 DEF ProfileInv, Kept
<1> QED  BY <1>3, <1>5

\* What users and the office ask for is what the rows hold, unless two requests
\* overlapped: the profile handlers save only their own fields, and a notice that is
\* deleted stays deleted.
THEOREM RequestsAreAlwaysKept == Spec => []RequestsAreKept
<1>1. TypeInv /\ NoticeInv /\ [Next]_vars => NoticeInv'
  <2>1. ASSUME TypeInv, NoticeInv, Next PROVE NoticeInv'
    BY <2>1, PressIsKept, LoadNoticeIsKept, CreateNoticeIsKept, OtherStepsKeepNotices
    DEF Next, NoticeStep
  <2>2. ASSUME TypeInv, NoticeInv, UNCHANGED vars PROVE NoticeInv'
    BY <2>2, NoticesUntouched DEF vars
  <2> QED  BY <2>1, <2>2
<1>2. TypeInv /\ ProfileInv /\ [Next]_vars => ProfileInv'
  <2>1. ASSUME TypeInv, ProfileInv, Next PROVE ProfileInv'
    BY <2>1, NoticeStepsKeepProfiles, AnswersKeepProfiles, DyingWorkerIsKept, SaveIsKept,
       RelateIsKept, LoadIsKept, UsersAssumption
    DEF Next, ProfileStep
  <2>2. ASSUME TypeInv, ProfileInv, UNCHANGED vars PROVE ProfileInv'
    BY <2>2, ProfileUntouched DEF vars, profileVars, ProfileInv
  <2> QED  BY <2>1, <2>2
<1>3. TypeInv /\ [Next]_vars => TypeInv'
  BY CatalogStepIsTyped
<1>4. NoticeInv /\ ProfileInv => RequestsAreKept
  <2> SUFFICES ASSUME NoticeInv, ProfileInv PROVE RequestsAreKept
    OBVIOUS
  <2>1. NoticesAreKept
    BY DEF NoticeInv
  <2>2. ASSUME NEW u \in Users
        PROVE  /\ \A f \in ProfileFields \ clash[u] : profile[u][f] = asked[u][f]
               /\ ("linked" \notin clash[u] /\ \A t \in Workers : Writes(t, u) = {})
                    => linked[u] = profile[u].interests
    BY <2>2 DEF ProfileInv, Kept, Relates, Writes
  <2> QED  BY <2>1, <2>2 DEF RequestsAreKept, ProfilesAreKept, ProfileFields
<1> QED  BY <1>1, <1>2, <1>3, <1>4, CatalogInitIsTyped, RequestsInit, PTL DEF Spec

-----------------------------------------------------------------------------
(***************************************************************************)
(* Lists, filters, numbers and pages.                                      *)
(***************************************************************************)
\* A window that is not inverted is in one state on each day, the one that the
\* filter selects.
LEMMA FiltersSelectTheirState == TypeInv => FiltersAgree
<1> SUFFICES ASSUME TypeInv PROVE FiltersAgree
  OBVIOUS
<1>1. \A row \in [team : 1..2, accepted : 0..3], state \in {"open", "full"} :
        StaffingFilter(row, state) <=> StaffingState(row) = state
  BY DEF StaffingFilter, StaffingState
<1>2. ASSUME NEW row \in [opened : 0..MaxTicks, deadline : 0..MaxTicks],
             NEW state \in {"open", "closed", "upcoming"},
             row.opened = 0 \/ row.deadline = 0 \/ row.opened <= row.deadline
      PROVE  WindowFilter(row, now, state) <=> WindowState(row, now) = state
  <2>1. row.opened \in Nat /\ row.deadline \in Nat /\ now \in Nat
    BY <1>2, CatalogAssumption DEF TypeInv
  <2> QED  BY <1>2, <2>1 DEF WindowFilter, WindowState
<1> QED  BY <1>1, <1>2 DEF FiltersAgree

LEMMA ListsOpenTheirPages == ListsOpen
<1> SUFFICES ASSUME NEW u \in Users
             PROVE  /\ Catalogue(u) \union Favourites(u) \union Mine(u) \union Supervised
                         \union Editable(u) \subseteq Detail(u)
                    /\ Role[u] = "staff" => Queue(u) \union Alternate \subseteq Detail(u)
                    /\ (Bookmarks(u) \union Overview(u) \union OverviewPage(u))
                         \intersect Public \subseteq Visible(u)
  BY DEF ListsOpen
<1>1. Published \subseteq Public /\ Public \subseteq Visible(u) /\ Own(u) \subseteq Visible(u)
  BY DEF Published, Public, Catalogued, Visible
<1>2. Visible(u) \subseteq Detail(u) /\ (Role[u] = "staff" => Existing \subseteq Detail(u))
  BY DEF Detail
<1>3. Catalogue(u) \union Favourites(u) \union Mine(u) \union Supervised \subseteq Visible(u)
  BY <1>1 DEF Catalogue, Favourites, Mine, Supervised
<1>4. Editable(u) \subseteq Detail(u)
  BY <1>1, <1>2 DEF Editable
<1>5. Queue(u) \union Alternate \subseteq Existing
  BY DEF Queue, Alternate, Existing
<1> QED  BY <1>1, <1>2, <1>3, <1>4, <1>5

\* The tables are finite, so their numbers are those of their parts.
LEMMA CountersCountTheirLists == TypeInv => CountersAgree
<1> SUFFICES ASSUME TypeInv PROVE CountersAgree
  OBVIOUS
<1>1. ASSUME NEW u \in Users
      PROVE  Counters(u).favourites >= Cardinality(Favourites(u))
  <2>1. profile[u].favourites \subseteq Projects
    BY <1>1 DEF TypeInv, Row
  <2>2. IsFiniteSet(profile[u].favourites)
    BY <2>1, ProjectsAssumption, FS_Subset
  <2>3. /\ Favourites(u) \subseteq profile[u].favourites
        /\ Counters(u).favourites = Cardinality(profile[u].favourites)
    BY DEF Favourites, Counters
  <2>4. /\ IsFiniteSet(Favourites(u))
        /\ Cardinality(Favourites(u)) <= Cardinality(profile[u].favourites)
    BY <2>2, <2>3, FS_Subset
  <2> QED  BY <2>2, <2>3, <2>4, FS_CardinalityType
<1>2. ASSUME NEW u \in Users, Role[u] = "customer"
      PROVE  /\ Counters(u).projects = Cardinality(Mine(u))
             /\ Counters(u).onModeration = InStatus(Mine(u), "on_moderation")
  <2>1. Mine(u) = Own(u) /\ ~IsModerator(u)
    BY <1>2 DEF Mine, IsModerator, HasRole
  <2> QED  BY <2>1 DEF Counters
<1>3. \A u \in Users : IsModerator(u) =>
        /\ Counters(u).onModeration = Cardinality(Queue(u))
        /\ Dashboard["on_moderation"] = Cardinality(Queue(u))
  BY DEF Counters, Queue, Dashboard, InStatus
<1>4. Dashboard["published"] + Dashboard["staffed"] = Cardinality(Public)
  <2> DEFINE In(status) == {p \in Projects : project[p] = status}
  <2>1. /\ Dashboard["published"] = Cardinality(In("published"))
        /\ Dashboard["staffed"] = Cardinality(In("staffed"))
    BY DEF Dashboard, InStatus
  <2>2. /\ Public = In("published") \union In("staffed")
        /\ In("published") \intersect In("staffed") = {}
    BY DEF Public, Catalogued
  <2>3. IsFiniteSet(In("published")) /\ IsFiniteSet(In("staffed"))
    BY ProjectsAssumption, FS_Subset
  <2>4. Cardinality(In("published") \intersect In("staffed")) = 0
    BY <2>2, FS_EmptySet
  <2> HIDE DEF In
  <2>5. Cardinality(Public) =
          Cardinality(In("published")) + Cardinality(In("staffed"))
            - Cardinality(In("published") \intersect In("staffed"))
    BY <2>2, <2>3, FS_Union
  <2> QED  BY <2>1, <2>3, <2>4, <2>5, FS_CardinalityType
<1>5. Public \subseteq Exported
  BY DEF Public, Catalogued, Exported, Existing
<1> QED  BY <1>1, <1>2, <1>3, <1>4, <1>5 DEF CountersAgree

\* Lists, filters, numbers and pages agree on a project, in every reachable state.
THEOREM SurfacesAlwaysAgree == Spec => []SurfacesAgree
<1>1. TypeInv => SurfacesAgree
  BY FiltersSelectTheirState, ListsOpenTheirPages, CountersCountTheirLists DEF SurfacesAgree
<1>2. TypeInv /\ [Next]_vars => TypeInv'
  BY CatalogStepIsTyped
<1> QED  BY <1>1, <1>2, CatalogInitIsTyped, PTL DEF Spec
=============================================================================
