------------------------------ MODULE Profiles ------------------------------
(***************************************************************************)
(* Profiles (apps/users): the interests and the favourite projects of a    *)
(* user, and the handlers that write them: the profile's API, the API of   *)
(* the favourites, the profile page and the bookmark button.               *)
(*                                                                         *)
(* A handler loads the row, changes its copy and saves all of it or some   *)
(* of its fields; then UserProfile.save relates the technologies of the    *)
(* copy's interests, in a transaction of its own.                          *)
(***************************************************************************)
EXTENDS Naturals, FiniteSets

CONSTANTS
  Workers,       \* gunicorn workers; each serves one request at a time
  Users,
  Projects,      \* primary keys
  IdSets,        \* lists of project ids that requests carry
  InterestSets,  \* lists of interests that requests carry
  InitialProfile,\* of each user
  Active,        \* users who send requests; the others look
  MaxRequests    \* bound on requests

\* interests, favorite_project_ids
Row == [interests : SUBSET UNION InterestSets, favourites : SUBSET Projects]

ASSUME ProjectsAssumption == Projects \subseteq Nat /\ IsFiniteSet(Projects)
ASSUME UsersAssumption == Active \subseteq Users /\ InitialProfile \in [Users -> Row]
ASSUME InputsAssumption == IdSets \subseteq SUBSET Projects /\ MaxRequests \in Nat

VARIABLES
  project,   \* projects_project: status, "gone" when deleted
  profile,   \* users_userprofile: interests, favorite_project_ids
  linked,    \* users_userprofile_interest_technologies
  request,   \* what each worker runs, with the copies it loaded
  requests,  \* spent of MaxRequests
  asked,     \* history: each row as the requests that wrote it asked for
  clash      \* history: fields that two requests wrote at once

profileVars == <<profile, linked>>

Existing == {p \in Projects : project[p] # "gone"}
Idle == [op |-> "idle"]

\* What the requests ask for: a toggled bookmark; favourites replaced, added
\* and removed; a profile patched, or saved from its page.
Changes ==
  [op : {"toggle", "remove"}, ids : {{p} : p \in Projects}]
  \union [op : {"replace", "add"}, ids : IdSets]
  \union [op : {"patch"}, given : {[favourites |-> ids] : ids \in IdSets}
                                  \union {[interests |-> I] : I \in InterestSets}]
  \union [op : {"page"}, interests : InterestSets]

\* The API and the bookmark button refuse projects that do not exist; PATCH
\* and DELETE take any id.
Accepted(c) == c.op \in {"toggle", "replace", "add"} => c.ids \subseteq Existing

\* The copy of the row, changed.
Changed(c, row) ==
  CASE c.op = "toggle"  -> [row EXCEPT !.favourites = (@ \ c.ids) \union (c.ids \ @)]
    [] c.op = "replace" -> [row EXCEPT !.favourites = c.ids]
    [] c.op = "add"     -> [row EXCEPT !.favourites = @ \union c.ids]
    [] c.op = "remove"  -> [row EXCEPT !.favourites = @ \ c.ids]
    [] c.op = "patch"   -> [f \in DOMAIN row |-> IF f \in DOMAIN c.given THEN c.given[f]
                                                                        ELSE row[f]]
    [] c.op = "page"    -> [row EXCEPT !.interests = c.interests]

\* The fields that are saved: PATCH saves the whole row.
Fields(c) ==
  CASE c.op = "patch" -> {"interests", "favourites"}
    [] c.op = "page"  -> {"interests"}
    [] OTHER          -> {"favourites"}

\* Mutation of Saved: every handler saves the whole row.
SavedWhole(c, row, copy) == copy

\* The row after the copy's fields are saved over it.
Saved(c, row, copy) == [f \in DOMAIN row |-> IF f \in Fields(c) THEN copy[f] ELSE row[f]]

\* What a request in flight will still write of the profile of u.
Writes(t, u) ==
  IF request[t].op \in {"save", "relate"} /\ request[t].user = u
    THEN {"linked"} \union (IF request[t].op = "save" THEN Fields(request[t].change) ELSE {})
    ELSE {}

Load(t, u, c) ==
  /\ request[t] = Idle /\ requests < MaxRequests
  /\ c \in Changes /\ Accepted(c)
  /\ request' = [request EXCEPT ![t] = [op |-> "save", user |-> u, change |-> c,
                                        copy |-> Changed(c, profile[u])]]
  /\ requests' = requests + 1
  /\ clash' = [clash EXCEPT ![u] = @ \union
                ((Fields(c) \union {"linked"}) \intersect UNION {Writes(s, u) : s \in Workers})]
  /\ UNCHANGED <<project, profileVars, asked>>

Save(t) ==
  LET r == request[t] IN
  /\ r.op = "save"
  /\ profile' = [profile EXCEPT ![r.user] = Saved(r.change, @, r.copy)]
  /\ asked' = [asked EXCEPT ![r.user] = Changed(r.change, @)]
  /\ request' = [request EXCEPT ![t] = [op |-> "relate", user |-> r.user,
                                        interests |-> r.copy.interests]]
  /\ UNCHANGED <<project, linked, requests, clash>>

\* sync_interest_technologies relates the interests of the copy, saved or not.
Relate(t) ==
  /\ request[t].op = "relate"
  /\ linked' = [linked EXCEPT ![request[t].user] = request[t].interests]
  /\ request' = [request EXCEPT ![t] = Idle]
  /\ UNCHANGED <<project, profile, requests, asked, clash>>

ProfileInit ==
  /\ profile = InitialProfile
  /\ linked = [u \in Users |-> InitialProfile[u].interests]

\* A saved profile keeps the favourites and the interests its requests asked for,
\* unless two requests wrote the field at once: no handler writes back a field
\* another handler owns.  The related technologies are those of the interests
\* unless any two requests of the user overlapped, for each of them, a bookmark
\* too, relates the interests of the copy it loaded.
ProfilesAreKept ==
  \A u \in Users :
    /\ \A f \in {"interests", "favourites"} \ clash[u] : profile[u][f] = asked[u][f]
    /\ ("linked" \notin clash[u] /\ \A t \in Workers : Writes(t, u) = {})
         => linked[u] = profile[u].interests
=============================================================================
