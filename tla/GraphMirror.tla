----------------------------- MODULE GraphMirror -----------------------------
(***************************************************************************)
(* Projects, applications and profiles of the web application, the events  *)
(* their handlers emit, and the graph built from those events.  A handler  *)
(* commits its row first and its event afterwards, and the payload comes   *)
(* from the handler's own copy of the row.  The HTML pages write the same  *)
(* rows and emit nothing.                                                  *)
(***************************************************************************)
EXTENDS GraphConsumer

CONSTANTS
  Projects, Applications, Users,
  Contents,      \* what a project may say: [supervisor, tags]
  InterestSets,  \* what a profile may say
  ProfileId,     \* the primary key of each user's profile
  New, Deleted,  \* a row before it is created, and after it is gone
  Threads

ASSUME ProfileAssumption ==
  /\ ProfileId \in [Users -> Nat] /\ Users \subseteq Nat
  /\ \A u, v \in Users : ProfileId[u] = ProfileId[v] => u = v

\* A primary key is not blank.
ASSUME KeysAssumption == Null \notin Projects \union Applications \union Nat

VARIABLES
  project,      \* projects_project: its content
  application,  \* applications_application: applicant and project
  profile,      \* users_userprofile: interests
  thread        \* each request: a loaded profile, or a commit to announce

webVars == <<project, application, profile, thread>>
vars == <<feed, graphVars, deaths, webVars>>

Ready == [pc |-> "ready"]

TypeOK ==
  /\ GraphTypeOK
  /\ project \in [Projects -> Contents \union {New, Deleted}]
  /\ application \in
       [Applications -> [student : Users, project : Projects] \union {New, Deleted}]
  /\ profile \in [Users -> InterestSets]
  /\ \A t \in Threads :
       \/ thread[t] = Ready
       \/ thread[t].pc = "loaded" /\ thread[t].copy \in InterestSets
       \/ thread[t].pc = "saved" /\ thread[t].event.id \in Projects \union Applications \union Nat

Init ==
  /\ GraphInit
  /\ project = [p \in Projects |-> New]
  /\ application = [a \in Applications |-> New]
  /\ profile \in [Users -> InterestSets]
  /\ thread = [t \in Threads |-> Ready]

Live(p) == project[p] \in Contents
Filed(a) == application[a] \notin {New, Deleted}

-----------------------------------------------------------------------------
ProjectEventOf(p, c) ==
  [kind |-> "project", id |-> p, supervisor |-> c.supervisor, tags |-> c.tags]

\* UserProfileSerializer: the id is the profile's.
ProfileEventOf(u, interests) ==
  [kind |-> "user_profile", id |-> ProfileId[u], interests |-> interests]

\* ApplicationSerializer: the applicant's snapshot has the user's id.
ApplicationEventOf(a, row) ==
  [kind |-> "application", id |-> a, student |-> row.student, project |-> row.project]

Announces(t, ev) == thread' = [thread EXCEPT ![t] = [pc |-> "saved", event |-> ev]]

\* A row that is deleted, and the rows that cascade.
WithoutProject(p) ==
  /\ project' = [project EXCEPT ![p] = Deleted]
  /\ application' = [a \in Applications |->
       IF Filed(a) /\ application[a].project = p THEN Deleted ELSE application[a]]

\* perform_create, perform_update and the moderation endpoints.
SaveProject(t, p, c) ==
  /\ thread[t] = Ready
  /\ project[p] # Deleted
  /\ project' = [project EXCEPT ![p] = c]
  /\ Announces(t, ProjectEventOf(p, c))
  /\ UNCHANGED <<application, profile>>

\* perform_destroy
DestroyProject(t, p) ==
  /\ thread[t] = Ready
  /\ Live(p)
  /\ WithoutProject(p)
  /\ Announces(t, [kind |-> "project.deleted", id |-> p])
  /\ UNCHANGED profile

\* perform_create of an application.
FileApplication(t, a, u, p) ==
  /\ thread[t] = Ready
  /\ application[a] = New /\ Live(p)
  /\ application' = [application EXCEPT ![a] = [student |-> u, project |-> p]]
  /\ Announces(t, ApplicationEventOf(a, application'[a]))
  /\ UNCHANGED <<project, profile>>

\* The review endpoint: no field the graph sees changes, but it is announced.
ReviewApplication(t, a) ==
  /\ thread[t] = Ready
  /\ Filed(a)
  /\ Announces(t, ApplicationEventOf(a, application[a]))
  /\ UNCHANGED <<project, application, profile>>

\* perform_destroy of an application.
DestroyApplication(t, a) ==
  /\ thread[t] = Ready
  /\ Filed(a)
  /\ application' = [application EXCEPT ![a] = Deleted]
  /\ Announces(t, [kind |-> "application.deleted", id |-> a])
  /\ UNCHANGED <<project, profile>>

\* The profile endpoints read the row first ...
LoadProfile(t, u) ==
  /\ thread[t] = Ready
  /\ thread' = [thread EXCEPT ![t] = [pc |-> "loaded", user |-> u, copy |-> profile[u]]]
  /\ UNCHANGED <<project, application, profile>>

\* ... PATCH saves it with new interests ...
PatchProfile(t, interests) ==
  /\ thread[t].pc = "loaded"
  /\ profile' = [profile EXCEPT ![thread[t].user] = interests]
  /\ Announces(t, ProfileEventOf(thread[t].user, interests))
  /\ UNCHANGED <<project, application>>

\* ... and the favourites' PUT, POST and DELETE save another column, but announce
\* the interests that were read.
SaveFavourites(t) ==
  /\ thread[t].pc = "loaded"
  /\ Announces(t, ProfileEventOf(thread[t].user, thread[t].copy))
  /\ UNCHANGED <<project, application, profile>>

\* emit_event, in a transaction of its own.
EmitEvent(t) ==
  /\ thread[t].pc = "saved"
  /\ Len(feed) < MaxEvents
  /\ feed' = Append(feed, thread[t].event)
  /\ thread' = [thread EXCEPT ![t] = Ready]
  /\ UNCHANGED <<graphVars, deaths, project, application, profile>>

\* The worker dies before it emits.
WorkerDies(t) ==
  /\ thread[t] # Ready
  /\ deaths < MaxDeaths
  /\ deaths' = deaths + 1
  /\ thread' = [thread EXCEPT ![t] = Ready]
  /\ UNCHANGED <<feed, graphVars, project, application, profile>>

\* project_edit, project_delete, withdraw, the profile page.
EditPage(p, c) ==
  /\ Live(p)
  /\ project' = [project EXCEPT ![p] = c]
  /\ UNCHANGED <<application, profile, thread>>

DeletePage(p) ==
  /\ Live(p)
  /\ WithoutProject(p)
  /\ UNCHANGED <<profile, thread>>

WithdrawPage(a) ==
  /\ Filed(a)
  /\ application' = [application EXCEPT ![a] = Deleted]
  /\ UNCHANGED <<project, profile, thread>>

ProfilePage(u, interests) ==
  /\ profile' = [profile EXCEPT ![u] = interests]
  /\ UNCHANGED <<project, application, thread>>

Request ==
  /\ UNCHANGED <<feed, graphVars, deaths>>
  /\ \/ \E t \in Threads :
          \/ \E p \in Projects : (\E c \in Contents : SaveProject(t, p, c)) \/ DestroyProject(t, p)
          \/ \E a \in Applications :
               \/ \E u \in Users, p \in Projects : FileApplication(t, a, u, p)
               \/ ReviewApplication(t, a) \/ DestroyApplication(t, a)
          \/ \E u \in Users : LoadProfile(t, u)
          \/ \E I \in InterestSets : PatchProfile(t, I)
          \/ SaveFavourites(t)
     \/ \E p \in Projects : (\E c \in Contents : EditPage(p, c)) \/ DeletePage(p)
     \/ \E a \in Applications : WithdrawPage(a)
     \/ \E u \in Users, I \in InterestSets : ProfilePage(u, I)

Next ==
  \/ Request
  \/ \E t \in Threads : EmitEvent(t) \/ WorkerDies(t)
  \/ GraphStep /\ UNCHANGED webVars

Spec == Init /\ [][Next]_vars

-----------------------------------------------------------------------------
\* The interests and the applications of a student meet on one node, as in the
\* projector's own test (one student node for a profile and an application).
StudentNodes(u) == (StudentNode(u) \union StudentNode(ProfileId[u])) \intersect graph.nodes

OneStudentNode == \A u \in Users : Cardinality(StudentNodes(u)) <= 1

\* A project that is deleted, with its tombstone in the feed and every event
\* projected, is not in the graph, as in the projector's own test.
Announced(ev) == \E i \in 1..Len(feed) : feed[i] = ev

DeletedProjectsLeave ==
  CaughtUp => \A p \in Projects :
    Announced([kind |-> "project.deleted", id |-> p]) =>
      ProjectNode(p) \intersect graph.nodes = {}
=============================================================================
