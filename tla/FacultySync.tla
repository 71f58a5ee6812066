----------------------------- MODULE FacultySync -----------------------------
(***************************************************************************)
(* The mirror of the university's faculty service (apps/faculty): the      *)
(* command that copies persons, publications and courses, matches them     *)
(* with the supervisors of projects, and announces what changed; and the   *)
(* graph built from what it announced.  One command runs at a time.        *)
(***************************************************************************)
EXTENDS GraphConsumer

CONSTANTS
  Persons, Publications, Projects,
  Profiles,      \* what the service says of a person
  Supervisors,   \* what a project says of its supervisor; Null when blank
  Gone,          \* a project that was deleted
  InitialProfile,\* what the service says of each person at first
  CoursesOf,     \* the courses of each person, never changed
  Movers,        \* persons whose profile may change
  AuthorLists,   \* what the service may say of a publication's authors
  MaxChanges     \* bound on changes of the service and of the projects

\* A profile and a supervisor are records with these fields, Null when blank.
ASSUME ProfilesAssumption ==
  /\ \A r \in Profiles : DOMAIN r = {"name", "mail", "unit", "campus", "interests"}
  /\ \A s \in Supervisors \ {Null} : DOMAIN s = {"name", "mail", "unit"}
  /\ InitialProfile \in [Persons -> Profiles]

ASSUME ChangesAssumption ==
  /\ Movers \subseteq Persons
  /\ Persons \in AuthorLists /\ AuthorLists \subseteq SUBSET Persons

\* Keys and rows are not blank, and a course's key is a hash over its person's key.
ASSUME KeysAssumption ==
  /\ Null \notin Persons \union Publications \union Projects \union Profiles
  /\ Null \notin [authors : SUBSET Persons, linked : SUBSET Persons]
  /\ \A f \in Persons : Null \notin CoursesOf[f]
  /\ \A f, g \in Persons : f # g => CoursesOf[f] \intersect CoursesOf[g] = {}

VARIABLES
  source,     \* the service: each person's profile, each publication's authors
  supervisor, \* projects_project: the supervisor's fields
  person,     \* faculty_facultyperson
  publication,\* faculty_facultypublication with its authorships
  course,     \* faculty_facultycourse
  match,      \* faculty_projectfacultymatch
  sync,       \* the running command: persons left, events to emit on commit
  changes,    \* bound
  stamp,      \* the last matched_at
  missed      \* history: aggregates whose last change was never announced

mirrorVars == <<person, publication, course, match>>
facultyVars == <<source, supervisor, mirrorVars, sync, changes, stamp, missed>>
vars == <<feed, graphVars, deaths, facultyVars>>

NoMatch == [status |-> "none", person |-> Null, by |-> Null, names |-> {}, at |-> 0]
Stopped == [pc |-> "stopped", todo |-> {}, events |-> {}]

TypeOK ==
  /\ GraphTypeOK
  /\ source.person \in [Persons -> Profiles]
  /\ source.authors \in [Publications -> SUBSET Persons]
  /\ supervisor \in [Projects -> Supervisors \union {Gone}]
  /\ person \in [Persons -> Profiles \union {Null}]
  /\ \A b \in Publications : publication[b] = Null \/
       /\ publication[b].authors \in SUBSET Persons
       /\ publication[b].linked \subseteq publication[b].authors
  /\ course \in SUBSET UNION {CoursesOf[f] : f \in Persons}
  /\ \A j \in Projects :
       /\ match[j].status \in {"none", "unmatched", "candidate", "confirmed", "ambiguous"}
       /\ match[j].status = "confirmed" <=> match[j].at # 0
  /\ \/ sync = Stopped
     \/ sync.pc = "persons" /\ sync.todo \subseteq Persons
     \/ sync.pc = "matching" /\ sync.todo \subseteq Projects \X Supervisors

Init ==
  /\ GraphInit
  /\ source = [person |-> InitialProfile,
               authors |-> [b \in Publications |-> Persons]]
  /\ supervisor \in [Projects -> Supervisors \ {Null}]
  /\ person = [f \in Persons |-> Null]
  /\ publication = [b \in Publications |-> Null]
  /\ course = {}
  /\ match = [j \in Projects |-> NoMatch]
  /\ sync = Stopped
  /\ changes = 0 /\ stamp = 0 /\ missed = {}

Known == {f \in Persons : person[f] # Null}

-----------------------------------------------------------------------------
(***************************************************************************)
(* The events.  The idempotency key is the hash of the source's payload;   *)
(* for a match it is the hash of the event's own payload.                  *)
(***************************************************************************)
PersonEvent(f, r) ==
  [kind |-> "faculty_person", id |-> f, campus |-> r.campus, interests |-> r.interests,
   key |-> <<"person", f, r>>]

PublicationEvent(b, authors, linked) ==
  [kind |-> "faculty_publication", id |-> b, authors |-> linked,
   key |-> <<"publication", b, authors>>]

CourseEvent(f, c) ==
  [kind |-> "faculty_course", id |-> c, person |-> f, key |-> <<"course", c>>]

MatchEvent(j, m) ==
  [kind |-> "project_faculty_match", id |-> j, person |-> m.person, status |-> m.status,
   key |-> <<"match", j, m>>]

LastAbout(x) == feed[Max(EventsAbout(x))]
Emitted(key) == \E i \in 1..Len(feed) : feed[i].key = key

-----------------------------------------------------------------------------
\* upsert_person: the row is written, and announced, when its hash differs.
PersonChanged(f) == person[f] # source.person[f]

\* upsert_publication
PublicationChanged(b) ==
  \/ publication[b] = Null
  \/ publication[b].authors # source.authors[b]

\* replace_authorships: an author is linked if its person is in the mirror by now.
Linked(b, known) == source.authors[b] \intersect known

PublicationsOf(f) == {b \in Publications : f \in source.authors[b]}
NewCourses(f) == CoursesOf[f] \ course

\* Mutation of EventsOf: publications are announced only when they are new.
EventsOfNew(f) ==
  LET known == Known \union {f}
  IN  (IF PersonChanged(f) THEN {PersonEvent(f, source.person[f])} ELSE {})
      \union {PublicationEvent(b, source.authors[b], Linked(b, known)) :
                b \in {b \in PublicationsOf(f) : publication[b] = Null}}
      \union {CourseEvent(f, c) : c \in NewCourses(f)}

\* What one person's transaction announces, when it commits.
EventsOf(f) ==
  LET known == Known \union {f}
  IN  (IF PersonChanged(f) THEN {PersonEvent(f, source.person[f])} ELSE {})
      \union {PublicationEvent(b, source.authors[b], Linked(b, known)) :
                b \in {b \in PublicationsOf(f) : PublicationChanged(b)}}
      \union {CourseEvent(f, c) : c \in NewCourses(f)}

\* Publications that get other links and no event.
Relinked(f) ==
  {b \in PublicationsOf(f) : ~PublicationChanged(b)
                             /\ publication[b].linked # Linked(b, Known \union {f})}

\* sync_faculty asks the service who there is.
StartSync ==
  /\ sync = Stopped
  /\ sync' = [pc |-> "persons", todo |-> Persons, events |-> {}]
  /\ UNCHANGED <<feed, graphVars, deaths, source, supervisor, mirrorVars, changes, stamp, missed>>

\* Mutation of SyncPerson: the authorships of an unchanged publication are skipped.
SyncPersonSkips(f) ==
  /\ sync.pc = "persons" /\ sync.events = {} /\ f \in sync.todo
  /\ person' = [person EXCEPT ![f] = source.person[f]]
  /\ publication' = [b \in Publications |->
       IF b \in PublicationsOf(f) /\ PublicationChanged(b)
         THEN [authors |-> source.authors[b], linked |-> Linked(b, Known \union {f})]
         ELSE publication[b]]
  /\ course' = course \union CoursesOf[f]
  /\ sync' = [sync EXCEPT !.todo = @ \ {f}, !.events = EventsOf(f)]
  /\ UNCHANGED <<feed, graphVars, deaths, source, supervisor, match, changes, stamp, missed>>

\* One person's transaction: the person, its publications and its courses.
SyncPerson(f) ==
  /\ sync.pc = "persons" /\ sync.events = {} /\ f \in sync.todo
  /\ person' = [person EXCEPT ![f] = source.person[f]]
  /\ publication' = [b \in Publications |->
       IF b \in PublicationsOf(f)
         THEN [authors |-> source.authors[b], linked |-> Linked(b, Known \union {f})]
         ELSE publication[b]]
  /\ course' = course \union CoursesOf[f]
  /\ sync' = [sync EXCEPT !.todo = @ \ {f}, !.events = EventsOf(f)]
  /\ missed' = missed \union {<<"faculty_publication", b>> : b \in Relinked(f)}
  /\ UNCHANGED <<feed, graphVars, deaths, source, supervisor, match, changes, stamp>>

\* The order in which one transaction scheduled its events.
Rank(ev) ==
  CASE ev.kind = "faculty_person" -> 1
    [] ev.kind = "faculty_publication" -> 2
    [] OTHER -> 3
NextEvents == {ev \in sync.events : \A o \in sync.events : Rank(ev) <= Rank(o)}

\* on_commit: emit_event drops a key that is in the outbox already, even when
\* something else was announced since.
EmitScheduled ==
  \E ev \in NextEvents :
    /\ IF Emitted(ev.key)
         THEN /\ feed' = feed
              /\ missed' = IF LastAbout(Aggregate(ev)) = ev
                             THEN missed \ {Aggregate(ev)}
                             ELSE missed \union {Aggregate(ev)}
         ELSE /\ Len(feed) < MaxEvents
              /\ feed' = Append(feed, ev)
              /\ missed' = missed \ {Aggregate(ev)}
    /\ sync' = [sync EXCEPT !.events = @ \ {ev}]
    /\ UNCHANGED <<graphVars, deaths, source, supervisor, mirrorVars, changes, stamp>>

-----------------------------------------------------------------------------
\* resolve_project_faculty_match: by mail, by department, then by name alone.
Candidates(s) == {f \in Known : person[f].name = s.name}
ByMail(s) == {f \in Candidates(s) : s.mail # Null /\ person[f].mail = s.mail}
ByUnit(s) == {f \in Candidates(s) : s.unit # Null /\ person[f].unit = s.unit}

Status(s) ==
  IF Cardinality(ByMail(s)) = 1 \/ Cardinality(ByUnit(s)) = 1 THEN "confirmed"
  ELSE IF Candidates(s) = {} THEN "unmatched"
  ELSE IF Cardinality(Candidates(s)) = 1 THEN "candidate"
  ELSE "ambiguous"

MatchedPerson(s) ==
  CASE Cardinality(ByMail(s)) = 1 -> CHOOSE f \in ByMail(s) : TRUE
    [] Cardinality(ByMail(s)) # 1 /\ Cardinality(ByUnit(s)) = 1 -> CHOOSE f \in ByUnit(s) : TRUE
    [] Status(s) = "candidate" -> CHOOSE f \in Candidates(s) : TRUE
    [] OTHER -> Null

\* Mutation of Resolved: a match that is not confirmed any more keeps its time.
ResolvedKeepsTime(j, s) ==
  [status |-> Status(s), person |-> MatchedPerson(s), by |-> s, names |-> Candidates(s),
   at |-> IF match[j].at # 0 \/ Status(s) # "confirmed" THEN match[j].at ELSE stamp + 1]

\* matched_at stays while the match stays confirmed.
Resolved(j, s) ==
  [status |-> Status(s), person |-> MatchedPerson(s), by |-> s, names |-> Candidates(s),
   at |-> IF Status(s) # "confirmed" THEN 0
          ELSE IF match[j].at # 0 THEN match[j].at ELSE stamp + 1]

\* reconcile_project_faculty_matches: projects without a supervisor are left out.
StartMatching ==
  /\ sync.pc = "persons" /\ sync.todo = {} /\ sync.events = {}
  /\ sync' = [pc |-> "matching", events |-> {},
              todo |-> {<<j, supervisor[j]>> : j \in {j \in Projects : supervisor[j] \notin {Null, Gone}}}]
  /\ UNCHANGED <<feed, graphVars, deaths, source, supervisor, mirrorVars, changes, stamp, missed>>

\* One project: the match is saved, then its event is emitted, in two commits.
MatchProject(j, s) ==
  /\ sync.pc = "matching" /\ sync.events = {} /\ <<j, s>> \in sync.todo
  /\ supervisor[j] # Gone
  /\ match' = [match EXCEPT ![j] = Resolved(j, s)]
  /\ sync' = [sync EXCEPT !.todo = @ \ {<<j, s>>},
                          !.events = IF match' = match THEN {} ELSE {MatchEvent(j, match'[j])}]
  /\ stamp' = IF match'[j].at = stamp + 1 THEN stamp + 1 ELSE stamp
  /\ UNCHANGED <<feed, graphVars, deaths, source, supervisor, person, publication, course,
                 changes, missed>>

\* The success is recorded.
FinishSync ==
  /\ sync.pc = "matching" /\ sync.todo = {} /\ sync.events = {}
  /\ sync' = Stopped
  /\ UNCHANGED <<feed, graphVars, deaths, source, supervisor, mirrorVars, changes, stamp, missed>>

\* The service or the database refuses, before the commit of a person or the save
\* of a match: the error is recorded and the command ends.
SyncFails ==
  /\ sync # Stopped /\ sync.events = {}
  /\ \/ deaths < MaxDeaths /\ deaths' = deaths + 1
     \/ /\ \E e \in sync.todo : sync.pc = "matching" /\ supervisor[e[1]] = Gone
        /\ deaths' = deaths
  /\ sync' = Stopped
  /\ UNCHANGED <<feed, graphVars, source, supervisor, mirrorVars, changes, stamp, missed>>

\* The process dies after a commit: the events it had scheduled are lost.
SyncDies ==
  /\ sync.events # {}
  /\ deaths < MaxDeaths
  /\ deaths' = deaths + 1
  /\ missed' = missed \union {Aggregate(ev) : ev \in sync.events}
  /\ sync' = Stopped
  /\ UNCHANGED <<feed, graphVars, source, supervisor, mirrorVars, changes, stamp>>

-----------------------------------------------------------------------------
\* The service changes a profile or the authors of a publication.
SourceChanges ==
  /\ \/ \E f \in Movers, r \in Profiles :
          source' = [source EXCEPT !.person[f] = r]
     \/ \E b \in Publications, A \in AuthorLists :
          source' = [source EXCEPT !.authors[b] = A]
  /\ source' # source
  /\ UNCHANGED <<feed, supervisor, match>>

\* A project's supervisor is edited.
EditSupervisor ==
  /\ \E j \in Projects, s \in Supervisors :
       supervisor[j] # Gone /\ supervisor' = [supervisor EXCEPT ![j] = s]
  /\ supervisor' # supervisor
  /\ UNCHANGED <<feed, source, match>>

\* A project is deleted, its match cascades and the tombstone is emitted.
DeleteProject ==
  \E j \in Projects :
    /\ supervisor[j] # Gone /\ Len(feed) < MaxEvents
    /\ supervisor' = [supervisor EXCEPT ![j] = Gone]
    /\ match' = [match EXCEPT ![j] = NoMatch]
    /\ feed' = Append(feed, [kind |-> "project.deleted", id |-> j, key |-> <<"deleted", j>>])
    /\ UNCHANGED source

Environment ==
  /\ changes < MaxChanges
  /\ changes' = changes + 1
  /\ SourceChanges \/ EditSupervisor \/ DeleteProject
  /\ UNCHANGED <<graphVars, deaths, person, publication, course, sync, stamp, missed>>

SyncStep ==
  \/ StartSync \/ StartMatching \/ EmitScheduled \/ FinishSync
  \/ \E f \in Persons : SyncPerson(f)
  \/ \E j \in Projects, s \in Supervisors : MatchProject(j, s)
  \/ SyncFails

Next ==
  \/ SyncStep \/ SyncDies \/ Environment
  \/ GraphStep /\ UNCHANGED facultyVars

\* The command is run again and again by the scheduler, the poller polls.
Fairness ==
  /\ WF_vars(SyncStep)
  /\ WF_vars((Poll \/ ProjectEvent \/ FinishMatch \/ AckEvent) /\ UNCHANGED facultyVars)

Spec == Init /\ [][Next]_vars
FairSpec == Spec /\ Fairness

-----------------------------------------------------------------------------
Pending == {Aggregate(ev) : ev \in sync.events}
Announced(ev) ==
  LET x == Aggregate(ev) IN EventsAbout(x) # {} /\ LastAbout(x) = ev

\* What the mirror holds is what was announced last, but for the gaps named in
\* missed: an event lost with the process, an event dropped because its content
\* was announced once before, links made without an event.
MirrorIsAnnounced ==
  LET told(ev) == Aggregate(ev) \in missed \union Pending \/ Announced(ev)
  IN  /\ \A f \in Known : told(PersonEvent(f, person[f]))
      /\ \A b \in Publications : publication[b] # Null =>
           told(PublicationEvent(b, publication[b].authors, publication[b].linked))
      /\ \A f \in Persons, c \in course : c \in CoursesOf[f] => told(CourseEvent(f, c))
      /\ \A j \in Projects : match[j] # NoMatch => told(MatchEvent(j, match[j]))

\* The command is re-run after failures and deaths: if the service stops changing,
\* the mirror gets its profiles, and every author that has a person is linked,
\* in whatever order the persons are read.
MirrorConverges ==
  <>[](/\ person = source.person
       /\ \A b \in Publications :
            source.authors[b] # {} => publication[b] =
              [authors |-> source.authors[b], linked |-> source.authors[b]])

\* The graph converges to the mirror ("eventual consistency").
GraphConverges ==
  <>[](\A b \in Publications : publication[b] # Null =>
         {e[1] : e \in Owned(graph, <<"faculty_publication", b>>)}
           = Node("FacultyPerson", publication[b].linked))
=============================================================================
