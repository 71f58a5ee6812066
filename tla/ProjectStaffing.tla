--------------------------- MODULE ProjectStaffing ---------------------------
(***************************************************************************)
(* Projects, the applications of students to them, and the handlers of the *)
(* web service that change both: moderation, review, staffing, edits,      *)
(* deletions and imports, through the API, the pages and the admin.        *)
(*                                                                         *)
(* Handlers take no locks and open no transaction, so each of their        *)
(* statements commits on its own.  A handler loads rows, checks the loaded *)
(* copies and saves; other handlers run between the load and the save.     *)
(* save(update_fields=...) writes those fields and raises if the row is    *)
(* gone; a plain save() writes every field of the loaded copy and inserts  *)
(* the row again if it is gone.                                            *)
(***************************************************************************)
EXTENDS Naturals, FiniteSets

CONSTANTS
  Projects, Applications,  \* primary keys; a deleted key is not drawn again
  Students,
  None,                    \* no project, no application, no student
  Threads,                 \* server threads
  Initiative,              \* projects that begin with source_type "initiative"
  Imported,                \* projects that come from the EPP spreadsheet
  TeamSizes,               \* team sizes that requests and rows carry: the API takes
                           \* 0, the forms and the importer do not
  ImportStatuses,          \* statuses the spreadsheet maps to
  Requests,                \* kinds of requests that are sent
  HandlersDie,             \* TRUE: a handler may end before it is done
  MaxRequests              \* bound on the number of requests

Statuses ==
  {"created", "draft", "revision_requested", "supervisor_review",
   "on_moderation", "published", "staffed", "completed", "cancelled",
   "rejected", "archived"}

Catalog == {"published", "staffed"}
Submittable == {"draft", "revision_requested", "supervisor_review"}
LockedForEdit == {"published", "staffed", "archived"}
LockedForImport == {"on_moderation", "rejected", "staffed"}

\* What SOURCE_STATUS_MAPPING maps to.
SourceStatuses ==
  {"created", "draft", "revision_requested", "supervisor_review",
   "published", "completed", "cancelled"}

ASSUME RowsAssumption ==
  /\ IsFiniteSet(Applications)
  /\ None \notin Projects \union Applications \union Students
ASSUME ProjectsAssumption ==
  Initiative \subseteq Projects /\ Imported \subseteq Projects \ Initiative
ASSUME InputsAssumption ==
  TeamSizes \subseteq Nat /\ ImportStatuses \subseteq SourceStatuses
ASSUME RequestsAssumption == MaxRequests \in Nat /\ HandlersDie \in BOOLEAN

VARIABLES
  project,    \* rows of projects: status, team_size, accepted_participants_count
  app,        \* rows of applications: status, applicant, project
  handler,    \* what each thread runs, with the copies it loaded
  requests,   \* spent of MaxRequests
  cleared,    \* history: projects a moderator, an admin or an import published
  reviewed,   \* history: applications a review decided on
  pastCounts, \* history: of each project, the numbers of accepted applications
  drifted,    \* history: projects left to drift: seats or status changed, no recount
  overlapped  \* history: two requests were in flight at once

vars == <<project, app, handler, requests, cleared, reviewed, pastCounts,
          drifted, overlapped>>

Row == [status : Statuses \union {"free", "gone"}, team : Nat, count : Nat]
NoRow == [status |-> "free", team |-> 0, count |-> 0]

Application ==
  [status : {"free", "gone", "submitted", "accepted", "rejected"},
   student : Students \union {None}, project : Projects \union {None}]
NoApplication == [status |-> "free", student |-> None, project |-> None]

\* op is the statement the handler runs next.
Handler ==
  [op : {"none", "submit", "moderate", "review", "count", "write", "update",
         "edit", "delete", "apply", "withdraw", "remove", "rewrite", "import"},
   p : Projects \union {None}, row : Row,
   a : Applications \union {None}, app : Application]
NoHandler ==
  [op |-> "none", p |-> None, row |-> NoRow, a |-> None, app |-> NoApplication]

Exists(p) == project[p].status \in Statuses
Live(a) == app[a].status \in {"submitted", "accepted", "rejected"}

\* The unique constraint on (project, applicant), for a row that is to become a.
Unique(a, p, s) ==
  \A b \in Applications \ {a} :
    Live(b) => ~(app[b].project = p /\ app[b].student = s)

Accepted(table, p) ==
  Cardinality({a \in Applications :
                 table[a].status = "accepted" /\ table[a].project = p})

Init ==
  /\ project = [p \in Projects |-> NoRow]
  /\ app = [a \in Applications |-> NoApplication]
  /\ handler = [t \in Threads |-> NoHandler]
  /\ requests = 0
  /\ cleared = {}
  /\ reviewed = {}
  /\ pastCounts = [p \in Projects |-> {0}]
  /\ drifted = {}
  /\ overlapped = FALSE

-----------------------------------------------------------------------------
Busy == {t \in Threads : handler[t].op # "none"}

\* History: what the numbers of accepted applications were, and whether a request
\* took a step while another one was in flight.
Remember ==
  /\ pastCounts' = [p \in Projects |-> pastCounts[p] \union {Accepted(app', p)}]
  /\ overlapped' = \/ overlapped
                   \/ \E t \in Busy : handler'[t] = handler[t]

\* A request that loads rows, and one that is a single statement.
Load(t, kind, p, row, a, copy) ==
  /\ kind \in Requests
  /\ requests < MaxRequests
  /\ handler[t].op = "none"
  /\ handler' = [handler EXCEPT ![t] =
                   [op |-> kind, p |-> p, row |-> row, a |-> a, app |-> copy]]
  /\ requests' = requests + 1
  /\ UNCHANGED <<project, app, cleared, reviewed, drifted>>
  /\ Remember

SingleStatement(kind) ==
  /\ kind \in Requests
  /\ requests < MaxRequests
  /\ requests' = requests + 1
  /\ UNCHANGED <<app, handler, reviewed>>
  /\ Remember

\* A handler returns or raises.
Finish(t) == handler' = [handler EXCEPT ![t] = NoHandler]

\* A new project: a draft, a student's initiative that goes straight to
\* moderation, or the project of an approved initiative proposal.
CreateProject(p, s, n) ==
  /\ SingleStatement("create")
  /\ project[p].status = "free" /\ p \notin Imported
  /\ s \in IF p \in Initiative THEN {"on_moderation", "published"} ELSE {"draft"}
  /\ s = "on_moderation" => n > 0
  /\ project' = [project EXCEPT ![p] = [status |-> s, team |-> n, count |-> 0]]
  /\ cleared' = IF s = "published" THEN cleared \union {p} ELSE cleared
  /\ drifted' = IF s = "published" /\ n = 0 THEN drifted \union {p} ELSE drifted

\* The admin's bulk actions: one UPDATE of the status.
PublishSelected(p) ==
  /\ SingleStatement("publish")
  /\ Exists(p) /\ project[p].status # "published"
  /\ project' = [project EXCEPT ![p].status = "published"]
  /\ cleared' = cleared \union {p}
  /\ drifted' = drifted \union {p}

ArchiveSelected(p) ==
  /\ SingleStatement("archive")
  /\ Exists(p) /\ project[p].status # "archived"
  /\ project' = [project EXCEPT ![p].status = "archived"]
  /\ UNCHANGED <<cleared, drifted>>

-----------------------------------------------------------------------------
\* submit_project_for_moderation
LoadForSubmit(t, p) ==
  /\ project[p].status \in Submittable
  /\ Load(t, "submit", p, NoRow, None, NoApplication)

SubmitForModeration(t) ==
  LET p == handler[t].p IN
  /\ handler[t].op = "submit"
  /\ project' = IF Exists(p) THEN [project EXCEPT ![p].status = "on_moderation"]
                             ELSE project
  /\ Finish(t)
  /\ UNCHANGED <<app, requests, cleared, reviewed, drifted>>
  /\ Remember

\* moderate_project saves the decision, then recounts with the copy it loaded.  A
\* refusal is a request for revision or final by the source of the project, which any
\* save of a form may have changed.
LoadForModeration(t, p) ==
  /\ project[p].status = "on_moderation"
  /\ Load(t, "moderate", p, project[p], None, NoApplication)

Moderate(t, approve) ==
  LET p == handler[t].p IN
  /\ handler[t].op = "moderate"
  /\ IF Exists(p)
       THEN \E verdict \in IF approve THEN {"published"}
                           ELSE {"revision_requested", "rejected"} :
              /\ project' = [project EXCEPT ![p].status = verdict]
              /\ handler' = [handler EXCEPT ![t].op = "count", ![t].row.status = verdict]
              /\ cleared' = IF approve THEN cleared \union {p} ELSE cleared
       ELSE Finish(t) /\ UNCHANGED <<project, cleared>>
  /\ UNCHANGED <<app, requests, reviewed, drifted>>
  /\ Remember

\* review_application loads the application joined with its project, saves the
\* decision, then recounts with that copy of the project.
LoadForReview(t, a) ==
  /\ app[a].status = "submitted"
  /\ Load(t, "review", app[a].project, project[app[a].project], a, NoApplication)

Review(t, accept) ==
  LET a == handler[t].a IN
  /\ handler[t].op = "review"
  /\ IF Live(a)
       THEN /\ app' = [app EXCEPT ![a].status =
                         IF accept THEN "accepted" ELSE "rejected"]
            /\ handler' = [handler EXCEPT ![t].op = "count"]
            /\ reviewed' = reviewed \union {a}
       ELSE Finish(t) /\ UNCHANGED <<app, reviewed>>
  /\ UNCHANGED <<project, requests, cleared, drifted>>
  /\ Remember

\* Mutations of Recounted: a step up or down instead of a count, any project
\* staffed or published by its seats, a status left alone while the count is right.
RecountedByOne(row, n) ==
  [row EXCEPT !.count = IF n > @ THEN @ + 1 ELSE @ - 1,
              !.status = IF @ \notin Catalog THEN @
                         ELSE IF n >= row.team THEN "staffed" ELSE "published"]

RecountedWhateverStatus(row, n) ==
  [row EXCEPT !.count = n,
              !.status = IF n >= row.team THEN "staffed" ELSE "published"]

RecountedIfCountChanged(row, n) ==
  IF n = row.count THEN row
  ELSE [row EXCEPT !.count = n,
                   !.status = IF @ \notin Catalog THEN @
                              ELSE IF n >= row.team THEN "staffed" ELSE "published"]

\* What recalculate_project_staffing makes of a copy when n applications are
\* accepted.
Recounted(row, n) ==
  [row EXCEPT !.count = n,
              !.status = IF @ \notin Catalog THEN @
                         ELSE IF n >= row.team THEN "staffed" ELSE "published"]

CountAccepted(t) ==
  LET p == handler[t].p
      row == Recounted(handler[t].row, Accepted(app, p))
  IN
  /\ handler[t].op = "count"
  /\ IF row = handler[t].row
       THEN Finish(t)
       ELSE handler' = [handler EXCEPT ![t].op = "write", ![t].row = row]
  /\ drifted' = drifted \ {p}
  /\ UNCHANGED <<project, app, requests, cleared, reviewed>>
  /\ Remember

SaveStaffing(t) ==
  LET p == handler[t].p IN
  /\ handler[t].op = "write"
  /\ project' = IF Exists(p)
                  THEN [project EXCEPT ![p].count = handler[t].row.count,
                                       ![p].status = handler[t].row.status]
                  ELSE project
  /\ Finish(t)
  /\ UNCHANGED <<app, requests, cleared, reviewed, drifted>>
  /\ Remember

-----------------------------------------------------------------------------
\* PUT and PATCH of a project: status and count are saved as they were loaded.
LoadForUpdate(t, p) ==
  /\ Exists(p)
  /\ Load(t, "update", p, project[p], None, NoApplication)

UpdateProject(t, n) ==
  LET p == handler[t].p IN
  /\ handler[t].op = "update"
  /\ project' = [project EXCEPT ![p] = [handler[t].row EXCEPT !.team = n]]
  /\ Finish(t)
  /\ drifted' = drifted \union {p}
  /\ UNCHANGED <<app, requests, cleared, reviewed>>
  /\ Remember

\* The edit page of the frontend.
LoadForEdit(t, p) ==
  /\ Exists(p) /\ project[p].status \notin LockedForEdit
  /\ Load(t, "edit", p, NoRow, None, NoApplication)

EditProject(t, n) ==
  LET p == handler[t].p IN
  /\ handler[t].op = "edit" /\ n > 0
  /\ project' = IF Exists(p) THEN [project EXCEPT ![p].team = n] ELSE project
  /\ Finish(t)
  /\ UNCHANGED <<app, requests, cleared, reviewed, drifted>>
  /\ Remember

\* A row of the EPP import: created, or loaded and saved as a whole.
CreateImported(p, s, n) ==
  /\ SingleStatement("import")
  /\ project[p].status = "free" /\ p \in Imported /\ n > 0
  /\ project' = [project EXCEPT ![p] = [status |-> s, team |-> n, count |-> 0]]
  /\ cleared' = IF s = "published" THEN cleared \union {p} ELSE cleared
  /\ UNCHANGED drifted

LoadForImport(t, p) ==
  /\ Exists(p) /\ p \in Imported
  /\ Load(t, "import", p, project[p], None, NoApplication)

ImportRow(t, s, n) ==
  LET p == handler[t].p
      row == handler[t].row
      locked == row.status \in LockedForImport
  IN
  /\ handler[t].op = "import" /\ n > 0
  /\ project' = [project EXCEPT ![p] =
                   [row EXCEPT !.team = n, !.status = IF locked THEN @ ELSE s]]
  /\ cleared' = IF ~locked /\ s = "published" THEN cleared \union {p} ELSE cleared
  /\ Finish(t)
  /\ drifted' = drifted \union {p}
  /\ UNCHANGED <<app, requests, reviewed>>
  /\ Remember

\* DELETE of a project, in any status, with the applications to it.
LoadForDelete(t, p) ==
  /\ Exists(p)
  /\ Load(t, "delete", p, NoRow, None, NoApplication)

DeleteProject(t) ==
  LET p == handler[t].p IN
  /\ handler[t].op = "delete"
  /\ project' = [project EXCEPT ![p] = [NoRow EXCEPT !.status = "gone"]]
  /\ app' = [a \in Applications |->
               IF app[a].project = p THEN [NoApplication EXCEPT !.status = "gone"]
                                     ELSE app[a]]
  /\ Finish(t)
  /\ UNCHANGED <<requests, cleared, reviewed, drifted>>
  /\ Remember

-----------------------------------------------------------------------------
\* An application is accepted for any project of the catalog; the pages ask for
\* a published one with a free seat, which is a special case.
LoadForApply(t, p) ==
  /\ project[p].status \in Catalog
  /\ Load(t, "apply", p, NoRow, None, NoApplication)

Apply(t, a, s) ==
  LET p == handler[t].p IN
  /\ handler[t].op = "apply"
  /\ app[a].status = "free"
  /\ app' = IF Exists(p) /\ Unique(a, p, s)
              THEN [app EXCEPT ![a] =
                      [status |-> "submitted", student |-> s, project |-> p]]
              ELSE app
  /\ Finish(t)
  /\ UNCHANGED <<project, requests, cleared, reviewed, drifted>>
  /\ Remember

\* The student withdraws a submitted application, on the page; DELETE of the API
\* removes any.  Both delete whatever the row has become, with no recount.
LoadForWithdraw(t, a) ==
  /\ app[a].status = "submitted"
  /\ Load(t, "withdraw", app[a].project, NoRow, a, NoApplication)

LoadForRemove(t, a) ==
  /\ Live(a)
  /\ Load(t, "remove", app[a].project, NoRow, a, NoApplication)

DeleteApplication(t) ==
  LET a == handler[t].a IN
  /\ handler[t].op \in {"withdraw", "remove"}
  /\ app' = [app EXCEPT ![a] = [NoApplication EXCEPT !.status = "gone"]]
  /\ drifted' = IF app[a].status = "accepted" THEN drifted \union {app[a].project}
                                              ELSE drifted
  /\ Finish(t)
  /\ UNCHANGED <<project, requests, cleared, reviewed>>
  /\ Remember

\* PUT and PATCH of an application: any existing project may be named, and the
\* status is saved as it was loaded.
LoadForRewrite(t, a) ==
  /\ Live(a)
  /\ Load(t, "rewrite", app[a].project, NoRow, a, app[a])

\* Mutation of RewriteApplication: the status of the request is saved.
RewriteApplicationStatus(t, q) ==
  LET a == handler[t].a
      copy == handler[t].app
  IN
  /\ handler[t].op = "rewrite"
  /\ \E s \in {"submitted", "accepted", "rejected"} :
       app' = IF Exists(q) /\ Unique(a, q, copy.student)
                THEN [app EXCEPT ![a] = [copy EXCEPT !.project = q, !.status = s]]
                ELSE app
  /\ Finish(t)
  /\ UNCHANGED <<project, requests, cleared, reviewed, drifted>>
  /\ Remember

RewriteApplication(t, q) ==
  LET a == handler[t].a
      copy == handler[t].app
      done == Exists(q) /\ Unique(a, q, copy.student)
  IN
  /\ handler[t].op = "rewrite"
  /\ app' = IF done THEN [app EXCEPT ![a] = [copy EXCEPT !.project = q]] ELSE app
  /\ drifted' = IF done /\ copy.status = "accepted" /\ q # copy.project
                  THEN drifted \union {q, copy.project} ELSE drifted
  /\ Finish(t)
  /\ UNCHANGED <<project, requests, cleared, reviewed>>
  /\ Remember

\* A handler ends early: its worker is killed or a statement fails.
HandlerDies(t) ==
  /\ HandlersDie
  /\ handler[t].op # "none"
  /\ Finish(t)
  /\ drifted' = IF handler[t].op \in {"count", "write"}
                  THEN drifted \union {handler[t].p} ELSE drifted
  /\ UNCHANGED <<project, app, requests, cleared, reviewed>>
  /\ Remember

-----------------------------------------------------------------------------
ProjectStep ==
  \/ \E p \in Projects, n \in TeamSizes :
       \/ \E s \in Statuses : CreateProject(p, s, n)
       \/ \E s \in ImportStatuses : CreateImported(p, s, n)
  \/ \E p \in Projects : PublishSelected(p) \/ ArchiveSelected(p)
  \/ \E t \in Threads, p \in Projects :
       \/ LoadForSubmit(t, p) \/ LoadForModeration(t, p) \/ LoadForUpdate(t, p)
       \/ LoadForEdit(t, p) \/ LoadForImport(t, p) \/ LoadForDelete(t, p)
  \/ \E t \in Threads, n \in TeamSizes :
       \/ UpdateProject(t, n) \/ EditProject(t, n)
       \/ \E s \in ImportStatuses : ImportRow(t, s, n)
  \/ \E t \in Threads : SubmitForModeration(t) \/ DeleteProject(t)
  \/ \E t \in Threads, approve \in BOOLEAN : Moderate(t, approve)

ApplicationStep ==
  \/ \E t \in Threads, p \in Projects :
       LoadForApply(t, p) \/ RewriteApplication(t, p)
  \/ \E t \in Threads, a \in Applications :
       \/ LoadForReview(t, a) \/ LoadForWithdraw(t, a) \/ LoadForRemove(t, a)
       \/ LoadForRewrite(t, a)
       \/ \E s \in Students : Apply(t, a, s)
  \/ \E t \in Threads, accept \in BOOLEAN : Review(t, accept)
  \/ \E t \in Threads : DeleteApplication(t)

StaffingStep ==
  \E t \in Threads : CountAccepted(t) \/ SaveStaffing(t) \/ HandlerDies(t)

Next == ProjectStep \/ ApplicationStep \/ StaffingStep

Spec == Init /\ [][Next]_vars

-----------------------------------------------------------------------------
TypeOK ==
  /\ project \in [Projects -> Row]
  /\ app \in [Applications -> Application]
  /\ handler \in [Threads -> Handler]
  /\ requests \in 0..MaxRequests
  /\ cleared \in SUBSET Projects
  /\ reviewed \in SUBSET Applications
  /\ pastCounts \in [Projects -> SUBSET Nat]
  /\ drifted \in SUBSET Projects
  /\ overlapped \in BOOLEAN

(***************************************************************************)
(* No project is in the catalog that no moderator, no admin and no import  *)
(* ever published, although recounts, updates and imports save the status  *)
(* of a copy that other handlers have overtaken.                           *)
(***************************************************************************)
CatalogIsCleared == \A p \in Projects : project[p].status \in Catalog => p \in cleared

(***************************************************************************)
(* No application is accepted or rejected unless a review decided so: the  *)
(* status saved by PUT, from a stale copy, never makes up a decision.      *)
(***************************************************************************)
DecisionsAreReviewed ==
  \A a \in Applications : app[a].status \in {"accepted", "rejected"} => a \in reviewed

(***************************************************************************)
(* The count a project shows was the number of its accepted applications   *)
(* at some moment: it can be out of date, it is never made up.             *)
(***************************************************************************)
ShownCountWasTrue ==
  \A p \in Projects : Exists(p) => project[p].count \in pastCounts[p]

(***************************************************************************)
(* recalculate_project_staffing does its work when requests come one at a  *)
(* time: between requests the count is exact, and a project of the catalog *)
(* is staffed exactly when its team is full.  Excepted, until a recount,   *)
(* are projects whose seats changed or that were published by an operation *)
(* that does not recount; one that is approved with seats and no           *)
(* applicant needs none.                                                   *)
(***************************************************************************)
SettledBetweenRequests ==
  ~overlapped /\ Busy = {} =>
    \A p \in Projects \ drifted : Exists(p) =>
      /\ project[p].count = Accepted(app, p)
      /\ project[p].status \in Catalog =>
           (project[p].status = "staffed" <=> project[p].count >= project[p].team)

\* "Current number of accepted student applications", of the field's help text:
\* between requests the count is exact.
AcceptedCountIsCurrent ==
  Busy = {} => \A p \in Projects : Exists(p) => project[p].count = Accepted(app, p)

\* "Only submitted applications can be reviewed": a decision stands until the
\* application is deleted.
DecisionIsFinal ==
  [][\A a \in Applications :
       app[a].status \in {"accepted", "rejected"} =>
         app'[a].status \in {app[a].status, "gone"}]_vars
=============================================================================
