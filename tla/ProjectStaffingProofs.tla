----------------------- MODULE ProjectStaffingProofs -----------------------
(***************************************************************************)
(* What is proved of ProjectStaffing, for any number of projects,          *)
(* applications, threads and requests: its types, that saves of stale      *)
(* copies put no project into the catalog, make up no decision and show no *)
(* count that was never true, and that recounts do their work when         *)
(* requests come one at a time.                                            *)
(***************************************************************************)
EXTENDS ProjectStaffing, FiniteSetTheorems, TLAPS

(***************************************************************************)
(* The inductive invariant.  A stale save writes a copy, so each property  *)
(* of a row is also claimed of the copies that handlers hold.              *)
(***************************************************************************)
Decided == {"accepted", "rejected"}
OnApplication == {"review", "withdraw", "remove", "rewrite"}

\* A copy is of a row, and says nothing that was never true of it.
CopyOK(h) ==
  h.op # "none" =>
    /\ h.p \in Projects
    /\ h.row.status \in Catalog => h.p \in cleared
    /\ h.row.count \in pastCounts[h.p]
    /\ h.op \in OnApplication => h.a \in Applications
    /\ h.op = "rewrite" => h.app.project \in Projects
    /\ h.app.status \in Decided => h.a \in reviewed

CopiesOK == \A t \in Threads : CopyOK(handler[t])

ApplicationsNameProjects ==
  \A a \in Applications : Live(a) => app[a].project \in Projects

CountsWereTrue ==
  \A p \in Projects : 0 \in pastCounts[p] /\ project[p].count \in pastCounts[p]

IInv ==
  /\ TypeOK
  /\ CopiesOK
  /\ ApplicationsNameProjects
  /\ CatalogIsCleared
  /\ DecisionsAreReviewed
  /\ CountsWereTrue

\* The part of a step that does not depend on the action: the history grows.
HistoryGrows ==
  /\ requests' \in 0..MaxRequests
  /\ cleared' \in SUBSET Projects /\ cleared \subseteq cleared'
  /\ reviewed' \in SUBSET Applications /\ reviewed \subseteq reviewed'
  /\ drifted' \in SUBSET Projects
  /\ Remember

-----------------------------------------------------------------------------
\* Accepted counts.
LEMMA AcceptedIsNat ==
  ASSUME NEW table, NEW p
  PROVE  Accepted(table, p) \in Nat
<1> DEFINE S == {a \in Applications :
                   table[a].status = "accepted" /\ table[a].project = p}
<1>1. IsFiniteSet(S)
  BY RowsAssumption, FS_Subset
<1>2. Cardinality(S) \in Nat
  BY <1>1, FS_CardinalityType
<1> QED  BY <1>2 DEF Accepted

\* Remember adds the number of accepted applications after the step.
LEMMA RememberAdds ==
  ASSUME TypeOK, Remember
  PROVE  /\ pastCounts' \in [Projects -> SUBSET Nat]
         /\ overlapped' \in BOOLEAN
         /\ \A p \in Projects : /\ pastCounts[p] \subseteq pastCounts'[p]
                                /\ Accepted(app', p) \in pastCounts'[p]
<1>1. \A p \in Projects : Accepted(app', p) \in Nat
  BY AcceptedIsNat
<1>2. /\ pastCounts \in [Projects -> SUBSET Nat] /\ overlapped \in BOOLEAN
      /\ pastCounts' = [p \in Projects |-> pastCounts[p] \union {Accepted(app', p)}]
      /\ overlapped' = \/ overlapped
                       \/ \E t \in Busy : handler'[t] = handler[t]
  BY DEF TypeOK, Remember
<1>3. overlapped' \in BOOLEAN
  BY <1>2
<1> QED  BY <1>1, <1>2, <1>3

\* A step that replaces one handler by one whose copies are right.
LEMMA OneHandlerMoves ==
  ASSUME IInv, HistoryGrows, NEW t \in Threads, NEW h \in Handler,
         handler' = [handler EXCEPT ![t] = h],
         CopyOK(h)'
  PROVE  handler' \in [Threads -> Handler] /\ CopiesOK'
<1>1. handler \in [Threads -> Handler]
  BY DEF IInv, TypeOK
<1>2. handler' \in [Threads -> Handler]
  BY <1>1
<1>3. ASSUME NEW u \in Threads PROVE CopyOK(handler[u])'
  <2>1. CASE u = t
    BY <1>1, <2>1
  <2>2. CASE u # t
    <3>1. handler'[u] = handler[u] /\ CopyOK(handler[u])
      BY <1>1, <2>2 DEF IInv, CopiesOK
    <3>2. \A p \in Projects : pastCounts[p] \subseteq pastCounts'[p]
      BY RememberAdds DEF IInv, HistoryGrows
    <3> QED  BY <3>1, <3>2 DEF CopyOK, HistoryGrows
  <2> QED  BY <2>1, <2>2
<1> QED  BY <1>2, <1>3 DEF CopiesOK

\* A handler that returns leaves no copy behind.
LEMMA FinishIsFine ==
  ASSUME IInv, HistoryGrows, NEW t \in Threads, Finish(t)
  PROVE  handler' \in [Threads -> Handler] /\ CopiesOK'
<1>1. NoHandler \in Handler /\ NoHandler.op = "none"
  BY DEF NoHandler, Handler, NoRow, Row, NoApplication, Application
<1>2. CopyOK(NoHandler)'
  BY <1>1 DEF CopyOK
<1> QED  BY <1>1, <1>2, OneHandlerMoves DEF Finish

\* Handlers that do not move.
LEMMA HandlersStayFine ==
  ASSUME IInv, HistoryGrows, UNCHANGED handler
  PROVE  handler' \in [Threads -> Handler] /\ CopiesOK'
<1>1. \A p \in Projects : pastCounts[p] \subseteq pastCounts'[p]
  BY RememberAdds DEF IInv, HistoryGrows
<1> QED  BY <1>1 DEF IInv, TypeOK, CopiesOK, CopyOK, HistoryGrows

\* One project row is written, no application.
LEMMA OneProjectWritten ==
  ASSUME IInv, HistoryGrows, NEW p \in Projects, NEW row \in Row,
         project' = [project EXCEPT ![p] = row], UNCHANGED app,
         row.status \in Catalog => p \in cleared',
         row.count \in pastCounts'[p],
         handler' \in [Threads -> Handler] /\ CopiesOK'
  PROVE  IInv'
<1>1. /\ pastCounts' \in [Projects -> SUBSET Nat] /\ overlapped' \in BOOLEAN
      /\ \A q \in Projects : pastCounts[q] \subseteq pastCounts'[q]
  BY RememberAdds DEF IInv, HistoryGrows
<1>2. TypeOK'
  BY <1>1 DEF IInv, TypeOK, HistoryGrows
<1>3. ApplicationsNameProjects' /\ DecisionsAreReviewed'
  BY DEF IInv, ApplicationsNameProjects, DecisionsAreReviewed, Live, HistoryGrows
<1>4. CatalogIsCleared' /\ CountsWereTrue'
  BY <1>1 DEF IInv, TypeOK, CatalogIsCleared, CountsWereTrue, HistoryGrows
<1> QED  BY <1>2, <1>3, <1>4 DEF IInv

\* One application row is written, no project.
LEMMA OneApplicationWritten ==
  ASSUME IInv, HistoryGrows, NEW a \in Applications, NEW row \in Application,
         app' = [app EXCEPT ![a] = row], UNCHANGED project,
         row.status \in {"free", "gone"} \/ row.project \in Projects,
         row.status \in Decided => a \in reviewed',
         handler' \in [Threads -> Handler] /\ CopiesOK'
  PROVE  IInv'
<1>1. /\ pastCounts' \in [Projects -> SUBSET Nat] /\ overlapped' \in BOOLEAN
      /\ \A q \in Projects : pastCounts[q] \subseteq pastCounts'[q]
  BY RememberAdds DEF IInv, HistoryGrows
<1>2. TypeOK'
  BY <1>1 DEF IInv, TypeOK, HistoryGrows
<1>3. ApplicationsNameProjects' /\ DecisionsAreReviewed'
  BY DEF IInv, TypeOK, ApplicationsNameProjects, DecisionsAreReviewed, Live,
         Decided, HistoryGrows
<1>4. CatalogIsCleared' /\ CountsWereTrue'
  BY <1>1 DEF IInv, TypeOK, CatalogIsCleared, CountsWereTrue, HistoryGrows
<1> QED  BY <1>2, <1>3, <1>4 DEF IInv

\* No row is written.
LEMMA NoRowWritten ==
  ASSUME IInv, HistoryGrows, UNCHANGED <<project, app>>,
         handler' \in [Threads -> Handler] /\ CopiesOK'
  PROVE  IInv'
<1>1. /\ pastCounts' \in [Projects -> SUBSET Nat] /\ overlapped' \in BOOLEAN
      /\ \A q \in Projects : pastCounts[q] \subseteq pastCounts'[q]
  BY RememberAdds DEF IInv, HistoryGrows
<1>2. TypeOK'
  BY <1>1 DEF IInv, TypeOK, HistoryGrows
<1>3. ApplicationsNameProjects' /\ DecisionsAreReviewed'
  BY DEF IInv, ApplicationsNameProjects, DecisionsAreReviewed, Live, HistoryGrows
<1>4. CatalogIsCleared' /\ CountsWereTrue'
  BY <1>1 DEF IInv, CatalogIsCleared, CountsWereTrue, HistoryGrows
<1> QED  BY <1>2, <1>3, <1>4 DEF IInv

-----------------------------------------------------------------------------
\* A request that loads rows, of copies that are right.
LEMMA LoadIsFine ==
  ASSUME IInv, NEW t \in Threads, NEW kind, NEW p \in Projects, NEW row \in Row,
         NEW a \in Applications \union {None}, NEW copy \in Application,
         Load(t, kind, p, row, a, copy),
         kind \in {"submit", "moderate", "review", "update", "edit", "delete",
                   "apply", "withdraw", "remove", "rewrite", "import"},
         row.status \in Catalog => p \in cleared,
         row.count \in pastCounts[p],
         kind \in OnApplication => a \in Applications,
         kind = "rewrite" => copy.project \in Projects,
         copy.status \in Decided => a \in reviewed
  PROVE  IInv'
<1>1. HistoryGrows
  BY RequestsAssumption DEF IInv, TypeOK, HistoryGrows, Load
<1>2. PICK h \in Handler :
        h = [op |-> kind, p |-> p, row |-> row, a |-> a, app |-> copy]
  BY DEF Handler
<1>3. handler' = [handler EXCEPT ![t] = h]
  BY <1>2 DEF Load
<1>4. pastCounts[p] \subseteq pastCounts'[p]
  BY <1>1, RememberAdds DEF IInv, HistoryGrows
<1>5. CopyOK(h)'
  BY <1>1, <1>2, <1>4 DEF CopyOK, HistoryGrows
<1>6. handler' \in [Threads -> Handler] /\ CopiesOK'
  BY <1>1, <1>3, <1>5, OneHandlerMoves
<1> QED  BY <1>1, <1>6, NoRowWritten DEF Load

\* What is known of the rows that requests load.
LEMMA RowsAreFine ==
  ASSUME IInv
  PROVE  /\ \A p \in Projects : /\ project[p] \in Row
                                /\ project[p].status \in Catalog => p \in cleared
                                /\ project[p].count \in pastCounts[p]
         /\ \A a \in Applications :
              /\ app[a] \in Application
              /\ Live(a) => app[a].project \in Projects
              /\ app[a].status \in Decided => a \in reviewed
         /\ NoRow \in Row /\ NoRow.status \notin Catalog
         /\ \A p \in Projects : NoRow.count \in pastCounts[p]
         /\ NoApplication \in Application /\ NoApplication.status \notin Decided
<1> QED
  BY DEF IInv, TypeOK, ApplicationsNameProjects, CatalogIsCleared, CountsWereTrue,
         DecisionsAreReviewed, Decided, Catalog, NoRow, Row, NoApplication,
         Application

LEMMA ProjectLoadsAreFine ==
  ASSUME IInv, NEW t \in Threads, NEW p \in Projects,
         \/ LoadForSubmit(t, p) \/ LoadForModeration(t, p) \/ LoadForUpdate(t, p)
         \/ LoadForEdit(t, p) \/ LoadForImport(t, p) \/ LoadForDelete(t, p)
         \/ LoadForApply(t, p)
  PROVE  IInv'
<1>1. PICK kind \in {"submit", "moderate", "update", "edit", "import", "delete",
                     "apply"}, row \in {NoRow, project[p]} :
        Load(t, kind, p, row, None, NoApplication)
  BY DEF LoadForSubmit, LoadForModeration, LoadForUpdate, LoadForEdit,
         LoadForImport, LoadForDelete, LoadForApply
<1>2. kind \notin OnApplication
  BY DEF OnApplication
<1>3. row \in Row /\ (row.status \in Catalog => p \in cleared)
      /\ row.count \in pastCounts[p]
  BY RowsAreFine
<1> QED  BY <1>1, <1>2, <1>3, RowsAreFine, LoadIsFine DEF OnApplication

LEMMA ApplicationLoadsAreFine ==
  ASSUME IInv, NEW t \in Threads, NEW a \in Applications,
         \/ LoadForReview(t, a) \/ LoadForWithdraw(t, a) \/ LoadForRemove(t, a)
         \/ LoadForRewrite(t, a)
  PROVE  IInv'
<1>1. app[a].project \in Projects
  BY RowsAreFine DEF LoadForReview, LoadForWithdraw, LoadForRemove, LoadForRewrite,
     Live
<1>2. PICK kind \in OnApplication, row \in {NoRow, project[app[a].project]},
           copy \in {NoApplication, app[a]} :
        /\ Load(t, kind, app[a].project, row, a, copy)
        /\ kind = "rewrite" => copy = app[a]
  BY DEF LoadForReview, LoadForWithdraw, LoadForRemove, LoadForRewrite, OnApplication
<1>3. /\ row \in Row /\ (row.status \in Catalog => app[a].project \in cleared)
      /\ row.count \in pastCounts[app[a].project]
  BY <1>1, RowsAreFine
<1>4. /\ copy \in Application /\ (copy.status \in Decided => a \in reviewed)
      /\ kind = "rewrite" => copy.project \in Projects
  BY <1>1, <1>2, RowsAreFine
<1> QED  BY <1>1, <1>2, <1>3, <1>4, LoadIsFine DEF OnApplication

\* What is known of a handler that runs a statement, and of the row it writes.
LEMMA BusyHandlerIsFine ==
  ASSUME IInv, NEW t \in Threads, handler[t].op # "none"
  PROVE  /\ handler[t] \in Handler /\ handler[t].p \in Projects
         /\ handler[t].row \in Row /\ handler[t].app \in Application
         /\ handler[t].row.status \in Catalog => handler[t].p \in cleared
         /\ handler[t].row.count \in pastCounts[handler[t].p]
         /\ handler[t].op \in OnApplication => handler[t].a \in Applications
         /\ handler[t].op = "rewrite" => handler[t].app.project \in Projects
         /\ handler[t].app.status \in Decided => handler[t].a \in reviewed
<1>1. handler[t] \in Handler /\ CopyOK(handler[t])
  BY DEF IInv, TypeOK, CopiesOK
<1> QED  BY <1>1 DEF CopyOK, Handler

\* A row that keeps its count, and is in the catalog only if it was.
LEMMA RowWrittenAndFinished ==
  ASSUME IInv, HistoryGrows, NEW t \in Threads, Finish(t),
         NEW p \in Projects, NEW row \in Row,
         project' = [project EXCEPT ![p] = row] \/ UNCHANGED project, UNCHANGED app,
         row.status \in Catalog => p \in cleared',
         row.count \in pastCounts[p]
  PROVE  IInv'
<1>1. handler' \in [Threads -> Handler] /\ CopiesOK'
  BY FinishIsFine
<1>2. row.count \in pastCounts'[p]
  BY RememberAdds DEF IInv, HistoryGrows
<1>3. CASE UNCHANGED project
  BY <1>1, <1>3, NoRowWritten
<1>4. CASE project' = [project EXCEPT ![p] = row]
  BY <1>1, <1>2, <1>4, OneProjectWritten
<1> QED  BY <1>3, <1>4

LEMMA CreateProjectIsFine ==
  ASSUME IInv, NEW p \in Projects, NEW s \in Statuses, NEW n \in TeamSizes,
         \/ CreateProject(p, s, n)
         \/ s \in ImportStatuses /\ CreateImported(p, s, n)
  PROVE  IInv'
<1>1. HistoryGrows /\ UNCHANGED <<app, handler>>
  BY RequestsAssumption
  DEF IInv, TypeOK, HistoryGrows, CreateProject, CreateImported, SingleStatement
<1>2. PICK row \in Row : row = [status |-> s, team |-> n, count |-> 0]
  BY InputsAssumption DEF Row
<1>3. project' = [project EXCEPT ![p] = row]
  BY <1>2 DEF CreateProject, CreateImported
<1>4. row.status \in Catalog => p \in cleared'
  BY <1>2, InputsAssumption
  DEF Catalog, SourceStatuses, CreateProject, CreateImported
<1>5. row.count \in pastCounts'[p]
  BY <1>1, <1>2, RememberAdds DEF IInv, CountsWereTrue, HistoryGrows
<1>6. handler' \in [Threads -> Handler] /\ CopiesOK'
  BY <1>1, HandlersStayFine
<1> QED  BY <1>1, <1>3, <1>4, <1>5, <1>6, OneProjectWritten

LEMMA BulkActionsAreFine ==
  ASSUME IInv, NEW p \in Projects, PublishSelected(p) \/ ArchiveSelected(p)
  PROVE  IInv'
<1>1. HistoryGrows /\ UNCHANGED <<app, handler>>
  BY RequestsAssumption
  DEF IInv, TypeOK, HistoryGrows, PublishSelected, ArchiveSelected, SingleStatement
<1>2. PICK s \in {"published", "archived"} :
        /\ project' = [project EXCEPT ![p].status = s]
        /\ s = "published" => p \in cleared'
  BY DEF PublishSelected, ArchiveSelected
<1>3. PICK row \in Row : row = [project[p] EXCEPT !.status = s]
  BY RowsAreFine DEF Row, Statuses
<1>4. project' = [project EXCEPT ![p] = row]
  BY <1>2, <1>3
<1>5. row.status \in Catalog => p \in cleared'
  BY <1>2, <1>3, RowsAreFine DEF Catalog, Row
<1>6. row.count \in pastCounts'[p]
  BY <1>1, <1>3, RowsAreFine, RememberAdds DEF IInv, HistoryGrows, Row
<1>7. handler' \in [Threads -> Handler] /\ CopiesOK'
  BY <1>1, HandlersStayFine
<1> QED  BY <1>1, <1>4, <1>5, <1>6, <1>7, OneProjectWritten

-----------------------------------------------------------------------------
LEMMA SubmitIsFine ==
  ASSUME IInv, NEW t \in Threads, SubmitForModeration(t)
  PROVE  IInv'
<1> DEFINE p == handler[t].p
<1>1. handler[t].op # "none" /\ HistoryGrows
  BY DEF SubmitForModeration, IInv, TypeOK, HistoryGrows
<1>2. p \in Projects
  BY <1>1, BusyHandlerIsFine
<1>3. PICK row \in Row : row = [project[p] EXCEPT !.status = "on_moderation"]
  BY <1>2, RowsAreFine DEF Row, Statuses
<1>4. row.status \notin Catalog /\ row.count \in pastCounts[p]
  BY <1>2, <1>3, RowsAreFine DEF Row, Catalog
<1>5. project' = [project EXCEPT ![p] = row] \/ UNCHANGED project
  BY <1>3 DEF SubmitForModeration
<1>6. Finish(t) /\ UNCHANGED app
  BY DEF SubmitForModeration
<1> QED  BY <1>1, <1>2, <1>4, <1>5, <1>6, RowWrittenAndFinished

LEMMA ModerateIsFine ==
  ASSUME IInv, NEW t \in Threads, NEW approve \in BOOLEAN, Moderate(t, approve)
  PROVE  IInv'
<1> DEFINE p == handler[t].p
<1>1. handler[t].op = "moderate"
  BY DEF Moderate
<1>2. p \in Projects /\ handler[t] \in Handler
  BY <1>1, BusyHandlerIsFine
<1>3. HistoryGrows
  BY <1>2 DEF Moderate, IInv, TypeOK, HistoryGrows
<1>4. CASE ~ Exists(p)
  <2>1. Finish(t) /\ UNCHANGED <<project, app>>
    BY <1>4 DEF Moderate
  <2> QED  BY <1>3, <2>1, FinishIsFine, NoRowWritten
<1>5. CASE Exists(p)
  <2>1. PICK verdict \in {"published", "revision_requested", "rejected"} :
          /\ project' = [project EXCEPT ![p].status = verdict]
          /\ handler' = [handler EXCEPT ![t].op = "count", ![t].row.status = verdict]
          /\ verdict = "published" => p \in cleared'
    BY <1>2, <1>5 DEF Moderate
  <2>2. PICK row \in Row : row = [project[p] EXCEPT !.status = verdict]
    BY <1>2, RowsAreFine DEF Row, Statuses
  <2>3. /\ project' = [project EXCEPT ![p] = row]
        /\ row.status \in Catalog => p \in cleared'
    BY <1>2, <2>1, <2>2, RowsAreFine DEF Row, Catalog
  <2>4. \A n \in pastCounts[p] : n \in pastCounts'[p]
    BY <1>2, <1>3, RememberAdds DEF IInv, HistoryGrows
  <2>5. row.count \in pastCounts'[p]
    BY <1>2, <2>2, <2>4, RowsAreFine DEF Row
  <2>6. PICK h \in Handler :
          h = [handler[t] EXCEPT !.op = "count", !.row.status = verdict]
    BY <1>2 DEF Handler, Row, Statuses
  <2>7. handler' = [handler EXCEPT ![t] = h]
    BY <2>1, <2>6 DEF IInv, TypeOK
  <2>8. /\ h.op = "count" /\ h.p = p /\ h.row.status = verdict
        /\ h.row.count = handler[t].row.count /\ h.app = handler[t].app
        /\ h.a = handler[t].a
    BY <1>2, <2>6 DEF Handler, Row
  <2>9. /\ h.row.count \in pastCounts'[p]
        /\ h.app.status \in Decided => h.a \in reviewed'
    BY <1>1, <1>3, <2>4, <2>8, BusyHandlerIsFine DEF HistoryGrows
  <2>10. CopyOK(h)'
    BY <1>2, <2>1, <2>8, <2>9 DEF CopyOK, Catalog, OnApplication
  <2>11. handler' \in [Threads -> Handler] /\ CopiesOK'
    BY <1>3, <2>7, <2>10, OneHandlerMoves
  <2>12. UNCHANGED app
    BY DEF Moderate
  <2> QED  BY <1>2, <1>3, <2>3, <2>5, <2>11, <2>12, OneProjectWritten
<1> QED  BY <1>4, <1>5

LEMMA ReviewIsFine ==
  ASSUME IInv, NEW t \in Threads, NEW accept \in BOOLEAN, Review(t, accept)
  PROVE  IInv'
<1> DEFINE a == handler[t].a
<1>1. handler[t].op = "review"
  BY DEF Review
<1>2. a \in Applications /\ handler[t] \in Handler
  BY <1>1, BusyHandlerIsFine DEF OnApplication
<1>3. HistoryGrows
  BY <1>2 DEF Review, IInv, TypeOK, HistoryGrows
<1>4. CASE ~ Live(a)
  <2>1. Finish(t) /\ UNCHANGED <<project, app>>
    BY <1>4 DEF Review
  <2> QED  BY <1>3, <2>1, FinishIsFine, NoRowWritten
<1>5. CASE Live(a)
  <2>1. PICK s \in {"accepted", "rejected"} :
          /\ app' = [app EXCEPT ![a].status = s]
          /\ handler' = [handler EXCEPT ![t].op = "count"]
          /\ a \in reviewed'
    BY <1>5 DEF Review
  <2>2. PICK row \in Application : row = [app[a] EXCEPT !.status = s]
    BY <1>2, RowsAreFine DEF Application
  <2>3. app' = [app EXCEPT ![a] = row] /\ row.project \in Projects
    BY <1>2, <1>5, <2>1, <2>2, RowsAreFine DEF Application
  <2>4. PICK h \in Handler : h = [handler[t] EXCEPT !.op = "count"]
    BY <1>2 DEF Handler
  <2>5. handler' = [handler EXCEPT ![t] = h]
    BY <2>1, <2>4 DEF IInv, TypeOK
  <2>6. /\ h.op = "count" /\ h.p = handler[t].p /\ h.row = handler[t].row
        /\ h.app = handler[t].app /\ h.a = a
    BY <1>2, <2>4 DEF Handler
  <2>7. \A p \in Projects : pastCounts[p] \subseteq pastCounts'[p]
    BY <1>3, RememberAdds DEF IInv, HistoryGrows
  <2>8. CopyOK(h)'
    BY <1>1, <1>3, <2>6, <2>7, BusyHandlerIsFine
    DEF CopyOK, HistoryGrows, OnApplication
  <2>9. handler' \in [Threads -> Handler] /\ CopiesOK'
    BY <1>3, <2>5, <2>8, OneHandlerMoves
  <2>10. UNCHANGED project
    BY DEF Review
  <2> QED  BY <1>2, <1>3, <2>1, <2>3, <2>9, <2>10, OneApplicationWritten
<1> QED  BY <1>4, <1>5

\* What a recount makes of a copy that is right.
LEMMA RecountedIsFine ==
  ASSUME NEW row \in Row, NEW n \in Nat
  PROVE  /\ Recounted(row, n) \in Row
         /\ Recounted(row, n).count = n
         /\ Recounted(row, n).status \in Catalog => row.status \in Catalog
<1> QED  BY DEF Recounted, Row, Catalog, Statuses

LEMMA CountAcceptedIsFine ==
  ASSUME IInv, NEW t \in Threads, CountAccepted(t)
  PROVE  IInv'
<1> DEFINE p == handler[t].p
           n == Accepted(app, p)
           row == Recounted(handler[t].row, n)
<1>1. handler[t].op = "count"
  BY DEF CountAccepted
<1>2. p \in Projects /\ handler[t] \in Handler /\ handler[t].row \in Row
  BY <1>1, BusyHandlerIsFine
<1>3. HistoryGrows /\ UNCHANGED <<project, app, cleared, reviewed>>
  BY DEF CountAccepted, IInv, TypeOK, HistoryGrows
<1>4. CASE row = handler[t].row
  <2>1. Finish(t)
    BY <1>4 DEF CountAccepted
  <2> QED  BY <1>3, <2>1, FinishIsFine, NoRowWritten
<1>5. CASE row # handler[t].row
  <2>1. /\ row \in Row /\ row.count = n
        /\ row.status \in Catalog => handler[t].row.status \in Catalog
    <3>1. n \in Nat
      BY AcceptedIsNat
    <3> QED  BY <1>2, <3>1, RecountedIsFine
  <2>2. PICK h \in Handler : h = [handler[t] EXCEPT !.op = "write", !.row = row]
    <3> HIDE DEF row
    <3> QED  BY <1>2, <2>1 DEF Handler
  <2>3. handler' = [handler EXCEPT ![t] = h]
    BY <1>5, <2>2 DEF CountAccepted, IInv, TypeOK
  <2>4. /\ h.op = "write" /\ h.p = p /\ h.row = row
        /\ h.app = handler[t].app /\ h.a = handler[t].a
    <3> HIDE DEF row
    <3> QED  BY <1>2, <2>2 DEF Handler
  <2>5. n \in pastCounts'[p]
    <3>1. Accepted(app', p) = n
      BY <1>3 DEF Accepted
    <3> QED  BY <1>2, <1>3, <3>1, RememberAdds DEF IInv, HistoryGrows
  <2>6. h.row.status \in Catalog => p \in cleared'
    BY <1>1, <1>3, <2>1, <2>4, BusyHandlerIsFine
  <2>7. h.app.status \in Decided => h.a \in reviewed'
    BY <1>1, <1>3, <2>4, BusyHandlerIsFine
  <2>8. CopyOK(h)'
    <3> HIDE DEF row, n
    <3> QED  BY <1>2, <2>1, <2>4, <2>5, <2>6, <2>7 DEF CopyOK, OnApplication
  <2>9. handler' \in [Threads -> Handler] /\ CopiesOK'
    BY <1>3, <2>3, <2>8, OneHandlerMoves
  <2> QED  BY <1>3, <2>9, NoRowWritten
<1> QED  BY <1>4, <1>5

LEMMA SaveStaffingIsFine ==
  ASSUME IInv, NEW t \in Threads, SaveStaffing(t)
  PROVE  IInv'
<1> DEFINE p == handler[t].p
<1>1. handler[t].op # "none" /\ HistoryGrows
  BY DEF SaveStaffing, IInv, TypeOK, HistoryGrows
<1>2. /\ p \in Projects /\ handler[t].row \in Row
      /\ handler[t].row.status \in Catalog => p \in cleared
      /\ handler[t].row.count \in pastCounts[p]
  BY <1>1, BusyHandlerIsFine
<1>3. PICK row \in Row :
        row = [project[p] EXCEPT !.count = handler[t].row.count,
                                 !.status = handler[t].row.status]
  BY <1>2, RowsAreFine DEF Row
<1>4. /\ row.status = handler[t].row.status
      /\ row.count = handler[t].row.count
  BY <1>2, <1>3, RowsAreFine DEF Row
<1>5. project' = [project EXCEPT ![p] = row] \/ UNCHANGED project
  BY <1>2, <1>3 DEF SaveStaffing, IInv, TypeOK
<1>6. Finish(t) /\ UNCHANGED <<app, cleared>>
  BY DEF SaveStaffing
<1> QED  BY <1>1, <1>2, <1>4, <1>5, <1>6, RowWrittenAndFinished

-----------------------------------------------------------------------------
LEMMA UpdateProjectIsFine ==
  ASSUME IInv, NEW t \in Threads, NEW n \in TeamSizes, UpdateProject(t, n)
  PROVE  IInv'
<1> DEFINE p == handler[t].p
<1>1. handler[t].op # "none"
  BY DEF UpdateProject
<1>2. /\ p \in Projects /\ handler[t].row \in Row
      /\ handler[t].row.status \in Catalog => p \in cleared
      /\ handler[t].row.count \in pastCounts[p]
  BY <1>1, BusyHandlerIsFine
<1>3. HistoryGrows /\ Finish(t) /\ UNCHANGED <<app, cleared>>
  BY <1>2 DEF UpdateProject, IInv, TypeOK, HistoryGrows
<1>4. PICK row \in Row : row = [handler[t].row EXCEPT !.team = n]
  BY <1>2, InputsAssumption DEF Row
<1>5. row.status = handler[t].row.status /\ row.count = handler[t].row.count
  BY <1>2, <1>4 DEF Row
<1>6. project' = [project EXCEPT ![p] = row]
  BY <1>4 DEF UpdateProject
<1> QED  BY <1>2, <1>3, <1>5, <1>6, RowWrittenAndFinished

LEMMA EditProjectIsFine ==
  ASSUME IInv, NEW t \in Threads, NEW n \in TeamSizes, EditProject(t, n)
  PROVE  IInv'
<1> DEFINE p == handler[t].p
<1>1. handler[t].op # "none"
  BY DEF EditProject
<1>2. p \in Projects
  BY <1>1, BusyHandlerIsFine
<1>3. HistoryGrows /\ Finish(t) /\ UNCHANGED <<app, cleared>>
  BY DEF EditProject, IInv, TypeOK, HistoryGrows
<1>4. PICK row \in Row : row = [project[p] EXCEPT !.team = n]
  BY <1>2, RowsAreFine, InputsAssumption DEF Row
<1>5. row.status = project[p].status /\ row.count = project[p].count
  BY <1>2, <1>4, RowsAreFine DEF Row
<1>6. project' = [project EXCEPT ![p] = row] \/ UNCHANGED project
  BY <1>4 DEF EditProject
<1>7. /\ row.status \in Catalog => p \in cleared'
      /\ row.count \in pastCounts[p]
  BY <1>2, <1>3, <1>5, RowsAreFine
<1> QED  BY <1>2, <1>3, <1>6, <1>7, RowWrittenAndFinished

LEMMA ImportRowIsFine ==
  ASSUME IInv, NEW t \in Threads, NEW s \in ImportStatuses, NEW n \in TeamSizes,
         ImportRow(t, s, n)
  PROVE  IInv'
<1> DEFINE p == handler[t].p
           locked == handler[t].row.status \in LockedForImport
<1>1. handler[t].op # "none"
  BY DEF ImportRow
<1>2. /\ p \in Projects /\ handler[t].row \in Row
      /\ handler[t].row.status \in Catalog => p \in cleared
      /\ handler[t].row.count \in pastCounts[p]
  BY <1>1, BusyHandlerIsFine
<1>3. HistoryGrows /\ Finish(t) /\ UNCHANGED app
  BY <1>2 DEF ImportRow, IInv, TypeOK, HistoryGrows
<1>4. s \in Statuses /\ (s \in Catalog => s = "published")
  BY InputsAssumption DEF SourceStatuses, Statuses, Catalog
<1>5. PICK row \in Row :
        row = [handler[t].row EXCEPT !.team = n, !.status = IF locked THEN @ ELSE s]
  BY <1>2, <1>4, InputsAssumption DEF Row
<1>6. /\ row.status = IF locked THEN handler[t].row.status ELSE s
      /\ row.count = handler[t].row.count
  BY <1>2, <1>5 DEF Row
<1>7. project' = [project EXCEPT ![p] = row]
  BY <1>5 DEF ImportRow
<1>8. row.status \in Catalog => p \in cleared'
  BY <1>2, <1>4, <1>6 DEF ImportRow
<1> QED  BY <1>2, <1>3, <1>6, <1>7, <1>8, RowWrittenAndFinished

LEMMA DeleteProjectIsFine ==
  ASSUME IInv, NEW t \in Threads, DeleteProject(t)
  PROVE  IInv'
<1> DEFINE p == handler[t].p
<1>1. handler[t].op # "none"
  BY DEF DeleteProject
<1>2. p \in Projects
  BY <1>1, BusyHandlerIsFine
<1>3. HistoryGrows /\ Finish(t)
  BY DEF DeleteProject, IInv, TypeOK, HistoryGrows
<1>4. handler' \in [Threads -> Handler] /\ CopiesOK'
  BY <1>3, FinishIsFine
<1>5. /\ pastCounts' \in [Projects -> SUBSET Nat] /\ overlapped' \in BOOLEAN
      /\ \A q \in Projects : pastCounts[q] \subseteq pastCounts'[q]
  BY <1>3, RememberAdds DEF IInv, HistoryGrows
<1>6. PICK row \in Row : row = [NoRow EXCEPT !.status = "gone"]
  BY DEF NoRow, Row
<1>7. row.status = "gone" /\ row.count = 0
  BY <1>6 DEF NoRow
<1>8. project' = [project EXCEPT ![p] = row]
  BY <1>6 DEF DeleteProject
<1>9. PICK blank \in Application : blank = [NoApplication EXCEPT !.status = "gone"]
  BY DEF NoApplication, Application
<1>10. blank.status = "gone"
  BY <1>9 DEF NoApplication
<1>11. app' = [a \in Applications |-> IF app[a].project = p THEN blank ELSE app[a]]
  BY <1>9 DEF DeleteProject
<1>12. \A a \in Applications : app'[a] \in {blank, app[a]}
  BY <1>11
<1>13. app' \in [Applications -> Application] /\ project' \in [Projects -> Row]
  BY <1>8, <1>11 DEF IInv, TypeOK
<1>14. TypeOK'
  BY <1>3, <1>4, <1>5, <1>13 DEF IInv, TypeOK, HistoryGrows
<1>15. ApplicationsNameProjects' /\ DecisionsAreReviewed'
  BY <1>3, <1>10, <1>12
  DEF IInv, ApplicationsNameProjects, DecisionsAreReviewed, Live, HistoryGrows
<1>16. \A q \in Projects : project'[q] \in {row, project[q]}
  BY <1>8 DEF IInv, TypeOK
<1>17. CatalogIsCleared' /\ CountsWereTrue'
  BY <1>3, <1>5, <1>7, <1>16
  DEF IInv, CatalogIsCleared, CountsWereTrue, Catalog, HistoryGrows
<1> QED  BY <1>4, <1>14, <1>15, <1>17 DEF IInv

-----------------------------------------------------------------------------
LEMMA ApplyIsFine ==
  ASSUME IInv, NEW t \in Threads, NEW a \in Applications, NEW s \in Students,
         Apply(t, a, s)
  PROVE  IInv'
<1> DEFINE p == handler[t].p
<1>1. handler[t].op # "none" /\ HistoryGrows /\ Finish(t) /\ UNCHANGED project
  BY DEF Apply, IInv, TypeOK, HistoryGrows
<1>2. p \in Projects
  BY <1>1, BusyHandlerIsFine
<1>3. PICK row \in Application :
        row = [status |-> "submitted", student |-> s, project |-> p]
  BY <1>2 DEF Application
<1>4. row.status = "submitted" /\ row.project = p
  BY <1>3
<1>5. handler' \in [Threads -> Handler] /\ CopiesOK'
  BY <1>1, FinishIsFine
<1>6. CASE UNCHANGED app
  BY <1>1, <1>5, <1>6, NoRowWritten
<1>7. CASE app' = [app EXCEPT ![a] = row]
  BY <1>1, <1>2, <1>4, <1>5, <1>7, OneApplicationWritten DEF Decided
<1> QED  BY <1>3, <1>6, <1>7 DEF Apply

LEMMA DeleteApplicationIsFine ==
  ASSUME IInv, NEW t \in Threads, DeleteApplication(t)
  PROVE  IInv'
<1> DEFINE a == handler[t].a
<1>1. handler[t].op # "none" /\ handler[t].op \in OnApplication
  BY DEF DeleteApplication, OnApplication
<1>2. a \in Applications
  BY <1>1, BusyHandlerIsFine
<1>3. app[a].status = "accepted" => app[a].project \in Projects
  BY <1>2, RowsAreFine DEF Live
<1>4. HistoryGrows /\ Finish(t) /\ UNCHANGED project
  BY <1>3 DEF DeleteApplication, IInv, TypeOK, HistoryGrows
<1>5. PICK row \in Application : row = [NoApplication EXCEPT !.status = "gone"]
  BY DEF NoApplication, Application
<1>6. row.status = "gone"
  BY <1>5 DEF NoApplication
<1>7. app' = [app EXCEPT ![a] = row]
  BY <1>5 DEF DeleteApplication
<1>8. handler' \in [Threads -> Handler] /\ CopiesOK'
  BY <1>4, FinishIsFine
<1> QED  BY <1>2, <1>4, <1>6, <1>7, <1>8, OneApplicationWritten DEF Decided

LEMMA RewriteApplicationIsFine ==
  ASSUME IInv, NEW t \in Threads, NEW q \in Projects, RewriteApplication(t, q)
  PROVE  IInv'
<1> DEFINE a == handler[t].a
<1>1. handler[t].op = "rewrite"
  BY DEF RewriteApplication
<1>2. /\ a \in Applications /\ handler[t].app \in Application
      /\ handler[t].app.project \in Projects
      /\ handler[t].app.status \in Decided => a \in reviewed
  BY <1>1, BusyHandlerIsFine DEF OnApplication
<1>3. HistoryGrows /\ Finish(t) /\ UNCHANGED project
  BY <1>2 DEF RewriteApplication, IInv, TypeOK, HistoryGrows
<1>4. PICK row \in Application : row = [handler[t].app EXCEPT !.project = q]
  BY <1>2 DEF Application
<1>5. row.status = handler[t].app.status /\ row.project = q
  BY <1>2, <1>4 DEF Application
<1>6. row.status \in Decided => a \in reviewed'
  BY <1>2, <1>3, <1>5 DEF HistoryGrows
<1>7. handler' \in [Threads -> Handler] /\ CopiesOK'
  BY <1>3, FinishIsFine
<1>8. CASE UNCHANGED app
  BY <1>3, <1>7, <1>8, NoRowWritten
<1>9. CASE app' = [app EXCEPT ![a] = row]
  BY <1>2, <1>3, <1>5, <1>6, <1>7, <1>9, OneApplicationWritten
<1> QED  BY <1>4, <1>8, <1>9 DEF RewriteApplication

LEMMA HandlerDiesIsFine ==
  ASSUME IInv, NEW t \in Threads, HandlerDies(t)
  PROVE  IInv'
<1>1. handler[t].p \in Projects
  BY BusyHandlerIsFine DEF HandlerDies
<1>2. HistoryGrows /\ Finish(t) /\ UNCHANGED <<project, app>>
  BY <1>1 DEF HandlerDies, IInv, TypeOK, HistoryGrows
<1> QED  BY <1>2, FinishIsFine, NoRowWritten

-----------------------------------------------------------------------------
LEMMA InitIsFine == Init => IInv
<1> SUFFICES ASSUME Init PROVE IInv
  OBVIOUS
<1>1. /\ NoRow \in Row /\ NoApplication \in Application /\ NoHandler \in Handler
      /\ NoRow.status = "free" /\ NoRow.count = 0
      /\ NoApplication.status = "free" /\ NoHandler.op = "none"
  BY DEF NoRow, Row, NoApplication, Application, NoHandler, Handler
<1>2. TypeOK
  <2>1. project \in [Projects -> Row]
    BY <1>1 DEF Init
  <2>2. app \in [Applications -> Application] /\ handler \in [Threads -> Handler]
    BY <1>1 DEF Init
  <2>3. requests \in 0..MaxRequests
    BY RequestsAssumption DEF Init
  <2>4. pastCounts \in [Projects -> SUBSET Nat]
    BY DEF Init
  <2>5. cleared \in SUBSET Projects /\ reviewed \in SUBSET Applications
        /\ drifted \in SUBSET Projects /\ overlapped \in BOOLEAN
    BY DEF Init
  <2> QED  BY <2>1, <2>2, <2>3, <2>4, <2>5 DEF Init, TypeOK
<1>3. CopiesOK /\ ApplicationsNameProjects
  BY <1>1 DEF Init, CopiesOK, CopyOK, ApplicationsNameProjects, Live
<1>4. CatalogIsCleared /\ DecisionsAreReviewed /\ CountsWereTrue
  BY <1>1 DEF Init, CatalogIsCleared, Catalog, DecisionsAreReviewed, CountsWereTrue
<1> QED  BY <1>2, <1>3, <1>4 DEF IInv

LEMMA ProjectStepIsFine == IInv /\ ProjectStep => IInv'
<1> SUFFICES ASSUME IInv, ProjectStep PROVE IInv'
  OBVIOUS
<1>1. ImportStatuses \subseteq Statuses
  BY InputsAssumption DEF SourceStatuses, Statuses
<1>2. CASE \E p \in Projects, n \in TeamSizes :
             \/ \E s \in Statuses : CreateProject(p, s, n)
             \/ \E s \in ImportStatuses : CreateImported(p, s, n)
  BY <1>1, <1>2, CreateProjectIsFine
<1>3. CASE \E p \in Projects : PublishSelected(p) \/ ArchiveSelected(p)
  BY <1>3, BulkActionsAreFine
<1>4. CASE \E t \in Threads, p \in Projects :
             \/ LoadForSubmit(t, p) \/ LoadForModeration(t, p)
             \/ LoadForUpdate(t, p) \/ LoadForEdit(t, p) \/ LoadForImport(t, p)
             \/ LoadForDelete(t, p)
  BY <1>4, ProjectLoadsAreFine
<1>5. CASE \E t \in Threads, n \in TeamSizes :
             \/ UpdateProject(t, n) \/ EditProject(t, n)
             \/ \E s \in ImportStatuses : ImportRow(t, s, n)
  BY <1>5, UpdateProjectIsFine, EditProjectIsFine, ImportRowIsFine
<1>6. CASE \E t \in Threads : SubmitForModeration(t) \/ DeleteProject(t)
  BY <1>6, SubmitIsFine, DeleteProjectIsFine
<1>7. CASE \E t \in Threads, approve \in BOOLEAN : Moderate(t, approve)
  BY <1>7, ModerateIsFine
<1> QED  BY <1>2, <1>3, <1>4, <1>5, <1>6, <1>7 DEF ProjectStep

LEMMA ApplicationStepIsFine == IInv /\ ApplicationStep => IInv'
<1> SUFFICES ASSUME IInv, ApplicationStep PROVE IInv'
  OBVIOUS
<1>1. CASE \E t \in Threads, p \in Projects :
             LoadForApply(t, p) \/ RewriteApplication(t, p)
  BY <1>1, ProjectLoadsAreFine, RewriteApplicationIsFine
<1>2. CASE \E t \in Threads, a \in Applications :
             \/ LoadForReview(t, a) \/ LoadForWithdraw(t, a)
             \/ LoadForRemove(t, a) \/ LoadForRewrite(t, a)
             \/ \E s \in Students : Apply(t, a, s)
  BY <1>2, ApplicationLoadsAreFine, ApplyIsFine
<1>3. CASE \E t \in Threads, accept \in BOOLEAN : Review(t, accept)
  BY <1>3, ReviewIsFine
<1>4. CASE \E t \in Threads : DeleteApplication(t)
  BY <1>4, DeleteApplicationIsFine
<1> QED  BY <1>1, <1>2, <1>3, <1>4 DEF ApplicationStep

LEMMA StutterIsFine == IInv /\ UNCHANGED vars => IInv'
BY DEF vars, IInv, TypeOK, CopiesOK, CopyOK, ApplicationsNameProjects, Live,
       CatalogIsCleared, DecisionsAreReviewed, CountsWereTrue

LEMMA StepKeepsRows == IInv /\ [Next]_vars => IInv'
<1>1. IInv /\ StaffingStep => IInv'
  BY CountAcceptedIsFine, SaveStaffingIsFine, HandlerDiesIsFine DEF StaffingStep
<1> QED
  BY <1>1, ProjectStepIsFine, ApplicationStepIsFine, StutterIsFine DEF Next

\* Rows and the copies of them that handlers hold are right in every reachable state.
THEOREM RowsAndCopiesAreRight == Spec => []IInv
BY InitIsFine, StepKeepsRows, PTL DEF Spec

\* Every variable keeps its type.
THEOREM StaffingTypeCorrect == Spec => []TypeOK
<1>1. IInv => TypeOK
  BY DEF IInv
<1> QED  BY <1>1, RowsAndCopiesAreRight, PTL

\* Saves of stale copies put no project into the catalog that was never published.
THEOREM AlwaysCleared == Spec => []CatalogIsCleared
<1>1. IInv => CatalogIsCleared
  BY DEF IInv
<1> QED  BY <1>1, RowsAndCopiesAreRight, PTL

\* PUT of a stale application makes up no decision.
THEOREM AlwaysReviewed == Spec => []DecisionsAreReviewed
<1>1. IInv => DecisionsAreReviewed
  BY DEF IInv
<1> QED  BY <1>1, RowsAndCopiesAreRight, PTL

\* The count a project shows was its number of accepted applications at some time.
THEOREM ShownCountAlwaysWasTrue == Spec => []ShownCountWasTrue
<1>1. IInv => ShownCountWasTrue
  BY DEF IInv, CountsWereTrue, ShownCountWasTrue
<1> QED  BY <1>1, RowsAndCopiesAreRight, PTL
-----------------------------------------------------------------------------
(***************************************************************************)
(* Requests that come one at a time.  As long as no two were in flight at  *)
(* once, the copy a handler holds is the row itself, and only the project  *)
(* whose recount is due can be unsettled.  That an application names a     *)
(* project that was created makes a new row right to start from no one.    *)
(***************************************************************************)
Settled(p) ==
  Exists(p) =>
    /\ project[p].count = Accepted(app, p)
    /\ project[p].status \in Catalog =>
         (project[p].status = "staffed" <=> project[p].count >= project[p].team)

Recounting(h, p) == h.op \in {"count", "write"} /\ h.p = p

\* The copies of h are the rows, with what the recount makes of them.
Current(h) ==
  /\ h.op \in {"moderate", "review", "count", "update", "import"} =>
       h.row = project[h.p]
  /\ h.op = "write" => h.row = Recounted(project[h.p], Accepted(app, h.p))
  /\ h.op \in {"update", "import"} => Exists(h.p)
  /\ h.op = "edit" => project[h.p].status \notin Catalog
  /\ h.op = "review" => app[h.a].project = h.p
  /\ h.op = "rewrite" => h.app = app[h.a]

ProjectsComeFirst ==
  \A a \in Applications : Live(a) => project[app[a].project].status # "free"

Sequential ==
  /\ ProjectsComeFirst
  /\ \A t \in Busy : Current(handler[t])
  /\ \A p \in Projects \ drifted :
       Settled(p) \/ \E t \in Busy : Recounting(handler[t], p)

SequentialInv == IInv /\ (~ overlapped => Sequential)

\* A step of one handler that overlaps with no request finds the others idle.
LEMMA HandlerIsAlone ==
  ASSUME SequentialInv, Remember, ~ overlapped', NEW t \in Threads, NEW h,
         handler' = [handler EXCEPT ![t] = h]
  PROVE  Sequential /\ Busy \subseteq {t} /\ Busy' \subseteq {t} /\ handler'[t] = h
<1>1. overlapped \in BOOLEAN /\ handler \in [Threads -> Handler]
  BY DEF SequentialInv, IInv, TypeOK
<1>2. ~ overlapped /\ \A u \in Busy : handler'[u] # handler[u]
  BY <1>1 DEF Remember
<1>3. \A u \in Threads : u # t => handler'[u] = handler[u]
  BY <1>1
<1>4. handler'[t] = h
  BY <1>1
<1> QED  BY <1>2, <1>3, <1>4 DEF SequentialInv, Busy

\* So does a request of a single statement.
LEMMA StatementIsAlone ==
  ASSUME SequentialInv, Remember, ~ overlapped', UNCHANGED handler
  PROVE  Sequential /\ Busy = {} /\ Busy' = {}
<1>1. overlapped \in BOOLEAN
  BY DEF SequentialInv, IInv, TypeOK
<1>2. ~ overlapped /\ \A u \in Busy : handler'[u] # handler[u]
  BY <1>1 DEF Remember
<1> QED  BY <1>2 DEF SequentialInv, Busy

LEMMA FinishedIsIdle ==
  ASSUME SequentialInv, Remember, ~ overlapped', NEW t \in Threads, Finish(t)
  PROVE  Sequential /\ Busy \subseteq {t} /\ Busy' = {}
<1>1. NoHandler.op = "none"
  BY DEF NoHandler
<1>2. /\ Sequential /\ Busy \subseteq {t} /\ Busy' \subseteq {t}
      /\ handler'[t] = NoHandler
  BY HandlerIsAlone DEF Finish
<1> QED  BY <1>1, <1>2 DEF Busy

\* The accepted applications of a project that are the same before and after.
LEMMA SameAccepted ==
  ASSUME NEW p,
         \A a \in Applications :
           (app'[a].status = "accepted" /\ app'[a].project = p) <=>
           (app[a].status = "accepted" /\ app[a].project = p)
  PROVE  Accepted(app', p) = Accepted(app, p)
<1>1. {a \in Applications : app'[a].status = "accepted" /\ app'[a].project = p} =
      {a \in Applications : app[a].status = "accepted" /\ app[a].project = p}
  OBVIOUS
<1> QED  BY <1>1 DEF Accepted

\* A project that is new has no accepted application.
LEMMA NoneAccepted ==
  ASSUME ProjectsComeFirst, NEW p, project[p].status = "free"
  PROVE  Accepted(app, p) = 0
<1>1. {a \in Applications : app[a].status = "accepted" /\ app[a].project = p} = {}
  BY DEF ProjectsComeFirst, Live
<1> QED  BY <1>1, FS_EmptySet DEF Accepted

\* What a recount makes of a row is settled.
LEMMA RecountSettles ==
  ASSUME NEW row \in Row, NEW n \in Nat
  PROVE  /\ Recounted(row, n).count = n
         /\ Recounted(row, n).team = row.team
         /\ Recounted(row, n).status \in Catalog =>
              (Recounted(row, n).status = "staffed" <=> n >= row.team)
         /\ row.status # "free" => Recounted(row, n).status # "free"
         /\ row.status = "free" => Recounted(row, n).status = "free"
<1> QED  BY DEF Recounted, Row, Catalog, Statuses
\* A project with no recount due is settled.
LEMMA SettledUnlessRecounting ==
  ASSUME Sequential, NEW q \in Projects \ drifted,
         \A u \in Busy : ~ Recounting(handler[u], q)
  PROVE  Settled(q)
<1> QED  BY DEF Sequential

LEMMA SettledKept ==
  ASSUME NEW q, Settled(q), project'[q] = project[q],
         Accepted(app', q) = Accepted(app, q)
  PROVE  Settled(q)'
<1> QED  BY DEF Settled, Exists

\* One project row is written or none, and every handler is idle after it.
LEMMA RowSettled ==
  ASSUME IInv, IInv', Sequential, Busy' = {}, NEW p \in Projects, UNCHANGED app,
         \A u \in Busy : handler[u].op \in {"count", "write"} => handler[u].p = p,
         \A q \in Projects \ {p} : project'[q] = project[q],
         project'[p].status = "free" => project[p].status = "free",
         drifted \subseteq drifted' \union {p},
         p \in drifted' \/ Settled(p)'
  PROVE  SequentialInv'
<1>1. ProjectsComeFirst'
  BY DEF IInv, ApplicationsNameProjects, Sequential, ProjectsComeFirst, Live
<1>2. ASSUME NEW q \in Projects \ drifted' PROVE Settled(q)'
  <2>1. CASE q = p
    BY <2>1
  <2>2. ASSUME q # p PROVE Settled(q)'
    <3>1. Settled(q)
      BY <2>2, SettledUnlessRecounting DEF Recounting
    <3>2. Accepted(app', q) = Accepted(app, q)
      BY SameAccepted
    <3> QED  BY <2>2, <3>1, <3>2, SettledKept
  <2> QED  BY <2>1, <2>2
<1> QED  BY <1>1, <1>2 DEF SequentialInv, Sequential

\* Nothing is written, and the handler that returns had no recount to do.
LEMMA NothingSettled ==
  ASSUME IInv, IInv', Sequential, Busy' = {}, UNCHANGED <<project, app>>,
         drifted \subseteq drifted',
         \A u \in Busy : handler[u].op \in {"count", "write"} =>
                           handler[u].p \in drifted'
  PROVE  SequentialInv'
<1>1. ProjectsComeFirst'
  BY DEF Sequential, ProjectsComeFirst, Live
<1>2. ASSUME NEW q \in Projects \ drifted' PROVE Settled(q)'
  <2>1. Settled(q)
    BY SettledUnlessRecounting DEF Recounting
  <2>2. Accepted(app', q) = Accepted(app, q)
    BY SameAccepted
  <2> QED  BY <2>1, <2>2, SettledKept
<1> QED  BY <1>1, <1>2 DEF SequentialInv, Sequential

\* Applications are written, and the seats of projects that do not drift stay.
LEMMA SeatsSettled ==
  ASSUME IInv, IInv', Sequential, Busy' = {}, ProjectsComeFirst',
         \A u \in Busy : handler[u].op \notin {"count", "write"},
         drifted \subseteq drifted',
         \A q \in Projects \ drifted' :
           \/ ~ Exists(q)'
           \/ /\ project'[q] = project[q]
              /\ \A a \in Applications :
                   (app'[a].status = "accepted" /\ app'[a].project = q) <=>
                   (app[a].status = "accepted" /\ app[a].project = q)
  PROVE  SequentialInv'
<1>1. ASSUME NEW q \in Projects \ drifted' PROVE Settled(q)'
  <2>1. CASE ~ Exists(q)'
    BY <2>1 DEF Settled
  <2>2. ASSUME ~ ~ Exists(q)' PROVE Settled(q)'
    <3>1. Settled(q)
      BY SettledUnlessRecounting DEF Recounting
    <3>2. project'[q] = project[q] /\ Accepted(app', q) = Accepted(app, q)
      BY <2>2, SameAccepted
    <3> QED  BY <3>1, <3>2, SettledKept
  <2> QED  BY <2>1, <2>2
<1> QED  BY <1>1 DEF SequentialInv, Sequential

\* A handler goes on to recount a project, the only one that changed.
LEMMA RecountIsDue ==
  ASSUME IInv, IInv', Sequential, NEW t \in Threads, NEW h, NEW p \in Projects,
         Busy \subseteq {t}, Busy' \subseteq {t}, handler'[t] = h,
         handler[t].p = p, Recounting(h, p), Current(h)', ProjectsComeFirst',
         drifted \subseteq drifted' \union {p},
         \A q \in Projects \ {p} :
           project'[q] = project[q] /\ Accepted(app', q) = Accepted(app, q)
  PROVE  SequentialInv'
<1>1. t \in Busy'
  BY DEF Busy, Recounting
<1>2. \A u \in Busy' : Current(handler[u])'
  BY DEF Current
<1>3. ASSUME NEW q \in Projects \ drifted', q # p PROVE Settled(q)'
  <2>1. Settled(q)
    BY <1>3, SettledUnlessRecounting DEF Recounting
  <2> QED  BY <1>3, <2>1, SettledKept
<1>4. \A q \in Projects \ drifted' :
        Settled(q)' \/ \E u \in Busy' : Recounting(handler[u], q)'
  BY <1>1, <1>3 DEF Recounting
<1> QED  BY <1>2, <1>4 DEF SequentialInv, Sequential
-----------------------------------------------------------------------------
LEMMA LoadIsCurrent ==
  ASSUME SequentialInv, IInv', ~ overlapped', NEW t \in Threads, NEW kind,
         NEW p, NEW row, NEW a, NEW copy, Load(t, kind, p, row, a, copy),
         kind \notin {"count", "write"},
         kind \in {"moderate", "review", "update", "import"} => row = project[p],
         kind \in {"update", "import"} => Exists(p),
         kind = "edit" => project[p].status \notin Catalog,
         kind = "review" => app[a].project = p,
         kind = "rewrite" => copy = app[a]
  PROVE  SequentialInv'
<1>1. PICK h : h = [op |-> kind, p |-> p, row |-> row, a |-> a, app |-> copy]
  OBVIOUS
<1>2. /\ h.op = kind /\ h.p = p /\ h.row = row /\ h.a = a /\ h.app = copy
      /\ handler' = [handler EXCEPT ![t] = h]
      /\ handler[t].op = "none" /\ Remember
      /\ UNCHANGED <<project, app, drifted>>
  BY <1>1 DEF Load
<1>3. Sequential /\ Busy \subseteq {t} /\ Busy' \subseteq {t} /\ handler'[t] = h
  BY <1>2, HandlerIsAlone
<1>4. Busy = {}
  BY <1>2, <1>3 DEF Busy
<1>5. Current(h)'
  BY <1>2 DEF Current, Exists
<1>6. ASSUME NEW q \in Projects \ drifted' PROVE Settled(q)'
  <2>1. Settled(q)
    BY <1>2, <1>3, <1>4, SettledUnlessRecounting
  <2>2. Accepted(app', q) = Accepted(app, q)
    BY <1>2, SameAccepted
  <2> QED  BY <1>2, <2>1, <2>2, SettledKept
<1>7. ProjectsComeFirst'
  BY <1>2, <1>3 DEF Sequential, ProjectsComeFirst, Live
<1>8. \A u \in Busy' : Current(handler[u])'
  BY <1>3, <1>5 DEF Current
<1> QED  BY <1>6, <1>7, <1>8 DEF SequentialInv, Sequential

LEMMA ProjectLoadsAreCurrent ==
  ASSUME SequentialInv, IInv', ~ overlapped', NEW t \in Threads, NEW p \in Projects,
         \/ LoadForSubmit(t, p) \/ LoadForModeration(t, p) \/ LoadForUpdate(t, p)
         \/ LoadForEdit(t, p) \/ LoadForImport(t, p) \/ LoadForDelete(t, p)
         \/ LoadForApply(t, p)
  PROVE  SequentialInv'
<1>1. PICK kind, row :
        /\ kind \in {"submit", "moderate", "update", "edit", "import", "delete", "apply"}
        /\ Load(t, kind, p, row, None, NoApplication)
        /\ kind \in {"moderate", "update", "import"} => row = project[p]
        /\ kind \in {"update", "import"} => Exists(p)
        /\ kind = "edit" => project[p].status \notin Catalog
  BY DEF LoadForSubmit, LoadForModeration, LoadForUpdate, LoadForEdit,
         LoadForImport, LoadForDelete, LoadForApply, LockedForEdit, Catalog
<1> QED  BY <1>1, LoadIsCurrent

LEMMA ApplicationLoadsAreCurrent ==
  ASSUME SequentialInv, IInv', ~ overlapped', NEW t \in Threads,
         NEW a \in Applications,
         \/ LoadForReview(t, a) \/ LoadForWithdraw(t, a) \/ LoadForRemove(t, a)
         \/ LoadForRewrite(t, a)
  PROVE  SequentialInv'
<1>1. PICK kind, row, copy :
        /\ kind \in OnApplication
        /\ Load(t, kind, app[a].project, row, a, copy)
        /\ kind = "review" => row = project[app[a].project]
        /\ kind = "rewrite" => copy = app[a]
  BY DEF LoadForReview, LoadForWithdraw, LoadForRemove, LoadForRewrite, OnApplication
<1> QED  BY <1>1, LoadIsCurrent DEF OnApplication

LEMMA CreateStartsSettled ==
  ASSUME SequentialInv, IInv', ~ overlapped', NEW p \in Projects,
         NEW s \in Statuses, NEW n \in TeamSizes,
         \/ CreateProject(p, s, n)
         \/ s \in ImportStatuses /\ CreateImported(p, s, n)
  PROVE  SequentialInv'
<1>1. /\ Remember /\ UNCHANGED <<app, handler>> /\ project[p].status = "free"
      /\ project' = [project EXCEPT ![p] = [status |-> s, team |-> n, count |-> 0]]
      /\ drifted \subseteq drifted'
      /\ s = "staffed" \/ (s = "published" /\ n = 0) => p \in drifted'
  BY InputsAssumption DEF CreateProject, CreateImported, SingleStatement, SourceStatuses
<1>2. Sequential /\ Busy = {} /\ Busy' = {}
  BY <1>1, StatementIsAlone
<1>3. Accepted(app', p) = 0
  BY <1>1, <1>2, NoneAccepted DEF Sequential
<1>4. project \in [Projects -> Row]
  BY DEF SequentialInv, IInv, TypeOK
<1>5. /\ project'[p].status = s /\ project'[p].team = n /\ project'[p].count = 0
      /\ \A q \in Projects \ {p} : project'[q] = project[q]
  BY <1>1, <1>4
<1>6. n \in Nat
  BY InputsAssumption
<1>7. p \in drifted' \/ Settled(p)'
  BY <1>1, <1>3, <1>5, <1>6 DEF Settled, Catalog
<1> QED  BY <1>1, <1>2, <1>5, <1>7, RowSettled DEF SequentialInv

LEMMA BulkActionsAreSettled ==
  ASSUME SequentialInv, IInv', ~ overlapped', NEW p \in Projects,
         PublishSelected(p) \/ ArchiveSelected(p)
  PROVE  SequentialInv'
<1>1. PICK s \in {"published", "archived"} :
        /\ project' = [project EXCEPT ![p].status = s]
        /\ Remember /\ UNCHANGED <<app, handler>>
        /\ drifted \subseteq drifted'
        /\ s = "published" => p \in drifted'
  BY DEF PublishSelected, ArchiveSelected, SingleStatement
<1>2. Sequential /\ Busy = {} /\ Busy' = {}
  BY <1>1, StatementIsAlone
<1>3. project \in [Projects -> Row]
  BY DEF SequentialInv, IInv, TypeOK
<1>4. /\ project'[p].status = s /\ project'[p].count = project[p].count
      /\ \A q \in Projects \ {p} : project'[q] = project[q]
  BY <1>1, <1>3 DEF Row
<1>5. Accepted(app', p) = Accepted(app, p)
  BY <1>1, SameAccepted
<1>6. Exists(p)
  BY DEF PublishSelected, ArchiveSelected
<1>7. p \in drifted' \/ Settled(p)'
  <2>1. p \in drifted \/ Settled(p)
    BY <1>2, SettledUnlessRecounting
  <2> QED  BY <1>1, <1>4, <1>5, <1>6, <2>1 DEF Settled, Catalog
<1> QED  BY <1>1, <1>2, <1>4, <1>7, RowSettled DEF SequentialInv
-----------------------------------------------------------------------------
LEMMA SubmitStaysSettled ==
  ASSUME SequentialInv, IInv', ~ overlapped', NEW t \in Threads, NEW p \in Projects,
         handler[t].p = p,
         SubmitForModeration(t)
  PROVE  SequentialInv'
<1>1. /\ handler[t].op = "submit" /\ Finish(t) /\ Remember
      /\ UNCHANGED <<app, drifted>>
  BY DEF SubmitForModeration
<1>2. Sequential /\ Busy \subseteq {t} /\ Busy' = {}
  BY <1>1, FinishedIsIdle
<1>3. p \in Projects /\ project \in [Projects -> Row]
  BY <1>1, BusyHandlerIsFine DEF SequentialInv, IInv, TypeOK
<1>4. /\ \A q \in Projects \ {p} : project'[q] = project[q]
      /\ \/ project'[p] = project[p]
         \/ /\ project'[p].status = "on_moderation" /\ Exists(p)
            /\ project'[p].count = project[p].count
  BY <1>3 DEF SubmitForModeration, Row
<1>5. Accepted(app', p) = Accepted(app, p)
  BY <1>1, SameAccepted
<1>6. p \in drifted' \/ Settled(p)'
  <2>1. p \in drifted \/ Settled(p)
    BY <1>1, <1>2, <1>3, SettledUnlessRecounting DEF Recounting
  <2> QED  BY <1>1, <1>4, <1>5, <2>1 DEF Settled, Catalog, Exists
<1>7. project'[p].status = "free" => project[p].status = "free"
  BY <1>4
<1> QED  BY <1>1, <1>2, <1>3, <1>4, <1>6, <1>7, RowSettled DEF SequentialInv

LEMMA EditStaysSettled ==
  ASSUME SequentialInv, IInv', ~ overlapped', NEW t \in Threads, NEW p \in Projects,
         handler[t].p = p,
         NEW n \in TeamSizes, EditProject(t, n)
  PROVE  SequentialInv'
<1>1. /\ handler[t].op = "edit" /\ Finish(t) /\ Remember
      /\ UNCHANGED <<app, drifted>>
  BY DEF EditProject
<1>2. Sequential /\ Busy \subseteq {t} /\ Busy' = {}
  BY <1>1, FinishedIsIdle
<1>3. p \in Projects /\ project \in [Projects -> Row]
  BY <1>1, BusyHandlerIsFine DEF SequentialInv, IInv, TypeOK
<1>4. /\ \A q \in Projects \ {p} : project'[q] = project[q]
      /\ project'[p].status = project[p].status
      /\ project'[p].count = project[p].count
  BY <1>3 DEF EditProject, Row
<1>5. Accepted(app', p) = Accepted(app, p)
  BY <1>1, SameAccepted
<1>6. project[p].status \notin Catalog
  BY <1>1, <1>2 DEF Sequential, Current, Busy
<1>7. p \in drifted' \/ Settled(p)'
  <2>1. p \in drifted \/ Settled(p)
    BY <1>1, <1>2, <1>3, SettledUnlessRecounting DEF Recounting
  <2> QED  BY <1>1, <1>4, <1>5, <1>6, <2>1 DEF Settled, Exists
<1> QED  BY <1>1, <1>2, <1>3, <1>4, <1>7, RowSettled DEF SequentialInv

\* A whole row is saved, and its project drifts until the next recount.
LEMMA WholeRowDrifts ==
  ASSUME SequentialInv, IInv', ~ overlapped', NEW t \in Threads, NEW p \in Projects,
         handler[t].p = p,
         handler[t].op \in {"update", "import"}, Finish(t), Remember,
         \A q \in Projects \ {p} : project'[q] = project[q],
         project'[p].status # "free", UNCHANGED app,
         drifted' = drifted \union {p}
  PROVE  SequentialInv'
<1>1. Sequential /\ Busy \subseteq {t} /\ Busy' = {}
  BY FinishedIsIdle
<1> QED  BY <1>1, RowSettled DEF SequentialInv

LEMMA UpdateDrifts ==
  ASSUME SequentialInv, IInv', ~ overlapped', NEW t \in Threads, NEW p \in Projects,
         handler[t].p = p,
         NEW n \in TeamSizes, UpdateProject(t, n)
  PROVE  SequentialInv'
<1>1. /\ handler[t].op = "update" /\ Finish(t) /\ Remember /\ UNCHANGED app
      /\ drifted' = drifted \union {p}
  BY DEF UpdateProject
<1>2. Sequential /\ t \in Busy
  BY <1>1, FinishedIsIdle DEF Busy
<1>3. handler[t].row \in Row /\ handler[t].row.status # "free"
  BY <1>1, <1>2, BusyHandlerIsFine
  DEF SequentialInv, Sequential, Current, Exists, Statuses
<1>4. PICK row : row = [handler[t].row EXCEPT !.team = n]
  OBVIOUS
<1>5. row.status # "free"
  BY <1>3, <1>4 DEF Row
<1>6. project' = [project EXCEPT ![p] = row]
  BY <1>4 DEF UpdateProject
<1>7. /\ project'[p].status # "free"
      /\ \A q \in Projects \ {p} : project'[q] = project[q]
  BY <1>1, <1>5, <1>6, BusyHandlerIsFine DEF SequentialInv, IInv, TypeOK
<1> QED  BY <1>1, <1>7, WholeRowDrifts

LEMMA ImportDrifts ==
  ASSUME SequentialInv, IInv', ~ overlapped', NEW t \in Threads, NEW p \in Projects,
         handler[t].p = p,
         NEW n \in TeamSizes, NEW s \in ImportStatuses, ImportRow(t, s, n)
  PROVE  SequentialInv'
<1> DEFINE locked == handler[t].row.status \in LockedForImport
<1>1. /\ handler[t].op = "import" /\ Finish(t) /\ Remember /\ UNCHANGED app
      /\ drifted' = drifted \union {p}
  BY DEF ImportRow
<1>2. handler[t].row \in Row
  BY <1>1, BusyHandlerIsFine DEF SequentialInv
<1>3. PICK row :
        row = [handler[t].row EXCEPT !.team = n, !.status = IF locked THEN @ ELSE s]
  OBVIOUS
<1>4. row.status = IF locked THEN handler[t].row.status ELSE s
  BY <1>2, <1>3 DEF Row
<1>5. row.status # "free"
  BY <1>4, InputsAssumption DEF LockedForImport, SourceStatuses
<1>6. project' = [project EXCEPT ![p] = row]
  BY <1>3 DEF ImportRow
<1>7. /\ project'[p].status # "free"
      /\ \A q \in Projects \ {p} : project'[q] = project[q]
  BY <1>1, <1>5, <1>6, BusyHandlerIsFine DEF SequentialInv, IInv, TypeOK
<1> QED  BY <1>1, <1>7, WholeRowDrifts

-----------------------------------------------------------------------------
LEMMA ModerationIsRecounted ==
  ASSUME SequentialInv, IInv', ~ overlapped', NEW t \in Threads, NEW p \in Projects,
         handler[t].p = p,
         NEW approve \in BOOLEAN, Moderate(t, approve)
  PROVE  SequentialInv'
<1>1. /\ handler[t].op = "moderate" /\ Remember /\ UNCHANGED <<app, drifted>>
  BY DEF Moderate
<1>2. /\ p \in Projects /\ project \in [Projects -> Row] /\ handler[t] \in Handler
      /\ handler[t].row \in Row /\ handler \in [Threads -> Handler]
  BY <1>1, BusyHandlerIsFine DEF SequentialInv, IInv, TypeOK
<1>3. ASSUME ~ Exists(p) PROVE SequentialInv'
  <2>1. Finish(t) /\ UNCHANGED project
    BY <1>3 DEF Moderate
  <2>2. Sequential /\ Busy \subseteq {t} /\ Busy' = {}
    BY <1>1, <2>1, FinishedIsIdle
  <2> QED  BY <1>1, <2>1, <2>2, NothingSettled DEF SequentialInv
<1>4. ASSUME Exists(p) PROVE SequentialInv'
  <2>1. PICK verdict \in {"published", "revision_requested", "rejected"} :
          /\ project' = [project EXCEPT ![p].status = verdict]
          /\ handler' = [handler EXCEPT ![t].op = "count", ![t].row.status = verdict]
    BY <1>4 DEF Moderate
  <2>2. PICK h : h = [handler[t] EXCEPT !.op = "count", !.row.status = verdict]
    OBVIOUS
  <2>3. handler' = [handler EXCEPT ![t] = h]
    BY <1>2, <2>1, <2>2
  <2>4. h.op = "count" /\ h.p = p /\ h.row = [handler[t].row EXCEPT !.status = verdict]
    BY <1>2, <2>2 DEF Handler
  <2>5. Sequential /\ Busy \subseteq {t} /\ Busy' \subseteq {t} /\ handler'[t] = h
    BY <1>1, <2>3, HandlerIsAlone
  <2>6. handler[t].row = project[p]
    BY <1>1, <2>5 DEF Sequential, Current, Busy
  <2>7. /\ project'[p] = [project[p] EXCEPT !.status = verdict]
        /\ project'[p].status # "free"
        /\ \A q \in Projects \ {p} : project'[q] = project[q]
    BY <1>2, <2>1 DEF Row
  <2>8. Current(h)'
    BY <2>4, <2>6, <2>7 DEF Current
  <2>9. ProjectsComeFirst'
    BY <1>1, <2>5, <2>7
    DEF Sequential, ProjectsComeFirst, Live, SequentialInv, IInv,
        ApplicationsNameProjects
  <2>10. \A q \in Projects : Accepted(app', q) = Accepted(app, q)
    BY <1>1, SameAccepted
  <2> QED  BY <1>1, <1>2, <2>4, <2>5, <2>7, <2>8, <2>9, <2>10, RecountIsDue
           DEF SequentialInv, Recounting
<1> QED  BY <1>3, <1>4

LEMMA ReviewIsRecounted ==
  ASSUME SequentialInv, IInv', ~ overlapped', NEW t \in Threads, NEW p \in Projects,
         NEW a, handler[t].p = p, handler[t].a = a,
         NEW accept \in BOOLEAN, Review(t, accept)
  PROVE  SequentialInv'
<1>1. /\ handler[t].op = "review" /\ Remember /\ UNCHANGED <<project, drifted>>
  BY DEF Review
<1>2. /\ a \in Applications /\ p \in Projects /\ app \in [Applications -> Application]
      /\ handler[t] \in Handler
  BY <1>1, BusyHandlerIsFine DEF SequentialInv, IInv, TypeOK, OnApplication
<1>3. ASSUME ~ Live(a) PROVE SequentialInv'
  <2>1. Finish(t) /\ UNCHANGED app
    BY <1>3 DEF Review
  <2>2. Sequential /\ Busy \subseteq {t} /\ Busy' = {}
    BY <1>1, <2>1, FinishedIsIdle
  <2> QED  BY <1>1, <2>1, <2>2, NothingSettled DEF SequentialInv
<1>4. ASSUME Live(a) PROVE SequentialInv'
  <2>1. PICK s \in {"accepted", "rejected"} :
          /\ app' = [app EXCEPT ![a].status = s]
          /\ handler' = [handler EXCEPT ![t].op = "count"]
    BY <1>4 DEF Review
  <2>2. PICK h : h = [handler[t] EXCEPT !.op = "count"]
    OBVIOUS
  <2>3. handler' = [handler EXCEPT ![t] = h]
    BY <2>1, <2>2 DEF SequentialInv, IInv, TypeOK
  <2>4. h.op = "count" /\ h.p = p /\ h.row = handler[t].row
    BY <1>2, <2>2 DEF Handler
  <2>5. Sequential /\ Busy \subseteq {t} /\ Busy' \subseteq {t} /\ handler'[t] = h
    BY <1>1, <2>3, HandlerIsAlone
  <2>6. handler[t].row = project[p] /\ app[a].project = p
    BY <1>1, <2>5 DEF Sequential, Current, Busy
  <2>7. /\ app'[a].project = p /\ Live(a)'
        /\ \A b \in Applications \ {a} : app'[b] = app[b]
    BY <1>2, <2>1, <2>6 DEF Application, Live
  <2>8. Current(h)'
    BY <1>1, <2>4, <2>6 DEF Current
  <2>9. ProjectsComeFirst'
    BY <1>1, <1>2, <1>4, <2>5, <2>6, <2>7 DEF Sequential, ProjectsComeFirst, Live
  <2>10. ASSUME NEW q \in Projects \ {p} PROVE Accepted(app', q) = Accepted(app, q)
    BY <2>6, <2>7, SameAccepted
  <2> QED  BY <1>1, <1>2, <2>4, <2>5, <2>8, <2>9, <2>10, RecountIsDue
           DEF SequentialInv, Recounting
<1> QED  BY <1>3, <1>4

LEMMA CountIsDone ==
  ASSUME SequentialInv, IInv', ~ overlapped', NEW t \in Threads, NEW p \in Projects,
         handler[t].p = p, CountAccepted(t)
  PROVE  SequentialInv'
<1> DEFINE row == Recounted(handler[t].row, Accepted(app, p))
<1>1. /\ handler[t].op = "count" /\ Remember /\ UNCHANGED <<project, app>>
      /\ drifted' = drifted \ {p}
  BY DEF CountAccepted
<1>2. /\ p \in Projects /\ handler[t] \in Handler /\ handler[t].row \in Row
      /\ handler \in [Threads -> Handler]
  BY <1>1, BusyHandlerIsFine DEF SequentialInv, IInv, TypeOK
<1>3. \A q \in Projects : Accepted(app', q) = Accepted(app, q)
  BY <1>1, SameAccepted
<1>4. Accepted(app, p) \in Nat
  BY AcceptedIsNat
<1>5. ASSUME row = handler[t].row PROVE SequentialInv'
  <2>1. Finish(t)
    BY <1>5 DEF CountAccepted
  <2>2. Sequential /\ Busy \subseteq {t} /\ Busy' = {}
    BY <1>1, <2>1, FinishedIsIdle
  <2>3. handler[t].row = project[p]
    BY <1>1, <2>2 DEF Sequential, Current, Busy
  <2>4. /\ project[p].count = Accepted(app, p)
        /\ project[p].status \in Catalog =>
             (project[p].status = "staffed" <=> Accepted(app, p) >= project[p].team)
    BY <1>2, <1>4, <1>5, <2>3, RecountSettles
  <2>5. Settled(p)'
    BY <1>1, <1>2, <1>3, <2>4 DEF Settled
  <2> QED  BY <1>1, <1>2, <2>2, <2>5, RowSettled DEF SequentialInv
<1>6. ASSUME row # handler[t].row PROVE SequentialInv'
  <2>1. PICK h : h = [handler[t] EXCEPT !.op = "write", !.row = row]
    OBVIOUS
  <2>2. handler' = [handler EXCEPT ![t] = h]
    BY <1>2, <1>6, <2>1 DEF CountAccepted
  <2>3. h.op = "write" /\ h.p = p /\ h.row = row
    <3> HIDE DEF row
    <3> QED  BY <1>2, <2>1 DEF Handler
  <2>4. Sequential /\ Busy \subseteq {t} /\ Busy' \subseteq {t} /\ handler'[t] = h
    BY <1>1, <2>2, HandlerIsAlone
  <2>5. handler[t].row = project[p]
    BY <1>1, <2>4 DEF Sequential, Current, Busy
  <2>6. Current(h)'
    BY <1>1, <1>2, <1>3, <2>3, <2>5 DEF Current
  <2>7. ProjectsComeFirst'
    BY <1>1, <2>4 DEF Sequential, ProjectsComeFirst, Live
  <2> QED  BY <1>1, <1>2, <1>3, <2>3, <2>4, <2>6, <2>7, RecountIsDue
           DEF SequentialInv, Recounting
<1> QED  BY <1>5, <1>6

LEMMA StaffingIsSaved ==
  ASSUME SequentialInv, IInv', ~ overlapped', NEW t \in Threads, NEW p \in Projects,
         handler[t].p = p, SaveStaffing(t)
  PROVE  SequentialInv'
<1> DEFINE n == Accepted(app, p)
<1>1. /\ handler[t].op = "write" /\ Finish(t) /\ Remember
      /\ UNCHANGED <<app, drifted>>
  BY DEF SaveStaffing
<1>2. Sequential /\ Busy \subseteq {t} /\ Busy' = {}
  BY <1>1, FinishedIsIdle
<1>3. p \in Projects /\ project \in [Projects -> Row]
  BY <1>1, BusyHandlerIsFine DEF SequentialInv, IInv, TypeOK
<1>4. handler[t].row = Recounted(project[p], n)
  BY <1>1, <1>2 DEF Sequential, Current, Busy
<1>5. n \in Nat /\ Accepted(app', p) = n
  BY <1>1, SameAccepted, AcceptedIsNat
<1>6. /\ handler[t].row.count = n
      /\ handler[t].row.status \in Catalog =>
           (handler[t].row.status = "staffed" <=> n >= project[p].team)
      /\ handler[t].row.status = "free" => project[p].status = "free"
  BY <1>3, <1>4, <1>5, RecountSettles
<1>7. /\ \A q \in Projects \ {p} : project'[q] = project[q]
      /\ \/ project'[p] = project[p] /\ ~ Exists(p)
         \/ /\ project'[p].count = handler[t].row.count
            /\ project'[p].status = handler[t].row.status
            /\ project'[p].team = project[p].team
  BY <1>3 DEF SaveStaffing, Row
<1>8. Settled(p)'
  <2> HIDE DEF n
  <2> QED  BY <1>5, <1>6, <1>7 DEF Settled, Exists
<1>9. project'[p].status = "free" => project[p].status = "free"
  BY <1>6, <1>7
<1> QED  BY <1>1, <1>2, <1>3, <1>7, <1>8, <1>9, RowSettled DEF SequentialInv
-----------------------------------------------------------------------------
LEMMA ApplyTakesNoSeat ==
  ASSUME SequentialInv, IInv', ~ overlapped', NEW t \in Threads,
         NEW p \in Projects, handler[t].p = p,
         NEW a \in Applications, NEW s \in Students, Apply(t, a, s)
  PROVE  SequentialInv'
<1>1. /\ handler[t].op = "apply" /\ Finish(t) /\ Remember /\ app[a].status = "free"
      /\ UNCHANGED <<project, drifted>>
  BY DEF Apply
<1>2. Sequential /\ Busy \subseteq {t} /\ Busy' = {}
  BY <1>1, FinishedIsIdle
<1>3. app \in [Applications -> Application]
  BY DEF SequentialInv, IInv, TypeOK
<1>4. /\ \A b \in Applications \ {a} : app'[b] = app[b]
      /\ \/ app'[a] = app[a]
         \/ app'[a].status = "submitted" /\ app'[a].project = p /\ Exists(p)
  BY <1>3 DEF Apply
<1>5. ProjectsComeFirst'
  BY <1>1, <1>2, <1>4 DEF Sequential, ProjectsComeFirst, Live, Exists, Statuses
<1>6. \A q, b : b \in Applications =>
        ((app'[b].status = "accepted" /\ app'[b].project = q) <=>
         (app[b].status = "accepted" /\ app[b].project = q))
  BY <1>1, <1>4
<1>7. \A u \in Busy : handler[u].op \notin {"count", "write"}
  BY <1>1, <1>2
<1> QED  BY <1>1, <1>2, <1>5, <1>6, <1>7, SeatsSettled DEF SequentialInv

LEMMA DeletionsDrift ==
  ASSUME SequentialInv, IInv', ~ overlapped', NEW t \in Threads,
         NEW a \in Applications, handler[t].a = a, DeleteApplication(t)
  PROVE  SequentialInv'
<1>1. /\ handler[t].op \in {"withdraw", "remove"} /\ Finish(t) /\ Remember
      /\ UNCHANGED project
      /\ drifted' = IF app[a].status = "accepted" THEN drifted \union {app[a].project}
                                                  ELSE drifted
      /\ app' = [app EXCEPT ![a] = [NoApplication EXCEPT !.status = "gone"]]
  BY DEF DeleteApplication
<1>2. Sequential /\ Busy \subseteq {t} /\ Busy' = {}
  BY <1>1, FinishedIsIdle
<1>3. app \in [Applications -> Application]
  BY DEF SequentialInv, IInv, TypeOK
<1>4. /\ \A b \in Applications \ {a} : app'[b] = app[b]
      /\ app'[a].status = "gone"
  BY <1>1, <1>3 DEF NoApplication
<1>5. ProjectsComeFirst'
  BY <1>1, <1>2, <1>4 DEF Sequential, ProjectsComeFirst, Live
<1>6. \A q \in Projects \ drifted' : \A b \in Applications :
        (app'[b].status = "accepted" /\ app'[b].project = q) <=>
        (app[b].status = "accepted" /\ app[b].project = q)
  BY <1>1, <1>4
<1>7. drifted \subseteq drifted'
  BY <1>1
<1>8. \A u \in Busy : handler[u].op \notin {"count", "write"}
  BY <1>1, <1>2
<1> QED  BY <1>1, <1>2, <1>5, <1>6, <1>7, <1>8, SeatsSettled DEF SequentialInv

LEMMA MovesDrift ==
  ASSUME SequentialInv, IInv', ~ overlapped', NEW t \in Threads,
         NEW a \in Applications, handler[t].a = a,
         NEW q \in Projects, RewriteApplication(t, q)
  PROVE  SequentialInv'
<1>1. handler[t].op = "rewrite" /\ Finish(t) /\ Remember /\ UNCHANGED project
  BY DEF RewriteApplication
<1>2. Sequential /\ Busy \subseteq {t} /\ Busy' = {}
  BY <1>1, FinishedIsIdle
<1>3. /\ app \in [Applications -> Application] /\ app[a] \in Application
      /\ handler[t].app = app[a]
  BY <1>1, <1>2 DEF SequentialInv, IInv, TypeOK, Sequential, Current, Busy
<1>4. \/ app' = app /\ drifted' = drifted
      \/ /\ Exists(q)
         /\ app' = [app EXCEPT ![a] = [app[a] EXCEPT !.project = q]]
         /\ drifted' = IF app[a].status = "accepted" /\ q # app[a].project
                         THEN drifted \union {q, app[a].project} ELSE drifted
  BY <1>3 DEF RewriteApplication
<1>5. ASSUME app' = app, drifted' = drifted PROVE SequentialInv'
  <2>1. \A u \in Busy : handler[u].op \notin {"count", "write"}
    BY <1>1, <1>2
  <2> QED  BY <1>1, <1>2, <1>5, <2>1, NothingSettled DEF SequentialInv
<1>6. ASSUME Exists(q),
             app' = [app EXCEPT ![a] = [app[a] EXCEPT !.project = q]],
             drifted' = IF app[a].status = "accepted" /\ q # app[a].project
                          THEN drifted \union {q, app[a].project} ELSE drifted
      PROVE  SequentialInv'
  <2>1. /\ \A b \in Applications \ {a} : app'[b] = app[b]
        /\ app'[a].status = app[a].status /\ app'[a].project = q
    BY <1>3, <1>6 DEF Application
  <2>2. ProjectsComeFirst'
    BY <1>1, <1>2, <1>6, <2>1
    DEF Sequential, ProjectsComeFirst, Live, Exists, Statuses
  <2>3. \A r \in Projects \ drifted' : \A b \in Applications :
          (app'[b].status = "accepted" /\ app'[b].project = r) <=>
          (app[b].status = "accepted" /\ app[b].project = r)
    BY <1>6, <2>1
  <2>4. drifted \subseteq drifted'
    BY <1>6
  <2>5. \A u \in Busy : handler[u].op \notin {"count", "write"}
    BY <1>1, <1>2
  <2> QED  BY <1>1, <1>2, <2>2, <2>3, <2>4, <2>5, SeatsSettled DEF SequentialInv
<1> QED  BY <1>4, <1>5, <1>6

LEMMA DeletedProjectIsSettled ==
  ASSUME SequentialInv, IInv', ~ overlapped', NEW t \in Threads,
         NEW p \in Projects, handler[t].p = p, DeleteProject(t)
  PROVE  SequentialInv'
<1>1. /\ handler[t].op = "delete" /\ Finish(t) /\ Remember /\ UNCHANGED drifted
      /\ project' = [project EXCEPT ![p] = [NoRow EXCEPT !.status = "gone"]]
      /\ app' = [b \in Applications |->
                   IF app[b].project = p THEN [NoApplication EXCEPT !.status = "gone"]
                                         ELSE app[b]]
  BY DEF DeleteProject
<1>2. Sequential /\ Busy \subseteq {t} /\ Busy' = {}
  BY <1>1, FinishedIsIdle
<1>3. project \in [Projects -> Row]
  BY DEF SequentialInv, IInv, TypeOK
<1>4. /\ \A q \in Projects \ {p} : project'[q] = project[q]
      /\ project'[p].status = "gone"
  BY <1>1, <1>3 DEF NoRow
<1>5. \A b \in Applications :
        /\ app[b].project = p => app'[b].status = "gone"
        /\ app[b].project # p => app'[b] = app[b]
  BY <1>1 DEF NoApplication
<1>6. ProjectsComeFirst'
  BY <1>2, <1>4, <1>5
  DEF Sequential, ProjectsComeFirst, Live, SequentialInv, IInv, ApplicationsNameProjects
<1>7. ~ Exists(p)'
  BY <1>4 DEF Exists, Statuses
<1>8. \A q \in Projects \ {p} : \A b \in Applications :
        (app'[b].status = "accepted" /\ app'[b].project = q) <=>
        (app[b].status = "accepted" /\ app[b].project = q)
  BY <1>5
<1>9. \A u \in Busy : handler[u].op \notin {"count", "write"}
  BY <1>1, <1>2
<1>10. \A q \in Projects \ drifted' :
         \/ ~ Exists(q)'
         \/ /\ project'[q] = project[q]
            /\ \A b \in Applications :
                 (app'[b].status = "accepted" /\ app'[b].project = q) <=>
                 (app[b].status = "accepted" /\ app[b].project = q)
  <2> SUFFICES ASSUME NEW q \in Projects
               PROVE  \/ ~ Exists(q)'
                      \/ /\ project'[q] = project[q]
                         /\ \A b \in Applications :
                              (app'[b].status = "accepted" /\ app'[b].project = q) <=>
                              (app[b].status = "accepted" /\ app[b].project = q)
    OBVIOUS
  <2>1. CASE q = p
    BY <1>7, <2>1
  <2>2. CASE q # p
    BY <1>4, <1>8, <2>2
  <2> QED  BY <2>1, <2>2
<1> QED  BY <1>1, <1>2, <1>6, <1>9, <1>10, SeatsSettled DEF SequentialInv

LEMMA DeathsDrift ==
  ASSUME SequentialInv, IInv', ~ overlapped', NEW t \in Threads, HandlerDies(t)
  PROVE  SequentialInv'
<1>1. /\ Finish(t) /\ Remember /\ UNCHANGED <<project, app>>
      /\ drifted' = IF handler[t].op \in {"count", "write"}
                      THEN drifted \union {handler[t].p} ELSE drifted
  BY DEF HandlerDies
<1>2. Sequential /\ Busy \subseteq {t} /\ Busy' = {}
  BY <1>1, FinishedIsIdle
<1> QED  BY <1>1, <1>2, NothingSettled DEF SequentialInv

-----------------------------------------------------------------------------
LEMMA SequentialProjectStep ==
  ASSUME SequentialInv, IInv', ~ overlapped', ProjectStep
  PROVE  SequentialInv'
<1>1. \A t \in Threads : handler[t].op # "none" => handler[t].p \in Projects
  BY BusyHandlerIsFine DEF SequentialInv
<1>2. ImportStatuses \subseteq Statuses
  BY InputsAssumption DEF SourceStatuses, Statuses
<1>3. CASE \E p \in Projects, n \in TeamSizes :
             \/ \E s \in Statuses : CreateProject(p, s, n)
             \/ \E s \in ImportStatuses : CreateImported(p, s, n)
  BY <1>2, <1>3, CreateStartsSettled
<1>4. CASE \E p \in Projects : PublishSelected(p) \/ ArchiveSelected(p)
  BY <1>4, BulkActionsAreSettled
<1>5. CASE \E t \in Threads, p \in Projects :
             \/ LoadForSubmit(t, p) \/ LoadForModeration(t, p)
             \/ LoadForUpdate(t, p) \/ LoadForEdit(t, p) \/ LoadForImport(t, p)
             \/ LoadForDelete(t, p)
  BY <1>5, ProjectLoadsAreCurrent
<1>6. ASSUME NEW t \in Threads, NEW n \in TeamSizes,
             \/ UpdateProject(t, n) \/ EditProject(t, n)
             \/ \E s \in ImportStatuses : ImportRow(t, s, n)
      PROVE  SequentialInv'
  <2>1. handler[t].p \in Projects
    BY <1>1, <1>6 DEF UpdateProject, EditProject, ImportRow
  <2> QED  BY <1>6, <2>1, UpdateDrifts, EditStaysSettled, ImportDrifts, Zenon
<1>7. ASSUME NEW t \in Threads, SubmitForModeration(t) \/ DeleteProject(t)
      PROVE  SequentialInv'
  <2>1. handler[t].p \in Projects
    BY <1>1, <1>7 DEF SubmitForModeration, DeleteProject
  <2> QED  BY <1>7, <2>1, SubmitStaysSettled, DeletedProjectIsSettled
<1>8. ASSUME NEW t \in Threads, NEW approve \in BOOLEAN, Moderate(t, approve)
      PROVE  SequentialInv'
  <2>1. handler[t].p \in Projects
    BY <1>1, <1>8 DEF Moderate
  <2> QED  BY <1>8, <2>1, ModerationIsRecounted
<1> QED  BY <1>3, <1>4, <1>5, <1>6, <1>7, <1>8 DEF ProjectStep

LEMMA SequentialApplicationStep ==
  ASSUME SequentialInv, IInv', ~ overlapped', ApplicationStep
  PROVE  SequentialInv'
<1>1. \A t \in Threads :
        /\ handler[t].op # "none" => handler[t].p \in Projects
        /\ handler[t].op \in OnApplication => handler[t].a \in Applications
  BY BusyHandlerIsFine DEF SequentialInv, OnApplication
<1>2. ASSUME NEW t \in Threads, NEW p \in Projects,
             LoadForApply(t, p) \/ RewriteApplication(t, p)
      PROVE  SequentialInv'
  <2>1. RewriteApplication(t, p) => handler[t].a \in Applications
    BY <1>1 DEF RewriteApplication, OnApplication
  <2> QED  BY <1>2, <2>1, ProjectLoadsAreCurrent, MovesDrift
<1>3. ASSUME NEW t \in Threads, NEW a \in Applications,
             \/ LoadForReview(t, a) \/ LoadForWithdraw(t, a)
             \/ LoadForRemove(t, a) \/ LoadForRewrite(t, a)
             \/ \E s \in Students : Apply(t, a, s)
      PROVE  SequentialInv'
  <2>1. (\E s \in Students : Apply(t, a, s)) => handler[t].p \in Projects
    BY <1>1 DEF Apply
  <2> QED  BY <1>3, <2>1, ApplicationLoadsAreCurrent, ApplyTakesNoSeat
<1>4. ASSUME NEW t \in Threads, NEW accept \in BOOLEAN, Review(t, accept)
      PROVE  SequentialInv'
  <2>1. handler[t].p \in Projects
    BY <1>1, <1>4 DEF Review
  <2> QED  BY <1>4, <2>1, ReviewIsRecounted
<1>5. ASSUME NEW t \in Threads, DeleteApplication(t) PROVE SequentialInv'
  <2>1. handler[t].a \in Applications
    BY <1>1, <1>5 DEF DeleteApplication, OnApplication
  <2> QED  BY <1>5, <2>1, DeletionsDrift
<1> QED  BY <1>2, <1>3, <1>4, <1>5 DEF ApplicationStep

LEMMA SequentialStaffingStep ==
  ASSUME SequentialInv, IInv', ~ overlapped', StaffingStep
  PROVE  SequentialInv'
<1>1. ASSUME NEW t \in Threads,
             CountAccepted(t) \/ SaveStaffing(t) \/ HandlerDies(t)
      PROVE  SequentialInv'
  <2>1. handler[t].p \in Projects
    BY <1>1, BusyHandlerIsFine
    DEF SequentialInv, CountAccepted, SaveStaffing, HandlerDies
  <2> QED  BY <1>1, <2>1, CountIsDone, StaffingIsSaved, DeathsDrift
<1> QED  BY <1>1 DEF StaffingStep

\* As long as requests come one at a time, copies are rows, and every project is
\* settled but the one whose recount is due and those whose seats drifted.
THEOREM OneAtATime == Spec => []SequentialInv
<1>1. Init => SequentialInv
  <2> SUFFICES ASSUME Init PROVE SequentialInv
    OBVIOUS
  <2>1. /\ NoRow.status = "free" /\ NoApplication.status = "free"
        /\ NoHandler.op = "none"
    BY DEF NoRow, NoApplication, NoHandler
  <2>2. Busy = {} /\ ProjectsComeFirst /\ \A p \in Projects : ~ Exists(p)
    BY <2>1 DEF Init, Busy, ProjectsComeFirst, Live, Exists, Statuses
  <2> QED  BY <2>2, InitIsFine DEF SequentialInv, Sequential, Settled
<1>2. SequentialInv /\ [Next]_vars => SequentialInv'
  <2> SUFFICES ASSUME SequentialInv, [Next]_vars PROVE SequentialInv'
    OBVIOUS
  <2>1. IInv'
    BY StepKeepsRows DEF SequentialInv
  <2>2. CASE overlapped'
    BY <2>1, <2>2 DEF SequentialInv
  <2>3. ASSUME ~ overlapped', Next PROVE SequentialInv'
    BY <2>1, <2>3, SequentialProjectStep, SequentialApplicationStep,
       SequentialStaffingStep DEF Next
  <2>4. CASE UNCHANGED vars
    <3>1. /\ UNCHANGED <<project, app, handler, drifted, overlapped>> /\ Busy' = Busy
      BY <2>4 DEF vars, Busy
    <3>2. \A p : Accepted(app', p) = Accepted(app, p)
      BY <3>1
    <3>3. /\ \A p : Settled(p)' <=> Settled(p)
          /\ \A h : Current(h)' <=> Current(h)
          /\ ProjectsComeFirst' <=> ProjectsComeFirst
      BY <3>1, <3>2 DEF Settled, Current, Exists, ProjectsComeFirst, Live
    <3>4. Sequential => Sequential'
      BY <3>1, <3>3 DEF Sequential, Recounting
    <3> QED  BY <2>1, <3>1, <3>4 DEF SequentialInv
  <2> QED  BY <2>2, <2>3, <2>4
<1> QED  BY <1>1, <1>2, PTL DEF Spec

\* recalculate_project_staffing keeps count and status right when requests come
\* one at a time, for any number of projects, applications and requests.
THEOREM AlwaysSettledBetweenRequests == Spec => []SettledBetweenRequests
<1>1. SequentialInv => SettledBetweenRequests
  BY DEF SequentialInv, Sequential, Settled, SettledBetweenRequests
<1> QED  BY <1>1, OneAtATime, PTL
=============================================================================
