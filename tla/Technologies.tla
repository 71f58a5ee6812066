----------------------------- MODULE Technologies -----------------------------
(***************************************************************************)
(* The directory of technologies (projects/models.py) and the rows that    *)
(* name technologies: projects by their tech_tags, and, in the same way,   *)
(* initiative proposals by theirs and profiles by their interests.         *)
(*                                                                         *)
(* save() writes the row and then links it to the technologies of the tags *)
(* of the copy in hand.  Outside an import no transaction holds the two    *)
(* together: each statement commits on its own, and other requests run in  *)
(* between.  The statements of one M2M set() are taken as one.             *)
(***************************************************************************)
EXTENDS Naturals, FiniteSets

CONSTANTS
  Technology,     \* normalized names
  Projects,       \* rows with tags
  Imported,       \* the projects of the spreadsheets: their source_type is "epp"
  Savers,         \* server threads that save a row
  TagSets,        \* tags that forms carry
  FormStatuses,   \* statuses that transitions give
  MaxSaves,       \* bound on the saves
  MaxDecisions    \* bound on the moderation of technologies

\* ProjectStatus; "free" stands for no row.
Statuses ==
  {"created", "draft", "revision_requested", "supervisor_review", "on_moderation",
   "published", "staffed", "completed", "cancelled", "rejected", "archived"}

ASSUME TagsAssumption ==
  /\ Projects # {} /\ Imported \subseteq Projects
  /\ Technology \intersect Projects = {}  \* rows of two tables
  /\ TagSets \subseteq SUBSET Technology
  /\ FormStatuses \subseteq Statuses
ASSUME SavesAssumption == MaxSaves \in Nat /\ MaxDecisions \in Nat

VARIABLES
  technology, \* status of each name; "free": no row
  project,    \* rows: status, tags, places, and whether source_type is "epp"
  links,      \* projects_project_technologies
  saver,      \* what each thread saves, with the copy it loaded
  deciding,   \* technologies a page request has read as pending
  locked,     \* rows written by an import's transaction that is still open
  saves, decisions,  \* spent of MaxSaves and MaxDecisions
  chosen,     \* history: technologies a moderator approved, the spreadsheet named, or
              \* a form named for a project with the source "epp"
  settled     \* history: projects whose last save ran alone, to its end

directoryVars ==
  <<technology, project, links, saver, deciding, locked, saves, decisions,
    chosen, settled>>

NoRow == [status |-> "free", tags |-> {}, places |-> 0, epp |-> FALSE]
NotSaving == [op |-> "none", p |-> CHOOSE p \in Projects : TRUE, row |-> NoRow,
              left |-> {}, alone |-> FALSE]
Exists(p) == project[p].status # "free"
WorkingOn(p) == {t \in Savers : saver[t].op # "none" /\ saver[t].p = p}

DirectoryInit ==
  /\ technology = [x \in Technology |-> "free"]
  /\ project = [p \in Projects |-> NoRow]
  /\ links = [p \in Projects |-> {}]
  /\ saver = [t \in Savers |-> NotSaving]
  /\ deciding = {} /\ locked = {} /\ chosen = {} /\ settled = {}
  /\ saves = 0 /\ decisions = 0

-----------------------------------------------------------------------------
\* get_or_create_by_name: a new technology gets the status, one that is there
\* is raised to approved, never lowered.
NamedBy(x, status) ==
  CASE technology[x] = "free" -> status
    [] status = "approved" -> "approved"
    [] OTHER -> technology[x]

\* sync_technologies: the names of a project are approved when the copy that is saved
\* has the source "epp".
DefaultStatus(row) == IF row.epp THEN "approved" ELSE "pending"

\* Threads that work on p beside a new one are not alone, nor is the new one.
Joined(p) ==
  [t \in Savers |-> IF t \in WorkingOn(p) THEN [saver[t] EXCEPT !.alone = FALSE]
                    ELSE saver[t]]

Start(t, p, op, row) ==
  /\ saves < MaxSaves
  /\ saver[t].op = "none"
  /\ saves' = saves + 1
  /\ saver' = [Joined(p) EXCEPT ![t] =
                 [op |-> op, p |-> p, row |-> row, left |-> row.tags,
                  alone |-> WorkingOn(p) = {} /\ p \notin locked]]

\* What a form names is chosen when its project has the source "epp".
Named(T, e) == chosen' = IF e THEN chosen \union T ELSE chosen

\* A new project of a customer, whose form may say any source.
Create(t, p, T, e) ==
  /\ p \notin Imported /\ ~Exists(p)
  /\ LET row == [status |-> "draft", tags |-> T, places |-> 1, epp |-> e]
     IN  Start(t, p, "tag", row) /\ project' = [project EXCEPT ![p] = row]
  /\ Named(T, e)
  /\ UNCHANGED <<technology, links, deciding, locked, decisions, settled>>

Load(t, p) ==
  /\ Exists(p)
  /\ Start(t, p, "loaded", project[p])
  /\ UNCHANGED <<technology, project, links, deciding, locked, decisions, chosen,
                 settled>>

\* The row is written; an import's open transaction makes the writer wait.
Write(t, copy, written) ==
  LET p == saver[t].p
  IN  /\ saver[t].op = "loaded"
      /\ p \notin locked
      /\ project' = [project EXCEPT ![p] = written]
      /\ saver' = [saver EXCEPT ![t].op = "tag", ![t].row = copy, ![t].left = copy.tags]
      /\ settled' = settled \ {p}
      /\ UNCHANGED <<technology, links, deciding, locked, saves, decisions>>

\* PUT and PATCH: every field of the copy is written, with the new tags and the new
\* source; a project of a spreadsheet keeps its own.
SaveForm(t, T, e) ==
  LET copy == [saver[t].row EXCEPT !.tags = T, !.epp = e]
  IN  /\ saver[t].p \in Imported => e
      /\ Write(t, copy, copy)
      /\ Named(T, e)

\* The edit page writes the tags and leaves the source, which the copy may have of old.
SavePage(t, T) ==
  LET copy == [saver[t].row EXCEPT !.tags = T]
      written == [project[saver[t].p] EXCEPT !.tags = T]
  IN  /\ copy.status \notin {"published", "staffed", "archived"}
      /\ Write(t, copy, written)
      /\ Named(T, copy.epp \/ written.epp)

\* A transition: save(update_fields=["status", ...]) on the copy.
SaveStatus(t, s) ==
  /\ Write(t, [saver[t].row EXCEPT !.status = s],
           [project[saver[t].p] EXCEPT !.status = s])
  /\ UNCHANGED chosen

\* Mutation of Tag: the source is read from the row, the tags are the copy's.
TagByTheRow(t, x) ==
  LET s == NamedBy(x, DefaultStatus(project[saver[t].p]))
  IN  /\ saver[t].op = "tag"
      /\ x \in saver[t].left
      /\ x \notin locked
      /\ technology' = [technology EXCEPT ![x] = s]
      /\ saver' = [saver EXCEPT ![t].left = @ \ {x}]
      /\ UNCHANGED <<project, links, deciding, locked, saves, decisions, chosen, settled>>

\* Any statement of sync_technologies: the technology of one more tag.
Tag(t, x) ==
  LET s == NamedBy(x, DefaultStatus(saver[t].row))
  IN  /\ saver[t].op = "tag"
      /\ x \in saver[t].left
      /\ x \notin locked
      /\ technology' = [technology EXCEPT ![x] = s]
      /\ saver' = [saver EXCEPT ![t].left = @ \ {x}]
      /\ UNCHANGED <<project, links, deciding, locked, saves, decisions, chosen, settled>>

\* The last statement: technologies.set().
Relate(t) ==
  LET p == saver[t].p
  IN  /\ saver[t].op = "tag" /\ saver[t].left = {}
      /\ links' = [links EXCEPT ![p] = saver[t].row.tags]
      /\ saver' = [saver EXCEPT ![t] = NotSaving]
      /\ settled' = IF saver[t].alone THEN settled \union {p} ELSE settled
      /\ UNCHANGED <<technology, project, deciding, locked, saves, decisions, chosen>>

SaverDies(t) ==
  /\ saver[t].op # "none"
  /\ saver' = [saver EXCEPT ![t] = NotSaving]
  /\ UNCHANGED <<technology, project, links, deciding, locked, saves, decisions,
                 chosen, settled>>

-----------------------------------------------------------------------------
\* technology_moderate: the page reads a pending technology and saves its status.
ReadPending(x) ==
  /\ decisions < MaxDecisions
  /\ technology[x] = "pending" /\ x \notin deciding
  /\ decisions' = decisions + 1
  /\ deciding' = deciding \union {x}
  /\ UNCHANGED <<technology, project, links, saver, locked, saves, chosen, settled>>

\* The status is written, when no open transaction has written it.
Decided(x, s) ==
  /\ x \notin locked
  /\ technology' = [technology EXCEPT ![x] = s]
  /\ chosen' = IF s = "approved" THEN chosen \union {x} ELSE chosen
  /\ UNCHANGED <<project, links, saver, locked, saves, settled>>

Moderate(x, s) ==
  /\ x \in deciding
  /\ deciding' = deciding \ {x}
  /\ Decided(x, s)
  /\ UNCHANGED decisions

\* The admin's bulk actions: one UPDATE.
AdminModerate(x, s) ==
  /\ decisions < MaxDecisions
  /\ technology[x] \notin {"free", s}
  /\ decisions' = decisions + 1
  /\ Decided(x, s)
  /\ UNCHANGED deciding

DirectoryNext ==
  \/ \E t \in Savers, p \in Projects :
       \/ \E T \in TagSets, e \in BOOLEAN : Create(t, p, T, e)
       \/ Load(t, p)
  \/ \E t \in Savers :
       \/ \E T \in TagSets, e \in BOOLEAN : SaveForm(t, T, e)
       \/ \E T \in TagSets : SavePage(t, T)
       \/ \E s \in FormStatuses : SaveStatus(t, s)
       \/ \E x \in Technology : Tag(t, x)
       \/ Relate(t)
       \/ SaverDies(t)
  \/ \E x \in Technology :
       \/ ReadPending(x)
       \/ \E s \in {"approved", "rejected"} : Moderate(x, s) \/ AdminModerate(x, s)

-----------------------------------------------------------------------------
Row == [status : Statuses \union {"free"}, tags : SUBSET Technology, places : Nat,
        epp : BOOLEAN]
Save == [op : {"none", "loaded", "tag"}, p : Projects, row : Row,
         left : SUBSET Technology, alone : BOOLEAN]

DirectoryTypeOK ==
  /\ technology \in [Technology -> {"free", "pending", "approved", "rejected"}]
  /\ project \in [Projects -> Row]
  /\ links \in [Projects -> SUBSET Technology]
  /\ saver \in [Savers -> Save]
  /\ deciding \subseteq Technology
  /\ locked \subseteq Technology \union Projects
  /\ saves \in 0 .. MaxSaves /\ decisions \in 0 .. MaxDecisions
  /\ chosen \subseteq Technology /\ settled \subseteq Projects

\* A technology is approved because a moderator approved it, a row of the spreadsheet
\* names it, or a form named it for a project with the source "epp" (a field that is
\* open to customers): one that the form gives it, or that the row or the page's copy
\* of it has.  However saves, imports and moderators overlap, a form for any other
\* project approves no name, and neither does a transition, which saves a stale copy
\* (Project.sync_technologies, get_or_create_by_name).
ApprovedWereChosen ==
  \A x \in Technology : technology[x] = "approved" => x \in chosen

\* When the last save of a project ran alone from its load to its end, the
\* project is linked to the technologies of its tags and to no other: the
\* technology filter of the catalogue finds what the card shows (Project.save).
LinksFollowTags ==
  \A p \in settled : WorkingOn(p) = {} => links[p] = project[p].tags

\* The directory of technologies holds: no name is approved that nobody chose, and
\* the links of a project follow its tags (ApprovedWereChosen, LinksFollowTags).
DirectoryHolds == ApprovedWereChosen /\ LinksFollowTags
=============================================================================
