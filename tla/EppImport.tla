------------------------------ MODULE EppImport ------------------------------
(***************************************************************************)
(* The import of the EPP spreadsheet (projects/importers.py) and its three *)
(* callers: the bootstrap of an empty database when a container of the web *)
(* service starts, the uploads that are recorded as import runs, and the   *)
(* management command.                                                     *)
(*                                                                         *)
(* A row is imported in a transaction of its own: PostgreSQL, READ         *)
(* COMMITTED.  The EPP, the project and each technology the row creates or *)
(* approves stay locked until the commit, so rows of two imports wait for  *)
(* each other and may deadlock; the database then rolls one of them back.  *)
(***************************************************************************)
EXTENDS Technologies, Integers, Sequences

CONSTANTS
  Containers,     \* command lines of the web service; each runs one import at a time
  Uploads,        \* import runs; each is used once
  Files,          \* what the spreadsheet may be
  AllowMissing, FailOnErrors,  \* DSA_BOOTSTRAP_ALLOW_MISSING_XLSX, ..._FAIL_ON_IMPORT_ERRORS
  Commands,       \* commands run in a container: "start", "force", "import"
  MaxStarts,      \* bound on the commands
  MaxDeaths       \* bound on the imports that die

Importers == Containers \union Uploads

\* A file: "missing", "invalid" (no zip, no rows, other headers: an exception the
\* bootstrap catches), "damaged" (no sheet1, no XML: one it does not), "sheet".
\* A row: "blank" or "incomplete" ones are skipped.  vacancy is its title, its
\* supervisor and its date.  places is a cell: a number is given in halves.
FileKinds == {"missing", "invalid", "damaged", "sheet"}
Ref(file, k) == <<file[k].epp, file[k].vacancy, k>>  \* build_source_ref
Full(file) == {k \in DOMAIN file : file[k].kind = "full"}

EPPs == UNION {{f.rows[k].epp : k \in Full(f.rows)} : f \in Files}
TagsOf(r) == {r.tags[j] : j \in DOMAIN r.tags}

ASSUME ImportedAssumption ==
  Imported = UNION {{Ref(f.rows, k) : k \in Full(f.rows)} : f \in Files}
ASSUME FilesAssumption ==
  \A f \in Files :
    /\ f.kind \in FileKinds
    /\ f.rows \in Seq({f.rows[k] : k \in DOMAIN f.rows})
    /\ \A k \in Full(f.rows) :
         f.rows[k].tags \in Seq(Technology) /\ f.rows[k].places.halves \in Int
ASSUME ImportBoundsAssumption ==
  /\ Containers \intersect Uploads = {}
  /\ MaxStarts \in Nat /\ MaxDeaths \in Nat
  /\ AllowMissing \in BOOLEAN /\ FailOnErrors \in BOOLEAN

VARIABLES
  epp,        \* status_raw of each EPP; "free": no row
  imp,        \* each importer: its place in the file, its open row, its statistics
  state,      \* the bootstrap's state file
  serving,    \* containers whose web server runs
  run,        \* rows of import runs
  announced,  \* runs with an import.completed event
  starts, deaths,  \* spent of MaxStarts and MaxDeaths
  created,    \* history: projects_created of the imports that ended
  lost,       \* history: an import died, and its statistics with it
  claims      \* history: files that an import said it read without an error

importVars == <<epp, imp, state, serving, run, announced, starts, deaths,
                created, lost, claims>>
vars == <<directoryVars, importVars>>

NoStats == [epps |-> 0, created |-> 0, updated |-> 0, skipped |-> 0, errors |-> 0,
            warnings |-> 0]
Idle == [kind |-> "none", rows |-> <<>>, next |-> 1, open |-> FALSE, isNew |-> FALSE,
         left |-> <<>>, held |-> {}, stats |-> NoStats]

Init ==
  /\ DirectoryInit
  /\ epp = [e \in EPPs |-> "free"]
  /\ imp = [i \in Importers |-> Idle]
  /\ state = "" /\ serving = {}
  /\ run = [i \in Uploads |-> "none"] /\ announced = {}
  /\ starts = 0 /\ deaths = 0
  /\ created = 0 /\ lost = FALSE /\ claims = {}

-----------------------------------------------------------------------------
(* Cells *)

SourceStatuses ==
  {"created", "draft", "revision_requested", "supervisor_review", "published",
   "completed", "cancelled"}
Locked == {"on_moderation", "rejected", "staffed"}

\* parse_int: int() cuts towards zero; 0 stands for None, as "or 1" takes both.
ParseInt(cell) ==
  CASE cell.text # "number" -> 0
    [] cell.text = "number" /\ cell.halves >= 0 -> cell.halves \div 2
    [] OTHER -> -((-cell.halves) \div 2)

TeamSize(cell) == IF ParseInt(cell) = 0 THEN 1 ELSE ParseInt(cell)

\* apply_imported_status: the statuses this service decides are kept.
IsLocked(p) == project[p].status \in Locked
ImportedStatus(p, raw) == IF IsLocked(p) THEN project[p].status ELSE raw

-----------------------------------------------------------------------------
(* Rows *)

RowOf(i) == imp[i].rows[imp[i].next]
RefOf(i) == Ref(imp[i].rows, imp[i].next)
Reading(i) == imp[i].kind # "none" /\ imp[i].next <= Len(imp[i].rows)
Between(i) == Reading(i) /\ ~imp[i].open

EppLocked(i) ==
  \E j \in Importers \ {i} : imp[j].open /\ RowOf(j).epp = RowOf(i).epp

\* The importer is at its next row, with these statistics.
Closed(i, stats) ==
  [imp[i] EXCEPT !.next = @ + 1, !.open = FALSE, !.isNew = FALSE, !.left = <<>>,
                 !.held = {}, !.stats = stats]

\* Mutation of NextRow: the transaction stays open.
NextRowLeavesOpen(i, stats) ==
  /\ imp' = [imp EXCEPT ![i] = Closed(i, stats)]
  /\ UNCHANGED locked

\* The row is done with: its locks are released and it is counted.
NextRow(i, stats) ==
  /\ imp' = [imp EXCEPT ![i] = Closed(i, stats)]
  /\ locked' = IF imp[i].open THEN locked \ (imp[i].held \union {RefOf(i)}) ELSE locked

Unchanging == UNCHANGED <<state, serving, run, announced, starts, deaths, created, lost,
                          claims>>

SkipRow(i) ==
  /\ Between(i)
  /\ RowOf(i).kind # "full"
  /\ NextRow(i, [imp[i].stats EXCEPT !.skipped = @ + 1])
  /\ UNCHANGED <<technology, project, links, saver, deciding, saves, decisions,
                 chosen, settled, epp>>
  /\ Unchanging

\* Mutation of RollBack: no transaction, the EPP was saved.
RollBackKeepsEpp(i) ==
  /\ NextRow(i, [imp[i].stats EXCEPT !.errors = @ + 1])
  /\ epp' = [epp EXCEPT ![RowOf(i).epp] = RowOf(i).status]
  /\ UNCHANGED <<technology, project, links, saver, deciding, saves, decisions,
                 chosen, settled>>
  /\ Unchanging

\* Mutation of RollBack: an error is counted as a row that was skipped.
RollBackSkips(i) ==
  /\ NextRow(i, [imp[i].stats EXCEPT !.skipped = @ + 1])
  /\ UNCHANGED <<technology, project, links, saver, deciding, saves, decisions,
                 chosen, settled, epp>>
  /\ Unchanging

\* The transaction is rolled back; the import counts an error and goes on.
RollBack(i) ==
  /\ NextRow(i, [imp[i].stats EXCEPT !.errors = @ + 1])
  /\ UNCHANGED <<technology, project, links, saver, deciding, saves, decisions,
                 chosen, settled, epp>>
  /\ Unchanging

\* What raises before the tags: a negative number of places, which the column
\* refuses, and, for a project that is there, a status that is not known.
RowIsRefused(i) ==
  /\ Between(i) /\ RowOf(i).kind = "full" /\ ~EppLocked(i)
  /\ \/ TeamSize(RowOf(i).places) < 0
     \/ Exists(RefOf(i)) /\ RowOf(i).status \notin SourceStatuses
  /\ RollBack(i)

\* Mutation of BeginRow: rows of the same EPP do not wait for each other.
BeginRowUnlocked(i) ==
  /\ Between(i) /\ RowOf(i).kind = "full"
  /\ TeamSize(RowOf(i).places) >= 0
  /\ Exists(RefOf(i)) => RowOf(i).status \in SourceStatuses
  /\ imp' = [imp EXCEPT ![i].open = TRUE, ![i].isNew = ~Exists(RefOf(i)),
                        ![i].left = RowOf(i).tags]
  /\ locked' = locked \union {RefOf(i)}
  /\ saver' = Joined(RefOf(i))
  /\ UNCHANGED <<technology, project, links, deciding, saves, decisions, chosen,
                 settled, epp>>
  /\ Unchanging

\* EPP.update_or_create locks the EPP; the project is inserted, or loaded and
\* written (its load and its UPDATE are taken as one).
BeginRow(i) ==
  /\ Between(i) /\ RowOf(i).kind = "full" /\ ~EppLocked(i)
  /\ TeamSize(RowOf(i).places) >= 0
  /\ Exists(RefOf(i)) => RowOf(i).status \in SourceStatuses
  /\ imp' = [imp EXCEPT ![i].open = TRUE, ![i].isNew = ~Exists(RefOf(i)),
                        ![i].left = RowOf(i).tags]
  /\ locked' = locked \union {RefOf(i)}
  /\ saver' = Joined(RefOf(i))
  /\ UNCHANGED <<technology, project, links, deciding, saves, decisions, chosen,
                 settled, epp>>
  /\ Unchanging

\* sync_technologies, a tag at a time in the row's order: a technology that is
\* approved is only read, another one is written and stays locked.
TagRow(i) ==
  LET x == Head(imp[i].left)
      written == technology[x] # "approved" /\ x \notin imp[i].held
  IN  /\ imp[i].open /\ imp[i].left # <<>>
      /\ written => x \notin locked
      /\ imp' = [imp EXCEPT ![i].left = Tail(@),
                            ![i].held = IF written THEN @ \union {x} ELSE @]
      /\ locked' = IF written THEN locked \union {x} ELSE locked
      /\ UNCHANGED <<technology, project, links, saver, deciding, saves, decisions,
                     chosen, settled, epp>>
      /\ Unchanging

\* i waits for a row that j's transaction has written.
Waits(i, j) ==
  /\ i # j /\ imp[j].open
  /\ \/ imp[i].open /\ imp[i].left # <<>> /\ Head(imp[i].left) \in imp[j].held
     \/ Between(i) /\ RowOf(i).kind = "full" /\ RowOf(j).epp = RowOf(i).epp

\* The database finds the imports that wait for each other and aborts one.
Deadlock(i) ==
  /\ imp[i].open
  /\ \E D \in SUBSET Importers :
       i \in D /\ \A j \in D : \E k \in D : Waits(j, k)
  /\ RollBack(i)

\* A new project whose status is not known: it was inserted before it is refused.
StatusIsRefused(i) ==
  /\ imp[i].open /\ imp[i].left = <<>>
  /\ RowOf(i).status \notin SourceStatuses
  /\ RollBack(i)

CommitRow(i) ==
  LET r == RowOf(i)
      p == RefOf(i)
  IN  /\ imp[i].open /\ imp[i].left = <<>>
      /\ r.status \in SourceStatuses
      /\ epp' = [epp EXCEPT ![r.epp] = r.status]
      /\ project' = [project EXCEPT ![p] =
                       [status |-> ImportedStatus(p, r.status), tags |-> TagsOf(r),
                        places |-> TeamSize(r.places), epp |-> TRUE]]
      /\ technology' = [x \in Technology |->
                          IF x \in imp[i].held THEN "approved" ELSE technology[x]]
      /\ links' = [links EXCEPT ![p] = TagsOf(r)]
      /\ chosen' = chosen \union TagsOf(r)
      /\ settled' = IF WorkingOn(p) = {} THEN settled \union {p} ELSE settled \ {p}
      /\ NextRow(i, [imp[i].stats EXCEPT
                       !.epps = IF epp[r.epp] = "free" THEN @ + 1 ELSE @,
                       !.created = IF imp[i].isNew THEN @ + 1 ELSE @,
                       !.updated = IF imp[i].isNew THEN @ ELSE @ + 1,
                       !.warnings = IF IsLocked(p) THEN @ + 1 ELSE @])
      /\ UNCHANGED <<saver, deciding, saves, decisions>>
      /\ Unchanging

ImportRow(i) ==
  \/ SkipRow(i) \/ RowIsRefused(i) \/ BeginRow(i) \/ TagRow(i) \/ Deadlock(i)
  \/ StatusIsRefused(i) \/ CommitRow(i)

-----------------------------------------------------------------------------
(* Callers *)

\* A file is read as a whole before its first row is imported.
Opened(i, kind, f) == imp' = [imp EXCEPT ![i] = [Idle EXCEPT !.kind = kind, !.rows = f.rows]]
Ended(i) == Reading(i) = FALSE /\ imp[i].kind # "none"

\* The import is over; what it counted is reported.
Report(i) ==
  /\ imp' = [imp EXCEPT ![i] = Idle]
  /\ created' = created + imp[i].stats.created
  /\ claims' = IF imp[i].stats.errors = 0 THEN claims \union {imp[i].rows} ELSE claims
  /\ UNCHANGED <<epp, starts, deaths, lost>>

EmptyDatabase == (\A p \in Projects : ~Exists(p)) /\ \A e \in EPPs : epp[e] = "free"
Failed == state \in {"failed", "corrupt"}  \* a file that cannot be read is a failure

Command(i, kind) ==
  /\ imp[i].kind = "none" /\ starts < MaxStarts
  /\ kind \in Commands
  /\ kind = "start" => i \notin serving
  /\ starts' = starts + 1
  /\ UNCHANGED <<directoryVars, epp, run, announced, deaths, created, lost, claims>>

\* The last attempt failed: the container does not come up without --force.
BootstrapIsRefused(i) ==
  /\ Command(i, "start")
  /\ Failed
  /\ UNCHANGED <<imp, state, serving>>

\* The database has data: the web server is started at once.
BootstrapIsSkipped(i) ==
  /\ Command(i, "start")
  /\ ~Failed /\ ~EmptyDatabase
  /\ serving' = serving \union {i}
  /\ UNCHANGED <<imp, state>>

\* The web server is started in a container's start, not after a forced bootstrap.
Up(i, kind) == IF kind = "start" THEN serving \union {i} ELSE serving

\* The file is read: nothing to read ends the bootstrap, a damaged one ends it
\* with an exception, and the state stays in_progress.
BootstrapReads(i, kind, f) ==
  /\ kind \in {"start", "force"} /\ Command(i, kind)
  /\ kind = "start" => ~Failed /\ EmptyDatabase
  /\ CASE f.kind \in {"missing", "invalid"} ->
            /\ state' = IF AllowMissing THEN "skipped" ELSE "failed"
            /\ serving' = IF AllowMissing THEN Up(i, kind) ELSE serving
            /\ UNCHANGED imp
       [] f.kind = "damaged" -> state' = "in_progress" /\ UNCHANGED <<serving, imp>>
       [] f.kind = "sheet" ->
            state' = "in_progress" /\ Opened(i, kind, f) /\ UNCHANGED serving

BootstrapEnds(i) ==
  LET errors == imp[i].stats.errors > 0
      failed == errors /\ FailOnErrors
  IN  /\ imp[i].kind \in {"start", "force"} /\ Ended(i)
      /\ Report(i)
      /\ state' = IF failed THEN "failed"
                  ELSE IF errors THEN "succeeded_with_errors" ELSE "succeeded"
      /\ serving' = IF failed THEN serving ELSE Up(i, imp[i].kind)
      /\ UNCHANGED <<directoryVars, run, announced>>

\* import_epp_xlsx: the same import with no state and no condition.
CommandReads(i, f) ==
  /\ Command(i, "import")
  /\ f.kind = "sheet"
  /\ Opened(i, "import", f)
  /\ UNCHANGED <<state, serving>>

CommandEnds(i) ==
  /\ imp[i].kind = "import" /\ Ended(i)
  /\ Report(i)
  /\ UNCHANGED <<directoryVars, state, serving, run, announced>>

\* run_epp_xlsx_import: a file that cannot be read fails the run.
Upload(i, f) ==
  /\ run[i] = "none" /\ serving # {}
  /\ IF f.kind = "sheet"
     THEN run' = [run EXCEPT ![i] = "running"] /\ Opened(i, "upload", f)
     ELSE run' = [run EXCEPT ![i] = "failed"] /\ UNCHANGED imp
  /\ UNCHANGED <<directoryVars, epp, state, serving, announced, starts, deaths,
                 created, lost, claims>>

\* The run is saved as completed; then its event is emitted.
UploadEnds(i) ==
  /\ run[i] = "running" /\ Ended(i)
  /\ Report(i)
  /\ run' = [run EXCEPT ![i] = "completed"]
  /\ UNCHANGED <<directoryVars, state, serving, announced>>

\* emit_event may raise as well; the run is then saved as failed.
Announce(i) ==
  /\ run[i] = "completed" /\ i \notin announced
  /\ \/ announced' = announced \union {i} /\ UNCHANGED run
     \/ run' = [run EXCEPT ![i] = "failed"] /\ UNCHANGED announced
  /\ UNCHANGED <<directoryVars, epp, imp, state, serving, starts, deaths, created,
                 lost, claims>>

\* The process dies: the open row is rolled back, an import run stays as it is, a
\* container goes down, and a state that was being written is left unreadable.
ImportDies(i) ==
  /\ deaths < MaxDeaths /\ imp[i].kind # "none"
  /\ deaths' = deaths + 1
  /\ lost' = TRUE
  /\ locked' = IF imp[i].open THEN locked \ (imp[i].held \union {RefOf(i)}) ELSE locked
  /\ imp' = [imp EXCEPT ![i] = Idle]
  /\ serving' = serving \ {i}
  /\ state' \in IF imp[i].kind \in {"start", "force"} /\ Ended(i)
                THEN {state, "corrupt"} ELSE {state}
  /\ UNCHANGED <<technology, project, links, saver, deciding, saves, decisions,
                 chosen, settled, epp, run, announced, starts, created, claims>>

Next ==
  \/ DirectoryNext /\ UNCHANGED importVars
  \/ \E i \in Importers : ImportRow(i) \/ ImportDies(i)
  \/ \E i \in Containers :
       \/ BootstrapIsRefused(i) \/ BootstrapIsSkipped(i)
       \/ \E f \in Files :
            (\E kind \in Commands : BootstrapReads(i, kind, f)) \/ CommandReads(i, f)
       \/ BootstrapEnds(i) \/ CommandEnds(i)
  \/ \E i \in Uploads :
       (\E f \in Files : Upload(i, f)) \/ UploadEnds(i) \/ Announce(i)

Spec == Init /\ [][Next]_vars

-----------------------------------------------------------------------------
(* Properties *)

Stats == [epps : Nat, created : Nat, updated : Nat, skipped : Nat, errors : Nat,
          warnings : Nat]

\* The importers are where the code can be; what they hold is what is locked.
TypeOK ==
  /\ DirectoryTypeOK
  /\ epp \in [EPPs -> {"free"} \union SourceStatuses]
  /\ \A i \in Importers :
       /\ imp[i].kind \in {"none", "start", "force", "import", "upload"}
       /\ imp[i].next \in 1 .. Len(imp[i].rows) + 1
       /\ imp[i].stats \in Stats
  /\ locked = UNION {imp[i].held \union {RefOf(i)} : i \in {j \in Importers : imp[j].open}}
  /\ state \in {"", "in_progress", "skipped", "failed", "corrupt", "succeeded",
                "succeeded_with_errors"}
  /\ serving \subseteq Containers
  /\ run \in [Uploads -> {"none", "running", "completed", "failed"}]
  /\ announced \subseteq Uploads
  /\ starts \in 0 .. MaxStarts /\ deaths \in 0 .. MaxDeaths

\* A row is imported as a whole or not at all, wherever it fails, deadlocks or
\* dies: no EPP without a project, no project without its EPP, and no project
\* linked to a technology that is still pending (upsert_from_payload is atomic).
RowsAreWhole ==
  /\ \A p \in Imported :
       Exists(p) => epp[p[1]] # "free" /\ \A x \in links[p] : technology[x] # "pending"
  /\ \A e \in EPPs : epp[e] # "free" => \E p \in Imported : p[1] = e /\ Exists(p)

Live == {i \in Importers : imp[i].kind # "none"}

\* The statistics add up: an import has counted every row it went past once, and,
\* while none died, the imports together have counted every project of the
\* spreadsheet as created exactly once, however their rows interleave
\* (import_epp_xlsx, ImportStats).
StatsAddUp ==
  /\ \A i \in Live :
       LET s == imp[i].stats
       IN  s.created + s.updated + s.skipped + s.errors = imp[i].next - 1
  /\ ~lost =>
       created + Cardinality(UNION {{i} \X (1 .. imp[i].stats.created) : i \in Live})
         = Cardinality({p \in Imported : Exists(p)})

\* An import that reported no error left a project for every complete row of the
\* file it read, and the EPP of it: the bootstrap that says succeeded, the
\* completed run whose errors are 0 (bootstrap_epp_if_empty, run_epp_xlsx_import).
CleanImportsAreComplete ==
  \A rows \in claims : \A k \in Full(rows) :
    Exists(Ref(rows, k)) /\ epp[rows[k].epp] # "free"
=============================================================================
