-------------------------- MODULE EppImportProofs --------------------------
(***************************************************************************)
(* What is proved of the directory of technologies and of the import of    *)
(* the spreadsheet, for any files, importers, threads and tags: first the  *)
(* saves and the moderators beside the imports, then the rows, then what   *)
(* imports report.                                                         *)
(***************************************************************************)
EXTENDS EppImport, SetLemmas

-----------------------------------------------------------------------------
(***************************************************************************)
(* The inductive invariant of the directory.                               *)
(***************************************************************************)
\* The names that are decided: a name that is approved or rejected stays so.
Known == {x \in Technology : technology[x] \in {"approved", "rejected"}}

\* A thread has the copy of a row that is there.
SaversHoldRows ==
  \A t \in Savers :
    saver[t].op # "none" => Exists(saver[t].p) /\ saver[t].row.status # "free"

\* A project of the spreadsheet is linked to decided names only, and a thread that
\* saves one has decided those it is done with.
LinkedNamesAreKnown ==
  /\ \A p \in Imported : links[p] \subseteq Known
  /\ \A t \in Savers :
       saver[t].op = "tag" /\ saver[t].p \in Imported
         => saver[t].row.tags \ saver[t].left \subseteq Known

\* A settled project follows its tags, and nobody is about to relate it.
SettledFollow ==
  \A p \in settled :
    /\ Exists(p) /\ links[p] = project[p].tags
    /\ \A t \in Savers : ~(saver[t].op = "tag" /\ saver[t].p = p)

\* A thread that is alone has the only copy, with the tags of the row, and no
\* import holds the row.
AloneIsAlone ==
  \A t \in Savers :
    saver[t].op # "none" /\ saver[t].alone
      => /\ saver[t].p \notin locked
         /\ \A u \in Savers : saver[u].op # "none" /\ saver[u].p = saver[t].p => u = t
         /\ saver[t].row.tags = project[saver[t].p].tags

\* A row, or a copy of one, with the source "epp" has chosen tags only, whoever wrote
\* its source; those of the spreadsheets have that source; and what a thread still
\* has to name are tags of its copy.
SourcesAreChosen ==
  /\ \A p \in Projects :
       /\ project[p].epp => project[p].tags \subseteq chosen
       /\ p \in Imported /\ Exists(p) => project[p].epp
  /\ \A t \in Savers :
       saver[t].op # "none"
         => /\ saver[t].row.epp => saver[t].row.tags \subseteq chosen
            /\ saver[t].p \in Imported => saver[t].row.epp
            /\ saver[t].left \subseteq saver[t].row.tags

DirectoryInv ==
  /\ DirectoryTypeOK /\ SaversHoldRows /\ LinkedNamesAreKnown
  /\ SettledFollow /\ AloneIsAlone /\ ApprovedWereChosen /\ SourcesAreChosen

\* What an action of the directory leaves to the imports: names stay decided, the
\* open transactions are theirs, and so are the projects of the spreadsheet.
DirectoryKept ==
  /\ DirectoryInv' /\ Known \subseteq Known' /\ locked' = locked
  /\ \A p \in Imported : Exists(p)' <=> Exists(p)

LEMMA DirectoryInitHolds == DirectoryInit => DirectoryInv
<1> SUFFICES ASSUME DirectoryInit PROVE DirectoryInv
  OBVIOUS
<1> USE TagsAssumption, SavesAssumption DEF DirectoryInit
<1>1. NoRow \in Row
  BY DEF NoRow, Row
<1>2. NotSaving \in Save
  <2>1. (CHOOSE p \in Projects : TRUE) \in Projects
    OBVIOUS
  <2> QED  BY <1>1, <2>1 DEF NotSaving, Save
<1>3. \A t \in Savers : saver[t].op = "none"
  BY DEF NotSaving
<1>4. DirectoryTypeOK
  BY <1>1, <1>2 DEF DirectoryTypeOK
<1>5. SaversHoldRows /\ LinkedNamesAreKnown /\ SettledFollow /\ AloneIsAlone
  BY <1>3 DEF SaversHoldRows, LinkedNamesAreKnown, SettledFollow, AloneIsAlone
<1>6. ApprovedWereChosen
  BY DEF ApprovedWereChosen
<1>7. SourcesAreChosen
  BY <1>3 DEF SourcesAreChosen, Exists, NoRow
<1> QED  BY <1>4, <1>5, <1>6, <1>7 DEF DirectoryInv

\* Joined changes who counts as alone and nothing else.
LEMMA JoinedKeepsSaves ==
  ASSUME saver \in [Savers -> Save], NEW p
  PROVE  /\ Joined(p) \in [Savers -> Save]
         /\ \A t \in Savers :
              /\ Joined(p)[t].op = saver[t].op /\ Joined(p)[t].p = saver[t].p
              /\ Joined(p)[t].row = saver[t].row /\ Joined(p)[t].left = saver[t].left
              /\ Joined(p)[t].alone
                   => saver[t].alone /\ ~(saver[t].op # "none" /\ saver[t].p = p)
<1> SUFFICES ASSUME NEW t \in Savers
    PROVE  /\ Joined(p)[t] \in Save
           /\ Joined(p)[t].op = saver[t].op /\ Joined(p)[t].p = saver[t].p
           /\ Joined(p)[t].row = saver[t].row /\ Joined(p)[t].left = saver[t].left
           /\ Joined(p)[t].alone
                => saver[t].alone /\ ~(saver[t].op # "none" /\ saver[t].p = p)
  BY DEF Joined
<1>1. saver[t] \in Save
  OBVIOUS
<1>2. CASE t \in WorkingOn(p)
  <2>1. Joined(p)[t] = [saver[t] EXCEPT !.alone = FALSE]
    BY <1>2 DEF Joined
  <2> HIDE DEF Row, Statuses
  <2> QED  BY <1>1, <2>1 DEF Save
<1>3. CASE t \notin WorkingOn(p)
  <2>1. Joined(p)[t] = saver[t]
    BY <1>3 DEF Joined
  <2> QED  BY <1>1, <1>3, <2>1 DEF WorkingOn
<1> QED  BY <1>2, <1>3

\* A save begins: with a new row, or with the row that is there.
LEMMA StartIsGood ==
  ASSUME DirectoryInv, NEW t \in Savers, NEW p \in Projects,
         NEW op \in {"loaded", "tag"}, NEW row \in Row, row.status # "free",
         Start(t, p, op, row), project' = [project EXCEPT ![p] = row],
         op = "tag" => p \notin Imported /\ ~Exists(p),
         op = "loaded" => Exists(p) /\ row = project[p],
         chosen \subseteq chosen', chosen' \subseteq Technology,
         row.epp => row.tags \subseteq chosen',
         UNCHANGED <<technology, links, deciding, locked, decisions, settled>>
  PROVE  DirectoryKept
<1> DEFINE s == [op |-> op, p |-> p, row |-> row, left |-> row.tags,
                 alone |-> WorkingOn(p) = {} /\ p \notin locked]
<1>1. saver \in [Savers -> Save] /\ project \in [Projects -> Row]
  BY DEF DirectoryInv, DirectoryTypeOK
<1>2. /\ saves' \in 0 .. MaxSaves
      /\ saver[t].op = "none"
      /\ saver' = [Joined(p) EXCEPT ![t] = s]
  <2>1. saves \in 0 .. MaxSaves /\ saves < MaxSaves /\ saves' = saves + 1
    BY DEF DirectoryInv, DirectoryTypeOK, Start
  <2> QED  BY <2>1, SavesAssumption DEF Start
<1>3. s \in Save
  BY DEF Save, Row
<1>4. saver' \in [Savers -> Save] /\ saver'[t] = s
  BY <1>1, <1>2, <1>3, JoinedKeepsSaves
<1>5. \A u \in Savers \ {t} :
        /\ saver'[u].op = saver[u].op /\ saver'[u].p = saver[u].p
        /\ saver'[u].row = saver[u].row /\ saver'[u].left = saver[u].left
        /\ saver'[u].alone => saver[u].alone /\ ~(saver[u].op # "none" /\ saver[u].p = p)
  <2> SUFFICES ASSUME NEW u \in Savers \ {t}
      PROVE  /\ saver'[u].op = saver[u].op /\ saver'[u].p = saver[u].p
             /\ saver'[u].row = saver[u].row /\ saver'[u].left = saver[u].left
             /\ saver'[u].alone
                  => saver[u].alone /\ ~(saver[u].op # "none" /\ saver[u].p = p)
    OBVIOUS
  <2>1. saver'[u] = Joined(p)[u]
    <3>1. Joined(p) \in [Savers -> Save]
      BY <1>1, JoinedKeepsSaves
    <3> HIDE DEF s
    <3> QED  BY <1>2, <3>1
  <2> QED  BY <1>1, <2>1, JoinedKeepsSaves
<1>6. /\ project' \in [Projects -> Row] /\ project'[p] = row
      /\ \A q \in Projects \ {p} : project'[q] = project[q]
  BY <1>1
<1>7. /\ s.op = op /\ s.p = p /\ s.row = row /\ s.left = row.tags
      /\ s.alone <=> WorkingOn(p) = {} /\ p \notin locked
  OBVIOUS
<1> HIDE DEF s
<1>8. DirectoryTypeOK'
  BY <1>2, <1>4, <1>6 DEF DirectoryInv, DirectoryTypeOK
<1>9. \A q \in Projects : Exists(q) => Exists(q)'
  BY <1>6 DEF Exists
<1>10. SaversHoldRows'
  <2> SUFFICES ASSUME NEW u \in Savers, saver'[u].op # "none"
      PROVE  project'[saver'[u].p].status # "free" /\ saver'[u].row.status # "free"
    BY DEF SaversHoldRows, Exists
  <2>1. CASE u = t
    BY <1>4, <1>6, <1>7, <2>1 DEF Exists
  <2>2. CASE u # t
    <3>1. saver[u].p \in Projects
      BY <1>1 DEF Save
    <3>2. saver[u].op # "none" /\ saver'[u].p = saver[u].p /\ saver'[u].row = saver[u].row
      BY <1>5, <2>2
    <3>3. Exists(saver[u].p) /\ saver[u].row.status # "free"
      BY <3>2 DEF DirectoryInv, SaversHoldRows
    <3> QED  BY <1>9, <3>1, <3>2, <3>3 DEF Exists
  <2> QED  BY <2>1, <2>2
<1>11. Known' = Known
  BY DEF Known
<1>12. LinkedNamesAreKnown'
  <2>1. ASSUME NEW u \in Savers, saver'[u].op = "tag", saver'[u].p \in Imported
        PROVE  saver'[u].row.tags \ saver'[u].left \subseteq Known
    <3>1. CASE u = t
      BY <1>4, <1>7, <2>1, <3>1
    <3>2. CASE u # t
      BY <1>5, <2>1, <3>2 DEF DirectoryInv, LinkedNamesAreKnown
    <3> QED  BY <3>1, <3>2
  <2> QED  BY <1>11, <2>1 DEF DirectoryInv, LinkedNamesAreKnown
<1>13. SettledFollow'
  <2> SUFFICES ASSUME NEW q \in settled
      PROVE  /\ Exists(q)' /\ links[q] = project'[q].tags
             /\ \A u \in Savers : ~(saver'[u].op = "tag" /\ saver'[u].p = q)
    BY DEF SettledFollow, Exists
  <2>1. q \in Projects /\ Exists(q) /\ links[q] = project[q].tags
        /\ \A u \in Savers : ~(saver[u].op = "tag" /\ saver[u].p = q)
    BY DEF DirectoryInv, DirectoryTypeOK, SettledFollow
  <2>2. q = p => op = "loaded" /\ row = project[p]
    BY <2>1
  <2>3. project'[q] = project[q]
    BY <1>6, <2>1, <2>2
  <2>4. \A u \in Savers : ~(saver'[u].op = "tag" /\ saver'[u].p = q)
    BY <1>4, <1>5, <1>7, <2>1, <2>2
  <2> QED  BY <1>9, <2>1, <2>3, <2>4
<1>14. AloneIsAlone'
  <2> SUFFICES ASSUME NEW u \in Savers, saver'[u].op # "none", saver'[u].alone
      PROVE  /\ saver'[u].p \notin locked
             /\ \A v \in Savers :
                  saver'[v].op # "none" /\ saver'[v].p = saver'[u].p => v = u
             /\ saver'[u].row.tags = project'[saver'[u].p].tags
    BY DEF AloneIsAlone
  <2>1. CASE u = t
    <3>1. WorkingOn(p) = {} /\ p \notin locked
      BY <1>4, <1>7, <2>1
    <3>2. \A v \in Savers \ {t} : ~(saver'[v].op # "none" /\ saver'[v].p = p)
      BY <1>5, <3>1 DEF WorkingOn
    <3> QED  BY <1>4, <1>6, <1>7, <2>1, <3>1, <3>2
  <2>2. CASE u # t
    <3>1. /\ saver[u].op # "none" /\ saver[u].alone
          /\ saver'[u].p = saver[u].p /\ saver[u].p # p
          /\ saver'[u].row = saver[u].row
      BY <1>5, <2>2
    <3>2. /\ saver[u].p \notin locked
          /\ \A v \in Savers : saver[v].op # "none" /\ saver[v].p = saver[u].p => v = u
          /\ saver[u].row.tags = project[saver[u].p].tags
      BY <3>1 DEF DirectoryInv, AloneIsAlone
    <3>3. \A v \in Savers : saver'[v].op # "none" /\ saver'[v].p = saver'[u].p => v = u
      BY <1>4, <1>5, <1>7, <3>1, <3>2
    <3>4. saver[u].p \in Projects
      BY <1>1 DEF Save
    <3> QED  BY <1>6, <3>1, <3>2, <3>3, <3>4
  <2> QED  BY <2>1, <2>2
<1>15. ApprovedWereChosen'
  BY DEF DirectoryInv, ApprovedWereChosen
<1>16. \A q \in Imported : Exists(q)' <=> Exists(q)
  BY <1>6, TagsAssumption DEF Exists
<1>17. SourcesAreChosen'
  <2>1. p \in Imported => Exists(p) /\ row.epp
    BY DEF DirectoryInv, SourcesAreChosen
  <2>2. ASSUME NEW q \in Projects
        PROVE  /\ project'[q].epp => project'[q].tags \subseteq chosen'
               /\ q \in Imported /\ Exists(q)' => project'[q].epp
    <3>1. CASE q = p
      BY <1>6, <2>1, <3>1
    <3>2. CASE q # p
      <4>1. project'[q] = project[q]
        BY <1>6, <3>2
      <4> QED  BY <4>1 DEF DirectoryInv, SourcesAreChosen, Exists
    <3> QED  BY <3>1, <3>2
  <2>3. ASSUME NEW u \in Savers, saver'[u].op # "none"
        PROVE  /\ saver'[u].row.epp => saver'[u].row.tags \subseteq chosen'
               /\ saver'[u].p \in Imported => saver'[u].row.epp
               /\ saver'[u].left \subseteq saver'[u].row.tags
    <3>1. CASE u = t
      BY <1>4, <1>7, <2>1, <3>1
    <3>2. CASE u # t
      <4>1. /\ saver'[u].op = saver[u].op /\ saver'[u].p = saver[u].p
            /\ saver'[u].row = saver[u].row /\ saver'[u].left = saver[u].left
        BY <1>5, <3>2
      <4> QED  BY <2>3, <4>1 DEF DirectoryInv, SourcesAreChosen
    <3> QED  BY <3>1, <3>2
  <2> QED  BY <2>2, <2>3 DEF SourcesAreChosen
<1> QED
  BY <1>8, <1>10, <1>11, <1>12, <1>13, <1>14, <1>15, <1>16, <1>17
  DEF DirectoryKept, DirectoryInv

\* A row is written from a copy.
LEMMA WriteIsGood ==
  ASSUME DirectoryInv, NEW t \in Savers, NEW copy \in Row, NEW written \in Row,
         copy.status # "free", written.status # "free",
         saver[t].alone => written.tags = copy.tags,
         chosen \subseteq chosen', chosen' \subseteq Technology,
         copy.epp => copy.tags \subseteq chosen',
         written.epp => written.tags \subseteq chosen',
         saver[t].p \in Imported => copy.epp /\ written.epp,
         Write(t, copy, written)
  PROVE  DirectoryKept
<1> DEFINE p == saver[t].p
           s == [saver[t] EXCEPT !.op = "tag", !.row = copy, !.left = copy.tags]
<1>1. saver \in [Savers -> Save] /\ project \in [Projects -> Row]
  BY DEF DirectoryInv, DirectoryTypeOK
<1>2. /\ saver[t].op = "loaded" /\ p \in Projects
      /\ project' = [project EXCEPT ![p] = written]
      /\ saver' = [saver EXCEPT ![t] = s]
      /\ settled' = settled \ {p}
      /\ UNCHANGED <<technology, links, deciding, locked, saves, decisions>>
  BY <1>1 DEF Write, Save
<1>3. s \in Save
  <2>1. copy.tags \in SUBSET Technology
    BY DEF Row
  <2> QED  BY <1>1, <2>1 DEF Save
<1>4. /\ s.op = "tag" /\ s.p = p /\ s.row = copy /\ s.left = copy.tags
      /\ s.alone = saver[t].alone
  BY <1>1 DEF Save
<1> HIDE DEF s
<1>5. /\ saver' \in [Savers -> Save] /\ saver'[t] = s
      /\ \A u \in Savers \ {t} : saver'[u] = saver[u]
  BY <1>1, <1>2, <1>3
<1>6. /\ project' \in [Projects -> Row] /\ project'[p] = written
      /\ \A q \in Projects \ {p} : project'[q] = project[q]
  BY <1>1, <1>2
<1>7. \A u \in Savers : saver[u].p \in Projects
  BY <1>1 DEF Save
<1> HIDE DEF p
<1>8. DirectoryTypeOK'
  BY <1>2, <1>5, <1>6 DEF DirectoryInv, DirectoryTypeOK
<1>9. SaversHoldRows'
  <2> SUFFICES ASSUME NEW u \in Savers, saver'[u].op # "none"
      PROVE  project'[saver'[u].p].status # "free" /\ saver'[u].row.status # "free"
    BY DEF SaversHoldRows, Exists
  <2>1. CASE u = t
    BY <1>4, <1>5, <1>6, <2>1
  <2>2. CASE u # t
    <3>1. project[saver[u].p].status # "free" /\ saver[u].row.status # "free"
      BY <1>5, <2>2 DEF DirectoryInv, SaversHoldRows, Exists
    <3> QED  BY <1>5, <1>6, <1>7, <2>2, <3>1
  <2> QED  BY <2>1, <2>2
<1>10. Known' = Known
  BY <1>2 DEF Known
<1>11. LinkedNamesAreKnown'
  <2>1. ASSUME NEW u \in Savers, saver'[u].op = "tag", saver'[u].p \in Imported
        PROVE  saver'[u].row.tags \ saver'[u].left \subseteq Known
    BY <1>4, <1>5, <2>1 DEF DirectoryInv, LinkedNamesAreKnown
  <2> QED  BY <1>2, <1>10, <2>1 DEF DirectoryInv, LinkedNamesAreKnown
<1>12. SettledFollow'
  <2> SUFFICES ASSUME NEW q \in settled \ {p}
      PROVE  /\ project'[q].status # "free" /\ links[q] = project'[q].tags
             /\ \A u \in Savers : ~(saver'[u].op = "tag" /\ saver'[u].p = q)
    BY <1>2 DEF SettledFollow, Exists
  <2>1. q \in Projects /\ project'[q] = project[q]
    BY <1>6 DEF DirectoryInv, DirectoryTypeOK
  <2>2. \A u \in Savers : ~(saver'[u].op = "tag" /\ saver'[u].p = q)
    BY <1>4, <1>5 DEF DirectoryInv, SettledFollow
  <2> QED  BY <2>1, <2>2 DEF DirectoryInv, SettledFollow, Exists
<1>13. AloneIsAlone'
  <2> SUFFICES ASSUME NEW u \in Savers, saver'[u].op # "none", saver'[u].alone
      PROVE  /\ saver'[u].p \notin locked
             /\ \A v \in Savers :
                  saver'[v].op # "none" /\ saver'[v].p = saver'[u].p => v = u
             /\ saver'[u].row.tags = project'[saver'[u].p].tags
    BY <1>2 DEF AloneIsAlone
  <2>1. saver[u].op # "none" /\ saver[u].alone /\ saver'[u].p = saver[u].p
    BY <1>2, <1>4, <1>5 DEF p
  <2>2. /\ saver[u].p \notin locked
        /\ \A v \in Savers : saver[v].op # "none" /\ saver[v].p = saver[u].p => v = u
        /\ saver[u].row.tags = project[saver[u].p].tags
    BY <2>1 DEF DirectoryInv, AloneIsAlone
  <2>3. \A v \in Savers : saver'[v].op # "none" /\ saver'[v].p = saver'[u].p => v = u
    BY <1>2, <1>4, <1>5, <2>1, <2>2 DEF p
  <2>4. CASE u = t
    <3>1. written.tags = copy.tags
      BY <2>1, <2>4
    <3> QED  BY <1>4, <1>5, <1>6, <2>1, <2>2, <2>3, <2>4, <3>1
  <2>5. CASE u # t
    <3>1. saver[u].p # p
      BY <1>2, <2>2, <2>5 DEF p
    <3> QED  BY <1>5, <1>6, <1>7, <2>1, <2>2, <2>3, <2>5, <3>1
  <2> QED  BY <2>4, <2>5
<1>14. ApprovedWereChosen'
  BY <1>2 DEF DirectoryInv, ApprovedWereChosen
<1>15. \A q \in Imported : Exists(q)' <=> Exists(q)
  <2>1. Exists(p)
    BY <1>2 DEF DirectoryInv, SaversHoldRows, p
  <2> QED  BY <1>6, <2>1, TagsAssumption DEF Exists
<1>16. SourcesAreChosen'
  <2>1. ASSUME NEW q \in Projects
        PROVE  /\ project'[q].epp => project'[q].tags \subseteq chosen'
               /\ q \in Imported /\ Exists(q)' => project'[q].epp
    <3>1. CASE q = p
      BY <1>6, <3>1 DEF p
    <3>2. CASE q # p
      <4>1. project'[q] = project[q]
        BY <1>6, <3>2
      <4> QED  BY <4>1 DEF DirectoryInv, SourcesAreChosen, Exists
    <3> QED  BY <3>1, <3>2
  <2>2. ASSUME NEW u \in Savers, saver'[u].op # "none"
        PROVE  /\ saver'[u].row.epp => saver'[u].row.tags \subseteq chosen'
               /\ saver'[u].p \in Imported => saver'[u].row.epp
               /\ saver'[u].left \subseteq saver'[u].row.tags
    <3>1. CASE u = t
      BY <1>4, <1>5, <3>1 DEF p
    <3>2. CASE u # t
      BY <1>5, <2>2, <3>2 DEF DirectoryInv, SourcesAreChosen
    <3> QED  BY <3>1, <3>2
  <2> QED  BY <2>1, <2>2 DEF SourcesAreChosen
<1> QED
  BY <1>2, <1>8, <1>9, <1>10, <1>11, <1>12, <1>13, <1>14, <1>15, <1>16
  DEF DirectoryKept, DirectoryInv

\* What a form names stays within the names, and is chosen if its source says so.
LEMMA NamedIsChosen ==
  ASSUME DirectoryInv, NEW T \in TagSets, NEW e \in BOOLEAN, Named(T, e)
  PROVE  /\ chosen \subseteq chosen' /\ chosen' \subseteq Technology
         /\ e => T \subseteq chosen'
BY TagsAssumption DEF Named, DirectoryInv, DirectoryTypeOK

\* A form writes its copy, with any of the tags and any source.
LEMMA SaveFormIsGood ==
  ASSUME DirectoryInv, NEW t \in Savers, NEW T \in TagSets, NEW e \in BOOLEAN,
         SaveForm(t, T, e)
  PROVE  DirectoryKept
<1> DEFINE copy == [saver[t].row EXCEPT !.tags = T, !.epp = e]
<1>1. saver[t].row \in Row /\ saver[t].op = "loaded"
  BY DEF DirectoryInv, DirectoryTypeOK, Save, SaveForm, Write
<1>2. T \in SUBSET Technology
  BY TagsAssumption
<1>3. copy \in Row /\ copy.status = saver[t].row.status /\ copy.tags = T /\ copy.epp = e
  BY <1>1, <1>2 DEF Row
<1>4. saver[t].row.status # "free"
  BY <1>1 DEF DirectoryInv, SaversHoldRows
<1>5. Write(t, copy, copy) /\ Named(T, e) /\ (saver[t].p \in Imported => e)
  BY DEF SaveForm
<1>6. chosen \subseteq chosen' /\ chosen' \subseteq Technology /\ (e => T \subseteq chosen')
  BY <1>5, NamedIsChosen
<1> HIDE DEF copy
<1> QED  BY <1>3, <1>4, <1>5, <1>6, WriteIsGood

\* The page writes the tags, and the copy and the row keep their sources.
LEMMA SavePageIsGood ==
  ASSUME DirectoryInv, NEW t \in Savers, NEW T \in TagSets, SavePage(t, T)
  PROVE  DirectoryKept
<1> DEFINE copy == [saver[t].row EXCEPT !.tags = T]
           written == [project[saver[t].p] EXCEPT !.tags = T]
<1>1. /\ saver[t].row \in Row /\ saver[t].op = "loaded"
      /\ saver[t].p \in Projects /\ project[saver[t].p] \in Row
  BY DEF DirectoryInv, DirectoryTypeOK, Save, SavePage, Write
<1>2. T \in SUBSET Technology
  BY TagsAssumption
<1>3. /\ copy \in Row /\ copy.status = saver[t].row.status /\ copy.tags = T
      /\ copy.epp = saver[t].row.epp
  BY <1>1, <1>2 DEF Row
<1>4. /\ written \in Row /\ written.status = project[saver[t].p].status
      /\ written.tags = T /\ written.epp = project[saver[t].p].epp
  BY <1>1, <1>2 DEF Row
<1>5. saver[t].row.status # "free" /\ Exists(saver[t].p)
  BY <1>1 DEF DirectoryInv, SaversHoldRows
<1>6. saver[t].p \in Imported => copy.epp /\ written.epp
  BY <1>1, <1>3, <1>4, <1>5 DEF DirectoryInv, SourcesAreChosen
<1>7. Write(t, copy, written) /\ Named(T, copy.epp \/ written.epp)
  BY DEF SavePage
<1> HIDE DEF copy, written
<1>8. /\ chosen \subseteq chosen' /\ chosen' \subseteq Technology
      /\ copy.epp \/ written.epp => T \subseteq chosen'
  BY <1>7, TagsAssumption DEF Named, DirectoryInv, DirectoryTypeOK
<1>9. written.status # "free"
  BY <1>4, <1>5 DEF Exists
<1> QED  BY <1>3, <1>4, <1>5, <1>6, <1>7, <1>8, <1>9, WriteIsGood

\* A transition writes the status, whatever tags the row got meanwhile.
LEMMA SaveStatusIsGood ==
  ASSUME DirectoryInv, NEW t \in Savers, NEW s \in FormStatuses, SaveStatus(t, s)
  PROVE  DirectoryKept
<1> DEFINE copy == [saver[t].row EXCEPT !.status = s]
           written == [project[saver[t].p] EXCEPT !.status = s]
<1>1. /\ saver[t].row \in Row /\ saver[t].op = "loaded"
      /\ project[saver[t].p] \in Row
  BY DEF DirectoryInv, DirectoryTypeOK, Save, SaveStatus, Write
<1>2. s \in Statuses /\ s # "free"
  BY TagsAssumption DEF Statuses
<1>3. /\ copy \in Row /\ copy.status = s /\ copy.tags = saver[t].row.tags
      /\ copy.epp = saver[t].row.epp
  <2> HIDE DEF Statuses
  <2> QED  BY <1>1, <1>2 DEF Row
<1>4. /\ written \in Row /\ written.status = s /\ written.tags = project[saver[t].p].tags
      /\ written.epp = project[saver[t].p].epp
  BY <1>1, <1>2 DEF Row
<1>5. saver[t].alone => written.tags = copy.tags
  BY <1>1, <1>3, <1>4 DEF DirectoryInv, AloneIsAlone
<1>6. Write(t, copy, written) /\ chosen' = chosen
  BY DEF SaveStatus
<1>7. chosen \subseteq Technology /\ saver[t].p \in Projects /\ Exists(saver[t].p)
  BY <1>1 DEF DirectoryInv, DirectoryTypeOK, Save, SaversHoldRows
<1>8. /\ copy.epp => copy.tags \subseteq chosen
      /\ written.epp => written.tags \subseteq chosen
      /\ saver[t].p \in Imported => copy.epp /\ written.epp
  BY <1>1, <1>3, <1>4, <1>7 DEF DirectoryInv, SourcesAreChosen
<1> HIDE DEF copy, written
<1> QED  BY <1>2, <1>3, <1>4, <1>5, <1>6, <1>7, <1>8, WriteIsGood

LEMMA CreateIsGood ==
  ASSUME DirectoryInv, NEW t \in Savers, NEW p \in Projects, NEW T \in TagSets,
         NEW e \in BOOLEAN, Create(t, p, T, e)
  PROVE  DirectoryKept
<1> DEFINE row == [status |-> "draft", tags |-> T, places |-> 1, epp |-> e]
<1>1. T \in SUBSET Technology
  BY TagsAssumption
<1>2. row \in Row /\ row.status = "draft" /\ row.tags = T /\ row.epp = e
  BY <1>1 DEF Row, Statuses
<1>3. /\ Start(t, p, "tag", row) /\ project' = [project EXCEPT ![p] = row]
      /\ p \notin Imported /\ ~Exists(p) /\ Named(T, e)
      /\ UNCHANGED <<technology, links, deciding, locked, decisions, settled>>
  BY DEF Create
<1>4. chosen \subseteq chosen' /\ chosen' \subseteq Technology /\ (e => T \subseteq chosen')
  BY <1>3, NamedIsChosen
<1> HIDE DEF row
<1> QED  BY <1>2, <1>3, <1>4, StartIsGood

LEMMA LoadIsGood ==
  ASSUME DirectoryInv, NEW t \in Savers, NEW p \in Projects, Load(t, p)
  PROVE  DirectoryKept
<1>1. project \in [Projects -> Row]
  BY DEF DirectoryInv, DirectoryTypeOK
<1>2. project[p] \in Row /\ project = [project EXCEPT ![p] = project[p]]
  BY <1>1
<1>3. /\ Exists(p) /\ Start(t, p, "loaded", project[p]) /\ project' = project
      /\ UNCHANGED <<technology, links, deciding, locked, decisions, chosen, settled>>
  BY DEF Load
<1>4. chosen \subseteq Technology /\ (project[p].epp => project[p].tags \subseteq chosen)
  BY DEF DirectoryInv, DirectoryTypeOK, SourcesAreChosen
<1> QED  BY <1>2, <1>3, <1>4, StartIsGood DEF Exists

\* A name is decided, or not, by what it was and by the source of the copy that names
\* it; only the source "epp" approves it.
LEMMA NamedByKeepsDecisions ==
  ASSUME DirectoryInv, NEW x \in Technology, NEW row \in Row
  PROVE  LET s == NamedBy(x, DefaultStatus(row)) IN
         /\ s \in {"pending", "approved", "rejected"}
         /\ x \in Known => s \in {"approved", "rejected"}
         /\ row.epp => s = "approved"
         /\ s = "approved" => row.epp \/ technology[x] = "approved"
<1>1. technology[x] \in {"free", "pending", "approved", "rejected"}
  BY DEF DirectoryInv, DirectoryTypeOK
<1>2. CASE row.epp
  <2>1. DefaultStatus(row) = "approved"
    BY <1>2 DEF DefaultStatus
  <2>2. NamedBy(x, "approved") = "approved"
    BY DEF NamedBy
  <2> QED  BY <1>2, <2>1, <2>2
<1>3. CASE ~row.epp
  <2>1. DefaultStatus(row) = "pending"
    BY <1>3 DEF DefaultStatus
  <2>2. CASE technology[x] = "free"
    BY <1>3, <2>1, <2>2 DEF NamedBy, Known
  <2>3. CASE technology[x] # "free"
    BY <1>1, <1>3, <2>1, <2>3 DEF NamedBy, Known
  <2> QED  BY <2>2, <2>3
<1> QED  BY <1>2, <1>3

\* One more tag of a save gets its technology.
LEMMA TagIsGood ==
  ASSUME DirectoryInv, NEW t \in Savers, NEW x \in Technology, Tag(t, x)
  PROVE  DirectoryKept
<1> DEFINE p == saver[t].p
           s == NamedBy(x, DefaultStatus(saver[t].row))
           r == [saver[t] EXCEPT !.left = saver[t].left \ {x}]
<1>1. /\ saver \in [Savers -> Save] /\ project \in [Projects -> Row]
      /\ technology \in [Technology -> {"free", "pending", "approved", "rejected"}]
  BY DEF DirectoryInv, DirectoryTypeOK
<1>2. /\ saver[t].op = "tag" /\ x \in saver[t].left
      /\ technology' = [technology EXCEPT ![x] = s]
      /\ saver' = [saver EXCEPT ![t] = r]
      /\ UNCHANGED <<project, links, deciding, locked, saves, decisions, chosen, settled>>
  BY <1>1 DEF Tag
<1>3. /\ s \in {"pending", "approved", "rejected"}
      /\ x \in Known => s \in {"approved", "rejected"}
      /\ p \in Imported => s = "approved"
      /\ s = "approved" => x \in chosen
  <2>1. saver[t].row \in Row
    BY <1>1 DEF Save
  <2>2. /\ saver[t].row.epp => saver[t].row.tags \subseteq chosen
        /\ p \in Imported => saver[t].row.epp
        /\ x \in saver[t].row.tags
    BY <1>2 DEF DirectoryInv, SourcesAreChosen
  <2>3. technology[x] = "approved" => x \in chosen
    BY DEF DirectoryInv, ApprovedWereChosen
  <2> HIDE DEF s, p
  <2>4. /\ s \in {"pending", "approved", "rejected"}
        /\ x \in Known => s \in {"approved", "rejected"}
        /\ saver[t].row.epp => s = "approved"
        /\ s = "approved" => saver[t].row.epp \/ technology[x] = "approved"
    BY <2>1, NamedByKeepsDecisions DEF s
  <2> QED  BY <2>2, <2>3, <2>4
<1>4. /\ r \in Save
      /\ r.op = "tag" /\ r.p = p /\ r.row = saver[t].row /\ r.alone = saver[t].alone
      /\ r.left = saver[t].left \ {x}
  <2>1. saver[t] \in Save
    BY <1>1
  <2> HIDE DEF Row
  <2> QED  BY <1>2, <2>1 DEF Save
<1> HIDE DEF p, s, r
<1>5. /\ saver' \in [Savers -> Save] /\ saver'[t] = r
      /\ \A u \in Savers \ {t} : saver'[u] = saver[u]
  BY <1>1, <1>2, <1>4
<1>6. \A u \in Savers :
        /\ saver'[u].op = saver[u].op /\ saver'[u].p = saver[u].p
        /\ saver'[u].row = saver[u].row /\ saver'[u].alone = saver[u].alone
  BY <1>2, <1>4, <1>5 DEF p
<1>7. /\ technology' \in [Technology -> {"free", "pending", "approved", "rejected"}]
      /\ technology'[x] = s
      /\ \A y \in Technology \ {x} : technology'[y] = technology[y]
  BY <1>1, <1>2, <1>3
<1>8. Known \subseteq Known'
  BY <1>3, <1>7 DEF Known
<1>9. DirectoryTypeOK'
  BY <1>2, <1>5, <1>7 DEF DirectoryInv, DirectoryTypeOK
<1>10. SaversHoldRows'
  BY <1>2, <1>6 DEF DirectoryInv, SaversHoldRows, Exists
<1>11. LinkedNamesAreKnown'
  <2>1. ASSUME NEW u \in Savers, saver'[u].op = "tag", saver'[u].p \in Imported
        PROVE  saver'[u].row.tags \ saver'[u].left \subseteq Known'
    <3>1. saver[u].row.tags \ saver[u].left \subseteq Known
      BY <1>6, <2>1 DEF DirectoryInv, LinkedNamesAreKnown
    <3>2. CASE u = t
      <4>1. p \in Imported
        BY <1>6, <2>1, <3>2 DEF p
      <4>2. x \in Known'
        BY <1>3, <1>7, <4>1 DEF Known
      <4> QED  BY <1>4, <1>5, <1>8, <3>1, <3>2, <4>2
    <3>3. CASE u # t
      BY <1>5, <1>8, <3>1, <3>3
    <3> QED  BY <3>2, <3>3
  <2> QED  BY <1>2, <1>8, <2>1 DEF DirectoryInv, LinkedNamesAreKnown
<1>12. SettledFollow'
  BY <1>2, <1>6 DEF DirectoryInv, SettledFollow, Exists
<1>13. AloneIsAlone'
  BY <1>2, <1>6 DEF DirectoryInv, AloneIsAlone
<1>14. ApprovedWereChosen'
  BY <1>2, <1>3, <1>7 DEF DirectoryInv, ApprovedWereChosen
<1>15. \A q \in Imported : Exists(q)' <=> Exists(q)
  BY <1>2 DEF Exists
<1>16. SourcesAreChosen'
  <2>1. \A u \in Savers : saver'[u].left \subseteq saver[u].left
    BY <1>4, <1>5
  <2> QED  BY <1>2, <1>6, <2>1 DEF DirectoryInv, SourcesAreChosen, Exists
<1> QED
  BY <1>2, <1>8, <1>9, <1>10, <1>11, <1>12, <1>13, <1>14, <1>15, <1>16
  DEF DirectoryKept, DirectoryInv

\* The thread is done: the links of its row may have changed, and the row may be
\* settled, if it follows its tags.
LEMMA SaveEnds ==
  ASSUME DirectoryInv, NEW t \in Savers, saver[t].op # "none",
         saver' = [saver EXCEPT ![t] = NotSaving],
         NEW T \in SUBSET Technology, links' = [links EXCEPT ![saver[t].p] = T],
         saver[t].p \in Imported => T \subseteq Known,
         \/ settled' = settled /\ (saver[t].p \in settled => T = links[saver[t].p])
         \/ /\ settled' = settled \union {saver[t].p} /\ saver[t].alone
            /\ T = saver[t].row.tags,
         UNCHANGED <<technology, project, deciding, locked, saves, decisions, chosen>>
  PROVE  DirectoryKept
<1> DEFINE p == saver[t].p
<1>1. /\ saver \in [Savers -> Save] /\ links \in [Projects -> SUBSET Technology]
      /\ p \in Projects
  BY DEF DirectoryInv, DirectoryTypeOK, Save
<1>2. NotSaving \in Save /\ NotSaving.op = "none"
  <2>1. (CHOOSE q \in Projects : TRUE) \in Projects
    BY TagsAssumption
  <2>2. NoRow \in Row
    BY DEF NoRow, Row
  <2> QED  BY <2>1, <2>2 DEF NotSaving, Save
<1>3. /\ saver' \in [Savers -> Save] /\ saver'[t].op = "none"
      /\ \A u \in Savers \ {t} : saver'[u] = saver[u]
  BY <1>1, <1>2
<1>4. /\ links' \in [Projects -> SUBSET Technology] /\ links'[p] = T
      /\ \A q \in Projects \ {p} : links'[q] = links[q]
  BY <1>1
<1>5. settled' \subseteq settled \union {p}
  OBVIOUS
<1>6. DirectoryTypeOK'
  BY <1>1, <1>3, <1>4, <1>5 DEF DirectoryInv, DirectoryTypeOK
<1>7. SaversHoldRows'
  BY <1>3 DEF DirectoryInv, SaversHoldRows, Exists
<1>8. Known' = Known
  BY DEF Known
<1>9. LinkedNamesAreKnown'
  <2>1. ASSUME NEW q \in Imported PROVE links'[q] \subseteq Known
    BY <1>4, TagsAssumption DEF DirectoryInv, LinkedNamesAreKnown
  <2> QED  BY <1>3, <1>8, <2>1 DEF DirectoryInv, LinkedNamesAreKnown
<1>10. SettledFollow'
  <2> SUFFICES ASSUME NEW q \in settled'
      PROVE  /\ Exists(q) /\ links'[q] = project[q].tags
             /\ \A u \in Savers : ~(saver'[u].op = "tag" /\ saver'[u].p = q)
    BY DEF SettledFollow, Exists
  <2>1. CASE q \in settled /\ (q = p => T = links[p])
    <3>1. q \in Projects
      BY <2>1 DEF DirectoryInv, DirectoryTypeOK
    <3>2. Exists(q) /\ links[q] = project[q].tags
          /\ \A u \in Savers : ~(saver[u].op = "tag" /\ saver[u].p = q)
      BY <2>1 DEF DirectoryInv, SettledFollow
    <3>3. links'[q] = links[q]
      BY <1>4, <2>1, <3>1
    <3> QED  BY <1>3, <3>2, <3>3
  <2>2. CASE q = p /\ saver[t].alone /\ T = saver[t].row.tags
    <3>1. Exists(p)
      BY DEF DirectoryInv, SaversHoldRows
    <3>2. /\ \A u \in Savers : saver[u].op # "none" /\ saver[u].p = p => u = t
          /\ saver[t].row.tags = project[p].tags
      BY <2>2 DEF DirectoryInv, AloneIsAlone
    <3> QED  BY <1>3, <1>4, <2>2, <3>1, <3>2
  <2> QED  BY <2>1, <2>2
<1>11. AloneIsAlone'
  BY <1>3 DEF DirectoryInv, AloneIsAlone
<1>12. ApprovedWereChosen'
  BY DEF DirectoryInv, ApprovedWereChosen
<1>13. \A q \in Imported : Exists(q)' <=> Exists(q)
  BY DEF Exists
<1>14. SourcesAreChosen'
  BY <1>3 DEF DirectoryInv, SourcesAreChosen, Exists
<1> QED
  BY <1>6, <1>7, <1>8, <1>9, <1>10, <1>11, <1>12, <1>13, <1>14
  DEF DirectoryKept, DirectoryInv

LEMMA RelateIsGood ==
  ASSUME DirectoryInv, NEW t \in Savers, Relate(t)
  PROVE  DirectoryKept
<1> DEFINE p == saver[t].p
           T == saver[t].row.tags
<1>1. /\ saver[t].op = "tag" /\ saver[t].left = {}
      /\ links' = [links EXCEPT ![p] = T]
      /\ saver' = [saver EXCEPT ![t] = NotSaving]
      /\ settled' = IF saver[t].alone THEN settled \union {p} ELSE settled
      /\ UNCHANGED <<technology, project, deciding, locked, saves, decisions, chosen>>
  BY DEF Relate
<1>2. T \in SUBSET Technology
  BY DEF DirectoryInv, DirectoryTypeOK, Save, Row
<1>3. p \in Imported => T \subseteq Known
  BY <1>1 DEF DirectoryInv, LinkedNamesAreKnown
<1>4. p \notin settled
  BY <1>1 DEF DirectoryInv, SettledFollow
<1> QED  BY <1>1, <1>2, <1>3, <1>4, SaveEnds

LEMMA SaverDiesIsGood ==
  ASSUME DirectoryInv, NEW t \in Savers, SaverDies(t)
  PROVE  DirectoryKept
<1> DEFINE T == links[saver[t].p]
<1>1. /\ links \in [Projects -> SUBSET Technology] /\ saver[t].p \in Projects
  BY DEF DirectoryInv, DirectoryTypeOK, Save
<1>2. T \in SUBSET Technology /\ links = [links EXCEPT ![saver[t].p] = T]
  BY <1>1
<1>3. saver[t].p \in Imported => T \subseteq Known
  BY DEF DirectoryInv, LinkedNamesAreKnown
<1>4. /\ saver[t].op # "none" /\ saver' = [saver EXCEPT ![t] = NotSaving]
      /\ links' = links /\ settled' = settled
      /\ UNCHANGED <<technology, project, deciding, locked, saves, decisions, chosen>>
  BY DEF SaverDies
<1> QED  BY <1>2, <1>3, <1>4, SaveEnds

\* A moderator reads, and decides.
LEMMA ModeratorIsGood ==
  ASSUME DirectoryInv, NEW x \in Technology,
         \/ ReadPending(x)
         \/ \E s \in {"approved", "rejected"} : Moderate(x, s) \/ AdminModerate(x, s)
  PROVE  DirectoryKept
<1>1. technology \in [Technology -> {"free", "pending", "approved", "rejected"}]
      /\ decisions \in 0 .. MaxDecisions
  BY DEF DirectoryInv, DirectoryTypeOK
<1>2. /\ UNCHANGED <<project, links, saver, locked, saves, settled>>
      /\ decisions' \in 0 .. MaxDecisions /\ deciding' \subseteq Technology
  <2>1. CASE ReadPending(x)
    BY <1>1, <2>1, SavesAssumption DEF ReadPending, DirectoryInv, DirectoryTypeOK
  <2>2. ASSUME NEW s \in {"approved", "rejected"}, Moderate(x, s)
        PROVE  <1>2
    BY <1>1, <2>2 DEF Moderate, Decided, DirectoryInv, DirectoryTypeOK
  <2>3. ASSUME NEW s \in {"approved", "rejected"}, AdminModerate(x, s)
        PROVE  <1>2
    BY <1>1, <2>3, SavesAssumption DEF AdminModerate, Decided, DirectoryInv, DirectoryTypeOK
  <2> QED  BY <2>1, <2>2, <2>3
<1>3. \/ technology' = technology /\ chosen' = chosen
      \/ \E s \in {"approved", "rejected"} :
           /\ technology' = [technology EXCEPT ![x] = s]
           /\ chosen' = IF s = "approved" THEN chosen \union {x} ELSE chosen
  BY DEF ReadPending, Moderate, AdminModerate, Decided
<1>4. /\ technology' \in [Technology -> {"free", "pending", "approved", "rejected"}]
      /\ Known \subseteq Known' /\ chosen \subseteq chosen' /\ chosen' \subseteq Technology
      /\ ApprovedWereChosen'
  <2>1. CASE technology' = technology /\ chosen' = chosen
    BY <1>1, <2>1 DEF Known, DirectoryInv, DirectoryTypeOK, ApprovedWereChosen
  <2>2. ASSUME NEW s \in {"approved", "rejected"},
               technology' = [technology EXCEPT ![x] = s],
               chosen' = IF s = "approved" THEN chosen \union {x} ELSE chosen
        PROVE  <1>4
    BY <1>1, <2>2 DEF Known, DirectoryInv, DirectoryTypeOK, ApprovedWereChosen
  <2> QED  BY <1>3, <2>1, <2>2
<1>5. DirectoryTypeOK'
  BY <1>2, <1>4 DEF DirectoryInv, DirectoryTypeOK
<1>6. SaversHoldRows' /\ SettledFollow' /\ AloneIsAlone'
  BY <1>2 DEF DirectoryInv, SaversHoldRows, SettledFollow, AloneIsAlone, Exists
<1>7. LinkedNamesAreKnown'
  <2>1. \A p \in Imported : links'[p] \subseteq Known'
    BY <1>2, <1>4 DEF DirectoryInv, LinkedNamesAreKnown
  <2>2. \A t \in Savers :
          saver'[t].op = "tag" /\ saver'[t].p \in Imported
            => saver'[t].row.tags \ saver'[t].left \subseteq Known'
    BY <1>2, <1>4 DEF DirectoryInv, LinkedNamesAreKnown
  <2> QED  BY <2>1, <2>2 DEF LinkedNamesAreKnown
<1>8. \A q \in Imported : Exists(q)' <=> Exists(q)
  BY <1>2 DEF Exists
<1>9. SourcesAreChosen'
  BY <1>2, <1>4 DEF DirectoryInv, SourcesAreChosen, Exists
<1> QED  BY <1>2, <1>4, <1>5, <1>6, <1>7, <1>8, <1>9 DEF DirectoryKept, DirectoryInv

\* Every step of the directory beside the imports.
LEMMA DirectoryStepIsGood ==
  ASSUME DirectoryInv, DirectoryNext
  PROVE  DirectoryKept
<1>1. ASSUME NEW t \in Savers, NEW p \in Projects,
             \/ \E T \in TagSets, e \in BOOLEAN : Create(t, p, T, e)
             \/ Load(t, p)
      PROVE  DirectoryKept
  BY <1>1, CreateIsGood, LoadIsGood
<1>2. ASSUME NEW t \in Savers,
             \/ \E T \in TagSets, e \in BOOLEAN : SaveForm(t, T, e)
             \/ \E T \in TagSets : SavePage(t, T)
             \/ \E s \in FormStatuses : SaveStatus(t, s)
             \/ \E x \in Technology : Tag(t, x)
             \/ Relate(t)
             \/ SaverDies(t)
      PROVE  DirectoryKept
  BY <1>2, SaveFormIsGood, SavePageIsGood, SaveStatusIsGood, TagIsGood, RelateIsGood, SaverDiesIsGood
<1>3. ASSUME NEW x \in Technology,
             \/ ReadPending(x)
             \/ \E s \in {"approved", "rejected"} : Moderate(x, s) \/ AdminModerate(x, s)
      PROVE  DirectoryKept
  BY <1>3, ModeratorIsGood
<1> QED  BY <1>1, <1>2, <1>3 DEF DirectoryNext

-----------------------------------------------------------------------------
(***************************************************************************)
(* The inductive invariant of the imports.                                 *)
(***************************************************************************)
Names(s) == {s[j] : j \in DOMAIN s}
Sheets == {<<>>} \union {f.rows : f \in Files}
Kinds == {"none", "start", "force", "import", "upload"}
Importer ==
  [kind : Kinds, rows : Sheets, next : Nat \ {0}, open : BOOLEAN, isNew : BOOLEAN,
   left : Seq(Technology), held : SUBSET Technology, stats : Stats]

\* An open row is a complete one of the file; its names are still to come, held, or
\* decided; and the project is new as long as nobody else can have inserted it.
OpenRow(i) ==
  /\ imp[i].kind # "none"
  /\ imp[i].next \in Full(imp[i].rows)
  /\ TeamSize(RowOf(i).places) >= 0
  /\ imp[i].isNew <=> ~Exists(RefOf(i))
  /\ imp[i].held \union Names(imp[i].left) \subseteq TagsOf(RowOf(i))
  /\ TagsOf(RowOf(i)) \subseteq imp[i].held \union Names(imp[i].left) \union Known

OpenRows == \A i \in Importers : imp[i].open => OpenRow(i)

\* Two open rows are of different EPPs and hold different names.
Apart ==
  \A i, j \in Importers :
    i # j /\ imp[i].open /\ imp[j].open
      => RowOf(i).epp # RowOf(j).epp /\ imp[i].held \intersect imp[j].held = {}

\* What a row holds; nothing else is locked.
Held(i) == imp[i].held \union {RefOf(i)}
LockedIsHeld == \A x : x \in locked <=> \E i \in Importers : imp[i].open /\ x \in Held(i)

\* An import of a run is under way only while the run is.
RunsInHand == \A i \in Uploads : imp[i].kind # "none" => run[i] = "running"

\* The types of what the callers keep, and of what they read.
CallersTypeOK ==
  /\ state \in {"", "in_progress", "skipped", "failed", "corrupt", "succeeded",
                "succeeded_with_errors"}
  /\ serving \subseteq Containers
  /\ run \in [Uploads -> {"none", "running", "completed", "failed"}]
  /\ announced \subseteq Uploads
  /\ starts \in 0 .. MaxStarts /\ deaths \in 0 .. MaxDeaths
  /\ claims \subseteq Sheets
  /\ RunsInHand

ImportersTypeOK ==
  /\ imp \in [Importers -> Importer]
  /\ \A i \in Importers : imp[i].next <= Len(imp[i].rows) + 1
  /\ \A i \in Importers : ~imp[i].open => imp[i].held = {}
  /\ epp \in [EPPs -> {"free"} \union SourceStatuses]

RowsInv == OpenRows /\ Apart /\ LockedIsHeld
ImportInv == DirectoryInv /\ RowsInv /\ ImportersTypeOK /\ CallersTypeOK

\* What the files have in their complete rows.
LEMMA CompleteRows ==
  ASSUME NEW rows \in Sheets
  PROVE  /\ Len(rows) \in Nat /\ DOMAIN rows = 1 .. Len(rows)
         /\ Full(rows) \subseteq 1 .. Len(rows)
         /\ \A k \in Full(rows) :
              /\ rows[k].epp \in EPPs
              /\ Ref(rows, k) \in Imported /\ Ref(rows, k) \in Projects
              /\ Ref(rows, k)[1] = rows[k].epp
              /\ rows[k].tags \in Seq(Technology)
              /\ rows[k].places.halves \in Int
<1>1. CASE rows = <<>>
  BY <1>1 DEF Full
<1>2. CASE rows # <<>>
  <2>1. PICK f \in Files : rows = f.rows
    BY <1>2 DEF Sheets
  <2>2. /\ rows \in Seq({rows[k] : k \in DOMAIN rows})
        /\ \A k \in Full(rows) :
             rows[k].tags \in Seq(Technology) /\ rows[k].places.halves \in Int
    BY <2>1, FilesAssumption
  <2>3. Len(rows) \in Nat /\ DOMAIN rows = 1 .. Len(rows)
    BY <2>2
  <2>4. Full(rows) \subseteq 1 .. Len(rows)
    BY <2>3 DEF Full
  <2>5. ASSUME NEW k \in Full(rows)
        PROVE  /\ rows[k].epp \in EPPs
               /\ Ref(rows, k) \in Imported /\ Ref(rows, k)[1] = rows[k].epp
    <3>1. Ref(rows, k) \in Imported
      <4> HIDE DEF Full, Ref
      <4> QED  BY <2>1, <2>5, ImportedAssumption
    <3>2. rows[k].epp \in EPPs
      <4> HIDE DEF Full
      <4> QED  BY <2>1, <2>5 DEF EPPs
    <3> QED  BY <3>1, <3>2 DEF Ref
  <2> QED  BY <2>2, <2>3, <2>4, <2>5, TagsAssumption
<1> QED  BY <1>1, <1>2

LEMMA ImportInvIsTyped == ImportInv => TypeOK
<1> SUFFICES ASSUME ImportInv PROVE TypeOK
  OBVIOUS
<1>1. \A i \in Importers :
        /\ imp[i].kind \in {"none", "start", "force", "import", "upload"}
        /\ imp[i].next \in 1 .. Len(imp[i].rows) + 1
        /\ imp[i].stats \in Stats
  <2> SUFFICES ASSUME NEW i \in Importers
      PROVE  /\ imp[i].kind \in {"none", "start", "force", "import", "upload"}
             /\ imp[i].next \in 1 .. Len(imp[i].rows) + 1
             /\ imp[i].stats \in Stats
    OBVIOUS
  <2>1. imp[i] \in Importer /\ imp[i].next <= Len(imp[i].rows) + 1
    BY DEF ImportInv, ImportersTypeOK
  <2>2. imp[i].rows \in Sheets
    BY <2>1 DEF Importer
  <2>3. Len(imp[i].rows) \in Nat
    BY <2>2, CompleteRows
  <2> QED  BY <2>1, <2>3 DEF Importer, Kinds
<1>2. locked = UNION {imp[i].held \union {RefOf(i)} : i \in {j \in Importers : imp[j].open}}
  BY DEF ImportInv, RowsInv, LockedIsHeld, Held
<1> QED
  BY <1>1, <1>2
  DEF ImportInv, DirectoryInv, ImportersTypeOK, CallersTypeOK, TypeOK

\* The number of places of a complete row is an integer.
LEMMA PlacesAreIntegers ==
  ASSUME NEW cell, cell.halves \in Int
  PROVE  TeamSize(cell) \in Int
<1>1. /\ cell.halves >= 0 => cell.halves \div 2 \in Int
      /\ cell.halves < 0 => -((-cell.halves) \div 2) \in Int
  OBVIOUS
<1>2. ParseInt(cell) \in Int
  <2>1. CASE cell.text # "number"
    BY <2>1 DEF ParseInt
  <2>2. CASE cell.text = "number" /\ cell.halves >= 0
    BY <1>1, <2>2 DEF ParseInt
  <2>3. CASE cell.text = "number" /\ ~(cell.halves >= 0)
    BY <1>1, <2>3 DEF ParseInt
  <2> QED  BY <2>1, <2>2, <2>3
<1> QED  BY <1>2 DEF TeamSize

\* The names of a sequence are its head's and its tail's.
LEMMA NamesOfTail ==
  ASSUME NEW S, NEW s \in Seq(S), s # <<>>
  PROVE  /\ Head(s) \in S /\ Tail(s) \in Seq(S)
         /\ Names(s) = {Head(s)} \union Names(Tail(s))
<1>1. Len(s) \in Nat \ {0} /\ DOMAIN s = 1 .. Len(s)
  OBVIOUS
<1>2. /\ Head(s) = s[1] /\ Head(s) \in S /\ Tail(s) \in Seq(S)
      /\ DOMAIN Tail(s) = 1 .. Len(s) - 1
      /\ \A j \in 1 .. Len(s) - 1 : Tail(s)[j] = s[j + 1]
  BY <1>1
<1>3. ASSUME NEW x \in Names(s) PROVE x \in {Head(s)} \union Names(Tail(s))
  <2>1. PICK j \in 1 .. Len(s) : x = s[j]
    BY <1>1, <1>3 DEF Names
  <2>2. CASE j = 1
    BY <1>2, <2>1, <2>2
  <2>3. CASE j # 1
    <3>1. j - 1 \in 1 .. Len(s) - 1 /\ (j - 1) + 1 = j
      BY <1>1, <2>3
    <3> QED  BY <1>2, <2>1, <3>1 DEF Names
  <2> QED  BY <2>2, <2>3
<1>4. ASSUME NEW x \in {Head(s)} \union Names(Tail(s)) PROVE x \in Names(s)
  <2>1. CASE x = Head(s)
    BY <1>1, <1>2, <2>1 DEF Names
  <2>2. CASE x \in Names(Tail(s))
    <3>1. PICK j \in 1 .. Len(s) - 1 : x = Tail(s)[j]
      BY <1>2, <2>2 DEF Names
    <3>2. j + 1 \in 1 .. Len(s) /\ x = s[j + 1]
      BY <1>1, <1>2, <3>1
    <3> QED  BY <1>1, <3>2 DEF Names
  <2> QED  BY <2>1, <2>2, <1>4
<1> QED  BY <1>2, <1>3, <1>4

-----------------------------------------------------------------------------
(***************************************************************************)
(* Rows of imports keep apart.                                             *)
(***************************************************************************)
\* What an importer with an open row has in hand.
LEMMA OpenRowFacts ==
  ASSUME ImportInv, NEW i \in Importers, imp[i].open
  PROVE  /\ OpenRow(i)
         /\ imp[i] \in Importer /\ imp[i].rows \in Sheets
         /\ imp[i].next \in Full(imp[i].rows)
         /\ RowOf(i).epp \in EPPs
         /\ RefOf(i) \in Imported /\ RefOf(i) \in Projects
         /\ RefOf(i)[1] = RowOf(i).epp
         /\ RefOf(i) \notin Technology
         /\ TagsOf(RowOf(i)) \subseteq Technology
<1>1. OpenRow(i) /\ imp[i] \in Importer
  BY DEF ImportInv, RowsInv, OpenRows, ImportersTypeOK
<1>2. imp[i].rows \in Sheets /\ imp[i].next \in Full(imp[i].rows)
  BY <1>1 DEF OpenRow, Importer
<1>3. /\ RowOf(i).epp \in EPPs
      /\ RefOf(i) \in Imported /\ RefOf(i) \in Projects
      /\ RefOf(i)[1] = RowOf(i).epp
      /\ RowOf(i).tags \in Seq(Technology)
  BY <1>2, CompleteRows DEF RowOf, RefOf
<1>4. TagsOf(RowOf(i)) \subseteq Technology
  BY <1>3 DEF TagsOf
<1> QED  BY <1>1, <1>2, <1>3, <1>4, TagsAssumption

\* Open rows of two importers hold nothing in common.
LEMMA HeldApart ==
  ASSUME ImportInv, NEW i \in Importers, NEW j \in Importers, i # j,
         imp[i].open, imp[j].open
  PROVE  Held(i) \intersect Held(j) = {} /\ RefOf(i) # RefOf(j)
<1>1. /\ RowOf(i).epp # RowOf(j).epp /\ imp[i].held \intersect imp[j].held = {}
  BY DEF ImportInv, RowsInv, Apart
<1>2. imp[i].held \subseteq Technology /\ imp[j].held \subseteq Technology
  BY DEF ImportInv, ImportersTypeOK, Importer
<1>3. RefOf(i) # RefOf(j)
  BY <1>1, OpenRowFacts
<1> QED  BY <1>1, <1>2, <1>3, OpenRowFacts DEF Held

\* The rows of the others stay open as they are when names stay decided and nobody
\* inserts or deletes their projects.
LEMMA OthersStayOpen ==
  ASSUME ImportInv, NEW j \in Importers, imp[j].open, imp'[j] = imp[j],
         Known \subseteq Known', Exists(RefOf(j))' <=> Exists(RefOf(j))
  PROVE  /\ OpenRow(j)' /\ RowOf(j)' = RowOf(j) /\ RefOf(j)' = RefOf(j)
         /\ Held(j)' = Held(j)
<1>1. RowOf(j)' = RowOf(j) /\ RefOf(j)' = RefOf(j) /\ Held(j)' = Held(j)
  BY DEF RowOf, RefOf, Held
<1>2. OpenRow(j)
  BY OpenRowFacts
<1>3. OpenRow(j)'
  BY <1>1, <1>2 DEF OpenRow
<1> QED  BY <1>1, <1>3

\* An importer that closes its row, or had none open, leaves the others as they are.
LEMMA RowCloses ==
  ASSUME ImportInv, NEW i \in Importers, NEW r \in Importer, ~r.open,
         imp' = [imp EXCEPT ![i] = r],
         locked' = IF imp[i].open THEN locked \ (imp[i].held \union {RefOf(i)}) ELSE locked,
         Known \subseteq Known',
         \A p \in Imported :
           (imp[i].open => p # RefOf(i)) => (Exists(p)' <=> Exists(p))
  PROVE  /\ RowsInv' /\ imp' \in [Importers -> Importer] /\ imp'[i] = r
         /\ \A j \in Importers \ {i} : imp'[j] = imp[j]
         /\ locked' \subseteq locked
<1>1. /\ imp \in [Importers -> Importer] /\ imp' \in [Importers -> Importer]
      /\ imp'[i] = r /\ \A j \in Importers \ {i} : imp'[j] = imp[j]
  BY DEF ImportInv, ImportersTypeOK
<1>2. ASSUME NEW j \in Importers, imp'[j].open
      PROVE  /\ j # i /\ imp[j].open /\ imp'[j] = imp[j]
             /\ OpenRow(j)' /\ RowOf(j)' = RowOf(j) /\ Held(j)' = Held(j)
  <2>1. j # i /\ imp[j].open /\ imp'[j] = imp[j]
    BY <1>1, <1>2
  <2>2. RefOf(j) \in Imported /\ (imp[i].open => RefOf(j) # RefOf(i))
    BY <2>1, OpenRowFacts, HeldApart
  <2>3. RefOf(j)' = RefOf(j)
    BY <2>1 DEF RefOf
  <2>4. Exists(RefOf(j))' <=> Exists(RefOf(j))
    BY <2>2, <2>3 DEF Exists
  <2> QED  BY <2>1, <2>4, OthersStayOpen
<1>3. OpenRows'
  BY <1>2 DEF OpenRows
<1>4. Apart'
  BY <1>2 DEF ImportInv, RowsInv, Apart
<1>5. LockedIsHeld'
  <2> SUFFICES ASSUME NEW x
      PROVE  x \in locked' <=> \E j \in Importers : imp'[j].open /\ x \in Held(j)'
    BY DEF LockedIsHeld
  <2>1. x \in locked <=> \E j \in Importers : imp[j].open /\ x \in Held(j)
    BY DEF ImportInv, RowsInv, LockedIsHeld
  <2>2. x \in locked' <=> x \in locked /\ (imp[i].open => x \notin Held(i))
    BY DEF Held
  <2>3. ASSUME x \in locked' PROVE \E j \in Importers : imp'[j].open /\ x \in Held(j)'
    <3>1. PICK j \in Importers : imp[j].open /\ x \in Held(j)
      BY <2>1, <2>2, <2>3
    <3>2. j # i
      BY <2>2, <2>3, <3>1
    <3>3. imp'[j].open
      BY <1>1, <3>1, <3>2
    <3> QED  BY <1>2, <3>1, <3>3
  <2>4. ASSUME NEW j \in Importers, imp'[j].open, x \in Held(j)' PROVE x \in locked'
    <3>1. j # i /\ imp[j].open /\ x \in Held(j)
      BY <1>2, <2>4
    <3>2. imp[i].open => x \notin Held(i)
      BY <3>1, HeldApart
    <3> QED  BY <2>1, <2>2, <3>1, <3>2
  <2> QED  BY <2>3, <2>4
<1> QED  BY <1>1, <1>3, <1>4, <1>5 DEF RowsInv

-----------------------------------------------------------------------------
(***************************************************************************)
(* One lemma per effect on the directory and the rows.                     *)
(***************************************************************************)
\* Rows that are released, and names that are locked, are nothing to the directory.
LEMMA LocksAreQuiet ==
  ASSUME DirectoryInv, locked' \subseteq locked \union Technology,
         UNCHANGED <<technology, project, links, saver, deciding, saves, decisions,
                     chosen, settled>>
  PROVE  DirectoryInv'
<1>1. \A t \in Savers : saver[t].p \in Projects
  BY DEF DirectoryInv, DirectoryTypeOK, Save
<1>2. AloneIsAlone'
  BY <1>1, TagsAssumption DEF DirectoryInv, AloneIsAlone
<1>3. DirectoryTypeOK' /\ SaversHoldRows' /\ LinkedNamesAreKnown'
  BY DEF DirectoryInv, DirectoryTypeOK, SaversHoldRows, LinkedNamesAreKnown, Known, Exists
<1>4. SettledFollow' /\ ApprovedWereChosen' /\ SourcesAreChosen'
  BY DEF DirectoryInv, SettledFollow, ApprovedWereChosen, SourcesAreChosen, Exists
<1> QED  BY <1>2, <1>3, <1>4 DEF DirectoryInv

\* An importer closes its row, or had none open, and nothing is written.
LEMMA ClosedRowIsGood ==
  ASSUME ImportInv, NEW i \in Importers, NEW r \in Importer, ~r.open,
         r.held = {}, r.next <= Len(r.rows) + 1,
         imp' = [imp EXCEPT ![i] = r],
         locked' = IF imp[i].open THEN locked \ (imp[i].held \union {RefOf(i)}) ELSE locked,
         UNCHANGED <<technology, project, links, saver, deciding, saves, decisions,
                     chosen, settled, epp>>,
         CallersTypeOK'
  PROVE  ImportInv' /\ imp'[i] = r /\ \A j \in Importers \ {i} : imp'[j] = imp[j]
<1>1. Known' = Known /\ \A p \in Imported : Exists(p)' <=> Exists(p)
  BY DEF Known, Exists
<1>2. /\ RowsInv' /\ imp' \in [Importers -> Importer] /\ imp'[i] = r
      /\ \A j \in Importers \ {i} : imp'[j] = imp[j]
      /\ locked' \subseteq locked
  BY <1>1, RowCloses
<1>3. DirectoryInv'
  BY <1>2, LocksAreQuiet DEF ImportInv
<1>4. ImportersTypeOK'
  BY <1>2 DEF ImportInv, ImportersTypeOK
<1> QED  BY <1>2, <1>3, <1>4 DEF ImportInv

LEMMA ClosedIsAnImporter ==
  ASSUME ImportInv, NEW i \in Importers, Reading(i), NEW stats \in Stats
  PROVE  /\ Closed(i, stats) \in Importer /\ ~Closed(i, stats).open
         /\ Closed(i, stats).kind = imp[i].kind /\ Closed(i, stats).rows = imp[i].rows
         /\ Closed(i, stats).next = imp[i].next + 1 /\ Closed(i, stats).stats = stats
         /\ Closed(i, stats).held = {}
         /\ Closed(i, stats).next <= Len(Closed(i, stats).rows) + 1
<1>1. imp[i] \in Importer /\ imp[i].rows \in Sheets /\ imp[i].next \in Nat \ {0}
  BY DEF ImportInv, ImportersTypeOK, Importer
<1>2. Len(imp[i].rows) \in Nat /\ imp[i].next <= Len(imp[i].rows)
  BY <1>1, CompleteRows DEF Reading
<1>3. <<>> \in Seq(Technology) /\ {} \in SUBSET Technology
  OBVIOUS
<1>4. Closed(i, stats) \in Importer
  <2> DEFINE n == imp[i].next + 1
             c == [imp[i] EXCEPT !.next = n, !.open = FALSE, !.isNew = FALSE]
  <2>1. c \in Importer
    <3>1. n \in Nat \ {0}
      BY <1>1
    <3> HIDE DEF n
    <3> QED  BY <1>1, <3>1 DEF Importer
  <2>2. Closed(i, stats) = [c EXCEPT !.left = <<>>, !.held = {}, !.stats = stats]
    BY DEF Closed
  <2> HIDE DEF c
  <2> QED  BY <1>3, <2>1, <2>2 DEF Importer
<1>5. /\ ~Closed(i, stats).open
      /\ Closed(i, stats).kind = imp[i].kind /\ Closed(i, stats).rows = imp[i].rows
      /\ Closed(i, stats).next = imp[i].next + 1 /\ Closed(i, stats).stats = stats
      /\ Closed(i, stats).held = {}
  BY <1>1 DEF Closed, Importer
<1> QED  BY <1>1, <1>2, <1>4, <1>5

\* A row that was skipped or rolled back: nothing is left of it but a count.
LEMMA LostRowIsGood ==
  ASSUME ImportInv, NEW i \in Importers, Reading(i), NEW stats \in Stats,
         NextRow(i, stats), Unchanging,
         UNCHANGED <<technology, project, links, saver, deciding, saves, decisions,
                     chosen, settled, epp>>
  PROVE  /\ ImportInv' /\ imp'[i] = Closed(i, stats)
         /\ \A j \in Importers \ {i} : imp'[j] = imp[j]
<1>1. imp' = [imp EXCEPT ![i] = Closed(i, stats)]
  BY DEF NextRow, Closed
<1>2. locked' = IF imp[i].open THEN locked \ (imp[i].held \union {RefOf(i)}) ELSE locked
  BY DEF NextRow
<1>3. /\ Closed(i, stats) \in Importer /\ ~Closed(i, stats).open
      /\ Closed(i, stats).kind = imp[i].kind /\ Closed(i, stats).held = {}
      /\ Closed(i, stats).next <= Len(Closed(i, stats).rows) + 1
  BY ClosedIsAnImporter
<1> HIDE DEF Closed
<1>4. CallersTypeOK'
  <2>1. imp \in [Importers -> Importer]
    BY DEF ImportInv, ImportersTypeOK
  <2>2. \A j \in Importers : imp'[j].kind = imp[j].kind
    BY <1>1, <1>3, <2>1
  <2>3. RunsInHand'
    BY <2>2 DEF ImportInv, CallersTypeOK, RunsInHand, Unchanging, Importers
  <2> QED  BY <2>3 DEF ImportInv, CallersTypeOK, Unchanging
<1> QED  BY <1>1, <1>2, <1>3, <1>4, ClosedRowIsGood

\* An importer has one of the statistics, one higher.
LEMMA OneMore ==
  ASSUME ImportInv, NEW i \in Importers
  PROVE  /\ [imp[i].stats EXCEPT !.skipped = @ + 1] \in Stats
         /\ [imp[i].stats EXCEPT !.errors = @ + 1] \in Stats
         /\ imp[i].stats \in Stats
<1>1. imp[i].stats \in Stats
  BY DEF ImportInv, ImportersTypeOK, Importer
<1> QED  BY <1>1 DEF Stats

\* A row that is open is being read.
LEMMA OpenIsReading ==
  ASSUME ImportInv, NEW i \in Importers, imp[i].open
  PROVE  Reading(i)
<1>1. /\ imp[i].kind # "none" /\ imp[i].rows \in Sheets
      /\ imp[i].next \in Full(imp[i].rows)
  BY OpenRowFacts DEF OpenRow
<1>2. imp[i].next \in 1 .. Len(imp[i].rows)
  BY <1>1, CompleteRows
<1> QED  BY <1>1, <1>2 DEF Reading

LEMMA SkipRowIsGood ==
  ASSUME ImportInv, NEW i \in Importers, SkipRow(i)
  PROVE  ImportInv'
BY OneMore, LostRowIsGood DEF SkipRow, Between

LEMMA RollBackIsGood ==
  ASSUME ImportInv, NEW i \in Importers, Reading(i), RollBack(i)
  PROVE  ImportInv'
BY OneMore, LostRowIsGood DEF RollBack

\* An importer opens its row, or gets one more name for it.
LEMMA RowHoldsMore ==
  ASSUME ImportInv, NEW i \in Importers, NEW r \in Importer, r.open,
         imp' = [imp EXCEPT ![i] = r], OpenRow(i)',
         \A j \in Importers \ {i} :
           imp[j].open => RowOf(i)'.epp # RowOf(j).epp /\ r.held \intersect imp[j].held = {},
         NEW S, locked' = locked \union S,
         Held(i)' = IF imp[i].open THEN S \union Held(i) ELSE S,
         UNCHANGED <<technology, project>>
  PROVE  /\ RowsInv' /\ imp' \in [Importers -> Importer] /\ imp'[i] = r
         /\ \A j \in Importers \ {i} : imp'[j] = imp[j]
<1>1. /\ imp' \in [Importers -> Importer] /\ imp'[i] = r
      /\ \A j \in Importers \ {i} : imp'[j] = imp[j]
  BY DEF ImportInv, ImportersTypeOK
<1>2. Known' = Known
  BY DEF Known
<1>3. ASSUME NEW j \in Importers \ {i}, imp[j].open
      PROVE  /\ imp'[j].open /\ OpenRow(j)' /\ RowOf(j)' = RowOf(j) /\ Held(j)' = Held(j)
             /\ imp'[j] = imp[j]
  <2>1. RefOf(j)' = RefOf(j) /\ imp'[j] = imp[j]
    BY <1>1 DEF RefOf
  <2>2. Exists(RefOf(j))' <=> Exists(RefOf(j))
    BY <2>1 DEF Exists
  <2> QED  BY <1>2, <1>3, <2>1, <2>2, OthersStayOpen
<1>4. OpenRows'
  BY <1>1, <1>3 DEF OpenRows
<1>5. Apart'
  <2> SUFFICES ASSUME NEW a \in Importers, NEW b \in Importers, a # b,
                      imp'[a].open, imp'[b].open
      PROVE  RowOf(a)'.epp # RowOf(b)'.epp /\ imp'[a].held \intersect imp'[b].held = {}
    BY DEF Apart
  <2>1. CASE a # i /\ b # i
    BY <1>1, <1>3, <2>1 DEF ImportInv, RowsInv, Apart
  <2>2. CASE a = i
    BY <1>1, <1>3, <2>2
  <2>3. CASE b = i
    <3>1. imp[a].open /\ RowOf(a)' = RowOf(a) /\ imp'[a] = imp[a] /\ a # i
      BY <1>1, <1>3, <2>3
    <3>2. RowOf(i)'.epp # RowOf(a).epp /\ r.held \intersect imp[a].held = {}
      BY <3>1
    <3> QED  BY <1>1, <2>3, <3>1, <3>2
  <2> QED  BY <2>1, <2>2, <2>3
<1>6. LockedIsHeld'
  <2> SUFFICES ASSUME NEW x
      PROVE  x \in locked' <=> \E j \in Importers : imp'[j].open /\ x \in Held(j)'
    BY DEF LockedIsHeld
  <2>1. x \in locked <=> \E j \in Importers : imp[j].open /\ x \in Held(j)
    BY DEF ImportInv, RowsInv, LockedIsHeld
  <2>2. x \in locked' <=> x \in locked \/ x \in S
    OBVIOUS
  <2>3. ASSUME x \in locked' PROVE \E j \in Importers : imp'[j].open /\ x \in Held(j)'
    <3>1. CASE x \in S
      BY <1>1, <3>1
    <3>2. CASE x \notin S
      <4>1. PICK j \in Importers : imp[j].open /\ x \in Held(j)
        BY <2>1, <2>2, <2>3, <3>2
      <4>2. CASE j = i
        BY <1>1, <4>1, <4>2
      <4>3. CASE j # i
        BY <1>3, <4>1, <4>3
      <4> QED  BY <4>2, <4>3
    <3> QED  BY <3>1, <3>2
  <2>4. ASSUME NEW j \in Importers, imp'[j].open, x \in Held(j)' PROVE x \in locked'
    <3>1. CASE j = i
      BY <2>1, <2>2, <2>4, <3>1
    <3>2. CASE j # i
      BY <1>1, <1>3, <2>1, <2>2, <2>4, <3>2
    <3> QED  BY <3>1, <3>2
  <2> QED  BY <2>3, <2>4
<1> QED  BY <1>1, <1>4, <1>5, <1>6 DEF RowsInv

\* Threads that save the project of a row that begins are not alone any more.
LEMMA JoinedIsGood ==
  ASSUME DirectoryInv, NEW p \in Projects,
         saver' = Joined(p), locked' = locked \union {p},
         UNCHANGED <<technology, project, links, deciding, saves, decisions, chosen,
                     settled>>
  PROVE  DirectoryInv'
<1>1. /\ saver \in [Savers -> Save] /\ saver' \in [Savers -> Save]
      /\ \A t \in Savers :
           /\ saver'[t].op = saver[t].op /\ saver'[t].p = saver[t].p
           /\ saver'[t].row = saver[t].row /\ saver'[t].left = saver[t].left
           /\ saver'[t].alone
                => saver[t].alone /\ ~(saver[t].op # "none" /\ saver[t].p = p)
  BY JoinedKeepsSaves DEF DirectoryInv, DirectoryTypeOK
<1>2. DirectoryTypeOK'
  BY <1>1 DEF DirectoryInv, DirectoryTypeOK
<1>3. SaversHoldRows' /\ SettledFollow'
  BY <1>1 DEF DirectoryInv, SaversHoldRows, SettledFollow, Exists
<1>4. LinkedNamesAreKnown' /\ ApprovedWereChosen' /\ SourcesAreChosen'
  BY <1>1 DEF DirectoryInv, LinkedNamesAreKnown, ApprovedWereChosen, SourcesAreChosen,
              Known, Exists
<1>5. AloneIsAlone'
  BY <1>1 DEF DirectoryInv, AloneIsAlone
<1> QED  BY <1>2, <1>3, <1>4, <1>5 DEF DirectoryInv

\* A row that begins waits for no other one of its EPP, and who saves the project
\* is not alone any more.
LEMMA BeginRowIsGood ==
  ASSUME ImportInv, NEW i \in Importers, BeginRow(i)
  PROVE  ImportInv'
<1> DEFINE k == imp[i].next
           p == RefOf(i)
           r == [imp[i] EXCEPT !.open = TRUE, !.isNew = ~Exists(p), !.left = RowOf(i).tags]
<1>1. /\ imp \in [Importers -> Importer] /\ imp[i] \in Importer
      /\ imp[i].rows \in Sheets /\ imp[i].held \subseteq Technology
  BY DEF ImportInv, ImportersTypeOK, Importer
<1>2. /\ Reading(i) /\ ~imp[i].open /\ RowOf(i).kind = "full" /\ ~EppLocked(i)
      /\ TeamSize(RowOf(i).places) >= 0
      /\ imp' = [imp EXCEPT ![i] = r]
      /\ locked' = locked \union {p}
      /\ saver' = Joined(p)
      /\ UNCHANGED <<technology, project, links, deciding, saves, decisions, chosen,
                     settled, epp>>
      /\ Unchanging
  <2>1. imp' = [imp EXCEPT ![i].open = TRUE, ![i].isNew = ~Exists(RefOf(i)),
                           ![i].left = RowOf(i).tags]
    BY DEF BeginRow
  <2>2. imp' = [imp EXCEPT ![i] = r]
    BY <1>1, <2>1 DEF Importer
  <2> HIDE DEF r
  <2> QED  BY <2>2 DEF BeginRow, Between
<1>3. k \in Full(imp[i].rows)
  <2>1. k \in 1 .. Len(imp[i].rows) /\ DOMAIN imp[i].rows = 1 .. Len(imp[i].rows)
    BY <1>1, <1>2, CompleteRows DEF Reading, ImportInv, ImportersTypeOK, Importer
  <2> QED  BY <1>2, <2>1 DEF Full, RowOf
<1>4. /\ RowOf(i).tags \in Seq(Technology) /\ p \in Imported /\ p \in Projects
      /\ p[1] = RowOf(i).epp
  BY <1>1, <1>3, CompleteRows DEF RowOf, RefOf
<1>5. /\ r \in Importer /\ r.open /\ r.kind = imp[i].kind /\ r.rows = imp[i].rows
      /\ r.next = imp[i].next /\ r.left = RowOf(i).tags /\ r.held = imp[i].held
      /\ r.isNew = ~Exists(p)
  <2>1. (~Exists(p)) \in BOOLEAN
    BY DEF Exists
  <2> HIDE DEF Stats, Sheets, Kinds, p
  <2> QED  BY <1>1, <1>4, <2>1 DEF Importer
<1>6. p = Ref(imp[i].rows, imp[i].next) /\ RowOf(i) = imp[i].rows[imp[i].next]
  BY DEF RefOf, RowOf
<1> HIDE DEF r, p
<1>7. /\ imp' \in [Importers -> Importer] /\ imp'[i] = r
      /\ \A j \in Importers \ {i} : imp'[j] = imp[j]
  BY <1>1, <1>2, <1>5
<1>8. RowOf(i)' = RowOf(i) /\ RefOf(i)' = p
  BY <1>5, <1>6, <1>7 DEF RowOf, RefOf
<1>9. Known' = Known /\ \A q : Exists(q)' <=> Exists(q)
  BY <1>2 DEF Known, Exists
<1>10. imp[i].held = {} /\ imp[i].kind # "none"
  BY <1>2 DEF ImportInv, ImportersTypeOK, Reading
<1>11. Held(i)' = {p}
  BY <1>5, <1>7, <1>8, <1>10 DEF Held
<1>12. Names(RowOf(i).tags) = TagsOf(RowOf(i))
  BY DEF Names, TagsOf
<1>13. OpenRow(i)'
  <2>1. imp'[i].kind # "none" /\ imp'[i].next \in Full(imp'[i].rows)
    BY <1>3, <1>5, <1>7, <1>10
  <2>2. TeamSize(RowOf(i)'.places) >= 0 /\ (imp'[i].isNew <=> ~Exists(RefOf(i))')
    BY <1>2, <1>5, <1>7, <1>8, <1>9
  <2>3. imp'[i].held = {} /\ Names(imp'[i].left) = TagsOf(RowOf(i)')
    BY <1>5, <1>7, <1>8, <1>10, <1>12
  <2> QED  BY <2>1, <2>2, <2>3 DEF OpenRow
<1>14. \A j \in Importers \ {i} :
         imp[j].open => RowOf(i)'.epp # RowOf(j).epp /\ r.held \intersect imp[j].held = {}
  BY <1>2, <1>5, <1>8, <1>10 DEF EppLocked
<1>15. /\ RowsInv' /\ imp' \in [Importers -> Importer]
  BY <1>2, <1>5, <1>11, <1>13, <1>14, RowHoldsMore
<1>16. DirectoryInv'
  BY <1>2, <1>4, JoinedIsGood DEF ImportInv
<1>17. ImportersTypeOK'
  BY <1>2, <1>5, <1>7, <1>15 DEF ImportInv, ImportersTypeOK
<1>18. CallersTypeOK'
  <2>1. RunsInHand'
    BY <1>2, <1>5, <1>7 DEF ImportInv, CallersTypeOK, RunsInHand, Unchanging, Importers
  <2> QED  BY <1>2, <2>1 DEF ImportInv, CallersTypeOK, Unchanging
<1> QED  BY <1>15, <1>16, <1>17, <1>18 DEF ImportInv

\* The next name of an open row: only read, or written and locked.
LEMMA TagRowIsGood ==
  ASSUME ImportInv, NEW i \in Importers, TagRow(i)
  PROVE  ImportInv'
<1> DEFINE x == Head(imp[i].left)
           written == technology[x] # "approved" /\ x \notin imp[i].held
           S == IF written THEN {x} ELSE {}
           r == [imp[i] EXCEPT !.left = Tail(imp[i].left), !.held = imp[i].held \union S]
<1>1. /\ imp \in [Importers -> Importer] /\ imp[i] \in Importer
      /\ imp[i].left \in Seq(Technology) /\ imp[i].held \subseteq Technology
  BY DEF ImportInv, ImportersTypeOK, Importer
<1>2. /\ imp[i].open /\ imp[i].left # <<>>
      /\ written => x \notin locked
      /\ UNCHANGED <<technology, project, links, saver, deciding, saves, decisions,
                     chosen, settled, epp>>
      /\ Unchanging
  BY DEF TagRow
<1>3. imp' = [imp EXCEPT ![i] = r] /\ locked' = locked \union S
  <2>1. /\ imp' = [imp EXCEPT ![i].left = Tail(@),
                              ![i].held = IF written THEN @ \union {x} ELSE @]
        /\ locked' = IF written THEN locked \union {x} ELSE locked
    BY DEF TagRow
  <2>2. CASE written
    BY <1>1, <2>1, <2>2 DEF Importer
  <2>3. CASE ~written
    BY <1>1, <2>1, <2>3 DEF Importer
  <2> QED  BY <2>2, <2>3
<1>4. /\ x \in Technology /\ Tail(imp[i].left) \in Seq(Technology)
      /\ Names(imp[i].left) = {x} \union Names(Tail(imp[i].left))
  BY <1>1, <1>2, NamesOfTail
<1>5. S \subseteq Technology /\ imp[i].held \union S \in SUBSET Technology
  BY <1>1, <1>4
<1>6. /\ r \in Importer /\ r.open /\ r.kind = imp[i].kind /\ r.rows = imp[i].rows
      /\ r.next = imp[i].next /\ r.isNew = imp[i].isNew
      /\ r.left = Tail(imp[i].left) /\ r.held = imp[i].held \union S
  <2> HIDE DEF Stats, Sheets, Kinds, S, x
  <2> QED  BY <1>1, <1>2, <1>4, <1>5 DEF Importer
<1>7. x \in S \cup imp[i].held \cup Known
  BY <1>4 DEF Known
<1>8. \A j \in Importers \ {i} : imp[j].open => S \intersect imp[j].held = {}
  <2>1. \A y \in S : y \notin locked
    BY <1>2
  <2>2. \A j \in Importers : imp[j].open => imp[j].held \subseteq locked
    BY DEF ImportInv, RowsInv, LockedIsHeld, Held
  <2> QED  BY <2>1, <2>2
<1> HIDE DEF r, S, written, x
<1>9. /\ imp' \in [Importers -> Importer] /\ imp'[i] = r
      /\ \A j \in Importers \ {i} : imp'[j] = imp[j]
  BY <1>1, <1>3, <1>6
<1>10. /\ RowOf(i)' = RowOf(i) /\ RefOf(i)' = RefOf(i) /\ Held(i)' = S \union Held(i)
  BY <1>6, <1>9 DEF RowOf, RefOf, Held
<1>11. Known' = Known /\ (Exists(RefOf(i))' <=> Exists(RefOf(i)))
  BY <1>2, <1>10 DEF Known, Exists
<1>12. OpenRow(i)'
  <2>1. OpenRow(i)
    BY <1>2, OpenRowFacts
  <2>2. /\ imp'[i].kind # "none" /\ imp'[i].next \in Full(imp'[i].rows)
        /\ TeamSize(RowOf(i)'.places) >= 0 /\ (imp'[i].isNew <=> ~Exists(RefOf(i))')
    BY <1>6, <1>9, <1>10, <1>11, <2>1 DEF OpenRow
  <2>3. /\ imp[i].held \union Names(imp[i].left) \subseteq TagsOf(RowOf(i))
        /\ TagsOf(RowOf(i)) \subseteq imp[i].held \union Names(imp[i].left) \union Known
    BY <2>1 DEF OpenRow
  <2>4. S \subseteq {x}
    BY DEF S
  <2>5. /\ imp'[i].held \union Names(imp'[i].left) \subseteq TagsOf(RowOf(i)')
        /\ TagsOf(RowOf(i)') \subseteq imp'[i].held \union Names(imp'[i].left) \union Known'
    BY <1>4, <1>6, <1>7, <1>9, <1>10, <1>11, <2>3, <2>4
  <2> QED  BY <2>2, <2>5 DEF OpenRow
<1>13. \A j \in Importers \ {i} :
         imp[j].open => RowOf(i)'.epp # RowOf(j).epp /\ r.held \intersect imp[j].held = {}
  BY <1>2, <1>6, <1>8, <1>10 DEF ImportInv, RowsInv, Apart
<1>14. RowsInv'
  BY <1>2, <1>3, <1>6, <1>10, <1>12, <1>13, RowHoldsMore
<1>15. DirectoryInv'
  BY <1>2, <1>3, <1>5, LocksAreQuiet DEF ImportInv
<1>16. ImportersTypeOK'
  <2>1. \A j \in Importers : imp'[j].next = imp[j].next /\ imp'[j].rows = imp[j].rows
    BY <1>6, <1>9
  <2>2. \A j \in Importers : ~imp'[j].open => imp'[j].held = {}
    BY <1>6, <1>9 DEF ImportInv, ImportersTypeOK
  <2> QED  BY <1>2, <1>9, <2>1, <2>2 DEF ImportInv, ImportersTypeOK
<1>17. CallersTypeOK'
  <2>1. RunsInHand'
    BY <1>2, <1>6, <1>9 DEF ImportInv, CallersTypeOK, RunsInHand, Unchanging, Importers
  <2> QED  BY <1>2, <2>1 DEF ImportInv, CallersTypeOK, Unchanging
<1> QED  BY <1>14, <1>15, <1>16, <1>17 DEF ImportInv

\* What the commit of a row writes.
LEMMA CommitWrites ==
  ASSUME ImportInv, NEW i \in Importers, CommitRow(i)
  PROVE  /\ imp[i].open
         /\ epp' \in [EPPs -> {"free"} \union SourceStatuses]
         /\ epp'[RowOf(i).epp] # "free"
         /\ \A e \in EPPs : epp[e] # "free" => epp'[e] # "free"
         /\ \A e \in EPPs \ {RowOf(i).epp} : epp'[e] = epp[e]
         /\ project' \in [Projects -> Row] /\ project'[RefOf(i)].status # "free"
         /\ project'[RefOf(i)].tags = TagsOf(RowOf(i)) /\ project'[RefOf(i)].epp
         /\ \A q \in Projects \ {RefOf(i)} : project'[q] = project[q]
         /\ technology' \in [Technology -> {"free", "pending", "approved", "rejected"}]
         /\ \A x \in Technology : technology'[x] \in {technology[x], "approved"}
         /\ \A x \in Technology :
              technology'[x] = "approved" => x \in TagsOf(RowOf(i)) \/ technology[x] = "approved"
         /\ Known \subseteq Known' /\ TagsOf(RowOf(i)) \subseteq Known'
<1> DEFINE p == RefOf(i)
           r == RowOf(i)
           new == [status |-> ImportedStatus(p, r.status), tags |-> TagsOf(r),
                   places |-> TeamSize(r.places), epp |-> TRUE]
<1>1. /\ imp[i].open /\ imp[i].left = <<>> /\ r.status \in SourceStatuses
      /\ epp' = [epp EXCEPT ![r.epp] = r.status]
      /\ project' = [project EXCEPT ![p] = new]
      /\ technology' = [x \in Technology |->
                          IF x \in imp[i].held THEN "approved" ELSE technology[x]]
  BY DEF CommitRow
<1>2. /\ OpenRow(i) /\ r.epp \in EPPs /\ p \in Projects
      /\ TagsOf(r) \subseteq Technology
      /\ imp[i].rows \in Sheets /\ imp[i].next \in Full(imp[i].rows)
  BY <1>1, OpenRowFacts
<1>3. /\ epp \in [EPPs -> {"free"} \union SourceStatuses]
      /\ project \in [Projects -> Row]
      /\ technology \in [Technology -> {"free", "pending", "approved", "rejected"}]
  BY DEF ImportInv, ImportersTypeOK, DirectoryInv, DirectoryTypeOK
<1>4. r.status # "free"
  BY <1>1 DEF SourceStatuses
<1>5. /\ epp' \in [EPPs -> {"free"} \union SourceStatuses]
      /\ epp'[r.epp] # "free"
      /\ \A e \in EPPs : epp[e] # "free" => epp'[e] # "free"
      /\ \A e \in EPPs \ {r.epp} : epp'[e] = epp[e]
  <2> HIDE DEF r
  <2> QED  BY <1>1, <1>2, <1>3, <1>4
<1>6. new \in Row /\ new.status # "free" /\ new.tags = TagsOf(r) /\ new.epp
  <2>1. ImportedStatus(p, r.status) \in Statuses /\ ImportedStatus(p, r.status) # "free"
    <3>1. r.status \in Statuses
      BY <1>1 DEF SourceStatuses, Statuses
    <3>2. IsLocked(p) => project[p].status \in Statuses /\ project[p].status # "free"
      BY DEF IsLocked, Locked, Statuses
    <3> QED  BY <1>4, <3>1, <3>2 DEF ImportedStatus
  <2>2. TeamSize(r.places) \in Nat
    <3>1. r.places.halves \in Int
      BY <1>2, CompleteRows DEF RowOf
    <3>2. TeamSize(r.places) \in Int /\ TeamSize(r.places) >= 0
      BY <1>2, <3>1, PlacesAreIntegers DEF OpenRow
    <3> QED  BY <3>2
  <2> HIDE DEF p, r
  <2> QED  BY <1>2, <2>1, <2>2 DEF Row
<1> HIDE DEF new
<1>7. /\ project' \in [Projects -> Row] /\ project'[p] = new
      /\ \A q \in Projects \ {p} : project'[q] = project[q]
  BY <1>1, <1>2, <1>3, <1>6
<1>8. project'[p].status # "free"
  BY <1>6, <1>7
<1>9. imp[i].held \subseteq TagsOf(r) /\ TagsOf(r) \subseteq imp[i].held \union Known
  BY <1>1, <1>2 DEF OpenRow, Names
<1>10. /\ technology' \in [Technology -> {"free", "pending", "approved", "rejected"}]
       /\ \A x \in Technology : technology'[x] \in {technology[x], "approved"}
       /\ \A x \in Technology :
            technology'[x] = "approved" => x \in TagsOf(r) \/ technology[x] = "approved"
       /\ Known \subseteq Known'
  BY <1>1, <1>3, <1>9 DEF Known
<1>11. TagsOf(r) \subseteq Known'
  <2>1. imp[i].held \intersect Technology \subseteq Known'
    BY <1>1 DEF Known
  <2> QED  BY <1>2, <1>9, <1>10, <2>1
<1> QED  BY <1>1, <1>5, <1>6, <1>7, <1>8, <1>10, <1>11

\* The commit of a row keeps the directory.
LEMMA CommitKeepsDirectory ==
  ASSUME ImportInv, NEW i \in Importers, CommitRow(i), locked' \subseteq locked
  PROVE  DirectoryInv'
<1>1. DirectoryInv
  BY DEF ImportInv
<1>2. /\ imp[i].open
      /\ project' \in [Projects -> Row] /\ project'[RefOf(i)].status # "free"
      /\ project'[RefOf(i)].tags = TagsOf(RowOf(i)) /\ project'[RefOf(i)].epp
      /\ \A q \in Projects \ {RefOf(i)} : project'[q] = project[q]
      /\ technology' \in [Technology -> {"free", "pending", "approved", "rejected"}]
      /\ \A x \in Technology :
           technology'[x] = "approved" => x \in TagsOf(RowOf(i)) \/ technology[x] = "approved"
      /\ Known \subseteq Known' /\ TagsOf(RowOf(i)) \subseteq Known'
  BY CommitWrites
<1>3. RefOf(i) \in Projects /\ TagsOf(RowOf(i)) \subseteq Technology /\ RefOf(i) \in locked
  <2>1. RefOf(i) \in locked
    BY <1>2 DEF ImportInv, RowsInv, LockedIsHeld, Held
  <2> QED  BY <1>2, <2>1, OpenRowFacts
<1>4. /\ links' = [links EXCEPT ![RefOf(i)] = TagsOf(RowOf(i))]
      /\ chosen' = chosen \union TagsOf(RowOf(i))
      /\ settled' = IF WorkingOn(RefOf(i)) = {} THEN settled \union {RefOf(i)}
                    ELSE settled \ {RefOf(i)}
      /\ UNCHANGED <<saver, deciding, saves, decisions>>
  BY DEF CommitRow
<1> DEFINE p == RefOf(i)
           T == TagsOf(RowOf(i))
<1>5. /\ links' \in [Projects -> SUBSET Technology] /\ links'[p] = T
      /\ \A q \in Projects \ {p} : links'[q] = links[q]
  BY <1>1, <1>3, <1>4 DEF DirectoryInv, DirectoryTypeOK
<1> HIDE DEF p, T
<1>6. DirectoryTypeOK'
  BY <1>1, <1>2, <1>3, <1>4, <1>5 DEF DirectoryInv, DirectoryTypeOK, p, T
<1>7. \A t \in Savers : saver[t] \in Save /\ saver[t].p \in Projects
  BY <1>1 DEF DirectoryInv, DirectoryTypeOK, Save
<1>8. SaversHoldRows'
  BY <1>1, <1>2, <1>4, <1>7 DEF DirectoryInv, SaversHoldRows, Exists
<1>9. LinkedNamesAreKnown'
  <2>1. ASSUME NEW q \in Imported PROVE links'[q] \subseteq Known'
    <3>1. q \in Projects
      BY TagsAssumption
    <3>2. CASE q = p
      BY <1>2, <1>5, <3>2 DEF T
    <3>3. CASE q # p
      BY <1>1, <1>2, <1>5, <3>1, <3>3 DEF DirectoryInv, LinkedNamesAreKnown
    <3> QED  BY <3>2, <3>3
  <2>2. \A t \in Savers :
          saver'[t].op = "tag" /\ saver'[t].p \in Imported
            => saver'[t].row.tags \ saver'[t].left \subseteq Known'
    BY <1>1, <1>2, <1>4 DEF DirectoryInv, LinkedNamesAreKnown
  <2> QED  BY <2>1, <2>2 DEF LinkedNamesAreKnown
<1>10. SettledFollow'
  <2> SUFFICES ASSUME NEW q \in settled'
      PROVE  /\ project'[q].status # "free" /\ links'[q] = project'[q].tags
             /\ \A t \in Savers : ~(saver[t].op = "tag" /\ saver[t].p = q)
    BY <1>4 DEF SettledFollow, Exists
  <2>1. CASE q = p
    <3>1. WorkingOn(p) = {}
      BY <1>4, <2>1 DEF p
    <3> QED  BY <1>2, <1>5, <2>1, <3>1 DEF WorkingOn, p, T
  <2>2. CASE q # p
    <3>1. q \in settled
      BY <1>4, <2>2 DEF p
    <3>2. q \in Projects
      BY <1>1, <3>1 DEF DirectoryInv, DirectoryTypeOK
    <3>3. project'[q] = project[q] /\ links'[q] = links[q]
      BY <1>2, <1>5, <2>2, <3>2 DEF p
    <3> QED  BY <1>1, <3>1, <3>3 DEF DirectoryInv, SettledFollow, Exists
  <2> QED  BY <2>1, <2>2
<1>11. AloneIsAlone'
  <2> SUFFICES ASSUME NEW t \in Savers, saver[t].op # "none", saver[t].alone
      PROVE  /\ saver[t].p \notin locked'
             /\ \A u \in Savers : saver[u].op # "none" /\ saver[u].p = saver[t].p => u = t
             /\ saver[t].row.tags = project'[saver[t].p].tags
    BY <1>4 DEF AloneIsAlone
  <2>1. /\ saver[t].p \notin locked
        /\ \A u \in Savers : saver[u].op # "none" /\ saver[u].p = saver[t].p => u = t
        /\ saver[t].row.tags = project[saver[t].p].tags
    BY <1>1 DEF DirectoryInv, AloneIsAlone
  <2>2. saver[t].p # RefOf(i)
    BY <1>3, <2>1
  <2> QED  BY <1>2, <1>7, <2>1, <2>2
<1>12. ApprovedWereChosen'
  BY <1>1, <1>2, <1>4 DEF DirectoryInv, ApprovedWereChosen
<1>13. SourcesAreChosen'
  <2>1. ASSUME NEW q \in Projects
        PROVE  /\ project'[q].epp => project'[q].tags \subseteq chosen'
               /\ q \in Imported /\ Exists(q)' => project'[q].epp
    <3>1. CASE q = p
      BY <1>2, <1>4, <3>1 DEF p
    <3>2. CASE q # p
      <4>1. project'[q] = project[q]
        BY <1>2, <3>2 DEF p
      <4> QED  BY <1>1, <1>4, <4>1 DEF DirectoryInv, SourcesAreChosen, Exists
    <3> QED  BY <3>1, <3>2
  <2>2. \A u \in Savers :
          saver'[u].op # "none"
            => /\ saver'[u].row.epp => saver'[u].row.tags \subseteq chosen'
               /\ saver'[u].p \in Imported => saver'[u].row.epp
               /\ saver'[u].left \subseteq saver'[u].row.tags
    BY <1>1, <1>4 DEF DirectoryInv, SourcesAreChosen
  <2> QED  BY <2>1, <2>2 DEF SourcesAreChosen
<1> QED  BY <1>6, <1>8, <1>9, <1>10, <1>11, <1>12, <1>13 DEF DirectoryInv

\* What the commit of a row counts.
CommitStats(i) ==
  [imp[i].stats EXCEPT
     !.epps = IF epp[RowOf(i).epp] = "free" THEN @ + 1 ELSE @,
     !.created = IF imp[i].isNew THEN @ + 1 ELSE @,
     !.updated = IF imp[i].isNew THEN @ ELSE @ + 1,
     !.warnings = IF IsLocked(RefOf(i)) THEN @ + 1 ELSE @]

LEMMA CommitCounts ==
  ASSUME ImportInv, NEW i \in Importers
  PROVE  /\ CommitStats(i) \in Stats
         /\ CommitStats(i).errors = imp[i].stats.errors
         /\ CommitStats(i).skipped = imp[i].stats.skipped
         /\ imp[i].isNew => /\ CommitStats(i).created = imp[i].stats.created + 1
                            /\ CommitStats(i).updated = imp[i].stats.updated
         /\ ~imp[i].isNew => /\ CommitStats(i).created = imp[i].stats.created
                             /\ CommitStats(i).updated = imp[i].stats.updated + 1
<1>1. imp[i].stats \in Stats
  BY OneMore
<1> DEFINE a == IF epp[RowOf(i).epp] = "free" THEN imp[i].stats.epps + 1 ELSE imp[i].stats.epps
           b == IF imp[i].isNew THEN imp[i].stats.created + 1 ELSE imp[i].stats.created
           c == IF imp[i].isNew THEN imp[i].stats.updated ELSE imp[i].stats.updated + 1
           d == IF IsLocked(RefOf(i)) THEN imp[i].stats.warnings + 1 ELSE imp[i].stats.warnings
<1>2. CommitStats(i) = [imp[i].stats EXCEPT !.epps = a, !.created = b, !.updated = c,
                                            !.warnings = d]
  BY DEF CommitStats
<1>3. a \in Nat /\ b \in Nat /\ c \in Nat /\ d \in Nat
  BY <1>1 DEF Stats
<1>4. /\ imp[i].isNew => b = imp[i].stats.created + 1 /\ c = imp[i].stats.updated
      /\ ~imp[i].isNew => b = imp[i].stats.created /\ c = imp[i].stats.updated + 1
  OBVIOUS
<1> HIDE DEF a, b, c, d
<1>5. /\ CommitStats(i) \in Stats
      /\ CommitStats(i).errors = imp[i].stats.errors
      /\ CommitStats(i).skipped = imp[i].stats.skipped
      /\ CommitStats(i).created = b /\ CommitStats(i).updated = c
  BY <1>1, <1>2, <1>3 DEF Stats
<1> QED  BY <1>4, <1>5

LEMMA CommitRowIsGood ==
  ASSUME ImportInv, NEW i \in Importers, CommitRow(i)
  PROVE  /\ ImportInv' /\ imp'[i] = Closed(i, CommitStats(i))
         /\ \A j \in Importers \ {i} : imp'[j] = imp[j]
<1> DEFINE r == Closed(i, CommitStats(i))
<1>1. /\ imp[i].open
      /\ imp' = [imp EXCEPT ![i] = r]
      /\ locked' = locked \ (imp[i].held \union {RefOf(i)})
      /\ Unchanging
  BY DEF CommitRow, NextRow, CommitStats
<1>2. /\ r \in Importer /\ ~r.open /\ r.kind = imp[i].kind /\ r.held = {}
      /\ r.next <= Len(r.rows) + 1
  BY <1>1, OpenIsReading, CommitCounts, ClosedIsAnImporter
<1> HIDE DEF r
<1>3. Known \subseteq Known' /\ epp' \in [EPPs -> {"free"} \union SourceStatuses]
  BY CommitWrites
<1>4. ASSUME NEW p \in Imported, imp[i].open => p # RefOf(i)
      PROVE  Exists(p)' <=> Exists(p)
  <2>1. project'[p] = project[p]
    BY <1>1, <1>4, CommitWrites, TagsAssumption
  <2> QED  BY <2>1 DEF Exists
<1>5. /\ RowsInv' /\ imp' \in [Importers -> Importer] /\ imp'[i] = r
      /\ \A j \in Importers \ {i} : imp'[j] = imp[j]
      /\ locked' \subseteq locked
  BY <1>1, <1>2, <1>3, <1>4, RowCloses
<1>6. DirectoryInv'
  BY <1>5, CommitKeepsDirectory
<1>7. ImportersTypeOK'
  <2>1. \A j \in Importers : imp'[j].next <= Len(imp'[j].rows) + 1
    BY <1>2, <1>5 DEF ImportInv, ImportersTypeOK
  <2>2. \A j \in Importers : ~imp'[j].open => imp'[j].held = {}
    BY <1>2, <1>5 DEF ImportInv, ImportersTypeOK
  <2> QED  BY <1>3, <1>5, <2>1, <2>2 DEF ImportersTypeOK
<1>8. CallersTypeOK'
  <2>1. RunsInHand'
    BY <1>1, <1>2, <1>5 DEF ImportInv, CallersTypeOK, RunsInHand, Unchanging, Importers
  <2> QED  BY <1>1, <2>1 DEF ImportInv, CallersTypeOK, Unchanging
<1> QED  BY <1>5, <1>6, <1>7, <1>8 DEF ImportInv, r

\* Every step of a row.
LEMMA ImportRowIsGood ==
  ASSUME ImportInv, NEW i \in Importers, ImportRow(i)
  PROVE  ImportInv'
<1>1. CASE SkipRow(i)
  BY <1>1, SkipRowIsGood
<1>2. CASE RowIsRefused(i)
  BY <1>2, RollBackIsGood DEF RowIsRefused, Between
<1>3. CASE BeginRow(i)
  BY <1>3, BeginRowIsGood
<1>4. CASE TagRow(i)
  BY <1>4, TagRowIsGood
<1>5. CASE Deadlock(i)
  BY <1>5, OpenIsReading, RollBackIsGood DEF Deadlock
<1>6. CASE StatusIsRefused(i)
  BY <1>6, OpenIsReading, RollBackIsGood DEF StatusIsRefused
<1>7. CASE CommitRow(i)
  BY <1>7, CommitRowIsGood
<1> QED  BY <1>1, <1>2, <1>3, <1>4, <1>5, <1>6, <1>7 DEF ImportRow

-----------------------------------------------------------------------------
(***************************************************************************)
(* The callers.                                                            *)
(***************************************************************************)
LEMMA BoundsAreNaturals == MaxStarts \in Nat /\ MaxDeaths \in Nat
BY ImportBoundsAssumption

LEMMA IdleIsAnImporter ==
  /\ Idle \in Importer /\ ~Idle.open /\ Idle.held = {} /\ Idle.kind = "none"
  /\ Idle.next <= Len(Idle.rows) + 1
  /\ \A f \in Files, kind \in Kinds :
       LET r == [Idle EXCEPT !.kind = kind, !.rows = f.rows]
       IN  /\ r \in Importer /\ ~r.open /\ r.held = {} /\ r.kind = kind
           /\ r.next <= Len(r.rows) + 1
           /\ r.rows = f.rows /\ r.next = 1 /\ r.stats = NoStats
<1>1. NoStats \in Stats
  BY DEF NoStats, Stats
<1>2. <<>> \in Sheets /\ <<>> \in Seq(Technology) /\ "none" \in Kinds
  BY DEF Sheets, Kinds
<1>3. Idle \in Importer /\ ~Idle.open /\ Idle.held = {} /\ Idle.kind = "none"
  BY <1>1, <1>2 DEF Idle, Importer
<1>4. Idle.next <= Len(Idle.rows) + 1
  BY DEF Idle
<1>5. ASSUME NEW f \in Files, NEW kind \in Kinds
      PROVE  LET r == [Idle EXCEPT !.kind = kind, !.rows = f.rows]
             IN  /\ r \in Importer /\ ~r.open /\ r.held = {} /\ r.kind = kind
                 /\ r.next <= Len(r.rows) + 1
                 /\ r.rows = f.rows /\ r.next = 1 /\ r.stats = NoStats
  <2> DEFINE r == [Idle EXCEPT !.kind = kind, !.rows = f.rows]
  <2>1. f.rows \in Sheets
    BY DEF Sheets
  <2>2. /\ Idle.next = 1 /\ Idle.stats = NoStats
    BY DEF Idle
  <2>3. r \in Importer
    BY <1>3, <2>1 DEF Importer
  <2>4. /\ ~r.open /\ r.held = {} /\ r.kind = kind
        /\ r.rows = f.rows /\ r.next = 1 /\ r.stats = NoStats
    BY <1>3, <2>2 DEF Importer
  <2>5. Len(f.rows) \in Nat
    BY <2>1, CompleteRows
  <2> HIDE DEF r
  <2> QED  BY <2>3, <2>4, <2>5 DEF r
<1> QED  BY <1>3, <1>4, <1>5

\* An importer that has nothing to read, or has read it all, holds no row.
LEMMA NothingOpen ==
  ASSUME ImportInv, NEW i \in Importers, imp[i].kind = "none" \/ Ended(i)
  PROVE  ~imp[i].open
<1> SUFFICES ASSUME imp[i].open PROVE FALSE
  OBVIOUS
<1>1. Reading(i)
  BY OpenIsReading
<1> QED  BY <1>1 DEF Reading, Ended

\* A caller begins or ends an import, or only notes something.
LEMMA CallerIsGood ==
  ASSUME ImportInv, UNCHANGED directoryVars, UNCHANGED epp, CallersTypeOK',
         \/ UNCHANGED imp
         \/ \E i \in Importers : \E r \in Importer :
              /\ ~imp[i].open /\ imp' = [imp EXCEPT ![i] = r]
              /\ ~r.open /\ r.held = {} /\ r.next <= Len(r.rows) + 1
  PROVE  ImportInv'
<1>1. CASE UNCHANGED imp
  <2>1. DirectoryInv'
    BY LocksAreQuiet DEF ImportInv, directoryVars
  <2>2. RowsInv'
    <3>1. \A i \in Importers : RowOf(i)' = RowOf(i) /\ RefOf(i)' = RefOf(i) /\ Held(i)' = Held(i)
      BY <1>1 DEF RowOf, RefOf, Held
    <3>2. Known' = Known /\ locked' = locked /\ project' = project
      BY DEF directoryVars, Known
    <3>3. OpenRows'
      BY <1>1, <3>1, <3>2 DEF ImportInv, RowsInv, OpenRows, OpenRow, Exists
    <3>4. Apart' /\ LockedIsHeld'
      BY <1>1, <3>1, <3>2 DEF ImportInv, RowsInv, Apart, LockedIsHeld
    <3> QED  BY <3>3, <3>4 DEF RowsInv
  <2> QED  BY <1>1, <2>1, <2>2 DEF ImportInv, ImportersTypeOK
<1>2. ASSUME NEW i \in Importers, NEW r \in Importer,
             ~imp[i].open, imp' = [imp EXCEPT ![i] = r],
             ~r.open, r.held = {}, r.next <= Len(r.rows) + 1
      PROVE  ImportInv'
  BY <1>2, ClosedRowIsGood DEF directoryVars
<1> QED  BY <1>1, <1>2

\* A command of a container leaves the runs be.
LEMMA CommandKeeps ==
  ASSUME ImportInv, NEW i \in Containers, NEW kind, Command(i, kind)
  PROVE  /\ i \in Importers /\ i \notin Uploads /\ ~imp[i].open
         /\ starts' \in 0 .. MaxStarts
         /\ UNCHANGED directoryVars /\ UNCHANGED epp
         /\ UNCHANGED <<run, announced, deaths, claims>>
<1>1. i \in Importers /\ i \notin Uploads
  BY ImportBoundsAssumption DEF Importers
<1>2. starts' \in 0 .. MaxStarts
  <2>1. starts \in 0 .. MaxStarts /\ starts < MaxStarts /\ starts' = starts + 1
    BY DEF Command, ImportInv, CallersTypeOK
  <2> QED  BY <2>1, BoundsAreNaturals
<1>3. ~imp[i].open
  BY <1>1, NothingOpen DEF Command
<1> QED  BY <1>1, <1>2, <1>3 DEF Command

\* Runs are in hand when the importer that moved is no run's.
LEMMA RunsStayInHand ==
  ASSUME ImportInv, NEW i \in Importers, NEW r,
         imp' = imp \/ imp' = [imp EXCEPT ![i] = r],
         i \in Uploads /\ r.kind # "none" => run'[i] = "running",
         \A j \in Uploads \ {i} : run'[j] = run[j],
         imp' = imp => run' = run
  PROVE  RunsInHand'
<1>1. imp \in [Importers -> Importer] /\ RunsInHand /\ Uploads \subseteq Importers
  BY DEF ImportInv, ImportersTypeOK, CallersTypeOK, Importers
<1>2. CASE imp' = imp
  BY <1>1, <1>2 DEF RunsInHand
<1>3. CASE imp' = [imp EXCEPT ![i] = r]
  <2>1. ASSUME NEW j \in Uploads, imp'[j].kind # "none" PROVE run'[j] = "running"
    <3>1. CASE j = i
      BY <1>1, <1>3, <2>1, <3>1
    <3>2. CASE j # i
      BY <1>1, <1>3, <2>1, <3>2 DEF RunsInHand
    <3> QED  BY <3>1, <3>2
  <2> QED  BY <2>1 DEF RunsInHand
<1> QED  BY <1>2, <1>3

\* A bootstrap that is refused, skipped, or has nothing to read.
LEMMA BootstrapWaits ==
  ASSUME ImportInv, NEW i \in Containers, BootstrapIsRefused(i) \/ BootstrapIsSkipped(i)
  PROVE  ImportInv'
<1>1. Command(i, "start") /\ UNCHANGED <<imp, state>> /\ serving' \subseteq serving \union {i}
  BY DEF BootstrapIsRefused, BootstrapIsSkipped
<1>2. RunsInHand'
  BY <1>1, CommandKeeps DEF ImportInv, CallersTypeOK, RunsInHand
<1>3. CallersTypeOK'
  BY <1>1, <1>2, CommandKeeps DEF ImportInv, CallersTypeOK
<1> QED  BY <1>1, <1>3, CommandKeeps, CallerIsGood

LEMMA BootstrapReadsIsGood ==
  ASSUME ImportInv, NEW i \in Containers, NEW kind \in Commands, NEW f \in Files,
         BootstrapReads(i, kind, f)
  PROVE  ImportInv'
<1> DEFINE r == [Idle EXCEPT !.kind = kind, !.rows = f.rows]
<1>1. /\ Command(i, kind) /\ kind \in {"start", "force"} /\ kind \in Kinds
      /\ i \in Importers /\ i \notin Uploads /\ ~imp[i].open
      /\ UNCHANGED <<run, announced, deaths, claims>>
  BY CommandKeeps DEF BootstrapReads, Kinds
<1>2. f.kind \in {"missing", "invalid", "damaged", "sheet"}
  BY FilesAssumption DEF FileKinds
<1>3. /\ state' \in {"in_progress", "skipped", "failed"}
      /\ serving' \subseteq serving \union {i}
      /\ UNCHANGED imp \/ imp' = [imp EXCEPT ![i] = r]
  <2>1. CASE f.kind \in {"missing", "invalid"}
    BY <2>1 DEF BootstrapReads, Up
  <2>2. CASE f.kind = "damaged"
    BY <2>2 DEF BootstrapReads
  <2>3. CASE f.kind = "sheet"
    BY <2>3 DEF BootstrapReads, Opened
  <2> QED  BY <1>2, <2>1, <2>2, <2>3
<1>4. /\ r \in Importer /\ ~r.open /\ r.held = {} /\ r.next <= Len(r.rows) + 1
  BY <1>1, IdleIsAnImporter
<1> HIDE DEF r
<1>5. RunsInHand'
  BY <1>1, <1>3, RunsStayInHand
<1>6. CallersTypeOK'
  BY <1>1, <1>3, <1>5, CommandKeeps DEF ImportInv, CallersTypeOK
<1> QED  BY <1>1, <1>3, <1>4, <1>6, CommandKeeps, CallerIsGood

LEMMA CommandReadsIsGood ==
  ASSUME ImportInv, NEW i \in Containers, NEW f \in Files, CommandReads(i, f)
  PROVE  ImportInv'
<1> DEFINE r == [Idle EXCEPT !.kind = "import", !.rows = f.rows]
<1>1. /\ Command(i, "import") /\ imp' = [imp EXCEPT ![i] = r] /\ UNCHANGED <<state, serving>>
  BY DEF CommandReads, Opened
<1>2. /\ i \in Importers /\ i \notin Uploads /\ ~imp[i].open
      /\ UNCHANGED <<run, announced, deaths, claims>>
  BY <1>1, CommandKeeps
<1>3. /\ r \in Importer /\ ~r.open /\ r.held = {} /\ r.next <= Len(r.rows) + 1
  BY IdleIsAnImporter DEF Kinds
<1> HIDE DEF r
<1>4. RunsInHand'
  BY <1>1, <1>2, RunsStayInHand
<1>5. CallersTypeOK'
  BY <1>1, <1>2, <1>4, CommandKeeps DEF ImportInv, CallersTypeOK
<1> QED  BY <1>1, <1>2, <1>3, <1>5, CommandKeeps, CallerIsGood

\* What an import reports is one of the files.
LEMMA ReportKeeps ==
  ASSUME ImportInv, NEW i \in Importers, Report(i)
  PROVE  /\ imp' = [imp EXCEPT ![i] = Idle] /\ claims' \subseteq Sheets
         /\ UNCHANGED <<epp, starts, deaths>>
<1>1. imp[i].rows \in Sheets /\ claims \subseteq Sheets
  BY DEF ImportInv, ImportersTypeOK, CallersTypeOK, Importer
<1> QED  BY <1>1 DEF Report

\* The import of a container ends, with a state or without.
LEMMA ContainerEnds ==
  ASSUME ImportInv, NEW i \in Containers, BootstrapEnds(i) \/ CommandEnds(i)
  PROVE  ImportInv'
<1>1. i \in Importers /\ i \notin Uploads
  BY ImportBoundsAssumption DEF Importers
<1>2. /\ Ended(i) /\ Report(i) /\ UNCHANGED directoryVars /\ UNCHANGED <<run, announced>>
      /\ serving' \subseteq serving \union {i}
      /\ state' \in {state, "failed", "succeeded_with_errors", "succeeded"}
  BY DEF BootstrapEnds, CommandEnds, Up
<1>3. /\ imp' = [imp EXCEPT ![i] = Idle] /\ claims' \subseteq Sheets
      /\ UNCHANGED <<epp, starts, deaths>>
  BY <1>1, <1>2, ReportKeeps
<1>4. ~imp[i].open
  BY <1>1, <1>2, NothingOpen
<1>5. RunsInHand'
  BY <1>1, <1>2, <1>3, RunsStayInHand
<1>6. CallersTypeOK'
  BY <1>1, <1>2, <1>3, <1>5 DEF ImportInv, CallersTypeOK
<1> QED  BY <1>1, <1>2, <1>3, <1>4, <1>6, IdleIsAnImporter, CallerIsGood

\* A run begins, or fails at once.
LEMMA UploadIsGood ==
  ASSUME ImportInv, NEW i \in Uploads, NEW f \in Files, Upload(i, f)
  PROVE  ImportInv'
<1> DEFINE r == [Idle EXCEPT !.kind = "upload", !.rows = f.rows]
<1>1. i \in Importers /\ run \in [Uploads -> {"none", "running", "completed", "failed"}]
  BY DEF Importers, ImportInv, CallersTypeOK
<1>2. /\ run[i] = "none"
      /\ \/ run' = [run EXCEPT ![i] = "running"] /\ imp' = [imp EXCEPT ![i] = r]
         \/ run' = [run EXCEPT ![i] = "failed"] /\ UNCHANGED imp
      /\ UNCHANGED <<directoryVars, epp, state, serving, announced, starts, deaths,
                     created, lost, claims>>
  BY DEF Upload, Opened
<1>3. imp[i].kind = "none" /\ ~imp[i].open
  <2>1. imp[i].kind = "none"
    BY <1>2 DEF ImportInv, CallersTypeOK, RunsInHand
  <2> QED  BY <1>1, <2>1, NothingOpen
<1>4. /\ r \in Importer /\ ~r.open /\ r.held = {} /\ r.next <= Len(r.rows) + 1
  BY IdleIsAnImporter DEF Kinds
<1> HIDE DEF r
<1>5. RunsInHand'
  <2>1. CASE run' = [run EXCEPT ![i] = "running"] /\ imp' = [imp EXCEPT ![i] = r]
    <3>1. run'[i] = "running" /\ \A j \in Uploads \ {i} : run'[j] = run[j]
      BY <1>1, <2>1
    <3>2. imp' = [imp EXCEPT ![i] = r] /\ imp \in [Importers -> Importer]
      BY <2>1 DEF ImportInv, ImportersTypeOK
    <3>3. \A j \in Uploads \ {i} : imp'[j] = imp[j]
      BY <3>2 DEF Importers
    <3> QED  BY <3>1, <3>3 DEF ImportInv, CallersTypeOK, RunsInHand
  <2>2. CASE run' = [run EXCEPT ![i] = "failed"] /\ UNCHANGED imp
    BY <1>1, <1>3, <2>2 DEF ImportInv, CallersTypeOK, RunsInHand
  <2> QED  BY <1>2, <2>1, <2>2
<1>6. CallersTypeOK'
  BY <1>1, <1>2, <1>5 DEF ImportInv, CallersTypeOK
<1> QED  BY <1>1, <1>2, <1>3, <1>4, <1>6, CallerIsGood

\* A run is completed, and then announced or failed.
LEMMA RunEnds ==
  ASSUME ImportInv, NEW i \in Uploads, UploadEnds(i) \/ Announce(i)
  PROVE  ImportInv'
<1>1. /\ i \in Importers /\ run \in [Uploads -> {"none", "running", "completed", "failed"}]
      /\ imp \in [Importers -> Importer]
  BY DEF Importers, ImportInv, CallersTypeOK, ImportersTypeOK
<1>2. CASE UploadEnds(i)
  <2>1. /\ Ended(i) /\ Report(i) /\ run' = [run EXCEPT ![i] = "completed"]
        /\ UNCHANGED directoryVars /\ UNCHANGED <<state, serving, announced>>
    BY <1>2 DEF UploadEnds
  <2>2. /\ imp' = [imp EXCEPT ![i] = Idle] /\ claims' \subseteq Sheets
        /\ UNCHANGED <<epp, starts, deaths>>
    BY <1>1, <2>1, ReportKeeps
  <2>3. ~imp[i].open
    BY <1>1, <2>1, NothingOpen
  <2>4. RunsInHand'
    <3>1. \A j \in Uploads \ {i} : imp'[j] = imp[j] /\ run'[j] = run[j]
      BY <1>1, <2>1, <2>2 DEF Importers
    <3>2. imp'[i].kind = "none"
      BY <1>1, <2>2, IdleIsAnImporter
    <3> QED  BY <3>1, <3>2 DEF ImportInv, CallersTypeOK, RunsInHand
  <2>5. CallersTypeOK'
    BY <1>1, <2>1, <2>2, <2>4 DEF ImportInv, CallersTypeOK
  <2> QED  BY <1>1, <2>1, <2>2, <2>3, <2>5, IdleIsAnImporter, CallerIsGood
<1>3. CASE Announce(i)
  <2>1. /\ run[i] = "completed"
        /\ announced' \subseteq announced \union {i}
        /\ run' = run \/ run' = [run EXCEPT ![i] = "failed"]
        /\ UNCHANGED directoryVars
        /\ UNCHANGED <<epp, imp, state, serving, starts, deaths, created, lost, claims>>
    BY <1>3 DEF Announce
  <2>2. RunsInHand'
    BY <1>1, <2>1 DEF ImportInv, CallersTypeOK, RunsInHand
  <2>3. CallersTypeOK'
    BY <1>1, <2>1, <2>2 DEF ImportInv, CallersTypeOK
  <2> QED  BY <2>1, <2>3, CallerIsGood
<1> QED  BY <1>2, <1>3

LEMMA ImportDiesIsGood ==
  ASSUME ImportInv, NEW i \in Importers, ImportDies(i)
  PROVE  ImportInv'
<1>1. /\ imp' = [imp EXCEPT ![i] = Idle] /\ deaths < MaxDeaths /\ deaths' = deaths + 1
      /\ locked' = IF imp[i].open THEN locked \ (imp[i].held \union {RefOf(i)}) ELSE locked
      /\ serving' = serving \ {i}
      /\ state' \in {state, "corrupt"}
      /\ UNCHANGED <<technology, project, links, saver, deciding, saves, decisions,
                     chosen, settled, epp, run, announced, starts, created, claims>>
  BY DEF ImportDies
<1>2. RunsInHand'
  BY <1>1, IdleIsAnImporter, RunsStayInHand
<1>3. CallersTypeOK'
  <2>1. deaths' \in 0 .. MaxDeaths
    <3>1. deaths \in 0 .. MaxDeaths
      BY DEF ImportInv, CallersTypeOK
    <3> QED  BY <1>1, <3>1, BoundsAreNaturals
  <2> QED  BY <1>1, <1>2, <2>1 DEF ImportInv, CallersTypeOK
<1> QED  BY <1>1, <1>3, IdleIsAnImporter, ClosedRowIsGood

\* Saves and moderators beside the imports.
LEMMA DirectoryBesideImports ==
  ASSUME ImportInv, DirectoryNext, UNCHANGED importVars
  PROVE  ImportInv'
<1>1. DirectoryKept
  BY DirectoryStepIsGood DEF ImportInv
<1>2. UNCHANGED <<epp, imp, state, serving, run, announced, starts, deaths, claims>>
  BY DEF importVars
<1>3. RowsInv'
  <2>1. \A i \in Importers :
          /\ imp'[i] = imp[i]
          /\ RowOf(i)' = RowOf(i) /\ RefOf(i)' = RefOf(i) /\ Held(i)' = Held(i)
    BY <1>2 DEF RowOf, RefOf, Held
  <2>2. ASSUME NEW i \in Importers, imp[i].open PROVE OpenRow(i)'
    <3>1. RefOf(i) \in Imported
      BY <2>2, OpenRowFacts
    <3>2. Exists(RefOf(i))' <=> Exists(RefOf(i))
      BY <1>1, <2>1, <3>1 DEF DirectoryKept, Exists
    <3> QED  BY <1>1, <2>1, <2>2, <3>2, OthersStayOpen DEF DirectoryKept
  <2>3. OpenRows'
    BY <2>1, <2>2 DEF OpenRows
  <2>4. Apart' /\ LockedIsHeld'
    BY <1>1, <2>1 DEF ImportInv, RowsInv, Apart, LockedIsHeld, DirectoryKept
  <2> QED  BY <2>3, <2>4 DEF RowsInv
<1>4. ImportersTypeOK' /\ CallersTypeOK'
  BY <1>2 DEF ImportInv, ImportersTypeOK, CallersTypeOK, RunsInHand
<1> QED  BY <1>1, <1>3, <1>4 DEF ImportInv, DirectoryKept

LEMMA ImportInit == Init => ImportInv
<1> SUFFICES ASSUME Init PROVE ImportInv
  OBVIOUS
<1>1. DirectoryInv /\ locked = {}
  BY DirectoryInitHolds DEF Init, DirectoryInit
<1>2. \A i \in Importers : imp[i] = Idle
  BY DEF Init
<1>3. \A i \in Importers : ~imp[i].open /\ imp[i].kind = "none"
  BY <1>2, IdleIsAnImporter
<1>4. RowsInv
  BY <1>1, <1>3 DEF RowsInv, OpenRows, Apart, LockedIsHeld
<1>5. ImportersTypeOK
  BY <1>2, IdleIsAnImporter DEF ImportersTypeOK, Init
<1>6. CallersTypeOK
  <2>1. RunsInHand
    BY <1>3 DEF RunsInHand, Importers
  <2>2. 0 \in 0 .. MaxStarts /\ 0 \in 0 .. MaxDeaths
    BY BoundsAreNaturals
  <2> QED  BY <2>1, <2>2 DEF CallersTypeOK, Init
<1> QED  BY <1>1, <1>4, <1>5, <1>6 DEF ImportInv

LEMMA ImportStep ==
  ASSUME ImportInv, Next
  PROVE  ImportInv'
<1>1. CASE DirectoryNext /\ UNCHANGED importVars
  BY <1>1, DirectoryBesideImports
<1>2. ASSUME NEW i \in Importers, ImportRow(i) \/ ImportDies(i) PROVE ImportInv'
  BY <1>2, ImportRowIsGood, ImportDiesIsGood
<1>3. ASSUME NEW i \in Containers,
             \/ BootstrapIsRefused(i) \/ BootstrapIsSkipped(i)
             \/ BootstrapEnds(i) \/ CommandEnds(i)
      PROVE  ImportInv'
  BY <1>3, BootstrapWaits, ContainerEnds
<1>4. ASSUME NEW i \in Containers, NEW f \in Files,
             (\E kind \in Commands : BootstrapReads(i, kind, f)) \/ CommandReads(i, f)
      PROVE  ImportInv'
  BY <1>4, BootstrapReadsIsGood, CommandReadsIsGood
<1>5. ASSUME NEW i \in Uploads,
             (\E f \in Files : Upload(i, f)) \/ UploadEnds(i) \/ Announce(i)
      PROVE  ImportInv'
  BY <1>5, UploadIsGood, RunEnds
<1> QED  BY <1>1, <1>2, <1>3, <1>4, <1>5 DEF Next

\* The inductive invariant holds in every behaviour.
THEOREM ImportInvariant == Spec => []ImportInv
<1>1. ImportInv /\ [Next]_vars => ImportInv'
  <2> SUFFICES ASSUME ImportInv, UNCHANGED vars PROVE ImportInv'
    BY ImportStep
  <2>1. UNCHANGED directoryVars /\ UNCHANGED <<epp, imp>> /\ CallersTypeOK'
    BY DEF vars, importVars, ImportInv, CallersTypeOK, RunsInHand
  <2> QED  BY <2>1, CallerIsGood
<1> QED  BY ImportInit, <1>1, PTL DEF Spec

\* The importers, the directory and the callers are where the code can be, and
\* what is locked is what the open rows hold.
THEOREM ImportTypeCorrect == Spec => []TypeOK
BY ImportInvariant, ImportInvIsTyped, PTL

\* No name is approved but by a moderator, the spreadsheet or a form for a project with
\* the source "epp", and links follow tags, however saves, moderators and imports
\* interleave.
THEOREM DirectoryAlwaysHolds == Spec => []DirectoryHolds
<1>1. ImportInv => DirectoryHolds
  BY DEF ImportInv, DirectoryInv, DirectoryHolds, SettledFollow, LinksFollowTags
<1> QED  BY <1>1, ImportInvariant, PTL

-----------------------------------------------------------------------------
(***************************************************************************)
(* What a step is to the rows that are written and to what is counted: one *)
(* of six.                                                                 *)
(***************************************************************************)
SameRows ==
  /\ epp' = epp /\ UNCHANGED <<created, lost, claims>>
  /\ \A p \in Imported : Exists(p)' <=> Exists(p)
OthersSame(i) == \A j \in Importers \ {i} : imp'[j] = imp[j]

\* No importer got to another row.
Quiet ==
  /\ SameRows
  /\ \A i \in Importers :
       /\ imp'[i].kind = imp[i].kind /\ imp'[i].rows = imp[i].rows
       /\ imp'[i].next = imp[i].next /\ imp'[i].stats = imp[i].stats

\* A row was skipped because it is not complete, or rolled back with an error.
Passed(i) ==
  /\ SameRows /\ OthersSame(i) /\ Reading(i)
  /\ \/ /\ imp[i].next \notin Full(imp[i].rows)
        /\ imp'[i] = Closed(i, [imp[i].stats EXCEPT !.skipped = @ + 1])
     \/ imp'[i] = Closed(i, [imp[i].stats EXCEPT !.errors = @ + 1])

Began(i) ==
  /\ SameRows /\ OthersSame(i)
  /\ imp[i].kind = "none" /\ imp'[i].next = 1 /\ imp'[i].stats = NoStats

Reported(i) ==
  /\ epp' = epp /\ lost' = lost /\ OthersSame(i)
  /\ \A p \in Imported : Exists(p)' <=> Exists(p)
  /\ Ended(i) /\ imp'[i] = Idle
  /\ created' = created + imp[i].stats.created
  /\ claims' = IF imp[i].stats.errors = 0 THEN claims \union {imp[i].rows} ELSE claims

Died(i) ==
  /\ epp' = epp /\ lost' = TRUE /\ UNCHANGED <<created, claims>> /\ OthersSame(i)
  /\ \A p \in Imported : Exists(p)' <=> Exists(p)
  /\ imp'[i] = Idle

Shape ==
  \/ Quiet
  \/ \E i \in Importers :
       Passed(i) \/ CommitRow(i) \/ Began(i) \/ Reported(i) \/ Died(i)

LEMMA DirectoryShape ==
  ASSUME ImportInv, DirectoryNext, UNCHANGED importVars
  PROVE  Quiet
BY DirectoryStepIsGood DEF ImportInv, DirectoryKept, importVars, Quiet, SameRows

LEMMA LostRowShape ==
  ASSUME ImportInv, NEW i \in Importers, SkipRow(i) \/ (Reading(i) /\ RollBack(i))
  PROVE  Passed(i)
<1>1. SameRows
  BY DEF SkipRow, RollBack, Unchanging, SameRows, Exists
<1>2. CASE SkipRow(i)
  <2>1. imp[i].next \notin Full(imp[i].rows)
    BY <1>2 DEF SkipRow, RowOf, Full
  <2>2. /\ Reading(i) /\ OthersSame(i)
        /\ imp'[i] = Closed(i, [imp[i].stats EXCEPT !.skipped = @ + 1])
    BY <1>2, OneMore, LostRowIsGood DEF SkipRow, Between, OthersSame
  <2> QED  BY <1>1, <2>1, <2>2 DEF Passed
<1>3. CASE Reading(i) /\ RollBack(i)
  <2>1. /\ Reading(i) /\ OthersSame(i)
        /\ imp'[i] = Closed(i, [imp[i].stats EXCEPT !.errors = @ + 1])
    BY <1>3, OneMore, LostRowIsGood DEF RollBack, OthersSame
  <2> QED  BY <1>1, <2>1 DEF Passed
<1> QED  BY <1>2, <1>3

LEMMA OpenRowShape ==
  ASSUME ImportInv, NEW i \in Importers, BeginRow(i) \/ TagRow(i)
  PROVE  Quiet
<1>1. SameRows
  BY DEF BeginRow, TagRow, Unchanging, SameRows, Exists
<1>2. imp \in [Importers -> Importer]
  BY DEF ImportInv, ImportersTypeOK
<1>3. CASE BeginRow(i)
  <2>1. imp' = [imp EXCEPT ![i].open = TRUE, ![i].isNew = ~Exists(RefOf(i)),
                           ![i].left = RowOf(i).tags]
    BY <1>3 DEF BeginRow
  <2> QED  BY <1>1, <1>2, <2>1 DEF Importer, Quiet
<1>4. CASE TagRow(i)
  <2>1. PICK held : imp' = [imp EXCEPT ![i].left = Tail(@), ![i].held = held]
    BY <1>4 DEF TagRow
  <2> QED  BY <1>1, <1>2, <2>1 DEF Importer, Quiet
<1> QED  BY <1>3, <1>4

LEMMA ImportRowShape ==
  ASSUME ImportInv, NEW i \in Importers, ImportRow(i)
  PROVE  Quiet \/ Passed(i) \/ CommitRow(i)
<1>1. CASE SkipRow(i)
  BY <1>1, LostRowShape
<1>2. CASE RowIsRefused(i)
  BY <1>2, LostRowShape DEF RowIsRefused, Between
<1>3. CASE BeginRow(i) \/ TagRow(i)
  BY <1>3, OpenRowShape
<1>4. CASE Deadlock(i)
  BY <1>4, OpenIsReading, LostRowShape DEF Deadlock
<1>5. CASE StatusIsRefused(i)
  BY <1>5, OpenIsReading, LostRowShape DEF StatusIsRefused
<1> QED  BY <1>1, <1>2, <1>3, <1>4, <1>5 DEF ImportRow

\* A caller opens a file, or not.
LEMMA ReadShape ==
  ASSUME ImportInv, NEW i \in Importers, imp[i].kind = "none", NEW f \in Files,
         NEW kind \in Kinds, UNCHANGED imp \/ Opened(i, kind, f),
         UNCHANGED <<directoryVars, epp, created, lost, claims>>
  PROVE  Quiet \/ Began(i)
<1>1. SameRows /\ imp \in [Importers -> Importer]
  BY DEF SameRows, Exists, directoryVars, ImportInv, ImportersTypeOK
<1>2. CASE UNCHANGED imp
  BY <1>1, <1>2 DEF Quiet
<1>3. CASE Opened(i, kind, f)
  BY <1>1, <1>3, IdleIsAnImporter DEF Opened, Began, OthersSame
<1> QED  BY <1>2, <1>3

LEMMA ReportShape ==
  ASSUME ImportInv, NEW i \in Importers, Ended(i), Report(i), UNCHANGED directoryVars
  PROVE  Reported(i)
BY DEF Report, Reported, OthersSame, directoryVars, Exists, ImportInv, ImportersTypeOK

LEMMA DeathShape ==
  ASSUME ImportInv, NEW i \in Importers, ImportDies(i)
  PROVE  Died(i)
BY DEF ImportDies, Died, OthersSame, Exists, ImportInv, ImportersTypeOK

LEMMA StepHasShape ==
  ASSUME ImportInv, Next
  PROVE  Shape
<1>1. CASE DirectoryNext /\ UNCHANGED importVars
  BY <1>1, DirectoryShape DEF Shape
<1>2. ASSUME NEW i \in Importers, ImportRow(i) \/ ImportDies(i) PROVE Shape
  BY <1>2, ImportRowShape, DeathShape DEF Shape
<1>3. ASSUME NEW i \in Containers PROVE i \in Importers
  BY DEF Importers
<1>4. ASSUME NEW i \in Containers, BootstrapIsRefused(i) \/ BootstrapIsSkipped(i)
      PROVE  Shape
  BY <1>4
  DEF BootstrapIsRefused, BootstrapIsSkipped, Command, Shape, Quiet, SameRows, Exists,
      directoryVars
<1>5. ASSUME NEW i \in Containers, BootstrapEnds(i) \/ CommandEnds(i) PROVE Shape
  <2>1. Ended(i) /\ Report(i) /\ UNCHANGED directoryVars
    BY <1>5 DEF BootstrapEnds, CommandEnds
  <2> QED  BY <1>3, <2>1, ReportShape DEF Shape
<1>6. ASSUME NEW i \in Containers, NEW f \in Files, NEW kind \in Commands,
             BootstrapReads(i, kind, f)
      PROVE  Shape
  <2>1. /\ kind \in Kinds /\ imp[i].kind = "none"
        /\ UNCHANGED <<directoryVars, epp, created, lost, claims>>
    BY <1>6 DEF BootstrapReads, Command, Kinds
  <2>2. f.kind \in {"missing", "invalid", "damaged", "sheet"}
    BY FilesAssumption DEF FileKinds
  <2>3. UNCHANGED imp \/ Opened(i, kind, f)
    <3>1. CASE f.kind \in {"missing", "invalid"}
      BY <1>6, <3>1 DEF BootstrapReads
    <3>2. CASE f.kind = "damaged"
      BY <1>6, <3>2 DEF BootstrapReads
    <3>3. CASE f.kind = "sheet"
      BY <1>6, <3>3 DEF BootstrapReads
    <3> QED  BY <2>2, <3>1, <3>2, <3>3
  <2> QED  BY <1>3, <2>1, <2>3, ReadShape DEF Shape
<1>7. ASSUME NEW i \in Containers, NEW f \in Files, CommandReads(i, f) PROVE Shape
  <2>1. /\ "import" \in Kinds /\ imp[i].kind = "none" /\ Opened(i, "import", f)
        /\ UNCHANGED <<directoryVars, epp, created, lost, claims>>
    BY <1>7 DEF CommandReads, Command, Kinds
  <2> QED  BY <1>3, <2>1, ReadShape DEF Shape
<1>8. ASSUME NEW i \in Uploads PROVE i \in Importers
  BY DEF Importers
<1>9. ASSUME NEW i \in Uploads, NEW f \in Files, Upload(i, f) PROVE Shape
  <2>1. /\ "upload" \in Kinds /\ run[i] = "none"
        /\ UNCHANGED imp \/ Opened(i, "upload", f)
        /\ UNCHANGED <<directoryVars, epp, created, lost, claims>>
    BY <1>9 DEF Upload, Kinds
  <2>2. imp[i].kind = "none"
    BY <2>1 DEF ImportInv, CallersTypeOK, RunsInHand
  <2> QED  BY <1>8, <2>1, <2>2, ReadShape DEF Shape
<1>10. ASSUME NEW i \in Uploads, UploadEnds(i) PROVE Shape
  <2>1. Ended(i) /\ Report(i) /\ UNCHANGED directoryVars
    BY <1>10 DEF UploadEnds
  <2> QED  BY <1>8, <2>1, ReportShape DEF Shape
<1>11. ASSUME NEW i \in Uploads, Announce(i) PROVE Shape
  BY <1>11 DEF Announce, Shape, Quiet, SameRows, Exists, directoryVars
<1> QED
  BY <1>1, <1>2, <1>4, <1>5, <1>6, <1>7, <1>9, <1>10, <1>11 DEF Next

-----------------------------------------------------------------------------
(***************************************************************************)
(* Rows are whole, and imports without an error are complete.              *)
(***************************************************************************)
RowsAreTogether ==
  /\ \A p \in Imported : Exists(p) => epp[p[1]] # "free"
  /\ \A e \in EPPs : epp[e] # "free" => \E p \in Imported : p[1] = e /\ Exists(p)

\* What an import without an error went past is there.
There(rows, k) == Exists(Ref(rows, k)) /\ epp[rows[k].epp] # "free"
ThereBefore(rows, n) == \A k \in Full(rows) : k < n => There(rows, k)
CleanSoFar ==
  \A i \in Live :
    imp[i].stats.errors = 0 => ThereBefore(imp[i].rows, imp[i].next)

DoneInv == RowsAreTogether /\ CleanSoFar /\ CleanImportsAreComplete

\* Nothing that is there goes away.
NothingLost ==
  /\ \A p \in Imported : Exists(p) => Exists(p)'
  /\ \A e \in EPPs : epp[e] # "free" => epp'[e] # "free"

LEMMA ShapeLosesNothing ==
  ASSUME ImportInv, Shape
  PROVE  NothingLost
<1>1. CASE epp' = epp /\ \A p \in Imported : Exists(p)' <=> Exists(p)
  BY <1>1 DEF NothingLost
<1>2. ASSUME NEW i \in Importers, CommitRow(i) PROVE NothingLost
  <2>1. /\ \A e \in EPPs : epp[e] # "free" => epp'[e] # "free"
        /\ project'[RefOf(i)].status # "free"
        /\ \A q \in Projects \ {RefOf(i)} : project'[q] = project[q]
    BY <1>2, CommitWrites
  <2> QED  BY <2>1, TagsAssumption DEF NothingLost, Exists
<1> QED  BY <1>1, <1>2 DEF Shape, Quiet, SameRows, Passed, Began, Reported, Died

LEMMA ThereStays ==
  ASSUME NothingLost, NEW rows \in Sheets, NEW k \in Full(rows), There(rows, k)
  PROVE  There(rows, k)'
<1>1. Ref(rows, k) \in Imported /\ rows[k].epp \in EPPs
  BY CompleteRows
<1>2. There(rows, k)' <=> Exists(Ref(rows, k))' /\ epp'[rows[k].epp] # "free"
  BY DEF There
<1> QED  BY <1>1, <1>2 DEF There, NothingLost

LEMMA ThereBeforeStays ==
  ASSUME NothingLost, NEW rows \in Sheets, NEW n, ThereBefore(rows, n)
  PROVE  ThereBefore(rows, n)'
<1>1. ASSUME NEW k \in Full(rows), k < n PROVE There(rows, k)'
  BY <1>1, ThereStays DEF ThereBefore
<1> QED  BY <1>1 DEF ThereBefore

\* An importer that moved to its place in the file: what is before it is there.
LEMMA CleanAfter ==
  ASSUME \A i \in Importers : \A rows \in Sheets : \A n \in Nat :
           /\ imp'[i].kind # "none" /\ imp'[i].stats.errors = 0
           /\ rows = imp'[i].rows /\ n = imp'[i].next
           => ThereBefore(rows, n)',
         imp' \in [Importers -> Importer]
  PROVE  CleanSoFar'
<1> SUFFICES ASSUME NEW i \in Importers, imp'[i].kind # "none", imp'[i].stats.errors = 0
    PROVE  ThereBefore(imp[i].rows, imp[i].next)'
  BY DEF CleanSoFar, Live
<1>1. imp'[i].rows \in Sheets /\ imp'[i].next \in Nat
  BY DEF Importer
<1>2. PICK rows \in Sheets : rows = imp'[i].rows
  BY <1>1
<1>3. PICK n \in Nat : n = imp'[i].next
  BY <1>1
<1>4. ThereBefore(rows, n)'
  BY <1>2, <1>3
<1>5. ThereBefore(rows, n)' <=> ThereBefore(imp[i].rows, imp[i].next)'
  BY <1>2, <1>3 DEF ThereBefore, There, Exists
<1> QED  BY <1>4, <1>5

\* What was before an importer is still there.
LEMMA CleanWhereItWas ==
  ASSUME ImportInv, DoneInv, NothingLost, NEW i \in Importers, imp[i].kind # "none",
         imp[i].stats.errors = 0, NEW rows \in Sheets, rows = imp[i].rows
  PROVE  /\ \A n \in Nat : n = imp[i].next => ThereBefore(rows, n)'
         /\ ThereBefore(rows, imp[i].next)
<1>1. ThereBefore(rows, imp[i].next)
  BY DEF DoneInv, CleanSoFar, Live
<1> QED  BY <1>1, ThereBeforeStays

\* Every importer but one is where it was.
LEMMA CleanOthers ==
  ASSUME ImportInv, ImportInv', DoneInv, NothingLost, NEW i \in Importers, OthersSame(i),
         \A rows \in Sheets : \A n \in Nat :
           /\ imp'[i].kind # "none" /\ imp'[i].stats.errors = 0
           /\ rows = imp'[i].rows /\ n = imp'[i].next
           => ThereBefore(rows, n)'
  PROVE  CleanSoFar'
<1>1. ASSUME NEW j \in Importers, NEW rows \in Sheets, NEW n \in Nat,
             imp'[j].kind # "none", imp'[j].stats.errors = 0,
             rows = imp'[j].rows, n = imp'[j].next
      PROVE  ThereBefore(rows, n)'
  <2>1. CASE j = i
    BY <1>1, <2>1
  <2>2. CASE j # i
    <3>1. imp'[j] = imp[j]
      BY <2>2 DEF OthersSame
    <3> QED  BY <1>1, <3>1, CleanWhereItWas
  <2> QED  BY <2>1, <2>2
<1>2. imp' \in [Importers -> Importer]
  BY DEF ImportInv, ImportersTypeOK
<1> QED  BY <1>1, <1>2, CleanAfter

LEMMA QuietKeepsClean ==
  ASSUME ImportInv, ImportInv', DoneInv, NothingLost, Quiet
  PROVE  CleanSoFar'
<1>1. ASSUME NEW j \in Importers, NEW rows \in Sheets, NEW n \in Nat,
             imp'[j].kind # "none", imp'[j].stats.errors = 0,
             rows = imp'[j].rows, n = imp'[j].next
      PROVE  ThereBefore(rows, n)'
  BY <1>1, CleanWhereItWas DEF Quiet
<1>2. imp' \in [Importers -> Importer]
  BY DEF ImportInv, ImportersTypeOK
<1> QED  BY <1>1, <1>2, CleanAfter

\* A row that was skipped is not complete; one that was rolled back is an error.
LEMMA PassedKeepsClean ==
  ASSUME ImportInv, ImportInv', DoneInv, NothingLost, NEW i \in Importers, Passed(i)
  PROVE  CleanSoFar'
<1>1. ASSUME NEW rows \in Sheets, NEW n \in Nat,
             imp'[i].kind # "none", imp'[i].stats.errors = 0,
             rows = imp'[i].rows, n = imp'[i].next
      PROVE  ThereBefore(rows, n)'
  <2>1. Reading(i) /\ imp[i].stats \in Stats
    BY OneMore DEF Passed
  <2>2. CASE /\ imp[i].next \notin Full(imp[i].rows)
             /\ imp'[i] = Closed(i, [imp[i].stats EXCEPT !.skipped = @ + 1])
    <3>1. PICK stats : stats = [imp[i].stats EXCEPT !.skipped = @ + 1]
      OBVIOUS
    <3>2. stats \in Stats /\ stats.errors = imp[i].stats.errors
      BY <2>1, <3>1 DEF Stats
    <3>3. imp'[i] = Closed(i, stats)
      BY <2>2, <3>1
    <3>4. /\ imp'[i].rows = imp[i].rows /\ imp'[i].next = imp[i].next + 1
          /\ imp'[i].stats = stats
      BY <2>1, <3>2, <3>3, ClosedIsAnImporter
    <3>5. imp[i].kind # "none" /\ imp[i].stats.errors = 0 /\ rows = imp[i].rows
          /\ n = imp[i].next + 1
      BY <1>1, <2>1, <3>2, <3>4 DEF Reading
    <3>6. ThereBefore(rows, imp[i].next)
      BY <3>5, CleanWhereItWas
    <3>7. ThereBefore(rows, n)
      <4> SUFFICES ASSUME NEW k \in Full(rows), k < n PROVE There(rows, k)
        BY DEF ThereBefore
      <4>1. k \in Nat /\ imp[i].next \in Nat
        BY CompleteRows DEF ImportInv, ImportersTypeOK, Importer
      <4>2. k # imp[i].next
        BY <2>2, <3>5
      <4>3. k < imp[i].next
        BY <3>5, <4>1, <4>2
      <4> QED  BY <3>6, <4>3 DEF ThereBefore
    <3> QED  BY <3>7, ThereBeforeStays
  <2>3. CASE imp'[i] = Closed(i, [imp[i].stats EXCEPT !.errors = @ + 1])
    <3>1. PICK stats : stats = [imp[i].stats EXCEPT !.errors = @ + 1]
      OBVIOUS
    <3>2. stats \in Stats /\ stats.errors = imp[i].stats.errors + 1
      BY <2>1, <3>1 DEF Stats
    <3>3. imp'[i] = Closed(i, stats)
      BY <2>3, <3>1
    <3>4. imp'[i].stats = stats
      BY <2>1, <3>2, <3>3, ClosedIsAnImporter
    <3>5. imp[i].stats.errors \in Nat
      BY <2>1 DEF Stats
    <3> QED  BY <1>1, <3>2, <3>4, <3>5
  <2> QED  BY <2>2, <2>3 DEF Passed
<1>2. OthersSame(i)
  BY DEF Passed
<1> QED  BY <1>1, <1>2, CleanOthers

\* A row that was committed is there.
LEMMA CommitKeepsClean ==
  ASSUME ImportInv, ImportInv', DoneInv, NothingLost, NEW i \in Importers, CommitRow(i)
  PROVE  CleanSoFar'
<1>1. OthersSame(i) /\ imp'[i] = Closed(i, CommitStats(i))
  BY CommitRowIsGood DEF OthersSame
<1>2. /\ imp[i].open /\ epp'[RowOf(i).epp] # "free" /\ project'[RefOf(i)].status # "free"
  BY CommitWrites
<1>3. /\ imp'[i].rows = imp[i].rows /\ imp'[i].next = imp[i].next + 1
      /\ imp'[i].stats.errors = imp[i].stats.errors /\ imp[i].kind # "none"
  BY <1>1, <1>2, OpenIsReading, CommitCounts, ClosedIsAnImporter DEF Reading
<1>4. ASSUME NEW rows \in Sheets, NEW n \in Nat,
             imp'[i].kind # "none", imp'[i].stats.errors = 0,
             rows = imp'[i].rows, n = imp'[i].next
      PROVE  ThereBefore(rows, n)'
  <2>1. rows = imp[i].rows /\ n = imp[i].next + 1 /\ imp[i].stats.errors = 0
    BY <1>3, <1>4
  <2>2. imp[i].next \in Nat
    BY DEF ImportInv, ImportersTypeOK, Importer
  <2>3. PICK m \in Nat : m = imp[i].next
    BY <2>2
  <2>4. ThereBefore(rows, m)'
    BY <1>3, <2>1, <2>3, CleanWhereItWas
  <2>5. There(rows, m)'
    <3>1. Ref(rows, m) = RefOf(i) /\ rows[m].epp = RowOf(i).epp
      BY <2>1, <2>3 DEF RefOf, RowOf
    <3> QED  BY <1>2, <3>1 DEF There, Exists
  <2> SUFFICES ASSUME NEW k \in Full(rows), k < n PROVE There(rows, k)'
    BY DEF ThereBefore
  <2>6. k \in Nat
    BY CompleteRows
  <2>7. CASE k = m
    BY <2>5, <2>7
  <2>8. CASE k # m
    <3>1. k < m
      BY <2>1, <2>3, <2>6, <2>8
    <3> QED  BY <2>4, <3>1 DEF ThereBefore
  <2> QED  BY <2>7, <2>8
<1> QED  BY <1>1, <1>4, CleanOthers

\* An importer that begins has passed nothing.
LEMMA BeganKeepsClean ==
  ASSUME ImportInv, ImportInv', DoneInv, NothingLost, NEW i \in Importers, Began(i)
  PROVE  CleanSoFar'
<1>1. ASSUME NEW rows \in Sheets, NEW n \in Nat, n = imp'[i].next
      PROVE  ThereBefore(rows, n)'
  <2>1. n = 1
    BY <1>1 DEF Began
  <2> SUFFICES ASSUME NEW k \in Full(rows), k < n PROVE FALSE
    BY DEF ThereBefore
  <2>2. k \in 1 .. Len(rows) /\ Len(rows) \in Nat
    BY CompleteRows
  <2> QED  BY <2>1, <2>2
<1> QED  BY <1>1, CleanOthers DEF Began

\* An importer that is gone has nothing to show.
LEMMA IdleKeepsClean ==
  ASSUME ImportInv, ImportInv', DoneInv, NothingLost, NEW i \in Importers,
         OthersSame(i), imp'[i] = Idle
  PROVE  CleanSoFar'
BY IdleIsAnImporter, CleanOthers

\* What a report claims is there: the import read the file to its end.
LEMMA ReportIsTrue ==
  ASSUME ImportInv, DoneInv, NEW i \in Importers, Reported(i), imp[i].stats.errors = 0
  PROVE  \A k \in Full(imp[i].rows) : There(imp[i].rows, k)
<1>1. imp[i].rows \in Sheets /\ imp[i].next \in Nat
  BY DEF ImportInv, ImportersTypeOK, Importer
<1>2. imp[i].kind # "none" /\ ~(imp[i].next <= Len(imp[i].rows))
  BY DEF Reported, Ended, Reading
<1>3. ThereBefore(imp[i].rows, imp[i].next)
  BY <1>2 DEF DoneInv, CleanSoFar, Live
<1>4. ASSUME NEW k \in Full(imp[i].rows) PROVE k < imp[i].next
  BY <1>1, <1>2, CompleteRows
<1> QED  BY <1>3, <1>4 DEF ThereBefore

LEMMA ClaimsStayTrue ==
  ASSUME ImportInv, ImportInv', DoneInv, NothingLost, Shape
  PROVE  CleanImportsAreComplete'
<1>1. ASSUME NEW rows \in claims', NEW k \in Full(rows) PROVE There(rows, k)'
  <2>1. rows \in Sheets
    BY DEF ImportInv, CallersTypeOK
  <2>2. There(rows, k)
    <3>1. CASE rows \in claims
      BY <3>1 DEF DoneInv, CleanImportsAreComplete, There
    <3>2. CASE rows \notin claims
      <4>1. PICK i \in Importers : Reported(i)
        BY <3>2
        DEF Shape, Quiet, SameRows, Passed, Began, Died, CommitRow, Unchanging
      <4>2. imp[i].stats.errors = 0 /\ rows = imp[i].rows
        BY <3>2, <4>1 DEF Reported
      <4> QED  BY <4>1, <4>2, ReportIsTrue
    <3> QED  BY <3>1, <3>2
  <2> QED  BY <2>1, <2>2, ThereStays
<1> QED  BY <1>1 DEF CleanImportsAreComplete, There

LEMMA RowsStayTogether ==
  ASSUME ImportInv, DoneInv, NothingLost, Shape
  PROVE  RowsAreTogether'
<1>1. CASE epp' = epp /\ \A p \in Imported : Exists(p)' <=> Exists(p)
  BY <1>1 DEF DoneInv, RowsAreTogether
<1>2. ASSUME NEW i \in Importers, CommitRow(i) PROVE RowsAreTogether'
  <2>1. /\ imp[i].open /\ epp'[RowOf(i).epp] # "free"
        /\ project'[RefOf(i)].status # "free"
        /\ \A e \in EPPs \ {RowOf(i).epp} : epp'[e] = epp[e]
        /\ \A q \in Projects \ {RefOf(i)} : project'[q] = project[q]
    BY <1>2, CommitWrites
  <2>2. RefOf(i) \in Imported /\ RefOf(i)[1] = RowOf(i).epp /\ RowOf(i).epp \in EPPs
    BY <2>1, OpenRowFacts
  <2>3. ASSUME NEW p \in Imported, project'[p].status # "free" PROVE epp'[p[1]] # "free"
    <3>1. CASE p = RefOf(i)
      BY <2>1, <2>2, <3>1
    <3>2. CASE p # RefOf(i)
      <4>1. Exists(p)
        BY <2>1, <2>3, <3>2, TagsAssumption DEF Exists
      <4>2. epp[p[1]] # "free"
        BY <4>1 DEF DoneInv, RowsAreTogether
      <4>3. p[1] \in EPPs
        <5>1. PICK f \in Files : \E k \in Full(f.rows) : p = Ref(f.rows, k)
          BY ImportedAssumption
        <5>2. PICK k \in Full(f.rows) : p = Ref(f.rows, k)
          BY <5>1
        <5> QED  BY <5>1, <5>2, CompleteRows DEF Sheets
      <4> QED  BY <4>2, <4>3 DEF NothingLost
    <3> QED  BY <3>1, <3>2
  <2>4. ASSUME NEW e \in EPPs, epp'[e] # "free"
        PROVE  \E p \in Imported : p[1] = e /\ project'[p].status # "free"
    <3>1. CASE e = RowOf(i).epp
      BY <2>1, <2>2, <3>1
    <3>2. CASE e # RowOf(i).epp
      BY <2>1, <2>4, <3>2 DEF DoneInv, RowsAreTogether, NothingLost, Exists
    <3> QED  BY <3>1, <3>2
  <2> QED  BY <2>3, <2>4 DEF RowsAreTogether, Exists
<1> QED  BY <1>1, <1>2 DEF Shape, Quiet, SameRows, Passed, Began, Reported, Died

LEMMA DoneStep ==
  ASSUME ImportInv, ImportInv', DoneInv, Shape
  PROVE  DoneInv'
<1>1. NothingLost
  BY ShapeLosesNothing
<1>2. CleanSoFar'
  BY <1>1, QuietKeepsClean, PassedKeepsClean, CommitKeepsClean, BeganKeepsClean,
     IdleKeepsClean
  DEF Shape, Reported, Died
<1> QED  BY <1>1, <1>2, ClaimsStayTrue, RowsStayTogether DEF DoneInv

LEMMA DoneInit == Init => DoneInv
<1> SUFFICES ASSUME Init PROVE DoneInv
  OBVIOUS
<1>1. \A p \in Imported : ~Exists(p)
  BY TagsAssumption DEF Init, DirectoryInit, NoRow, Exists
<1>2. \A e \in EPPs : epp[e] = "free"
  BY DEF Init
<1>3. Live = {}
  BY IdleIsAnImporter DEF Init, Live
<1> QED
  BY <1>1, <1>2, <1>3
  DEF DoneInv, RowsAreTogether, CleanSoFar, CleanImportsAreComplete, Init

LEMMA DoneAlways == Spec => [](ImportInv /\ DoneInv)
<1>1. ImportInv /\ ImportInv' /\ DoneInv /\ [Next]_vars => DoneInv'
  <2>1. ASSUME ImportInv, ImportInv', DoneInv, Next PROVE DoneInv'
    BY <2>1, StepHasShape, DoneStep
  <2>2. ASSUME ImportInv, ImportInv', DoneInv, UNCHANGED vars PROVE DoneInv'
    <3>1. Quiet
      BY <2>2 DEF vars, directoryVars, importVars, Quiet, SameRows, Exists
    <3> QED  BY <2>2, <3>1, DoneStep DEF Shape
  <2> QED  BY <2>1, <2>2
<1> QED  BY ImportInvariant, DoneInit, <1>1, PTL DEF Spec

\* A row is imported as a whole or not at all.
THEOREM RowsAreAlwaysWhole == Spec => []RowsAreWhole
<1>1. ImportInv /\ DoneInv => RowsAreWhole
  <2> SUFFICES ASSUME ImportInv, DoneInv PROVE RowsAreWhole
    OBVIOUS
  <2>1. ASSUME NEW p \in Imported, NEW x \in links[p] PROVE technology[x] # "pending"
    BY <2>1 DEF ImportInv, DirectoryInv, LinkedNamesAreKnown, Known
  <2> QED  BY <2>1 DEF DoneInv, RowsAreTogether, RowsAreWhole
<1> QED  BY <1>1, DoneAlways, PTL

\* An import that reported no error is complete, whatever ran beside and after it.
THEOREM CleanImportsAreAlwaysComplete == Spec => []CleanImportsAreComplete
<1>1. DoneInv => CleanImportsAreComplete
  BY DEF DoneInv
<1> QED  BY <1>1, DoneAlways, PTL

-----------------------------------------------------------------------------
(***************************************************************************)
(* The statistics add up.  What the imports count as created is a set of   *)
(* pairs, so that one importer adds and takes away pairs of its own.       *)
(***************************************************************************)
Written == {p \in Imported : Exists(p)}
CountsOf(r) == IF r.kind = "none" THEN 0 ELSE r.stats.created
Pairs(f, S) == UNION {{i} \X (1 .. CountsOf(f[i])) : i \in S}
Counted == Pairs(imp, Importers)

\* A record of an importer has counted each row that it is past.
CountsItsRows(r) ==
  r.kind # "none" =>
    r.stats.created + r.stats.updated + r.stats.skipped + r.stats.errors = r.next - 1

CountInv ==
  /\ created \in Nat /\ IsFiniteSet(Written) /\ IsFiniteSet(Counted)
  /\ \A i \in Importers : CountsItsRows(imp[i])
  /\ ~lost => created + Cardinality(Counted) = Cardinality(Written)

\* What one importer has counted, beside what the others have.
LEMMA PairsOfOne ==
  ASSUME NEW f, NEW i \in Importers, CountsOf(f[i]) \in Nat
  PROVE  LET R == Pairs(f, Importers \ {i})
             O == {i} \X (1 .. CountsOf(f[i]))
         IN  /\ Pairs(f, Importers) = R \union O /\ R \intersect O = {}
             /\ IsFiniteSet(O) /\ Cardinality(O) = CountsOf(f[i])
<1> DEFINE R == Pairs(f, Importers \ {i})
           n == CountsOf(f[i])
           O == {i} \X (1 .. n)
<1>1. Pairs(f, Importers) = R \union O
  BY DEF Pairs
<1>2. R \intersect O = {}
  BY DEF Pairs
<1>3. IsFiniteSet(1 .. n) /\ Cardinality(1 .. n) = n
  <2> HIDE DEF n
  <2>1. n \in Nat
    BY DEF n
  <2> QED  BY <2>1, FS_Interval
<1>4. IsFiniteSet(O) /\ Cardinality(O) = Cardinality({i}) * Cardinality(1 .. n)
  <2> HIDE DEF n
  <2> QED  BY <1>3, FS_Singleton, FS_Product
<1>5. Cardinality(O) = n
  <2> HIDE DEF n, O
  <2>1. Cardinality({i}) = 1 /\ n \in Nat
    BY FS_Singleton DEF n
  <2> QED  BY <1>3, <1>4, <2>1
<1> QED  BY <1>1, <1>2, <1>4, <1>5

\* One importer moves: the pairs change by what it counts more or less.
LEMMA OneCountsAnew ==
  ASSUME NEW f, NEW g, NEW i \in Importers, \A j \in Importers \ {i} : g[j] = f[j],
         CountsOf(f[i]) \in Nat, CountsOf(g[i]) \in Nat,
         IsFiniteSet(Pairs(f, Importers))
  PROVE  /\ IsFiniteSet(Pairs(g, Importers))
         /\ Cardinality(Pairs(f, Importers)) \in Nat
         /\ Cardinality(Pairs(g, Importers))
              = Cardinality(Pairs(f, Importers)) - CountsOf(f[i]) + CountsOf(g[i])
<1> DEFINE R == Pairs(f, Importers \ {i})
           F == {i} \X (1 .. CountsOf(f[i]))
           G == {i} \X (1 .. CountsOf(g[i]))
<1>1. Pairs(g, Importers \ {i}) = R
  BY DEF Pairs
<1>2. /\ Pairs(f, Importers) = R \union F /\ R \intersect F = {}
      /\ IsFiniteSet(F) /\ Cardinality(F) = CountsOf(f[i])
  BY PairsOfOne
<1>3. /\ Pairs(g, Importers) = R \union G /\ R \intersect G = {}
      /\ IsFiniteSet(G) /\ Cardinality(G) = CountsOf(g[i])
  BY <1>1, PairsOfOne
<1> HIDE DEF R, F, G
<1>4. IsFiniteSet(R)
  BY <1>2, FS_Subset
<1>5. /\ IsFiniteSet(R \union F) /\ IsFiniteSet(R \union G)
      /\ Cardinality(R \union F) = Cardinality(R) + Cardinality(F) - 0
      /\ Cardinality(R \union G) = Cardinality(R) + Cardinality(G) - 0
  BY <1>2, <1>3, <1>4, FS_Union, FS_EmptySet
<1>6. Cardinality(R) \in Nat
  BY <1>4, FS_CardinalityType
<1>7. \A r, a, b \in Nat : r + a \in Nat /\ r + b - 0 = r + a - 0 - a + b
  OBVIOUS
<1> QED  BY <1>2, <1>3, <1>5, <1>6

LEMMA CountsAreNaturals ==
  ASSUME NEW r \in Importer
  PROVE  /\ CountsOf(r) \in Nat
         /\ r.stats \in Stats /\ r.stats.created \in Nat /\ r.stats.updated \in Nat
         /\ r.stats.skipped \in Nat /\ r.stats.errors \in Nat
         /\ r.next \in Nat /\ r.kind \in Kinds
BY DEF CountsOf, Importer, Stats

\* A step of one importer that writes no new project and reports nothing, or whose
\* writes and reports are matched by what it counts.
LEMMA OneImporterCounts ==
  ASSUME ImportInv, ImportInv', CountInv, NEW i \in Importers, OthersSame(i),
         CountsItsRows(imp'[i]),
         created' \in Nat, IsFiniteSet(Written'),
         ~lost' => /\ ~lost
                   /\ created' + CountsOf(imp'[i]) - created - CountsOf(imp[i])
                        = Cardinality(Written') - Cardinality(Written)
  PROVE  CountInv'
<1>1. imp[i] \in Importer /\ imp'[i] \in Importer
  BY DEF ImportInv, ImportersTypeOK
<1>2. CountsOf(imp[i]) \in Nat /\ CountsOf(imp'[i]) \in Nat
  BY <1>1, CountsAreNaturals
<1>3. IsFiniteSet(Pairs(imp, Importers)) /\ \A j \in Importers \ {i} : imp'[j] = imp[j]
  BY DEF CountInv, Counted, OthersSame
<1>4. /\ IsFiniteSet(Pairs(imp', Importers)) /\ Cardinality(Pairs(imp, Importers)) \in Nat
      /\ Cardinality(Pairs(imp', Importers))
           = Cardinality(Pairs(imp, Importers)) - CountsOf(imp[i]) + CountsOf(imp'[i])
  BY <1>2, <1>3, OneCountsAnew
<1>5. Counted = Pairs(imp, Importers) /\ Counted' = Pairs(imp', Importers)
  BY DEF Counted, Pairs
<1>6. \A j \in Importers : CountsItsRows(imp'[j])
  BY <1>3 DEF CountInv
<1>7. Cardinality(Written) \in Nat /\ Cardinality(Written') \in Nat
  BY FS_CardinalityType DEF CountInv
<1>8. ASSUME ~lost' PROVE created' + Cardinality(Counted') = Cardinality(Written')
  <2>1. created + Cardinality(Counted) = Cardinality(Written) /\ created \in Nat
    BY <1>8 DEF CountInv
  <2>2. created' + CountsOf(imp'[i]) - created - CountsOf(imp[i])
          = Cardinality(Written') - Cardinality(Written)
    BY <1>8
  <2>3. /\ Cardinality(Counted) \in Nat
        /\ Cardinality(Counted') = Cardinality(Counted) - CountsOf(imp[i]) + CountsOf(imp'[i])
    BY <1>4, <1>5
  <2> DEFINE a == created  b == created'  c == Cardinality(Counted)  d == Cardinality(Counted')
             m == CountsOf(imp[i])  n == CountsOf(imp'[i])
             w == Cardinality(Written)  v == Cardinality(Written')
  <2>4. /\ a \in Nat /\ b \in Nat /\ c \in Nat /\ m \in Nat /\ n \in Nat /\ w \in Nat
        /\ v \in Nat /\ a + c = w /\ b + n - a - m = v - w /\ d = c - m + n
    BY <1>2, <1>7, <2>1, <2>2, <2>3
  <2>5. b + d = v
    <3> HIDE DEF a, b, c, d, m, n, w, v
    <3>1. d \in Int
      BY <2>4
    <3>2. v = b + n - a - m + w
      BY <2>4
    <3>3. b + d = b + c - m + n
      BY <2>4
    <3> QED  BY <2>4, <3>1, <3>2, <3>3
  <2> QED  BY <2>5
<1> QED  BY <1>4, <1>5, <1>6, <1>8 DEF CountInv

\* The projects that are written, while none is added.
LEMMA SameProjectsWritten ==
  ASSUME \A p \in Imported : Exists(p)' <=> Exists(p)
  PROVE  Written' = Written
BY DEF Written

LEMMA QuietCounts ==
  ASSUME ImportInv, CountInv, Quiet
  PROVE  CountInv'
<1>1. Written' = Written /\ created' = created /\ lost' = lost
  BY SameProjectsWritten DEF Quiet, SameRows
<1>2. \A i \in Importers : CountsOf(imp'[i]) = CountsOf(imp[i])
  BY DEF Quiet, CountsOf
<1>3. Counted' = Counted
  BY <1>2 DEF Counted, Pairs
<1>4. \A i \in Importers : CountsItsRows(imp'[i])
  BY DEF Quiet, CountInv, CountsItsRows
<1> QED  BY <1>1, <1>3, <1>4 DEF CountInv

LEMMA PassedCounts ==
  ASSUME ImportInv, ImportInv', CountInv, NEW i \in Importers, Passed(i)
  PROVE  CountInv'
<1>1. Written' = Written /\ created' = created /\ lost' = lost /\ OthersSame(i)
  BY SameProjectsWritten DEF Passed, SameRows
<1>2. PICK stats \in Stats :
        /\ imp'[i] = Closed(i, stats)
        /\ \/ stats = [imp[i].stats EXCEPT !.skipped = @ + 1]
           \/ stats = [imp[i].stats EXCEPT !.errors = @ + 1]
  BY OneMore DEF Passed
<1>3. imp[i] \in Importer /\ imp[i].kind # "none" /\ Reading(i)
  BY DEF ImportInv, ImportersTypeOK, Passed, Reading
<1>4. /\ imp'[i].kind = imp[i].kind /\ imp'[i].next = imp[i].next + 1
      /\ imp'[i].stats = stats
  BY <1>2, <1>3, ClosedIsAnImporter
<1>5. /\ stats.created = imp[i].stats.created /\ stats.updated = imp[i].stats.updated
      /\ stats.skipped + stats.errors = imp[i].stats.skipped + imp[i].stats.errors + 1
  <2>1. imp[i].stats \in Stats
    BY <1>3, CountsAreNaturals
  <2>2. CASE stats = [imp[i].stats EXCEPT !.skipped = @ + 1]
    BY <2>1, <2>2 DEF Stats
  <2>3. CASE stats = [imp[i].stats EXCEPT !.errors = @ + 1]
    BY <2>1, <2>3 DEF Stats
  <2> QED  BY <1>2, <2>2, <2>3
<1>6. CountsItsRows(imp'[i])
  <2>1. CountsItsRows(imp[i])
    BY DEF CountInv
  <2>2. /\ imp[i].next \in Nat /\ stats.skipped \in Nat /\ stats.errors \in Nat
        /\ imp[i].stats.created \in Nat /\ imp[i].stats.updated \in Nat
        /\ imp[i].stats.skipped \in Nat /\ imp[i].stats.errors \in Nat
    BY <1>3, CountsAreNaturals DEF Stats
  <2>3. stats.created + stats.updated + stats.skipped + stats.errors = imp[i].next
    BY <1>3, <1>5, <2>1, <2>2 DEF CountsItsRows
  <2> QED  BY <1>4, <2>2, <2>3 DEF CountsItsRows
<1>7. CountsOf(imp'[i]) = CountsOf(imp[i]) /\ CountsOf(imp[i]) \in Nat
  BY <1>3, <1>4, <1>5, CountsAreNaturals DEF CountsOf
<1>8. Cardinality(Written) \in Nat /\ created \in Nat /\ IsFiniteSet(Written)
  BY FS_CardinalityType DEF CountInv
<1> HIDE DEF Written
<1> QED  BY <1>1, <1>6, <1>7, <1>8, OneImporterCounts

\* The project of a row is new to the database exactly if the row counts it.
LEMMA CommitCountsOne ==
  ASSUME ImportInv, ImportInv', CountInv, NEW i \in Importers, CommitRow(i)
  PROVE  CountInv'
<1>1. /\ imp'[i] = Closed(i, CommitStats(i)) /\ OthersSame(i)
      /\ created' = created /\ lost' = lost
  BY CommitRowIsGood DEF OthersSame, CommitRow, Unchanging
<1>2. /\ imp[i].open /\ project'[RefOf(i)].status # "free"
      /\ \A q \in Projects \ {RefOf(i)} : project'[q] = project[q]
  BY CommitWrites
<1>3. /\ Reading(i) /\ imp[i].kind # "none" /\ imp[i] \in Importer
      /\ RefOf(i) \in Imported /\ (imp[i].isNew <=> ~Exists(RefOf(i)))
  BY <1>2, OpenRowFacts, OpenIsReading DEF OpenRow
<1>4. Written' = Written \union {RefOf(i)} /\ (RefOf(i) \in Written <=> ~imp[i].isNew)
  BY <1>2, <1>3, TagsAssumption DEF Written, Exists
<1>5. IsFiniteSet(Written) /\ Cardinality(Written) \in Nat /\ created \in Nat
  BY FS_CardinalityType DEF CountInv
<1>6. /\ IsFiniteSet(Written')
      /\ Cardinality(Written')
           = IF imp[i].isNew THEN Cardinality(Written) + 1 ELSE Cardinality(Written)
  <2> HIDE DEF Written
  <2> QED  BY <1>4, <1>5, FS_AddElement
<1>7. /\ imp'[i].kind = imp[i].kind /\ imp'[i].next = imp[i].next + 1
      /\ imp'[i].stats = CommitStats(i) /\ CommitStats(i) \in Stats
  BY <1>1, <1>3, CommitCounts, ClosedIsAnImporter
<1>8. /\ CommitStats(i).errors = imp[i].stats.errors
      /\ CommitStats(i).skipped = imp[i].stats.skipped
      /\ imp[i].isNew => /\ CommitStats(i).created = imp[i].stats.created + 1
                         /\ CommitStats(i).updated = imp[i].stats.updated
      /\ ~imp[i].isNew => /\ CommitStats(i).created = imp[i].stats.created
                          /\ CommitStats(i).updated = imp[i].stats.updated + 1
  BY CommitCounts
<1>9. /\ imp[i].next \in Nat
      /\ imp[i].stats.created \in Nat /\ imp[i].stats.updated \in Nat
      /\ imp[i].stats.skipped \in Nat /\ imp[i].stats.errors \in Nat
      /\ imp[i].stats.created + imp[i].stats.updated + imp[i].stats.skipped
           + imp[i].stats.errors = imp[i].next - 1
  BY <1>3, CountsAreNaturals DEF CountInv, CountsItsRows
<1> HIDE DEF CommitStats, Written
<1>10. CountsItsRows(imp'[i])
  <2>1. CommitStats(i).created + CommitStats(i).updated + CommitStats(i).skipped
          + CommitStats(i).errors = imp[i].next
    <3>1. CASE imp[i].isNew
      BY <1>8, <1>9, <3>1
    <3>2. CASE ~imp[i].isNew
      BY <1>8, <1>9, <3>2
    <3> QED  BY <3>1, <3>2
  <2> QED  BY <1>7, <1>9, <2>1 DEF CountsItsRows
<1>11. /\ CountsOf(imp[i]) = imp[i].stats.created
       /\ CountsOf(imp'[i]) = CommitStats(i).created
  BY <1>3, <1>7 DEF CountsOf
<1>12. created' + CountsOf(imp'[i]) - created - CountsOf(imp[i])
         = Cardinality(Written') - Cardinality(Written)
  <2>1. CASE imp[i].isNew
    BY <1>1, <1>5, <1>6, <1>8, <1>9, <1>11, <2>1
  <2>2. CASE ~imp[i].isNew
    BY <1>1, <1>5, <1>6, <1>8, <1>9, <1>11, <2>2
  <2> QED  BY <2>1, <2>2
<1> QED  BY <1>1, <1>5, <1>6, <1>10, <1>12, OneImporterCounts

LEMMA BeganCounts ==
  ASSUME ImportInv, ImportInv', CountInv, NEW i \in Importers, Began(i)
  PROVE  CountInv'
<1>1. Written' = Written /\ created' = created /\ lost' = lost /\ OthersSame(i)
  BY SameProjectsWritten DEF Began, SameRows
<1>2. /\ CountsItsRows(imp'[i])
      /\ CountsOf(imp[i]) = 0 /\ CountsOf(imp'[i]) = 0
  BY DEF Began, NoStats, CountsItsRows, CountsOf
<1>3. Cardinality(Written) \in Nat /\ created \in Nat /\ IsFiniteSet(Written)
  BY FS_CardinalityType DEF CountInv
<1> HIDE DEF Written
<1> QED  BY <1>1, <1>2, <1>3, OneImporterCounts

\* What an import reports moves from its own count to the total.
LEMMA ReportedCounts ==
  ASSUME ImportInv, ImportInv', CountInv, NEW i \in Importers, Reported(i)
  PROVE  CountInv'
<1>1. /\ Written' = Written /\ lost' = lost /\ OthersSame(i) /\ imp'[i] = Idle
      /\ created' = created + imp[i].stats.created /\ imp[i].kind # "none"
  BY SameProjectsWritten DEF Reported, Ended
<1>2. imp[i].stats.created \in Nat
  BY CountsAreNaturals DEF ImportInv, ImportersTypeOK
<1>3. /\ CountsItsRows(imp'[i]) /\ CountsOf(imp'[i]) = 0
      /\ CountsOf(imp[i]) = imp[i].stats.created
  BY <1>1, IdleIsAnImporter DEF CountsItsRows, CountsOf
<1>4. Cardinality(Written) \in Nat /\ created \in Nat /\ IsFiniteSet(Written)
  BY FS_CardinalityType DEF CountInv
<1>5. created' \in Nat /\ created' + CountsOf(imp'[i]) - created - CountsOf(imp[i]) = 0
  BY <1>1, <1>2, <1>3, <1>4
<1> HIDE DEF Written
<1> QED  BY <1>1, <1>3, <1>4, <1>5, OneImporterCounts

LEMMA DiedCounts ==
  ASSUME ImportInv, ImportInv', CountInv, NEW i \in Importers, Died(i)
  PROVE  CountInv'
<1>1. /\ Written' = Written /\ created' = created /\ lost' = TRUE /\ OthersSame(i)
      /\ imp'[i] = Idle
  BY SameProjectsWritten DEF Died
<1>2. CountsItsRows(imp'[i])
  BY <1>1, IdleIsAnImporter DEF CountsItsRows
<1>3. created \in Nat /\ IsFiniteSet(Written)
  BY DEF CountInv
<1> HIDE DEF Written
<1> QED  BY <1>1, <1>2, <1>3, OneImporterCounts

LEMMA CountInit == Init => CountInv
<1> SUFFICES ASSUME Init PROVE CountInv
  OBVIOUS
<1>1. Written = {}
  BY TagsAssumption DEF Init, DirectoryInit, NoRow, Exists, Written
<1>2. \A i \in Importers : imp[i].kind = "none"
  BY IdleIsAnImporter DEF Init
<1>3. Counted = {}
  BY <1>2 DEF Counted, Pairs, CountsOf
<1>4. created = 0
  BY DEF Init
<1> QED  BY <1>1, <1>2, <1>3, <1>4, FS_EmptySet DEF CountInv, CountsItsRows

LEMMA CountAlways == Spec => [](ImportInv /\ CountInv)
<1>1. ImportInv /\ ImportInv' /\ CountInv /\ [Next]_vars => CountInv'
  <2>1. ASSUME ImportInv, ImportInv', CountInv, Shape PROVE CountInv'
    BY <2>1, QuietCounts, PassedCounts, CommitCountsOne, BeganCounts, ReportedCounts,
       DiedCounts
    DEF Shape
  <2>2. ASSUME UNCHANGED vars PROVE Shape
    BY <2>2 DEF vars, directoryVars, importVars, Shape, Quiet, SameRows, Exists
  <2> QED  BY <2>1, <2>2, StepHasShape
<1> QED  BY ImportInvariant, CountInit, <1>1, PTL DEF Spec

\* The statistics of the imports add up: every row that an import went past is
\* counted once, and every project of the spreadsheet once, by one import
\* (import_epp_xlsx, ImportStats).
THEOREM StatsAlwaysAddUp == Spec => []StatsAddUp
<1>1. ImportInv /\ CountInv => StatsAddUp
  <2> SUFFICES ASSUME ImportInv, CountInv PROVE StatsAddUp
    OBVIOUS
  <2>1. ASSUME NEW i \in Live
        PROVE  imp[i].stats.created + imp[i].stats.updated + imp[i].stats.skipped
                 + imp[i].stats.errors = imp[i].next - 1
    BY <2>1 DEF Live, CountInv, CountsItsRows
  <2>2. Counted = UNION {{i} \X (1 .. imp[i].stats.created) : i \in Live}
    BY DEF Counted, Pairs, CountsOf, Live
  <2> QED  BY <2>1, <2>2 DEF StatsAddUp, CountInv, Written
<1> QED  BY <1>1, CountAlways, PTL
=============================================================================
