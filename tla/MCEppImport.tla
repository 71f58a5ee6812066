---------------------------- MODULE MCEppImport ----------------------------
(***************************************************************************)
(* EppImport for TLC: two spreadsheets that name the same technologies in  *)
(* opposite orders, with rows that are skipped, refused and shifted.       *)
(***************************************************************************)
EXTENDS EppImport, TLC
CONSTANTS Python, SQL, Thesis, s1

FullRow(e, v, s, n, T) ==
  [kind |-> "full", epp |-> e, vacancy |-> v, status |-> s, places |-> n, tags |-> T]
Blank == [FullRow("-", "-", "-", [text |-> "blank", halves |-> 0], <<>>) EXCEPT !.kind = "blank"]
Places(n) == [text |-> "number", halves |-> n]
NoPlaces == [text |-> "blank", halves |-> 0]

\* The spreadsheet of the bootstrap; a later one, in which the second row moved up
\* and got other tags; and one with a status and a number of places that are refused.
First == <<FullRow("e1", "v1", "published", Places(1), <<Python, SQL>>),
           FullRow("e2", "v2", "published", NoPlaces, <<>>)>>
Later == <<FullRow("e2", "v2", "completed", Places(5), <<SQL, Python>>), Blank>>
Bad == <<FullRow("e1", "v1", "unknown", NoPlaces, <<Python>>),
         FullRow("e1", "v2", "draft", Places(-2), <<SQL>>)>>

Sheet(rows) == [kind |-> "sheet", rows |-> rows]
NoSheet(kind) == [kind |-> kind, rows |-> <<>>]
MCFiles == {Sheet(First), Sheet(Later), Sheet(Bad), NoSheet("missing"), NoSheet("damaged")}
MCImported == UNION {{Ref(f.rows, k) : k \in Full(f.rows)} : f \in MCFiles}
MCProjects == MCImported \union {Thesis}

\* On their own, saves meet saves and a moderator; beside imports there is one save or
\* one decision.
SavesOrImports ==
  \/ starts = 0 \/ saves = 0
  \/ /\ saves = 1 /\ decisions = 0
     /\ \A t \in Savers \ {s1} : saver[t].op = "none"
=============================================================================
