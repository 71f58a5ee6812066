------------------------- MODULE InitiativeProposal -------------------------
(***************************************************************************)
(* One initiative proposal of a student, its submissions to moderation and *)
(* the catalog projects that approvals make of it.                         *)
(*                                                                         *)
(* Submit and moderate load the proposal, check the copy, and then decide  *)
(* in a transaction on the locked row.  PUT, PATCH and DELETE take no      *)
(* lock: they check the copy and save all of it, or delete the row.        *)
(***************************************************************************)
EXTENDS Naturals

CONSTANTS
  Texts,            \* what a proposal says
  MaxPlaces,        \* bound on the team size it asks for
  Projects,         \* primary keys of projects; a key is drawn once
  None,             \* no project, no content
  Threads,          \* server threads
  LocksOuterJoins,  \* FALSE: the database refuses FOR UPDATE over an outer join
  HandlersDie,      \* TRUE: a handler may end before it is done
  MaxNumber,        \* bound on submission numbers
  MaxRequests       \* bound on the number of requests

Contents == [text : Texts, places : 0..MaxPlaces]

ASSUME KeysAssumption == None \notin Projects \union Contents
ASSUME BoundsAssumption == MaxPlaces \in Nat /\ MaxNumber \in Nat /\ MaxRequests \in Nat
ASSUME SwitchesAssumption == LocksOuterJoins \in BOOLEAN /\ HandlersDie \in BOOLEAN

VARIABLES
  proposal,     \* the row: status, content, latest_submission_number, project
  submissions,  \* by number: decision, snapshot, published project
  made,         \* what each project was made with
  live,         \* projects that exist
  handler,      \* what each thread runs, with the copy it loaded
  requests,     \* spent of MaxRequests
  moved,        \* projects to which staff gave another source
  revived       \* history: PUT inserted the row again after a DELETE

vars == <<proposal, submissions, made, live, handler, requests, moved, revived>>

Numbers == 1..MaxNumber
Editable == {"draft", "revision_requested"}
ProposalStatuses == Editable \union {"on_moderation", "published"}

Proposal ==
  [status : ProposalStatuses \union {"free", "gone"}, content : Contents \union {None},
   number : 0..MaxNumber, project : Projects \union {None}]
NoProposal == [status |-> "free", content |-> None, number |-> 0, project |-> None]

Submission ==
  [decision : {"none", "pending", "approved", "rejected"},
   snapshot : Contents \union {None}, project : Projects \union {None}]
NoSubmission == [decision |-> "none", snapshot |-> None, project |-> None]

Handler == [op : {"none", "edit", "delete", "submit", "moderate"}, copy : Proposal]
NoHandler == [op |-> "none", copy |-> NoProposal]

Exists == proposal.status \in ProposalStatuses
Taken == {k \in Numbers : submissions[k].decision # "none"}
IsLatest(k) == k \in Taken /\ \A j \in Taken : j <= k

Init ==
  /\ proposal = NoProposal
  /\ submissions = [k \in Numbers |-> NoSubmission]
  /\ made = [q \in Projects |-> None]
  /\ live = {}
  /\ handler = [t \in Threads |-> NoHandler]
  /\ requests = 0
  /\ moved = {}
  /\ revived = FALSE

-----------------------------------------------------------------------------
SingleStatement ==
  /\ requests < MaxRequests
  /\ requests' = requests + 1
  /\ UNCHANGED <<handler, revived>>

\* POST of a proposal.
Create(c) ==
  /\ SingleStatement
  /\ proposal.status = "free"
  /\ proposal' = [NoProposal EXCEPT !.status = "draft", !.content = c]
  /\ UNCHANGED <<submissions, made, live, moved>>

\* DELETE of a project; the references to it are set to null.
DeleteProject(q) ==
  /\ SingleStatement
  /\ q \in live
  /\ live' = live \ {q}
  /\ proposal' = IF proposal.project = q THEN [proposal EXCEPT !.project = None]
                                         ELSE proposal
  /\ submissions' = [k \in Numbers |->
                       IF submissions[k].project = q
                         THEN [submissions[k] EXCEPT !.project = None]
                         ELSE submissions[k]]
  /\ UNCHANGED <<made, moved>>

\* A PUT of staff writes another source_type or source_ref to a project.
ChangeSource(q) ==
  /\ SingleStatement
  /\ q \in live
  /\ moved' = moved \union {q}
  /\ UNCHANGED <<proposal, submissions, made, live>>

\* A request that loads the proposal and finds it in one of the statuses S.
\* LoadAnyway is a mutation: it does not look at the status.
LoadAnyway(t, op, S) ==
  /\ requests < MaxRequests
  /\ handler[t].op = "none"
  /\ Exists
  /\ handler' = [handler EXCEPT ![t] = [op |-> op, copy |-> proposal]]
  /\ requests' = requests + 1
  /\ UNCHANGED <<proposal, submissions, made, live, moved, revived>>

Load(t, op, S) ==
  /\ requests < MaxRequests
  /\ handler[t].op = "none"
  /\ proposal.status \in S
  /\ handler' = [handler EXCEPT ![t] = [op |-> op, copy |-> proposal]]
  /\ requests' = requests + 1
  /\ UNCHANGED <<proposal, submissions, made, live, moved, revived>>

Finish(t) ==
  /\ handler' = [handler EXCEPT ![t] = NoHandler]
  /\ UNCHANGED requests

-----------------------------------------------------------------------------
\* PUT and PATCH save every field of the copy: the row is inserted again if it
\* is gone, and a project that is gone fails the foreign key.
LoadForEdit(t) == Load(t, "edit", Editable)

SaveUnchecked(t, c) ==
  LET copy == handler[t].copy IN
  /\ handler[t].op = "edit"
  /\ proposal' = [copy EXCEPT !.content = c]
  /\ revived' = (revived \/ ~Exists)
  /\ Finish(t)
  /\ UNCHANGED <<submissions, made, live, moved>>

SaveEdit(t, c) ==
  LET copy == handler[t].copy IN
  /\ handler[t].op = "edit"
  /\ IF copy.project \in live \union {None}
       THEN /\ proposal' = [copy EXCEPT !.content = c]
            /\ revived' = (revived \/ ~Exists)
       ELSE UNCHANGED <<proposal, revived>>
  /\ Finish(t)
  /\ UNCHANGED <<submissions, made, live, moved>>

\* DELETE of the proposal takes its submissions along and leaves projects.
LoadForDelete(t) == Load(t, "delete", Editable)

DeleteProposal(t) ==
  /\ handler[t].op = "delete"
  /\ proposal' = [NoProposal EXCEPT !.status = "gone"]
  /\ submissions' = [k \in Numbers |-> NoSubmission]
  /\ Finish(t)
  /\ UNCHANGED <<made, live, moved, revived>>

-----------------------------------------------------------------------------
\* submit_initiative_proposal_for_moderation: the check is on the copy, the rest
\* on the locked row; a number that is taken fails the unique constraint.
LoadForSubmit(t) == Load(t, "submit", Editable)

Submit(t) ==
  LET k == proposal.number + 1 IN
  /\ handler[t].op = "submit"
  /\ k \in Numbers
  /\ IF Exists /\ k \notin Taken
       THEN /\ proposal' = [proposal EXCEPT !.number = k, !.status = "on_moderation"]
            /\ submissions' = [submissions EXCEPT ![k] =
                 [decision |-> "pending", snapshot |-> proposal.content, project |-> None]]
       ELSE UNCHANGED <<proposal, submissions>>
  /\ Finish(t)
  /\ UNCHANGED <<made, live, moved, revived>>

\* moderate_initiative_proposal settles the latest submission, if it is pending.
\* The proposal is locked together with its project, an outer join.
LoadForModeration(t) == Load(t, "moderate", {"on_moderation"})

\* source_type and source_ref are unique together, and every approval writes the
\* proposal's key to them: a live project that still bears it refuses the next one,
\* and the transaction is rolled back.
Unborne == live \subseteq moved

\* Mutations: the decision of the submission, or the constraint, is left out.
SettlesDecided(k, approve) ==
  /\ LocksOuterJoins
  /\ Exists /\ IsLatest(k)
  /\ approve => proposal.project = None /\ Unborne

SettlesUnconstrained(k, approve) ==
  /\ LocksOuterJoins
  /\ Exists /\ IsLatest(k)
  /\ submissions[k].decision = "pending"
  /\ approve => proposal.project = None

Settles(k, approve) ==
  /\ LocksOuterJoins
  /\ Exists /\ IsLatest(k)
  /\ submissions[k].decision = "pending"
  /\ approve => proposal.project = None /\ Unborne

\* The project is made of the snapshot; one of no places takes those of the row.
PlacesOf(k) ==
  IF submissions[k].snapshot.places = 0 THEN proposal.content.places
                                        ELSE submissions[k].snapshot.places

\* Mutation of Approve: the project is made of the proposal as it is now.
ApproveAsItIs(k, q) ==
  /\ made[q] = None
  /\ made' = [made EXCEPT ![q] = proposal.content]
  /\ live' = live \union {q}
  /\ proposal' = [proposal EXCEPT !.status = "published", !.project = q]
  /\ submissions' = [submissions EXCEPT ![k].decision = "approved", ![k].project = q]

Approve(k, q) ==
  /\ made[q] = None
  /\ made' = [made EXCEPT ![q] = [text |-> submissions[k].snapshot.text,
                                 places |-> PlacesOf(k)]]
  /\ live' = live \union {q}
  /\ proposal' = [proposal EXCEPT !.status = "published", !.project = q]
  /\ submissions' = [submissions EXCEPT ![k].decision = "approved", ![k].project = q]

Reject(k) ==
  /\ proposal' = [proposal EXCEPT !.status = "revision_requested"]
  /\ submissions' = [submissions EXCEPT ![k].decision = "rejected",
                                        ![k].project = proposal.project]
  /\ UNCHANGED <<made, live>>

Moderate(t, approve) ==
  /\ handler[t].op = "moderate"
  /\ \/ \E k \in Numbers :
          /\ Settles(k, approve)
          /\ IF approve THEN \E q \in Projects : Approve(k, q) ELSE Reject(k)
     \/ /\ ~\E k \in Numbers : Settles(k, approve)
        /\ UNCHANGED <<proposal, submissions, made, live>>
  /\ Finish(t)
  /\ UNCHANGED <<moved, revived>>

\* A handler ends early: its worker is killed or a statement fails.
HandlerDies(t) ==
  /\ HandlersDie
  /\ handler[t].op # "none"
  /\ Finish(t)
  /\ UNCHANGED <<proposal, submissions, made, live, moved, revived>>

-----------------------------------------------------------------------------
Next ==
  \/ \E c \in Contents : Create(c)
  \/ \E q \in Projects : DeleteProject(q) \/ ChangeSource(q)
  \/ \E t \in Threads :
       \/ LoadForEdit(t) \/ LoadForDelete(t) \/ LoadForSubmit(t)
       \/ LoadForModeration(t)
       \/ DeleteProposal(t) \/ Submit(t) \/ HandlerDies(t)
  \/ \E t \in Threads, c \in Contents : SaveEdit(t, c)
  \/ \E t \in Threads, approve \in BOOLEAN : Moderate(t, approve)

Spec == Init /\ [][Next]_vars

-----------------------------------------------------------------------------
\* The types, and the foreign keys: a project that a row names exists.
TypeOK ==
  /\ proposal \in Proposal /\ proposal.project \in live \union {None}
  /\ submissions \in [Numbers -> Submission]
  /\ \A k \in Numbers : submissions[k].project \in live \union {None}
  /\ made \in [Projects -> Contents \union {None}]
  /\ live \subseteq {q \in Projects : made[q] # None}
  /\ handler \in [Threads -> Handler]
  /\ requests \in 0..MaxRequests
  /\ moved \subseteq Projects /\ revived \in BOOLEAN

(***************************************************************************)
(* A proposal that waits for moderation has something to decide on: its    *)
(* latest submission is pending.  Otherwise moderation would answer "No    *)
(* pending submission found" for ever, and nobody could edit or submit it. *)
(* A stale PUT cannot bring that about; one that inserts the row again     *)
(* after a DELETE brings numbers back that no submission has.              *)
(***************************************************************************)
WaitingHasPending ==
  proposal.status = "on_moderation" /\ ~revived =>
    \E k \in Numbers : IsLatest(k) /\ submissions[k].decision = "pending"

(***************************************************************************)
(* A project says what was submitted and approved, whatever PUT made of    *)
(* the proposal between the submission and the decision.  Only a team size *)
(* of 0 is not taken for one: the project then has the proposal's.         *)
(***************************************************************************)
PublishedAsSubmitted ==
  \A k \in Numbers :
    submissions[k].decision = "approved" /\ submissions[k].project # None =>
      LET project == made[submissions[k].project]  snapshot == submissions[k].snapshot IN
      /\ project.text = snapshot.text
      /\ snapshot.places # 0 => project.places = snapshot.places

(***************************************************************************)
(* However many submits and decisions run at once, and though a stale PUT  *)
(* takes the note of the project back so that the next submission may be   *)
(* approved too, at most one live project bears the proposal's reference.  *)
(* Each live project is what one approved submission became, and only one, *)
(* unless DELETE took the submissions.                                     *)
(***************************************************************************)
OneLiveProject ==
  /\ \A q, r \in live \ moved : q = r
  /\ Exists /\ ~revived => \A q \in live : \E k \in Numbers :
       /\ submissions[k].decision = "approved" /\ submissions[k].project = q
       /\ \A j \in Numbers \ {k} :
            submissions[j].decision = "approved" => submissions[j].project # q

(***************************************************************************)
(* A decision on a submission is never changed: of two moderators who both *)
(* loaded the waiting proposal, the second one is refused.                 *)
(***************************************************************************)
DecisionsStand ==
  [][\A k \in Numbers :
       submissions[k].decision \in {"approved", "rejected"} =>
         submissions'[k].decision \in {submissions[k].decision, "none"}]_vars

\* "Sequential counter of moderation submissions", of the field's help text: the
\* row's number is never behind the submissions there are.
NumberIsSequential == Exists => \A k \in Taken : k <= proposal.number

\* A decision on a waiting proposal takes effect, as the tests of the endpoint say.
ModerationDecides ==
  [][\A t \in Threads :
       /\ handler[t].op = "moderate" /\ handler'[t].op = "none"
       /\ proposal.status = "on_moderation" /\ proposal.project = None /\ Unborne
       => submissions' # submissions]_vars
=============================================================================
