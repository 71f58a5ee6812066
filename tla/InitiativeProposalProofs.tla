---------------------- MODULE InitiativeProposalProofs ----------------------
(***************************************************************************)
(* What is proved of InitiativeProposal, for any number of threads,        *)
(* contents, projects and submissions: its types and foreign keys, that a  *)
(* decision stands, that a waiting proposal can be decided on, and that    *)
(* one project at most comes of it and says what was approved.             *)
(***************************************************************************)
EXTENDS InitiativeProposal, TLAPS

-----------------------------------------------------------------------------
(* What is submitted says something: projects are made of contents.        *)
HasContent ==
  /\ Exists => proposal.content \in Contents
  /\ \A k \in Taken : submissions[k].snapshot \in Contents

TypeInv == TypeOK /\ HasContent

LEMMA TypeInit == Init => TypeInv
<1> SUFFICES ASSUME Init PROVE TypeInv
  OBVIOUS
<1>1. /\ NoProposal \in Proposal /\ NoProposal.status = "free"
      /\ NoProposal.project = None
      /\ NoSubmission \in Submission /\ NoSubmission.decision = "none"
      /\ NoSubmission.project = None
      /\ NoHandler \in Handler
  BY BoundsAssumption DEF NoProposal, Proposal, NoSubmission, Submission, NoHandler,
     Handler
<1>2. proposal \in Proposal /\ proposal.project \in live \union {None}
  BY <1>1 DEF Init
<1>3. submissions \in [Numbers -> Submission]
      /\ \A k \in Numbers : submissions[k].project \in live \union {None}
  BY <1>1 DEF Init
<1>4. /\ made \in [Projects -> Contents \union {None}]
      /\ live \subseteq {q \in Projects : made[q] # None}
      /\ handler \in [Threads -> Handler]
  BY <1>1 DEF Init
<1>5. requests \in 0..MaxRequests
  BY BoundsAssumption DEF Init
<1>6. moved \subseteq Projects /\ revived \in BOOLEAN
  BY DEF Init
<1>7. HasContent
  BY <1>1 DEF Init, HasContent, Exists, ProposalStatuses, Editable, Taken
<1> QED  BY <1>2, <1>3, <1>4, <1>5, <1>6, <1>7 DEF TypeInv, TypeOK

\* The variables that a step leaves alone, or that only count and record.
LEMMA HistoryTypes ==
  ASSUME TypeInv, Next
  PROVE  /\ handler' \in [Threads -> Handler]
         /\ requests' \in 0..MaxRequests
<1>1. /\ handler \in [Threads -> Handler] /\ requests \in 0..MaxRequests
      /\ proposal \in Proposal
  BY DEF TypeInv, TypeOK
<1>2. NoHandler \in Handler
  BY BoundsAssumption DEF NoHandler, Handler, NoProposal, Proposal
<1>3. ASSUME NEW t \in Threads, Finish(t)
      PROVE  handler' \in [Threads -> Handler] /\ requests' \in 0..MaxRequests
  BY <1>1, <1>2, <1>3 DEF Finish
<1>4. ASSUME NEW t \in Threads, NEW op \in {"edit", "delete", "submit", "moderate"},
             NEW S, Load(t, op, S)
      PROVE  handler' \in [Threads -> Handler] /\ requests' \in 0..MaxRequests
  BY <1>1, <1>4, BoundsAssumption DEF Load, Handler
<1>5. CASE SingleStatement
  BY <1>1, <1>5, BoundsAssumption DEF SingleStatement
<1> QED
  BY <1>3, <1>4, <1>5
  DEF Next, Create, DeleteProject, ChangeSource, LoadForEdit, LoadForDelete, LoadForSubmit,
      LoadForModeration, SaveEdit, DeleteProposal, Submit, Moderate, HandlerDies

LEMMA LoadKeepsTypes ==
  ASSUME TypeInv, NEW t \in Threads, NEW op, NEW S, Load(t, op, S),
         handler' \in [Threads -> Handler], requests' \in 0..MaxRequests
  PROVE  TypeInv'
<1>1. UNCHANGED <<proposal, submissions, made, live, moved, revived>>
  BY DEF Load
<1>2. HasContent'
  BY <1>1 DEF TypeInv, HasContent, Exists, Taken
<1>3. moved' \subseteq Projects /\ revived' \in BOOLEAN
  BY <1>1 DEF TypeInv, TypeOK
<1> QED  BY <1>1, <1>2, <1>3 DEF TypeInv, TypeOK

LEMMA CreateKeepsTypes ==
  ASSUME TypeInv, NEW c \in Contents, Create(c),
         handler' \in [Threads -> Handler], requests' \in 0..MaxRequests
  PROVE  TypeInv'
<1>1. UNCHANGED <<submissions, made, live, moved, revived>>
  BY DEF Create, SingleStatement
<1>2. /\ proposal' \in Proposal /\ proposal'.project = None
      /\ proposal'.content = c
  <2>1. proposal' = [status |-> "draft", content |-> c, number |-> 0, project |-> None]
    BY DEF Create, NoProposal
  <2>2. 0 \in 0..MaxNumber
    BY BoundsAssumption
  <2> QED  BY <2>1, <2>2 DEF Proposal, ProposalStatuses, Editable
<1>3. HasContent'
  BY <1>1, <1>2 DEF TypeInv, HasContent, Taken
<1>4. moved' \subseteq Projects /\ revived' \in BOOLEAN
  BY <1>1 DEF TypeInv, TypeOK
<1> QED  BY <1>1, <1>2, <1>3, <1>4 DEF TypeInv, TypeOK

LEMMA DeleteProjectKeepsTypes ==
  ASSUME TypeInv, NEW q \in Projects, DeleteProject(q),
         handler' \in [Threads -> Handler], requests' \in 0..MaxRequests
  PROVE  TypeInv'
<1>1. UNCHANGED <<made, moved, revived>> /\ live' = live \ {q}
  BY DEF DeleteProject, SingleStatement
<1>2. /\ proposal' \in Proposal /\ proposal'.project \in live' \union {None}
      /\ proposal'.status = proposal.status
      /\ proposal'.content = proposal.content
  BY <1>1 DEF TypeInv, TypeOK, DeleteProject, Proposal
<1>3. ASSUME NEW k \in Numbers
      PROVE  /\ submissions'[k] \in Submission
             /\ submissions'[k].project \in live' \union {None}
             /\ submissions'[k].decision = submissions[k].decision
             /\ submissions'[k].snapshot = submissions[k].snapshot
  BY <1>1 DEF TypeInv, TypeOK, DeleteProject, Submission
<1>4. submissions' \in [Numbers -> Submission]
  BY <1>3 DEF DeleteProject
<1>5. HasContent'
  BY <1>2, <1>3 DEF TypeInv, HasContent, Exists, Taken
<1>6. moved' \subseteq Projects /\ revived' \in BOOLEAN
  BY <1>1 DEF TypeInv, TypeOK
<1> QED  BY <1>1, <1>2, <1>3, <1>4, <1>5, <1>6 DEF TypeInv, TypeOK

LEMMA ChangeSourceKeepsTypes ==
  ASSUME TypeInv, NEW q \in Projects, ChangeSource(q),
         handler' \in [Threads -> Handler], requests' \in 0..MaxRequests
  PROVE  TypeInv'
<1>1. UNCHANGED <<proposal, submissions, made, live, revived>>
  BY DEF ChangeSource, SingleStatement
<1>2. moved' \subseteq Projects /\ revived' \in BOOLEAN
  BY <1>1 DEF ChangeSource, TypeInv, TypeOK
<1>3. HasContent'
  BY <1>1 DEF TypeInv, HasContent, Exists, Taken
<1> QED  BY <1>1, <1>2, <1>3 DEF TypeInv, TypeOK

LEMMA SaveEditKeepsTypes ==
  ASSUME TypeInv, NEW t \in Threads, NEW c \in Contents, SaveEdit(t, c),
         handler' \in [Threads -> Handler], requests' \in 0..MaxRequests
  PROVE  TypeInv'
<1> DEFINE copy == handler[t].copy
<1>1. UNCHANGED <<submissions, made, live>>
  BY DEF SaveEdit
<1>2. moved \subseteq Projects /\ revived \in BOOLEAN
  BY DEF TypeInv, TypeOK
<1>3. moved' \subseteq Projects
  BY <1>2 DEF SaveEdit
<1>4. revived' \in BOOLEAN
  BY <1>2 DEF SaveEdit
<1>5. copy \in Proposal
  BY DEF TypeInv, TypeOK, Handler
<1>6. CASE copy.project \in live \union {None}
  <2>1. proposal' = [copy EXCEPT !.content = c]
    BY <1>6 DEF SaveEdit
  <2>2. /\ proposal' \in Proposal /\ proposal'.project \in live' \union {None}
        /\ proposal'.content = c
    BY <1>1, <1>5, <1>6, <2>1 DEF Proposal
  <2>3. HasContent'
    BY <1>1, <2>2 DEF TypeInv, HasContent, Taken
  <2> QED  BY <1>1, <1>3, <1>4, <2>2, <2>3 DEF TypeInv, TypeOK
<1>7. CASE ~ (copy.project \in live \union {None})
  <2>1. UNCHANGED proposal
    BY <1>7 DEF SaveEdit
  <2>2. HasContent'
    BY <1>1, <2>1 DEF TypeInv, HasContent, Exists, Taken
  <2> QED  BY <1>1, <1>3, <1>4, <2>1, <2>2 DEF TypeInv, TypeOK
<1> QED  BY <1>6, <1>7

LEMMA DeleteProposalKeepsTypes ==
  ASSUME TypeInv, NEW t \in Threads, DeleteProposal(t),
         handler' \in [Threads -> Handler], requests' \in 0..MaxRequests
  PROVE  TypeInv'
<1>1. UNCHANGED <<made, live, moved, revived>>
  BY DEF DeleteProposal
<1>2. /\ proposal' \in Proposal /\ proposal'.project = None
      /\ proposal'.status = "gone"
  BY BoundsAssumption DEF DeleteProposal, NoProposal, Proposal
<1>3. /\ submissions' \in [Numbers -> Submission]
      /\ \A k \in Numbers : /\ submissions'[k].project = None
                            /\ submissions'[k].decision = "none"
  BY DEF DeleteProposal, NoSubmission, Submission
<1>4. HasContent'
  BY <1>2, <1>3 DEF HasContent, Exists, ProposalStatuses, Editable, Taken
<1>5. moved' \subseteq Projects /\ revived' \in BOOLEAN
  BY <1>1 DEF TypeInv, TypeOK
<1> QED  BY <1>1, <1>2, <1>3, <1>4, <1>5 DEF TypeInv, TypeOK

LEMMA SubmitKeepsTypes ==
  ASSUME TypeInv, NEW t \in Threads, Submit(t),
         handler' \in [Threads -> Handler], requests' \in 0..MaxRequests
  PROVE  TypeInv'
<1> DEFINE k == proposal.number + 1
<1>1. UNCHANGED <<made, live, moved, revived>> /\ k \in Numbers
  BY DEF Submit
<1>2. moved' \subseteq Projects /\ revived' \in BOOLEAN
  BY <1>1 DEF TypeInv, TypeOK
<1>3. CASE Exists /\ k \notin Taken
  <2>1. PICK s \in Submission :
          s = [decision |-> "pending", snapshot |-> proposal.content, project |-> None]
    BY DEF TypeInv, TypeOK, Proposal, Submission
  <2>2. /\ submissions' = [submissions EXCEPT ![k] = s]
        /\ proposal' = [proposal EXCEPT !.number = k, !.status = "on_moderation"]
    BY <1>3, <2>1 DEF Submit
  <2>3. /\ proposal' \in Proposal /\ proposal'.project = proposal.project
        /\ proposal'.content = proposal.content
    <3>1. k \in 0..MaxNumber
      BY <1>1, BoundsAssumption DEF Numbers
    <3>2. proposal \in Proposal
      BY DEF TypeInv, TypeOK
    <3> HIDE DEF k
    <3> QED  BY <2>2, <3>1, <3>2 DEF Proposal, ProposalStatuses
  <2>4. s.project = None /\ s.snapshot \in Contents
    BY <1>3, <2>1 DEF TypeInv, HasContent
  <2>5. /\ submissions' \in [Numbers -> Submission]
        /\ \A j \in Numbers : submissions'[j] \in {s, submissions[j]}
    BY <1>1, <2>2 DEF TypeInv, TypeOK
  <2>6. HasContent'
    BY <1>3, <2>3, <2>4, <2>5 DEF TypeInv, HasContent, Taken
  <2> QED  BY <1>1, <1>2, <2>3, <2>4, <2>5, <2>6 DEF TypeInv, TypeOK
<1>4. CASE ~ (Exists /\ k \notin Taken)
  <2>1. UNCHANGED <<proposal, submissions>>
    BY <1>4 DEF Submit
  <2>2. HasContent'
    BY <2>1 DEF TypeInv, HasContent, Exists, Taken
  <2> QED  BY <1>1, <1>2, <2>1, <2>2 DEF TypeInv, TypeOK
<1> QED  BY <1>3, <1>4

LEMMA ApproveKeepsTypes ==
  ASSUME TypeInv, NEW k \in Numbers, NEW q \in Projects, Approve(k, q),
         Settles(k, TRUE), UNCHANGED <<moved, revived>>,
         handler' \in [Threads -> Handler], requests' \in 0..MaxRequests
  PROVE  TypeInv'
<1>1. moved' \subseteq Projects /\ revived' \in BOOLEAN
  BY DEF TypeInv, TypeOK
<1>2. /\ proposal \in Proposal /\ submissions \in [Numbers -> Submission]
      /\ made \in [Projects -> Contents \union {None}]
      /\ live \subseteq {r \in Projects : made[r] # None}
      /\ \A j \in Numbers : submissions[j].project \in live \union {None}
  BY DEF TypeInv, TypeOK
<1>3. /\ k \in Taken /\ Exists
      /\ submissions[k].snapshot \in Contents /\ proposal.content \in Contents
  BY DEF Settles, IsLatest, TypeInv, HasContent
<1> DEFINE content == [text |-> submissions[k].snapshot.text, places |-> PlacesOf(k)]
<1>12. content \in Contents
  BY <1>3 DEF Contents, PlacesOf
<1>4. /\ made' = [made EXCEPT ![q] = content]
      /\ live' = live \union {q}
      /\ proposal' = [proposal EXCEPT !.status = "published", !.project = q]
  BY DEF Approve
<1>5. /\ made' \in [Projects -> Contents \union {None}]
      /\ live' \subseteq {r \in Projects : made'[r] # None}
  <2> HIDE DEF content
  <2> QED  BY <1>2, <1>4, <1>12, KeysAssumption
<1>6. /\ proposal' \in Proposal /\ proposal'.project = q
      /\ proposal'.content = proposal.content
  BY <1>2, <1>4 DEF Proposal, ProposalStatuses
<1>7. PICK s \in Submission :
        s = [submissions[k] EXCEPT !.decision = "approved", !.project = q]
  BY <1>2 DEF Submission
<1>8. s.project = q /\ s.snapshot = submissions[k].snapshot
  BY <1>2, <1>7 DEF Submission
<1>9. submissions' = [submissions EXCEPT ![k] = s]
  BY <1>2, <1>7 DEF Approve
<1>10. /\ submissions' \in [Numbers -> Submission]
       /\ \A j \in Numbers : submissions'[j] \in {s, submissions[j]}
  BY <1>2, <1>9
<1>11. HasContent'
  BY <1>3, <1>6, <1>8, <1>10 DEF TypeInv, HasContent, Taken
<1> QED  BY <1>1, <1>2, <1>4, <1>5, <1>6, <1>8, <1>10, <1>11 DEF TypeInv, TypeOK

LEMMA RejectKeepsTypes ==
  ASSUME TypeInv, NEW k \in Numbers, Reject(k),
         Settles(k, FALSE), UNCHANGED <<moved, revived>>,
         handler' \in [Threads -> Handler], requests' \in 0..MaxRequests
  PROVE  TypeInv'
<1>1. moved' \subseteq Projects /\ revived' \in BOOLEAN
  BY DEF TypeInv, TypeOK
<1>2. /\ proposal \in Proposal /\ submissions \in [Numbers -> Submission]
      /\ proposal.project \in live \union {None}
      /\ \A j \in Numbers : submissions[j].project \in live \union {None}
  BY DEF TypeInv, TypeOK
<1>3. k \in Taken /\ Exists /\ submissions[k].snapshot \in Contents
  BY DEF Settles, IsLatest, TypeInv, HasContent
<1>4. UNCHANGED <<made, live>>
  BY DEF Reject
<1>5. /\ proposal' \in Proposal /\ proposal'.project = proposal.project
      /\ proposal'.content = proposal.content
  BY <1>2 DEF Reject, Proposal, ProposalStatuses, Editable
<1>6. PICK s \in Submission :
        s = [submissions[k] EXCEPT !.decision = "rejected", !.project = proposal.project]
  BY <1>2 DEF Submission, Proposal
<1>7. s.project = proposal.project /\ s.snapshot = submissions[k].snapshot
  BY <1>2, <1>6 DEF Submission
<1>8. submissions' = [submissions EXCEPT ![k] = s]
  BY <1>2, <1>6 DEF Reject
<1>9. /\ submissions' \in [Numbers -> Submission]
      /\ \A j \in Numbers : submissions'[j] \in {s, submissions[j]}
  BY <1>2, <1>8
<1>10. HasContent'
  BY <1>3, <1>5, <1>7, <1>9 DEF TypeInv, HasContent, Taken
<1> QED  BY <1>1, <1>2, <1>4, <1>5, <1>7, <1>9, <1>10 DEF TypeInv, TypeOK

\* The rows stay as they are.
LEMMA RowsKeepTypes ==
  ASSUME TypeInv, UNCHANGED <<proposal, submissions, made, live, moved, revived>>,
         handler' \in [Threads -> Handler], requests' \in 0..MaxRequests
  PROVE  TypeInv'
<1>1. HasContent'
  BY DEF TypeInv, HasContent, Exists, Taken
<1>2. moved' \subseteq Projects /\ revived' \in BOOLEAN
  BY DEF TypeInv, TypeOK
<1> QED  BY <1>1, <1>2 DEF TypeInv, TypeOK

LEMMA ModerateKeepsTypes ==
  ASSUME TypeInv, NEW t \in Threads, NEW approve \in BOOLEAN, Moderate(t, approve),
         handler' \in [Threads -> Handler], requests' \in 0..MaxRequests
  PROVE  TypeInv'
<1>1. UNCHANGED <<moved, revived>>
  BY DEF Moderate
<1>2. ASSUME NEW k \in Numbers, NEW q \in Projects, Settles(k, approve), approve,
             Approve(k, q)
      PROVE  TypeInv'
  <2>1. Settles(k, TRUE)
    BY <1>2 DEF Settles
  <2> QED  BY <1>1, <1>2, <2>1, ApproveKeepsTypes
<1>3. ASSUME NEW k \in Numbers, Settles(k, approve), ~ approve, Reject(k)
      PROVE  TypeInv'
  <2>1. Settles(k, FALSE)
    BY <1>3 DEF Settles
  <2> QED  BY <1>1, <1>3, <2>1, RejectKeepsTypes
<1>4. CASE UNCHANGED <<proposal, submissions, made, live>>
  BY <1>1, <1>4, RowsKeepTypes
<1> QED  BY <1>2, <1>3, <1>4 DEF Moderate

LEMMA StepKeepsTypes == TypeInv /\ [Next]_vars => TypeInv'
<1>1. CASE UNCHANGED vars
  BY <1>1 DEF vars, TypeInv, TypeOK, HasContent, Exists, Taken
<1>2. ASSUME TypeInv, Next
      PROVE  TypeInv'
  <2>1. handler' \in [Threads -> Handler] /\ requests' \in 0..MaxRequests
    BY <1>2, HistoryTypes
  <2>2. ASSUME NEW t \in Threads, HandlerDies(t)
        PROVE  TypeInv'
    BY <1>2, <2>1, <2>2, RowsKeepTypes DEF HandlerDies
  <2> QED
    BY <1>2, <2>1, <2>2, LoadKeepsTypes, CreateKeepsTypes, DeleteProjectKeepsTypes,
       ChangeSourceKeepsTypes,
       SaveEditKeepsTypes, DeleteProposalKeepsTypes, SubmitKeepsTypes,
       ModerateKeepsTypes
    DEF Next, LoadForEdit, LoadForDelete, LoadForSubmit, LoadForModeration
<1> QED  BY <1>1, <1>2

\* Rows have their types, and name projects that exist.
THEOREM ProposalTypeCorrect == Spec => []TypeOK
<1>1. TypeInv => TypeOK
  BY DEF TypeInv
<1> QED  BY <1>1, TypeInit, StepKeepsTypes, PTL DEF Spec

-----------------------------------------------------------------------------
(***************************************************************************)
(* Decisions.  What a step does to the decisions on submissions, by its    *)
(* kind; all three facts below rest on it.                                 *)
(***************************************************************************)
DecisionsStay == \A k \in Numbers : submissions'[k].decision = submissions[k].decision
OthersStay(k) ==
  \A j \in Numbers \ {k} : submissions'[j].decision = submissions[j].decision
DecisionsBut(k, before, after) ==
  /\ submissions[k].decision = before /\ submissions'[k].decision = after
  /\ OthersStay(k)

LEMMA DeleteProjectDecisions ==
  ASSUME TypeInv, NEW q \in Projects, DeleteProject(q)
  PROVE  DecisionsStay
<1> QED  BY DEF TypeInv, TypeOK, DeleteProject, Submission, DecisionsStay

LEMMA SubmitDecisions ==
  ASSUME TypeInv, NEW t \in Threads, Submit(t)
  PROVE  \/ UNCHANGED <<proposal, submissions>>
         \/ LET k == proposal.number + 1 IN
              /\ k \in Numbers \ Taken
              /\ DecisionsBut(k, "none", "pending")
              /\ proposal'.number = k
              /\ Exists
<1> DEFINE k == proposal.number + 1
<1>1. k \in Numbers /\ submissions \in [Numbers -> Submission] /\ proposal \in Proposal
  BY DEF Submit, TypeInv, TypeOK
<1>2. CASE Exists /\ k \notin Taken
  <2>1. PICK s : s = [decision |-> "pending", snapshot |-> proposal.content,
                      project |-> None]
    OBVIOUS
  <2>2. s.decision = "pending"
    BY <2>1
  <2>3. /\ submissions' = [submissions EXCEPT ![k] = s]
        /\ proposal' = [proposal EXCEPT !.number = k, !.status = "on_moderation"]
    BY <1>2, <2>1 DEF Submit
  <2>4. proposal'.number = k
    BY <1>1, <2>3 DEF Proposal
  <2>5. submissions[k].decision = "none"
    BY <1>1, <1>2 DEF Taken
  <2>6. submissions'[k].decision = "pending" /\ OthersStay(k)
    <3>1. \A j \in Numbers : submissions'[j] = IF j = k THEN s ELSE submissions[j]
      <4> HIDE DEF k
      <4> QED  BY <1>1, <2>3
    <3> HIDE DEF k
    <3> QED  BY <1>1, <2>2, <3>1 DEF OthersStay
  <2>7. DecisionsBut(k, "none", "pending")
    BY <2>5, <2>6 DEF DecisionsBut
  <2> QED  BY <1>1, <1>2, <2>4, <2>7
<1>3. CASE ~ (Exists /\ k \notin Taken)
  BY <1>3 DEF Submit
<1> QED  BY <1>2, <1>3

LEMMA ModerateDecisions ==
  ASSUME TypeInv, NEW t \in Threads, NEW approve \in BOOLEAN, Moderate(t, approve)
  PROVE  \/ UNCHANGED <<proposal, submissions>>
         \/ /\ \E k \in Numbers, d \in {"approved", "rejected"} :
                 DecisionsBut(k, "pending", d)
            /\ proposal'.status \in {"published", "revision_requested"}
            /\ proposal'.number = proposal.number
            /\ Exists
<1>1. submissions \in [Numbers -> Submission] /\ proposal \in Proposal
  BY DEF TypeInv, TypeOK
<1>2. ASSUME NEW k \in Numbers, NEW q \in Projects, Settles(k, approve), Approve(k, q)
      PROVE  /\ DecisionsBut(k, "pending", "approved")
             /\ proposal'.status = "published" /\ proposal'.number = proposal.number
             /\ Exists
  <2>1. submissions[k].decision = "pending" /\ Exists
    BY <1>2 DEF Settles
  <2>2. proposal'.status = "published" /\ proposal'.number = proposal.number
    BY <1>1, <1>2 DEF Approve, Proposal
  <2>3. submissions'[k].decision = "approved" /\ OthersStay(k)
    BY <1>1, <1>2 DEF Approve, Submission, OthersStay
  <2> QED  BY <2>1, <2>2, <2>3 DEF DecisionsBut
<1>3. ASSUME NEW k \in Numbers, Settles(k, approve), Reject(k)
      PROVE  /\ DecisionsBut(k, "pending", "rejected")
             /\ proposal'.status = "revision_requested"
             /\ proposal'.number = proposal.number
             /\ Exists
  <2>1. submissions[k].decision = "pending" /\ Exists
    BY <1>3 DEF Settles
  <2>2. proposal'.status = "revision_requested" /\ proposal'.number = proposal.number
    BY <1>1, <1>3 DEF Reject, Proposal
  <2>3. submissions'[k].decision = "rejected" /\ OthersStay(k)
    BY <1>1, <1>3 DEF Reject, Submission, OthersStay
  <2> QED  BY <2>1, <2>2, <2>3 DEF DecisionsBut
<1>4. CASE \E k \in Numbers : /\ Settles(k, approve)
                              /\ IF approve THEN \E q \in Projects : Approve(k, q)
                                            ELSE Reject(k)
  BY <1>2, <1>3, <1>4
<1>5. CASE UNCHANGED <<proposal, submissions>>
  BY <1>5
<1> QED  BY <1>4, <1>5 DEF Moderate

\* A submission is created pending, settled once, and then only deleted.
DecisionsMoveOn ==
  \A k \in Numbers :
    submissions[k].decision \in {"approved", "rejected"} =>
      submissions'[k].decision \in {submissions[k].decision, "none"}

LEMMA StepMovesOn == TypeInv /\ [Next]_vars => DecisionsMoveOn
<1> SUFFICES ASSUME TypeInv, [Next]_vars PROVE DecisionsMoveOn
  OBVIOUS
<1>1. CASE UNCHANGED submissions
  BY <1>1 DEF DecisionsMoveOn
<1>2. CASE DecisionsStay
  BY <1>2 DEF DecisionsStay, DecisionsMoveOn
<1>3. CASE \E t \in Threads : DeleteProposal(t)
  BY <1>3 DEF DeleteProposal, NoSubmission, DecisionsMoveOn
<1>4. CASE \E t \in Threads : Submit(t)
  <2>1. CASE UNCHANGED submissions
    BY <1>1, <2>1
  <2>2. CASE DecisionsBut(proposal.number + 1, "none", "pending")
    BY <2>2 DEF DecisionsBut, OthersStay, DecisionsMoveOn
  <2> QED  BY <1>4, <2>1, <2>2, SubmitDecisions
<1>5. CASE \E t \in Threads, approve \in BOOLEAN : Moderate(t, approve)
  <2>1. CASE UNCHANGED submissions
    BY <1>1, <2>1
  <2>2. CASE \E k \in Numbers, d \in {"approved", "rejected"} :
               DecisionsBut(k, "pending", d)
    BY <2>2 DEF DecisionsBut, OthersStay, DecisionsMoveOn
  <2> QED  BY <1>5, <2>1, <2>2, ModerateDecisions
<1>6. CASE \E q \in Projects : DeleteProject(q)
  BY <1>2, <1>6, DeleteProjectDecisions
<1> QED
  BY <1>1, <1>3, <1>4, <1>5, <1>6
  DEF Next, vars, Create, ChangeSource, LoadForEdit, LoadForDelete, LoadForSubmit,
      LoadForModeration, Load, SaveEdit, HandlerDies

\* A decision on a submission is never changed.
THEOREM DecisionsAlwaysStand == Spec => DecisionsStand
<1>1. TypeInv /\ [Next]_vars =>
        [\A k \in Numbers :
           submissions[k].decision \in {"approved", "rejected"} =>
             submissions'[k].decision \in {submissions[k].decision, "none"}]_vars
  BY StepMovesOn DEF DecisionsMoveOn
<1> QED  BY <1>1, TypeInit, StepKeepsTypes, PTL DEF Spec, DecisionsStand

-----------------------------------------------------------------------------
(***************************************************************************)
(* Waiting.  Unless the row was deleted, the submissions are numbered from *)
(* 1 without gaps and the row and the copies that PUTs hold name one of    *)
(* them, or none; so a number that is free follows the latest submission,  *)
(* and the one that Submit creates is the latest.                          *)
(***************************************************************************)
NumbersRun ==
  proposal.status # "gone" /\ ~revived =>
    /\ \A k \in Taken : 1..k \subseteq Taken
    /\ proposal.number \in Taken \union {0}
    /\ \A t \in Threads :
         handler[t].op = "edit" => handler[t].copy.number \in Taken \union {0}

CopiesEditable ==
  \A t \in Threads : handler[t].op = "edit" => handler[t].copy.status \in Editable

WaitInv == TypeInv /\ NumbersRun /\ CopiesEditable /\ WaitingHasPending

\* A step that settles or keeps submissions, and leaves no new copy behind.
LEMMA TakenStays ==
  ASSUME TypeInv, \/ DecisionsStay
                  \/ \E k \in Numbers, d \in {"approved", "rejected"} :
                       DecisionsBut(k, "pending", d)
  PROVE  Taken' = Taken
<1> QED  BY DEF Taken, DecisionsStay, DecisionsBut, OthersStay

LEMMA WaitInit == Init => WaitInv
<1> SUFFICES ASSUME Init PROVE WaitInv
  OBVIOUS
<1>1. TypeInv
  BY TypeInit
<1>2. \A t \in Threads : handler[t].op = "none"
  BY DEF Init, NoHandler
<1>3. Taken = {} /\ proposal.number = 0 /\ proposal.status = "free"
  BY DEF Init, NoProposal, Taken, NoSubmission
<1> QED  BY <1>1, <1>2, <1>3 DEF WaitInv, NumbersRun, CopiesEditable, WaitingHasPending

\* A handler that returns holds no copy.
LEMMA FinishHoldsNone ==
  ASSUME TypeInv, NEW t \in Threads, Finish(t)
  PROVE  \A u \in Threads : handler'[u].op = "edit" => handler'[u] = handler[u]
<1>1. handler \in [Threads -> Handler] /\ NoHandler.op = "none"
  BY DEF TypeInv, TypeOK, NoHandler
<1> QED  BY <1>1 DEF Finish

LEMMA LoadKeepsWaiting ==
  ASSUME WaitInv, NEW t \in Threads, NEW op, NEW S, Load(t, op, S),
         op = "edit" => S = Editable
  PROVE  NumbersRun' /\ CopiesEditable' /\ WaitingHasPending'
<1>1. UNCHANGED <<proposal, submissions, revived>> /\ proposal.status \in S
  BY DEF Load
<1>2. \A u \in Threads :
        handler'[u].op = "edit" =>
          \/ handler'[u] = handler[u]
          \/ S = Editable /\ handler'[u].copy = proposal
  <2>1. handler \in [Threads -> Handler]
    BY DEF WaitInv, TypeInv, TypeOK
  <2>2. PICK h : h = [op |-> op, copy |-> proposal]
    OBVIOUS
  <2>3. h.op = op /\ h.copy = proposal
    BY <2>2
  <2>4. handler' = [handler EXCEPT ![t] = h]
    BY <2>2 DEF Load
  <2> QED  BY <2>1, <2>3, <2>4
<1>3. Taken' = Taken
  BY <1>1 DEF Taken
<1>4. NumbersRun'
  BY <1>1, <1>2, <1>3 DEF WaitInv, NumbersRun
<1>5. CopiesEditable'
  BY <1>1, <1>2 DEF WaitInv, CopiesEditable
<1>6. WaitingHasPending'
  BY <1>1, <1>3 DEF WaitInv, WaitingHasPending, IsLatest
<1> QED  BY <1>4, <1>5, <1>6

LEMMA SaveEditKeepsWaiting ==
  ASSUME WaitInv, NEW t \in Threads, NEW c \in Contents, SaveEdit(t, c)
  PROVE  NumbersRun' /\ CopiesEditable' /\ WaitingHasPending'
<1> DEFINE copy == handler[t].copy
<1>1. UNCHANGED submissions /\ handler[t].op = "edit" /\ Finish(t)
  BY DEF SaveEdit
<1>2. copy \in Proposal /\ copy.status \in Editable
  BY <1>1 DEF WaitInv, TypeInv, TypeOK, Handler, CopiesEditable
<1>3. \A u \in Threads : handler'[u].op = "edit" => handler'[u] = handler[u]
  BY <1>1, FinishHoldsNone DEF WaitInv
<1>4. Taken' = Taken
  BY <1>1 DEF Taken
<1>5. CopiesEditable'
  BY <1>3 DEF WaitInv, CopiesEditable
<1>6. CASE copy.project \in live \union {None}
  <2>1. proposal' = [copy EXCEPT !.content = c] /\ revived' = (revived \/ ~Exists)
    BY <1>6 DEF SaveEdit
  <2>2. proposal'.number = copy.number /\ proposal'.status = copy.status
    BY <1>2, <2>1 DEF Proposal
  <2>3. ~ revived' => ~ revived /\ proposal.status # "gone"
    BY <2>1 DEF Exists, ProposalStatuses, Editable
  <2>4. NumbersRun'
    BY <1>1, <1>3, <1>4, <2>2, <2>3 DEF WaitInv, NumbersRun
  <2>5. WaitingHasPending'
    BY <1>2, <2>2 DEF WaitingHasPending, Editable
  <2> QED  BY <1>5, <2>4, <2>5
<1>7. CASE ~ (copy.project \in live \union {None})
  <2>1. UNCHANGED <<proposal, revived>>
    BY <1>7 DEF SaveEdit
  <2>2. NumbersRun'
    BY <1>3, <1>4, <2>1 DEF WaitInv, NumbersRun
  <2>3. WaitingHasPending'
    BY <1>1, <1>4, <2>1 DEF WaitInv, WaitingHasPending, IsLatest
  <2> QED  BY <1>5, <2>2, <2>3
<1> QED  BY <1>6, <1>7

LEMMA SubmitKeepsWaiting ==
  ASSUME WaitInv, NEW t \in Threads, Submit(t)
  PROVE  NumbersRun' /\ CopiesEditable' /\ WaitingHasPending'
<1>1. UNCHANGED revived /\ Finish(t)
  BY DEF Submit
<1>2. \A u \in Threads : handler'[u].op = "edit" => handler'[u] = handler[u]
  BY <1>1, FinishHoldsNone DEF WaitInv
<1>3. CopiesEditable'
  BY <1>2 DEF WaitInv, CopiesEditable
<1>4. CASE UNCHANGED <<proposal, submissions>>
  <2>1. Taken' = Taken
    BY <1>4 DEF Taken
  <2>2. NumbersRun'
    BY <1>1, <1>2, <1>4, <2>1 DEF WaitInv, NumbersRun
  <2>3. WaitingHasPending'
    BY <1>1, <1>4, <2>1 DEF WaitInv, WaitingHasPending, IsLatest
  <2> QED  BY <1>3, <2>2, <2>3
<1>5. ASSUME NEW k \in Numbers \ Taken, k = proposal.number + 1,
             DecisionsBut(k, "none", "pending"), proposal'.number = k, Exists
      PROVE  NumbersRun' /\ CopiesEditable' /\ WaitingHasPending'
  <2>1. Taken' = Taken \union {k}
    BY <1>5 DEF Taken, DecisionsBut, OthersStay
  <2>2. proposal.status # "gone"
    BY <1>5 DEF Exists, ProposalStatuses, Editable
  <2>3. Taken \subseteq Nat /\ proposal.number \in Nat /\ k \in Nat /\ k >= 1
    BY BoundsAssumption DEF Taken, Numbers, WaitInv, TypeInv, TypeOK, Proposal
  <2>4. CASE revived
    BY <1>1, <1>3, <2>4 DEF NumbersRun, WaitingHasPending
  <2>5. CASE ~ revived
    <3>1. /\ \A j \in Taken : 1..j \subseteq Taken
          /\ proposal.number \in Taken \union {0}
          /\ \A u \in Threads :
               handler[u].op = "edit" => handler[u].copy.number \in Taken \union {0}
      BY <2>2, <2>5 DEF WaitInv, NumbersRun
    <3>2. \A j \in Taken : j < k
      <4> SUFFICES ASSUME NEW j \in Taken, ~ (j < k) PROVE FALSE
        OBVIOUS
      <4>1. k \in 1..j
        BY <2>3
      <4> QED  BY <1>5, <3>1, <4>1
    <3>3. 1..k \subseteq Taken'
      <4>1. CASE proposal.number = 0
        BY <1>5, <2>1, <4>1
      <4>2. CASE proposal.number \in Taken
        <5>1. 1..proposal.number \subseteq Taken
          BY <3>1, <4>2
        <5>2. \A i \in 1..k : i = k \/ i \in 1..proposal.number
          BY <1>5, <2>3
        <5> QED  BY <2>1, <5>1, <5>2
      <4> QED  BY <3>1, <4>1, <4>2
    <3>4. \A j \in Taken' : 1..j \subseteq Taken'
      BY <2>1, <3>1, <3>3
    <3>5. NumbersRun'
      BY <1>2, <1>5, <2>1, <3>1, <3>4 DEF NumbersRun
    <3>6. \A j \in Taken' : j <= k
      BY <2>1, <2>3, <3>2
    <3>7. IsLatest(k)'
      BY <2>1, <3>6 DEF IsLatest
    <3>8. submissions'[k].decision = "pending"
      BY <1>5 DEF DecisionsBut
    <3>9. WaitingHasPending'
      BY <3>7, <3>8 DEF WaitingHasPending
    <3> QED  BY <1>3, <3>5, <3>9
  <2> QED  BY <2>4, <2>5
<1> QED  BY <1>4, <1>5, SubmitDecisions DEF WaitInv

LEMMA ModerateKeepsWaiting ==
  ASSUME WaitInv, NEW t \in Threads, NEW approve \in BOOLEAN, Moderate(t, approve)
  PROVE  NumbersRun' /\ CopiesEditable' /\ WaitingHasPending'
<1>1. UNCHANGED revived /\ Finish(t)
  BY DEF Moderate
<1>2. \A u \in Threads : handler'[u].op = "edit" => handler'[u] = handler[u]
  BY <1>1, FinishHoldsNone DEF WaitInv
<1>3. CopiesEditable'
  BY <1>2 DEF WaitInv, CopiesEditable
<1>4. CASE UNCHANGED <<proposal, submissions>>
  <2>1. Taken' = Taken
    BY <1>4 DEF Taken
  <2>2. NumbersRun'
    BY <1>1, <1>2, <1>4, <2>1 DEF WaitInv, NumbersRun
  <2>3. WaitingHasPending'
    BY <1>1, <1>4, <2>1 DEF WaitInv, WaitingHasPending, IsLatest
  <2> QED  BY <1>3, <2>2, <2>3
<1>5. CASE /\ \E k \in Numbers, d \in {"approved", "rejected"} :
                DecisionsBut(k, "pending", d)
           /\ proposal'.status \in {"published", "revision_requested"}
           /\ proposal'.number = proposal.number
           /\ Exists
  <2>1. Taken' = Taken
    BY <1>5, TakenStays DEF WaitInv
  <2>2. proposal.status # "gone"
    BY <1>5 DEF Exists, ProposalStatuses, Editable
  <2>3. NumbersRun'
    BY <1>1, <1>2, <1>5, <2>1, <2>2 DEF WaitInv, NumbersRun
  <2>4. WaitingHasPending'
    BY <1>5 DEF WaitingHasPending
  <2> QED  BY <1>3, <2>3, <2>4
<1> QED  BY <1>4, <1>5, ModerateDecisions DEF WaitInv

LEMMA DeletionsKeepWaiting ==
  ASSUME WaitInv, \/ \E q \in Projects : DeleteProject(q)
                  \/ \E t \in Threads : DeleteProposal(t)
  PROVE  NumbersRun' /\ CopiesEditable' /\ WaitingHasPending'
<1>1. ASSUME NEW q \in Projects, DeleteProject(q)
      PROVE  NumbersRun' /\ CopiesEditable' /\ WaitingHasPending'
  <2>1. DecisionsStay
    BY <1>1, DeleteProjectDecisions DEF WaitInv
  <2>2. Taken' = Taken
    BY <2>1, TakenStays DEF WaitInv
  <2>3. UNCHANGED <<handler, revived>>
    BY <1>1 DEF DeleteProject, SingleStatement
  <2>4. proposal'.status = proposal.status /\ proposal'.number = proposal.number
    BY <1>1 DEF WaitInv, TypeInv, TypeOK, Proposal, DeleteProject
  <2>5. NumbersRun' /\ CopiesEditable'
    BY <2>2, <2>3, <2>4 DEF WaitInv, NumbersRun, CopiesEditable
  <2>6. WaitingHasPending'
    BY <2>1, <2>2, <2>3, <2>4
    DEF WaitInv, WaitingHasPending, IsLatest, DecisionsStay
  <2> QED  BY <2>5, <2>6
<1>2. ASSUME NEW t \in Threads, DeleteProposal(t)
      PROVE  NumbersRun' /\ CopiesEditable' /\ WaitingHasPending'
  <2>1. proposal'.status = "gone"
    BY <1>2 DEF DeleteProposal, NoProposal
  <2>2. \A u \in Threads : handler'[u].op = "edit" => handler'[u] = handler[u]
    BY <1>2, FinishHoldsNone DEF WaitInv, DeleteProposal
  <2> QED  BY <2>1, <2>2 DEF WaitInv, NumbersRun, CopiesEditable, WaitingHasPending
<1> QED  BY <1>1, <1>2

LEMMA OthersKeepWaiting ==
  ASSUME WaitInv, \/ \E c \in Contents : Create(c)
                  \/ \E q \in Projects : ChangeSource(q)
                  \/ \E t \in Threads : HandlerDies(t)
                  \/ UNCHANGED vars
  PROVE  NumbersRun' /\ CopiesEditable' /\ WaitingHasPending'
<1>1. UNCHANGED <<submissions, revived>> /\ Taken' = Taken
  BY DEF Create, ChangeSource, HandlerDies, SingleStatement, vars, Taken
<1>2. \A u \in Threads : handler'[u].op = "edit" => handler'[u] = handler[u]
  BY FinishHoldsNone DEF WaitInv, Create, ChangeSource, SingleStatement, HandlerDies, vars
<1>3. CASE UNCHANGED proposal
  BY <1>1, <1>2, <1>3
  DEF WaitInv, NumbersRun, CopiesEditable, WaitingHasPending, IsLatest
<1>4. ASSUME NEW c \in Contents, Create(c)
      PROVE  NumbersRun' /\ CopiesEditable' /\ WaitingHasPending'
  <2>1. proposal'.status = "draft" /\ proposal'.number = 0
        /\ proposal.status = "free"
    BY <1>4 DEF Create, NoProposal
  <2> QED
    BY <1>1, <1>2, <2>1 DEF WaitInv, NumbersRun, CopiesEditable, WaitingHasPending
<1> QED  BY <1>3, <1>4 DEF HandlerDies, ChangeSource, vars

LEMMA StepKeepsWaiting == WaitInv /\ [Next]_vars => WaitInv'
<1> SUFFICES ASSUME WaitInv, [Next]_vars PROVE WaitInv'
  OBVIOUS
<1>1. TypeInv'
  BY StepKeepsTypes DEF WaitInv
<1>2. ASSUME NEW t \in Threads,
             \/ LoadForEdit(t) \/ LoadForDelete(t) \/ LoadForSubmit(t)
             \/ LoadForModeration(t)
      PROVE  NumbersRun' /\ CopiesEditable' /\ WaitingHasPending'
  <2>1. PICK op, S : Load(t, op, S) /\ (op = "edit" => S = Editable)
    BY <1>2 DEF LoadForEdit, LoadForDelete, LoadForSubmit, LoadForModeration
  <2> QED  BY <2>1, LoadKeepsWaiting
<1>3. NumbersRun' /\ CopiesEditable' /\ WaitingHasPending'
  BY <1>2, SaveEditKeepsWaiting, SubmitKeepsWaiting, ModerateKeepsWaiting,
     DeletionsKeepWaiting, OthersKeepWaiting
  DEF Next
<1> QED  BY <1>1, <1>3 DEF WaitInv

\* A proposal that waits for moderation has a pending submission to decide on.
THEOREM WaitingAlwaysHasPending == Spec => []WaitingHasPending
<1>1. WaitInv => WaitingHasPending
  BY DEF WaitInv
<1> QED  BY <1>1, WaitInit, StepKeepsWaiting, PTL DEF Spec
-----------------------------------------------------------------------------
(***************************************************************************)
(* Publication.  A project's key is drawn once, so what it was made with   *)
(* stays; a decided submission's snapshot stays too.  An approval makes a  *)
(* project only when none bears the proposal's reference, and names it in  *)
(* the submission, which only a deletion changes.                          *)
(***************************************************************************)
OneBearer == \A q, r \in live \ moved : q = r

ComesOf(q, k) ==
  /\ submissions[k].decision = "approved" /\ submissions[k].project = q
  /\ \A j \in Numbers \ {k} :
       submissions[j].decision = "approved" => submissions[j].project # q

LiveAreApproved == Exists /\ ~revived => \A q \in live : \E k \in Numbers : ComesOf(q, k)

\* Before the proposal was created there is no project of it.
FreeHasNothing == proposal.status = "free" => live = {}

PublicationInv ==
  /\ TypeInv /\ CopiesEditable
  /\ FreeHasNothing /\ PublishedAsSubmitted /\ OneBearer /\ LiveAreApproved

\* What the four facts say of the rows.
RowFacts == FreeHasNothing /\ PublishedAsSubmitted /\ OneBearer /\ LiveAreApproved

LEMMA PublicationInit == Init => PublicationInv
<1> SUFFICES ASSUME Init PROVE PublicationInv
  OBVIOUS
<1>1. TypeInv
  BY TypeInit
<1>2. CopiesEditable
  BY WaitInit DEF WaitInv
<1>3. live = {} /\ \A k \in Numbers : submissions[k].project = None
  BY DEF Init, NoSubmission
<1> QED
  BY <1>1, <1>2, <1>3
  DEF PublicationInv, FreeHasNothing, PublishedAsSubmitted, OneBearer, LiveAreApproved

LEMMA DeleteProjectKeepsPublication ==
  ASSUME PublicationInv, NEW q \in Projects, DeleteProject(q)
  PROVE  RowFacts'
<1>1. /\ proposal \in Proposal /\ submissions \in [Numbers -> Submission]
      /\ live \subseteq Projects
  BY DEF PublicationInv, TypeInv, TypeOK
<1>2. UNCHANGED <<made, moved, revived>> /\ live' = live \ {q}
  BY DEF DeleteProject, SingleStatement
<1>3. proposal'.status = proposal.status
  BY <1>1 DEF DeleteProject, Proposal
<1>4. ASSUME NEW k \in Numbers
      PROVE  /\ submissions'[k].decision = submissions[k].decision
             /\ submissions'[k].snapshot = submissions[k].snapshot
             /\ submissions'[k].project =
                  IF submissions[k].project = q THEN None ELSE submissions[k].project
  BY <1>1 DEF DeleteProject, Submission
<1>5. FreeHasNothing' /\ OneBearer'
  BY <1>2, <1>3 DEF PublicationInv, FreeHasNothing, OneBearer
<1>6. PublishedAsSubmitted'
  BY <1>2, <1>4 DEF PublicationInv, PublishedAsSubmitted
<1>7. LiveAreApproved'
  <2> SUFFICES ASSUME Exists, ~revived, NEW r \in live \ {q}
               PROVE  \E k \in Numbers : ComesOf(r, k)'
    BY <1>2, <1>3 DEF LiveAreApproved, Exists
  <2>1. PICK k \in Numbers : ComesOf(r, k)
    BY DEF PublicationInv, LiveAreApproved
  <2>2. None # r
    BY <1>1, KeysAssumption
  <2>3. ComesOf(r, k)'
    BY <1>4, <2>1, <2>2 DEF ComesOf
  <2> QED  BY <2>3
<1> QED  BY <1>5, <1>6, <1>7 DEF RowFacts

LEMMA SaveEditKeepsPublication ==
  ASSUME PublicationInv, NEW t \in Threads, NEW c \in Contents, SaveEdit(t, c)
  PROVE  RowFacts'
<1> DEFINE copy == handler[t].copy
<1>1. UNCHANGED <<submissions, made, live, moved>> /\ handler[t].op = "edit"
  BY DEF SaveEdit
<1>2. copy \in Proposal /\ copy.status \in Editable
  BY <1>1 DEF PublicationInv, TypeInv, TypeOK, Handler, CopiesEditable
<1>3. PublishedAsSubmitted' /\ OneBearer'
  BY <1>1 DEF PublicationInv, PublishedAsSubmitted, OneBearer
<1>4. CASE copy.project \in live \union {None}
  <2>1. /\ proposal' = [copy EXCEPT !.content = c]
        /\ revived' = (revived \/ ~Exists)
    BY <1>4 DEF SaveEdit
  <2>2. proposal'.status = copy.status
    BY <1>2, <2>1 DEF Proposal
  <2>3. FreeHasNothing'
    BY <1>2, <2>2 DEF FreeHasNothing, Editable
  <2>4. ~revived' => Exists /\ ~revived
    BY <2>1
  <2>5. LiveAreApproved'
    BY <1>1, <2>4 DEF PublicationInv, LiveAreApproved, ComesOf
  <2> QED  BY <1>3, <2>3, <2>5 DEF RowFacts
<1>5. CASE ~ (copy.project \in live \union {None})
  <2>1. UNCHANGED <<proposal, revived>>
    BY <1>5 DEF SaveEdit
  <2> QED
    BY <1>1, <1>3, <2>1
    DEF PublicationInv, RowFacts, FreeHasNothing, LiveAreApproved, Exists, ComesOf
<1> QED  BY <1>4, <1>5

LEMMA SubmitKeepsPublication ==
  ASSUME PublicationInv, NEW t \in Threads, Submit(t)
  PROVE  RowFacts'
<1> DEFINE k == proposal.number + 1
<1>1. UNCHANGED <<made, live, moved, revived>> /\ k \in Numbers
  BY DEF Submit
<1>2. proposal \in Proposal /\ submissions \in [Numbers -> Submission]
  BY DEF PublicationInv, TypeInv, TypeOK
<1>3. CASE Exists /\ k \notin Taken
  <2>1. PICK s : s = [decision |-> "pending", snapshot |-> proposal.content,
                      project |-> None]
    OBVIOUS
  <2>2. s.decision = "pending" /\ s.project = None
    BY <2>1
  <2>3. submissions' = [submissions EXCEPT ![k] = s]
    BY <1>3, <2>1 DEF Submit
  <2>4. /\ \A j \in Numbers : submissions'[j] = IF j = k THEN s ELSE submissions[j]
        /\ submissions[k].decision = "none"
    <3>1. submissions[k].decision = "none"
      BY <1>1, <1>3 DEF Taken
    <3> HIDE DEF k
    <3> QED  BY <1>1, <1>2, <2>3, <3>1
  <2>5. proposal'.status = "on_moderation"
    <3>1. proposal' = [proposal EXCEPT !.number = k, !.status = "on_moderation"]
      BY <1>3 DEF Submit
    <3> HIDE DEF k
    <3> QED  BY <1>2, <3>1 DEF Proposal
  <2>6. FreeHasNothing' /\ OneBearer'
    BY <1>1, <2>5 DEF PublicationInv, FreeHasNothing, OneBearer
  <2>7. PublishedAsSubmitted'
    BY <1>1, <2>2, <2>4 DEF PublicationInv, PublishedAsSubmitted
  <2>8. \A q \in live, j \in Numbers : ComesOf(q, j) => ComesOf(q, j)'
    <3> HIDE DEF k
    <3> QED  BY <2>2, <2>4 DEF ComesOf
  <2>9. LiveAreApproved'
    BY <1>1, <1>3, <2>8 DEF PublicationInv, LiveAreApproved
  <2> QED  BY <2>6, <2>7, <2>9 DEF RowFacts
<1>4. CASE ~ (Exists /\ k \notin Taken)
  <2>1. UNCHANGED <<proposal, submissions>>
    BY <1>4 DEF Submit
  <2> QED
    BY <1>1, <2>1
    DEF PublicationInv, RowFacts, FreeHasNothing, PublishedAsSubmitted, OneBearer,
        LiveAreApproved, Exists, ComesOf
<1> QED  BY <1>3, <1>4

\* The key is new, the submission was pending, and no live project bears the
\* reference.
LEMMA ApproveKeepsPublication ==
  ASSUME PublicationInv, NEW k \in Numbers, NEW q \in Projects, Approve(k, q),
         Settles(k, TRUE), UNCHANGED <<moved, revived>>
  PROVE  RowFacts'
<1>1. /\ proposal \in Proposal /\ submissions \in [Numbers -> Submission]
      /\ made \in [Projects -> Contents \union {None}]
      /\ live \subseteq {r \in Projects : made[r] # None}
      /\ \A j \in Numbers : submissions[j].project \in live \union {None}
  BY DEF PublicationInv, TypeInv, TypeOK
<1>2. /\ made[q] = None /\ live \subseteq moved
      /\ submissions[k].decision = "pending" /\ Exists
  BY DEF Approve, Settles, Unborne
<1>3. q \notin live /\ q # None
  BY <1>1, <1>2, KeysAssumption
<1>4. /\ \A r \in Projects \ {q} : made'[r] = made[r]
      /\ made'[q].text = submissions[k].snapshot.text
      /\ made'[q].places = PlacesOf(k)
      /\ live' = live \union {q}
  BY <1>1 DEF Approve
<1>5. proposal'.status = "published"
  BY <1>1 DEF Approve, Proposal
<1>6. /\ \A j \in Numbers \ {k} : submissions'[j] = submissions[j]
      /\ submissions'[k].project = q
      /\ submissions'[k].decision = "approved"
      /\ submissions'[k].snapshot = submissions[k].snapshot
  BY <1>1 DEF Approve, Submission
<1>7. FreeHasNothing'
  BY <1>5 DEF FreeHasNothing
<1>8. OneBearer'
  BY <1>2, <1>4 DEF OneBearer
<1>9. PublishedAsSubmitted'
  <2> SUFFICES ASSUME NEW j \in Numbers, submissions'[j].decision = "approved",
                      submissions'[j].project # None
               PROVE  /\ made'[submissions'[j].project].text = submissions'[j].snapshot.text
                      /\ submissions'[j].snapshot.places # 0 =>
                           made'[submissions'[j].project].places
                             = submissions'[j].snapshot.places
    BY DEF PublishedAsSubmitted
  <2>1. CASE j = k
    BY <1>4, <1>6, <2>1 DEF PlacesOf
  <2>2. CASE j # k
    <3>1. submissions'[j] = submissions[j] /\ submissions[j].project \in Projects \ {q}
      BY <1>1, <1>3, <1>6, <2>2
    <3> QED  BY <1>4, <3>1 DEF PublicationInv, PublishedAsSubmitted
  <2> QED  BY <2>1, <2>2
<1>10. LiveAreApproved'
  <2> SUFFICES ASSUME ~revived, NEW r \in live \union {q}
               PROVE  \E j \in Numbers : ComesOf(r, j)'
    BY <1>4 DEF LiveAreApproved
  <2>1. CASE r = q
    BY <1>1, <1>3, <1>6, <2>1 DEF ComesOf
  <2>2. CASE r \in live
    <3>1. PICK j \in Numbers : ComesOf(r, j)
      BY <1>2, <2>2 DEF PublicationInv, LiveAreApproved
    <3>2. ComesOf(r, j)'
      BY <1>2, <1>3, <1>6, <2>2, <3>1 DEF ComesOf
    <3> QED  BY <3>2
  <2> QED  BY <2>1, <2>2
<1> QED  BY <1>7, <1>8, <1>9, <1>10 DEF RowFacts

LEMMA RejectKeepsPublication ==
  ASSUME PublicationInv, NEW k \in Numbers, Reject(k), Settles(k, FALSE),
         UNCHANGED <<moved, revived>>
  PROVE  RowFacts'
<1>1. proposal \in Proposal /\ submissions \in [Numbers -> Submission]
  BY DEF PublicationInv, TypeInv, TypeOK
<1>2. UNCHANGED <<made, live>> /\ submissions[k].decision = "pending" /\ Exists
  BY DEF Reject, Settles
<1>3. proposal'.status = "revision_requested"
  BY <1>1 DEF Reject, Proposal
<1>4. /\ \A j \in Numbers \ {k} : submissions'[j] = submissions[j]
      /\ submissions'[k].decision = "rejected"
  BY <1>1 DEF Reject, Submission
<1>5. FreeHasNothing' /\ OneBearer'
  BY <1>2, <1>3 DEF PublicationInv, FreeHasNothing, OneBearer
<1>6. PublishedAsSubmitted'
  BY <1>2, <1>4 DEF PublicationInv, PublishedAsSubmitted
<1>7. \A q \in live, j \in Numbers : ComesOf(q, j) => ComesOf(q, j)'
  BY <1>2, <1>4 DEF ComesOf
<1>8. LiveAreApproved'
  BY <1>2, <1>7 DEF PublicationInv, LiveAreApproved
<1> QED  BY <1>5, <1>6, <1>8 DEF RowFacts

\* The steps that leave the row and its submissions alone, or start or end them.
LEMMA OthersKeepPublication ==
  ASSUME PublicationInv,
         \/ UNCHANGED <<proposal, submissions, made, live, moved, revived>>
         \/ \E c \in Contents : Create(c)
         \/ \E q \in Projects : ChangeSource(q)
         \/ \E t \in Threads : DeleteProposal(t)
  PROVE  RowFacts'
<1>1. CASE UNCHANGED <<proposal, submissions, made, live, moved, revived>>
  BY <1>1
  DEF PublicationInv, RowFacts, FreeHasNothing, PublishedAsSubmitted, OneBearer,
      LiveAreApproved, Exists, ComesOf
<1>2. ASSUME NEW c \in Contents, Create(c)
      PROVE  RowFacts'
  <2>1. UNCHANGED <<submissions, made, live, moved>> /\ live = {}
    BY <1>2 DEF Create, SingleStatement, PublicationInv, FreeHasNothing
  <2> QED
    BY <2>1
    DEF PublicationInv, RowFacts, FreeHasNothing, PublishedAsSubmitted, OneBearer,
        LiveAreApproved
<1>3. ASSUME NEW q \in Projects, ChangeSource(q)
      PROVE  RowFacts'
  <2>1. /\ UNCHANGED <<proposal, submissions, made, live, revived>>
        /\ moved' = moved \union {q}
    BY <1>3 DEF ChangeSource, SingleStatement
  <2> QED
    BY <2>1
    DEF PublicationInv, RowFacts, FreeHasNothing, PublishedAsSubmitted, OneBearer,
        LiveAreApproved, Exists, ComesOf
<1>4. ASSUME NEW t \in Threads, DeleteProposal(t)
      PROVE  RowFacts'
  <2>1. \A k \in Numbers : submissions'[k].project = None
    BY <1>4 DEF DeleteProposal, NoSubmission
  <2>2. proposal'.status = "gone" /\ UNCHANGED <<live, moved>>
    BY <1>4 DEF DeleteProposal, NoProposal
  <2> QED
    BY <2>1, <2>2
    DEF PublicationInv, RowFacts, FreeHasNothing, PublishedAsSubmitted, OneBearer,
        LiveAreApproved, Exists, ProposalStatuses, Editable
<1> QED  BY <1>1, <1>2, <1>3, <1>4

LEMMA ModerateKeepsPublication ==
  ASSUME PublicationInv, NEW t \in Threads, NEW approve \in BOOLEAN,
         Moderate(t, approve)
  PROVE  RowFacts'
<1>1. UNCHANGED <<moved, revived>>
  BY DEF Moderate
<1>2. ASSUME NEW k \in Numbers, NEW q \in Projects, Settles(k, approve), approve,
             Approve(k, q)
      PROVE  RowFacts'
  <2>1. Settles(k, TRUE)
    BY <1>2 DEF Settles
  <2> QED  BY <1>1, <1>2, <2>1, ApproveKeepsPublication
<1>3. ASSUME NEW k \in Numbers, Settles(k, approve), ~approve, Reject(k)
      PROVE  RowFacts'
  <2>1. Settles(k, FALSE)
    BY <1>3 DEF Settles
  <2> QED  BY <1>1, <1>3, <2>1, RejectKeepsPublication
<1>4. CASE UNCHANGED <<proposal, submissions, made, live>>
  BY <1>1, <1>4, OthersKeepPublication
<1> QED  BY <1>2, <1>3, <1>4 DEF Moderate

\* Copies to edit come from rows that may be edited.
LEMMA StepKeepsCopies ==
  ASSUME TypeInv, CopiesEditable, [Next]_vars
  PROVE  CopiesEditable'
<1>1. ASSUME NEW t \in Threads, NEW op, NEW S, Load(t, op, S), op = "edit" => S = Editable
      PROVE  CopiesEditable'
  <2>1. handler \in [Threads -> Handler] /\ proposal.status \in S
    BY <1>1 DEF TypeInv, TypeOK, Load
  <2>2. PICK h : h = [op |-> op, copy |-> proposal]
    OBVIOUS
  <2>3. h.op = op /\ h.copy = proposal /\ handler' = [handler EXCEPT ![t] = h]
    BY <1>1, <2>2 DEF Load
  <2> QED  BY <1>1, <2>1, <2>3 DEF CopiesEditable
<1>2. ASSUME NEW t \in Threads, Finish(t)
      PROVE  CopiesEditable'
  BY <1>2, FinishHoldsNone DEF CopiesEditable
<1>3. CASE UNCHANGED handler
  BY <1>3 DEF CopiesEditable
<1> QED
  BY <1>1, <1>2, <1>3
  DEF Next, vars, Create, DeleteProject, ChangeSource, SingleStatement, LoadForEdit,
      LoadForDelete,
      LoadForSubmit, LoadForModeration, SaveEdit, DeleteProposal, Submit, Moderate,
      HandlerDies

LEMMA StepKeepsPublication == PublicationInv /\ [Next]_vars => PublicationInv'
<1> SUFFICES ASSUME PublicationInv, [Next]_vars PROVE PublicationInv'
  OBVIOUS
<1>1. TypeInv' /\ CopiesEditable'
  BY StepKeepsTypes, StepKeepsCopies DEF PublicationInv
<1>2. ASSUME NEW t \in Threads,
             \/ LoadForEdit(t) \/ LoadForDelete(t) \/ LoadForSubmit(t)
             \/ LoadForModeration(t) \/ HandlerDies(t)
      PROVE  RowFacts'
  BY <1>2, OthersKeepPublication
  DEF LoadForEdit, LoadForDelete, LoadForSubmit, LoadForModeration, Load, HandlerDies
<1>3. ASSUME UNCHANGED vars
      PROVE  RowFacts'
  BY <1>3, OthersKeepPublication DEF vars
<1>4. RowFacts'
  BY <1>2, <1>3, DeleteProjectKeepsPublication, SaveEditKeepsPublication,
     SubmitKeepsPublication, ModerateKeepsPublication, OthersKeepPublication
  DEF Next
<1> QED  BY <1>1, <1>4 DEF PublicationInv, RowFacts

\* A project says what was submitted and approved.
THEOREM AlwaysPublishedAsSubmitted == Spec => []PublishedAsSubmitted
<1>1. PublicationInv => PublishedAsSubmitted
  BY DEF PublicationInv
<1> QED  BY <1>1, PublicationInit, StepKeepsPublication, PTL DEF Spec

\* One live project at most bears the proposal's reference, and each comes of one
\* approved submission.
THEOREM AlwaysOneLiveProject == Spec => []OneLiveProject
<1>1. PublicationInv => OneLiveProject
  BY DEF PublicationInv, OneBearer, LiveAreApproved, ComesOf, OneLiveProject
<1> QED  BY <1>1, PublicationInit, StepKeepsPublication, PTL DEF Spec
=============================================================================
