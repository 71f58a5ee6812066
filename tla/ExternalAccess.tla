---------------------------- MODULE ExternalAccess ----------------------------
(***************************************************************************)
(* Customers without a corporate address: the allowlist, the access        *)
(* requests and the CPPRP pages that decide them (frontend/views/cpprp.py, *)
(* frontend/views/auth.py).  Every save is a commit of its own.            *)
(***************************************************************************)
CONSTANTS
  External,    \* addresses outside ALLOWED_CORPORATE_EMAIL_DOMAINS
  NoAddress,
  Moderators   \* CPPRP members working at once

ASSUME AddressAssumption == NoAddress \notin External

\* An allowlist entry is active or switched off; a request has a status.
ListingStates == {"none", "active", "inactive"}
RequestStates == {"none", "pending", "approved", "rejected"}

VARIABLES
  listed,     \* users_externalaccessallowlist: is_active, or no row
  request,    \* users_externalaccessrequest: status, or no row
  moderator,  \* the handler each moderator is in, and what it read
  cleared     \* history: addresses that were ever let in

accessVars == <<listed, request, moderator, cleared>>

Moderator ==
  [pc : {"idle", "approving", "marking", "toggling"},
   email : External \union {NoAddress}, active : BOOLEAN]
AtDesk == [pc |-> "idle", email |-> NoAddress, active |-> FALSE]

AccessTypeOK ==
  /\ listed \in [External -> ListingStates]
  /\ request \in [External -> RequestStates]
  /\ moderator \in [Moderators -> Moderator]
  /\ cleared \in SUBSET External

AccessInit ==
  /\ listed = [e \in External |-> "none"]
  /\ request = [e \in External |-> "none"]
  /\ moderator = [m \in Moderators |-> AtDesk]
  /\ cleared = {}

\* _external_email_is_allowlisted
Allowlisted(e) == listed[e] = "active"

LetIn(e) ==
  /\ listed' = [listed EXCEPT ![e] = "active"]
  /\ cleared' = cleared \union {e}

-----------------------------------------------------------------------------
\* _create_or_refresh_external_access_request: a new row, or the old one reset.
CreateOrRefreshRequest(e) ==
  /\ request' = [request EXCEPT ![e] = "pending"]
  /\ UNCHANGED <<listed, moderator, cleared>>

\* cpprp_external_request_approve opens the request, whatever its status is.
OpenApproval(m, e) ==
  /\ moderator[m].pc = "idle"
  /\ request[e] # "none"
  /\ moderator' = [moderator EXCEPT ![m] = [AtDesk EXCEPT !.pc = "approving", !.email = e]]
  /\ UNCHANGED <<listed, request, cleared>>

\* Mutation of ApproveEntry: the request is marked before the entry is saved.
ApproveMarksFirst(m) ==
  /\ moderator[m].pc = "approving"
  /\ request' = [request EXCEPT ![moderator[m].email] = "approved"]
  /\ moderator' = [moderator EXCEPT ![m].pc = "marking"]
  /\ UNCHANGED <<listed, cleared>>

\* get_or_create and save of the allowlist entry ...
ApproveEntry(m) ==
  /\ moderator[m].pc = "approving"
  /\ LetIn(moderator[m].email)
  /\ moderator' = [moderator EXCEPT ![m].pc = "marking"]
  /\ UNCHANGED request

\* ... then the request, in a second transaction.
MarkApproved(m) ==
  /\ moderator[m].pc = "marking"
  /\ request' = [request EXCEPT ![moderator[m].email] = "approved"]
  /\ moderator' = [moderator EXCEPT ![m] = AtDesk]
  /\ UNCHANGED <<listed, cleared>>

\* cpprp_external_request_reject: no look at the status or at the allowlist.
Reject(e) ==
  /\ request[e] # "none"
  /\ request' = [request EXCEPT ![e] = "rejected"]
  /\ UNCHANGED <<listed, moderator, cleared>>

\* cpprp_external_allowlist_bulk_add: one commit for each address of the list.
BulkAdd(e) ==
  /\ LetIn(e)
  /\ UNCHANGED <<request, moderator>>

\* cpprp_external_allowlist_toggle: the entry is read ...
OpenToggle(m, e) ==
  /\ moderator[m].pc = "idle"
  /\ listed[e] # "none"
  /\ moderator' = [moderator EXCEPT ![m] =
       [pc |-> "toggling", email |-> e, active |-> listed[e] = "active"]]
  /\ UNCHANGED <<listed, request, cleared>>

\* ... and the negation of what was read is saved.
Toggle(m) ==
  /\ moderator[m].pc = "toggling"
  /\ IF moderator[m].active
       THEN /\ listed' = [listed EXCEPT ![moderator[m].email] = "inactive"]
            /\ cleared' = cleared
       ELSE LetIn(moderator[m].email)
  /\ moderator' = [moderator EXCEPT ![m] = AtDesk]
  /\ UNCHANGED request

\* The worker dies in the middle of a handler.
Abandon(m) ==
  /\ moderator[m].pc # "idle"
  /\ moderator' = [moderator EXCEPT ![m] = AtDesk]
  /\ UNCHANGED <<listed, request, cleared>>

AccessNext ==
  \/ \E m \in Moderators :
       \/ \E e \in External : OpenApproval(m, e) \/ OpenToggle(m, e)
       \/ ApproveEntry(m) \/ MarkApproved(m) \/ Toggle(m) \/ Abandon(m)
  \/ \E e \in External : Reject(e) \/ BulkAdd(e)

-----------------------------------------------------------------------------
\* An approval is never only on paper: the two commits of the handler, in their
\* order and with a death between them, leave an approved request listed (an
\* entry may be switched off since, never be missing).
ApprovedIsListed ==
  \A e \in External : request[e] = "approved" => listed[e] # "none"
=============================================================================
