------------------------------- MODULE Notices -------------------------------
(***************************************************************************)
(* Deadlines and document templates (apps/account): what the CPPRP office  *)
(* publishes for students, customers or everybody, switches off and on     *)
(* and deletes, and who is shown it.  The two tables have the same columns *)
(* and handlers and are one here; a slug is unique in its table.           *)
(***************************************************************************)
EXTENDS Profiles

CONSTANTS
  Notices,   \* primary keys; a deleted key is not drawn again
  NewAudiences,  \* audiences that forms choose
  InitialNotice, \* of each key
  SlugOf,    \* the table and the slug of each
  Role       \* of each user; "staff" is a staff user who has a moderator's profile

Audiences == {"student", "customer", "cpprp", "global"}
Notice == [state : {"free", "live", "gone"}, audience : Audiences, active : BOOLEAN]
ASSUME NoticesAssumption ==
  InitialNotice \in [Notices -> Notice] /\ Users \intersect Notices = {}
ASSUME AudiencesAssumption == NewAudiences \subseteq Audiences
ASSUME RolesAssumption == Role \in [Users -> {"student", "customer", "cpprp", "staff", "none"}]

VARIABLE
  notice     \* account_platformdeadline and account_documenttemplate

Live == {n \in Notices : notice[n].state = "live"}

\* has_any_role, require_role and moderator_required.
HasRole(u, roles) == Role[u] = "staff" \/ Role[u] \in roles
IsModerator(u) == HasRole(u, {"cpprp"})

\* _active_deadlines_for, _active_templates_for and the student's page.
NoticesFor(role) == {n \in Live : notice[n].active /\ notice[n].audience \in {"global", role}}

\* DocumentTemplateDownloadAPIView: staff may fetch every active one.
Downloads(u) ==
  CASE Role[u] = "staff" -> {n \in Live : notice[n].active}
    [] Role[u] \in Audiences -> NoticesFor(Role[u])
    [] OTHER -> {}

SlugIsFree(n) == \A m \in Live : SlugOf[m] # SlugOf[n]

\* A form or an API request; a slug that is taken is refused.
CreateNotice(u, n, audience, active) ==
  /\ IsModerator(u) /\ requests < MaxRequests
  /\ notice[n].state = "free"
  /\ SlugIsFree(n)
  /\ notice' = [notice EXCEPT ![n] = [state |-> "live", audience |-> audience, active |-> active]]
  /\ asked' = [asked EXCEPT ![n] = notice'[n]]
  /\ requests' = requests + 1
  /\ UNCHANGED <<project, profileVars, request, clash>>

\* The copy of get_object_or_404, with what will be done to it.
LoadNotice(t, u, n, op) ==
  /\ request[t] = Idle /\ requests < MaxRequests
  /\ IsModerator(u) /\ n \in Live
  /\ request' = [request EXCEPT ![t] = [op |-> op, notice |-> n, active |-> notice[n].active]]
  /\ clash' = IF \E s \in Workers : request[s].op \in {"switch", "delete"} /\ request[s].notice = n
                THEN [clash EXCEPT ![n] = {"active"}] ELSE clash
  /\ requests' = requests + 1
  /\ UNCHANGED <<project, profileVars, notice, asked>>

\* save(update_fields=["is_active", "updated_at"]) raises if the row is gone.
Switch(t) ==
  LET r == request[t] IN
  /\ r.op = "switch"
  /\ IF r.notice \in Live
       THEN /\ notice' = [notice EXCEPT ![r.notice].active = ~r.active]
            /\ asked' = [asked EXCEPT ![r.notice].active = ~@]
       ELSE UNCHANGED <<notice, asked>>
  /\ request' = [request EXCEPT ![t] = Idle]
  /\ UNCHANGED <<project, profileVars, requests, clash>>

DeleteNotice(t) ==
  LET r == request[t] IN
  /\ r.op = "delete"
  /\ notice' = [notice EXCEPT ![r.notice].state = "gone"]
  /\ asked' = [asked EXCEPT ![r.notice].state = "gone"]
  /\ request' = [request EXCEPT ![t] = Idle]
  /\ UNCHANGED <<project, profileVars, requests, clash>>

\* A deleted notice stays deleted whatever was loaded before; a notice is on or
\* off as the presses of its button ask for, unless two overlapped.
NoticesAreKept ==
  \A n \in Notices :
    /\ notice[n].state = asked[n].state
    /\ notice[n].active = asked[n].active \/ clash[n] # {}
=============================================================================
