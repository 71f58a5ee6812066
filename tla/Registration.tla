----------------------------- MODULE Registration -----------------------------
(***************************************************************************)
(* The sign-up of the web application (frontend/views/auth.py): the form   *)
(* joins the allowlist of external customers to the confirmation of        *)
(* addresses.                                                              *)
(***************************************************************************)
EXTENDS EmailVerification, ExternalAccess

ASSUME ExternalAssumption == External \subseteq Emails

vars == <<verifyVars, accessVars>>

TypeOK == VerifyTypeOK /\ AccessTypeOK
Init == VerifyInit /\ AccessInit

\* Mutation of NeedsModeration: whoever asked once is let through.
NeedsNoSecondRequest(e) == e \in External /\ request[e] = "none"

\* external_customer_needs_moderation: a corporate address never does.
NeedsModeration(e) == e \in External /\ ~Allowlisted(e)

\* POST of the register tab: a new account, or a request for access.
PostRegister(h, e) ==
  /\ UNCHANGED accessVars
  /\ \/ /\ ~NeedsModeration(e)
        /\ StartRegistration(h, e)
     \/ /\ NeedsModeration(e)
        /\ handler[h].pc = "idle"
        /\ handler' = [handler EXCEPT ![h] =
                         [Idle EXCEPT !.pc = "requesting", !.email = e]]
        /\ UNCHANGED <<clock, account, code, cleanup, guesses, issued>>

\* The request is saved; an approval may have come since the allowlist was read.
SaveRequest(h) ==
  /\ handler[h].pc = "requesting"
  /\ CreateOrRefreshRequest(handler[h].email)
  /\ handler' = [handler EXCEPT ![h] = Idle]
  /\ UNCHANGED <<clock, account, code, cleanup, guesses, issued>>

\* POST of the verification page, with any code.
VerifyEmail == \E e \in Emails : WrongCode(e) \/ RightCode(e)

\* POST of the resend form, through the transaction that issues the code.
ResendEmailCode(h) ==
  \/ \E e \in Emails : ResendSignupCode(h, e)
  \/ OpenIssue(h)
  \/ CommitIssue(h)

SignUp ==
  \E h \in Handlers :
    \/ \E e \in Emails : PostRegister(h, e)
    \/ SaveRequest(h)

Confirm ==
  /\ UNCHANGED accessVars
  /\ \/ \E h \in Handlers : CreateUser(h) \/ GiveUp(h) \/ ResendEmailCode(h)
     \/ VerifyEmail
     \/ CleanupCodes \/ CollectStaleUsers \/ DeleteStaleUsers
     \/ Tick

Moderate == AccessNext /\ UNCHANGED verifyVars

Next == SignUp \/ Confirm \/ Moderate

Spec == Init /\ [][Next]_vars

-----------------------------------------------------------------------------
\* What the login form does with an address and the right password: it gets the
\* user of the address, which raises when there are several.
LoginOutcome(e) ==
  CASE Cardinality(UsersOf(e)) > 1 -> "error"
    [] UsersOf(e) = {} -> "unknown"
    [] Cardinality(UsersOf(e)) = 1 /\ (\E a \in UsersOf(e) : PendingVerification(a)) -> "unverified"
    [] OTHER -> "in"

\* An external customer has an account only if CPPRP let that address in, in
\* some order of requests, decisions, switches and registrations.
ExternalWasCleared ==
  \A a \in Accounts : account[a].email \in External => account[a].email \in cleared

\* The cleanup command keeps what it promises to keep, up to the race between its
\* SELECT and its DELETE: a user that confirmed its address before the command
\* read it is neither collected nor deleted.
ConfirmedUsersStay ==
  [][\A a \in Accounts :
       account[a].status = "active" /\ a \notin cleanup =>
         a \notin cleanup' /\ account'[a].status = "active"]_vars

\* The form refuses a second account for an address ("a user with this email
\* already exists"), so the login form's get() finds at most one.
LoginNeverFails == \A e \in Emails : LoginOutcome(e) # "error"
=============================================================================
