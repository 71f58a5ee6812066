-------------------------- MODULE EmailVerification --------------------------
(***************************************************************************)
(* Accounts that wait for the confirmation of their address and the codes  *)
(* mailed to them: users/email_verification.py and the management command  *)
(* cleanup_email_verifications.  Handlers run concurrently on PostgreSQL   *)
(* (READ COMMITTED): what one of them read may be old when it writes.      *)
(***************************************************************************)
EXTENDS Integers, FiniteSets, FiniteSetsExt

CONSTANTS
  Emails,       \* normalised addresses
  NoEmail,
  MaxAccounts,  \* bound on user rows ever created
  MaxCodes,     \* bound on verification codes ever created
  Handlers,     \* request threads that register or resend
  TTL,          \* EMAIL_VERIFICATION_CODE_TTL_SECONDS, in ticks
  Cooldown,     \* EMAIL_VERIFICATION_RESEND_COOLDOWN_SECONDS, in ticks
  MaxAttempts,  \* EMAIL_VERIFICATION_MAX_ATTEMPTS
  StaleAge,     \* --stale-user-age-days, in ticks
  MaxTime       \* bound on the clock

ASSUME EmailsAssumption == NoEmail \notin Emails
ASSUME BoundsAssumption ==
  /\ MaxAccounts \in Nat \ {0} /\ MaxCodes \in Nat \ {0} /\ MaxTime \in Nat
  /\ MaxAttempts \in Nat \ {0} /\ StaleAge \in Nat
\* The defaults are 60 seconds, 15 minutes.
ASSUME TimesAssumption == Cooldown \in Nat \ {0} /\ TTL \in Nat /\ Cooldown <= TTL
ASSUME HandlersAssumption == IsFiniteSet(Handlers) /\ Handlers # {}

Accounts == 1..MaxAccounts
NoAccount == 0
Codes == 1..MaxCodes
Times == 0..MaxTime

VARIABLES
  clock,
  account,   \* auth_user with its UserProfile
  code,      \* users_emailverificationcode
  handler,   \* where each request thread is, and what it read
  cleanup,   \* the command: the stale users it collected, still to delete
  guesses,   \* history: wrong codes compared with an account's code
  issued     \* history: codes created for an account, and when the last was

verifyVars == <<clock, account, code, handler, cleanup, guesses, issued>>

\* A user is pending until its code is entered: is_active is FALSE and the
\* profile's email_verified_at is null; both change in one transaction.
Account ==
  [email : Emails \union {NoEmail},
   status : {"none", "pending", "active", "deleted"}, joined : Times]
NoUser == [email |-> NoEmail, status |-> "none", joined |-> 0]

Code ==
  [owner : Accounts \union {NoAccount},
   status : {"none", "pending", "consumed", "deleted"},
   sentAt : Times, attempts : 0..MaxAttempts]
NoCode == [owner |-> NoAccount, status |-> "none", sentAt |-> 0, attempts |-> 0]

Handler ==
  [pc : {"idle", "registering", "requesting", "resending", "issuing"},
   email : Emails \union {NoEmail}, user : Accounts \union {NoAccount},
   seen : SUBSET Codes]
Idle == [pc |-> "idle", email |-> NoEmail, user |-> NoAccount, seen |-> {}]

VerifyTypeOK ==
  /\ clock \in Times
  /\ account \in [Accounts -> Account]
  /\ code \in [Codes -> Code]
  /\ handler \in [Handlers -> Handler]
  /\ cleanup \in SUBSET Accounts
  /\ guesses \in [Accounts -> Nat]
  /\ issued \in [Accounts -> [count : 0..MaxCodes, at : Times]]

VerifyInit ==
  /\ clock = 0
  /\ account = [a \in Accounts |-> NoUser]
  /\ code = [c \in Codes |-> NoCode]
  /\ handler = [h \in Handlers |-> Idle]
  /\ cleanup = {}
  /\ guesses = [a \in Accounts |-> 0]
  /\ issued = [a \in Accounts |-> [count |-> 0, at |-> 0]]

-----------------------------------------------------------------------------
Live(a) == account[a].status \in {"pending", "active"}
UsersOf(e) == {a \in Accounts : Live(a) /\ account[a].email = e}
FreeAccounts == {a \in Accounts : account[a].status = "none"}
FreeCodes == {c \in Codes : code[c].status = "none"}

\* is_user_pending_email_verification
PendingVerification(a) == account[a].status = "pending"

\* _pending_signup_codes
PendingSignupCodes(a) ==
  {c \in Codes : code[c].owner = a /\ code[c].status = "pending"}

\* order_by("-sent_at").first(): ids grow with time, so they break ties.
LatestOf(S) ==
  CHOOSE c \in S : \A d \in S : code[d].sentAt < code[c].sentAt
                                \/ (code[d].sentAt = code[c].sentAt /\ d <= c)

\* Codes of a that the database still has, whatever became of them.
KnownCodes(a) ==
  {c \in Codes : code[c].owner = a /\ code[c].status \in {"pending", "consumed"}}

Expired(c) == code[c].sentAt + TTL <= clock

\* Rows that an open create_signup_verification has updated and not committed.
Locked(c) ==
  \E h \in Handlers : handler[h].pc = "issuing" /\ c \in handler[h].seen

NewCode(a) == [owner |-> a, status |-> "pending", sentAt |-> clock, attempts |-> 0]

Issue(a) == issued' = [issued EXCEPT ![a] = [count |-> @.count + 1, at |-> clock]]

-----------------------------------------------------------------------------
\* Time passes; no transaction stays open for a whole tick (a minute or so).
Tick ==
  /\ clock < MaxTime
  /\ \A h \in Handlers : handler[h].pc # "issuing"
  /\ clock' = clock + 1
  /\ UNCHANGED <<account, code, handler, cleanup, guesses, issued>>

\* Mutation of StartRegistration: it does not ask whether the address is taken.
StartRegistrationUnchecked(h, e) ==
  /\ handler[h].pc = "idle"
  /\ handler' = [handler EXCEPT ![h] = [Idle EXCEPT !.pc = "registering", !.email = e]]
  /\ UNCHANGED <<clock, account, code, cleanup, guesses, issued>>

\* The register form, up to the answer that no user has this address yet.
StartRegistration(h, e) ==
  /\ handler[h].pc = "idle"
  /\ UsersOf(e) = {}
  /\ handler' = [handler EXCEPT ![h] = [Idle EXCEPT !.pc = "registering", !.email = e]]
  /\ UNCHANGED <<clock, account, code, cleanup, guesses, issued>>

\* Its transaction: the inactive user, the profile, the code and the mail.
CreateUser(h) ==
  /\ handler[h].pc = "registering"
  /\ FreeAccounts # {} /\ FreeCodes # {}
  /\ LET a == Min(FreeAccounts)
         c == Min(FreeCodes)
     IN  /\ account' = [account EXCEPT ![a] =
                          [email |-> handler[h].email, status |-> "pending",
                           joined |-> clock]]
         /\ code' = [code EXCEPT ![c] = NewCode(a)]
         /\ Issue(a)
  /\ handler' = [handler EXCEPT ![h] = Idle]
  /\ UNCHANGED <<clock, cleanup, guesses>>

\* The mail is refused, the username was taken meanwhile, or the process dies:
\* the transaction rolls back, and so does an open create_signup_verification.
GiveUp(h) ==
  /\ handler[h].pc # "idle"
  /\ handler' = [handler EXCEPT ![h] = Idle]
  /\ UNCHANGED <<clock, account, code, cleanup, guesses, issued>>

\* resend_signup_code: the first user of the address, if it is unverified and
\* the latest code is older than the cooldown.
ResendSignupCode(h, e) ==
  /\ handler[h].pc = "idle"
  /\ UsersOf(e) # {}
  /\ LET a == Min(UsersOf(e)) IN
       /\ PendingVerification(a)
       /\ KnownCodes(a) # {} =>
            code[LatestOf(KnownCodes(a))].sentAt + Cooldown <= clock
       /\ handler' = [handler EXCEPT ![h] = [Idle EXCEPT !.pc = "resending", !.user = a]]
  /\ UNCHANGED <<clock, account, code, cleanup, guesses, issued>>

\* create_signup_verification, its UPDATE: the codes it sees as pending.
OpenIssue(h) ==
  /\ handler[h].pc = "resending"
  /\ handler' = [handler EXCEPT ![h].pc = "issuing",
                                ![h].seen = PendingSignupCodes(handler[h].user)]
  /\ UNCHANGED <<clock, account, code, cleanup, guesses, issued>>

\* Mutation of CommitIssue: the earlier codes stay pending.
CommitIssueKeepsOld(h) ==
  /\ handler[h].pc = "issuing"
  /\ Live(handler[h].user)
  /\ FreeCodes # {}
  /\ LET n == Min(FreeCodes) IN
       code' = [code EXCEPT ![n] = NewCode(handler[h].user)]
  /\ Issue(handler[h].user)
  /\ handler' = [handler EXCEPT ![h] = Idle]
  /\ UNCHANGED <<clock, account, cleanup, guesses>>

\* Its INSERT and commit: a row that stopped being pending while the UPDATE
\* waited for it is skipped, a row that was not there yet is not found.
CommitIssue(h) ==
  /\ handler[h].pc = "issuing"
  /\ Live(handler[h].user)
  /\ FreeCodes # {}
  /\ LET n == Min(FreeCodes) IN
       code' = [c \in Codes |->
         IF c = n THEN NewCode(handler[h].user)
         ELSE IF c \in handler[h].seen /\ code[c].status = "pending"
           THEN [code[c] EXCEPT !.status = "consumed"]
         ELSE code[c]]
  /\ Issue(handler[h].user)
  /\ handler' = [handler EXCEPT ![h] = Idle]
  /\ UNCHANGED <<clock, account, cleanup, guesses>>

-----------------------------------------------------------------------------
\* The codes verify_signup_code selects from: the address, whoever owns it.
CodesAt(e) ==
  {c \in Codes : code[c].status = "pending" /\ account[code[c].owner].email = e}

\* Mutation of Usable: the attempts are not compared with the limit.
UsableUnlimited(c) == ~Locked(c) /\ ~Expired(c)

\* The row it locks, refused when the attempts are used up or it expired.
Usable(c) ==
  /\ ~Locked(c)
  /\ code[c].attempts < MaxAttempts
  /\ ~Expired(c)

\* Mutation of WrongCode: the counter is kept in memory only.
WrongCodeUncounted(e) ==
  /\ CodesAt(e) # {}
  /\ LET c == LatestOf(CodesAt(e)) IN
       /\ Usable(c)
       /\ code' = code
       /\ guesses' = [guesses EXCEPT ![code[c].owner] = @ + 1]
  /\ UNCHANGED <<clock, account, handler, cleanup, issued>>

\* check_password fails: the attempt is counted under the row lock.
WrongCode(e) ==
  /\ CodesAt(e) # {}
  /\ LET c == LatestOf(CodesAt(e)) IN
       /\ Usable(c)
       /\ code' = [code EXCEPT ![c].attempts = @ + 1]
       /\ guesses' = [guesses EXCEPT ![code[c].owner] = @ + 1]
  /\ UNCHANGED <<clock, account, handler, cleanup, issued>>

\* The code is right: the user becomes active and none of its codes stays.
RightCode(e) ==
  /\ CodesAt(e) # {}
  /\ LET c == LatestOf(CodesAt(e))
         a == code[c].owner
     IN  /\ Usable(c)
         /\ account' = [account EXCEPT ![a].status = "active"]
         /\ code' = [d \in Codes |->
              IF d \in PendingSignupCodes(a)
                THEN [code[d] EXCEPT !.status = "consumed"] ELSE code[d]]
  /\ UNCHANGED <<clock, handler, cleanup, guesses, issued>>

-----------------------------------------------------------------------------
\* Mutation of CleanupCodes: codes without attempts left are deleted as well.
CleanupCodesExhausted ==
  /\ code' = [c \in Codes |->
       IF \/ code[c].status = "consumed"
          \/ code[c].status = "pending" /\ code[c].sentAt + TTL < clock
          \/ code[c].status = "pending" /\ code[c].attempts = MaxAttempts
         THEN [code[c] EXCEPT !.status = "deleted"] ELSE code[c]]
  /\ UNCHANGED <<clock, account, handler, cleanup, guesses, issued>>

\* The command's first statement: expired and consumed codes go.
CleanupCodes ==
  /\ code' = [c \in Codes |->
       IF \/ code[c].status = "consumed"
          \/ code[c].status = "pending" /\ code[c].sentAt + TTL < clock
         THEN [code[c] EXCEPT !.status = "deleted"] ELSE code[c]]
  /\ UNCHANGED <<clock, account, handler, cleanup, guesses, issued>>

\* Mutation of CollectStaleUsers: any user of that age is collected.
CollectOldUsers ==
  /\ cleanup = {}
  /\ cleanup' = {a \in Accounts : Live(a) /\ account[a].joined + StaleAge < clock}
  /\ UNCHANGED <<clock, account, code, handler, guesses, issued>>

\* --delete-stale-users: the collector of QuerySet.delete() reads the users ...
CollectStaleUsers ==
  /\ cleanup = {}
  /\ cleanup' = {a \in Accounts :
       PendingVerification(a) /\ account[a].joined + StaleAge < clock}
  /\ UNCHANGED <<clock, account, code, handler, guesses, issued>>

\* ... and deletes them by primary key, with their codes.
DeleteStaleUsers ==
  /\ cleanup # {}
  /\ account' = [a \in Accounts |->
       IF a \in cleanup THEN [account[a] EXCEPT !.status = "deleted"] ELSE account[a]]
  /\ code' = [c \in Codes |->
       IF code[c].owner \in cleanup /\ code[c].status \in {"pending", "consumed"}
         THEN [code[c] EXCEPT !.status = "deleted"] ELSE code[c]]
  /\ cleanup' = {}
  /\ UNCHANGED <<clock, handler, guesses, issued>>

-----------------------------------------------------------------------------
(***************************************************************************)
(* The limit on guessing: wrong codes compared for an account since it was *)
(* created are bounded by the attempts of a code, the cooldown and the     *)
(* number of threads that resend at once.  It joins the attempt counter,   *)
(* the choice of the row, the cooldown and the cleanup command.            *)
(***************************************************************************)
CodesAllowed(a) ==
  1 + Cardinality(Handlers) * ((clock - account[a].joined) \div Cooldown)

GuessesBounded ==
  \A a \in Accounts :
    account[a].status # "none" => guesses[a] <= MaxAttempts * CodesAllowed(a)

\* The cooldown outlives the cleanup: while it runs, the row it is computed from
\* is there, so deleting expired and used codes never lets a resend through.
CooldownRemembered ==
  \A a \in Accounts :
    PendingVerification(a) /\ clock < issued[a].at + Cooldown =>
      KnownCodes(a) # {} /\ code[LatestOf(KnownCodes(a))].sentAt = issued[a].at

\* Codes supersede each other: however resends overlap, there are never more
\* codes pending for an account than threads that could have issued them.
PendingCodesBounded ==
  \A a \in Accounts : Cardinality(PendingSignupCodes(a)) <= Cardinality(Handlers)

\* An address gets more than one account only from registrations that overlap,
\* so never more accounts than threads.
AccountsPerEmailBounded ==
  \A e \in Emails : Cardinality(UsersOf(e)) <= Cardinality(Handlers)
=============================================================================
