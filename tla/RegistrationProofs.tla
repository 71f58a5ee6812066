-------------------------- MODULE RegistrationProofs --------------------------
(***************************************************************************)
(* What is proved of Registration, for any addresses, threads, moderators  *)
(* and times: its types, who gets in, how many accounts an address has,    *)
(* what the cooldown is computed from, whom the clean-up spares, how many  *)
(* codes are pending for an account and how often one may be guessed.      *)
(***************************************************************************)
EXTENDS Registration, SetLemmas

-----------------------------------------------------------------------------
(* Types.  Each issue takes a free code, so an account was never issued     *)
(* more codes than were ever used.                                          *)
UsedCodes == {c \in Codes : code[c].status # "none"}
IssuedCounted == \A a \in Accounts : issued[a].count <= Cardinality(UsedCodes)

VerifyTypeInv == VerifyTypeOK /\ IssuedCounted

LEMMA IdsAreNaturals ==
  /\ Accounts \subseteq Nat /\ Codes \subseteq Nat /\ Times \subseteq Nat
  /\ 0 \in Times /\ NoAccount \notin Accounts
  /\ IsFiniteSet(Codes) /\ Cardinality(Codes) = MaxCodes
<1>1. /\ Accounts \subseteq Nat /\ Codes \subseteq Nat /\ Times \subseteq Nat
      /\ 0 \in Times /\ NoAccount \notin Accounts
  BY BoundsAssumption DEF Accounts, Codes, Times, NoAccount
<1>2. IsFiniteSet(Codes) /\ Cardinality(Codes) = MaxCodes
  BY BoundsAssumption, FS_Interval DEF Codes
<1> QED  BY <1>1, <1>2

\* The ids that are drawn are free.
LEMMA DrawnIdsAreFree ==
  /\ FreeAccounts # {} => Min(FreeAccounts) \in FreeAccounts
  /\ FreeCodes # {} => Min(FreeCodes) \in FreeCodes
<1>1. FreeAccounts \in SUBSET Nat /\ FreeCodes \in SUBSET Nat
  BY IdsAreNaturals DEF FreeAccounts, FreeCodes
<1> QED  BY <1>1, MinIsLeast

LEMMA UsersAreNumbered ==
  ASSUME NEW e, UsersOf(e) # {}
  PROVE  Min(UsersOf(e)) \in UsersOf(e) /\ Min(UsersOf(e)) \in Accounts
<1>1. UsersOf(e) \in SUBSET Nat
  BY IdsAreNaturals DEF UsersOf
<1> QED  BY <1>1, MinIsLeast DEF UsersOf

LEMMA CardinalityOfCodes ==
  ASSUME NEW T \in SUBSET Codes, NEW S \in SUBSET T
  PROVE  /\ Cardinality(S) \in Nat /\ Cardinality(T) \in Nat
         /\ Cardinality(S) <= Cardinality(T) /\ Cardinality(T) <= MaxCodes
         /\ \A n \in Codes \ S : Cardinality(S \union {n}) = Cardinality(S) + 1
<1>1. IsFiniteSet(T) /\ Cardinality(T) <= MaxCodes
  BY IdsAreNaturals, FS_Subset
<1>2. IsFiniteSet(S) /\ Cardinality(S) <= Cardinality(T)
  BY <1>1, FS_Subset
<1>3. \A n \in Codes \ S : Cardinality(S \union {n}) = Cardinality(S) + 1
  BY <1>2, FS_AddElement
<1> QED  BY <1>1, <1>2, <1>3, FS_CardinalityType

LEMMA IdleIsTyped ==
  /\ Idle \in Handler /\ Idle.pc = "idle" /\ Idle.seen = {} /\ Idle.email = NoEmail
  /\ Idle.user = NoAccount
BY DEF Idle, Handler

LEMMA VerifyTypeInit == VerifyInit => VerifyTypeInv
<1> SUFFICES ASSUME VerifyInit PROVE VerifyTypeInv
  OBVIOUS
<1>1. NoUser \in Account /\ NoCode \in Code
  BY IdsAreNaturals, BoundsAssumption DEF NoUser, Account, NoCode, Code
<1>2. /\ clock \in Times /\ account \in [Accounts -> Account] /\ code \in [Codes -> Code]
      /\ handler \in [Handlers -> Handler] /\ cleanup \in SUBSET Accounts
      /\ guesses \in [Accounts -> Nat]
  BY <1>1, IdleIsTyped, IdsAreNaturals DEF VerifyInit
<1>3. issued \in [Accounts -> [count : 0..MaxCodes, at : Times]]
  BY IdsAreNaturals, BoundsAssumption DEF VerifyInit
<1>4. UsedCodes \in SUBSET Codes
  BY DEF UsedCodes
<1>5. IssuedCounted
  BY <1>4, CardinalityOfCodes DEF VerifyInit, IssuedCounted
<1> QED  BY <1>2, <1>3, <1>5 DEF VerifyTypeInv, VerifyTypeOK

\* A step that draws no code.
LEMMA NoneIssued ==
  ASSUME VerifyTypeInv, UNCHANGED issued,
         \A c \in Codes : code[c].status # "none" => code'[c].status # "none"
  PROVE  IssuedCounted'
<1>1. UsedCodes' \in SUBSET Codes /\ UsedCodes \in SUBSET UsedCodes'
  BY DEF UsedCodes
<1>2. /\ Cardinality(UsedCodes) <= Cardinality(UsedCodes')
      /\ Cardinality(UsedCodes) \in Nat /\ Cardinality(UsedCodes') \in Nat
  BY <1>1, CardinalityOfCodes
<1> QED
  BY <1>2, BoundsAssumption DEF VerifyTypeInv, VerifyTypeOK, IssuedCounted

\* A step that draws one.
LEMMA OneIssued ==
  ASSUME VerifyTypeInv, NEW a, NEW n \in Codes, code[n].status = "none", Issue(a),
         \A c \in Codes : code[c].status # "none" => code'[c].status # "none",
         code'[n].status # "none"
  PROVE  IssuedCounted' /\ issued' \in [Accounts -> [count : 0..MaxCodes, at : Times]]
<1> DEFINE used == Cardinality(UsedCodes)
<1>1. UsedCodes' \in SUBSET Codes /\ UsedCodes \union {n} \in SUBSET UsedCodes'
      /\ n \in Codes \ UsedCodes
  BY DEF UsedCodes
<1>2. Cardinality(UsedCodes \union {n}) = used + 1 /\ used \in Nat
  BY <1>1, CardinalityOfCodes
<1>3. used + 1 <= Cardinality(UsedCodes') /\ Cardinality(UsedCodes') <= MaxCodes
      /\ Cardinality(UsedCodes') \in Nat
  BY <1>1, <1>2, CardinalityOfCodes
<1>4. /\ issued \in [Accounts -> [count : 0..MaxCodes, at : Times]]
      /\ clock \in Times /\ MaxCodes \in Nat
      /\ \A b \in Accounts : issued[b].count <= used
  BY BoundsAssumption DEF VerifyTypeInv, VerifyTypeOK, IssuedCounted
<1>5. ASSUME NEW b \in Accounts
      PROVE  /\ issued'[b] \in [count : 0..MaxCodes, at : Times]
             /\ issued'[b].count <= Cardinality(UsedCodes')
  <2>1. issued[b].count \in 0..MaxCodes /\ issued[b].count <= used
    BY <1>4
  <2>2. CASE b = a
    <3>1. issued'[b] = [count |-> issued[b].count + 1, at |-> clock]
      BY <1>4, <2>2 DEF Issue
    <3> QED  BY <1>2, <1>3, <1>4, <2>1, <3>1
  <2>3. CASE b # a
    <3>1. issued'[b] = issued[b]
      BY <1>4, <2>3 DEF Issue
    <3> QED  BY <1>2, <1>3, <1>4, <2>1, <3>1
  <2> QED  BY <2>2, <2>3
<1>6. issued' = [b \in Accounts |-> issued'[b]]
  BY <1>4 DEF Issue
<1> QED  BY <1>5, <1>6 DEF IssuedCounted

-----------------------------------------------------------------------------
(* The desk of CPPRP.  A handler that is about to mark a request approved   *)
(* has listed its address before, and entries are never removed.            *)
MarkedIsListed ==
  \A m \in Moderators : moderator[m].pc = "marking" => listed[moderator[m].email] # "none"

\* A handler holds the address of a request or an entry.
DesksHoldAddresses ==
  \A m \in Moderators : moderator[m].pc # "idle" => moderator[m].email \in External

ListedWasCleared == \A e \in External : Allowlisted(e) => e \in cleared

AccessInv ==
  AccessTypeOK /\ DesksHoldAddresses /\ MarkedIsListed /\ ApprovedIsListed /\ ListedWasCleared

LEMMA DeskAtRest == AtDesk \in Moderator /\ AtDesk.pc = "idle"
BY DEF AtDesk, Moderator

LEMMA AccessStart == AccessInit => AccessInv
<1> SUFFICES ASSUME AccessInit PROVE AccessInv
  OBVIOUS
<1>1. AccessTypeOK
  BY DeskAtRest DEF AccessInit, AccessTypeOK, ListingStates, RequestStates
<1>2. DesksHoldAddresses /\ MarkedIsListed
  BY DeskAtRest DEF AccessInit, DesksHoldAddresses, MarkedIsListed
<1>3. ApprovedIsListed /\ ListedWasCleared
  BY DEF AccessInit, ApprovedIsListed, ListedWasCleared, Allowlisted
<1> QED  BY <1>1, <1>2, <1>3 DEF AccessInv

\* What each kind of step makes of the tables: entries appear and are switched.
LEMMA DeskStep ==
  ASSUME AccessInv, NEW m \in Moderators,
         \/ \E e \in External : OpenApproval(m, e) \/ OpenToggle(m, e)
         \/ ApproveEntry(m) \/ MarkApproved(m) \/ Toggle(m) \/ Abandon(m)
  PROVE  AccessInv' /\ cleared \subseteq cleared'
<1> DEFINE w == moderator[m]
<1>1. /\ w \in Moderator /\ moderator \in [Moderators -> Moderator]
      /\ listed \in [External -> {"none", "active", "inactive"}]
      /\ request \in [External -> {"none", "pending", "approved", "rejected"}]
      /\ cleared \subseteq External
  BY DEF AccessInv, AccessTypeOK, ListingStates, RequestStates
<1>2. w.pc # "idle" => w.email \in External
  BY DEF AccessInv, DesksHoldAddresses
<1>3. ASSUME NEW e \in External
      PROVE  LET v == [AtDesk EXCEPT !.pc = "approving", !.email = e]
             IN  v \in Moderator /\ v.pc = "approving" /\ v.email = e
  BY DEF AtDesk, Moderator
<1>4. ASSUME NEW v \in Moderator, moderator' = [moderator EXCEPT ![m] = v],
             v.pc # "idle" => v.email \in External,
             v.pc = "marking" => listed'[v.email] # "none",
             listed' \in [External -> {"none", "active", "inactive"}],
             \A e \in External : listed[e] # "none" => listed'[e] # "none",
             \A e \in External : listed'[e] = "active" => e \in cleared',
             request' \in [External -> {"none", "pending", "approved", "rejected"}],
             \A e \in External : request'[e] = "approved" => listed'[e] # "none",
             cleared' \subseteq External, cleared \subseteq cleared'
      PROVE  AccessInv' /\ cleared \subseteq cleared'
  <2>1. \A n \in Moderators : moderator'[n] = IF n = m THEN v ELSE moderator[n]
    BY <1>1, <1>4
  <2>2. moderator' \in [Moderators -> Moderator]
    BY <1>1, <1>4
  <2>3. DesksHoldAddresses'
    BY <1>4, <2>1 DEF AccessInv, DesksHoldAddresses
  <2>4. MarkedIsListed'
    BY <1>4, <2>1 DEF AccessInv, DesksHoldAddresses, MarkedIsListed
  <2> QED
    BY <1>4, <2>2, <2>3, <2>4 DEF AccessInv, AccessTypeOK, ApprovedIsListed,
       ListedWasCleared, Allowlisted, ListingStates, RequestStates
<1>5. /\ \A e \in External : request[e] = "approved" => listed[e] # "none"
      /\ \A e \in External : listed[e] = "active" => e \in cleared
      /\ w.pc = "marking" => listed[w.email] # "none"
  BY DEF AccessInv, ApprovedIsListed, ListedWasCleared, Allowlisted, MarkedIsListed
<1>6. ASSUME NEW e \in External, OpenApproval(m, e) \/ OpenToggle(m, e)
      PROVE  AccessInv' /\ cleared \subseteq cleared'
  <2>1. UNCHANGED <<listed, request, cleared>>
    BY <1>6 DEF OpenApproval, OpenToggle
  <2>2. \E v \in Moderator : /\ moderator' = [moderator EXCEPT ![m] = v]
                             /\ v.pc \notin {"idle", "marking"} /\ v.email = e
    <3>1. CASE OpenApproval(m, e)
      BY <1>3, <3>1 DEF OpenApproval
    <3>2. CASE OpenToggle(m, e)
      <4>1. [pc |-> "toggling", email |-> e, active |-> listed[e] = "active"] \in Moderator
        BY DEF Moderator
      <4> QED  BY <3>2, <4>1 DEF OpenToggle
    <3> QED  BY <1>6, <3>1, <3>2
  <2>3. PICK v \in Moderator : /\ moderator' = [moderator EXCEPT ![m] = v]
                              /\ v.pc \notin {"idle", "marking"} /\ v.email = e
    BY <2>2
  <2> QED  BY <1>1, <1>4, <1>5, <2>1, <2>3
<1>7. CASE ApproveEntry(m)
  <2> DEFINE v == [w EXCEPT !.pc = "marking"]
  <2>1. v \in Moderator /\ v.pc = "marking" /\ v.email = w.email /\ w.email \in External
    BY <1>1, <1>2, <1>7 DEF Moderator, ApproveEntry
  <2>2. /\ moderator' = [moderator EXCEPT ![m] = v]
        /\ listed' = [listed EXCEPT ![w.email] = "active"]
        /\ cleared' = cleared \union {w.email} /\ UNCHANGED request
    BY <1>1, <1>7 DEF ApproveEntry, LetIn
  <2> HIDE DEF v, w
  <2> QED  BY <1>1, <1>4, <1>5, <2>1, <2>2
<1>8. CASE MarkApproved(m)
  <2>1. /\ moderator' = [moderator EXCEPT ![m] = AtDesk]
        /\ request' = [request EXCEPT ![w.email] = "approved"]
        /\ UNCHANGED <<listed, cleared>> /\ listed[w.email] # "none"
    BY <1>5, <1>8 DEF MarkApproved
  <2> HIDE DEF w
  <2> QED  BY <1>1, <1>4, <1>5, <2>1, DeskAtRest
<1>9. CASE Toggle(m)
  <2>1. /\ moderator' = [moderator EXCEPT ![m] = AtDesk] /\ UNCHANGED request
        /\ w.email \in External
        /\ \/ listed' = [listed EXCEPT ![w.email] = "inactive"] /\ cleared' = cleared
           \/ /\ listed' = [listed EXCEPT ![w.email] = "active"]
              /\ cleared' = cleared \union {w.email}
    BY <1>2, <1>9 DEF Toggle, LetIn
  <2> HIDE DEF w
  <2>2. CASE listed' = [listed EXCEPT ![w.email] = "inactive"] /\ cleared' = cleared
    BY <1>1, <1>4, <1>5, <2>1, <2>2, DeskAtRest
  <2>3. CASE /\ listed' = [listed EXCEPT ![w.email] = "active"]
             /\ cleared' = cleared \union {w.email}
    BY <1>1, <1>4, <1>5, <2>1, <2>3, DeskAtRest
  <2> QED  BY <2>1, <2>2, <2>3
<1>10. CASE Abandon(m)
  BY <1>1, <1>4, <1>5, <1>10, DeskAtRest DEF Abandon
<1> QED  BY <1>6, <1>7, <1>8, <1>9, <1>10

LEMMA AccessStep ==
  ASSUME AccessInv, Next
  PROVE  AccessInv' /\ cleared \subseteq cleared'
<1>1. /\ listed \in [External -> {"none", "active", "inactive"}]
      /\ request \in [External -> {"none", "pending", "approved", "rejected"}]
      /\ cleared \subseteq External
  BY DEF AccessInv, AccessTypeOK, ListingStates, RequestStates
<1>2. ASSUME UNCHANGED moderator,
             listed' \in [External -> {"none", "active", "inactive"}],
             \A e \in External : listed[e] # "none" => listed'[e] # "none",
             \A e \in External : listed'[e] = "active" => e \in cleared',
             request' \in [External -> {"none", "pending", "approved", "rejected"}],
             \A e \in External : request'[e] = "approved" => listed'[e] # "none",
             cleared' \subseteq External, cleared \subseteq cleared'
      PROVE  AccessInv' /\ cleared \subseteq cleared'
  <2>1. DesksHoldAddresses' /\ MarkedIsListed'
    BY <1>2 DEF AccessInv, DesksHoldAddresses, MarkedIsListed
  <2> QED
    BY <1>2, <2>1 DEF AccessInv, AccessTypeOK, ApprovedIsListed, ListedWasCleared,
       Allowlisted, ListingStates, RequestStates
<1>3. /\ \A e \in External : request[e] = "approved" => listed[e] # "none"
      /\ \A e \in External : listed[e] = "active" => e \in cleared
  BY DEF AccessInv, ApprovedIsListed, ListedWasCleared, Allowlisted
<1>4. CASE UNCHANGED accessVars
  BY <1>1, <1>2, <1>3, <1>4 DEF accessVars
<1>5. ASSUME NEW h \in Handlers, SaveRequest(h)
      PROVE  AccessInv' /\ cleared \subseteq cleared'
  <2>1. /\ request' = [request EXCEPT ![handler[h].email] = "pending"]
        /\ UNCHANGED <<listed, moderator, cleared>>
    BY <1>5 DEF SaveRequest, CreateOrRefreshRequest
  <2> QED  BY <1>1, <1>2, <1>3, <2>1
<1>6. ASSUME NEW e \in External, Reject(e)
      PROVE  AccessInv' /\ cleared \subseteq cleared'
  <2>1. /\ request' = [request EXCEPT ![e] = "rejected"]
        /\ UNCHANGED <<listed, moderator, cleared>>
    BY <1>6 DEF Reject
  <2> QED  BY <1>1, <1>2, <1>3, <2>1
<1>7. ASSUME NEW e \in External, BulkAdd(e)
      PROVE  AccessInv' /\ cleared \subseteq cleared'
  <2>1. /\ listed' = [listed EXCEPT ![e] = "active"]
        /\ cleared' = cleared \union {e} /\ UNCHANGED <<request, moderator>>
    BY <1>7 DEF BulkAdd, LetIn
  <2> QED  BY <1>1, <1>2, <1>3, <2>1
<1> QED
  BY <1>4, <1>5, <1>6, <1>7, DeskStep DEF Next, SignUp, Confirm, Moderate, AccessNext,
     PostRegister

-----------------------------------------------------------------------------
(* Handlers.  What a thread remembers of the database still holds of it: the *)
(* address was free of accounts and, if external, let in; the user exists;   *)
(* the codes that its UPDATE saw are that user's.                            *)
Remembers(v) ==
  /\ v.pc = "registering" => v.email \in Emails /\ (v.email \in External => v.email \in cleared)
  /\ v.pc \in {"resending", "issuing"} => v.user \in Accounts
  /\ \A c \in v.seen : code[c].owner = v.user /\ code[c].status # "none"

HandlersRemember == \A h \in Handlers : Remembers(handler[h])

\* One thread moves on and nothing else changes.
ThreadMoves(h, v) ==
  /\ handler' = [handler EXCEPT ![h] = v]
  /\ UNCHANGED <<clock, account, code, cleanup, guesses, issued>>

LEMMA ThreadSteps ==
  ASSUME VerifyTypeOK, AccessInv, HandlersRemember, NEW h \in Handlers,
         \/ \E e \in Emails : PostRegister(h, e)
         \/ SaveRequest(h) \/ GiveUp(h) \/ OpenIssue(h)
         \/ \E e \in Emails : ResendSignupCode(h, e)
  PROVE  \E v \in Handler :
           /\ ThreadMoves(h, v) /\ Remembers(v)
           /\ v.pc = "registering" => UsersOf(v.email) = {}
<1> USE DEF ThreadMoves
<1>1. handler \in [Handlers -> Handler] /\ handler[h] \in Handler
  BY DEF VerifyTypeOK
<1>2. Remembers(Idle)
  BY IdleIsTyped DEF Remembers
<1>3. CASE SaveRequest(h) \/ GiveUp(h)
  BY <1>2, <1>3, IdleIsTyped DEF SaveRequest, GiveUp
<1>4. ASSUME NEW e \in Emails, PostRegister(h, e), ~NeedsModeration(e), StartRegistration(h, e)
      PROVE  \E v \in Handler : /\ ThreadMoves(h, v) /\ Remembers(v)
                                /\ v.pc = "registering" => UsersOf(v.email) = {}
  <2> DEFINE v == [Idle EXCEPT !.pc = "registering", !.email = e]
  <2>1. v \in Handler /\ v.pc = "registering" /\ v.email = e /\ v.seen = {}
    BY DEF Idle, Handler
  <2>2. ThreadMoves(h, v) /\ UsersOf(e) = {}
    BY <1>4 DEF StartRegistration
  <2>3. e \in External => e \in cleared
    BY <1>4 DEF NeedsModeration, AccessInv, ListedWasCleared
  <2>4. Remembers(v)
    BY <2>1, <2>3 DEF Remembers
  <2> QED  BY <2>1, <2>2, <2>4
<1>5. ASSUME NEW e \in Emails, NeedsModeration(e),
             handler' = [handler EXCEPT ![h] = [Idle EXCEPT !.pc = "requesting", !.email = e]],
             UNCHANGED <<clock, account, code, cleanup, guesses, issued>>
      PROVE  \E v \in Handler : /\ ThreadMoves(h, v) /\ Remembers(v)
                                /\ v.pc = "registering" => UsersOf(v.email) = {}
  <2> DEFINE v == [Idle EXCEPT !.pc = "requesting", !.email = e]
  <2>1. v \in Handler /\ v.pc = "requesting" /\ v.seen = {}
    BY DEF Idle, Handler
  <2>2. Remembers(v)
    BY <2>1 DEF Remembers
  <2> QED  BY <1>5, <2>1, <2>2
<1>6. ASSUME NEW e \in Emails, ResendSignupCode(h, e)
      PROVE  \E v \in Handler : /\ ThreadMoves(h, v) /\ Remembers(v)
                                /\ v.pc = "registering" => UsersOf(v.email) = {}
  <2> DEFINE a == Min(UsersOf(e))
             v == [Idle EXCEPT !.pc = "resending", !.user = a]
  <2>1. a \in Accounts
    BY <1>6, UsersAreNumbered DEF ResendSignupCode
  <2>2. v \in Handler /\ v.pc = "resending" /\ v.user = a /\ v.seen = {}
    <3> HIDE DEF a
    <3> QED  BY <2>1 DEF Idle, Handler
  <2>3. Remembers(v)
    BY <2>1, <2>2 DEF Remembers
  <2>4. ThreadMoves(h, v)
    BY <1>6 DEF ResendSignupCode
  <2> QED  BY <2>2, <2>3, <2>4
<1>7. CASE OpenIssue(h)
  <2> DEFINE w == handler[h]
             S == PendingSignupCodes(w.user)
             v == [w EXCEPT !.pc = "issuing", !.seen = S]
  <2>1. S \in SUBSET Codes /\ \A c \in S : code[c].owner = w.user /\ code[c].status # "none"
    BY DEF PendingSignupCodes
  <2>2. v \in Handler /\ v.pc = "issuing" /\ v.user = w.user /\ v.seen = S
    <3> HIDE DEF S
    <3> QED  BY <1>1, <2>1 DEF Handler
  <2>3. ThreadMoves(h, v)
    BY <1>1, <1>7 DEF OpenIssue
  <2>4. Remembers(v)
    <3>1. w.user \in Accounts
      BY <1>7 DEF OpenIssue, HandlersRemember, Remembers
    <3> QED  BY <2>1, <2>2, <3>1 DEF Remembers
  <2> QED  BY <2>2, <2>3, <2>4
<1> QED  BY <1>3, <1>4, <1>5, <1>6, <1>7 DEF PostRegister

-----------------------------------------------------------------------------
(* Accounts and codes.  A pending code belongs to an account that is there; *)
(* the registrations under way and the accounts of an address have a thread *)
(* each; and a pending account's last code is there until it expires.       *)
CodesHaveOwners ==
  \A c \in Codes : code[c].status = "pending" =>
    code[c].owner \in Accounts /\ Live(code[c].owner)

Registering(e) ==
  {h \in Handlers : handler[h].pc = "registering" /\ handler[h].email = e}

SeatsKept ==
  \A e \in Emails :
    Cardinality(UsersOf(e)) + Cardinality(Registering(e)) <= Cardinality(Handlers)

LastCodeOf(a, c) ==
  /\ code[c].owner = a /\ code[c].sentAt = issued[a].at
  /\ \/ code[c].status = "pending"
     \/ code[c].status = "deleted" /\ code[c].sentAt + TTL < clock

LastCodeStands ==
  \A a \in Accounts : PendingVerification(a) => \E c \in Codes : LastCodeOf(a, c)

SentInThePast ==
  /\ \A a \in Accounts : issued[a].at <= clock
  /\ \A c \in Codes, a \in Accounts :
       code[c].owner = a /\ code[c].status # "none" => code[c].sentAt <= issued[a].at

VerifyInv ==
  /\ VerifyTypeInv /\ HandlersRemember /\ CodesHaveOwners /\ ExternalWasCleared
  /\ SeatsKept /\ LastCodeStands /\ SentInThePast

IInv == AccessInv /\ VerifyInv

LEMMA UsersAreFinite ==
  ASSUME NEW e
  PROVE  /\ IsFiniteSet(UsersOf(e)) /\ IsFiniteSet(Registering(e))
         /\ Cardinality(UsersOf(e)) \in Nat /\ Cardinality(Registering(e)) \in Nat
         /\ Cardinality(Registering(e)) <= Cardinality(Handlers)
         /\ Cardinality(Handlers) \in Nat
<1>1. IsFiniteSet(Accounts)
  BY BoundsAssumption, FS_Interval DEF Accounts
<1>2. UsersOf(e) \in SUBSET Accounts /\ Registering(e) \in SUBSET Handlers
  BY DEF UsersOf, Registering
<1>3. IsFiniteSet(UsersOf(e))
  BY <1>1, <1>2, FS_Subset
<1>4. /\ IsFiniteSet(Registering(e))
      /\ Cardinality(Registering(e)) <= Cardinality(Handlers)
  BY <1>2, HandlersAssumption, FS_Subset
<1> QED  BY <1>3, <1>4, HandlersAssumption, FS_CardinalityType

\* Codes that are there keep their owner and their time.
CodesStay ==
  \A c \in Codes : code[c].status # "none" =>
    /\ code'[c].status # "none" /\ code'[c].owner = code[c].owner
    /\ code'[c].sentAt = code[c].sentAt

\* Steps that register nobody and issue nothing: accounts and codes only go on
\* in their lives, and a pending account loses no code that could be its last.
LEMMA RowsMove ==
  ASSUME VerifyInv, VerifyTypeOK', UNCHANGED <<handler, issued>>,
         cleared \subseteq cleared', clock <= clock', CodesStay,
         \A a \in Accounts :
           /\ account'[a].email = account[a].email
           /\ account'[a].status \in {"pending", "active"}
                => account[a].status \in {"pending", "active"}
           /\ account'[a].status = "pending" => account[a].status = "pending",
         \A c \in Codes :
           /\ code'[c].status = "pending" =>
                code[c].status = "pending" /\ account'[code[c].owner].status \in {"pending", "active"}
           /\ code[c].status = "none" => code'[c].status = "none"
           /\ code[c].status = "deleted" => code'[c].status = "deleted"
           /\ code[c].status = "pending" =>
                \/ code'[c].status = "pending"
                \/ code'[c].status = "deleted" /\ code[c].sentAt + TTL < clock
                \/ account'[code[c].owner].status # "pending"
  PROVE  VerifyInv'
<1>1. IssuedCounted'
  BY NoneIssued DEF VerifyInv, CodesStay
<1>2. HandlersRemember'
  <2> SUFFICES ASSUME NEW h \in Handlers PROVE Remembers(handler[h])'
    BY DEF HandlersRemember
  <2>1. Remembers(handler[h]) /\ handler'[h] = handler[h] /\ handler[h].seen \subseteq Codes
    BY DEF VerifyInv, HandlersRemember, VerifyTypeInv, VerifyTypeOK, Handler
  <2> QED  BY <2>1 DEF Remembers, CodesStay
<1>3. CodesHaveOwners'
  <2> SUFFICES ASSUME NEW c \in Codes, code'[c].status = "pending"
               PROVE  /\ code'[c].owner \in Accounts
                      /\ account'[code'[c].owner].status \in {"pending", "active"}
    BY DEF CodesHaveOwners, Live
  <2>1. code[c].status = "pending" /\ code'[c].owner = code[c].owner
        /\ account'[code[c].owner].status \in {"pending", "active"}
    BY DEF CodesStay
  <2> QED  BY <2>1 DEF VerifyInv, CodesHaveOwners, Live
<1>4. ExternalWasCleared'
  BY DEF VerifyInv, ExternalWasCleared
<1>5. SeatsKept'
  <2> SUFFICES ASSUME NEW e \in Emails
               PROVE  Cardinality(UsersOf(e)') + Cardinality(Registering(e)')
                        <= Cardinality(Handlers)
    BY DEF SeatsKept
  <2>1. UsersOf(e)' \subseteq UsersOf(e) /\ Registering(e)' = Registering(e)
    BY DEF UsersOf, Live, Registering
  <2>2. Cardinality(UsersOf(e)') <= Cardinality(UsersOf(e))
        /\ Cardinality(UsersOf(e)') \in Nat
    BY <2>1, UsersAreFinite, FS_Subset, FS_CardinalityType
  <2>3. Cardinality(UsersOf(e)) + Cardinality(Registering(e)) <= Cardinality(Handlers)
    BY DEF VerifyInv, SeatsKept
  <2> QED  BY <2>1, <2>2, <2>3, UsersAreFinite
<1>6. LastCodeStands'
  <2> SUFFICES ASSUME NEW a \in Accounts, account'[a].status = "pending"
               PROVE  \E c \in Codes : LastCodeOf(a, c)'
    BY DEF LastCodeStands, PendingVerification
  <2>1. PICK c \in Codes : LastCodeOf(a, c)
    BY DEF VerifyInv, LastCodeStands, PendingVerification
  <2>2. /\ code[c].owner = a /\ code[c].sentAt = issued[a].at
        /\ code'[c].owner = a /\ code'[c].sentAt = issued'[a].at
        /\ code'[c].sentAt = code[c].sentAt
    BY <2>1 DEF LastCodeOf, CodesStay
  <2>3. /\ clock \in Nat /\ clock' \in Nat /\ TTL \in Nat /\ code[c].sentAt \in Nat
    BY IdsAreNaturals, TimesAssumption DEF VerifyInv, VerifyTypeInv,
       VerifyTypeOK, Code
  <2>4. \/ code'[c].status = "pending"
        \/ code'[c].status = "deleted" /\ code[c].sentAt + TTL < clock
    BY <2>1, <2>2 DEF LastCodeOf
  <2>5. \/ code'[c].status = "pending"
        \/ code'[c].status = "deleted" /\ code'[c].sentAt + TTL < clock'
    BY <2>2, <2>3, <2>4
  <2> QED  BY <2>2, <2>5 DEF LastCodeOf
<1>7. SentInThePast'
  <2>1. clock \in Nat /\ clock' \in Nat /\ \A a \in Accounts : issued[a].at \in Nat
    BY IdsAreNaturals DEF VerifyInv, VerifyTypeInv, VerifyTypeOK
  <2>2. \A a \in Accounts : issued'[a].at <= clock'
    BY <2>1 DEF VerifyInv, SentInThePast
  <2>3. ASSUME NEW c \in Codes, NEW a \in Accounts,
               code'[c].owner = a, code'[c].status # "none"
        PROVE  code'[c].sentAt <= issued'[a].at
    <3>1. code[c].status # "none"
      BY <2>3 DEF VerifyInv, VerifyTypeInv, VerifyTypeOK, Code
    <3> QED  BY <2>3, <3>1 DEF VerifyInv, SentInThePast, CodesStay
  <2> QED  BY <2>2, <2>3 DEF SentInThePast
<1> QED
  BY <1>1, <1>2, <1>3, <1>4, <1>5, <1>6, <1>7 DEF VerifyInv, VerifyTypeInv

\* The row that verify_signup_code and the cooldown look at: one of the rows they
\* choose from, and none was sent after it.
LEMMA LatestIsLatest ==
  ASSUME code \in [Codes -> Code], NEW S \in SUBSET Codes, S # {}
  PROVE  /\ LatestOf(S) \in S
         /\ \A d \in S : code[d].sentAt <= code[LatestOf(S)].sentAt
<1> DEFINE T == {code[d].sentAt : d \in S}
           t == Max(T)
           U == {d \in S : code[d].sentAt = t}
           m == Max(U)
<1>1. \A d \in Codes : code[d].sentAt \in Times
  BY DEF Code
<1>2. T \in SUBSET (0..MaxTime) /\ T # {} /\ MaxTime \in Nat /\ MaxCodes \in Nat
  BY <1>1, BoundsAssumption DEF Times
<1>3. t \in T /\ \A u \in T : u <= t
  <2> HIDE DEF T
  <2> QED  BY <1>2, MaxIsLargest
<1>4. U \in SUBSET (0..MaxCodes) /\ U # {}
  <2>1. S \subseteq 0..MaxCodes
    BY <1>2 DEF Codes
  <2> HIDE DEF t
  <2> QED  BY <1>3, <2>1
<1>5. m \in U /\ \A d \in U : d <= m
  <2> HIDE DEF U
  <2> QED  BY <1>2, <1>4, MaxIsLargest
<1>6. m \in S /\ code[m].sentAt = t /\ \A d \in S : code[d].sentAt \in T
  BY <1>5
<1>7. \A d \in S : \/ code[d].sentAt < code[m].sentAt
                   \/ code[d].sentAt = code[m].sentAt /\ d <= m
  <2> TAKE d \in S
  <2>1. code[d].sentAt <= t /\ code[d].sentAt \in 0..MaxTime /\ t \in 0..MaxTime
    BY <1>2, <1>3, <1>6
  <2>2. CASE code[d].sentAt = t
    <3>1. d <= m
      BY <1>5, <2>2
    <3> QED  BY <1>6, <2>2, <3>1
  <2>3. CASE code[d].sentAt # t
    <3> HIDE DEF t, m
    <3> QED  BY <1>6, <2>1, <2>3
  <2> QED  BY <2>2, <2>3
<1> DEFINE Latest(c) == \A d \in S : \/ code[d].sentAt < code[c].sentAt
                                     \/ code[d].sentAt = code[c].sentAt /\ d <= c
<1>8. LatestOf(S) \in S /\ Latest(LatestOf(S))
  <2>1. \E c \in S : Latest(c)
    <3> HIDE DEF m
    <3> QED  BY <1>6, <1>7
  <2> QED  BY <2>1 DEF LatestOf
<1>9. \A d \in S : code[d].sentAt \in Nat
  BY <1>1, IdsAreNaturals
<1> HIDE DEF m, t
<1> QED  BY <1>8, <1>9

\* A thread moves: what it now remembers holds, and it registers for an address
\* that has no account, so at most the threads are on the way to one.
LEMMA ThreadKeeps ==
  ASSUME VerifyInv, cleared \subseteq cleared', NEW h \in Handlers, NEW v \in Handler,
         ThreadMoves(h, v), Remembers(v), v.pc = "registering" => UsersOf(v.email) = {}
  PROVE  VerifyInv'
<1>1. UNCHANGED <<clock, account, code, cleanup, guesses, issued>>
  BY DEF ThreadMoves
<1>2. \A g \in Handlers : handler'[g] = IF g = h THEN v ELSE handler[g]
  BY DEF ThreadMoves, VerifyInv, VerifyTypeInv, VerifyTypeOK
<1>3. VerifyTypeInv'
  <2>1. VerifyTypeOK'
    BY <1>1 DEF ThreadMoves, VerifyInv, VerifyTypeInv, VerifyTypeOK
  <2>2. IssuedCounted'
    BY <1>1 DEF VerifyInv, VerifyTypeInv, IssuedCounted, UsedCodes
  <2> QED  BY <2>1, <2>2 DEF VerifyTypeInv
<1>4. HandlersRemember'
  <2> SUFFICES ASSUME NEW g \in Handlers PROVE Remembers(handler[g])'
    BY DEF HandlersRemember
  <2>1. Remembers(handler[g]) /\ Remembers(v)
    BY DEF VerifyInv, HandlersRemember
  <2> QED  BY <1>1, <1>2, <2>1 DEF Remembers
<1>5. CodesHaveOwners' /\ LastCodeStands' /\ SentInThePast'
  BY <1>1 DEF VerifyInv, CodesHaveOwners, Live, LastCodeStands, LastCodeOf,
     PendingVerification, SentInThePast
<1>6. ExternalWasCleared'
  BY <1>1 DEF VerifyInv, ExternalWasCleared
<1>7. SeatsKept'
  <2> SUFFICES ASSUME NEW e \in Emails
               PROVE  Cardinality(UsersOf(e)') + Cardinality(Registering(e)')
                        <= Cardinality(Handlers)
    BY DEF SeatsKept
  <2>1. UsersOf(e)' = UsersOf(e)
    BY <1>1 DEF UsersOf, Live
  <2>2. Cardinality(UsersOf(e)) + Cardinality(Registering(e)) <= Cardinality(Handlers)
    BY DEF VerifyInv, SeatsKept
  <2>3. CASE v.pc = "registering" /\ v.email = e
    <3>1. Registering(e)' \subseteq Handlers
      BY DEF Registering
    <3>2. Cardinality(Registering(e)') <= Cardinality(Handlers)
          /\ Cardinality(Registering(e)') \in Nat
      BY <3>1, HandlersAssumption, FS_Subset, FS_CardinalityType
    <3>3. Cardinality(UsersOf(e)) = 0
      BY <2>3, FS_EmptySet
    <3> QED  BY <2>1, <3>2, <3>3
  <2>4. CASE ~(v.pc = "registering" /\ v.email = e)
    <3>1. Registering(e)' \subseteq Registering(e)
      BY <1>2, <2>4 DEF Registering
    <3>2. Cardinality(Registering(e)') <= Cardinality(Registering(e))
          /\ Cardinality(Registering(e)') \in Nat
      BY <3>1, UsersAreFinite, FS_Subset, FS_CardinalityType
    <3> QED  BY <2>1, <2>2, <3>2, UsersAreFinite
  <2> QED  BY <2>3, <2>4
<1> QED
  BY <1>3, <1>4, <1>5, <1>6, <1>7 DEF VerifyInv

-----------------------------------------------------------------------------
(* The steps on accounts and codes that issue no code.                      *)
LEMMA TickKeeps ==
  ASSUME VerifyInv, cleared \subseteq cleared', Tick PROVE VerifyInv'
<1>1. /\ clock' = clock + 1 /\ clock < MaxTime
      /\ UNCHANGED <<account, code, handler, cleanup, guesses, issued>>
  BY DEF Tick
<1>2. VerifyTypeOK /\ clock \in 0..MaxTime
  BY DEF VerifyInv, VerifyTypeInv, VerifyTypeOK, Times
<1>3. clock' \in Times /\ clock <= clock'
  BY <1>1, <1>2, BoundsAssumption DEF Times
<1>4. VerifyTypeOK'
  BY <1>1, <1>2, <1>3 DEF VerifyTypeOK
<1>5. CodesStay
  BY <1>1 DEF CodesStay
<1>6. \A c \in Codes : code[c].status = "pending" =>
        account[code[c].owner].status \in {"pending", "active"}
  BY DEF VerifyInv, CodesHaveOwners, Live
<1> QED  BY <1>1, <1>3, <1>4, <1>5, <1>6, RowsMove

\* The row that a verification locks is a pending code of a live account.
LEMMA ChosenRow ==
  ASSUME VerifyInv, NEW e \in Emails, CodesAt(e) # {}
  PROVE  LET c == LatestOf(CodesAt(e))
         IN  /\ c \in Codes /\ code[c].status = "pending"
             /\ code[c].owner \in Accounts /\ Live(code[c].owner)
<1>1. CodesAt(e) \in SUBSET Codes /\ code \in [Codes -> Code]
  BY DEF CodesAt, VerifyInv, VerifyTypeInv, VerifyTypeOK
<1>2. LatestOf(CodesAt(e)) \in CodesAt(e)
  BY <1>1, LatestIsLatest
<1> QED  BY <1>2 DEF CodesAt, VerifyInv, CodesHaveOwners

LEMMA WrongCodeKeeps ==
  ASSUME VerifyInv, cleared \subseteq cleared', NEW e \in Emails, WrongCode(e)
  PROVE  VerifyInv'
<1> DEFINE c == LatestOf(CodesAt(e))
<1>1. /\ c \in Codes /\ code[c].status = "pending"
      /\ code[c].owner \in Accounts
  BY ChosenRow DEF WrongCode
<1>2. /\ code' = [code EXCEPT ![c].attempts = @ + 1]
      /\ guesses' = [guesses EXCEPT ![code[c].owner] = @ + 1]
      /\ UNCHANGED <<clock, account, handler, cleanup, issued>>
      /\ code[c].attempts < MaxAttempts
  BY DEF WrongCode, Usable
<1> HIDE DEF c
<1>3. VerifyTypeOK /\ clock \in Nat
  BY IdsAreNaturals DEF VerifyInv, VerifyTypeInv, VerifyTypeOK
<1>4. code' \in [Codes -> Code]
  <2>1. code \in [Codes -> Code] /\ code[c].attempts \in 0..MaxAttempts
    BY <1>1, <1>3 DEF VerifyTypeOK, Code
  <2>2. code[c].attempts + 1 \in 0..MaxAttempts
    BY <1>2, <2>1, BoundsAssumption
  <2>3. [code[c] EXCEPT !.attempts = @ + 1] \in Code
    BY <1>1, <2>1, <2>2 DEF Code
  <2> QED  BY <1>2, <2>1, <2>3
<1>5. guesses' \in [Accounts -> Nat]
  BY <1>1, <1>2, <1>3 DEF VerifyTypeOK
<1>6. VerifyTypeOK'
  BY <1>2, <1>3, <1>4, <1>5 DEF VerifyTypeOK
<1>7. \A d \in Codes : /\ code'[d].status = code[d].status /\ code'[d].owner = code[d].owner
                       /\ code'[d].sentAt = code[d].sentAt
  BY <1>2, <1>3 DEF VerifyTypeOK, Code
<1>8. CodesStay
  BY <1>7 DEF CodesStay
<1>9. \A d \in Codes : code[d].status = "pending" =>
        account[code[d].owner].status \in {"pending", "active"}
  BY DEF VerifyInv, CodesHaveOwners, Live
<1> QED  BY <1>2, <1>3, <1>6, <1>7, <1>8, <1>9, RowsMove

LEMMA RightCodeKeeps ==
  ASSUME VerifyInv, cleared \subseteq cleared', NEW e \in Emails, RightCode(e)
  PROVE  VerifyInv'
<1> DEFINE a == code[LatestOf(CodesAt(e))].owner
<1>1. a \in Accounts /\ account[a].status \in {"pending", "active"}
  BY ChosenRow DEF RightCode, Live
<1>2. /\ account' = [account EXCEPT ![a].status = "active"]
      /\ code' = [d \in Codes |->
           IF d \in PendingSignupCodes(a)
             THEN [code[d] EXCEPT !.status = "consumed"] ELSE code[d]]
      /\ UNCHANGED <<clock, handler, cleanup, guesses, issued>>
  BY DEF RightCode
<1> HIDE DEF a
<1>3. VerifyTypeOK /\ clock \in Nat
  BY IdsAreNaturals DEF VerifyInv, VerifyTypeInv, VerifyTypeOK
<1>4. account' \in [Accounts -> Account]
  BY <1>1, <1>2, <1>3 DEF VerifyTypeOK, Account
<1>5. code' \in [Codes -> Code]
  BY <1>2, <1>3 DEF VerifyTypeOK, Code
<1>6. VerifyTypeOK'
  BY <1>2, <1>3, <1>4, <1>5 DEF VerifyTypeOK
<1>7. \A d \in Codes :
        /\ code'[d].owner = code[d].owner /\ code'[d].sentAt = code[d].sentAt
        /\ code'[d].status = IF code[d].owner = a /\ code[d].status = "pending"
                               THEN "consumed" ELSE code[d].status
  BY <1>2, <1>3 DEF VerifyTypeOK, Code, PendingSignupCodes
<1>8. \A b \in Accounts :
        /\ account'[b].email = account[b].email
        /\ account'[b].status = IF b = a THEN "active" ELSE account[b].status
  BY <1>2, <1>3 DEF VerifyTypeOK, Account
<1>9. CodesStay
  BY <1>7 DEF CodesStay
<1>10. \A d \in Codes : code[d].status = "pending" =>
         /\ code[d].owner \in Accounts
         /\ account'[code[d].owner].status \in {"pending", "active"}
  BY <1>8 DEF VerifyInv, CodesHaveOwners, Live
<1>11. \A d \in Codes :
         /\ code'[d].status = "pending" =>
              /\ code[d].status = "pending"
              /\ account'[code[d].owner].status \in {"pending", "active"}
         /\ code[d].status = "none" => code'[d].status = "none"
         /\ code[d].status = "deleted" => code'[d].status = "deleted"
         /\ code[d].status = "pending" =>
              \/ code'[d].status = "pending"
              \/ code'[d].status = "deleted" /\ code[d].sentAt + TTL < clock
              \/ account'[code[d].owner].status # "pending"
  BY <1>1, <1>7, <1>8, <1>10
<1>12. \A b \in Accounts :
         /\ account'[b].status \in {"pending", "active"}
              => account[b].status \in {"pending", "active"}
         /\ account'[b].status = "pending" => account[b].status = "pending"
  BY <1>1, <1>8
<1> QED  BY <1>2, <1>3, <1>6, <1>8, <1>9, <1>11, <1>12, RowsMove

LEMMA CleanupCodesKeeps ==
  ASSUME VerifyInv, cleared \subseteq cleared', CleanupCodes PROVE VerifyInv'
<1> DEFINE Gone(c) == \/ code[c].status = "consumed"
                      \/ code[c].status = "pending" /\ code[c].sentAt + TTL < clock
<1>1. /\ code' = [c \in Codes |->
           IF Gone(c) THEN [code[c] EXCEPT !.status = "deleted"] ELSE code[c]]
      /\ UNCHANGED <<clock, account, handler, cleanup, guesses, issued>>
  BY DEF CleanupCodes
<1>2. VerifyTypeOK /\ clock \in Nat
  BY IdsAreNaturals DEF VerifyInv, VerifyTypeInv, VerifyTypeOK
<1>3. \A c \in Codes :
        /\ code'[c].owner = code[c].owner /\ code'[c].sentAt = code[c].sentAt
        /\ code'[c].status = IF Gone(c) THEN "deleted" ELSE code[c].status
  BY <1>1, <1>2 DEF VerifyTypeOK, Code
<1>4. VerifyTypeOK'
  <2> HIDE DEF Gone
  <2>1. code' \in [Codes -> Code]
    BY <1>1, <1>2 DEF VerifyTypeOK, Code
  <2> QED  BY <1>1, <1>2, <2>1 DEF VerifyTypeOK
<1>5. CodesStay
  BY <1>3 DEF CodesStay
<1>6. \A c \in Codes : code[c].status = "pending" =>
        account[code[c].owner].status \in {"pending", "active"}
  BY DEF VerifyInv, CodesHaveOwners, Live
<1> QED  BY <1>1, <1>2, <1>3, <1>4, <1>5, <1>6, RowsMove

LEMMA CollectKeeps ==
  ASSUME VerifyInv, cleared \subseteq cleared', CollectStaleUsers PROVE VerifyInv'
<1>1. /\ cleanup' \in SUBSET Accounts
      /\ UNCHANGED <<clock, account, code, handler, guesses, issued>>
  BY DEF CollectStaleUsers
<1>2. VerifyTypeOK /\ clock \in Nat
  BY IdsAreNaturals DEF VerifyInv, VerifyTypeInv, VerifyTypeOK
<1>3. VerifyTypeOK'
  BY <1>1, <1>2 DEF VerifyTypeOK
<1>4. CodesStay
  BY <1>1 DEF CodesStay
<1>5. \A c \in Codes : code[c].status = "pending" =>
        account[code[c].owner].status \in {"pending", "active"}
  BY DEF VerifyInv, CodesHaveOwners, Live
<1> QED  BY <1>1, <1>2, <1>3, <1>4, <1>5, RowsMove

LEMMA DeleteKeeps ==
  ASSUME VerifyInv, cleared \subseteq cleared', DeleteStaleUsers PROVE VerifyInv'
<1> DEFINE Gone(c) == code[c].owner \in cleanup /\ code[c].status \in {"pending", "consumed"}
<1>1. /\ account' = [a \in Accounts |->
           IF a \in cleanup THEN [account[a] EXCEPT !.status = "deleted"] ELSE account[a]]
      /\ code' = [c \in Codes |->
           IF Gone(c) THEN [code[c] EXCEPT !.status = "deleted"] ELSE code[c]]
      /\ cleanup' = {} /\ UNCHANGED <<clock, handler, guesses, issued>>
  BY DEF DeleteStaleUsers
<1>2. VerifyTypeOK /\ clock \in Nat
  BY IdsAreNaturals DEF VerifyInv, VerifyTypeInv, VerifyTypeOK
<1>3. \A c \in Codes :
        /\ code'[c].owner = code[c].owner /\ code'[c].sentAt = code[c].sentAt
        /\ code'[c].status = IF Gone(c) THEN "deleted" ELSE code[c].status
  BY <1>1, <1>2 DEF VerifyTypeOK, Code
<1>4. \A a \in Accounts :
        /\ account'[a].email = account[a].email
        /\ account'[a].status = IF a \in cleanup THEN "deleted" ELSE account[a].status
  BY <1>1, <1>2 DEF VerifyTypeOK, Account
<1>5. VerifyTypeOK'
  <2> HIDE DEF Gone
  <2>1. code' \in [Codes -> Code]
    BY <1>1, <1>2 DEF VerifyTypeOK, Code
  <2>2. account' \in [Accounts -> Account]
    BY <1>1, <1>2 DEF VerifyTypeOK, Account
  <2> QED  BY <1>1, <1>2, <2>1, <2>2 DEF VerifyTypeOK
<1>6. CodesStay
  BY <1>3 DEF CodesStay
<1>7. \A c \in Codes : code[c].status = "pending" =>
        /\ code[c].owner \in Accounts
        /\ account[code[c].owner].status \in {"pending", "active"}
  BY DEF VerifyInv, CodesHaveOwners, Live
<1>8. \A c \in Codes :
        /\ code'[c].status = "pending" =>
             /\ code[c].status = "pending"
             /\ account'[code[c].owner].status \in {"pending", "active"}
        /\ code[c].status = "none" => code'[c].status = "none"
        /\ code[c].status = "deleted" => code'[c].status = "deleted"
        /\ code[c].status = "pending" =>
             \/ code'[c].status = "pending"
             \/ code'[c].status = "deleted" /\ code[c].sentAt + TTL < clock
             \/ account'[code[c].owner].status # "pending"
  BY <1>3, <1>4, <1>7
<1> QED  BY <1>1, <1>2, <1>4, <1>5, <1>6, <1>8, RowsMove

-----------------------------------------------------------------------------
(* The steps that issue a code: n, for the account a.                       *)
LEMMA IssueKeeps ==
  ASSUME VerifyInv, cleared \subseteq cleared', NEW h \in Handlers,
         handler' = [handler EXCEPT ![h] = Idle], UNCHANGED <<clock, cleanup, guesses>>,
         NEW a \in Accounts, NEW n \in FreeCodes, Issue(a),
         account' \in [Accounts -> Account], code' \in [Codes -> Code],
         account'[a].status \in {"pending", "active"},
         \A b \in Accounts \ {a} : account'[b] = account[b],
         code'[n] = NewCode(a),
         \A c \in Codes \ {n} :
           \/ code'[c] = code[c]
           \/ /\ code[c].owner = a /\ code[c].status = "pending"
              /\ code'[c].owner = a /\ code'[c].sentAt = code[c].sentAt
              /\ code'[c].status = "consumed"
  PROVE  /\ VerifyTypeInv' /\ HandlersRemember' /\ CodesHaveOwners'
         /\ LastCodeStands' /\ SentInThePast'
<1>1. VerifyTypeOK /\ clock \in Times /\ clock \in Nat /\ n \in Codes /\ code[n].status = "none"
  BY IdsAreNaturals DEF VerifyInv, VerifyTypeInv, VerifyTypeOK, FreeCodes
<1>2. /\ code'[n].owner = a /\ code'[n].status = "pending" /\ code'[n].sentAt = clock
  BY DEF NewCode
<1>3. CodesStay
  BY <1>1 DEF CodesStay
<1>4. \A b \in Accounts : issued'[b].at = IF b = a THEN clock ELSE issued[b].at
  BY <1>1 DEF Issue, VerifyTypeOK
<1>5. VerifyTypeInv'
  <2>1. IssuedCounted' /\ issued' \in [Accounts -> [count : 0..MaxCodes, at : Times]]
    BY <1>1, <1>2, <1>3, OneIssued DEF VerifyInv, CodesStay
  <2>2. handler' \in [Handlers -> Handler]
    BY <1>1, IdleIsTyped DEF VerifyTypeOK
  <2> QED  BY <1>1, <2>1, <2>2 DEF VerifyTypeInv, VerifyTypeOK
<1>6. HandlersRemember'
  <2> SUFFICES ASSUME NEW g \in Handlers PROVE Remembers(handler[g])'
    BY DEF HandlersRemember
  <2>1. CASE g = h
    BY <1>1, <2>1, IdleIsTyped DEF VerifyTypeOK, Remembers
  <2>2. CASE g # h
    <3>1. Remembers(handler[g]) /\ handler'[g] = handler[g] /\ handler[g].seen \subseteq Codes
      BY <1>1, <2>2 DEF VerifyInv, HandlersRemember, VerifyTypeOK, Handler
    <3> QED  BY <1>3, <3>1 DEF Remembers, CodesStay
  <2> QED  BY <2>1, <2>2
<1>7. CodesHaveOwners'
  <2> SUFFICES ASSUME NEW c \in Codes, code'[c].status = "pending"
               PROVE  /\ code'[c].owner \in Accounts
                      /\ account'[code'[c].owner].status \in {"pending", "active"}
    BY DEF CodesHaveOwners, Live
  <2>1. CASE c = n
    BY <1>2, <2>1
  <2>2. CASE c # n
    <3>1. code'[c] = code[c]
      BY <2>2
    <3>2. code[c].owner \in Accounts /\ account[code[c].owner].status \in {"pending", "active"}
      BY <3>1 DEF VerifyInv, CodesHaveOwners, Live
    <3> QED  BY <3>1, <3>2
  <2> QED  BY <2>1, <2>2
<1>8. LastCodeStands'
  <2> SUFFICES ASSUME NEW b \in Accounts, account'[b].status = "pending"
               PROVE  \E c \in Codes : LastCodeOf(b, c)'
    BY DEF LastCodeStands, PendingVerification
  <2>1. CASE b = a
    BY <1>1, <1>2, <1>4, <2>1 DEF LastCodeOf
  <2>2. CASE b # a
    <3>1. PICK c \in Codes : LastCodeOf(b, c)
      BY <2>2 DEF VerifyInv, LastCodeStands, PendingVerification
    <3>2. c # n /\ code[c].owner # a
      BY <1>1, <2>2, <3>1 DEF LastCodeOf
    <3>3. code'[c] = code[c]
      BY <3>2
    <3> QED  BY <1>4, <2>2, <3>1, <3>3 DEF LastCodeOf
  <2> QED  BY <2>1, <2>2
<1>9. SentInThePast'
  <2>1. \A b \in Accounts : issued'[b].at <= clock
    BY <1>1, <1>4 DEF VerifyInv, SentInThePast
  <2>2. ASSUME NEW c \in Codes, NEW b \in Accounts,
               code'[c].owner = b, code'[c].status # "none"
        PROVE  code'[c].sentAt <= issued'[b].at
    <3>1. CASE c = n
      BY <1>1, <1>2, <1>4, <2>2, <3>1
    <3>2. CASE c # n
      <4>1. /\ code[c].owner = b /\ code[c].status # "none"
            /\ code'[c].sentAt = code[c].sentAt
        BY <2>2, <3>2
      <4>2. /\ code[c].sentAt <= issued[b].at /\ issued[b].at <= clock
            /\ code[c].sentAt \in Nat /\ issued[b].at \in Nat
        BY <1>1, <4>1, IdsAreNaturals DEF VerifyInv, SentInThePast, VerifyTypeOK, Code
      <4> QED  BY <1>1, <1>4, <4>1, <4>2
    <3> QED  BY <3>1, <3>2
  <2> QED  BY <2>1, <2>2 DEF SentInThePast
<1> QED  BY <1>5, <1>6, <1>7, <1>8, <1>9

LEMMA CommitIssueKeeps ==
  ASSUME VerifyInv, cleared \subseteq cleared', NEW h \in Handlers, CommitIssue(h)
  PROVE  VerifyInv'
<1> DEFINE a == handler[h].user
           n == Min(FreeCodes)
<1>1. VerifyTypeOK /\ clock \in Times
  BY DEF VerifyInv, VerifyTypeInv, VerifyTypeOK
<1>2. n \in FreeCodes
  BY DrawnIdsAreFree DEF CommitIssue
<1>3. a \in Accounts /\ account[a].status \in {"pending", "active"}
  BY DEF CommitIssue, VerifyInv, HandlersRemember, Remembers, Live
<1>4. \A c \in handler[h].seen : code[c].owner = a
  BY DEF VerifyInv, HandlersRemember, Remembers
<1>5. /\ code' = [c \in Codes |->
           IF c = n THEN NewCode(a)
           ELSE IF c \in handler[h].seen /\ code[c].status = "pending"
             THEN [code[c] EXCEPT !.status = "consumed"]
           ELSE code[c]]
      /\ Issue(a) /\ handler' = [handler EXCEPT ![h] = Idle]
      /\ UNCHANGED <<clock, account, cleanup, guesses>>
  BY DEF CommitIssue
<1> HIDE DEF a, n
<1>6. NewCode(a) \in Code
  BY <1>1, <1>3, BoundsAssumption DEF NewCode, Code
<1>7. code' \in [Codes -> Code]
  BY <1>1, <1>5, <1>6 DEF VerifyTypeOK, Code
<1>8. code'[n] = NewCode(a)
  BY <1>2, <1>5 DEF FreeCodes
<1>9. \A c \in Codes \ {n} :
        \/ code'[c] = code[c]
        \/ /\ code[c].owner = a /\ code[c].status = "pending"
           /\ code'[c].owner = a /\ code'[c].sentAt = code[c].sentAt
           /\ code'[c].status = "consumed"
  BY <1>1, <1>4, <1>5 DEF VerifyTypeOK, Code
<1>10. /\ VerifyTypeInv' /\ HandlersRemember' /\ CodesHaveOwners'
       /\ LastCodeStands' /\ SentInThePast'
  <2>1. account' \in [Accounts -> Account] /\ account'[a].status \in {"pending", "active"}
        /\ \A b \in Accounts \ {a} : account'[b] = account[b]
    BY <1>1, <1>3, <1>5 DEF VerifyTypeOK
  <2> QED  BY <1>2, <1>3, <1>5, <1>7, <1>8, <1>9, <2>1, IssueKeeps
<1>11. ExternalWasCleared'
  BY <1>5 DEF VerifyInv, ExternalWasCleared
<1>12. SeatsKept'
  <2> SUFFICES ASSUME NEW e \in Emails
               PROVE  Cardinality(UsersOf(e)') + Cardinality(Registering(e)')
                        <= Cardinality(Handlers)
    BY DEF SeatsKept
  <2>1. UsersOf(e)' = UsersOf(e)
    BY <1>5 DEF UsersOf, Live
  <2>2. Registering(e)' \subseteq Registering(e)
    BY <1>1, <1>5, IdleIsTyped DEF VerifyTypeOK, Registering
  <2>3. Cardinality(Registering(e)') <= Cardinality(Registering(e))
        /\ Cardinality(Registering(e)') \in Nat
    BY <2>2, UsersAreFinite, FS_Subset, FS_CardinalityType
  <2>4. Cardinality(UsersOf(e)) + Cardinality(Registering(e)) <= Cardinality(Handlers)
    BY DEF VerifyInv, SeatsKept
  <2> QED  BY <2>1, <2>3, <2>4, UsersAreFinite
<1> QED  BY <1>10, <1>11, <1>12 DEF VerifyInv

\* A registration gives its seat to the account it creates.
LEMMA CreateUserKeeps ==
  ASSUME VerifyInv, cleared \subseteq cleared', NEW h \in Handlers, CreateUser(h)
  PROVE  VerifyInv'
<1> DEFINE a == Min(FreeAccounts)
           n == Min(FreeCodes)
           mail == handler[h].email
           row == [email |-> mail, status |-> "pending", joined |-> clock]
<1>1. VerifyTypeOK /\ clock \in Times
  BY DEF VerifyInv, VerifyTypeInv, VerifyTypeOK
<1>2. n \in FreeCodes /\ a \in FreeAccounts
  BY DrawnIdsAreFree DEF CreateUser
<1>3. a \in Accounts /\ account[a].status = "none" /\ n \in Codes
  BY <1>2 DEF FreeAccounts, FreeCodes
<1>4. /\ account' = [account EXCEPT ![a] = row]
      /\ code' = [code EXCEPT ![n] = NewCode(a)]
      /\ Issue(a) /\ handler' = [handler EXCEPT ![h] = Idle]
      /\ UNCHANGED <<clock, cleanup, guesses>>
      /\ handler[h].pc = "registering"
  BY DEF CreateUser
<1>5. mail \in Emails /\ (mail \in External => mail \in cleared)
  BY <1>4 DEF VerifyInv, HandlersRemember, Remembers
<1>6. row \in Account /\ row.email = mail /\ row.status = "pending"
  BY <1>1, <1>5 DEF Account
<1> HIDE DEF a, n, mail, row
<1>7. NewCode(a) \in Code
  BY <1>1, <1>3, BoundsAssumption DEF NewCode, Code
<1>8. /\ code' \in [Codes -> Code] /\ code'[n] = NewCode(a)
      /\ \A c \in Codes \ {n} : code'[c] = code[c]
  BY <1>1, <1>3, <1>4, <1>7 DEF VerifyTypeOK
<1>9. /\ account' \in [Accounts -> Account] /\ account'[a] = row
      /\ \A b \in Accounts \ {a} : account'[b] = account[b]
  BY <1>1, <1>3, <1>4, <1>6 DEF VerifyTypeOK
<1>10. /\ VerifyTypeInv' /\ HandlersRemember' /\ CodesHaveOwners'
       /\ LastCodeStands' /\ SentInThePast'
  BY <1>2, <1>3, <1>4, <1>6, <1>8, <1>9, IssueKeeps
<1>11. ExternalWasCleared'
  BY <1>5, <1>6, <1>9 DEF VerifyInv, ExternalWasCleared
<1>12. SeatsKept'
  <2> SUFFICES ASSUME NEW e \in Emails
               PROVE  Cardinality(UsersOf(e)') + Cardinality(Registering(e)')
                        <= Cardinality(Handlers)
    BY DEF SeatsKept
  <2>1. Cardinality(UsersOf(e)) + Cardinality(Registering(e)) <= Cardinality(Handlers)
    BY DEF VerifyInv, SeatsKept
  <2>2. \A g \in Handlers : handler'[g].pc = "registering" =>
          g # h /\ handler'[g] = handler[g]
    BY <1>1, <1>4, IdleIsTyped DEF VerifyTypeOK
  <2>3. CASE e = mail
    <3>1. UsersOf(e)' = UsersOf(e) \union {a} /\ a \notin UsersOf(e)
      BY <1>3, <1>6, <1>9, <2>3 DEF UsersOf, Live
    <3>2. Cardinality(UsersOf(e)') = Cardinality(UsersOf(e)) + 1
      BY <3>1, UsersAreFinite, FS_AddElement
    <3>3. h \in Registering(e) /\ Registering(e)' \subseteq Registering(e) \ {h}
      BY <1>4, <2>2, <2>3 DEF Registering, mail
    <3>4. /\ IsFiniteSet(Registering(e) \ {h})
          /\ Cardinality(Registering(e) \ {h}) = Cardinality(Registering(e)) - 1
      BY <3>3, UsersAreFinite, FS_RemoveElement
    <3>5. Cardinality(Registering(e)') <= Cardinality(Registering(e)) - 1
          /\ Cardinality(Registering(e)') \in Nat
      BY <3>3, <3>4, FS_Subset, FS_CardinalityType
    <3> QED  BY <2>1, <3>2, <3>5, UsersAreFinite
  <2>4. CASE e # mail
    <3>1. UsersOf(e)' = UsersOf(e)
      BY <1>3, <1>6, <1>9, <2>4 DEF UsersOf, Live
    <3>2. Registering(e)' \subseteq Registering(e)
      BY <2>2 DEF Registering
    <3>3. Cardinality(Registering(e)') <= Cardinality(Registering(e))
          /\ Cardinality(Registering(e)') \in Nat
      BY <3>2, UsersAreFinite, FS_Subset, FS_CardinalityType
    <3> QED  BY <2>1, <3>1, <3>3, UsersAreFinite
  <2> QED  BY <2>3, <2>4
<1> QED  BY <1>10, <1>11, <1>12 DEF VerifyInv

-----------------------------------------------------------------------------
(* The invariant is inductive.                                              *)
LEMMA Start == Init => IInv
<1> SUFFICES ASSUME Init PROVE IInv
  OBVIOUS
<1>1. AccessInv /\ VerifyTypeInv
  BY AccessStart, VerifyTypeInit DEF Init
<1>2. /\ account = [a \in Accounts |-> NoUser] /\ code = [c \in Codes |-> NoCode]
      /\ handler = [h \in Handlers |-> Idle] /\ clock = 0
      /\ issued = [a \in Accounts |-> [count |-> 0, at |-> 0]]
      /\ NoUser.status = "none" /\ NoUser.email = NoEmail /\ NoCode.status = "none"
  BY DEF Init, VerifyInit, NoUser, NoCode
<1>3. HandlersRemember
  BY <1>2, IdleIsTyped DEF HandlersRemember, Remembers
<1>4. CodesHaveOwners /\ LastCodeStands /\ SentInThePast
  BY <1>2 DEF CodesHaveOwners, LastCodeStands, PendingVerification, SentInThePast
<1>5. ExternalWasCleared
  BY <1>2, EmailsAssumption, ExternalAssumption DEF ExternalWasCleared
<1>6. SeatsKept
  <2> SUFFICES ASSUME NEW e \in Emails
               PROVE  Cardinality(UsersOf(e)) + Cardinality(Registering(e))
                        <= Cardinality(Handlers)
    BY DEF SeatsKept
  <2>1. UsersOf(e) = {}
    BY <1>2 DEF UsersOf, Live
  <2> QED  BY <2>1, UsersAreFinite, FS_EmptySet
<1> QED  BY <1>1, <1>3, <1>4, <1>5, <1>6 DEF IInv, VerifyInv

\* A step of the desk leaves the accounts and the codes alone.
LEMMA DeskLeavesCodes ==
  ASSUME VerifyInv, cleared \subseteq cleared', UNCHANGED verifyVars PROVE VerifyInv'
<1>1. VerifyTypeInv'
  BY DEF verifyVars, VerifyInv, VerifyTypeInv, VerifyTypeOK, IssuedCounted, UsedCodes
<1>2. HandlersRemember'
  <2> SUFFICES ASSUME NEW h \in Handlers PROVE Remembers(handler[h])'
    BY DEF HandlersRemember
  <2>1. Remembers(handler[h])
    BY DEF VerifyInv, HandlersRemember
  <2> QED  BY <2>1 DEF verifyVars, Remembers
<1>3. CodesHaveOwners' /\ LastCodeStands' /\ SentInThePast'
  BY DEF verifyVars, VerifyInv, CodesHaveOwners, Live, LastCodeStands, LastCodeOf,
     PendingVerification, SentInThePast
<1>4. ExternalWasCleared' /\ SeatsKept'
  BY DEF verifyVars, VerifyInv, ExternalWasCleared, SeatsKept, UsersOf, Live, Registering
<1> QED  BY <1>1, <1>2, <1>3, <1>4 DEF VerifyInv

LEMMA Step == IInv /\ [Next]_vars => IInv'
<1> SUFFICES ASSUME IInv, [Next]_vars PROVE IInv'
  OBVIOUS
<1>1. AccessInv /\ VerifyInv /\ VerifyTypeOK /\ HandlersRemember
  BY DEF IInv, VerifyInv, VerifyTypeInv
<1>2. CASE UNCHANGED vars
  <2>1. UNCHANGED verifyVars /\ UNCHANGED accessVars /\ cleared \subseteq cleared'
    BY <1>2 DEF vars, accessVars
  <2>2. VerifyInv'
    BY <1>1, <2>1, DeskLeavesCodes
  <2>3. AccessInv'
    BY <1>1, <2>1 DEF accessVars, AccessInv, AccessTypeOK, DesksHoldAddresses,
       MarkedIsListed, ApprovedIsListed, ListedWasCleared, Allowlisted
  <2> QED  BY <2>2, <2>3 DEF IInv
<1>3. CASE Next
  <2>1. AccessInv' /\ cleared \subseteq cleared'
    BY <1>1, <1>3, AccessStep
  <2>2. ASSUME NEW h \in Handlers,
               \/ \E e \in Emails : PostRegister(h, e)
               \/ SaveRequest(h) \/ GiveUp(h) \/ OpenIssue(h)
               \/ \E e \in Emails : ResendSignupCode(h, e)
        PROVE  VerifyInv'
    <3>1. PICK v \in Handler : /\ ThreadMoves(h, v) /\ Remembers(v)
                               /\ v.pc = "registering" => UsersOf(v.email) = {}
      BY <1>1, <2>2, ThreadSteps
    <3> QED  BY <1>1, <2>1, <3>1, ThreadKeeps
  <2>3. ASSUME NEW h \in Handlers, CreateUser(h) PROVE VerifyInv'
    BY <1>1, <2>1, <2>3, CreateUserKeeps
  <2>4. ASSUME NEW h \in Handlers, CommitIssue(h) PROVE VerifyInv'
    BY <1>1, <2>1, <2>4, CommitIssueKeeps
  <2>5. ASSUME NEW e \in Emails, WrongCode(e) PROVE VerifyInv'
    BY <1>1, <2>1, <2>5, WrongCodeKeeps
  <2>6. ASSUME NEW e \in Emails, RightCode(e) PROVE VerifyInv'
    BY <1>1, <2>1, <2>6, RightCodeKeeps
  <2>7. ASSUME CleanupCodes PROVE VerifyInv'
    BY <1>1, <2>1, <2>7, CleanupCodesKeeps
  <2>8. ASSUME CollectStaleUsers PROVE VerifyInv'
    BY <1>1, <2>1, <2>8, CollectKeeps
  <2>9. ASSUME DeleteStaleUsers PROVE VerifyInv'
    BY <1>1, <2>1, <2>9, DeleteKeeps
  <2>10. ASSUME Tick PROVE VerifyInv'
    BY <1>1, <2>1, <2>10, TickKeeps
  <2>11. ASSUME Moderate PROVE VerifyInv'
    BY <1>1, <2>1, <2>11, DeskLeavesCodes DEF Moderate
  <2>12. VerifyInv'
    BY <1>3, <2>2, <2>3, <2>4, <2>5, <2>6, <2>7, <2>8, <2>9, <2>10, <2>11
       DEF Next, SignUp, Confirm, ResendEmailCode, VerifyEmail
  <2> QED  BY <2>1, <2>12 DEF IInv
<1> QED  BY <1>2, <1>3

\* Every reachable state satisfies the invariant.
THEOREM RegistrationInvariant == Spec => []IInv
BY Start, Step, PTL DEF Spec

-----------------------------------------------------------------------------
\* Type correctness, on every step of the forms, the command and the desk: no
\* code has more attempts than MaxAttempts, no account more codes than there are.
THEOREM TypeCorrectness == Spec => []TypeOK
<1>1. IInv => TypeOK
  BY DEF IInv, AccessInv, VerifyInv, VerifyTypeInv, TypeOK
<1> QED  BY <1>1, RegistrationInvariant, PTL

\* A request that is marked approved has an entry in the allowlist, whatever
\* dies between the two commits of cpprp_external_request_approve and however
\* the moderators' handlers overlap.
THEOREM ApprovalsAreListed == Spec => []ApprovedIsListed
<1>1. IInv => ApprovedIsListed
  BY DEF IInv, AccessInv
<1> QED  BY <1>1, RegistrationInvariant, PTL

\* Every account with an external address belongs to someone CPPRP let in:
\* between the check of the allowlist and the transaction that creates the user
\* the entry may be switched off, but it was on.
THEOREM ExternalsWereCleared == Spec => []ExternalWasCleared
<1>1. IInv => ExternalWasCleared
  BY DEF IInv, VerifyInv
<1> QED  BY <1>1, RegistrationInvariant, PTL

\* The form's check of the address is not locked, but the accounts of an address
\* are never more than the threads: each has, or had, a thread of its own that
\* saw the address free, and no thread starts once an account is there.
THEOREM AccountsAreBounded == Spec => []AccountsPerEmailBounded
<1>1. IInv => AccountsPerEmailBounded
  BY UsersAreFinite DEF IInv, VerifyInv, SeatsKept, AccountsPerEmailBounded
<1> QED  BY <1>1, RegistrationInvariant, PTL

\* The row of an account's last code outlives the cooldown.
LEMMA CooldownFromLast == IInv => CooldownRemembered
<1> SUFFICES ASSUME IInv, NEW a \in Accounts, PendingVerification(a),
                    clock < issued[a].at + Cooldown
             PROVE  /\ KnownCodes(a) # {}
                    /\ code[LatestOf(KnownCodes(a))].sentAt = issued[a].at
  BY DEF CooldownRemembered
<1>1. VerifyTypeOK /\ LastCodeStands /\ SentInThePast
  BY DEF IInv, VerifyInv, VerifyTypeInv
<1>2. PICK c \in Codes : LastCodeOf(a, c)
  BY <1>1 DEF LastCodeStands
<1>3. clock \in Nat /\ issued[a].at \in Nat
  BY <1>1, IdsAreNaturals DEF VerifyTypeOK
<1>4. code[c].status = "pending" /\ code[c].owner = a /\ code[c].sentAt = issued[a].at
  BY <1>2, <1>3, TimesAssumption DEF LastCodeOf
<1>5. c \in KnownCodes(a) /\ KnownCodes(a) \in SUBSET Codes
  BY <1>4 DEF KnownCodes
<1> DEFINE l == LatestOf(KnownCodes(a))
<1>6. l \in KnownCodes(a) /\ code[c].sentAt <= code[l].sentAt
  BY <1>1, <1>5, LatestIsLatest DEF VerifyTypeOK
<1> HIDE DEF l
<1>7. code[l].sentAt <= issued[a].at /\ code[l].sentAt \in Nat
  BY <1>1, <1>6, IdsAreNaturals DEF KnownCodes, SentInThePast, VerifyTypeOK, Code
<1>8. code[l].sentAt = issued[a].at
  BY <1>3, <1>4, <1>6, <1>7
<1> QED  BY <1>5, <1>8 DEF l

\* The cooldown of resend_signup_code is computed from rows that the clean-up
\* command deletes; as long as the cooldown is no longer than the codes live, the
\* row of the last code is there until the cooldown is over.
THEOREM CooldownIsRemembered == Spec => []CooldownRemembered
BY CooldownFromLast, RegistrationInvariant, PTL

\* cleanup_email_verifications --delete-stale-users reads the stale users and
\* deletes them in a second statement: a user that is active when it reads is
\* never among them, and no other step takes an active user away.
THEOREM ConfirmedUsersAreKept == Spec => ConfirmedUsersStay
<1> DEFINE Stays == \A a \in Accounts :
             account[a].status = "active" /\ a \notin cleanup =>
               a \notin cleanup' /\ account'[a].status = "active"
<1>1. IInv /\ [Next]_vars => [Stays]_vars
  <2> SUFFICES ASSUME IInv, Next, NEW a \in Accounts,
                      account[a].status = "active", a \notin cleanup
               PROVE  a \notin cleanup' /\ account'[a].status = "active"
    OBVIOUS
  <2>1. account \in [Accounts -> Account]
    BY DEF IInv, VerifyInv, VerifyTypeInv, VerifyTypeOK
  <2>2. CASE UNCHANGED <<account, cleanup>>
    BY <2>2
  <2>3. ASSUME NEW h \in Handlers, CreateUser(h)
        PROVE  a \notin cleanup' /\ account'[a].status = "active"
    <3> DEFINE n == Min(FreeAccounts)
    <3>1. account[n].status = "none"
      BY <2>3, DrawnIdsAreFree DEF CreateUser, FreeAccounts
    <3>2. cleanup' = cleanup /\ \E r : account' = [account EXCEPT ![n] = r]
      BY <2>3 DEF CreateUser
    <3> HIDE DEF n
    <3> QED  BY <2>1, <3>1, <3>2
  <2>4. ASSUME NEW e \in Emails, RightCode(e)
        PROVE  a \notin cleanup' /\ account'[a].status = "active"
    <3>1. cleanup' = cleanup /\ \E b : account' = [account EXCEPT ![b].status = "active"]
      BY <2>4 DEF RightCode
    <3> QED  BY <2>1, <3>1 DEF Account
  <2>5. CASE CollectStaleUsers
    BY <2>5 DEF CollectStaleUsers, PendingVerification
  <2>6. CASE DeleteStaleUsers
    BY <2>6 DEF DeleteStaleUsers
  <2>7. \/ UNCHANGED <<account, cleanup>>
        \/ \E h \in Handlers : CreateUser(h)
        \/ \E e \in Emails : RightCode(e)
        \/ CollectStaleUsers \/ DeleteStaleUsers
    BY DEF Next, SignUp, Confirm, Moderate, PostRegister, StartRegistration, SaveRequest,
       GiveUp, ResendEmailCode, ResendSignupCode, OpenIssue, CommitIssue, VerifyEmail,
       WrongCode, CleanupCodes, Tick, verifyVars
  <2> QED  BY <2>2, <2>3, <2>4, <2>5, <2>6, <2>7
<1> QED  BY <1>1, RegistrationInvariant, PTL DEF Spec, ConfirmedUsersStay
-----------------------------------------------------------------------------
(***************************************************************************)
(* Limits.  The codes of an account come from threads that take turns: a   *)
(* thread renews a code only when its own last one is older than the       *)
(* cooldown, and its UPDATE sees that one, if it is still pending.  The    *)
(* rows do not say which thread made them, so the invariant says that some *)
(* assignment f of threads to codes explains them.                         *)
(***************************************************************************)
Used(c) == code[c].status # "none"
Siblings(c, d) == c # d /\ Used(c) /\ Used(d) /\ code[c].owner = code[d].owner
Apart(c, d) ==
  \/ code[c].sentAt + Cooldown <= code[d].sentAt
  \/ code[d].sentAt + Cooldown <= code[c].sentAt
BothPending(c, d) == code[c].status = "pending" /\ code[d].status = "pending"

Renewing(h) == handler[h].pc \in {"resending", "issuing"}

IssuersApart(f) ==
  \A c, d \in Codes :
    Siblings(c, d) /\ f[c] = f[d] => Apart(c, d) /\ ~BothPending(c, d)

OwnSeen(f) ==
  \A c \in Codes :
    Used(c) /\ Renewing(f[c]) /\ handler[f[c]].user = code[c].owner =>
      /\ code[c].sentAt + Cooldown <= clock
      /\ handler[f[c]].pc = "issuing" /\ code[c].status = "pending"
           => c \in handler[f[c]].seen

ThreadsTakeTurns == \E f \in [Codes -> Handlers] : IssuersApart(f) /\ OwnSeen(f)

\* Codes are sent to accounts that exist, the first as the account is made and
\* the others a cooldown later at the earliest.
SentAfterJoining ==
  \A c \in Codes : Used(c) =>
    /\ code[c].owner \in Accounts /\ account[code[c].owner].status # "none"
    /\ account[code[c].owner].joined <= code[c].sentAt

RenewersWait ==
  \A h \in Handlers : Renewing(h) =>
    /\ account[handler[h].user].status # "none"
    /\ account[handler[h].user].joined + Cooldown <= clock

FirstAlone ==
  \A c, d \in Codes : Siblings(c, d) =>
    \/ account[code[c].owner].joined + Cooldown <= code[c].sentAt
    \/ account[code[c].owner].joined + Cooldown <= code[d].sentAt

JoinedInThePast == \A a \in Accounts : account[a].joined <= clock

TurnsInv ==
  /\ JoinedInThePast /\ SentAfterJoining /\ RenewersWait /\ FirstAlone
  /\ ThreadsTakeTurns

\* What the counters of an account's codes have counted.
Tries(a) ==
  {p \in Codes \X (1..MaxAttempts) :
     Used(p[1]) /\ code[p[1]].owner = a /\ p[2] <= code[p[1]].attempts}
GuessesCounted == \A a \in Accounts : guesses[a] = Cardinality(Tries(a))

LimitInv == IInv /\ TurnsInv /\ GuessesCounted

\* The types the proofs below compute with.
LEMMA RowTypes ==
  ASSUME VerifyTypeOK
  PROVE  /\ clock \in Nat /\ Cooldown \in Nat \ {0}
         /\ \A c \in Codes : code[c] \in Code /\ code[c].sentAt \in Nat
         /\ \A a \in Accounts : account[a].joined \in Nat /\ issued[a].at \in Nat
         /\ handler \in [Handlers -> Handler]
         /\ \A h \in Handlers : handler[h] \in Handler
<1>1. Times \subseteq Nat /\ Cooldown \in Nat \ {0}
  BY IdsAreNaturals, TimesAssumption
<1> QED  BY <1>1 DEF VerifyTypeOK, Code, Account

LEMMA LimitsStart == Init => LimitInv
<1> SUFFICES ASSUME Init PROVE LimitInv
  OBVIOUS
<1>1. IInv /\ VerifyTypeOK
  BY Start DEF IInv, VerifyInv, VerifyTypeInv
<1>2. /\ \A c \in Codes : ~Used(c)
      /\ \A h \in Handlers : ~Renewing(h)
      /\ \A a \in Accounts : guesses[a] = 0
  BY IdleIsTyped DEF Init, VerifyInit, Used, NoCode, Renewing
<1>3. JoinedInThePast /\ SentAfterJoining /\ RenewersWait /\ FirstAlone
  BY <1>2 DEF Init, VerifyInit, NoUser, JoinedInThePast, SentAfterJoining, RenewersWait,
     FirstAlone, Siblings
<1>4. ThreadsTakeTurns
  <2>1. PICK h \in Handlers : TRUE
    BY HandlersAssumption
  <2>2. [c \in Codes |-> h] \in [Codes -> Handlers]
    OBVIOUS
  <2> QED  BY <1>2, <2>2 DEF ThreadsTakeTurns, IssuersApart, OwnSeen, Siblings
<1>5. \A a \in Accounts : Tries(a) = {}
  BY <1>2 DEF Tries
<1>6. GuessesCounted
  BY <1>2, <1>5, FS_EmptySet DEF GuessesCounted
<1> QED  BY <1>1, <1>3, <1>4, <1>6 DEF LimitInv, TurnsInv

-----------------------------------------------------------------------------
\* What a thread that renews after the step was doing before it: the same, with
\* the codes it saw then or sees now; or it found the cooldown over.
Prepared(h) ==
  \/ /\ Renewing(h) /\ handler'[h].user = handler[h].user
     /\ handler'[h].pc = "issuing" =>
          \/ handler[h].pc = "issuing" /\ handler'[h].seen = handler[h].seen
          \/ PendingSignupCodes(handler[h].user) \subseteq handler'[h].seen
  \/ /\ handler'[h].pc = "resending"
     /\ handler'[h].user \in Accounts /\ account[handler'[h].user].status # "none"
     /\ account[handler'[h].user].joined + Cooldown <= clock
     /\ \A c \in Codes : Used(c) /\ code[c].owner = handler'[h].user
                           => code[c].sentAt + Cooldown <= clock

\* Steps that issue no code.
LEMMA TurnsKept ==
  ASSUME IInv, TurnsInv, VerifyTypeOK', clock <= clock',
         \A c \in Codes :
           /\ Used(c)' <=> Used(c)
           /\ Used(c) => code'[c].owner = code[c].owner /\ code'[c].sentAt = code[c].sentAt
           /\ code'[c].status = "pending" => code[c].status = "pending",
         \A a \in Accounts :
           /\ account'[a].joined = account[a].joined
           /\ account[a].status # "none" => account'[a].status # "none",
         \A h \in Handlers : Renewing(h)' => Prepared(h)
  PROVE  TurnsInv'
<1>1. VerifyTypeOK /\ HandlersRemember
  BY DEF IInv, VerifyInv, VerifyTypeInv
<1>2. /\ clock \in Nat /\ clock' \in Nat /\ Cooldown \in Nat
      /\ \A c \in Codes : code[c].sentAt \in Nat
      /\ \A a \in Accounts : account[a].joined \in Nat
  <2>1. clock' \in Nat
    BY IdsAreNaturals DEF VerifyTypeOK
  <2> QED  BY <1>1, <2>1, RowTypes
<1>3. SentAfterJoining' /\ JoinedInThePast'
  BY <1>2 DEF TurnsInv, SentAfterJoining, JoinedInThePast
<1>4. FirstAlone'
  <2> SUFFICES ASSUME NEW c \in Codes, NEW d \in Codes, Siblings(c, d)'
               PROVE  \/ account'[code'[c].owner].joined + Cooldown <= code'[c].sentAt
                      \/ account'[code'[c].owner].joined + Cooldown <= code'[d].sentAt
    BY DEF FirstAlone
  <2>1. Used(c) /\ Used(d) /\ Siblings(c, d)
    BY DEF Siblings
  <2>2. code[c].owner \in Accounts /\ account[code[c].owner].status # "none"
    BY <2>1 DEF TurnsInv, SentAfterJoining
  <2> QED  BY <2>1, <2>2 DEF TurnsInv, FirstAlone
<1>5. RenewersWait'
  <2> SUFFICES ASSUME NEW h \in Handlers, Renewing(h)'
               PROVE  /\ account'[handler'[h].user].status # "none"
                      /\ account'[handler'[h].user].joined + Cooldown <= clock'
    BY DEF RenewersWait
  <2>1. /\ handler'[h].user \in Accounts /\ account[handler'[h].user].status # "none"
        /\ account[handler'[h].user].joined + Cooldown <= clock
    <3>1. CASE Renewing(h) /\ handler'[h].user = handler[h].user
      <4>1. handler[h].user \in Accounts
        BY <1>1, <3>1 DEF HandlersRemember, Remembers, Renewing
      <4> QED  BY <3>1, <4>1 DEF TurnsInv, RenewersWait
    <3> QED  BY <3>1 DEF Prepared
  <2> QED  BY <1>2, <2>1
<1>6. ThreadsTakeTurns'
  <2>1. PICK f \in [Codes -> Handlers] : IssuersApart(f) /\ OwnSeen(f)
    BY DEF TurnsInv, ThreadsTakeTurns
  <2>2. IssuersApart(f)'
    <3> SUFFICES ASSUME NEW c \in Codes, NEW d \in Codes, Siblings(c, d)', f[c] = f[d]
                 PROVE  Apart(c, d)' /\ ~BothPending(c, d)'
      BY DEF IssuersApart
    <3>1. Siblings(c, d) /\ Used(c) /\ Used(d)
      BY DEF Siblings
    <3>2. Apart(c, d) /\ ~BothPending(c, d)
      BY <2>1, <3>1 DEF IssuersApart
    <3> QED  BY <3>1, <3>2 DEF Apart, BothPending
  <2>3. OwnSeen(f)'
    <3> SUFFICES ASSUME NEW c \in Codes, Used(c)', Renewing(f[c])',
                        handler'[f[c]].user = code'[c].owner
                 PROVE  /\ code'[c].sentAt + Cooldown <= clock'
                        /\ handler'[f[c]].pc = "issuing" /\ code'[c].status = "pending"
                             => c \in handler'[f[c]].seen
      BY DEF OwnSeen
    <3> DEFINE h == f[c]
    <3>1. /\ h \in Handlers /\ Prepared(h) /\ Used(c)
          /\ code'[c].owner = code[c].owner /\ code'[c].sentAt = code[c].sentAt
      OBVIOUS
    <3>2. CASE Renewing(h) /\ handler'[h].user = handler[h].user
      <4>1. /\ code[c].sentAt + Cooldown <= clock
            /\ handler[h].pc = "issuing" /\ code[c].status = "pending"
                 => c \in handler[h].seen
        BY <2>1, <3>1, <3>2 DEF OwnSeen
      <4>2. code[c].status = "pending" => c \in PendingSignupCodes(handler[h].user)
        BY <3>1, <3>2 DEF PendingSignupCodes
      <4>3. handler'[h].pc = "issuing" =>
              \/ handler[h].pc = "issuing" /\ handler'[h].seen = handler[h].seen
              \/ PendingSignupCodes(handler[h].user) \subseteq handler'[h].seen
        BY <3>1 DEF Prepared
      <4> QED  BY <1>2, <3>1, <4>1, <4>2, <4>3
    <3>3. CASE /\ handler'[h].pc = "resending"
               /\ code[c].sentAt + Cooldown <= clock
      BY <1>2, <3>1, <3>3
    <3> QED  BY <3>1, <3>2, <3>3 DEF Prepared
  <2> QED  BY <2>1, <2>2, <2>3 DEF ThreadsTakeTurns
<1> QED  BY <1>3, <1>4, <1>5, <1>6 DEF TurnsInv
\* Steps in which h issues the code n for the account a: it makes the account, or
\* it renews and so consumes the codes it saw.
LEMMA TurnsIssued ==
  ASSUME IInv, TurnsInv, VerifyTypeOK', UNCHANGED clock, NEW h \in Handlers,
         handler' = [handler EXCEPT ![h] = Idle],
         NEW a \in Accounts, NEW n \in FreeCodes,
         code'[n].owner = a, Used(n)', code'[n].sentAt = clock,
         \A c \in Codes \ {n} :
           /\ Used(c)' <=> Used(c)
           /\ Used(c) => code'[c].owner = code[c].owner /\ code'[c].sentAt = code[c].sentAt
           /\ code'[c].status = "pending" => code[c].status = "pending",
         \A b \in Accounts \ {a} : account'[b] = account[b],
         account'[a].status # "none",
         \/ account[a].status = "none" /\ account'[a].joined = clock
         \/ /\ handler[h].pc = "issuing" /\ handler[h].user = a
            /\ account'[a] = account[a]
            /\ \A c \in handler[h].seen \ {n} : code'[c].status # "pending"
  PROVE  TurnsInv'
<1>1. VerifyTypeOK /\ HandlersRemember /\ SentInThePast
  BY DEF IInv, VerifyInv, VerifyTypeInv
<1>2. /\ clock \in Nat /\ Cooldown \in Nat \ {0} /\ n \in Codes /\ ~Used(n)
      /\ \A c \in Codes : code[c].sentAt \in Nat
      /\ \A b \in Accounts : account[b].joined \in Nat /\ account'[b].joined \in Nat
  <2>1. \A b \in Accounts : account'[b].joined \in Nat
    BY IdsAreNaturals DEF VerifyTypeOK, Account
  <2> QED  BY <1>1, <2>1, RowTypes DEF FreeCodes, Used
<1>3. \A g \in Handlers : Renewing(g)' => g # h /\ handler'[g] = handler[g] /\ Renewing(g)
  BY <1>1, IdleIsTyped DEF VerifyTypeOK, Renewing
<1>4. JoinedInThePast'
  BY <1>2 DEF TurnsInv, JoinedInThePast
\* The codes that the account has: none yet, or sent a cooldown after it joined.
<1>5. CASE account[a].status = "none" /\ account'[a].joined = clock
  <2>1. \A c \in Codes : Used(c) => code[c].owner # a
    BY <1>5 DEF TurnsInv, SentAfterJoining
  <2>2. SentAfterJoining'
    <3> SUFFICES ASSUME NEW c \in Codes, Used(c)'
                 PROVE  /\ code'[c].owner \in Accounts
                        /\ account'[code'[c].owner].status # "none"
                        /\ account'[code'[c].owner].joined <= code'[c].sentAt
      BY DEF SentAfterJoining
    <3>1. CASE c = n
      BY <1>2, <1>5, <3>1
    <3>2. CASE c # n
      <4>1. Used(c) /\ code'[c].owner = code[c].owner /\ code'[c].sentAt = code[c].sentAt
        BY <3>2
      <4> QED  BY <2>1, <4>1 DEF TurnsInv, SentAfterJoining
    <3> QED  BY <3>1, <3>2
  <2>3. RenewersWait'
    <3> SUFFICES ASSUME NEW g \in Handlers, Renewing(g)'
                 PROVE  /\ account'[handler'[g].user].status # "none"
                        /\ account'[handler'[g].user].joined + Cooldown <= clock'
      BY DEF RenewersWait
    <3>1. /\ handler'[g] = handler[g] /\ handler[g].user \in Accounts
          /\ account[handler[g].user].status # "none"
          /\ account[handler[g].user].joined + Cooldown <= clock
      BY <1>1, <1>3 DEF TurnsInv, RenewersWait, HandlersRemember, Remembers, Renewing
    <3> QED  BY <1>5, <3>1
  <2>4. \A c, d \in Codes : Siblings(c, d)' => c # n /\ d # n /\ code'[c].owner # a
    BY <1>2, <2>1 DEF Siblings
  <2>5. FirstAlone'
    <3> SUFFICES ASSUME NEW c \in Codes, NEW d \in Codes, Siblings(c, d)'
                 PROVE  \/ account'[code'[c].owner].joined + Cooldown <= code'[c].sentAt
                        \/ account'[code'[c].owner].joined + Cooldown <= code'[d].sentAt
      BY DEF FirstAlone
    <3>1. /\ c # n /\ d # n /\ code'[c].owner # a
          /\ Siblings(c, d) /\ Used(c) /\ Used(d)
      BY <2>4 DEF Siblings
    <3>2. code[c].owner \in Accounts \ {a} /\ code'[c].owner = code[c].owner
      BY <3>1 DEF TurnsInv, SentAfterJoining
    <3> QED  BY <3>1, <3>2 DEF TurnsInv, FirstAlone
  <2>6. ThreadsTakeTurns'
    <3>1. PICK f \in [Codes -> Handlers] : IssuersApart(f) /\ OwnSeen(f)
      BY DEF TurnsInv, ThreadsTakeTurns
    <3> DEFINE g == [f EXCEPT ![n] = h]
    <3>2. /\ g \in [Codes -> Handlers] /\ g[n] = h
          /\ \A c \in Codes \ {n} : g[c] = f[c]
      BY <1>2
    <3> HIDE DEF g
    <3>3. IssuersApart(g)'
      <4> SUFFICES ASSUME NEW c \in Codes, NEW d \in Codes, Siblings(c, d)', g[c] = g[d]
                   PROVE  Apart(c, d)' /\ ~BothPending(c, d)'
        BY DEF IssuersApart
      <4>1. c # n /\ d # n /\ Siblings(c, d) /\ Used(c) /\ Used(d) /\ f[c] = f[d]
        BY <2>4, <3>2 DEF Siblings
      <4>2. Apart(c, d) /\ ~BothPending(c, d)
        BY <3>1, <4>1 DEF IssuersApart
      <4> QED  BY <4>1, <4>2 DEF Apart, BothPending
    <3>4. OwnSeen(g)'
      <4> SUFFICES ASSUME NEW c \in Codes, Used(c)', Renewing(g[c])',
                          handler'[g[c]].user = code'[c].owner
                   PROVE  /\ code'[c].sentAt + Cooldown <= clock'
                          /\ handler'[g[c]].pc = "issuing" /\ code'[c].status = "pending"
                               => c \in handler'[g[c]].seen
        BY DEF OwnSeen
      <4>1. g[c] \in Handlers /\ g[c] # h /\ handler'[g[c]] = handler[g[c]] /\ Renewing(g[c])
        BY <1>3, <3>2
      <4>2. c # n /\ g[c] = f[c] /\ Used(c)
        BY <3>2, <4>1
      <4> QED  BY <3>1, <4>1, <4>2 DEF OwnSeen
    <3> QED  BY <3>2, <3>3, <3>4 DEF ThreadsTakeTurns
  <2> QED  BY <1>4, <2>2, <2>3, <2>5, <2>6 DEF TurnsInv
<1>6. CASE /\ handler[h].pc = "issuing" /\ handler[h].user = a
           /\ account'[a] = account[a]
           /\ \A c \in handler[h].seen \ {n} : code'[c].status # "pending"
  <2>1. \A b \in Accounts : account'[b] = account[b]
    BY <1>6
  <2>2. /\ account[a].status # "none" /\ account[a].joined + Cooldown <= clock
    BY <1>6 DEF TurnsInv, RenewersWait, Renewing
  <2>3. SentAfterJoining'
    <3> SUFFICES ASSUME NEW c \in Codes, Used(c)'
                 PROVE  /\ code'[c].owner \in Accounts
                        /\ account'[code'[c].owner].status # "none"
                        /\ account'[code'[c].owner].joined <= code'[c].sentAt
      BY DEF SentAfterJoining
    <3>1. CASE c = n
      BY <1>2, <2>1, <2>2, <3>1
    <3>2. CASE c # n
      BY <2>1, <3>2 DEF TurnsInv, SentAfterJoining
    <3> QED  BY <3>1, <3>2
  <2>4. RenewersWait'
    <3> SUFFICES ASSUME NEW g \in Handlers, Renewing(g)'
                 PROVE  /\ account'[handler'[g].user].status # "none"
                        /\ account'[handler'[g].user].joined + Cooldown <= clock'
      BY DEF RenewersWait
    <3>1. handler'[g] = handler[g] /\ Renewing(g) /\ handler[g].user \in Accounts
      BY <1>1, <1>3 DEF HandlersRemember, Remembers, Renewing
    <3> QED  BY <2>1, <3>1 DEF TurnsInv, RenewersWait
  <2>5. FirstAlone'
    <3> SUFFICES ASSUME NEW c \in Codes, NEW d \in Codes, Siblings(c, d)'
                 PROVE  \/ account'[code'[c].owner].joined + Cooldown <= code'[c].sentAt
                        \/ account'[code'[c].owner].joined + Cooldown <= code'[d].sentAt
      BY DEF FirstAlone
    <3>1. CASE c = n \/ d = n
      <4>1. code'[c].owner = a
        BY <3>1 DEF Siblings
      <4> QED  BY <2>1, <2>2, <3>1, <4>1
    <3>2. CASE c # n /\ d # n
      <4>1. Siblings(c, d) /\ Used(c) /\ Used(d)
        BY <3>2 DEF Siblings
      <4>2. code[c].owner \in Accounts
        BY <4>1 DEF TurnsInv, SentAfterJoining
      <4> QED  BY <2>1, <3>2, <4>1, <4>2 DEF TurnsInv, FirstAlone
    <3> QED  BY <3>1, <3>2
  <2>6. ThreadsTakeTurns'
    <3>1. PICK f \in [Codes -> Handlers] : IssuersApart(f) /\ OwnSeen(f)
      BY DEF TurnsInv, ThreadsTakeTurns
    <3> DEFINE g == [f EXCEPT ![n] = h]
    <3>2. /\ g \in [Codes -> Handlers] /\ g[n] = h
          /\ \A c \in Codes \ {n} : g[c] = f[c]
      BY <1>2
    <3> HIDE DEF g
    <3>3. ASSUME NEW c \in Codes \ {n}, Used(c), code[c].owner = a, g[c] = h
          PROVE  code'[c].sentAt + Cooldown <= clock /\ code'[c].status # "pending"
      <4>1. /\ code[c].sentAt + Cooldown <= clock
            /\ code[c].status = "pending" => c \in handler[h].seen
        BY <1>6, <3>1, <3>2, <3>3 DEF OwnSeen, Renewing
      <4>2. code[c].status # "pending" => code'[c].status # "pending"
        OBVIOUS
      <4> QED  BY <1>6, <3>3, <4>1, <4>2
    <3>4. IssuersApart(g)'
      <4> SUFFICES ASSUME NEW c \in Codes, NEW d \in Codes, Siblings(c, d)', g[c] = g[d]
                   PROVE  Apart(c, d)' /\ ~BothPending(c, d)'
        BY DEF IssuersApart
      <4>1. CASE c = n
        <5>1. d \in Codes \ {n} /\ Used(d) /\ code[d].owner = a /\ g[d] = h
          BY <3>2, <4>1 DEF Siblings
        <5>2. code'[d].sentAt + Cooldown <= clock /\ code'[d].status # "pending"
          BY <3>3, <5>1
        <5> QED  BY <4>1, <5>2 DEF Apart, BothPending
      <4>2. CASE d = n
        <5>1. c \in Codes \ {n} /\ Used(c) /\ code[c].owner = a /\ g[c] = h
          BY <3>2, <4>2 DEF Siblings
        <5>2. code'[c].sentAt + Cooldown <= clock /\ code'[c].status # "pending"
          BY <3>3, <5>1
        <5> QED  BY <4>2, <5>2 DEF Apart, BothPending
      <4>3. CASE c # n /\ d # n
        <5>1. Siblings(c, d) /\ Used(c) /\ Used(d) /\ f[c] = f[d]
          BY <3>2, <4>3 DEF Siblings
        <5>2. Apart(c, d) /\ ~BothPending(c, d)
          BY <3>1, <5>1 DEF IssuersApart
        <5> QED  BY <4>3, <5>1, <5>2 DEF Apart, BothPending
      <4> QED  BY <4>1, <4>2, <4>3
    <3>5. OwnSeen(g)'
      <4> SUFFICES ASSUME NEW c \in Codes, Used(c)', Renewing(g[c])',
                          handler'[g[c]].user = code'[c].owner
                   PROVE  /\ code'[c].sentAt + Cooldown <= clock'
                          /\ handler'[g[c]].pc = "issuing" /\ code'[c].status = "pending"
                               => c \in handler'[g[c]].seen
        BY DEF OwnSeen
      <4>1. g[c] \in Handlers /\ g[c] # h /\ handler'[g[c]] = handler[g[c]] /\ Renewing(g[c])
        BY <1>3, <3>2
      <4>2. c # n /\ g[c] = f[c] /\ Used(c)
        BY <3>2, <4>1
      <4> QED  BY <3>1, <4>1, <4>2 DEF OwnSeen
    <3> QED  BY <3>2, <3>4, <3>5 DEF ThreadsTakeTurns
  <2> QED  BY <1>4, <2>3, <2>4, <2>5, <2>6 DEF TurnsInv
<1> QED  BY <1>5, <1>6
-----------------------------------------------------------------------------
(* What each step of a thread makes of it: nothing that renews, or a thread  *)
(* that is prepared to.                                                      *)
LEMMA MovesPrepare ==
  ASSUME IInv, TurnsInv, NEW h \in Handlers,
         \/ \E e \in Emails : PostRegister(h, e)
         \/ SaveRequest(h) \/ GiveUp(h) \/ OpenIssue(h)
         \/ \E e \in Emails : ResendSignupCode(h, e)
  PROVE  /\ UNCHANGED <<clock, account, code, guesses>>
         /\ \A g \in Handlers : Renewing(g)' => Prepared(g)
<1>1. VerifyTypeOK /\ LastCodeStands /\ SentInThePast /\ CooldownRemembered
  BY CooldownFromLast DEF IInv, VerifyInv, VerifyTypeInv
<1>2. /\ clock \in Nat /\ Cooldown \in Nat
      /\ \A c \in Codes : code[c].sentAt \in Nat
      /\ \A b \in Accounts : account[b].joined \in Nat /\ issued[b].at \in Nat
      /\ handler \in [Handlers -> Handler] /\ handler[h] \in Handler
  BY <1>1, RowTypes
<1>3. UNCHANGED <<clock, account, code, guesses>>
  BY DEF PostRegister, StartRegistration, SaveRequest, GiveUp, OpenIssue, ResendSignupCode
<1>4. ASSUME NEW v, handler' = [handler EXCEPT ![h] = v],
             v.pc \notin {"resending", "issuing"} \/ Prepared(h)
      PROVE  \A g \in Handlers : Renewing(g)' => Prepared(g)
  <2> SUFFICES ASSUME NEW g \in Handlers, Renewing(g)', g # h PROVE Prepared(g)
    BY <1>2, <1>4 DEF Renewing
  <2>1. handler'[g] = handler[g]
    BY <1>2, <1>4
  <2> QED  BY <2>1 DEF Prepared, Renewing
<1>5. CASE \/ \E e \in Emails : PostRegister(h, e)
           \/ SaveRequest(h) \/ GiveUp(h)
  <2>1. CASE SaveRequest(h) \/ GiveUp(h)
    BY <1>3, <1>4, <2>1, IdleIsTyped DEF SaveRequest, GiveUp
  <2>2. ASSUME NEW e \in Emails, PostRegister(h, e)
        PROVE  \A g \in Handlers : Renewing(g)' => Prepared(g)
    <3>1. PICK pc \in {"registering", "requesting"} :
            handler' = [handler EXCEPT ![h] = [Idle EXCEPT !.pc = pc, !.email = e]]
      BY <2>2 DEF PostRegister, StartRegistration
    <3>2. [Idle EXCEPT !.pc = pc, !.email = e].pc = pc
      BY DEF Idle
    <3> QED  BY <1>4, <3>1, <3>2
  <2> QED  BY <1>3, <1>5, <2>1, <2>2
<1>6. CASE OpenIssue(h)
  <2> DEFINE w == handler[h]
             S == PendingSignupCodes(w.user)
             v == [w EXCEPT !.pc = "issuing", !.seen = S]
  <2>1. v.pc = "issuing" /\ v.user = w.user /\ v.seen = S
    <3> HIDE DEF S
    <3> QED  BY <1>2 DEF Handler
  <2>2. handler' = [handler EXCEPT ![h] = v] /\ w.pc = "resending"
    BY <1>2, <1>6 DEF OpenIssue
  <2>3. handler'[h] = v
    BY <1>2, <2>2
  <2> HIDE DEF v
  <2>4. Prepared(h)
    BY <2>1, <2>2, <2>3 DEF Prepared, Renewing
  <2> QED  BY <1>3, <1>4, <2>2, <2>4
\* The cooldown is over: it is computed from the account's last code.
<1>7. ASSUME NEW e \in Emails, ResendSignupCode(h, e)
      PROVE  \A g \in Handlers : Renewing(g)' => Prepared(g)
  <2> DEFINE a == Min(UsersOf(e))
             v == [Idle EXCEPT !.pc = "resending", !.user = a]
  <2>1. a \in Accounts
    BY <1>7, UsersAreNumbered DEF ResendSignupCode
  <2>2. /\ PendingVerification(a) /\ handler' = [handler EXCEPT ![h] = v]
        /\ KnownCodes(a) # {} => code[LatestOf(KnownCodes(a))].sentAt + Cooldown <= clock
    BY <1>7 DEF ResendSignupCode
  <2> HIDE DEF a
  <2>3. v.pc = "resending" /\ v.user = a
    BY DEF Idle
  <2>4. handler'[h] = v
    BY <1>2, <2>2
  <2>5. issued[a].at + Cooldown <= clock
    BY <1>1, <1>2, <2>1, <2>2 DEF CooldownRemembered
  <2>6. PICK l \in Codes : LastCodeOf(a, l)
    BY <1>1, <2>1, <2>2 DEF LastCodeStands
  <2>7. account[a].joined <= issued[a].at
    BY <2>6 DEF TurnsInv, SentAfterJoining, Used, LastCodeOf
  <2>8. \A c \in Codes : Used(c) /\ code[c].owner = a => code[c].sentAt <= issued[a].at
    BY <1>1, <2>1 DEF SentInThePast, Used
  <2>9. /\ account[a].joined + Cooldown <= clock /\ account[a].status # "none"
        /\ \A c \in Codes : Used(c) /\ code[c].owner = a => code[c].sentAt + Cooldown <= clock
    BY <1>2, <2>1, <2>2, <2>5, <2>7, <2>8 DEF PendingVerification
  <2> HIDE DEF v
  <2>10. Prepared(h)
    BY <2>1, <2>3, <2>4, <2>9 DEF Prepared
  <2> QED  BY <1>4, <2>2, <2>10
<1> QED  BY <1>3, <1>5, <1>6, <1>7

\* What the steps of the others do to accounts and codes, as TurnsKept asks it.
LEMMA RowsKeepTurns ==
  ASSUME IInv, TurnsInv, VerifyTypeOK',
         \/ \E e \in Emails : WrongCode(e) \/ RightCode(e)
         \/ CleanupCodes \/ CollectStaleUsers \/ DeleteStaleUsers
         \/ Tick \/ UNCHANGED verifyVars
  PROVE  TurnsInv'
<1>1. VerifyTypeOK /\ VerifyInv
  BY DEF IInv, VerifyInv, VerifyTypeInv
<1>2. /\ clock \in Nat /\ handler \in [Handlers -> Handler]
      /\ code \in [Codes -> Code] /\ account \in [Accounts -> Account]
  BY <1>1, RowTypes DEF VerifyTypeOK
<1>3. handler' = handler /\ clock <= clock'
  <2>1. handler' = handler /\ (clock' = clock \/ clock' = clock + 1)
    BY DEF WrongCode, RightCode, CleanupCodes, CollectStaleUsers, DeleteStaleUsers,
       Tick, verifyVars
  <2> QED  BY <1>2, <2>1
<1>4. \A h \in Handlers : Renewing(h)' => Prepared(h)
  BY <1>3 DEF Renewing, Prepared
<1>5. \A c \in Codes :
        /\ Used(c)' <=> Used(c)
        /\ Used(c) => code'[c].owner = code[c].owner /\ code'[c].sentAt = code[c].sentAt
        /\ code'[c].status = "pending" => code[c].status = "pending"
  <2> SUFFICES ASSUME NEW c \in Codes
               PROVE  /\ code'[c].status # "none" <=> code[c].status # "none"
                      /\ code'[c].owner = code[c].owner /\ code'[c].sentAt = code[c].sentAt
                      /\ code'[c].status = "pending" => code[c].status = "pending"
    BY DEF Used
  <2>1. code[c] \in Code
    BY <1>2
  <2>2. CASE \E s \in {"consumed", "deleted"} :
               /\ code'[c] = [code[c] EXCEPT !.status = s]
               /\ code[c].status # "none"
    BY <2>1, <2>2 DEF Code
  <2>3. CASE code'[c] = code[c]
    BY <2>3
  <2>4. ASSUME NEW e \in Emails, WrongCode(e)
        PROVE  /\ code'[c].status = code[c].status
               /\ code'[c].owner = code[c].owner /\ code'[c].sentAt = code[c].sentAt
    <3>1. PICK d : code' = [code EXCEPT ![d].attempts = @ + 1]
      BY <2>4 DEF WrongCode
    <3> QED  BY <1>2, <2>1, <3>1 DEF Code
  <2>5. ASSUME NEW e \in Emails, RightCode(e)
        PROVE  \/ code'[c] = code[c]
               \/ \E s \in {"consumed", "deleted"} :
                    /\ code'[c] = [code[c] EXCEPT !.status = s]
                    /\ code[c].status # "none"
    <3>1. PICK a : code' = [d \in Codes |->
                     IF d \in PendingSignupCodes(a)
                       THEN [code[d] EXCEPT !.status = "consumed"] ELSE code[d]]
      BY <2>5 DEF RightCode
    <3> QED  BY <3>1 DEF PendingSignupCodes
  <2>6. CASE CleanupCodes
    BY <2>2, <2>3, <2>6 DEF CleanupCodes
  <2>7. CASE DeleteStaleUsers
    BY <2>2, <2>3, <2>7 DEF DeleteStaleUsers
  <2>8. CASE CollectStaleUsers \/ Tick \/ UNCHANGED verifyVars
    BY <2>3, <2>8 DEF CollectStaleUsers, Tick, verifyVars
  <2> QED  BY <2>2, <2>3, <2>4, <2>5, <2>6, <2>7, <2>8
<1>6. \A a \in Accounts :
        /\ account'[a].joined = account[a].joined
        /\ account[a].status # "none" => account'[a].status # "none"
  <2> SUFFICES ASSUME NEW a \in Accounts
               PROVE  /\ account'[a].joined = account[a].joined
                      /\ account[a].status # "none" => account'[a].status # "none"
    OBVIOUS
  <2>1. account[a] \in Account
    BY <1>2
  <2>2. CASE \E s \in {"active", "deleted"} : account'[a] = [account[a] EXCEPT !.status = s]
    BY <2>1, <2>2 DEF Account
  <2>3. CASE account'[a] = account[a]
    BY <2>3
  <2>4. ASSUME NEW e \in Emails, RightCode(e)
        PROVE  \/ account'[a] = account[a]
               \/ \E s \in {"active", "deleted"} : account'[a] = [account[a] EXCEPT !.status = s]
    <3>1. PICK b : account' = [account EXCEPT ![b].status = "active"]
      BY <2>4 DEF RightCode
    <3> QED  BY <1>2, <3>1
  <2>5. CASE DeleteStaleUsers
    BY <2>2, <2>3, <2>5 DEF DeleteStaleUsers
  <2>6. ASSUME \/ \E e \in Emails : WrongCode(e)
               \/ CleanupCodes \/ CollectStaleUsers \/ Tick \/ UNCHANGED verifyVars
        PROVE  account'[a] = account[a]
    BY <2>6 DEF WrongCode, CleanupCodes, CollectStaleUsers, Tick, verifyVars
  <2> QED  BY <2>2, <2>3, <2>4, <2>5, <2>6
<1> QED  BY <1>3, <1>4, <1>5, <1>6, TurnsKept

LEMMA IssuesKeepTurns ==
  ASSUME IInv, TurnsInv, VerifyTypeOK', NEW h \in Handlers,
         CreateUser(h) \/ CommitIssue(h)
  PROVE  TurnsInv'
<1>1. VerifyTypeOK /\ HandlersRemember
  BY DEF IInv, VerifyInv, VerifyTypeInv
<1>2. PICK n \in FreeCodes : n = Min(FreeCodes)
  BY DrawnIdsAreFree DEF CreateUser, CommitIssue
<1>3. /\ UNCHANGED clock /\ handler' = [handler EXCEPT ![h] = Idle]
  BY DEF CreateUser, CommitIssue
<1>4. \A a : /\ NewCode(a).owner = a /\ NewCode(a).status = "pending"
             /\ NewCode(a).sentAt = clock
  BY DEF NewCode
<1>5. CASE CreateUser(h)
  <2>1. PICK a \in FreeAccounts : a = Min(FreeAccounts)
    BY <1>5, DrawnIdsAreFree DEF CreateUser
  <2>2. PICK row : row = [email |-> handler[h].email, status |-> "pending", joined |-> clock]
    OBVIOUS
  <2>3. /\ account' = [account EXCEPT ![a] = row]
        /\ code' = [code EXCEPT ![n] = NewCode(a)]
        /\ row.status = "pending" /\ row.joined = clock
        /\ a \in Accounts /\ account[a].status = "none"
    BY <1>2, <1>5, <2>1, <2>2 DEF CreateUser, FreeAccounts
  <2>4. /\ code'[n].owner = a /\ Used(n)' /\ code'[n].sentAt = clock
        /\ \A c \in Codes \ {n} : code'[c] = code[c]
    BY <1>1, <1>2, <1>4, <2>3 DEF VerifyTypeOK, Used, FreeCodes
  <2>5. /\ account'[a].status # "none" /\ account'[a].joined = clock
        /\ \A b \in Accounts \ {a} : account'[b] = account[b]
    BY <1>1, <2>3 DEF VerifyTypeOK
  <2>6. \A c \in Codes \ {n} :
          /\ Used(c)' <=> Used(c)
          /\ Used(c) => code'[c].owner = code[c].owner /\ code'[c].sentAt = code[c].sentAt
          /\ code'[c].status = "pending" => code[c].status = "pending"
    BY <2>4 DEF Used
  <2>7. a \in Accounts /\ account[a].status = "none" /\ account'[a].joined = clock
    BY <2>3, <2>5
  <2> QED  BY <1>2, <1>3, <2>4, <2>5, <2>6, <2>7, TurnsIssued
<1>6. CASE CommitIssue(h)
  <2>1. PICK a : a = handler[h].user
    OBVIOUS
  <2>2. /\ handler[h].pc = "issuing" /\ account[a].status # "none" /\ account' = account
        /\ a \in Accounts /\ handler[h].seen \subseteq Codes
    BY <1>1, <1>6, <2>1
    DEF CommitIssue, Live, HandlersRemember, Remembers, VerifyTypeOK, Handler
  <2>3. code' = [c \in Codes |->
           IF c = n THEN NewCode(a)
           ELSE IF c \in handler[h].seen /\ code[c].status = "pending"
             THEN [code[c] EXCEPT !.status = "consumed"]
           ELSE code[c]]
    BY <1>2, <1>6, <2>1 DEF CommitIssue
  <2>4. code'[n].owner = a /\ Used(n)' /\ code'[n].sentAt = clock
    BY <1>2, <1>4, <2>3 DEF Used, FreeCodes
  <2>5. \A c \in Codes \ {n} :
          /\ Used(c)' <=> Used(c)
          /\ Used(c) => code'[c].owner = code[c].owner /\ code'[c].sentAt = code[c].sentAt
          /\ code'[c].status = "pending" => code[c].status = "pending"
    BY <1>1, <2>3 DEF VerifyTypeOK, Code, Used
  <2>6. \A c \in handler[h].seen \ {n} : code'[c].status # "pending"
    BY <1>1, <2>2, <2>3 DEF VerifyTypeOK, Code
  <2> QED  BY <1>2, <1>3, <2>1, <2>2, <2>4, <2>5, <2>6, TurnsIssued
<1> QED  BY <1>5, <1>6

LEMMA StepKeepsTurns == IInv /\ TurnsInv /\ [Next]_vars => TurnsInv'
<1> SUFFICES ASSUME IInv, TurnsInv, [Next]_vars PROVE TurnsInv'
  OBVIOUS
<1>1. VerifyTypeOK /\ VerifyTypeOK'
  BY Step DEF IInv, VerifyInv, VerifyTypeInv
<1>2. ASSUME NEW h \in Handlers,
             \/ \E e \in Emails : PostRegister(h, e)
             \/ SaveRequest(h) \/ GiveUp(h) \/ OpenIssue(h)
             \/ \E e \in Emails : ResendSignupCode(h, e)
      PROVE  TurnsInv'
  <2>1. /\ UNCHANGED <<clock, account, code>>
        /\ \A g \in Handlers : Renewing(g)' => Prepared(g)
    BY <1>2, MovesPrepare
  <2>2. clock <= clock'
    BY <1>1, <2>1, RowTypes
  <2>3. \A c \in Codes : Used(c)' <=> Used(c)
    BY <2>1 DEF Used
  <2> QED  BY <1>1, <2>1, <2>2, <2>3, TurnsKept
<1>3. ASSUME NEW h \in Handlers, CreateUser(h) \/ CommitIssue(h) PROVE TurnsInv'
  BY <1>1, <1>3, IssuesKeepTurns
<1>4. ASSUME \/ \E e \in Emails : WrongCode(e) \/ RightCode(e)
             \/ CleanupCodes \/ CollectStaleUsers \/ DeleteStaleUsers
             \/ Tick \/ UNCHANGED verifyVars
      PROVE  TurnsInv'
  BY <1>1, <1>4, RowsKeepTurns
<1>5. UNCHANGED vars => UNCHANGED verifyVars
  BY DEF vars
<1>6. CASE Next
  BY <1>2, <1>3, <1>4, <1>6 DEF Next, SignUp, Confirm, Moderate, ResendEmailCode, VerifyEmail
<1> QED  BY <1>4, <1>5, <1>6
-----------------------------------------------------------------------------
(* Guesses.  A wrong code is one more try of the code it was compared with,  *)
(* and a code that is renewed, used or deleted keeps the tries it had.       *)
LEMMA TriesAreFinite ==
  ASSUME NEW a
  PROVE  IsFiniteSet(Tries(a)) /\ Cardinality(Tries(a)) \in Nat
<1>1. IsFiniteSet(Codes) /\ IsFiniteSet(1..MaxAttempts)
  BY IdsAreNaturals, BoundsAssumption, FS_Interval
<1>2. IsFiniteSet(Codes \X (1..MaxAttempts))
  BY <1>1, FS_Product
<1>3. Tries(a) \in SUBSET (Codes \X (1..MaxAttempts))
  BY DEF Tries
<1> QED  BY <1>2, <1>3, FS_Subset, FS_CardinalityType

LEMMA TriesKept ==
  ASSUME GuessesCounted, UNCHANGED guesses,
         \A c \in Codes :
           /\ Used(c) => /\ Used(c)' /\ code'[c].owner = code[c].owner
                         /\ code'[c].attempts = code[c].attempts
           /\ Used(c)' => Used(c) \/ code'[c].attempts = 0
  PROVE  GuessesCounted'
<1> SUFFICES ASSUME NEW a \in Accounts PROVE Tries(a)' = Tries(a)
  BY DEF GuessesCounted
<1>1. ASSUME NEW c \in Codes, NEW i \in 1..MaxAttempts
      PROVE  (Used(c)' /\ code'[c].owner = a /\ i <= code'[c].attempts)
               <=> (Used(c) /\ code[c].owner = a /\ i <= code[c].attempts)
  OBVIOUS
<1> QED  BY <1>1 DEF Tries

LEMMA WrongCodeCounts ==
  ASSUME IInv, GuessesCounted, NEW e \in Emails, WrongCode(e)
  PROVE  GuessesCounted'
<1>1. /\ code \in [Codes -> Code] /\ guesses \in [Accounts -> Nat]
      /\ MaxAttempts \in Nat
  BY BoundsAssumption DEF IInv, VerifyInv, VerifyTypeInv, VerifyTypeOK
<1>2. PICK c \in Codes :
        /\ code[c].status = "pending" /\ code[c].owner \in Accounts
        /\ code[c].attempts < MaxAttempts
        /\ code' = [code EXCEPT ![c].attempts = @ + 1]
        /\ guesses' = [guesses EXCEPT ![code[c].owner] = @ + 1]
  <2> DEFINE c == LatestOf(CodesAt(e))
  <2>1. /\ code[c].attempts < MaxAttempts
        /\ code' = [code EXCEPT ![c].attempts = @ + 1]
        /\ guesses' = [guesses EXCEPT ![code[c].owner] = @ + 1]
    BY DEF WrongCode, Usable
  <2>2. c \in Codes /\ code[c].status = "pending" /\ code[c].owner \in Accounts
    BY ChosenRow DEF WrongCode, IInv
  <2> HIDE DEF c
  <2> QED  BY <2>1, <2>2
<1>3. PICK a \in Accounts : a = code[c].owner
  BY <1>2
<1>4. PICK i \in 1..MaxAttempts : i = code[c].attempts + 1
  BY <1>1, <1>2 DEF Code
<1>5. /\ Used(c)' /\ Used(c) /\ code'[c].owner = a /\ code'[c].attempts = i
      /\ \A d \in Codes \ {c} : code'[d] = code[d]
  BY <1>1, <1>2, <1>3, <1>4 DEF Code, Used
<1>6. \A d \in Codes, j \in 1..MaxAttempts, b \in Accounts :
        (Used(d)' /\ code'[d].owner = b /\ j <= code'[d].attempts)
          <=> \/ Used(d) /\ code[d].owner = b /\ j <= code[d].attempts
              \/ d = c /\ j = i /\ b = a
  <2> TAKE d \in Codes, j \in 1..MaxAttempts, b \in Accounts
  <2>1. CASE d = c
    <3>1. code[c].attempts \in Nat /\ j \in Nat
      BY <1>1 DEF Code
    <3> QED  BY <1>3, <1>4, <1>5, <2>1, <3>1
  <2>2. CASE d # c
    BY <1>5, <2>2 DEF Used
  <2> QED  BY <2>1, <2>2
<1> SUFFICES ASSUME NEW b \in Accounts PROVE guesses'[b] = Cardinality(Tries(b)')
  BY DEF GuessesCounted
<1>7. guesses[b] = Cardinality(Tries(b))
  BY DEF GuessesCounted
<1>8. CASE b = a
  <2>1. Tries(b)' = Tries(b) \union {<<c, i>>} /\ <<c, i>> \notin Tries(b)
    <3>1. Tries(b)' = Tries(b) \union {<<c, i>>}
      BY <1>6, <1>8 DEF Tries
    <3>2. ~(i <= code[c].attempts)
      BY <1>1, <1>4 DEF Code
    <3> QED  BY <3>1, <3>2 DEF Tries
  <2>2. Cardinality(Tries(b)') = Cardinality(Tries(b)) + 1
    BY <2>1, TriesAreFinite, FS_AddElement
  <2> QED  BY <1>1, <1>2, <1>3, <1>7, <1>8, <2>2
<1>9. CASE b # a
  <2>1. Tries(b)' = Tries(b)
    BY <1>6, <1>9 DEF Tries
  <2> QED  BY <1>1, <1>2, <1>3, <1>7, <1>9, <2>1
<1> QED  BY <1>8, <1>9

LEMMA StepCountsGuesses == IInv /\ TurnsInv /\ GuessesCounted /\ [Next]_vars => GuessesCounted'
<1> SUFFICES ASSUME IInv, TurnsInv, GuessesCounted, [Next]_vars PROVE GuessesCounted'
  OBVIOUS
<1>1. code \in [Codes -> Code]
  BY DEF IInv, VerifyInv, VerifyTypeInv, VerifyTypeOK
<1>2. ASSUME UNCHANGED <<code, guesses>> PROVE GuessesCounted'
  BY <1>2 DEF GuessesCounted, Tries, Used
<1>3. ASSUME UNCHANGED guesses,
             \A c \in Codes :
               \/ code'[c] = code[c]
               \/ /\ Used(c)
                  /\ \E s \in {"consumed", "deleted"} :
                       code'[c] = [code[c] EXCEPT !.status = s]
               \/ ~Used(c) /\ code'[c].attempts = 0
      PROVE  GuessesCounted'
  <2>1. ASSUME NEW c \in Codes
        PROVE  /\ Used(c) => /\ Used(c)' /\ code'[c].owner = code[c].owner
                             /\ code'[c].attempts = code[c].attempts
               /\ Used(c)' => Used(c) \/ code'[c].attempts = 0
    <3>1. code[c] \in Code
      BY <1>1
    <3> QED  BY <1>3, <3>1 DEF Code, Used
  <2> QED  BY <1>3, <2>1, TriesKept
<1>4. ASSUME NEW h \in Handlers, CreateUser(h) \/ CommitIssue(h) PROVE GuessesCounted'
  <2>1. PICK n \in FreeCodes : n = Min(FreeCodes)
    BY <1>4, DrawnIdsAreFree DEF CreateUser, CommitIssue
  <2>2. n \in Codes /\ ~Used(n) /\ \A a : NewCode(a).attempts = 0
    BY DEF FreeCodes, NewCode, Used
  <2>3. ASSUME NEW c \in Codes
        PROVE  \/ code'[c] = code[c]
               \/ /\ Used(c)
                  /\ \E s \in {"consumed", "deleted"} :
                       code'[c] = [code[c] EXCEPT !.status = s]
               \/ ~Used(c) /\ code'[c].attempts = 0
    <3>1. CASE CreateUser(h)
      <4>1. PICK a : code' = [code EXCEPT ![n] = NewCode(a)]
        BY <2>1, <3>1 DEF CreateUser
      <4> QED  BY <1>1, <2>2, <4>1
    <3>2. CASE CommitIssue(h)
      <4>1. code' = [d \in Codes |->
              IF d = n THEN NewCode(handler[h].user)
              ELSE IF d \in handler[h].seen /\ code[d].status = "pending"
                THEN [code[d] EXCEPT !.status = "consumed"]
              ELSE code[d]]
        BY <2>1, <3>2 DEF CommitIssue
      <4> QED  BY <2>2, <4>1 DEF Used
    <3> QED  BY <1>4, <3>1, <3>2
  <2>4. UNCHANGED guesses
    BY <1>4 DEF CreateUser, CommitIssue
  <2> QED  BY <1>3, <2>3, <2>4
<1>5. ASSUME NEW e \in Emails, RightCode(e) PROVE GuessesCounted'
  <2>1. PICK a : code' = [d \in Codes |->
                   IF d \in PendingSignupCodes(a)
                     THEN [code[d] EXCEPT !.status = "consumed"] ELSE code[d]]
    BY <1>5 DEF RightCode
  <2>2. UNCHANGED guesses
    BY <1>5 DEF RightCode
  <2> QED  BY <1>3, <2>1, <2>2 DEF PendingSignupCodes, Used
<1>6. ASSUME CleanupCodes \/ DeleteStaleUsers PROVE GuessesCounted'
  <2>1. UNCHANGED guesses
    BY <1>6 DEF CleanupCodes, DeleteStaleUsers
  <2>2. ASSUME NEW c \in Codes
        PROVE  \/ code'[c] = code[c]
               \/ /\ Used(c)
                  /\ code'[c] = [code[c] EXCEPT !.status = "deleted"]
    BY <1>6 DEF CleanupCodes, DeleteStaleUsers, Used
  <2> QED  BY <1>3, <2>1, <2>2
<1>7. ASSUME CollectStaleUsers \/ Tick \/ UNCHANGED verifyVars PROVE GuessesCounted'
  BY <1>2, <1>7 DEF CollectStaleUsers, Tick, verifyVars
<1>8. ASSUME NEW h \in Handlers,
             \/ \E e \in Emails : PostRegister(h, e)
             \/ SaveRequest(h) \/ GiveUp(h) \/ OpenIssue(h)
             \/ \E e \in Emails : ResendSignupCode(h, e)
      PROVE  GuessesCounted'
  BY <1>2, <1>8, MovesPrepare
<1>9. ASSUME NEW e \in Emails, WrongCode(e) PROVE GuessesCounted'
  BY <1>9, WrongCodeCounts
<1>10. UNCHANGED vars => UNCHANGED verifyVars
  BY DEF vars
<1>11. CASE Next
  BY <1>4, <1>5, <1>6, <1>7, <1>8, <1>9, <1>11
  DEF Next, SignUp, Confirm, Moderate, ResendEmailCode, VerifyEmail
<1> QED  BY <1>7, <1>10, <1>11

\* However the threads, the clean-up and the moderators interleave, codes are
\* issued in turns and every guess is counted.
THEOREM LimitInvariant == Spec => []LimitInv
<1>1. LimitInv /\ [Next]_vars => LimitInv'
  BY Step, StepKeepsTurns, StepCountsGuesses DEF LimitInv
<1> QED  BY <1>1, LimitsStart, PTL DEF Spec

-----------------------------------------------------------------------------
\* Codes supersede each other: of the codes pending for an account each was made
\* by another thread, because a thread that renews has seen its own last one.
THEOREM PendingCodesAreBounded == Spec => []PendingCodesBounded
<1>1. LimitInv => PendingCodesBounded
  <2> SUFFICES ASSUME LimitInv, NEW a \in Accounts
               PROVE  Cardinality(PendingSignupCodes(a)) <= Cardinality(Handlers)
    BY DEF PendingCodesBounded
  <2> DEFINE P == PendingSignupCodes(a)
  <2>1. PICK f \in [Codes -> Handlers] : IssuersApart(f)
    BY DEF LimitInv, TurnsInv, ThreadsTakeTurns
  <2>2. P \in SUBSET Codes /\ \A c \in P : code[c].owner = a /\ code[c].status = "pending"
    BY DEF PendingSignupCodes
  <2>3. \A c, d \in P : c # d => f[c] # f[d]
    BY <2>1, <2>2 DEF IssuersApart, Siblings, BothPending, Used
  <2> DEFINE g == [c \in P |-> f[c]]
  <2> HIDE DEF P
  <2>4. g \in Injection(P, Handlers)
    BY <2>2, <2>3 DEF Injection, IsInjective
  <2> HIDE DEF g
  <2>5. Cardinality(P) <= Cardinality(Handlers)
    BY <2>4, HandlersAssumption, FS_Injection
  <2> QED  BY <2>5 DEF P
<1> QED  BY <1>1, LimitInvariant, PTL

\* The codes of an account: its first one, and one of each thread for each
\* cooldown that has passed since.
LEMMA CodesAreBounded ==
  ASSUME LimitInv, NEW a \in Accounts
  PROVE  LET S == {c \in Codes : Used(c) /\ code[c].owner = a}
         IN  IsFiniteSet(S) /\ Cardinality(S) <= CodesAllowed(a)
<1> DEFINE S == {c \in Codes : Used(c) /\ code[c].owner = a}
           joined == account[a].joined
           periods == (clock - joined) \div Cooldown
           Later == {c \in S : joined + Cooldown <= code[c].sentAt}
           Period(c) == (code[c].sentAt - joined) \div Cooldown
<1>1. VerifyTypeOK /\ SentInThePast
  BY DEF LimitInv, IInv, VerifyInv, VerifyTypeInv
<1>2. /\ clock \in Nat /\ Cooldown \in Nat \ {0} /\ joined \in Nat
      /\ \A c \in Codes : code[c].sentAt \in Nat
      /\ \A b \in Accounts : issued[b].at \in Nat
  BY <1>1, RowTypes
<1>3. \A c \in S : /\ c \in Codes /\ joined <= code[c].sentAt /\ code[c].sentAt <= clock
  <2> SUFFICES ASSUME NEW c \in S
               PROVE  joined <= code[c].sentAt /\ code[c].sentAt <= clock
    OBVIOUS
  <2>1. joined <= code[c].sentAt
    BY DEF LimitInv, TurnsInv, SentAfterJoining
  <2>2. code[c].sentAt <= issued[a].at /\ issued[a].at <= clock
    BY <1>1 DEF SentInThePast, Used
  <2> QED  BY <1>2, <2>1, <2>2
<1>4. IsFiniteSet(S)
  <2>1. S \in SUBSET Codes
    OBVIOUS
  <2> QED  BY <2>1, IdsAreNaturals, FS_Subset
<1>5. \A c, d \in S : c # d => c \in Later \/ d \in Later
  BY DEF LimitInv, TurnsInv, FirstAlone, Siblings
<1>6. PICK f \in [Codes -> Handlers] : IssuersApart(f)
  BY DEF LimitInv, TurnsInv, ThreadsTakeTurns
<1>7. \A c, d \in S : c # d /\ f[c] = f[d] => Apart(c, d)
  BY <1>6 DEF IssuersApart, Siblings
<1>8. clock - joined \in Nat /\ periods \in Nat
  <2>1. joined <= clock
    BY DEF LimitInv, TurnsInv, JoinedInThePast
  <2> QED  BY <1>2, <2>1, QuotientIsNatural
\* A later code has a period of its own among those of its thread.
<1>9. \A c \in Later : Period(c) \in 1..periods
  <2> SUFFICES ASSUME NEW c \in Later PROVE Period(c) \in 1..periods
    OBVIOUS
  <2> DEFINE age == code[c].sentAt - joined
  <2>1. /\ age \in Nat /\ Cooldown <= age /\ age <= clock - joined
    BY <1>2, <1>3
  <2>2. 0 \div Cooldown = 0
    BY <1>2
  <2>3. age \div Cooldown \in Nat /\ (0 \div Cooldown) + 1 <= age \div Cooldown
    <3> HIDE DEF age
    <3>1. 0 + Cooldown <= age
      BY <1>2, <2>1
    <3> QED  BY <1>2, <2>1, <3>1, QuotientIsNatural, QuotientGrows
  <2>4. age \div Cooldown <= periods
    <3> HIDE DEF age
    <3> QED  BY <1>2, <1>8, <2>1, QuotientGrows
  <2> QED  BY <1>8, <2>2, <2>3, <2>4
<1>10. \A c, d \in Later : c # d /\ f[c] = f[d] => Period(c) # Period(d)
  <2>1. ASSUME NEW c \in Later, NEW d \in Later, code[c].sentAt + Cooldown <= code[d].sentAt
        PROVE  Period(c) + 1 <= Period(d)
    <3> DEFINE x == code[c].sentAt - joined
               y == code[d].sentAt - joined
    <3>1. x \in Nat /\ y \in Nat /\ x + Cooldown <= y
      BY <1>2, <1>3, <2>1
    <3> HIDE DEF x, y
    <3>2. (x \div Cooldown) + 1 <= y \div Cooldown
      BY <1>2, <3>1, QuotientGrows
    <3> QED  BY <3>2 DEF x, y
  <2>2. \A c \in Later : Period(c) \in Nat
    BY <1>8, <1>9
  <2> HIDE DEF Period
  <2> SUFFICES ASSUME NEW c \in Later, NEW d \in Later, c # d, f[c] = f[d]
               PROVE  Period(c) # Period(d)
    OBVIOUS
  <2>3. Apart(c, d)
    BY <1>7
  <2> QED  BY <2>1, <2>2, <2>3 DEF Apart
<1> DEFINE Slots == Handlers \X (1..periods)
           slot == [c \in Later |-> <<f[c], Period(c)>>]
<1> HIDE DEF Period, periods
<1>11. /\ IsFiniteSet(Slots) /\ Cardinality(Slots) = Cardinality(Handlers) * periods
  <2>1. IsFiniteSet(1..periods) /\ Cardinality(1..periods) = periods
    BY <1>8, FS_Interval
  <2> QED  BY <2>1, HandlersAssumption, FS_Product
<1>12. slot \in Injection(Later, Slots)
  BY <1>9, <1>10 DEF Injection, IsInjective
<1>13. IsFiniteSet(Later) /\ Cardinality(Later) <= Cardinality(Handlers) * periods
  <2> HIDE DEF slot, Slots, Later
  <2> QED  BY <1>11, <1>12, FS_Injection
<1>14. /\ Cardinality(S) <= Cardinality(Later) + 1
       /\ Cardinality(S) \in Nat /\ Cardinality(Later) \in Nat
  <2>1. CASE S \subseteq Later
    <3>1. S = Later
      BY <2>1
    <3> HIDE DEF S, Later
    <3>2. Cardinality(S) = Cardinality(Later) /\ Cardinality(Later) \in Nat
      BY <1>13, <3>1, FS_CardinalityType
    <3> QED  BY <3>2
  <2>2. CASE ~(S \subseteq Later)
    <3>1. PICK c \in S : c \notin Later
      BY <2>2
    <3>2. S = Later \union {c}
      BY <1>5, <3>1
    <3> HIDE DEF S, Later
    <3>3. Cardinality(S) = Cardinality(Later) + 1
      BY <1>13, <3>1, <3>2, FS_AddElement
    <3> QED  BY <1>4, <1>13, <3>3, FS_CardinalityType
  <2> QED  BY <2>1, <2>2
<1>15. Cardinality(Handlers) * periods \in Nat
  BY <1>8, HandlersAssumption, FS_CardinalityType
<1>16. Cardinality(S) <= 1 + Cardinality(Handlers) * periods
  <2> HIDE DEF S, Later
  <2> QED  BY <1>13, <1>14, <1>15
<1> QED  BY <1>4, <1>16 DEF CodesAllowed, periods

\* Guesses are bounded: each counts on a code, MaxAttempts at most, and a code is
\* renewed once in a cooldown by each thread.
THEOREM GuessesAreBounded == Spec => []GuessesBounded
<1>1. LimitInv => GuessesBounded
  <2> SUFFICES ASSUME LimitInv, NEW a \in Accounts
               PROVE  guesses[a] <= MaxAttempts * CodesAllowed(a)
    BY DEF GuessesBounded
  <2> DEFINE S == {c \in Codes : Used(c) /\ code[c].owner = a}
  <2>1. IsFiniteSet(S) /\ Cardinality(S) <= CodesAllowed(a) /\ Cardinality(S) \in Nat
    BY CodesAreBounded, FS_CardinalityType
  <2>2. IsFiniteSet(1..MaxAttempts) /\ Cardinality(1..MaxAttempts) = MaxAttempts
        /\ MaxAttempts \in Nat
    BY BoundsAssumption, FS_Interval
  <2>3. Tries(a) \in SUBSET (S \X (1..MaxAttempts))
    BY DEF Tries
  <2> HIDE DEF S
  <2>4. /\ IsFiniteSet(S \X (1..MaxAttempts))
        /\ Cardinality(S \X (1..MaxAttempts)) = Cardinality(S) * MaxAttempts
    BY <2>1, <2>2, FS_Product
  <2>5. Cardinality(Tries(a)) <= Cardinality(S) * MaxAttempts
    BY <2>3, <2>4, FS_Subset
  <2>6. guesses[a] = Cardinality(Tries(a)) /\ Cardinality(Tries(a)) \in Nat
    BY TriesAreFinite DEF LimitInv, GuessesCounted
  <2>7. CodesAllowed(a) \in Int
    <3>1. /\ clock \in Nat /\ Cooldown \in Nat \ {0} /\ account[a].joined \in Nat
      BY RowTypes DEF LimitInv, IInv, VerifyInv, VerifyTypeInv
    <3>2. Cardinality(Handlers) \in Nat
      BY HandlersAssumption, FS_CardinalityType
    <3>3. (clock - account[a].joined) \div Cooldown \in Int
      BY <3>1
    <3> QED  BY <3>2, <3>3 DEF CodesAllowed
  <2>8. Cardinality(S) * MaxAttempts <= MaxAttempts * CodesAllowed(a)
    <3>1. \A x, y \in Int, m \in Nat : x <= y => x * m <= m * y
      OBVIOUS
    <3> HIDE DEF CodesAllowed
    <3> QED  BY <2>1, <2>2, <2>7, <3>1
  <2>9. MaxAttempts * CodesAllowed(a) \in Int /\ Cardinality(S) * MaxAttempts \in Int
    BY <2>1, <2>2, <2>7
  <2> QED  BY <2>5, <2>6, <2>8, <2>9
<1> QED  BY <1>1, LimitInvariant, PTL
================================================================================
