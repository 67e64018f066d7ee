------------------------------ MODULE Sessions ------------------------------
(***************************************************************************)
(* Sign-in sessions of one active tenant: rotation of refresh tokens,      *)
(* sign-in, sign-out, password recovery and the change of a member's role  *)
(* or status by an administrator.                                          *)
(*                                                                         *)
(* A request is one transaction under READ COMMITTED, and a phase is the   *)
(* statement it executes next.  What it has written stays in its record    *)
(* until it commits, the rows it has locked follow from its phase.  Expiry *)
(* is not modelled: a token that has expired is one nobody presents.       *)
(***************************************************************************)
EXTENDS Integers, FiniteSets

CONSTANTS
    Users,
    SessionIds,     \* rows of refresh_sessions (bound)
    TokenIds,       \* rows of account_recovery_tokens (bound)
    Requests,       \* transactions that may overlap
    Changes,        \* what an update_user may ask for (inputs)
    MaxEpoch,       \* revocations per user that begin one after another (bound)
    None

Roles == {"tenant_administrator", "tenant_developer"}

Statuses == {"active", "locked", "disabled"}

(* The role and the status of the payload; None leaves a field as it is.    *)
Change == [role : Roles \cup {None}, status : Statuses \cup {None}]

Unchanged == [role |-> None, status |-> None]

ASSUME SessionsOK ==
    /\ None \notin Roles \cup Statuses
    /\ Changes \subseteq Change \ {Unchanged}
    /\ None \notin Users \cup SessionIds \cup TokenIds
    /\ IsFiniteSet(TokenIds) /\ IsFiniteSet(Users)
    /\ MaxEpoch \in Nat

VARIABLES
    account,        \* [Users -> row of tenant_users]
    session,        \* [SessionIds -> row of refresh_sessions and its access token]
    token,          \* [TokenIds -> row of account_recovery_tokens]
    request         \* [Requests -> state of a transaction]

vars == <<account, session, token, request>>

-----------------------------------------------------------------------------
Account == [role : Roles, status : Statuses, auth_epoch : Nat,
            password : Nat]      \* how often it has been recovered

(* role and av are the claims of the access token issued with the session.  *)
Session == [state  : {"none", "open", "revoked"},
            user   : Users \cup {None},
            parent : SessionIds \cup {None},       \* rotated_from_id
            role   : Roles,
            av     : Nat]

Token == [state : {"none", "open", "used", "revoked"}, user : Users \cup {None}]

Phases == {"idle",
           "consuming", "issuing", "touching", "issued",    \* a new session
           "reissuing",                                     \* a recovery token
           "redeeming", "resetting", "discarding",          \* recover_password
           "queueing", "selecting", "counting",             \* update_user
           "ending", "scanning", "scanned"}                 \* a revocation

Request == [phase    : Phases,
            user     : Users \cup {None},
            session  : SessionIds \cup {None},     \* the one it rotates
            token    : TokenIds \cup {None},       \* the one it redeems
            change   : Change,                     \* of an update_user
            role     : Roles,                      \* claims of the new access token
            av       : Nat,
            sessions : SUBSET SessionIds,          \* revoked by it
            tokens   : SUBSET TokenIds]            \* revoked by it

Idle == [phase |-> "idle", user |-> None,
         session |-> None, token |-> None, change |-> Unchanged,
         role |-> "tenant_developer", av |-> 0, sessions |-> {}, tokens |-> {}]

Children(s) == {q \in SessionIds : session[q].parent = s}

OpenSessions(u) == {s \in SessionIds : session[s].state = "open" /\ session[s].user = u}

OpenTokens(u) == {t \in TokenIds : token[t].state = "open" /\ token[t].user = u}

Administrators ==
    {u \in Users : account[u].status = "active" /\ account[u].role = "tenant_administrator"}

(* _bearer_principal accepts the access token issued with s.                *)
Accepted(s) ==
    LET owner == account[session[s].user] IN
    /\ session[s].state # "none"
    /\ owner.status = "active"
    /\ owner.role = session[s].role
    /\ owner.auth_epoch = session[s].av

SignedIn(u) == \E s \in SessionIds : session[s].user = u /\ Accepted(s)

-----------------------------------------------------------------------------
(* Locks.                                                                   *)

(* A rotation keeps the row it consumed, a revocation the rows it scanned.  *)
HoldsSession(r, s) ==
    \/ request[r].session = s /\ request[r].phase \in {"issuing", "touching", "issued"}
    \/ s \in request[r].sessions

HoldsUser(r, u) ==
    /\ request[r].user = u
    /\ request[r].phase \in {"issued", "discarding", "counting", "scanning", "scanned"}

HoldsToken(r, t) ==
    \/ request[r].token = t /\ request[r].phase # "redeeming"
    \/ t \in request[r].tokens

(* pg_advisory_xact_lock(hashtext('tenant_members:' || tenant)).            *)
HoldsMembers(r) ==
    request[r].change # Unchanged /\ request[r].phase # "queueing"

SessionFree(r, s) == \A q \in Requests \ {r} : ~HoldsSession(q, s)
UserFree(r, u) == \A q \in Requests \ {r} : ~HoldsUser(q, u)
TokenFree(r, t) == \A q \in Requests \ {r} : ~HoldsToken(q, t)

(* Bounds how many revocations of a user begin.                             *)
MayRevoke(u) == account[u].auth_epoch < MaxEpoch

Begin(r, fields) ==
    /\ request[r].phase = "idle"
    /\ request' = [request EXCEPT ![r] = fields]
    /\ UNCHANGED <<account, session, token>>

Goto(r, phase) == request' = [request EXCEPT ![r].phase = phase]

Done(r) == request' = [request EXCEPT ![r] = Idle]

-----------------------------------------------------------------------------
(* A new session: refresh and login, then _issue_session.                   *)

(* refresh reads the row, its owner and whether it was rotated, unlocked.   *)
Refresh(r, s) ==
    LET u == session[s].user
        ending == [Idle EXCEPT !.phase = "ending", !.user = u]
        rotation == [Idle EXCEPT !.phase = "consuming", !.user = u, !.session = s,
                                 !.role = account[u].role]
    IN \/ /\ session[s].state = "revoked"
          /\ Children(s) # {}
          /\ MayRevoke(u)
          /\ Begin(r, ending)
       \/ /\ session[s].state = "open"
          /\ account[u].status = "active"
          /\ Begin(r, rotation)

(* UPDATE ... WHERE revoked_at IS NULL.  A row another request has revoked  *)
(* meanwhile is taken for a token used twice: _revoke_family.               *)
ConsumeUnguarded(r) ==
    /\ request[r].phase = "consuming"
    /\ SessionFree(r, request[r].session)
    /\ Goto(r, "issuing")
    /\ UNCHANGED <<account, session, token>>

Consume(r) ==
    LET s == request[r].session IN
    /\ request[r].phase = "consuming"
    /\ SessionFree(r, s)
    /\ \/ session[s].state = "open" /\ Goto(r, "issuing")
       \/ /\ session[s].state # "open"
          /\ request' = [request EXCEPT ![r].phase = "ending", ![r].session = None]
    /\ UNCHANGED <<account, session, token>>

(* login has verified the password of an active user.                       *)
SignIn(r, u) ==
    /\ account[u].status = "active"
    /\ Begin(r, [Idle EXCEPT !.phase = "issuing", !.user = u, !.role = account[u].role])

ReadEpoch(r) ==
    /\ request[r].phase = "issuing"
    /\ request' = [request EXCEPT ![r].phase = "touching",
                                  ![r].av = account[request[r].user].auth_epoch]
    /\ UNCHANGED <<account, session, token>>

(* UPDATE tenant_users SET last_authenticated_at: what matters is its lock. *)
TouchUnlocked(r) ==
    /\ request[r].phase = "touching"
    /\ Goto(r, "issued")
    /\ UNCHANGED <<account, session, token>>

Touch(r) ==
    /\ request[r].phase = "touching"
    /\ UserFree(r, request[r].user)
    /\ Goto(r, "issued")
    /\ UNCHANGED <<account, session, token>>

CommitIssue(r, s) ==
    LET new == [state |-> "open", user |-> request[r].user, parent |-> request[r].session,
                role |-> request[r].role, av |-> request[r].av]
    IN /\ request[r].phase = "issued"
       /\ session[s].state = "none"
       /\ session' = [q \in SessionIds |->
              IF q = s THEN new
              ELSE IF q = request[r].session THEN [session[q] EXCEPT !.state = "revoked"]
              ELSE session[q]]
       /\ Done(r)
       /\ UNCHANGED <<account, token>>

-----------------------------------------------------------------------------
(* A revocation: logout, a reused refresh token, and the end of a recovery  *)
(* and of a member's change.                                                *)

Logout(r, u) ==
    /\ SignedIn(u)
    /\ MayRevoke(u)
    /\ Begin(r, [Idle EXCEPT !.phase = "ending", !.user = u])

(* UPDATE tenant_users SET auth_epoch = auth_epoch + 1.                     *)
LockUser(r) ==
    /\ request[r].phase = "ending"
    /\ UserFree(r, request[r].user)
    /\ Goto(r, "scanning")
    /\ UNCHANGED <<account, session, token>>

(* UPDATE refresh_sessions SET revoked_at ... WHERE revoked_at IS NULL.     *)
Scan(r) ==
    LET open == OpenSessions(request[r].user) IN
    /\ request[r].phase = "scanning"
    /\ \A s \in open : SessionFree(r, s)
    /\ request' = [request EXCEPT ![r].phase = "scanned", ![r].sessions = open]
    /\ UNCHANGED <<account, session, token>>

(* The row with what a change asks for.                                     *)
Changed(a, change) ==
    [a EXCEPT !.role = IF change.role = None THEN a.role ELSE change.role,
              !.status = IF change.status = None THEN a.status ELSE change.status]

(* What the transaction leaves of the user's row; without the epoch of a    *)
(* sign-out or a member's change, as a slip of the code would have it.      *)
EpochForgotten(r) ==
    LET a == Changed(account[request[r].user], request[r].change) IN
    IF request[r].token = None THEN a
    ELSE [a EXCEPT !.auth_epoch = a.auth_epoch + 1, !.password = a.password + 1]

Written(r) ==
    LET a == Changed(account[request[r].user], request[r].change) IN
    [a EXCEPT !.auth_epoch = a.auth_epoch + 1,
              !.password = IF request[r].token = None THEN a.password ELSE a.password + 1]

CommitRevocation(r) ==
    /\ request[r].phase = "scanned"
    /\ account' = [account EXCEPT ![request[r].user] = Written(r)]
    /\ session' = [s \in SessionIds |->
           IF s \in request[r].sessions THEN [session[s] EXCEPT !.state = "revoked"]
           ELSE session[s]]
    /\ token' = [t \in TokenIds |->
           IF t = request[r].token THEN [token[t] EXCEPT !.state = "used"]
           ELSE IF t \in request[r].tokens THEN [token[t] EXCEPT !.state = "revoked"]
           ELSE token[t]]
    /\ Done(r)

-----------------------------------------------------------------------------
(* Recovery: issue_recovery_token and recover_password.                     *)

(* The open tokens of an active user are revoked, its row is not locked.    *)
Reissue(r, u) ==
    /\ account[u].status = "active"
    /\ \A t \in OpenTokens(u) : TokenFree(r, t)
    /\ Begin(r, [Idle EXCEPT !.phase = "reissuing", !.user = u, !.tokens = OpenTokens(u)])

CommitReissue(r, new) ==
    /\ request[r].phase = "reissuing"
    /\ token[new].state = "none"
    /\ token' = [t \in TokenIds |->
           IF t = new THEN [state |-> "open", user |-> request[r].user]
           ELSE IF t \in request[r].tokens THEN [token[t] EXCEPT !.state = "revoked"]
           ELSE token[t]]
    /\ Done(r)
    /\ UNCHANGED <<account, session>>

Recover(r, t) ==
    /\ token[t].state = "open"
    /\ account[token[t].user].status = "active"
    /\ MayRevoke(token[t].user)
    /\ Begin(r, [Idle EXCEPT !.phase = "redeeming", !.user = token[t].user, !.token = t])

(* UPDATE ... WHERE used_at IS NULL AND revoked_at IS NULL.                 *)
RedeemUnguarded(r) ==
    /\ request[r].phase = "redeeming"
    /\ TokenFree(r, request[r].token)
    /\ Goto(r, "resetting")
    /\ UNCHANGED <<account, session, token>>

Redeem(r) ==
    LET t == request[r].token IN
    /\ request[r].phase = "redeeming"
    /\ TokenFree(r, t)
    /\ \/ token[t].state = "open" /\ Goto(r, "resetting")
       \/ token[t].state # "open" /\ Done(r)
    /\ UNCHANGED <<account, session, token>>

(* UPDATE tenant_users SET credential_digest ... WHERE status = 'active'.   *)
Reset(r) ==
    LET u == request[r].user IN
    /\ request[r].phase = "resetting"
    /\ UserFree(r, u)
    /\ \/ account[u].status = "active" /\ Goto(r, "discarding")
       \/ account[u].status # "active" /\ Done(r)
    /\ UNCHANGED <<account, session, token>>

(* The user's other open recovery tokens are revoked.                       *)
Discard(r) ==
    LET others == OpenTokens(request[r].user) \ {request[r].token} IN
    /\ request[r].phase = "discarding"
    /\ \A t \in others : TokenFree(r, t)
    /\ request' = [request EXCEPT ![r].phase = "scanning", ![r].tokens = others]
    /\ UNCHANGED <<account, session, token>>

-----------------------------------------------------------------------------
(* update_user: an administrator changes another member.                    *)

UpdateUser(r, administrator, u, change) ==
    /\ administrator # u
    /\ administrator \in Administrators
    /\ SignedIn(administrator)
    /\ MayRevoke(u)
    /\ Begin(r, [Idle EXCEPT !.phase = "queueing", !.user = u, !.change = change])

TakeMembers(r) ==
    /\ request[r].phase = "queueing"
    /\ \A q \in Requests : ~HoldsMembers(q)
    /\ Goto(r, "selecting")
    /\ UNCHANGED <<account, session, token>>

(* losing_admin; only a changed role would be a slip of the code.           *)
LosesRoleOnly(r) ==
    /\ request[r].user \in Administrators
    /\ request[r].change.role = "tenant_developer"

LosesAdministrator(r) ==
    /\ request[r].user \in Administrators
    /\ \/ request[r].change.role = "tenant_developer"
       \/ request[r].change.status \in {"locked", "disabled"}

(* SELECT ... FOR UPDATE of the member; a disabled account stays disabled   *)
(* and a request that changes nothing commits nothing.                      *)
Select(r) ==
    LET a == account[request[r].user]
        refused == \/ a.status = "disabled" /\ request[r].change.status # "disabled"
                   \/ Changed(a, request[r].change) = a
    IN /\ request[r].phase = "selecting"
       /\ UserFree(r, request[r].user)
       /\ \/ refused /\ Done(r)
          \/ ~refused /\ LosesAdministrator(r) /\ Goto(r, "counting")
          \/ ~refused /\ ~LosesAdministrator(r) /\ Goto(r, "scanning")
       /\ UNCHANGED <<account, session, token>>

(* Every active administrator's row is locked; the advisory lock already    *)
(* keeps other changes of members out.                                      *)
Count(r) ==
    /\ request[r].phase = "counting"
    /\ \A u \in Administrators : UserFree(r, u)
    /\ \/ Cardinality(Administrators) > 1 /\ Goto(r, "scanning")
       \/ Cardinality(Administrators) <= 1 /\ Done(r)
    /\ UNCHANGED <<account, session, token>>

-----------------------------------------------------------------------------
(* The database aborts a transaction: the victim of a deadlock, a statement *)
(* timeout, a lost connection, a process that dies.                         *)
Abort(r) ==
    /\ request[r].phase # "idle"
    /\ Done(r)
    /\ UNCHANGED <<account, session, token>>

Init ==
    /\ account \in [Users -> {[role |-> role, status |-> "active", auth_epoch |-> 0,
                               password |-> 0] : role \in Roles}]
    /\ Administrators # {}
    /\ session = [s \in SessionIds |->
           [state |-> "none", user |-> None, parent |-> None,
            role |-> "tenant_developer", av |-> 0]]
    /\ token = [t \in TokenIds |-> [state |-> "none", user |-> None]]
    /\ request = [r \in Requests |-> Idle]

Issuing(r) ==
    \/ \E s \in SessionIds : Refresh(r, s) \/ CommitIssue(r, s)
    \/ \E u \in Users : SignIn(r, u)
    \/ Consume(r) \/ ReadEpoch(r) \/ Touch(r)

Revoking(r) ==
    \/ \E u \in Users : Logout(r, u)
    \/ LockUser(r) \/ Scan(r) \/ CommitRevocation(r)

Recovering(r) ==
    \/ \E u \in Users : Reissue(r, u)
    \/ \E t \in TokenIds : CommitReissue(r, t) \/ Recover(r, t)
    \/ Redeem(r) \/ Reset(r) \/ Discard(r)

Managing(r) ==
    \/ \E a, u \in Users, change \in Changes : UpdateUser(r, a, u, change)
    \/ TakeMembers(r) \/ Select(r) \/ Count(r)

Step(r) == Issuing(r) \/ Revoking(r) \/ Recovering(r) \/ Managing(r) \/ Abort(r)

Next == \E r \in Requests : Step(r)

Spec == Init /\ [][Next]_vars

-----------------------------------------------------------------------------
TypeOK ==
    /\ account \in [Users -> Account]
    /\ session \in [SessionIds -> Session]
    /\ token \in [TokenIds -> Token]
    /\ request \in [Requests -> Request]

(* Each refresh token is exchanged at most once, however many requests      *)
(* present it at the same time, and never leaves the exchanged one usable:  *)
(* a sign-in has one live session (refresh, service.py:119).                *)
RotatedOnce ==
    \A s \in SessionIds : Children(s) # {} =>
        session[s].state = "revoked" /\ Cardinality(Children(s)) = 1

(* An access token that is still accepted belongs to a sign-in that has not *)
(* been ended: its session is open, or was exchanged for one whose access   *)
(* token is accepted too.  The auth epoch and the revoked sessions are two  *)
(* records of one fact (_revoke_family, logout, recover_password and        *)
(* update_user write both, _bearer_principal reads only the first).         *)
AcceptedIsCurrent ==
    \A s \in SessionIds :
        Accepted(s) => session[s].state = "open" \/ \E q \in Children(s) : Accepted(q)

(* A tenant keeps an active administrator, also when administrators change  *)
(* each other at the same time (update_user, users.py:159-187).             *)
HasAdministrator == Administrators # {}

(* A password changes once for every recovery token that was used, so a     *)
(* token presented twice works once (recover_password, service.py:340-351). *)
RecoveredOncePerToken ==
    \A u \in Users :
        account[u].password = Cardinality({t \in TokenIds : token[t].state = "used" /\ token[t].user = u})

(* When a revocation takes effect no session of the user is left open, not  *)
(* even one a concurrent sign-in or rotation was about to add: the order    *)
(* rests on the row lock that writing last_authenticated_at takes.          *)
RevocationIsComplete ==
    [][\A u \in Users : account'[u].auth_epoch # account[u].auth_epoch =>
           \A s \in SessionIds : session'[s].user = u => session'[s].state # "open"]_vars
=============================================================================
