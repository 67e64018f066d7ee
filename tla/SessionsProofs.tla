--------------------------- MODULE SessionsProofs ---------------------------
(***************************************************************************)
(* The properties of Sessions, for any number of users, sessions, tokens   *)
(* and overlapping requests, and below them those of Console, the tab that *)
(* holds such tokens, for any number of calls and token pairs.             *)
(***************************************************************************)
EXTENDS Sessions, Console, FiniteSetTheorems, TLAPS

(* What a request carries, by its phase.                                    *)
Shaped(x) ==
    /\ x.phase # "idle" => x.user \in Users
    /\ x.session # None => x.phase \in {"consuming", "issuing", "touching", "issued"}
    /\ x.phase = "consuming" => x.session # None
    /\ x.sessions # {} => x.phase = "scanned"
    /\ x.tokens # {} => x.phase \in {"reissuing", "scanning", "scanned"}
    /\ x.token # None => x.phase \in {"redeeming", "resetting", "discarding", "scanning", "scanned"}
    /\ x.phase \in {"redeeming", "resetting", "discarding"} => x.token # None
    /\ x.phase \in {"ending", "consuming", "issuing", "touching", "issued",
                    "redeeming", "resetting", "discarding"} => x.change = Unchanged

AllShaped == \A r \in Requests : Shaped(request[r])

(* A row has one holder, and so has the members' lock.                      *)
LockInv ==
    \A r, q \in Requests :
        /\ \A s \in SessionIds : HoldsSession(r, s) /\ HoldsSession(q, s) => r = q
        /\ \A u \in Users : HoldsUser(r, u) /\ HoldsUser(q, u) => r = q
        /\ \A t \in TokenIds : HoldsToken(r, t) /\ HoldsToken(q, t) => r = q
        /\ HoldsMembers(r) /\ HoldsMembers(q) => r = q

(* A rotation: the session it consumes is its user's and, once its row is   *)
(* locked, open; while it is open, nobody has revoked the user's sessions,  *)
(* so that role and epoch are what the rotation read.                       *)
RotationHeld(r) ==
    LET x == request[r]
        s == session[x.session]
    IN x.session # None =>
         /\ s.state # "none" /\ s.user = x.user
         /\ x.phase # "consuming" => s.state = "open"
         /\ s.state = "open" => x.role = account[x.user].role
         /\ x.phase \in {"touching", "issued"} => x.av = account[x.user].auth_epoch

EpochHeld(r) ==
    request[r].phase \in {"touching", "issued"} =>
        request[r].av <= account[request[r].user].auth_epoch

(* What a revocation has locked is all there is to revoke.                  *)
ScanHeld(r) ==
    request[r].phase = "scanned" => request[r].sessions = OpenSessions(request[r].user)

TokenHeld(r) ==
    LET x == request[r] IN
    /\ x.token # None =>
         /\ token[x.token].state # "none" /\ token[x.token].user = x.user
         /\ x.phase # "redeeming" => token[x.token].state = "open"
    /\ \A t \in x.tokens : token[t].state = "open"

(* Whoever is about to take an administrator away has seen another one.     *)
CountHeld(r) ==
    request[r].phase \in {"scanning", "scanned"} /\ LosesAdministrator(r) =>
        \E v \in Administrators : v # request[r].user

Held == \A r \in Requests :
            RotationHeld(r) /\ EpochHeld(r) /\ ScanHeld(r) /\ TokenHeld(r) /\ CountHeld(r)

RowsInv ==
    /\ \A s \in SessionIds :
         /\ session[s].state = "none" => session[s].parent = None
         /\ session[s].state # "none" =>
              session[s].user \in Users /\ session[s].av <= account[session[s].user].auth_epoch
         /\ session[s].parent # None => session[session[s].parent].user = session[s].user
    /\ \A t \in TokenIds : token[t].state # "none" => token[t].user \in Users

(* A session has one successor, and is revoked when it has one.             *)
Families ==
    \A s, q \in SessionIds : session[q].parent = s =>
        /\ session[s].state = "revoked"
        /\ \A p \in SessionIds : session[p].parent = s => p = q

-----------------------------------------------------------------------------
(* What a step does to the request that takes it                            *)

Others(r) == \A q \in Requests \ {r} : request'[q] = request[q]

DataSame == UNCHANGED <<account, session, token>>

(* Everything but the phase is kept.                                        *)
Kept(r) ==
    /\ request'[r].user = request[r].user
    /\ request'[r].session = request[r].session
    /\ request'[r].token = request[r].token
    /\ request'[r].change = request[r].change
    /\ request'[r].role = request[r].role
    /\ request'[r].av = request[r].av
    /\ request'[r].sessions = request[r].sessions
    /\ request'[r].tokens = request[r].tokens

(* A transaction begins.                                                    *)
Fresh(r) ==
    /\ request[r].phase = "idle"
    /\ request'[r].sessions = {}
    /\ request'[r].user \in Users
    /\ \/ /\ request'[r].phase \in {"ending", "issuing", "queueing"}
          /\ request'[r].session = None /\ request'[r].token = None /\ request'[r].tokens = {}
          /\ request'[r].phase # "queueing" => request'[r].change = Unchanged
       \/ /\ request'[r].phase = "consuming"
          /\ request'[r].token = None /\ request'[r].tokens = {} /\ request'[r].change = Unchanged
          /\ \E s \in SessionIds :
               /\ session[s].state = "open" /\ session[s].user = request'[r].user
               /\ request'[r].session = s
               /\ request'[r].role = account[request'[r].user].role
       \/ /\ request'[r].phase = "reissuing"
          /\ request'[r].session = None /\ request'[r].token = None /\ request'[r].change = Unchanged
          /\ request'[r].tokens = OpenTokens(request'[r].user)
          /\ \A t \in request'[r].tokens : TokenFree(r, t)
       \/ /\ request'[r].phase = "redeeming"
          /\ request'[r].session = None /\ request'[r].tokens = {} /\ request'[r].change = Unchanged
          /\ \E t \in TokenIds :
               /\ token[t].state = "open" /\ token[t].user = request'[r].user
               /\ request'[r].token = t

From(r, old, new) == request[r].phase = old /\ request'[r].phase = new

(* It takes its next lock, or reads what it works with.                     *)
Proceeds(r) ==
    \/ /\ From(r, "consuming", "issuing") /\ Kept(r)
       /\ SessionFree(r, request[r].session) /\ session[request[r].session].state = "open"
    \/ /\ From(r, "consuming", "ending")
       /\ request'[r].session = None
       /\ request'[r].user = request[r].user /\ request'[r].token = request[r].token
       /\ request'[r].change = request[r].change
       /\ request'[r].sessions = request[r].sessions /\ request'[r].tokens = request[r].tokens
    \/ /\ From(r, "issuing", "touching")
       /\ request'[r].av = account[request[r].user].auth_epoch
       /\ request'[r].user = request[r].user /\ request'[r].token = request[r].token
       /\ request'[r].session = request[r].session /\ request'[r].role = request[r].role
       /\ request'[r].change = request[r].change
       /\ request'[r].sessions = request[r].sessions /\ request'[r].tokens = request[r].tokens
    \/ From(r, "touching", "issued") /\ Kept(r) /\ UserFree(r, request[r].user)
    \/ From(r, "ending", "scanning") /\ Kept(r) /\ UserFree(r, request[r].user)
    \/ /\ From(r, "scanning", "scanned")
       /\ request'[r].sessions = OpenSessions(request[r].user)
       /\ \A s \in OpenSessions(request[r].user) : SessionFree(r, s)
       /\ request'[r].user = request[r].user /\ request'[r].token = request[r].token
       /\ request'[r].session = request[r].session
       /\ request'[r].change = request[r].change /\ request'[r].tokens = request[r].tokens
    \/ /\ From(r, "redeeming", "resetting") /\ Kept(r)
       /\ TokenFree(r, request[r].token) /\ token[request[r].token].state = "open"
    \/ From(r, "resetting", "discarding") /\ Kept(r) /\ UserFree(r, request[r].user)
    \/ /\ From(r, "discarding", "scanning")
       /\ request'[r].tokens = OpenTokens(request[r].user) \ {request[r].token}
       /\ \A t \in request'[r].tokens : TokenFree(r, t)
       /\ request'[r].user = request[r].user /\ request'[r].token = request[r].token
       /\ request'[r].session = request[r].session
       /\ request'[r].change = request[r].change /\ request'[r].sessions = request[r].sessions
    \/ /\ From(r, "queueing", "selecting") /\ Kept(r)
       /\ \A q \in Requests : ~HoldsMembers(q)
    \/ From(r, "selecting", "counting") /\ Kept(r) /\ UserFree(r, request[r].user)
    \/ /\ From(r, "selecting", "scanning") /\ Kept(r) /\ UserFree(r, request[r].user)
       /\ ~LosesAdministrator(r)
    \/ From(r, "counting", "scanning") /\ Kept(r) /\ Cardinality(Administrators) > 1

Moves(r) ==
    \/ request'[r] = Idle
    \/ DataSame /\ Fresh(r)
    \/ DataSame /\ Proceeds(r)

Typed(r) == request' \in [Requests -> Request] /\ Others(r) /\ Moves(r)

LEMMA RequestWritten ==
    ASSUME TypeOK, NEW r \in Requests, NEW y \in Request, request' = [request EXCEPT ![r] = y]
    PROVE  request' \in [Requests -> Request] /\ Others(r) /\ request'[r] = y
  BY DEF TypeOK, Others

LEMMA IdleType ==
    ASSUME SessionsOK
    PROVE  /\ Idle \in Request
           /\ Idle.phase = "idle" /\ Idle.user = None /\ Idle.session = None /\ Idle.token = None
           /\ Idle.change = Unchanged /\ Idle.sessions = {} /\ Idle.tokens = {}
  <1>1. Unchanged \in Change
    BY DEF Unchanged, Change
  <1> QED
    BY <1>1 DEF Idle, Request, Phases, Roles

LEMMA DoneType ==
    ASSUME SessionsOK, TypeOK, NEW r \in Requests, Done(r)
    PROVE  Typed(r)
  <1>1. request' = [request EXCEPT ![r] = Idle] /\ Idle \in Request
    BY IdleType DEF Done
  <1> HIDE DEF Idle
  <1> QED
    BY <1>1, RequestWritten DEF Typed, Moves

LEMMA GotoType ==
    ASSUME TypeOK, NEW r \in Requests, NEW phase \in Phases, Goto(r, phase)
    PROVE  /\ request' \in [Requests -> Request] /\ Others(r) /\ Kept(r)
           /\ request'[r].phase = phase
  <1> DEFINE y == [request[r] EXCEPT !.phase = phase]
  <1>1. request[r] \in Request
    BY DEF TypeOK
  <1>2. /\ y \in Request /\ y.phase = phase
        /\ y.user = request[r].user /\ y.session = request[r].session /\ y.token = request[r].token
        /\ y.change = request[r].change /\ y.role = request[r].role /\ y.av = request[r].av
        /\ y.sessions = request[r].sessions /\ y.tokens = request[r].tokens
    BY <1>1 DEF Request
  <1>3. request' = [request EXCEPT ![r] = y]
    BY <1>1 DEF Goto
  <1> HIDE DEF y
  <1>4. request' \in [Requests -> Request] /\ Others(r) /\ request'[r] = y
    BY <1>2, <1>3, RequestWritten
  <1> QED
    BY <1>2, <1>4 DEF Kept

LEMMA FreshMoves ==
    ASSUME SessionsOK, TypeOK, RowsInv, NEW r \in Requests,
           \/ \E s \in SessionIds : Refresh(r, s)
           \/ \E u \in Users : SignIn(r, u) \/ Logout(r, u) \/ Reissue(r, u)
           \/ \E t \in TokenIds : Recover(r, t)
           \/ \E a, u \in Users, change \in Changes : UpdateUser(r, a, u, change)
    PROVE  Typed(r)
  <1>0. /\ Idle \in Request
        /\ Idle.phase = "idle" /\ Idle.user = None /\ Idle.session = None /\ Idle.token = None
        /\ Idle.change = Unchanged /\ Idle.sessions = {} /\ Idle.tokens = {}
    BY IdleType
  <1>1. {"consuming", "issuing", "reissuing", "redeeming", "queueing", "ending"} \subseteq Phases
    BY DEF Phases
  <1>2. /\ \A u \in Users : account[u].role \in Roles
        /\ \A s \in SessionIds : session[s].state # "none" => session[s].user \in Users
        /\ \A t \in TokenIds : token[t].state # "none" => token[t].user \in Users
        /\ Changes \subseteq Change
        /\ None \notin SessionIds \cup TokenIds
    BY DEF TypeOK, RowsInv, Account, SessionsOK
  <1>3. ASSUME NEW y \in Request, Begin(r, y)
        PROVE  /\ request' \in [Requests -> Request] /\ Others(r) /\ request'[r] = y
               /\ DataSame /\ request[r].phase = "idle"
    BY <1>3, RequestWritten DEF Begin, DataSame
  <1>4. ASSUME NEW u \in Users, Begin(r, [Idle EXCEPT !.phase = "ending", !.user = u])
        PROVE  Typed(r)
    <2> DEFINE y == [Idle EXCEPT !.phase = "ending", !.user = u]
    <2>1. /\ y \in Request /\ y.phase = "ending" /\ y.user = u /\ y.session = None
          /\ y.token = None /\ y.tokens = {} /\ y.sessions = {} /\ y.change = Unchanged
      <3> HIDE DEF Idle
      <3> QED
        BY <1>0, <1>1 DEF Request
    <2>2. Begin(r, y)
      BY <1>4
    <2> HIDE DEF y
    <2>3. request'[r] = y /\ request' \in [Requests -> Request] /\ Others(r) /\ DataSame
          /\ request[r].phase = "idle"
      BY <1>3, <2>1, <2>2
    <2> QED
      BY <2>1, <2>3 DEF Typed, Moves, Fresh
  <1>5. ASSUME NEW s \in SessionIds, Refresh(r, s)
        PROVE  Typed(r)
    <2>1. session[s].state # "none" /\ session[s].user \in Users
      BY <1>2, <1>5 DEF Refresh
    <2>2. CASE Begin(r, [Idle EXCEPT !.phase = "ending", !.user = session[s].user])
      BY <1>4, <2>1, <2>2
    <2> DEFINE y == [Idle EXCEPT !.phase = "consuming", !.user = session[s].user, !.session = s,
                                 !.role = account[session[s].user].role]
    <2>3. CASE session[s].state = "open" /\ Begin(r, y)
      <3> DEFINE u == session[s].user
                 role == account[u].role
      <3>1. role \in Roles /\ u \in Users
        BY <1>2, <2>1
      <3> HIDE DEF role, u
      <3>2. y = [Idle EXCEPT !.phase = "consuming", !.user = u, !.session = s, !.role = role]
        BY DEF u, role
      <3>3. /\ y \in Request /\ y.phase = "consuming" /\ y.user = u /\ y.session = s
            /\ y.role = role
            /\ y.token = None /\ y.tokens = {} /\ y.sessions = {} /\ y.change = Unchanged
        <4> HIDE DEF Idle, y
        <4> QED
          BY <1>0, <1>1, <3>1, <3>2 DEF Request
      <3> HIDE DEF y
      <3>4. request'[r] = y /\ request' \in [Requests -> Request] /\ Others(r) /\ DataSame
            /\ request[r].phase = "idle"
        BY <1>3, <2>3, <3>3
      <3> QED
        BY <2>3, <3>1, <3>3, <3>4 DEF Typed, Moves, Fresh, u, role
    <2> QED
      BY <1>5, <2>2, <2>3 DEF Refresh
  <1>6. ASSUME NEW u \in Users, SignIn(r, u)
        PROVE  Typed(r)
    <2> DEFINE role == account[u].role
               y == [Idle EXCEPT !.phase = "issuing", !.user = u, !.role = role]
    <2>1. role \in Roles
      BY <1>2
    <2>2. Begin(r, y)
      BY <1>6 DEF SignIn
    <2> HIDE DEF role
    <2>3. /\ y \in Request /\ y.phase = "issuing" /\ y.user = u /\ y.session = None
          /\ y.token = None /\ y.tokens = {} /\ y.sessions = {} /\ y.change = Unchanged
      <3> HIDE DEF Idle
      <3> QED
        BY <1>0, <1>1, <2>1 DEF Request
    <2> HIDE DEF y
    <2>4. request'[r] = y /\ request' \in [Requests -> Request] /\ Others(r) /\ DataSame
          /\ request[r].phase = "idle"
      BY <1>3, <2>2, <2>3
    <2> QED
      BY <2>3, <2>4 DEF Typed, Moves, Fresh
  <1>7. ASSUME NEW u \in Users, Logout(r, u)
        PROVE  Typed(r)
    BY <1>4, <1>7 DEF Logout
  <1>8. ASSUME NEW u \in Users, Reissue(r, u)
        PROVE  Typed(r)
    <2> DEFINE tokens == OpenTokens(u)
               y == [Idle EXCEPT !.phase = "reissuing", !.user = u, !.tokens = tokens]
    <2>1. tokens \in SUBSET TokenIds /\ \A t \in tokens : TokenFree(r, t)
      BY <1>8 DEF OpenTokens, Reissue
    <2>2. Begin(r, y)
      BY <1>8 DEF Reissue
    <2> HIDE DEF tokens
    <2>3. /\ y \in Request /\ y.phase = "reissuing" /\ y.user = u /\ y.session = None
          /\ y.token = None /\ y.tokens = tokens /\ y.sessions = {} /\ y.change = Unchanged
      <3> HIDE DEF Idle
      <3> QED
        BY <1>0, <1>1, <2>1 DEF Request
    <2> HIDE DEF y
    <2>4. request'[r] = y /\ request' \in [Requests -> Request] /\ Others(r) /\ DataSame
          /\ request[r].phase = "idle"
      BY <1>3, <2>2, <2>3
    <2> QED
      BY <2>1, <2>3, <2>4 DEF Typed, Moves, Fresh, tokens
  <1>9. ASSUME NEW t \in TokenIds, Recover(r, t)
        PROVE  Typed(r)
    <2> DEFINE u == token[t].user
               y == [Idle EXCEPT !.phase = "redeeming", !.user = u, !.token = t]
    <2>1. u \in Users /\ token[t].state = "open"
      BY <1>2, <1>9 DEF Recover
    <2>2. Begin(r, y)
      BY <1>9 DEF Recover
    <2> HIDE DEF u
    <2>3. /\ y \in Request /\ y.phase = "redeeming" /\ y.user = u /\ y.session = None
          /\ y.token = t /\ y.tokens = {} /\ y.sessions = {} /\ y.change = Unchanged
      <3> HIDE DEF Idle
      <3> QED
        BY <1>0, <1>1, <2>1 DEF Request
    <2> HIDE DEF y
    <2>4. request'[r] = y /\ request' \in [Requests -> Request] /\ Others(r) /\ DataSame
          /\ request[r].phase = "idle"
      BY <1>3, <2>2, <2>3
    <2> QED
      BY <2>1, <2>3, <2>4 DEF Typed, Moves, Fresh, u
  <1>10. ASSUME NEW a \in Users, NEW u \in Users, NEW change \in Changes,
                UpdateUser(r, a, u, change)
         PROVE  Typed(r)
    <2> DEFINE y == [Idle EXCEPT !.phase = "queueing", !.user = u, !.change = change]
    <2>1. Begin(r, y)
      BY <1>10 DEF UpdateUser
    <2>2. change \in Change
      BY <1>2
    <2>3. /\ y \in Request /\ y.phase = "queueing" /\ y.user = u /\ y.session = None
          /\ y.token = None /\ y.tokens = {} /\ y.sessions = {}
      <3> HIDE DEF Idle
      <3> QED
        BY <1>0, <1>1, <2>2 DEF Request
    <2> HIDE DEF y
    <2>4. request'[r] = y /\ request' \in [Requests -> Request] /\ Others(r) /\ DataSame
          /\ request[r].phase = "idle"
      BY <1>3, <2>1, <2>3
    <2> QED
      BY <2>3, <2>4 DEF Typed, Moves, Fresh
  <1> QED
    BY <1>5, <1>6, <1>7, <1>8, <1>9, <1>10

LEMMA ProceedMoves ==
    ASSUME SessionsOK, TypeOK, AllShaped, NEW r \in Requests,
           \/ Consume(r) \/ ReadEpoch(r) \/ Touch(r) \/ LockUser(r) \/ Scan(r)
           \/ Redeem(r) \/ Reset(r) \/ Discard(r)
           \/ TakeMembers(r) \/ Select(r) \/ Count(r)
    PROVE  Typed(r)
  <1>0. /\ request[r] \in Request /\ Shaped(request[r])
        /\ {"issuing", "ending", "touching", "issued", "scanning", "scanned", "resetting",
            "discarding", "selecting", "counting"} \subseteq Phases
    BY DEF TypeOK, AllShaped, Phases
  <1>1. DataSame
    BY DEF DataSame, Consume, ReadEpoch, Touch, LockUser, Scan, Redeem, Reset, Discard,
           TakeMembers, Select, Count
  <1>2. CASE Done(r)
    BY <1>2, DoneType
  <1>3. CASE Consume(r)
    <2> DEFINE y == [request[r] EXCEPT !.phase = "ending", !.session = None]
    <2>1. request[r].phase = "consuming"
      BY <1>3 DEF Consume
    <2>2. CASE Goto(r, "issuing") /\ session[request[r].session].state = "open"
      <3>1. SessionFree(r, request[r].session)
        BY <1>3 DEF Consume
      <3>2. /\ request' \in [Requests -> Request] /\ Others(r) /\ Kept(r)
            /\ request'[r].phase = "issuing"
        BY <1>0, <2>2, GotoType
      <3> QED
        BY <1>1, <2>1, <2>2, <3>1, <3>2 DEF Typed, Moves, Proceeds, From
    <2>3. CASE request' = [request EXCEPT ![r].phase = "ending", ![r].session = None]
      <3>1. /\ y \in Request /\ y.phase = "ending" /\ y.session = None
            /\ y.user = request[r].user /\ y.token = request[r].token
            /\ y.change = request[r].change
            /\ y.sessions = request[r].sessions /\ y.tokens = request[r].tokens
        BY <1>0 DEF Request
      <3>2. request' = [request EXCEPT ![r] = y]
        BY <2>3 DEF TypeOK
      <3> HIDE DEF y
      <3>3. request' \in [Requests -> Request] /\ Others(r) /\ request'[r] = y
        BY <3>1, <3>2, RequestWritten
      <3> QED
        BY <1>1, <2>1, <3>1, <3>3 DEF Typed, Moves, Proceeds, From
    <2> QED
      BY <1>3, <2>2, <2>3 DEF Consume
  <1>4. CASE ReadEpoch(r)
    <2> DEFINE av == account[request[r].user].auth_epoch
               y == [request[r] EXCEPT !.phase = "touching", !.av = av]
    <2>1. request[r].phase = "issuing"
          /\ request' = [request EXCEPT ![r].phase = "touching", ![r].av = av]
      BY <1>4 DEF ReadEpoch
    <2>2. av \in Nat
      BY <1>0, <2>1 DEF TypeOK, Account, Shaped
    <2> HIDE DEF av
    <2>3. /\ y \in Request /\ y.phase = "touching" /\ y.session = request[r].session
          /\ y.user = request[r].user /\ y.token = request[r].token
          /\ y.change = request[r].change /\ y.role = request[r].role /\ y.av = av
          /\ y.sessions = request[r].sessions /\ y.tokens = request[r].tokens
      BY <1>0, <2>2 DEF Request
    <2>4. request' = [request EXCEPT ![r] = y]
      BY <2>1 DEF TypeOK
    <2> HIDE DEF y
    <2>5. request' \in [Requests -> Request] /\ Others(r) /\ request'[r] = y
      BY <2>3, <2>4, RequestWritten
    <2> QED
      BY <1>1, <2>1, <2>3, <2>5 DEF Typed, Moves, Proceeds, From, av
  <1>5. CASE Touch(r)
    <2>1. /\ request[r].phase = "touching" /\ Goto(r, "issued")
          /\ UserFree(r, request[r].user)
      BY <1>5 DEF Touch
    <2>2. /\ request' \in [Requests -> Request] /\ Others(r) /\ Kept(r)
          /\ request'[r].phase = "issued"
      BY <1>0, <2>1, GotoType
    <2> QED
      BY <1>1, <2>1, <2>2 DEF Typed, Moves, Proceeds, From
  <1>6. CASE LockUser(r)
    <2>1. /\ request[r].phase = "ending" /\ Goto(r, "scanning")
          /\ UserFree(r, request[r].user)
      BY <1>6 DEF LockUser
    <2>2. /\ request' \in [Requests -> Request] /\ Others(r) /\ Kept(r)
          /\ request'[r].phase = "scanning"
      BY <1>0, <2>1, GotoType
    <2> QED
      BY <1>1, <2>1, <2>2 DEF Typed, Moves, Proceeds, From
  <1>7. CASE Scan(r)
    <2> DEFINE open == OpenSessions(request[r].user)
               y == [request[r] EXCEPT !.phase = "scanned", !.sessions = open]
    <2>1. /\ request[r].phase = "scanning"
          /\ request' = [request EXCEPT ![r].phase = "scanned", ![r].sessions = open]
          /\ \A s \in open : SessionFree(r, s)
      BY <1>7 DEF Scan
    <2>2. open \in SUBSET SessionIds
      BY DEF OpenSessions
    <2> HIDE DEF open
    <2>3. /\ y \in Request /\ y.phase = "scanned" /\ y.session = request[r].session
          /\ y.user = request[r].user /\ y.token = request[r].token
          /\ y.change = request[r].change
          /\ y.sessions = open /\ y.tokens = request[r].tokens
      BY <1>0, <2>2 DEF Request
    <2>4. request' = [request EXCEPT ![r] = y]
      BY <2>1 DEF TypeOK
    <2> HIDE DEF y
    <2>5. request' \in [Requests -> Request] /\ Others(r) /\ request'[r] = y
      BY <2>3, <2>4, RequestWritten
    <2> QED
      BY <1>1, <2>1, <2>3, <2>5 DEF Typed, Moves, Proceeds, From, open
  <1>8. CASE Redeem(r) /\ Goto(r, "resetting")
    <2>1. /\ request[r].phase = "redeeming" /\ TokenFree(r, request[r].token)
          /\ token[request[r].token].state = "open"
      <3>1. CASE token[request[r].token].state = "open"
        BY <1>8, <3>1 DEF Redeem
      <3>2. CASE token[request[r].token].state # "open"
        <4>1. Done(r) /\ request[r].phase = "redeeming"
          BY <1>8, <3>2 DEF Redeem
        <4>2. request'[r].phase = "idle" /\ request'[r].phase = "resetting"
          BY <1>0, <1>8, <4>1, GotoType, IdleType DEF Done, TypeOK
        <4> QED
          BY <4>2
      <3> QED
        BY <3>1, <3>2
    <2>2. /\ request' \in [Requests -> Request] /\ Others(r) /\ Kept(r)
          /\ request'[r].phase = "resetting"
      BY <1>0, <1>8, GotoType
    <2> QED
      BY <1>1, <2>1, <2>2 DEF Typed, Moves, Proceeds, From
  <1>9. CASE Reset(r) /\ Goto(r, "discarding")
    <2>1. request[r].phase = "resetting" /\ UserFree(r, request[r].user)
      BY <1>9 DEF Reset
    <2>2. /\ request' \in [Requests -> Request] /\ Others(r) /\ Kept(r)
          /\ request'[r].phase = "discarding"
      BY <1>0, <1>9, GotoType
    <2> QED
      BY <1>1, <2>1, <2>2 DEF Typed, Moves, Proceeds, From
  <1>10. CASE Discard(r)
    <2> DEFINE others == OpenTokens(request[r].user) \ {request[r].token}
               y == [request[r] EXCEPT !.phase = "scanning", !.tokens = others]
    <2>1. /\ request[r].phase = "discarding"
          /\ request' = [request EXCEPT ![r].phase = "scanning", ![r].tokens = others]
          /\ \A t \in others : TokenFree(r, t)
      BY <1>10 DEF Discard
    <2>2. others \in SUBSET TokenIds
      BY DEF OpenTokens
    <2> HIDE DEF others
    <2>3. /\ y \in Request /\ y.phase = "scanning" /\ y.session = request[r].session
          /\ y.user = request[r].user /\ y.token = request[r].token
          /\ y.change = request[r].change
          /\ y.sessions = request[r].sessions /\ y.tokens = others
      BY <1>0, <2>2 DEF Request
    <2>4. request' = [request EXCEPT ![r] = y]
      BY <2>1 DEF TypeOK
    <2> HIDE DEF y
    <2>5. request' \in [Requests -> Request] /\ Others(r) /\ request'[r] = y
      BY <2>3, <2>4, RequestWritten
    <2> QED
      BY <1>1, <2>1, <2>3, <2>5 DEF Typed, Moves, Proceeds, From, others
  <1>11. CASE TakeMembers(r)
    <2>1. /\ request[r].phase = "queueing" /\ Goto(r, "selecting")
          /\ \A q \in Requests : ~HoldsMembers(q)
      BY <1>11 DEF TakeMembers
    <2>2. /\ request' \in [Requests -> Request] /\ Others(r) /\ Kept(r)
          /\ request'[r].phase = "selecting"
      BY <1>0, <2>1, GotoType
    <2> QED
      BY <1>1, <2>1, <2>2 DEF Typed, Moves, Proceeds, From
  <1>12. CASE Select(r) /\ Goto(r, "counting")
    <2>1. request[r].phase = "selecting" /\ UserFree(r, request[r].user)
      BY <1>12 DEF Select
    <2>2. /\ request' \in [Requests -> Request] /\ Others(r) /\ Kept(r)
          /\ request'[r].phase = "counting"
      BY <1>0, <1>12, GotoType
    <2> QED
      BY <1>1, <2>1, <2>2 DEF Typed, Moves, Proceeds, From
  <1>13. CASE Select(r) /\ ~LosesAdministrator(r) /\ Goto(r, "scanning")
    <2>1. request[r].phase = "selecting" /\ UserFree(r, request[r].user)
      BY <1>13 DEF Select
    <2>2. /\ request' \in [Requests -> Request] /\ Others(r) /\ Kept(r)
          /\ request'[r].phase = "scanning"
      BY <1>0, <1>13, GotoType
    <2> QED
      BY <1>1, <1>13, <2>1, <2>2 DEF Typed, Moves, Proceeds, From
  <1>14. CASE Count(r) /\ Cardinality(Administrators) > 1 /\ Goto(r, "scanning")
    <2>1. request[r].phase = "counting"
      BY <1>14 DEF Count
    <2>2. /\ request' \in [Requests -> Request] /\ Others(r) /\ Kept(r)
          /\ request'[r].phase = "scanning"
      BY <1>0, <1>14, GotoType
    <2> QED
      BY <1>1, <1>14, <2>1, <2>2 DEF Typed, Moves, Proceeds, From
  <1>15. Redeem(r) => Done(r) \/ Goto(r, "resetting")
    BY DEF Redeem
  <1>16. Reset(r) => Done(r) \/ Goto(r, "discarding")
    BY DEF Reset
  <1>17. Select(r) => \/ Done(r) \/ Goto(r, "counting")
                      \/ ~LosesAdministrator(r) /\ Goto(r, "scanning")
    BY DEF Select
  <1>18. Count(r) => Done(r) \/ (Cardinality(Administrators) > 1 /\ Goto(r, "scanning"))
    BY DEF Count
  <1> QED
    BY <1>2, <1>3, <1>4, <1>5, <1>6, <1>7, <1>8, <1>9, <1>10, <1>11, <1>12, <1>13, <1>14,
       <1>15, <1>16, <1>17, <1>18

(* A step that writes rows commits, and its request is over.                *)
LEMMA StepMoves ==
    ASSUME SessionsOK, TypeOK, AllShaped, RowsInv, NEW r \in Requests, Step(r)
    PROVE  /\ Typed(r)
           /\ \/ DataSame
              \/ /\ request'[r] = Idle
                 /\ \/ \E s \in SessionIds : CommitIssue(r, s)
                    \/ CommitRevocation(r)
                    \/ \E t \in TokenIds : CommitReissue(r, t)
  <1>1. CASE \/ \E s \in SessionIds : CommitIssue(r, s)
             \/ CommitRevocation(r)
             \/ \E t \in TokenIds : CommitReissue(r, t)
    <2>1. Done(r)
      BY <1>1 DEF CommitIssue, CommitRevocation, CommitReissue
    <2>2. request'[r] = Idle
      BY <2>1 DEF Done, TypeOK
    <2> QED
      BY <1>1, <2>1, <2>2, DoneType
  <1>2. CASE Abort(r)
    BY <1>2, DoneType DEF Abort, DataSame
  <1>3. CASE \/ \E s \in SessionIds : Refresh(r, s)
             \/ \E u \in Users : SignIn(r, u) \/ Logout(r, u) \/ Reissue(r, u)
             \/ \E t \in TokenIds : Recover(r, t)
             \/ \E a, u \in Users, change \in Changes : UpdateUser(r, a, u, change)
    <2>1. DataSame
      BY <1>3 DEF Refresh, SignIn, Logout, Reissue, Recover, UpdateUser, Begin, DataSame
    <2> QED
      BY <1>3, <2>1, FreshMoves
  <1>4. CASE \/ Consume(r) \/ ReadEpoch(r) \/ Touch(r) \/ LockUser(r) \/ Scan(r)
             \/ Redeem(r) \/ Reset(r) \/ Discard(r)
             \/ TakeMembers(r) \/ Select(r) \/ Count(r)
    <2>1. DataSame
      BY <1>4 DEF DataSame, Consume, ReadEpoch, Touch, LockUser, Scan, Redeem, Reset, Discard,
                  TakeMembers, Select, Count
    <2> QED
      BY <1>4, <2>1, ProceedMoves
  <1> QED
    BY <1>1, <1>2, <1>3, <1>4 DEF Step, Issuing, Revoking, Recovering, Managing

-----------------------------------------------------------------------------
(* Types, shapes and locks                                                  *)

LEMMA WrittenType ==
    ASSUME TypeOK, NEW r \in Requests, request[r].user \in Users
    PROVE  Written(r) \in Account
  <1> DEFINE a == account[request[r].user]
             x == request[r]
             b == Changed(a, x.change)
  <1>1. a \in Account /\ x.change \in Change
    BY DEF TypeOK, Request
  <1>2. b \in Account
    <2> HIDE DEF a, x
    <2> QED
      BY <1>1 DEF Changed, Account, Change
  <1> DEFINE n == IF x.token = None THEN b.password ELSE b.password + 1
             e == b.auth_epoch + 1
  <1>3. Written(r) = [b EXCEPT !.auth_epoch = e, !.password = n]
    BY DEF Written
  <1> HIDE DEF b, x
  <1>4. b.auth_epoch \in Nat /\ b.password \in Nat
    BY <1>2 DEF Account
  <1>5. e \in Nat /\ n \in Nat
    BY <1>4
  <1> HIDE DEF n, e
  <1> QED
    BY <1>2, <1>3, <1>5 DEF Account

LEMMA TypeStep ==
    ASSUME SessionsOK, TypeOK, AllShaped, RowsInv, NEW r \in Requests, Step(r)
    PROVE  TypeOK'
  <1>0. request' \in [Requests -> Request]
    BY StepMoves DEF Typed
  <1>1. CASE DataSame
    BY <1>0, <1>1 DEF DataSame, TypeOK
  <1>2. ASSUME NEW s \in SessionIds, CommitIssue(r, s)
        PROVE  TypeOK'
    <2> DEFINE new == [state |-> "open", user |-> request[r].user, parent |-> request[r].session,
                       role |-> request[r].role, av |-> request[r].av]
    <2>1. /\ session' = [q \in SessionIds |->
               IF q = s THEN new
               ELSE IF q = request[r].session THEN [session[q] EXCEPT !.state = "revoked"]
               ELSE session[q]]
          /\ UNCHANGED <<account, token>>
      BY <1>2 DEF CommitIssue
    <2>2. new \in Session
      BY DEF TypeOK, Request, Session
    <2> HIDE DEF new
    <2>3. \A q \in SessionIds : session[q] \in Session
                                /\ [session[q] EXCEPT !.state = "revoked"] \in Session
      BY DEF TypeOK, Session
    <2>4. session' \in [SessionIds -> Session]
      BY <2>1, <2>2, <2>3
    <2> QED
      BY <1>0, <2>1, <2>4 DEF TypeOK
  <1>3. CASE CommitRevocation(r)
    <2>1. request[r].user \in Users
      BY <1>3 DEF CommitRevocation, AllShaped, Shaped
    <2>2. account' \in [Users -> Account]
      <3>1. account' = [account EXCEPT ![request[r].user] = Written(r)]
        BY <1>3 DEF CommitRevocation
      <3> QED
        BY <2>1, <3>1, WrittenType DEF TypeOK
    <2>3. session' \in [SessionIds -> Session]
      <3>1. \A q \in SessionIds : session[q] \in Session
                                  /\ [session[q] EXCEPT !.state = "revoked"] \in Session
        BY DEF TypeOK, Session
      <3> QED
        BY <1>3, <3>1 DEF CommitRevocation
    <2>4. token' \in [TokenIds -> Token]
      <3>1. \A q \in TokenIds : /\ token[q] \in Token
                                /\ [token[q] EXCEPT !.state = "revoked"] \in Token
                                /\ [token[q] EXCEPT !.state = "used"] \in Token
        BY DEF TypeOK, Token
      <3> QED
        BY <1>3, <3>1 DEF CommitRevocation
    <2> QED
      BY <1>0, <2>2, <2>3, <2>4 DEF TypeOK
  <1>4. ASSUME NEW t \in TokenIds, CommitReissue(r, t)
        PROVE  TypeOK'
    <2> DEFINE new == [state |-> "open", user |-> request[r].user]
    <2>1. /\ token' = [q \in TokenIds |->
               IF q = t THEN new
               ELSE IF q \in request[r].tokens THEN [token[q] EXCEPT !.state = "revoked"]
               ELSE token[q]]
          /\ UNCHANGED <<account, session>>
      BY <1>4 DEF CommitReissue
    <2>2. new \in Token
      BY DEF TypeOK, Request, Token
    <2> HIDE DEF new
    <2>3. \A q \in TokenIds : token[q] \in Token
                              /\ [token[q] EXCEPT !.state = "revoked"] \in Token
      BY DEF TypeOK, Token
    <2>4. token' \in [TokenIds -> Token]
      BY <2>1, <2>2, <2>3
    <2> QED
      BY <1>0, <2>1, <2>4 DEF TypeOK
  <1> QED
    BY <1>1, <1>2, <1>3, <1>4, StepMoves

LEMMA ShapedStep ==
    ASSUME SessionsOK, TypeOK, AllShaped, RowsInv, NEW r \in Requests, Step(r)
    PROVE  AllShaped'
  <1>1. Others(r) /\ Moves(r)
    BY StepMoves DEF Typed
  <1>2. Shaped(request[r])
    BY DEF AllShaped
  <1>3. Shaped(request'[r])
    <2>1. CASE request'[r] = Idle
      BY <2>1, IdleType DEF Shaped
    <2>2. CASE Fresh(r)
      <3>1. None \notin SessionIds \cup TokenIds
        BY DEF SessionsOK
      <3> QED
        BY <2>2, <3>1 DEF Fresh, Shaped
    <2>3. CASE Proceeds(r)
      BY <1>2, <2>3 DEF Proceeds, From, Kept, Shaped
    <2> QED
      BY <1>1, <2>1, <2>2, <2>3 DEF Moves
  <1> QED
    BY <1>1, <1>2, <1>3 DEF AllShaped, Others

(* A request takes a lock only while it is free.                            *)
LEMMA NewLocks ==
    ASSUME SessionsOK, TypeOK, AllShaped, RowsInv, NEW r \in Requests, Step(r)
    PROVE  /\ \A s \in SessionIds : HoldsSession(r, s)' => HoldsSession(r, s) \/ SessionFree(r, s)
           /\ \A u \in Users : HoldsUser(r, u)' => HoldsUser(r, u) \/ UserFree(r, u)
           /\ \A t \in TokenIds : HoldsToken(r, t)' => HoldsToken(r, t) \/ TokenFree(r, t)
           /\ HoldsMembers(r)' => HoldsMembers(r) \/ \A q \in Requests : ~HoldsMembers(q)
  <1>1. Moves(r) /\ Shaped(request[r])
    BY StepMoves DEF Typed, AllShaped
  <1>2. None \notin Users \cup SessionIds \cup TokenIds
    BY DEF SessionsOK
  <1>3. CASE request'[r] = Idle
    BY <1>2, <1>3, IdleType DEF HoldsSession, HoldsUser, HoldsToken, HoldsMembers
  <1>4. CASE Fresh(r)
    <2>1. \A s \in SessionIds : ~HoldsSession(r, s)'
      BY <1>2, <1>4 DEF Fresh, HoldsSession
    <2>2. \A u \in Users : ~HoldsUser(r, u)'
      BY <1>4 DEF Fresh, HoldsUser
    <2>3. \A t \in TokenIds : HoldsToken(r, t)' => TokenFree(r, t)
      BY <1>2, <1>4 DEF Fresh, HoldsToken
    <2>4. ~HoldsMembers(r)'
      BY <1>4 DEF Fresh, HoldsMembers
    <2> QED
      BY <2>1, <2>2, <2>3, <2>4
  <1>5. CASE Proceeds(r)
    <2>1. ASSUME NEW s \in SessionIds, HoldsSession(r, s)'
          PROVE  HoldsSession(r, s) \/ SessionFree(r, s)
      BY <1>1, <1>2, <1>5, <2>1 DEF Proceeds, From, Kept, HoldsSession, Shaped
    <2>2. ASSUME NEW u \in Users, HoldsUser(r, u)'
          PROVE  HoldsUser(r, u) \/ UserFree(r, u)
      BY <1>1, <1>5, <2>2 DEF Proceeds, From, Kept, HoldsUser
    <2>3. ASSUME NEW t \in TokenIds, HoldsToken(r, t)'
          PROVE  HoldsToken(r, t) \/ TokenFree(r, t)
      BY <1>1, <1>2, <1>5, <2>3 DEF Proceeds, From, Kept, HoldsToken, Shaped
    <2>4. HoldsMembers(r)' => HoldsMembers(r) \/ \A q \in Requests : ~HoldsMembers(q)
      BY <1>1, <1>5 DEF Proceeds, From, Kept, HoldsMembers
    <2> QED
      BY <2>1, <2>2, <2>3, <2>4
  <1> QED
    BY <1>1, <1>3, <1>4, <1>5 DEF Moves

LEMMA LockStep ==
    ASSUME SessionsOK, TypeOK, AllShaped, RowsInv, LockInv, NEW r \in Requests, Step(r)
    PROVE  LockInv'
  <1>1. Others(r)
    BY StepMoves DEF Typed
  <1>2. ASSUME NEW q \in Requests, q # r
        PROVE  /\ \A s \in SessionIds : HoldsSession(q, s)' = HoldsSession(q, s)
               /\ \A u \in Users : HoldsUser(q, u)' = HoldsUser(q, u)
               /\ \A t \in TokenIds : HoldsToken(q, t)' = HoldsToken(q, t)
               /\ HoldsMembers(q)' = HoldsMembers(q)
    <2>1. request'[q] = request[q]
      BY <1>1, <1>2 DEF Others
    <2> QED
      BY <2>1 DEF HoldsSession, HoldsUser, HoldsToken, HoldsMembers
  <1>3. ASSUME NEW q \in Requests, q # r
        PROVE  /\ \A s \in SessionIds : ~(HoldsSession(r, s)' /\ HoldsSession(q, s)')
               /\ \A u \in Users : ~(HoldsUser(r, u)' /\ HoldsUser(q, u)')
               /\ \A t \in TokenIds : ~(HoldsToken(r, t)' /\ HoldsToken(q, t)')
               /\ ~(HoldsMembers(r)' /\ HoldsMembers(q)')
    BY <1>2, <1>3, NewLocks DEF LockInv, SessionFree, UserFree, TokenFree
  <1> QED
    BY <1>2, <1>3 DEF LockInv

-----------------------------------------------------------------------------
(* What the three commits write                                             *)

LEMMA IssueRows ==
    ASSUME TypeOK, NEW r \in Requests, NEW s \in SessionIds, CommitIssue(r, s)
    PROVE  /\ request[r].phase = "issued" /\ session[s].state = "none"
           /\ account' = account /\ token' = token
           /\ session'[s].state = "open" /\ session'[s].user = request[r].user
           /\ session'[s].parent = request[r].session
           /\ session'[s].role = request[r].role /\ session'[s].av = request[r].av
           /\ \A q \in SessionIds \ {s} :
                /\ session'[q].user = session[q].user /\ session'[q].parent = session[q].parent
                /\ session'[q].role = session[q].role /\ session'[q].av = session[q].av
                /\ session'[q].state = IF q = request[r].session THEN "revoked" ELSE session[q].state
  <1> DEFINE new == [state |-> "open", user |-> request[r].user, parent |-> request[r].session,
                     role |-> request[r].role, av |-> request[r].av]
  <1>1. /\ session' = [q \in SessionIds |->
             IF q = s THEN new
             ELSE IF q = request[r].session THEN [session[q] EXCEPT !.state = "revoked"]
             ELSE session[q]]
        /\ request[r].phase = "issued" /\ session[s].state = "none"
        /\ account' = account /\ token' = token
    BY DEF CommitIssue
  <1>2. /\ new.state = "open" /\ new.user = request[r].user /\ new.parent = request[r].session
        /\ new.role = request[r].role /\ new.av = request[r].av
    OBVIOUS
  <1> HIDE DEF new
  <1>3. session'[s] = new
    BY <1>1
  <1>4. ASSUME NEW q \in SessionIds \ {s}
        PROVE  session'[q] = IF q = request[r].session THEN [session[q] EXCEPT !.state = "revoked"]
                             ELSE session[q]
    BY <1>1
  <1>5. ASSUME NEW q \in SessionIds \ {s}
        PROVE  /\ session'[q].user = session[q].user /\ session'[q].parent = session[q].parent
               /\ session'[q].role = session[q].role /\ session'[q].av = session[q].av
               /\ session'[q].state = IF q = request[r].session THEN "revoked" ELSE session[q].state
    <2>1. session[q] \in Session
      BY DEF TypeOK
    <2> QED
      BY <1>4, <2>1 DEF Session
  <1> QED
    BY <1>1, <1>2, <1>3, <1>5

LEMMA RevocationRows ==
    ASSUME TypeOK, AllShaped, NEW r \in Requests, CommitRevocation(r)
    PROVE  LET x == request[r]
               old == account[x.user]
               new == account'[x.user]
           IN /\ x.phase = "scanned" /\ x.user \in Users
              /\ \A v \in Users \ {x.user} : account'[v] = account[v]
              /\ new.auth_epoch = old.auth_epoch + 1
              /\ new.role = IF x.change.role = None THEN old.role ELSE x.change.role
              /\ new.status = IF x.change.status = None THEN old.status ELSE x.change.status
              /\ new.password = IF x.token = None THEN old.password ELSE old.password + 1
              /\ \A q \in SessionIds :
                   /\ session'[q].user = session[q].user /\ session'[q].parent = session[q].parent
                   /\ session'[q].role = session[q].role /\ session'[q].av = session[q].av
                   /\ session'[q].state = IF q \in x.sessions THEN "revoked" ELSE session[q].state
              /\ \A t \in TokenIds :
                   /\ token'[t].user = token[t].user
                   /\ token'[t].state = IF t = x.token THEN "used"
                                        ELSE IF t \in x.tokens THEN "revoked" ELSE token[t].state
  <1> DEFINE x == request[r]
             old == account[x.user]
             b == Changed(old, x.change)
             n == IF x.token = None THEN b.password ELSE b.password + 1
  <1>1. x.phase = "scanned" /\ x.user \in Users /\ old \in Account
    BY DEF CommitRevocation, AllShaped, Shaped, TypeOK
  <1>2. account' = [account EXCEPT ![x.user] = Written(r)] /\ account \in [Users -> Account]
    BY DEF CommitRevocation, TypeOK
  <1>3. Written(r) = [b EXCEPT !.auth_epoch = b.auth_epoch + 1, !.password = n]
    BY DEF Written
  <1>4. /\ b \in Account /\ b.auth_epoch = old.auth_epoch /\ b.password = old.password
        /\ b.role = IF x.change.role = None THEN old.role ELSE x.change.role
        /\ b.status = IF x.change.status = None THEN old.status ELSE x.change.status
    <2>1. x.change \in Change
      BY DEF TypeOK, Request
    <2> HIDE DEF old, x
    <2> QED
      BY <1>1, <2>1 DEF Changed, Account, Change
  <1>5. /\ \A v \in Users \ {x.user} : account'[v] = account[v]
        /\ account'[x.user] = Written(r)
    <2> HIDE DEF x
    <2> QED
      BY <1>1, <1>2
  <1>6. /\ Written(r).auth_epoch = b.auth_epoch + 1 /\ Written(r).password = n
        /\ Written(r).role = b.role /\ Written(r).status = b.status
    <2> HIDE DEF b, n
    <2> QED
      BY <1>3, <1>4 DEF Account
  <1>7. ASSUME NEW q \in SessionIds
        PROVE  /\ session'[q].user = session[q].user /\ session'[q].parent = session[q].parent
               /\ session'[q].role = session[q].role /\ session'[q].av = session[q].av
               /\ session'[q].state = IF q \in x.sessions THEN "revoked" ELSE session[q].state
    <2>1. session[q] \in Session
      BY DEF TypeOK
    <2>2. session'[q] = IF q \in x.sessions THEN [session[q] EXCEPT !.state = "revoked"]
                        ELSE session[q]
      BY DEF CommitRevocation
    <2> QED
      BY <2>1, <2>2 DEF Session
  <1>8. ASSUME NEW t \in TokenIds
        PROVE  /\ token'[t].user = token[t].user
               /\ token'[t].state = IF t = x.token THEN "used"
                                    ELSE IF t \in x.tokens THEN "revoked" ELSE token[t].state
    <2>1. token[t] \in Token
      BY DEF TypeOK
    <2>2. token'[t] = IF t = x.token THEN [token[t] EXCEPT !.state = "used"]
                      ELSE IF t \in x.tokens THEN [token[t] EXCEPT !.state = "revoked"]
                      ELSE token[t]
      BY DEF CommitRevocation
    <2> QED
      BY <2>1, <2>2 DEF Token
  <1>9. n = IF x.token = None THEN old.password ELSE old.password + 1
    BY <1>4
  <1> HIDE DEF x, old, b, n
  <1> QED
    BY <1>1, <1>4, <1>5, <1>6, <1>7, <1>8, <1>9 DEF x, old

LEMMA ReissueRows ==
    ASSUME TypeOK, NEW r \in Requests, NEW new \in TokenIds, CommitReissue(r, new)
    PROVE  /\ request[r].phase = "reissuing" /\ token[new].state = "none"
           /\ account' = account /\ session' = session
           /\ token'[new].state = "open" /\ token'[new].user = request[r].user
           /\ \A t \in TokenIds \ {new} :
                /\ token'[t].user = token[t].user
                /\ token'[t].state = IF t \in request[r].tokens THEN "revoked" ELSE token[t].state
  <1>1. ASSUME NEW t \in TokenIds \ {new}
        PROVE  /\ token'[t].user = token[t].user
               /\ token'[t].state = IF t \in request[r].tokens THEN "revoked" ELSE token[t].state
    <2>1. token[t] \in Token
      BY DEF TypeOK
    <2>2. token'[t] = IF t \in request[r].tokens THEN [token[t] EXCEPT !.state = "revoked"]
                      ELSE token[t]
      BY DEF CommitReissue
    <2> QED
      BY <2>1, <2>2 DEF Token
  <1> QED
    BY <1>1 DEF CommitReissue

LEMMA RowsStep ==
    ASSUME SessionsOK, TypeOK, AllShaped, RowsInv, Families, Held, NEW r \in Requests, Step(r)
    PROVE  RowsInv' /\ Families'
  <1>0. /\ \A s \in SessionIds : session[s].parent \in SessionIds \cup {None}
        /\ \A s \in SessionIds : session[s].av \in Nat
        /\ \A u \in Users : account[u].auth_epoch \in Nat
        /\ None \notin Users \cup SessionIds \cup TokenIds
    BY DEF TypeOK, Session, Account, SessionsOK
  <1>1. CASE DataSame
    BY <1>1 DEF DataSame, RowsInv, Families
  <1>2. ASSUME NEW s \in SessionIds, CommitIssue(r, s)
        PROVE  RowsInv' /\ Families'
    <2> DEFINE x == request[r]
    <2>1. x.phase = "issued" /\ session[s].state = "none" /\ x.user \in Users
          /\ x.session \in SessionIds \cup {None} /\ x.av <= account[x.user].auth_epoch
      BY <1>2, IssueRows DEF AllShaped, Shaped, TypeOK, Request, Held, EpochHeld
    <2>2. x.session # None =>
            session[x.session].state = "open" /\ session[x.session].user = x.user /\ x.session # s
      BY <2>1 DEF Held, RotationHeld
    <2> HIDE DEF x
    <2>3. /\ account' = account /\ token' = token
          /\ session'[s].state = "open" /\ session'[s].user = x.user
          /\ session'[s].parent = x.session /\ session'[s].av = x.av
          /\ \A q \in SessionIds \ {s} :
               /\ session'[q].user = session[q].user /\ session'[q].parent = session[q].parent
               /\ session'[q].av = session[q].av
               /\ session'[q].state = IF q = x.session THEN "revoked" ELSE session[q].state
      BY <1>2, IssueRows DEF x
    <2>4. \A q \in SessionIds : session[q].parent # s
      BY <2>1 DEF Families
    <2>5. \A q \in SessionIds : x.session # None => session[q].parent # x.session
      BY <1>0, <2>1, <2>2 DEF Families
    <2>6. ASSUME NEW q \in SessionIds
          PROVE  /\ session'[q].state = "none" => session'[q].parent = None
                 /\ session'[q].state # "none" =>
                      session'[q].user \in Users
                      /\ session'[q].av <= account'[session'[q].user].auth_epoch
                 /\ session'[q].parent # None =>
                      session'[session'[q].parent].user = session'[q].user
      <3>1. CASE q = s
        BY <2>1, <2>2, <2>3, <3>1
      <3>2. CASE q # s
        <4>1. session[q].parent # None => session[session[q].parent].user = session[q].user
          BY DEF RowsInv
        <4>2. session'[q].parent # None =>
                session'[session'[q].parent].user = session'[q].user
          BY <1>0, <2>3, <2>4, <3>2, <4>1
        <4>3. /\ session[q].state = "none" => session[q].parent = None
              /\ session[q].state # "none" =>
                   session[q].user \in Users /\ session[q].av <= account[session[q].user].auth_epoch
          BY DEF RowsInv
        <4>4. q = x.session => session[q].state # "none"
          BY <2>2, <1>0
        <4> QED
          BY <2>3, <3>2, <4>2, <4>3, <4>4
      <3> QED
        BY <3>1, <3>2
    <2>7. RowsInv'
      BY <2>3, <2>6 DEF RowsInv
    <2>8. ASSUME NEW p \in SessionIds, NEW q \in SessionIds, session'[q].parent = p
          PROVE  session'[p].state = "revoked"
      <3>1. CASE q = s
        BY <1>0, <2>2, <2>3, <2>8, <3>1
      <3>2. CASE q # s
        BY <2>3, <2>4, <2>8, <3>2 DEF Families
      <3> QED
        BY <3>1, <3>2
    <2>9. ASSUME NEW p \in SessionIds, NEW q1 \in SessionIds, NEW q2 \in SessionIds,
                 session'[q1].parent = p, session'[q2].parent = p
          PROVE  q1 = q2
      <3>1. ASSUME NEW q \in SessionIds \ {s}, session'[q].parent = p
            PROVE  session[q].parent = p /\ p # x.session
        BY <1>0, <2>3, <2>5, <3>1
      <3>2. session'[s].parent = x.session
        BY <2>3
      <3> QED
        BY <2>9, <3>1, <3>2 DEF Families
    <2> QED
      BY <2>7, <2>8, <2>9 DEF Families
  <1>3. CASE CommitRevocation(r)
    <2> DEFINE x == request[r]
    <2>1. /\ x.user \in Users
          /\ \A v \in Users \ {x.user} : account'[v] = account[v]
          /\ account'[x.user].auth_epoch = account[x.user].auth_epoch + 1
          /\ \A q \in SessionIds :
               /\ session'[q].user = session[q].user /\ session'[q].parent = session[q].parent
               /\ session'[q].av = session[q].av
               /\ session'[q].state = IF q \in x.sessions THEN "revoked" ELSE session[q].state
          /\ \A t \in TokenIds :
               /\ token'[t].user = token[t].user
               /\ token'[t].state = IF t = x.token THEN "used"
                                    ELSE IF t \in x.tokens THEN "revoked" ELSE token[t].state
      BY <1>3, RevocationRows
    <2>2. x.phase = "scanned" /\ x.sessions = OpenSessions(x.user)
      BY <1>3, RevocationRows DEF Held, ScanHeld
    <2>3. /\ x.token # None => token[x.token].state # "none"
          /\ \A t \in x.tokens : token[t].state = "open"
      BY DEF Held, TokenHeld
    <2> HIDE DEF x
    <2>4. \A q \in x.sessions : session[q].state = "open"
      BY <2>2 DEF OpenSessions
    <2>5. \A u \in Users : account[u].auth_epoch <= account'[u].auth_epoch
                           /\ account'[u].auth_epoch \in Nat
      BY <1>0, <2>1
    <2>6. ASSUME NEW q \in SessionIds
          PROVE  /\ session'[q].state = "none" => session'[q].parent = None
                 /\ session'[q].state # "none" =>
                      session'[q].user \in Users
                      /\ session'[q].av <= account'[session'[q].user].auth_epoch
                 /\ session'[q].parent # None =>
                      session'[session'[q].parent].user = session'[q].user
      <3>1. session[q].state = "none" <=> session'[q].state = "none"
        BY <2>1, <2>4
      <3>2. session[q].state # "none" => session[q].user \in Users
                                         /\ session[q].av <= account[session[q].user].auth_epoch
        BY DEF RowsInv
      <3>3. session[q].state # "none" => session[q].av <= account'[session[q].user].auth_epoch
        BY <1>0, <2>5, <3>2
      <3>4. session[q].parent # None => session'[session[q].parent].user = session'[q].user
        BY <1>0, <2>1 DEF RowsInv
      <3> QED
        BY <2>1, <3>1, <3>2, <3>3, <3>4 DEF RowsInv
    <2>7. \A t \in TokenIds : token'[t].state # "none" => token'[t].user \in Users
      <3>1. ASSUME NEW t \in TokenIds, token'[t].state # "none"
            PROVE  token[t].state # "none"
        BY <1>0, <2>1, <2>3, <3>1
      <3> QED
        BY <2>1, <3>1 DEF RowsInv
    <2>8. RowsInv'
      BY <2>6, <2>7 DEF RowsInv
    <2>9. Families'
      BY <2>1 DEF Families
    <2> QED
      BY <2>8, <2>9
  <1>4. ASSUME NEW t \in TokenIds, CommitReissue(r, t)
        PROVE  RowsInv' /\ Families'
    <2>1. request[r].user \in Users
      BY <1>4, ReissueRows DEF AllShaped, Shaped
    <2>2. \A q \in request[r].tokens : token[q].state = "open"
      BY DEF Held, TokenHeld
    <2>3. \A q \in TokenIds : token'[q].state # "none" => token'[q].user \in Users
      BY <1>4, <2>1, <2>2, ReissueRows DEF RowsInv
    <2> QED
      BY <1>4, <2>3, ReissueRows DEF RowsInv, Families
  <1> QED
    BY <1>1, <1>2, <1>3, <1>4, StepMoves

-----------------------------------------------------------------------------
(* What requests hold on to                                                 *)

HeldBy(r) == RotationHeld(r) /\ EpochHeld(r) /\ ScanHeld(r) /\ TokenHeld(r) /\ CountHeld(r)

LEMMA AnotherAdministrator ==
    ASSUME SessionsOK, NEW u \in Users, Cardinality(Administrators) > 1
    PROVE  \E v \in Administrators : v # u
  <1>1. CASE Administrators \subseteq {u}
    <2>1. IsFiniteSet({u}) /\ Cardinality({u}) = 1
      BY FS_Singleton
    <2>2. Cardinality(Administrators) <= 1
      BY <1>1, <2>1, FS_Subset
    <2>3. IsFiniteSet(Administrators)
      BY <1>1, <2>1, FS_Subset
    <2>4. Cardinality(Administrators) \in Nat
      BY <2>3, FS_CardinalityType
    <2> QED
      BY <2>2, <2>4
  <1> QED
    BY <1>1

LEMMA OwnHeld ==
    ASSUME SessionsOK, TypeOK, AllShaped, RowsInv, NEW r \in Requests, HeldBy(r), Step(r)
    PROVE  HeldBy(r)'
  <1>0. /\ Shaped(request[r]) /\ Moves(r)
        /\ None \notin Users \cup SessionIds \cup TokenIds \cup Roles \cup Statuses
        /\ \A u \in Users : account[u].auth_epoch \in Nat
    BY StepMoves DEF AllShaped, Typed, SessionsOK, TypeOK, Account
  <1>1. CASE request'[r] = Idle
    BY <1>1, IdleType DEF HeldBy, RotationHeld, EpochHeld, ScanHeld, TokenHeld, CountHeld
  <1>2. CASE DataSame /\ Fresh(r)
    <2>1. account' = account /\ session' = session /\ token' = token
      BY <1>2 DEF DataSame
    <2>2. RotationHeld(r)'
      BY <1>0, <1>2, <2>1 DEF Fresh, RotationHeld
    <2>3. EpochHeld(r)' /\ ScanHeld(r)' /\ CountHeld(r)'
      BY <1>2 DEF Fresh, EpochHeld, ScanHeld, CountHeld
    <2>4. TokenHeld(r)'
      BY <1>0, <1>2, <2>1 DEF Fresh, TokenHeld, OpenTokens
    <2> QED
      BY <2>2, <2>3, <2>4 DEF HeldBy
  <1>3. CASE DataSame /\ Proceeds(r)
    <2>1. account' = account /\ session' = session /\ token' = token
      BY <1>3 DEF DataSame
    <2>2. RotationHeld(r)'
      BY <1>0, <1>3, <2>1 DEF Proceeds, From, Kept, HeldBy, RotationHeld, Shaped
    <2>3. EpochHeld(r)'
      <3>1. SUFFICES ASSUME request'[r].phase \in {"touching", "issued"}
                     PROVE  request'[r].av <= account[request'[r].user].auth_epoch
        BY <2>1 DEF EpochHeld
      <3>2. request'[r].user = request[r].user /\ request[r].user \in Users
        BY <1>0, <1>3 DEF Proceeds, From, Kept, Shaped
      <3>3. CASE request'[r].phase = "touching"
        <4>1. request'[r].av = account[request[r].user].auth_epoch
          BY <1>3, <3>3 DEF Proceeds, From
        <4>2. account[request[r].user].auth_epoch \in Nat
          BY <1>0, <3>2
        <4>3. QED
          BY <3>2, <4>1, <4>2
      <3>4. CASE request'[r].phase = "issued"
        <4>1. request[r].phase = "touching" /\ request'[r].av = request[r].av
          BY <1>3, <3>4 DEF Proceeds, From, Kept
        <4>2. QED
          BY <3>2, <4>1 DEF HeldBy, EpochHeld
      <3>5. QED
        BY <3>1, <3>3, <3>4
    <2>4. ScanHeld(r)'
      BY <1>3, <2>1 DEF Proceeds, From, Kept, ScanHeld, OpenSessions
    <2>5. TokenHeld(r)'
      BY <1>0, <1>3, <2>1 DEF Proceeds, From, Kept, HeldBy, TokenHeld, Shaped, OpenTokens
    <2>6. CountHeld(r)'
      <3>1. Administrators' = Administrators
        BY <2>1 DEF Administrators
      <3>2. request'[r].user = request[r].user /\ request'[r].change = request[r].change
        BY <1>3 DEF Proceeds, Kept
      <3>3. LosesAdministrator(r)' = LosesAdministrator(r)
        BY <3>1, <3>2 DEF LosesAdministrator
      <3>4. request[r].change = Unchanged => ~LosesAdministrator(r)
        BY <1>0 DEF LosesAdministrator, Unchanged, Roles, Statuses
      <3>5. CASE request[r].phase \in {"ending", "discarding"}
        BY <1>0, <3>3, <3>4, <3>5 DEF CountHeld, Shaped
      <3>6. CASE From(r, "selecting", "scanning") /\ ~LosesAdministrator(r)
        BY <3>3, <3>6 DEF CountHeld
      <3>7. CASE From(r, "counting", "scanning") /\ Cardinality(Administrators) > 1
        <4>1. request[r].user \in Users
          BY <1>0, <3>7 DEF From, Shaped
        <4> QED
          BY <3>1, <3>2, <3>7, <4>1, AnotherAdministrator DEF CountHeld
      <3>8. CASE From(r, "scanning", "scanned")
        BY <3>1, <3>2, <3>3, <3>8 DEF CountHeld, From, HeldBy
      <3>9. CASE request'[r].phase \notin {"scanning", "scanned"}
        BY <3>9 DEF CountHeld
      <3> QED
        BY <1>3, <3>5, <3>6, <3>7, <3>8, <3>9 DEF Proceeds, From
    <2> QED
      BY <2>2, <2>3, <2>4, <2>5, <2>6 DEF HeldBy
  <1> QED
    BY <1>0, <1>1, <1>2, <1>3 DEF Moves

(* Who commits a new session leaves alone what others hold: it has locked   *)
(* the user, and the session it replaces.                                   *)
LEMMA HeldPastIssue ==
    ASSUME SessionsOK, TypeOK, AllShaped, LockInv,
           NEW r \in Requests, NEW q \in Requests \ {r}, HeldBy(q), request'[q] = request[q],
           NEW s \in SessionIds, CommitIssue(r, s)
    PROVE  HeldBy(q)'
  <1> DEFINE x == request[r]
             y == request[q]
  <1>1. /\ x.phase = "issued" /\ session[s].state = "none"
        /\ account' = account /\ token' = token
        /\ session'[s].state = "open" /\ session'[s].user = x.user
        /\ \A p \in SessionIds \ {s} :
             /\ session'[p].user = session[p].user
             /\ session'[p].state = IF p = x.session THEN "revoked" ELSE session[p].state
    BY IssueRows
  <1>2. /\ None \notin SessionIds /\ y.session \in SessionIds \cup {None}
        /\ x.session \in SessionIds \cup {None}
        /\ Shaped(y) /\ Shaped(x) /\ y' = y
    BY DEF SessionsOK, TypeOK, Request, AllShaped
  <1>3. EpochHeld(q)' /\ TokenHeld(q)' /\ CountHeld(q)'
    BY <1>1 DEF HeldBy, EpochHeld, TokenHeld, CountHeld, LosesAdministrator, Administrators
  <1>4. x.session # None /\ y.session = x.session => y.phase = "consuming"
    BY <1>1, <1>2 DEF LockInv, HoldsSession, Shaped
  <1>5. y.phase = "scanned" => y.user # x.user /\ x.session \notin y.sessions
    <2>1. x.user \in Users
      BY <1>1, <1>2 DEF Shaped
    <2>2. y.phase = "scanned" => y.user # x.user
      BY <1>1, <2>1 DEF LockInv, HoldsUser
    <2>3. x.session \in SessionIds => x.session \notin y.sessions
      BY <1>1 DEF LockInv, HoldsSession
    <2>4. y.sessions \subseteq SessionIds
      BY DEF TypeOK, Request
    <2> QED
      BY <2>2, <2>3, <2>4
  <1>6. RotationHeld(q)'
    <2>1. CASE y.session = None
      BY <1>2, <2>1 DEF RotationHeld
    <2>2. CASE y.session # None
      <3> DEFINE p == y.session
      <3>1. /\ session[p].state # "none" /\ session[p].user = y.user
            /\ y.phase # "consuming" => session[p].state = "open"
            /\ session[p].state = "open" => y.role = account[y.user].role
            /\ y.phase \in {"touching", "issued"} => y.av = account[y.user].auth_epoch
        BY <2>2 DEF HeldBy, RotationHeld
      <3>2. p \in SessionIds \ {s}
        BY <1>1, <1>2, <2>2, <3>1
      <3>3. /\ session'[p].user = session[p].user
            /\ session'[p].state = IF p = x.session THEN "revoked" ELSE session[p].state
        BY <1>1, <3>2
      <3>4. p = x.session => y.phase = "consuming"
        BY <1>4, <2>2
      <3> HIDE DEF x
      <3> QED
        BY <1>1, <1>2, <3>1, <3>3, <3>4 DEF RotationHeld
    <2> QED
      BY <2>1, <2>2
  <1>7. ScanHeld(q)'
    <2>1. CASE y.phase # "scanned"
      BY <1>2, <2>1 DEF ScanHeld
    <2>2. CASE y.phase = "scanned"
      <3>1. y.sessions = OpenSessions(y.user)
        BY <2>2 DEF HeldBy, ScanHeld
      <3>2. ASSUME NEW p \in SessionIds
            PROVE  p \in OpenSessions(y.user)' <=> p \in OpenSessions(y.user)
        <4>1. CASE p = s
          BY <1>1, <1>2, <1>5, <2>2, <4>1 DEF OpenSessions
        <4>2. CASE p # s
          BY <1>1, <1>2, <1>5, <2>2, <3>1, <4>2 DEF OpenSessions
        <4> QED
          BY <4>1, <4>2
      <3>3. OpenSessions(y.user)' = OpenSessions(y.user)
        BY <3>2 DEF OpenSessions
      <3> QED
        BY <1>2, <3>1, <3>3 DEF ScanHeld
    <2> QED
      BY <2>1, <2>2
  <1> QED
    BY <1>3, <1>6, <1>7 DEF HeldBy

(* Who commits a revocation has locked the user, its open sessions, the     *)
(* tokens and, for a change of a member, the members.                       *)
LEMMA HeldPastRevocation ==
    ASSUME SessionsOK, TypeOK, AllShaped, LockInv,
           NEW r \in Requests, NEW q \in Requests \ {r}, HeldBy(r), HeldBy(q),
           request'[q] = request[q], CommitRevocation(r)
    PROVE  HeldBy(q)'
  <1> DEFINE x == request[r]
             y == request[q]
  <1>1. /\ x.phase = "scanned" /\ x.user \in Users
        /\ \A v \in Users \ {x.user} : account'[v] = account[v]
        /\ account'[x.user].auth_epoch = account[x.user].auth_epoch + 1
        /\ account'[x.user].role = IF x.change.role = None THEN account[x.user].role
                                   ELSE x.change.role
        /\ account'[x.user].status = IF x.change.status = None THEN account[x.user].status
                                     ELSE x.change.status
        /\ \A p \in SessionIds :
             /\ session'[p].user = session[p].user
             /\ session'[p].state = IF p \in x.sessions THEN "revoked" ELSE session[p].state
        /\ \A t \in TokenIds :
             /\ token'[t].user = token[t].user
             /\ token'[t].state = IF t = x.token THEN "used"
                                  ELSE IF t \in x.tokens THEN "revoked" ELSE token[t].state
    BY RevocationRows
  <1>2. /\ None \notin SessionIds \cup TokenIds \cup Roles \cup Statuses
        /\ y.session \in SessionIds \cup {None} /\ y.token \in TokenIds \cup {None}
        /\ x.sessions \subseteq SessionIds /\ y.sessions \subseteq SessionIds
        /\ y.tokens \subseteq TokenIds /\ x.tokens \subseteq TokenIds
        /\ x.token \in TokenIds \cup {None}
        /\ Shaped(y) /\ Shaped(x) /\ y' = y
    BY DEF SessionsOK, TypeOK, Request, AllShaped
  <1>3. x.sessions = OpenSessions(x.user)
    BY <1>1 DEF HeldBy, ScanHeld
  <1>4. \A u \in Users : account[u].auth_epoch \in Nat
    BY DEF TypeOK, Account
  <1>5. y.phase # "idle" => y.user \in Users
    BY <1>2 DEF Shaped
  <1>6. RotationHeld(q)'
    <2>1. CASE y.session = None
      BY <1>2, <2>1 DEF RotationHeld
    <2>2. CASE y.session # None
      <3> DEFINE p == y.session
      <3>1. /\ session[p].state # "none" /\ session[p].user = y.user
            /\ y.phase # "consuming" => session[p].state = "open"
            /\ session[p].state = "open" => y.role = account[y.user].role
            /\ y.phase \in {"touching", "issued"} => y.av = account[y.user].auth_epoch
        BY <2>2 DEF HeldBy, RotationHeld
      <3>2. /\ p \in SessionIds /\ y.user \in Users
            /\ y.phase \in {"consuming", "issuing", "touching", "issued"}
        BY <1>2, <1>5, <2>2 DEF Shaped
      <3>3. /\ session'[p].user = session[p].user
            /\ session'[p].state = IF p \in x.sessions THEN "revoked" ELSE session[p].state
        BY <1>1, <3>2
      <3>4. y.phase # "consuming" => p \notin x.sessions
        BY <3>2 DEF LockInv, HoldsSession
      <3>5. session'[p].state = "open" => y.user # x.user
        BY <1>3, <3>1, <3>2, <3>3 DEF OpenSessions
      <3>6. session'[p].state = "open" => account'[y.user] = account[y.user]
        BY <1>1, <3>2, <3>5
      <3> HIDE DEF x
      <3> QED
        BY <1>2, <3>1, <3>3, <3>4, <3>6 DEF RotationHeld
    <2> QED
      BY <2>1, <2>2
  <1>7. EpochHeld(q)'
    <2>1. CASE y.phase \in {"touching", "issued"}
      <3>1. y.user \in Users /\ y.av <= account[y.user].auth_epoch /\ y.av \in Nat
        BY <1>5, <2>1 DEF HeldBy, EpochHeld, TypeOK, Request
      <3>2. account[y.user].auth_epoch <= account'[y.user].auth_epoch
            /\ account'[y.user].auth_epoch \in Nat
        BY <1>1, <1>4, <3>1
      <3>3. y.av <= account'[y.user].auth_epoch
        BY <1>4, <3>1, <3>2
      <3> QED
        BY <1>2, <3>3 DEF EpochHeld
    <2> QED
      BY <1>2, <2>1 DEF EpochHeld
  <1>8. ScanHeld(q)'
    <2>1. CASE y.phase = "scanned"
      <3>1. y.user # x.user
        BY <1>1, <2>1 DEF LockInv, HoldsUser
      <3>2. y.sessions = OpenSessions(y.user)
        BY <2>1 DEF HeldBy, ScanHeld
      <3>3. OpenSessions(y.user)' = OpenSessions(y.user)
        BY <1>1, <1>2, <1>3, <3>1 DEF OpenSessions
      <3> QED
        BY <1>2, <3>2, <3>3 DEF ScanHeld
    <2> QED
      BY <1>2, <2>1 DEF ScanHeld
  <1>9. TokenHeld(q)'
    <2>1. ASSUME NEW t \in TokenIds, HoldsToken(q, t)
          PROVE  token'[t].state = token[t].state
      <3>1. ~HoldsToken(r, t)
        BY <2>1 DEF LockInv
      <3>2. t # x.token /\ t \notin x.tokens
        BY <1>1, <3>1 DEF HoldsToken
      <3> QED
        BY <1>1, <3>2
    <2>2. \A t \in y.tokens : token'[t].state = "open"
      BY <1>2, <2>1 DEF HeldBy, TokenHeld, HoldsToken
    <2>3. CASE y.token # None
      <3>1. /\ token[y.token].state # "none" /\ token[y.token].user = y.user
            /\ y.phase # "redeeming" => token[y.token].state = "open"
        BY <2>3 DEF HeldBy, TokenHeld
      <3>2. token'[y.token].state # "none" /\ token'[y.token].user = y.user
        BY <1>1, <1>2, <2>3, <3>1
      <3>3. y.phase # "redeeming" => token'[y.token].state = "open"
        BY <1>2, <2>1, <2>3, <3>1 DEF HoldsToken
      <3> QED
        BY <1>2, <2>2, <3>2, <3>3 DEF TokenHeld
    <2> QED
      BY <1>2, <2>2, <2>3 DEF TokenHeld
  <1>10. CountHeld(q)'
    <2>1. CASE y.change = Unchanged
      BY <1>2, <2>1 DEF CountHeld, LosesAdministrator, Unchanged, Roles, Statuses
    <2>2. CASE y.change # Unchanged /\ y.phase \in {"scanning", "scanned"}
      <3>1. x.change = Unchanged
        BY <1>1, <2>2 DEF LockInv, HoldsMembers
      <3>2. \A v \in Users : account'[v].role = account[v].role
                             /\ account'[v].status = account[v].status
        BY <1>1, <3>1 DEF Unchanged
      <3>3. Administrators' = Administrators
        BY <3>2 DEF Administrators
      <3> QED
        BY <1>2, <3>3 DEF HeldBy, CountHeld, LosesAdministrator
    <2>3. CASE y.phase \notin {"scanning", "scanned"}
      BY <1>2, <2>3 DEF CountHeld
    <2> QED
      BY <2>1, <2>2, <2>3
  <1> QED
    BY <1>6, <1>7, <1>8, <1>9, <1>10 DEF HeldBy

LEMMA HeldPastReissue ==
    ASSUME SessionsOK, TypeOK, AllShaped, LockInv,
           NEW r \in Requests, NEW q \in Requests \ {r}, HeldBy(q), request'[q] = request[q],
           NEW new \in TokenIds, CommitReissue(r, new)
    PROVE  HeldBy(q)'
  <1> DEFINE x == request[r]
             y == request[q]
  <1>1. /\ token[new].state = "none" /\ x.phase = "reissuing"
        /\ account' = account /\ session' = session
        /\ \A t \in TokenIds \ {new} :
             /\ token'[t].user = token[t].user
             /\ token'[t].state = IF t \in x.tokens THEN "revoked" ELSE token[t].state
    BY ReissueRows
  <1>2. y' = y /\ y.token \in TokenIds \cup {None} /\ y.tokens \subseteq TokenIds
    BY DEF TypeOK, Request
  <1>3. RotationHeld(q)' /\ EpochHeld(q)' /\ ScanHeld(q)' /\ CountHeld(q)'
    BY <1>1 DEF HeldBy, RotationHeld, EpochHeld, ScanHeld, CountHeld, LosesAdministrator,
                Administrators, OpenSessions
  <1>4. ASSUME NEW t \in TokenIds, HoldsToken(q, t), token[t].state # "none"
        PROVE  token'[t].state = token[t].state
    BY <1>1, <1>4 DEF LockInv, HoldsToken
  <1>5. \A t \in y.tokens : token'[t].state = "open"
    BY <1>2, <1>4 DEF HeldBy, TokenHeld, HoldsToken
  <1>6. ASSUME y.token # None
        PROVE  TokenHeld(q)'
    <2>1. /\ token[y.token].state # "none" /\ token[y.token].user = y.user
          /\ y.phase # "redeeming" => token[y.token].state = "open"
      BY <1>6 DEF HeldBy, TokenHeld
    <2>2. token'[y.token].state # "none" /\ token'[y.token].user = y.user
      BY <1>1, <1>2, <1>6, <2>1
    <2>3. y.phase # "redeeming" => token'[y.token].state = "open"
      BY <1>2, <1>4, <1>6, <2>1 DEF HoldsToken
    <2> QED
      BY <1>2, <1>5, <2>2, <2>3 DEF TokenHeld
  <1>7. TokenHeld(q)'
    BY <1>2, <1>5, <1>6 DEF TokenHeld
  <1> QED
    BY <1>3, <1>7 DEF HeldBy

LEMMA HeldStep ==
    ASSUME SessionsOK, TypeOK, AllShaped, RowsInv, LockInv, Held, NEW r \in Requests, Step(r)
    PROVE  Held'
  <1>1. \A q \in Requests : HeldBy(q)
    BY DEF Held, HeldBy
  <1>2. HeldBy(r)'
    BY <1>1, OwnHeld
  <1>3. ASSUME NEW q \in Requests \ {r}
        PROVE  HeldBy(q)'
    <2>1. request'[q] = request[q]
      BY StepMoves DEF Typed, Others
    <2>2. CASE DataSame
      <3>1. account' = account /\ session' = session /\ token' = token
        BY <2>2 DEF DataSame
      <3>2. RotationHeld(q)' /\ EpochHeld(q)'
        BY <1>1, <2>1, <3>1 DEF HeldBy, RotationHeld, EpochHeld
      <3>3. ScanHeld(q)' /\ TokenHeld(q)'
        BY <1>1, <2>1, <3>1 DEF HeldBy, ScanHeld, TokenHeld, OpenSessions
      <3>4. CountHeld(q)'
        <4>1. /\ Administrators' = Administrators
              /\ LosesAdministrator(q)' = LosesAdministrator(q)
          BY <2>1, <3>1 DEF Administrators, LosesAdministrator
        <4> QED
          BY <1>1, <2>1, <4>1 DEF HeldBy, CountHeld
      <3> QED
        BY <3>2, <3>3, <3>4 DEF HeldBy
    <2>3. ASSUME NEW s \in SessionIds, CommitIssue(r, s)
          PROVE  HeldBy(q)'
      BY <1>1, <2>1, <2>3, HeldPastIssue
    <2>4. CASE CommitRevocation(r)
      BY <1>1, <2>1, <2>4, HeldPastRevocation
    <2>5. ASSUME NEW t \in TokenIds, CommitReissue(r, t)
          PROVE  HeldBy(q)'
      BY <1>1, <2>1, <2>5, HeldPastReissue
    <2> QED
      BY <2>2, <2>3, <2>4, <2>5, StepMoves
  <1>4. \A q \in Requests : HeldBy(q)'
    BY <1>2, <1>3
  <1> QED
    BY <1>4 DEF Held, HeldBy

-----------------------------------------------------------------------------
(* The properties                                                           *)

LEMMA AcceptedStep ==
    ASSUME SessionsOK, TypeOK, AllShaped, RowsInv, Families, Held, AcceptedIsCurrent,
           NEW r \in Requests, Step(r)
    PROVE  AcceptedIsCurrent'
  <1>0. None \notin SessionIds
    BY DEF SessionsOK
  <1>1. CASE DataSame
    BY <1>1 DEF DataSame, AcceptedIsCurrent, Accepted, Children
  <1>2. ASSUME NEW s \in SessionIds, CommitIssue(r, s)
        PROVE  AcceptedIsCurrent'
    <2> DEFINE x == request[r]
    <2>1. /\ x.phase = "issued" /\ session[s].state = "none"
          /\ account' = account
          /\ session'[s].state = "open" /\ session'[s].user = x.user
          /\ session'[s].parent = x.session
          /\ session'[s].role = x.role /\ session'[s].av = x.av
          /\ \A q \in SessionIds \ {s} :
               /\ session'[q].user = session[q].user /\ session'[q].parent = session[q].parent
               /\ session'[q].role = session[q].role /\ session'[q].av = session[q].av
               /\ session'[q].state = IF q = x.session THEN "revoked" ELSE session[q].state
      BY <1>2, IssueRows
    <2>2. x.session # None =>
            /\ session[x.session].state = "open" /\ session[x.session].user = x.user
            /\ x.role = account[x.user].role /\ x.av = account[x.user].auth_epoch
      BY <2>1 DEF Held, RotationHeld
    <2>3. session[s].parent = None
      BY <2>1 DEF RowsInv
    <2> HIDE DEF x
    <2>4. ASSUME NEW q \in SessionIds \ {s}
          PROVE  Accepted(q)' <=> Accepted(q)
      <3>1. session'[q].state = "none" <=> session[q].state = "none"
        BY <1>0, <2>1, <2>2
      <3> QED
        BY <2>1, <3>1 DEF Accepted
    <2>5. ASSUME NEW q \in SessionIds, Accepted(q)'
          PROVE  session'[q].state = "open" \/ \E p \in Children(q)' : Accepted(p)'
      <3>1. CASE q = s
        BY <2>1, <3>1
      <3>2. CASE q # s /\ q = x.session
        <4>1. Accepted(q)
          BY <2>4, <2>5, <3>2
        <4>2. account[x.user].status = "active"
          BY <1>0, <2>2, <3>2, <4>1 DEF Accepted
        <4>3. Accepted(s)'
          BY <1>0, <2>1, <2>2, <3>2, <4>2 DEF Accepted
        <4>4. s \in Children(q)'
          BY <2>1, <3>2 DEF Children
        <4> QED
          BY <4>3, <4>4
      <3>3. CASE q # s /\ q # x.session
        <4>1. Accepted(q) /\ session'[q].state = session[q].state
          BY <2>1, <2>4, <2>5, <3>3
        <4>2. ASSUME NEW p \in Children(q), Accepted(p)
              PROVE  p \in Children(q)' /\ Accepted(p)'
          <5>1. p \in SessionIds \ {s}
            BY <1>0, <2>3, <4>2 DEF Children
          <5> QED
            BY <2>1, <2>4, <4>2, <5>1 DEF Children
        <4> QED
          BY <4>1, <4>2 DEF AcceptedIsCurrent
      <3> QED
        BY <3>1, <3>2, <3>3
    <2> QED
      BY <2>5 DEF AcceptedIsCurrent
  <1>3. CASE CommitRevocation(r)
    <2> DEFINE x == request[r]
    <2>1. /\ x.phase = "scanned" /\ x.user \in Users
          /\ \A v \in Users \ {x.user} : account'[v] = account[v]
          /\ account'[x.user].auth_epoch = account[x.user].auth_epoch + 1
          /\ \A q \in SessionIds :
               /\ session'[q].user = session[q].user /\ session'[q].parent = session[q].parent
               /\ session'[q].role = session[q].role /\ session'[q].av = session[q].av
               /\ session'[q].state = IF q \in x.sessions THEN "revoked" ELSE session[q].state
      BY <1>3, RevocationRows
    <2>2. x.sessions = OpenSessions(x.user)
      BY <2>1 DEF Held, ScanHeld
    <2> HIDE DEF x
    <2>3. ASSUME NEW q \in SessionIds, Accepted(q)'
          PROVE  session[q].state # "none" /\ session[q].user # x.user
      <3>1. session[q].state # "none"
        BY <2>1, <2>2, <2>3 DEF Accepted, OpenSessions
      <3>2. session[q].user \in Users /\ session[q].av <= account[session[q].user].auth_epoch
        BY <3>1 DEF RowsInv
      <3>3. session[q].av = account'[session[q].user].auth_epoch
        BY <2>1, <2>3 DEF Accepted
      <3>4. session[q].av \in Nat /\ account[session[q].user].auth_epoch \in Nat
        BY <3>2 DEF TypeOK, Session, Account
      <3>5. CASE session[q].user = x.user
        BY <2>1, <3>2, <3>3, <3>4, <3>5
      <3> QED
        BY <3>1, <3>5
    <2>4. ASSUME NEW q \in SessionIds, session[q].state # "none", session[q].user # x.user
          PROVE  (Accepted(q)' <=> Accepted(q)) /\ session'[q].state = session[q].state
      <3>1. session[q].user \in Users
        BY <2>4 DEF RowsInv
      <3>2. q \notin x.sessions
        BY <2>2, <2>4 DEF OpenSessions
      <3>3. /\ account'[session[q].user] = account[session[q].user]
            /\ session'[q].state = session[q].state
        BY <2>1, <2>4, <3>1, <3>2
      <3> QED
        BY <2>1, <3>3 DEF Accepted
    <2>5. ASSUME NEW q \in SessionIds, Accepted(q)'
          PROVE  session'[q].state = "open" \/ \E p \in Children(q)' : Accepted(p)'
      <3>1. session[q].state # "none" /\ session[q].user # x.user
        BY <2>3, <2>5
      <3>2. Accepted(q) /\ session'[q].state = session[q].state
        BY <2>4, <2>5, <3>1
      <3>3. ASSUME NEW p \in Children(q), Accepted(p)
            PROVE  p \in Children(q)' /\ Accepted(p)'
        <4>1. p \in SessionIds /\ session[p].parent = q
          BY <3>3 DEF Children
        <4>2. session[p].state # "none" /\ session[p].user = session[q].user
          BY <1>0, <3>3, <4>1 DEF RowsInv, Accepted
        <4> QED
          BY <2>1, <2>4, <3>1, <3>3, <4>1, <4>2 DEF Children
      <3> QED
        BY <3>2, <3>3 DEF AcceptedIsCurrent
    <2> QED
      BY <2>5 DEF AcceptedIsCurrent
  <1>4. ASSUME NEW t \in TokenIds, CommitReissue(r, t)
        PROVE  AcceptedIsCurrent'
    <2>1. account' = account /\ session' = session
      BY <1>4, ReissueRows
    <2> QED
      BY <2>1 DEF AcceptedIsCurrent, Accepted, Children
  <1> QED
    BY <1>1, <1>2, <1>3, <1>4, StepMoves

LEMMA AdministratorStep ==
    ASSUME SessionsOK, TypeOK, AllShaped, RowsInv, Held, HasAdministrator,
           NEW r \in Requests, Step(r)
    PROVE  HasAdministrator'
  <1>1. CASE account' = account
    BY <1>1 DEF HasAdministrator, Administrators
  <1>2. CASE CommitRevocation(r)
    <2> DEFINE x == request[r]
    <2>1. /\ x.phase = "scanned" /\ x.user \in Users
          /\ \A v \in Users \ {x.user} : account'[v] = account[v]
          /\ account'[x.user].role = IF x.change.role = None THEN account[x.user].role
                                     ELSE x.change.role
          /\ account'[x.user].status = IF x.change.status = None THEN account[x.user].status
                                       ELSE x.change.status
      BY <1>2, RevocationRows
    <2>2. x.change \in Change /\ None \notin Roles \cup Statuses
      BY DEF TypeOK, Request, SessionsOK
    <2>3. CASE LosesAdministrator(r)
      <3>1. PICK v \in Administrators : v # x.user
        BY <2>1, <2>3 DEF Held, CountHeld
      <3>2. v \in Administrators'
        BY <2>1, <3>1 DEF Administrators
      <3> QED
        BY <3>2 DEF HasAdministrator
    <2>4. CASE ~LosesAdministrator(r)
      <3>1. PICK v \in Administrators : TRUE
        BY DEF HasAdministrator
      <3>2. CASE v # x.user
        <4>1. v \in Administrators'
          BY <2>1, <3>1, <3>2 DEF Administrators
        <4> QED
          BY <4>1 DEF HasAdministrator
      <3>3. CASE v = x.user
        <4>1. /\ x.change.role \in {None, "tenant_administrator"}
              /\ x.change.status \in {None, "active"}
          BY <2>2, <2>4, <3>1, <3>3 DEF LosesAdministrator, Change, Roles, Statuses
        <4>2. account[v].role = "tenant_administrator" /\ account[v].status = "active"
          BY <3>1 DEF Administrators
        <4>3. account'[v].role = "tenant_administrator" /\ account'[v].status = "active"
          BY <2>1, <3>3, <4>1, <4>2
        <4>4. v \in Administrators'
          BY <2>1, <3>3, <4>3 DEF Administrators
        <4> QED
          BY <4>4 DEF HasAdministrator
      <3> QED
        BY <3>2, <3>3
    <2> QED
      BY <2>3, <2>4
  <1>3. ASSUME NEW s \in SessionIds, CommitIssue(r, s)
        PROVE  account' = account
    BY <1>3 DEF CommitIssue
  <1>4. ASSUME NEW t \in TokenIds, CommitReissue(r, t)
        PROVE  account' = account
    BY <1>4 DEF CommitReissue
  <1>5. DataSame => account' = account
    BY DEF DataSame
  <1> QED
    BY <1>1, <1>2, <1>3, <1>4, <1>5, StepMoves

Used(u) == {t \in TokenIds : token[t].state = "used" /\ token[t].user = u}

LEMMA RecoveredStep ==
    ASSUME SessionsOK, TypeOK, AllShaped, RowsInv, Held, RecoveredOncePerToken,
           NEW r \in Requests, Step(r)
    PROVE  RecoveredOncePerToken'
  <1>0. /\ \A u \in Users : IsFiniteSet(Used(u)) /\ account[u].password = Cardinality(Used(u))
        /\ None \notin TokenIds
    <2>1. \A u \in Users : IsFiniteSet(Used(u))
      BY FS_Subset DEF SessionsOK, Used
    <2> QED
      BY <2>1 DEF RecoveredOncePerToken, Used, SessionsOK
  <1>1. CASE account' = account /\ \A u \in Users : Used(u)' = Used(u)
    BY <1>0, <1>1 DEF RecoveredOncePerToken, Used
  <1>2. DataSame => account' = account /\ \A u \in Users : Used(u)' = Used(u)
    BY DEF DataSame, Used
  <1>3. ASSUME NEW s \in SessionIds, CommitIssue(r, s)
        PROVE  account' = account /\ \A u \in Users : Used(u)' = Used(u)
    BY <1>3 DEF CommitIssue, Used
  <1>4. ASSUME NEW t \in TokenIds, CommitReissue(r, t)
        PROVE  account' = account /\ \A u \in Users : Used(u)' = Used(u)
    <2>1. \A q \in request[r].tokens : token[q].state = "open"
      BY DEF Held, TokenHeld
    <2> QED
      BY <1>4, <2>1, ReissueRows DEF Used
  <1>5. CASE CommitRevocation(r)
    <2> DEFINE x == request[r]
    <2>1. /\ x.phase = "scanned" /\ x.user \in Users
          /\ \A v \in Users \ {x.user} : account'[v] = account[v]
          /\ account'[x.user].password = IF x.token = None THEN account[x.user].password
                                         ELSE account[x.user].password + 1
          /\ \A t \in TokenIds :
               /\ token'[t].user = token[t].user
               /\ token'[t].state = IF t = x.token THEN "used"
                                    ELSE IF t \in x.tokens THEN "revoked" ELSE token[t].state
      BY <1>5, RevocationRows
    <2>2. /\ x.token \in TokenIds \cup {None}
          /\ \A t \in x.tokens : token[t].state = "open"
          /\ x.token # None => token[x.token].state = "open" /\ token[x.token].user = x.user
      BY <2>1 DEF Held, TokenHeld, TypeOK, Request
    <2> HIDE DEF x
    <2>3. ASSUME NEW u \in Users
          PROVE  account'[u].password = Cardinality(Used(u)')
      <3>1. CASE u # x.user \/ x.token = None
        <4>1. Used(u)' = Used(u)
          BY <1>0, <2>1, <2>2, <3>1 DEF Used
        <4>2. account'[u].password = account[u].password
          BY <2>1, <3>1
        <4> QED
          BY <1>0, <4>1, <4>2
      <3>2. CASE u = x.user /\ x.token # None
        <4>1. Used(u)' = Used(u) \cup {x.token} /\ x.token \notin Used(u)
          BY <1>0, <2>1, <2>2, <3>2 DEF Used
        <4>2. Cardinality(Used(u) \cup {x.token}) = Cardinality(Used(u)) + 1
          BY <1>0, <4>1, FS_AddElement
        <4> QED
          BY <1>0, <2>1, <3>2, <4>1, <4>2
      <3> QED
        BY <3>1, <3>2
    <2> QED
      BY <2>3 DEF RecoveredOncePerToken, Used
  <1> QED
    BY <1>1, <1>2, <1>3, <1>4, <1>5, StepMoves

LEMMA RevocationStep ==
    ASSUME SessionsOK, TypeOK, AllShaped, RowsInv, Held, NEW r \in Requests, Step(r)
    PROVE  \A u \in Users : account'[u].auth_epoch # account[u].auth_epoch =>
               \A s \in SessionIds : session'[s].user = u => session'[s].state # "open"
  <1>1. CASE CommitRevocation(r)
    <2> DEFINE x == request[r]
    <2>1. /\ x.phase = "scanned" /\ x.user \in Users
          /\ \A v \in Users \ {x.user} : account'[v] = account[v]
          /\ \A q \in SessionIds :
               /\ session'[q].user = session[q].user
               /\ session'[q].state = IF q \in x.sessions THEN "revoked" ELSE session[q].state
      BY <1>1, RevocationRows
    <2>2. x.sessions = OpenSessions(x.user)
      BY <2>1 DEF Held, ScanHeld
    <2> HIDE DEF x
    <2>3. \A s \in SessionIds : session'[s].user = x.user => session'[s].state # "open"
      BY <2>1, <2>2 DEF OpenSessions
    <2> QED
      BY <2>1, <2>3
  <1>2. CASE account' = account
    BY <1>2
  <1>3. ASSUME NEW s \in SessionIds, CommitIssue(r, s)
        PROVE  account' = account
    BY <1>3 DEF CommitIssue
  <1>4. ASSUME NEW t \in TokenIds, CommitReissue(r, t)
        PROVE  account' = account
    BY <1>4 DEF CommitReissue
  <1>5. DataSame => account' = account
    BY DEF DataSame
  <1> QED
    BY <1>1, <1>2, <1>3, <1>4, <1>5, StepMoves

-----------------------------------------------------------------------------
(* The invariant and the theorems                                           *)

IInv ==
    /\ TypeOK
    /\ AllShaped
    /\ LockInv
    /\ RowsInv
    /\ Families
    /\ Held
    /\ AcceptedIsCurrent
    /\ HasAdministrator
    /\ RecoveredOncePerToken

LEMMA Initially ==
    ASSUME SessionsOK, Init
    PROVE  IInv
  <1>0. None \notin Users \cup SessionIds \cup TokenIds
    BY DEF SessionsOK
  <1>1. \A r \in Requests :
          /\ request[r] = Idle /\ request[r].phase = "idle" /\ request[r].session = None
          /\ request[r].token = None /\ request[r].change = Unchanged
          /\ request[r].sessions = {} /\ request[r].tokens = {}
    <2>1. \A r \in Requests : request[r] = Idle
      BY DEF Init
    <2> QED
      BY <2>1, IdleType
  <1>2. \A s \in SessionIds : session[s].state = "none" /\ session[s].parent = None
    BY DEF Init
  <1>3. \A t \in TokenIds : token[t].state = "none"
    BY DEF Init
  <1>4. \A u \in Users : account[u].password = 0
    BY DEF Init
  <1>5. TypeOK
    <2>1. request \in [Requests -> Request]
      <3>1. request = [r \in Requests |-> Idle] /\ Idle \in Request
        BY IdleType DEF Init
      <3> HIDE DEF Idle
      <3> QED
        BY <3>1
    <2>2. account \in [Users -> Account]
      BY DEF Init, Account, Statuses
    <2>3. session \in [SessionIds -> Session]
      BY DEF Init, Session, Roles
    <2>4. token \in [TokenIds -> Token]
      BY DEF Init, Token
    <2> QED
      BY <2>1, <2>2, <2>3, <2>4 DEF TypeOK
  <1>6. AllShaped
    BY <1>1 DEF AllShaped, Shaped
  <1>7. LockInv
    BY <1>0, <1>1 DEF LockInv, HoldsSession, HoldsUser, HoldsToken, HoldsMembers
  <1>8. RowsInv /\ Families
    BY <1>0, <1>2, <1>3 DEF RowsInv, Families
  <1>9. Held
    BY <1>1 DEF Held, RotationHeld, EpochHeld, ScanHeld, TokenHeld, CountHeld
  <1>10. AcceptedIsCurrent
    BY <1>2 DEF AcceptedIsCurrent, Accepted
  <1>11. HasAdministrator
    BY DEF Init, HasAdministrator
  <1>12. RecoveredOncePerToken
    <2>1. \A u \in Users : {t \in TokenIds : token[t].state = "used" /\ token[t].user = u} = {}
      BY <1>3
    <2> QED
      BY <1>4, <2>1, FS_EmptySet DEF RecoveredOncePerToken
  <1> QED
    BY <1>5, <1>6, <1>7, <1>8, <1>9, <1>10, <1>11, <1>12 DEF IInv

LEMMA Inductive ==
    ASSUME SessionsOK, IInv, [Next]_vars
    PROVE  IInv'
  <1>1. CASE UNCHANGED vars
    <2>1. account' = account /\ session' = session /\ token' = token /\ request' = request
      BY <1>1 DEF vars
    <2>2. TypeOK' /\ AllShaped' /\ RowsInv' /\ Families' /\ HasAdministrator'
      BY <2>1 DEF IInv, TypeOK, AllShaped, RowsInv, Families, HasAdministrator, Administrators
    <2>3. LockInv'
      BY <2>1 DEF IInv, LockInv, HoldsSession, HoldsUser, HoldsToken, HoldsMembers
    <2>4. Held'
      <3>1. Administrators' = Administrators
        BY <2>1 DEF Administrators
      <3>2. \A r \in Requests : LosesAdministrator(r)' = LosesAdministrator(r)
        BY <2>1, <3>1 DEF LosesAdministrator
      <3>3. \A r \in Requests : CountHeld(r)'
        BY <2>1, <3>1, <3>2 DEF IInv, Held, CountHeld
      <3>4. \A r \in Requests : RotationHeld(r)' /\ EpochHeld(r)'
        BY <2>1 DEF IInv, Held, RotationHeld, EpochHeld
      <3>5. \A r \in Requests : ScanHeld(r)' /\ TokenHeld(r)'
        BY <2>1 DEF IInv, Held, ScanHeld, TokenHeld, OpenSessions
      <3> QED
        BY <3>3, <3>4, <3>5 DEF Held
    <2>5. AcceptedIsCurrent' /\ RecoveredOncePerToken'
      BY <2>1 DEF IInv, AcceptedIsCurrent, Accepted, Children, RecoveredOncePerToken
    <2> QED
      BY <2>2, <2>3, <2>4, <2>5 DEF IInv
  <1>2. ASSUME NEW r \in Requests, Step(r)
        PROVE  IInv'
    BY <1>2, TypeStep, ShapedStep, LockStep, RowsStep, HeldStep, AcceptedStep,
       AdministratorStep, RecoveredStep DEF IInv
  <1> QED
    BY <1>1, <1>2 DEF Next

LEMMA Invariance == Spec => []IInv
  BY SessionsOK, Initially, Inductive, PTL DEF Spec

(* Rows and requests keep their types.                                      *)
THEOREM SessionTypes == Spec => []TypeOK
  <1>1. IInv => TypeOK
    BY DEF IInv
  <1> QED
    BY <1>1, Invariance, PTL

(* A refresh token is exchanged at most once (refresh, service.py:119).     *)
THEOREM TokensRotateOnce == Spec => []RotatedOnce
  <1>1. IInv => RotatedOnce
    <2> SUFFICES ASSUME Families, NEW s \in SessionIds, Children(s) # {}
                 PROVE  session[s].state = "revoked" /\ Cardinality(Children(s)) = 1
      BY DEF IInv, RotatedOnce
    <2>1. PICK q \in SessionIds : session[q].parent = s
      BY DEF Children
    <2>2. Children(s) = {q}
      BY <2>1 DEF Children, Families
    <2> QED
      BY <2>1, <2>2, FS_Singleton DEF Families
  <1> QED
    BY <1>1, Invariance, PTL

(* The auth epoch and the revoked sessions agree (_bearer_principal).       *)
THEOREM AcceptedTokensAreCurrent == Spec => []AcceptedIsCurrent
  <1>1. IInv => AcceptedIsCurrent
    BY DEF IInv
  <1> QED
    BY <1>1, Invariance, PTL

(* The last active administrator stays (update_user).                       *)
THEOREM AnAdministratorStays == Spec => []HasAdministrator
  <1>1. IInv => HasAdministrator
    BY DEF IInv
  <1> QED
    BY <1>1, Invariance, PTL

(* A recovery token changes the password once (recover_password).           *)
THEOREM TokensRecoverOnce == Spec => []RecoveredOncePerToken
  <1>1. IInv => RecoveredOncePerToken
    BY DEF IInv
  <1> QED
    BY <1>1, Invariance, PTL

(* No session survives a revocation of its user, whatever was about to be   *)
(* issued (_issue_session, logout, _revoke_family).                         *)
THEOREM RevocationsAreComplete == Spec => RevocationIsComplete
  <1>1. IInv /\ [Next]_vars =>
          [\A u \in Users : account'[u].auth_epoch # account[u].auth_epoch =>
               \A s \in SessionIds : session'[s].user = u => session'[s].state # "open"]_vars
    <2> SUFFICES ASSUME IInv, NEW r \in Requests, Step(r)
                 PROVE  \A u \in Users : account'[u].auth_epoch # account[u].auth_epoch =>
                            \A s \in SessionIds : session'[s].user = u => session'[s].state # "open"
      BY DEF Next
    <2> QED
      BY SessionsOK, RevocationStep DEF IInv
  <1> QED
    BY <1>1, Invariance, PTL DEF Spec, RevocationIsComplete

-----------------------------------------------------------------------------
(* Console.                                                                 *)

(* Numbers that were not issued yet are fresh, and nobody holds them.       *)
PairsInv ==
    /\ \A s \in Pairs : s > issued => pair[s].presented = 0
    /\ \A s \in Pairs : pair[s].access = "revoked" => pair[s].refresh = "revoked"
    /\ \A s \in Pairs : s > issued => pair[s].access # "revoked"
    /\ held <= issued /\ renewal.of <= issued /\ renewal.pair <= issued
    /\ hook.rendered <= issued

(* A renewal that was answered brings a pair nobody uses yet, or was refused*)
(* for a token that is not good.                                            *)
RenewalInv ==
    /\ renewal.of = 0 => renewal.answer = "none"
    /\ renewal.answer = "none" => renewal.pair = 0
    /\ renewal.answer = "ok" => renewal.pair # 0
    /\ renewal.pair # 0 => pair[renewal.pair].presented = 0
    /\ renewal.pair # 0 => renewal.pair # held /\ renewal.pair # hook.rendered
    /\ renewal.answer = "refused" => pair[renewal.of].refresh # "good"

(* The token of the session held is unused unless it is being renewed.      *)
PresentedInv ==
    /\ RefreshedOnce
    /\ held # 0 /\ renewal.of # held => pair[held].presented = 0

(* The call whose fetch it is, of those that share it.                      *)
Leader(a) == ask[a].stage = "sent" /\ ask[a].fetch = a

(* A call that was sent has its fetch, its own or that of a read it shares. *)
AskInv ==
    \A a \in Asks :
       /\ ask[a].stage \in {"waiting", "ready"} => ask[a].result = "none" /\ ask[a].effects = 0
       /\ ask[a].stage = "sent" =>
            /\ ask[a].with # 0
            /\ ask[a].fetch \in Asks
            /\ Leader(ask[a].fetch)
            /\ ask[ask[a].fetch].with = ask[a].with
            /\ ask[ask[a].fetch].kind = ask[a].kind
            /\ ask[a].fetch # a => ask[a].kind = "read"
       /\ ask[a].effects # 0 =>
            Leader(a) /\ ask[a].result = "ok" /\ ask[a].effects = 1

(* The server does not refuse a token that is good.                         *)
RevokedInv ==
    \A a \in Asks :
       /\ ask[a].with <= issued
       /\ ask[a].stage = "sent" /\ ask[a].result = "revoked" =>
            pair[ask[a].with].access = "revoked"

(* What is registered is a read on the network, of the session it says.     *)
ReadsInv ==
    \A s \in Pairs : reads[s] # Nobody =>
        /\ Leader(reads[s])
        /\ ask[reads[s]].kind = "read"
        /\ ask[reads[s]].with = s

(* The answer to f is not older than the last write reported.               *)
Recent(f) == ask[f].result = "ok" => ask[f].version >= reported

(* Neither is what may still be shared, or what the page waits for.         *)
RecentInv ==
    /\ reported <= data
    /\ \A a \in Asks : ask[a].version <= data
    /\ \A s \in Pairs : reads[s] # Nobody => Recent(reads[s])
    /\ hook.run # Nobody /\ ask[hook.run].stage = "sent" => Recent(ask[hook.run].fetch)

(* The page shows data of the session held, and waits for a live call.      *)
HookInv ==
    /\ hook.rendered = 0 => hook = Unmounted
    /\ hook.rendered = held => hook.shown \in {0, held}
    /\ hook.run # Nobody => ask[hook.run].stage # "idle" /\ ask[hook.run].kind = "read"
    /\ hook.shown # 0 /\ ~hook.loading /\ ~hook.error => hook.version >= reported

-----------------------------------------------------------------------------
(* Types.                                                                   *)
(* A call begins with its type, and so do those that are over.              *)
LEMMA NewAskTyped ==
    ASSUME NEW kind \in {"read", "write"}
    PROVE  NewAsk(kind) \in Ask
BY ConsoleOK DEF NewAsk, Ask, Results

LEMMA NoAskTyped == NoAsk \in Ask
BY NewAskTyped DEF NoAsk
(* What the answers leave behind has its type: the calls, the page, the     *)
(* reads.                                                                   *)
LEMMA EndedTyped ==
    ASSUME ask \in [Asks -> Ask], NEW S
    PROVE  Ended(S) \in [Asks -> Ask]
BY NoAskTyped DEF Ended

LEMMA ThrownTyped ==
    ASSUME hook \in Hook, NEW S
    PROVE  Thrown(S) \in Hook
BY DEF Thrown, Hook
(* A page begins with its type, whatever session it is rendered with.       *)
LEMMA MountedTyped ==
    ASSUME NEW s \in 0 .. LastPair
    PROVE  Mounted(s) \in Hook /\ Unmounted \in Hook
<1>1. Unmounted \in Hook
  BY ConsoleOK DEF Unmounted, Hook
<1>2. Mounted(s) \in Hook
  BY <1>1 DEF Mounted, Hook
<1> QED BY <1>1, <1>2

LEMMA DeregisteredTyped ==
    ASSUME reads \in [Pairs -> Asks \cup {Nobody}], NEW a
    PROVE  Deregistered(a) \in [Pairs -> Asks \cup {Nobody}]
BY DEF Deregistered

LEMMA RevokedTyped ==
    ASSUME pair \in [Pairs -> Pair], NEW acct
    PROVE  Revoked(acct) \in [Pairs -> Pair]
BY DEF Revoked, Pair
(* Beginning or joining a renewal keeps the types (refreshTenantSession).   *)
LEMMA RefreshTyped ==
    ASSUME ConsoleTypeOK, refreshTenantSession
    PROVE  pair' \in [Pairs -> Pair] /\ renewal' \in Renewal
<1>1. CASE UNCHANGED <<pair, renewal>>
  BY <1>1 DEF ConsoleTypeOK
<1>2. CASE renewal' = [NoRenewal EXCEPT !.of = held] /\ pair' = [pair EXCEPT ![held].presented = @ + 1]
  <2> DEFINE y == [pair[held] EXCEPT !.presented = @ + 1]
  <2>1. pair' = [pair EXCEPT ![held] = y]
    BY <1>2
  <2>3. held \in Pairs => y \in Pair
    BY DEF ConsoleTypeOK, Pair
  <2>4. pair' \in [Pairs -> Pair]
    <3> HIDE DEF y
    <3> QED BY <2>1, <2>3 DEF ConsoleTypeOK
  <2>2. renewal' \in Renewal
    BY <1>2, ConsoleOK DEF ConsoleTypeOK, NoRenewal, Renewal
  <2> QED BY <2>4, <2>2
<1> QED BY <1>1, <1>2 DEF refreshTenantSession
(* So does a fetch, or the sharing of one (dispatch).                       *)
LEMMA DispatchTyped ==
    ASSUME ConsoleTypeOK, NEW a \in Asks, NEW x \in Ask,
           NEW registered \in [Pairs -> Asks \cup {Nobody}],
           held # 0, dispatch(a, x, registered)
    PROVE  ask' \in [Asks -> Ask] /\ reads' \in [Pairs -> Asks \cup {Nobody}]
<1> DEFINE f == IF x.kind = "read" /\ registered[held] # Nobody THEN registered[held] ELSE a
           y == [x EXCEPT !.stage = "sent", !.with = held, !.fetch = f]
<1>1. held \in Pairs
  BY DEF ConsoleTypeOK, Pairs
<1>2. y \in Ask
  BY <1>1, ConsoleOK DEF ConsoleTypeOK, Ask, Pairs
<1>3. ask' = [ask EXCEPT ![a] = y]
  BY DEF dispatch
<1>4. ask' \in [Asks -> Ask]
  <2> HIDE DEF y
  <2> QED BY <1>2, <1>3 DEF ConsoleTypeOK
<1>5. reads' \in [Pairs -> Asks \cup {Nobody}]
  BY DEF dispatch
<1> QED BY <1>4, <1>5
(* So does a call, renewal included (request), and one that a page makes    *)
(* (useResource).                                                           *)
LEMMA SendTyped ==
    ASSUME ConsoleTypeOK, NEW a \in Asks, NEW x \in Ask,
           NEW registered \in [Pairs -> Asks \cup {Nobody}],
           held # 0, send(a, x, registered)
    PROVE  /\ pair' \in [Pairs -> Pair] /\ renewal' \in Renewal
           /\ ask' \in [Asks -> Ask] /\ reads' \in [Pairs -> Asks \cup {Nobody}]
<1>1. CASE due
  <2> DEFINE y == [x EXCEPT !.stage = "waiting"]
  <2>1. pair' \in [Pairs -> Pair] /\ renewal' \in Renewal
    BY <1>1, RefreshTyped DEF send
  <2>2. y \in Ask
    BY DEF Ask
  <2>3. ask' = [ask EXCEPT ![a] = y] /\ reads' = registered
    BY <1>1 DEF send
  <2> HIDE DEF y
  <2> QED BY <2>1, <2>2, <2>3 DEF ConsoleTypeOK
<1>2. CASE ~due
  <2>1. UNCHANGED <<pair, renewal>> /\ dispatch(a, x, registered)
    BY <1>2 DEF send
  <2> QED BY <2>1, DispatchTyped DEF ConsoleTypeOK
<1> QED BY <1>1, <1>2

LEMMA RunTyped ==
    ASSUME ConsoleTypeOK, NEW a \in Asks, NEW page \in Hook,
           NEW registered \in [Pairs -> Asks \cup {Nobody}],
           held # 0, run(a, page, registered)
    PROVE  /\ pair' \in [Pairs -> Pair] /\ renewal' \in Renewal
           /\ ask' \in [Asks -> Ask] /\ reads' \in [Pairs -> Asks \cup {Nobody}]
           /\ hook' \in Hook
<1>1. send(a, NewAsk("read"), registered)
  BY DEF run
<1>2. hook' \in Hook
  BY DEF run, Hook
<1> QED BY <1>1, <1>2, SendTyped, NewAskTyped
(* Every step keeps the types.                                              *)
LEMMA ConsoleTypeStep ==
    ASSUME ConsoleTypeOK, AskInv, ConsoleNext
    PROVE  ConsoleTypeOK'
<1>1. ASSUME NEW a \in Asks, Call(a)
      PROVE  ConsoleTypeOK'
  <2>1. CASE Submit(a)
    <3>1. send(a, NewAsk("write"), reads) /\ held # 0
      BY <2>1 DEF Submit
    <3>2. UNCHANGED <<issued, held, due, data, reported, hook>>
      BY <2>1 DEF Submit
    <3>3. reads \in [Pairs -> Asks \cup {Nobody}]
      BY DEF ConsoleTypeOK
    <3> QED BY <3>1, <3>2, <3>3, SendTyped, NewAskTyped DEF ConsoleTypeOK
  <2>2. CASE Reread(a)
    <3>1. run(a, hook, reads) /\ held # 0
      BY <2>2 DEF Reread
    <3>2. UNCHANGED <<issued, held, due, data, reported>>
      BY <2>2 DEF Reread
    <3>3. reads \in [Pairs -> Asks \cup {Nobody}] /\ hook \in Hook
      BY DEF ConsoleTypeOK
    <3> QED BY <3>1, <3>2, <3>3, RunTyped DEF ConsoleTypeOK
  <2>3. CASE Render(a)
    <3>1. run(a, Mounted(held), reads) /\ held # 0
      BY <2>3 DEF Render
    <3>2. UNCHANGED <<issued, held, due, data, reported>>
      BY <2>3 DEF Render
    <3>3. reads \in [Pairs -> Asks \cup {Nobody}] /\ held \in 0 .. LastPair
      BY DEF ConsoleTypeOK
    <3>4. Mounted(held) \in Hook
      BY <3>3, MountedTyped
    <3> QED BY <3>1, <3>2, <3>3, <3>4, RunTyped DEF ConsoleTypeOK
  <2>4. CASE Serve(a)
    <3>1. UNCHANGED <<issued, pair, held, due, renewal, reads, reported, hook>>
      BY <2>4 DEF Serve
    <3>2. pair[ask[a].with] \in Pair
      BY <2>4 DEF Serve, AskInv, ConsoleTypeOK, Ask, Pairs
    <3>3. data' \in Nat
      BY <2>4 DEF Serve, ConsoleTypeOK
    <3> DEFINE refused == [ask[a] EXCEPT !.result = pair[ask[a].with].access]
               read == [ask[a] EXCEPT !.result = "ok", !.version = data]
               written == [ask[a] EXCEPT !.result = "ok", !.version = data', !.effects = @ + 1]
    <3>4. /\ pair[ask[a].with].access # "good" => refused \in Ask
          /\ read \in Ask
          /\ written \in Ask
      <4>1. ask[a] \in Ask /\ data \in Nat
        BY DEF ConsoleTypeOK
      <4>2. pair[ask[a].with].access # "good" => pair[ask[a].with].access \in Results
        BY <3>2 DEF Pair, Results
      <4>3. pair[ask[a].with].access # "good" => refused \in Ask
        BY <4>1, <4>2 DEF Ask
      <4>4. "ok" \in Results
        BY DEF Results
      <4>5. read \in Ask
        BY <4>1, <4>4 DEF Ask
      <4>6. written \in Ask
        <5>1. ask[a].effects + 1 \in Nat
          BY <4>1 DEF Ask
        <5> DEFINE n == data'
        <5>2. n \in Nat
          BY <3>3
        <5> HIDE DEF n
        <5>3. [ask[a] EXCEPT !.result = "ok", !.version = n, !.effects = @ + 1] \in Ask
          BY <4>1, <4>4, <5>1, <5>2 DEF Ask
        <5> QED BY <5>3 DEF n
      <4> QED BY <4>3, <4>5, <4>6
    <3>5. \/ pair[ask[a].with].access # "good" /\ ask' = [ask EXCEPT ![a] = refused]
          \/ ask' = [ask EXCEPT ![a] = read]
          \/ ask' = [ask EXCEPT ![a] = written]
      BY <2>4 DEF Serve
    <3>6. ask' \in [Asks -> Ask]
      <4> HIDE DEF refused, read, written
      <4> QED BY <3>4, <3>5 DEF ConsoleTypeOK
    <3> QED BY <3>1, <3>3, <3>6 DEF ConsoleTypeOK
  <2>5. CASE ReadSucceeds(a)
    <3>1. UNCHANGED <<issued, pair, held, due, renewal, data, reported>>
      BY <2>5 DEF ReadSucceeds
    <3>2. ask' \in [Asks -> Ask]
      BY <2>5, EndedTyped DEF ReadSucceeds, ConsoleTypeOK
    <3>3. hook' \in Hook
      BY <2>5 DEF ReadSucceeds, ConsoleTypeOK, Hook, Ask
    <3>4. reads' \in [Pairs -> Asks \cup {Nobody}]
      BY <2>5, DeregisteredTyped DEF ReadSucceeds, ConsoleTypeOK
    <3> QED BY <3>1, <3>2, <3>3, <3>4 DEF ConsoleTypeOK
  <2>6. CASE WriteSucceeds(a)
    <3>1. UNCHANGED <<issued, held, due, data>>
      BY <2>6 DEF WriteSucceeds
    <3>2. reported' \in Nat
      BY <2>6 DEF WriteSucceeds, ConsoleTypeOK, Ask
    <3>3. ReadsCleared \in [Pairs -> Asks \cup {Nobody}] /\ hook \in Hook
      BY DEF ReadsCleared, ConsoleTypeOK
    <3>4. CASE run(a, hook, ReadsCleared)
      <4>1. held # 0
        BY <2>6 DEF WriteSucceeds, Answered, AskInv
      <4> QED BY <3>1, <3>2, <3>3, <3>4, <4>1, RunTyped DEF ConsoleTypeOK
    <3>5. CASE ask' = Ended({a}) /\ reads' = ReadsCleared /\ UNCHANGED <<pair, renewal, hook>>
      BY <3>1, <3>2, <3>3, <3>5, EndedTyped DEF ConsoleTypeOK
    <3> QED BY <2>6, <3>4, <3>5 DEF WriteSucceeds
  <2>7. CASE SessionChanged(a)
    BY <2>7, EndedTyped, ThrownTyped, DeregisteredTyped DEF SessionChanged, Throw, ConsoleTypeOK
  <2>8. CASE TokenExpired(a)
    <3> DEFINE again == {b \in Sharing(a) : ask[b].with = held /\ ~ask[b].retried}
               over == Sharing(a) \ again
               y(b) == [NewAsk(ask[b].kind) EXCEPT !.stage = "waiting", !.retried = TRUE,
                                                   !.effects = ask[b].effects]
    <3>1. UNCHANGED <<issued, held, due, data, reported>>
      BY <2>8 DEF TokenExpired
    <3>2. hook' \in Hook /\ reads' \in [Pairs -> Asks \cup {Nobody}]
      BY <2>8, ThrownTyped, DeregisteredTyped DEF TokenExpired, ConsoleTypeOK
    <3>3. pair' \in [Pairs -> Pair] /\ renewal' \in Renewal
      BY <2>8, RefreshTyped DEF TokenExpired, ConsoleTypeOK
    <3>4. \A b \in Asks : y(b) \in Ask
      <4> TAKE b \in Asks
      <4>1. ask[b] \in Ask /\ ask[b].kind \in {"read", "write"} /\ ask[b].effects \in Nat
        BY DEF ConsoleTypeOK, Ask
      <4>2. NewAsk(ask[b].kind) \in Ask
        BY <4>1, NewAskTyped
      <4> QED BY <4>1, <4>2 DEF Ask
    <3>5. Ended(over) \in [Asks -> Ask]
      BY EndedTyped DEF ConsoleTypeOK
    <3>6. ask' = [b \in Asks |-> IF b \in again THEN y(b) ELSE Ended(over)[b]]
      BY <2>8 DEF TokenExpired
    <3>7. ask' \in [Asks -> Ask]
      <4> HIDE DEF again, over, y
      <4> QED BY <3>4, <3>5, <3>6
    <3> QED BY <3>1, <3>2, <3>3, <3>7 DEF ConsoleTypeOK
  <2>9. CASE Unauthorized(a)
    <3>1. UNCHANGED <<issued, pair, renewal, data, reported>>
      BY <2>9 DEF Unauthorized
    <3>2. held' \in 0 .. LastPair
      BY <2>9, ConsoleOK DEF Unauthorized, ConsoleTypeOK
    <3>4. due' \in BOOLEAN
      <4>1. CASE due' = FALSE
        BY <4>1
      <4>2. CASE UNCHANGED <<held, due>>
        BY <4>2 DEF ConsoleTypeOK
      <4> QED BY <2>9, <4>1, <4>2, Zenon DEF Unauthorized
    <3>3. ask' \in [Asks -> Ask] /\ hook' \in Hook /\ reads' \in [Pairs -> Asks \cup {Nobody}]
      BY <2>9, EndedTyped, ThrownTyped, DeregisteredTyped DEF Unauthorized, Throw, ConsoleTypeOK
    <3> QED BY <3>1, <3>2, <3>3, <3>4 DEF ConsoleTypeOK
  <2>10. CASE Fail(a)
    BY <2>10, EndedTyped, ThrownTyped, DeregisteredTyped DEF Fail, Throw, ConsoleTypeOK
  <2>11. CASE Resume(a)
    <3>1. UNCHANGED <<issued, pair, held, due, renewal, data, reported>>
      BY <2>11 DEF Resume
    <3>2. CASE held # 0 /\ dispatch(a, ask[a], reads) /\ UNCHANGED hook
      <4>1. ask[a] \in Ask /\ reads \in [Pairs -> Asks \cup {Nobody}]
        BY DEF ConsoleTypeOK
      <4> QED BY <3>1, <3>2, <4>1, DispatchTyped DEF ConsoleTypeOK
    <3>3. CASE Throw({a}) /\ UNCHANGED reads
      BY <3>1, <3>3, EndedTyped, ThrownTyped DEF Throw, ConsoleTypeOK
    <3> QED BY <2>11, <3>2, <3>3 DEF Resume
  <2> QED BY <1>1, <2>1, <2>2, <2>3, <2>4, <2>5, <2>6, <2>7, <2>8, <2>9, <2>10, <2>11 DEF Call
<1>2. ASSUME NEW acct \in Accounts, setTenantSession(acct)
      PROVE  ConsoleTypeOK'
  <2>1. NewPair(acct) \in Pair
    BY DEF NewPair, Pair
  <2>2. pair' = [pair EXCEPT ![issued + 1] = NewPair(acct)]
    BY <1>2 DEF setTenantSession
  <2>3. pair' \in [Pairs -> Pair]
    BY <2>1, <2>2 DEF ConsoleTypeOK
  <2>4. issued' \in 0 .. LastPair /\ held' \in 0 .. LastPair
    BY <1>2, ConsoleOK DEF setTenantSession, ConsoleTypeOK
  <2>5. due' = FALSE /\ UNCHANGED <<renewal, ask, reads, data, reported, hook>>
    BY <1>2 DEF setTenantSession
  <2> QED BY <2>3, <2>4, <2>5 DEF ConsoleTypeOK
<1>3. CASE Age
  <2>1. UNCHANGED <<issued, held, renewal, ask, reads, data, reported, hook>>
    BY <1>3 DEF Age
  <2>2. due' \in BOOLEAN
    BY <1>3 DEF Age, ConsoleTypeOK
  <2> DEFINE y == [pair[held] EXCEPT !.access = "expired"]
  <2>3. held \in Pairs => y \in Pair
    BY DEF ConsoleTypeOK, Pair
  <2>4. pair' = pair \/ pair' = [pair EXCEPT ![held] = y]
    BY <1>3 DEF Age
  <2>5. pair' \in [Pairs -> Pair]
    <3> HIDE DEF y
    <3> QED BY <2>3, <2>4 DEF ConsoleTypeOK
  <2> QED BY <2>1, <2>2, <2>5 DEF ConsoleTypeOK
<1>4. CASE Unmount
  BY <1>4, MountedTyped, ConsoleOK DEF Unmount, ConsoleTypeOK
<1>5. CASE ServeRenewal
  <2>1. UNCHANGED <<held, due, ask, reads, data, reported, hook>>
    BY <1>5 DEF ServeRenewal
  <2>2. renewal.of \in Pairs
    BY <1>5 DEF ServeRenewal, ConsoleTypeOK, Renewal, Pairs
  <2>3. CASE /\ issued < LastPair /\ issued' = issued + 1
             /\ pair' = [pair EXCEPT ![renewal.of].refresh = "spent",
                                     ![issued + 1] = NewPair(Of(renewal.of))]
             /\ renewal' = [renewal EXCEPT !.answer = "ok", !.pair = issued + 1]
    <3> DEFINE y == [pair[renewal.of] EXCEPT !.refresh = "spent"]
               z == NewPair(Of(renewal.of))
    <3>1. y \in Pair
      BY <2>2 DEF ConsoleTypeOK, Pair
    <3>2. z \in Pair
      BY <2>2 DEF ConsoleTypeOK, Pair, NewPair, Of
    <3>3. pair' = [[pair EXCEPT ![renewal.of] = y] EXCEPT ![issued + 1] = z]
      BY <2>3
    <3>4. pair' \in [Pairs -> Pair]
      <4> HIDE DEF y, z
      <4> QED BY <3>1, <3>2, <3>3 DEF ConsoleTypeOK
    <3>5. issued + 1 \in 0 .. LastPair
      BY <2>3, ConsoleOK DEF ConsoleTypeOK
    <3>6. renewal' \in Renewal /\ issued' \in 0 .. LastPair
      BY <2>3, <3>5 DEF ConsoleTypeOK, Renewal
    <3> QED BY <2>1, <3>4, <3>6 DEF ConsoleTypeOK
  <2>4. CASE /\ pair' = IF pair[renewal.of].refresh = "spent" THEN Revoked(Of(renewal.of)) ELSE pair
             /\ renewal' = [renewal EXCEPT !.answer = "refused"]
             /\ UNCHANGED issued
    <3>1. pair' \in [Pairs -> Pair]
      BY <2>4, RevokedTyped DEF ConsoleTypeOK
    <3>2. renewal' \in Renewal
      BY <2>4 DEF ConsoleTypeOK, Renewal
    <3> QED BY <2>1, <2>4, <3>1, <3>2 DEF ConsoleTypeOK
  <2> QED BY <1>5, <2>3, <2>4 DEF ServeRenewal
<1>6. NoRenewal \in Renewal /\ 0 \in 0 .. LastPair
  BY ConsoleOK DEF NoRenewal, Renewal
<1>7. CASE RenewalSucceeds
  <2>1. \A b \in Asks : [ask[b] EXCEPT !.stage = "ready"] \in Ask
    BY DEF ConsoleTypeOK, Ask
  <2>2. ask' \in [Asks -> Ask]
    BY <1>7, <2>1 DEF RenewalSucceeds, ConsoleTypeOK
  <2>3. held' \in 0 .. LastPair
    BY <1>7 DEF RenewalSucceeds, ConsoleTypeOK, Renewal
  <2> QED BY <1>6, <1>7, <2>2, <2>3 DEF RenewalSucceeds, ConsoleTypeOK
<1>8. CASE RenewalRefused
  BY <1>6, <1>8, EndedTyped, ThrownTyped DEF RenewalRefused, Throw, ConsoleTypeOK
<1>9. \A s : [pair EXCEPT ![s].presented = 0] \in [Pairs -> Pair]
  <2> TAKE s
  <2> DEFINE y == [pair[s] EXCEPT !.presented = 0]
  <2>1. s \in Pairs => y \in Pair
    BY DEF ConsoleTypeOK, Pair
  <2>2. [pair EXCEPT ![s] = y] \in [Pairs -> Pair]
    <3> HIDE DEF y
    <3> QED BY <2>1 DEF ConsoleTypeOK
  <2> QED BY <2>2
<1>10. CASE RenewalFails
  <2>1. pair' \in [Pairs -> Pair]
    BY <1>9, <1>10 DEF RenewalFails
  <2> QED BY <1>6, <1>10, <2>1, EndedTyped, ThrownTyped DEF RenewalFails, Throw, ConsoleTypeOK
<1>11. CASE signOutTenant
  <2>1. pair' \in [Pairs -> Pair]
    BY <1>11, RevokedTyped DEF signOutTenant, ConsoleTypeOK
  <2> QED BY <1>6, <1>11, <2>1 DEF signOutTenant, ConsoleTypeOK
<1>12. CASE Reload
  <2>1. pair' \in [Pairs -> Pair]
    BY <1>9, <1>12 DEF Reload, ConsoleTypeOK
  <2>2. ask' \in [Asks -> Ask] /\ reads' \in [Pairs -> Asks \cup {Nobody}]
    BY <1>12, NoAskTyped DEF Reload, NoReads
  <2>3. hook' \in Hook /\ renewal' \in Renewal
    BY <1>6, <1>12, MountedTyped DEF Reload
  <2> QED BY <1>12, <2>1, <2>2, <2>3 DEF Reload, ConsoleTypeOK
<1> QED
  BY ONLY <1>1, <1>2, <1>3, <1>4, <1>5, <1>7, <1>8, <1>10, <1>11, <1>12, ConsoleNext DEF ConsoleNext

-----------------------------------------------------------------------------
(* What happens to the calls: an answer ends a fetch and whatever shares    *)
(* it, a call is sent or waits, or nothing that was sent is touched.        *)

CallsInv == AskInv /\ ReadsInv /\ RecentInv
(* The calls that share a fetch end together: no other follows one of them. *)
LEMMA SharingIsClosed ==
    ASSUME AskInv, NEW a \in Asks, Leader(a), NEW b \in Asks, ask[b].stage = "sent"
    PROVE  ask[b].fetch \in Sharing(a) <=> b \in Sharing(a)
BY DEF AskInv, Leader, Sharing
(* When the calls of one fetch leave the network, the others are as they    *)
(* were.                                                                    *)
LEMMA AnsweredCalls ==
    ASSUME ConsoleTypeOK, CallsInv, NEW a \in Asks, Leader(a),
           ask' \in [Asks -> Ask],
           \A b \in Asks \ Sharing(a) : ask'[b] = ask[b],
           \A b \in Sharing(a) : /\ ask'[b].stage # "sent" /\ ask'[b].result = "none"
                                 /\ ask'[b].effects = 0 /\ ask'[b].version = 0,
           reads' = Deregistered(a), UNCHANGED <<data, reported>>,
           hook'.run \in {hook.run, Nobody}
    PROVE  CallsInv'
<1>1. AskInv'
  <2> SUFFICES ASSUME NEW b \in Asks
               PROVE  /\ ask'[b].stage \in {"waiting", "ready"} =>
                           ask'[b].result = "none" /\ ask'[b].effects = 0
                      /\ ask'[b].stage = "sent" =>
                           /\ ask'[b].with # 0 /\ ask'[b].fetch \in Asks
                           /\ Leader(ask[b].fetch)'
                           /\ ask'[ask'[b].fetch].with = ask'[b].with
                           /\ ask'[ask'[b].fetch].kind = ask'[b].kind
                           /\ ask'[b].fetch # b => ask'[b].kind = "read"
                      /\ ask'[b].effects # 0 =>
                           Leader(b)' /\ ask'[b].result = "ok" /\ ask'[b].effects = 1
    BY DEF AskInv, Leader
  <2>1. CASE b \in Sharing(a)
    BY <2>1
  <2>2. CASE b \notin Sharing(a)
    <3>1. ask'[b] = ask[b]
      BY <2>2
    <3>2. ask[b].stage = "sent" => ask'[ask[b].fetch] = ask[ask[b].fetch]
      BY <2>2, SharingIsClosed DEF CallsInv, AskInv
    <3> QED BY <3>1, <3>2 DEF CallsInv, AskInv, Leader
  <2> QED BY <2>1, <2>2
<1>2. \A s \in Pairs : reads'[s] # Nobody =>
         /\ reads'[s] = reads[s] /\ reads[s] \in Asks /\ ask'[reads[s]] = ask[reads[s]]
  <2> TAKE s \in Pairs
  <2> HAVE reads'[s] # Nobody
  <2>1. reads'[s] = reads[s] /\ ~(s = ask[a].with /\ reads[s] = a)
    BY DEF Deregistered
  <2>2. reads[s] \in Asks
    BY <2>1 DEF ConsoleTypeOK
  <2>3. ask[reads[s]].stage = "sent" /\ ask[reads[s]].fetch = reads[s] /\ ask[reads[s]].with = s
    BY <2>1 DEF CallsInv, ReadsInv, Leader
  <2>4. reads[s] \notin Sharing(a)
    BY <2>1, <2>2, <2>3 DEF Sharing
  <2> QED BY <2>1, <2>2, <2>4
<1>3. ReadsInv'
  BY <1>2 DEF CallsInv, ReadsInv, Leader
<1>4. RecentInv'
  <2>1. \A b \in Asks : ask'[b].version <= data'
    BY DEF CallsInv, RecentInv, ConsoleTypeOK
  <2>2. \A s \in Pairs : reads'[s] # Nobody => Recent(reads[s])'
    BY <1>2 DEF CallsInv, RecentInv, Recent
  <2>3. ASSUME hook'.run # Nobody, ask'[hook'.run].stage = "sent"
        PROVE  Recent(ask[hook.run].fetch)'
    <3>1. hook'.run = hook.run /\ hook.run \in Asks
      BY <2>3 DEF ConsoleTypeOK, Hook
    <3>2. ask'[hook.run] = ask[hook.run] /\ hook.run \notin Sharing(a)
      BY <2>3, <3>1
    <3>3. ask[hook.run].fetch \in Asks /\ ask[hook.run].fetch \notin Sharing(a)
      BY <2>3, <3>1, <3>2, SharingIsClosed DEF CallsInv, AskInv
    <3>4. ask'[ask[hook.run].fetch] = ask[ask[hook.run].fetch]
      BY <3>3
    <3> QED BY <2>3, <3>1, <3>2, <3>4 DEF CallsInv, RecentInv, Recent
  <2>4. reported' <= data'
    BY DEF CallsInv, RecentInv
  <2> QED BY <1>2, <2>1, <2>2, <2>3, <2>4 DEF RecentInv, Recent
<1> QED BY <1>1, <1>3, <1>4 DEF CallsInv
(* Calls that are not on the network may change without those that are      *)
(* noticing.                                                                *)
LEMMA UnsentCalls ==
    ASSUME ConsoleTypeOK, CallsInv, ask' \in [Asks -> Ask],
           \A b \in Asks : ask[b].stage = "sent" => ask'[b] = ask[b],
           \A b \in Asks : ask'[b] = ask[b] \/
               /\ ask'[b].stage # "sent" /\ ask'[b].result = "none"
               /\ ask'[b].effects = 0 /\ ask'[b].version <= data,
           UNCHANGED <<reads, data, reported>>,
           hook'.run \in {hook.run, Nobody}
    PROVE  CallsInv'
<1>1. AskInv'
  <2> SUFFICES ASSUME NEW b \in Asks
               PROVE  /\ ask'[b].stage \in {"waiting", "ready"} =>
                           ask'[b].result = "none" /\ ask'[b].effects = 0
                      /\ ask'[b].stage = "sent" =>
                           /\ ask'[b].with # 0 /\ ask'[b].fetch \in Asks
                           /\ Leader(ask[b].fetch)'
                           /\ ask'[ask'[b].fetch].with = ask'[b].with
                           /\ ask'[ask'[b].fetch].kind = ask'[b].kind
                           /\ ask'[b].fetch # b => ask'[b].kind = "read"
                      /\ ask'[b].effects # 0 =>
                           Leader(b)' /\ ask'[b].result = "ok" /\ ask'[b].effects = 1
    BY DEF AskInv, Leader
  <2>1. CASE ask'[b] # ask[b]
    BY <2>1
  <2>2. CASE ask'[b] = ask[b]
    <3>1. ask[b].stage = "sent" => ask'[ask[b].fetch] = ask[ask[b].fetch]
      BY DEF CallsInv, AskInv, Leader
    <3> QED BY <2>2, <3>1 DEF CallsInv, AskInv, Leader
  <2> QED BY <2>1, <2>2
<1>2. \A s \in Pairs : reads[s] # Nobody => reads[s] \in Asks /\ ask'[reads[s]] = ask[reads[s]]
  BY DEF CallsInv, ReadsInv, Leader, ConsoleTypeOK
<1>3. ReadsInv'
  BY <1>2 DEF CallsInv, ReadsInv, Leader
<1>4. RecentInv'
  <2>1. \A b \in Asks : ask'[b].version <= data'
    BY DEF CallsInv, RecentInv
  <2>2. \A s \in Pairs : reads'[s] # Nobody => Recent(reads[s])'
    BY <1>2 DEF CallsInv, RecentInv, Recent
  <2>3. ASSUME hook'.run # Nobody, ask'[hook'.run].stage = "sent"
        PROVE  Recent(ask[hook.run].fetch)'
    <3>1. hook'.run = hook.run /\ hook.run \in Asks
      BY <2>3 DEF ConsoleTypeOK, Hook
    <3>2. ask'[hook.run] = ask[hook.run]
      BY <2>3, <3>1
    <3>3. ask[hook.run].fetch \in Asks /\ ask[ask[hook.run].fetch].stage = "sent"
      BY <2>3, <3>1, <3>2 DEF CallsInv, AskInv, Leader
    <3>4. ask'[ask[hook.run].fetch] = ask[ask[hook.run].fetch]
      BY <3>3
    <3> QED BY <2>3, <3>1, <3>2, <3>4 DEF CallsInv, RecentInv, Recent
  <2>4. reported' <= data'
    BY DEF CallsInv, RecentInv
  <2> QED BY <1>2, <2>1, <2>2, <2>3, <2>4 DEF RecentInv, Recent
<1> QED BY <1>1, <1>3, <1>4 DEF CallsInv

(* What sending x in the slot a makes of the calls.                         *)
Unfollowed(a) == \A b \in Asks : ask[b].stage = "sent" /\ ask[b].fetch = a => b = a

Registered(registered, a) ==
    \A s \in Pairs : registered[s] # Nobody =>
        /\ registered[s] # a
        /\ Leader(registered[s])
        /\ ask[registered[s]].kind = "read"
        /\ ask[registered[s]].with = s

(* x either waits for a renewal, or is sent to fetch or to share a read.    *)
Sending(a, y, registered) ==
    /\ ask' = [ask EXCEPT ![a] = y]
    /\ y.result = "none" /\ y.effects = 0
    /\ \/ y.stage = "waiting" /\ y.with = 0 /\ reads' = registered
       \/ /\ y.stage = "sent" /\ y.with = held
          /\ \/ /\ y.fetch = a
                /\ \/ y.kind = "read" /\ reads' = [registered EXCEPT ![held] = a]
                   \/ reads' = registered
             \/ /\ y.kind = "read" /\ registered[held] # Nobody
                /\ y.fetch = registered[held] /\ reads' = registered
(* A call that is sent keeps CallsInv: it fetches, or shares a fetch that   *)
(* answers no older than what was reported; after a write nothing is left   *)
(* to share.                                                                *)
LEMMA SentCalls ==
    ASSUME ConsoleTypeOK, CallsInv, NEW a \in Asks, NEW y \in Ask,
           NEW registered \in [Pairs -> Asks \cup {Nobody}],
           held # 0, Unfollowed(a), Registered(registered, a), Sending(a, y, registered),
           y.version <= data, reported' \in Nat, reported' <= data, UNCHANGED data,
           \/ registered = reads /\ UNCHANGED reported
           \/ \A s \in Pairs : registered[s] = Nobody,
           \/ hook'.run = a
           \/ hook'.run = hook.run /\ UNCHANGED reported
    PROVE  CallsInv'
<1> DEFINE RecentThen(f) == ask'[f].result = "ok" => ask'[f].version >= reported'
<1>1. held \in Pairs
  BY DEF ConsoleTypeOK, Pairs
<1>2. ask'[a] = y /\ \A b \in Asks : b # a => ask'[b] = ask[b]
  BY DEF Sending, ConsoleTypeOK
<1>3. y.stage = "sent" =>
        /\ y.with # 0 /\ y.fetch \in Asks
        /\ ask'[y.fetch].stage = "sent" /\ ask'[y.fetch].fetch = y.fetch
        /\ ask'[y.fetch].with = y.with /\ ask'[y.fetch].kind = y.kind
        /\ y.fetch # a => y.kind = "read"
        /\ Recent(y.fetch)'
  <2> SUFFICES ASSUME y.stage = "sent"
               PROVE  /\ y.with # 0 /\ y.fetch \in Asks
                      /\ ask'[y.fetch].stage = "sent" /\ ask'[y.fetch].fetch = y.fetch
                      /\ ask'[y.fetch].with = y.with /\ ask'[y.fetch].kind = y.kind
                      /\ y.fetch # a => y.kind = "read"
                      /\ Recent(y.fetch)'
    OBVIOUS
  <2>1. CASE y.fetch = a
    BY <1>1, <1>2, <2>1 DEF Sending, Recent
  <2>2. CASE y.kind = "read" /\ registered[held] # Nobody /\ y.fetch = registered[held]
    <3>1. y.fetch \in Asks /\ y.fetch # a
      BY <1>1, <2>2 DEF Registered
    <3>2. ask'[y.fetch] = ask[y.fetch] /\ Leader(y.fetch) /\ ask[y.fetch].with = held
          /\ ask[y.fetch].kind = "read"
      BY <1>1, <1>2, <2>2, <3>1 DEF Registered
    <3>3. registered = reads /\ UNCHANGED reported
      BY <1>1, <2>2
    <3>4. Recent(y.fetch)'
      BY <1>1, <2>2, <3>2, <3>3 DEF CallsInv, RecentInv, Recent
    <3>5. y.with = held
      BY DEF Sending
    <3> QED BY <1>1, <2>2, <3>1, <3>2, <3>4, <3>5 DEF Leader
  <2> QED BY <2>1, <2>2 DEF Sending
<1>4. AskInv'
  <2> SUFFICES ASSUME NEW b \in Asks
               PROVE  /\ ask'[b].stage \in {"waiting", "ready"} =>
                           ask'[b].result = "none" /\ ask'[b].effects = 0
                      /\ ask'[b].stage = "sent" =>
                           /\ ask'[b].with # 0 /\ ask'[b].fetch \in Asks
                           /\ ask'[ask'[b].fetch].stage = "sent"
                           /\ ask'[ask'[b].fetch].fetch = ask'[b].fetch
                           /\ ask'[ask'[b].fetch].with = ask'[b].with
                           /\ ask'[ask'[b].fetch].kind = ask'[b].kind
                           /\ ask'[b].fetch # b => ask'[b].kind = "read"
                      /\ ask'[b].effects # 0 =>
                           /\ ask'[b].stage = "sent" /\ ask'[b].fetch = b
                           /\ ask'[b].result = "ok" /\ ask'[b].effects = 1
    BY DEF AskInv, Leader
  <2>1. CASE b = a
    BY <1>2, <1>3, <2>1 DEF Sending
  <2>2. CASE b # a
    <3>1. ask[b].stage = "sent" => ask[b].fetch # a
      BY <2>2 DEF Unfollowed
    <3>2. ask[b].stage = "sent" => ask'[ask[b].fetch] = ask[ask[b].fetch]
      BY <1>2, <3>1 DEF CallsInv, AskInv
    <3>3. ask'[b] = ask[b]
      BY <1>2, <2>2
    <3> QED BY <3>2, <3>3 DEF CallsInv, AskInv, Leader
  <2> QED BY <2>1, <2>2
<1>5. \A s \in Pairs : reads'[s] # Nobody =>
         \/ reads'[s] = a /\ s = held /\ y.stage = "sent" /\ y.fetch = a /\ y.kind = "read"
         \/ /\ reads'[s] = registered[s] /\ registered[s] # a
            /\ registered[s] \in Asks /\ ask'[registered[s]] = ask[registered[s]]
  BY <1>1, <1>2 DEF Sending, Registered
<1>6. ReadsInv'
  BY <1>2, <1>5 DEF ReadsInv, Registered, Leader, Sending
<1>7. RecentInv'
  <2>1. \A b \in Asks : ask'[b].version <= data'
    BY <1>2 DEF CallsInv, RecentInv
  <2>2. ASSUME NEW s \in Pairs, reads'[s] # Nobody
        PROVE  RecentThen(reads'[s])
    <3>1. CASE reads'[s] = a
      BY <1>2, <3>1 DEF Recent, Sending
    <3>2. CASE reads'[s] # a
      <4>1. reads'[s] = registered[s] /\ ask'[registered[s]] = ask[registered[s]]
        BY <1>5, <2>2, <3>2
      <4>2. registered = reads /\ UNCHANGED reported
        BY <2>2, <4>1
      <4> QED BY <2>2, <4>1, <4>2 DEF CallsInv, RecentInv, Recent
    <3> QED BY <3>1, <3>2
  <2>3. ASSUME hook'.run # Nobody, ask'[hook'.run].stage = "sent", hook'.run # a
        PROVE  RecentThen(ask'[hook'.run].fetch)
    <3>1. hook'.run = hook.run /\ hook.run \in Asks /\ UNCHANGED reported
      BY <2>3 DEF ConsoleTypeOK, Hook
    <3>2. ask'[hook.run] = ask[hook.run] /\ ask[hook.run].stage = "sent"
      BY <1>2, <2>3, <3>1
    <3>3. ask[hook.run].fetch # a /\ ask[hook.run].fetch \in Asks
      BY <2>3, <3>1, <3>2 DEF Unfollowed, CallsInv, AskInv
    <3>4. ask'[ask[hook.run].fetch] = ask[ask[hook.run].fetch]
      BY <1>2, <3>3
    <3> QED BY <2>3, <3>1, <3>2, <3>4 DEF CallsInv, RecentInv, Recent
  <2>4. ASSUME hook'.run = a, ask'[hook'.run].stage = "sent"
        PROVE  RecentThen(ask'[hook'.run].fetch)
    BY <1>2, <1>3, <2>4 DEF Recent
  <2> QED BY <2>1, <2>2, <2>3, <2>4 DEF RecentInv, Recent
<1> QED BY <1>4, <1>6, <1>7 DEF CallsInv
(* dispatch and send are such sendings, whichever branch they take.         *)
LEMMA DispatchSends ==
    ASSUME ConsoleTypeOK, NEW a \in Asks, NEW x \in Ask,
           NEW registered \in [Pairs -> Asks \cup {Nobody}],
           held # 0, x.result = "none", x.effects = 0, dispatch(a, x, registered)
    PROVE  \E y \in Ask :
              Sending(a, y, registered) /\ y.version = x.version /\ y.kind = x.kind
<1> DEFINE f == IF x.kind = "read" /\ registered[held] # Nobody THEN registered[held] ELSE a
           y == [x EXCEPT !.stage = "sent", !.with = held, !.fetch = f]
<1>1. held \in Pairs
  BY DEF ConsoleTypeOK, Pairs
<1>2. y \in Ask
  BY <1>1, ConsoleOK DEF ConsoleTypeOK, Ask, Pairs
<1>3. ask' = [ask EXCEPT ![a] = y]
  BY DEF dispatch
<1>4. /\ y.stage = "sent" /\ y.with = held /\ y.fetch = f /\ y.kind = x.kind
      /\ y.result = "none" /\ y.effects = 0 /\ y.version = x.version
  BY DEF Ask
<1>5. reads' = IF x.kind = "read" /\ ~(x.kind = "read" /\ registered[held] # Nobody)
               THEN [registered EXCEPT ![held] = a] ELSE registered
  BY DEF dispatch
<1>6. Sending(a, y, registered)
  <2>1. CASE x.kind = "read" /\ registered[held] # Nobody
    <3> HIDE DEF y
    <3> QED BY <1>3, <1>4, <1>5, <2>1 DEF Sending
  <2>2. CASE x.kind = "read" /\ registered[held] = Nobody
    <3> HIDE DEF y
    <3> QED BY <1>3, <1>4, <1>5, <2>2 DEF Sending
  <2>3. CASE x.kind # "read"
    <3> HIDE DEF y
    <3> QED BY <1>3, <1>4, <1>5, <2>3 DEF Sending
  <2> QED BY <2>1, <2>2, <2>3
<1> QED BY <1>2, <1>4, <1>6

LEMMA SendSends ==
    ASSUME ConsoleTypeOK, NEW a \in Asks, NEW x \in Ask,
           NEW registered \in [Pairs -> Asks \cup {Nobody}],
           held # 0, x.result = "none", x.effects = 0, x.with = 0, send(a, x, registered)
    PROVE  \E y \in Ask :
              Sending(a, y, registered) /\ y.version = x.version /\ y.kind = x.kind
<1>1. CASE due
  <2> DEFINE y == [x EXCEPT !.stage = "waiting"]
  <2>1. y \in Ask /\ y.stage = "waiting" /\ y.result = "none" /\ y.effects = 0
        /\ y.version = x.version /\ y.with = 0 /\ y.kind = x.kind
    BY DEF Ask
  <2>2. ask' = [ask EXCEPT ![a] = y] /\ reads' = registered
    BY <1>1 DEF send
  <2> HIDE DEF y
  <2> QED BY <2>1, <2>2 DEF Sending
<1>2. CASE ~due
  BY <1>2, DispatchSends DEF send
<1> QED BY <1>1, <1>2
(* What a new call holds.                                                   *)
LEMMA NewAskIs ==
    ASSUME NEW kind
    PROVE  /\ NewAsk(kind).stage = "idle" /\ NewAsk(kind).kind = kind /\ NewAsk(kind).with = 0
           /\ NewAsk(kind).result = "none" /\ NewAsk(kind).effects = 0
           /\ NewAsk(kind).version = 0
BY DEF NewAsk
(* Nobody shares the fetch of a call that fetches nothing, or writes.       *)
LEMMA IdleIsUnfollowed ==
    ASSUME AskInv, NEW a \in Asks, ask[a].stage # "sent" \/ ask[a].kind # "read"
    PROVE  Unfollowed(a)
BY DEF AskInv, Unfollowed, Leader
(* Nor is it registered.                                                    *)
LEMMA ReadsAreRegistered ==
    ASSUME ReadsInv, NEW a \in Asks, ask[a].stage # "sent"
    PROVE  Registered(reads, a)
BY DEF ReadsInv, Registered, Leader
(* The server answers a fetch with all that was written so far.             *)
LEMMA ServedCalls ==
    ASSUME ConsoleTypeOK, CallsInv, NEW a \in Asks, Serve(a), ask' \in [Asks -> Ask]
    PROVE  CallsInv'
<1> DEFINE access == pair[ask[a].with].access
<1>1. Leader(a) /\ ask[a].result = "none"
  BY DEF Serve, Leader
<1>2. UNCHANGED <<reads, reported, hook>>
  BY DEF Serve
<1>3. data' \in Nat /\ data' >= data
  BY DEF Serve, ConsoleTypeOK
<1> DEFINE refused == [ask[a] EXCEPT !.result = access]
           read == [ask[a] EXCEPT !.result = "ok", !.version = data]
           written == [ask[a] EXCEPT !.result = "ok", !.version = data', !.effects = @ + 1]
<1>4. \/ access # "good" /\ ask' = [ask EXCEPT ![a] = refused]
      \/ ask' = [ask EXCEPT ![a] = read] /\ data' = data
      \/ ask' = [ask EXCEPT ![a] = written]
  BY DEF Serve
<1>5. ask[a].effects = 0
  BY <1>1 DEF CallsInv, AskInv
<1>6. /\ \A b \in Asks : b # a => ask'[b] = ask[b]
      /\ ask'[a].stage = "sent" /\ ask'[a].fetch = a /\ ask'[a].with = ask[a].with
      /\ ask'[a].kind = ask[a].kind
      /\ \/ ask'[a].result # "ok" /\ ask'[a].effects = 0 /\ ask'[a].version = ask[a].version
         \/ ask'[a].result = "ok" /\ ask'[a].effects \in {0, 1} /\ ask'[a].version = data'
  <2>1. ask[a] \in Ask
    BY DEF ConsoleTypeOK
  <2>2. CASE access # "good" /\ ask' = [ask EXCEPT ![a] = refused]
    <3>1. ask[a].with \in Pairs
      BY <1>1, <2>1 DEF CallsInv, AskInv, Leader, Ask, Pairs
    <3>2. access # "ok"
      BY <3>1 DEF ConsoleTypeOK, Pair
    <3>3. /\ refused.stage = ask[a].stage /\ refused.fetch = ask[a].fetch
          /\ refused.with = ask[a].with /\ refused.kind = ask[a].kind
          /\ refused.result = access /\ refused.effects = ask[a].effects
          /\ refused.version = ask[a].version
      BY <2>1 DEF Ask
    <3> HIDE DEF access, refused
    <3> QED BY <1>1, <1>5, <2>2, <3>2, <3>3 DEF ConsoleTypeOK, Leader
  <2>3. CASE ask' = [ask EXCEPT ![a] = read] /\ data' = data
    <3>1. /\ read.stage = ask[a].stage /\ read.fetch = ask[a].fetch
          /\ read.with = ask[a].with /\ read.kind = ask[a].kind
          /\ read.result = "ok" /\ read.effects = ask[a].effects
          /\ read.version = data
      BY <2>1 DEF Ask
    <3> HIDE DEF read
    <3> QED BY <1>1, <1>5, <2>3, <3>1 DEF ConsoleTypeOK, Leader
  <2>4. CASE ask' = [ask EXCEPT ![a] = written]
    <3>1. /\ written.stage = ask[a].stage /\ written.fetch = ask[a].fetch
          /\ written.with = ask[a].with /\ written.kind = ask[a].kind
          /\ written.result = "ok" /\ written.effects = ask[a].effects + 1
          /\ written.version = data'
      BY <2>1 DEF Ask
    <3> HIDE DEF written
    <3> QED BY <1>1, <1>5, <2>4, <3>1 DEF ConsoleTypeOK, Leader
  <2> QED BY <1>4, <2>2, <2>3, <2>4
<1> HIDE DEF access, refused, read, written
<1>7. AskInv'
  <2> SUFFICES ASSUME NEW b \in Asks
               PROVE  /\ ask'[b].stage \in {"waiting", "ready"} =>
                           ask'[b].result = "none" /\ ask'[b].effects = 0
                      /\ ask'[b].stage = "sent" =>
                           /\ ask'[b].with # 0 /\ ask'[b].fetch \in Asks
                           /\ ask'[ask'[b].fetch].stage = "sent"
                           /\ ask'[ask'[b].fetch].fetch = ask'[b].fetch
                           /\ ask'[ask'[b].fetch].with = ask'[b].with
                           /\ ask'[ask'[b].fetch].kind = ask'[b].kind
                           /\ ask'[b].fetch # b => ask'[b].kind = "read"
                      /\ ask'[b].effects # 0 =>
                           /\ ask'[b].stage = "sent" /\ ask'[b].fetch = b
                           /\ ask'[b].result = "ok" /\ ask'[b].effects = 1
    BY DEF AskInv, Leader
  <2>1. CASE b = a
    BY <1>1, <1>6, <2>1 DEF CallsInv, AskInv, Leader
  <2>2. CASE b # a
    BY <1>1, <1>6, <2>2 DEF CallsInv, AskInv, Leader
  <2> QED BY <2>1, <2>2
<1>8. ReadsInv'
  BY <1>2, <1>6 DEF CallsInv, ReadsInv, Leader, ConsoleTypeOK
<1>9. \A f \in Asks : Recent(f) => Recent(f)'
  BY <1>2, <1>3, <1>6 DEF Recent, CallsInv, RecentInv, ConsoleTypeOK
<1>10. RecentInv'
  <2>1. \A b \in Asks : ask'[b].version <= data'
    <3> TAKE b \in Asks
    <3>1. ask[b].version <= data /\ ask[b].version \in Nat /\ data \in Nat
      BY DEF CallsInv, RecentInv, ConsoleTypeOK, Ask
    <3> QED BY <1>3, <1>6, <3>1
  <2>2. \A s \in Pairs : reads[s] # Nobody => Recent(reads[s])'
    BY <1>2, <1>9 DEF CallsInv, RecentInv, ConsoleTypeOK, Recent
  <2>3. hook.run # Nobody /\ ask'[hook.run].stage = "sent" =>
          /\ Recent(ask[hook.run].fetch)' /\ ask'[hook.run].fetch = ask[hook.run].fetch
    <3> HAVE hook.run # Nobody /\ ask'[hook.run].stage = "sent"
    <3>1. hook.run \in Asks
      BY DEF ConsoleTypeOK, Hook
    <3>2. ask[hook.run].stage = "sent" /\ ask'[hook.run].fetch = ask[hook.run].fetch
      BY <1>1, <1>6, <3>1 DEF Leader
    <3> QED BY <1>2, <1>9, <3>1, <3>2 DEF CallsInv, RecentInv, AskInv, Recent
  <2>4. reported' <= data'
    BY <1>2, <1>3 DEF CallsInv, RecentInv, ConsoleTypeOK
  <2> QED BY <1>2, <2>1, <2>2, <2>3, <2>4 DEF RecentInv, Recent
<1> QED BY <1>7, <1>8, <1>10 DEF CallsInv
(* Calls that ended hold nothing.                                           *)
LEMMA SharedAnswer ==
    ASSUME ConsoleTypeOK, NEW a \in Asks, NEW S, ask' = Ended(S), S \in SUBSET Asks
    PROVE  /\ \A b \in Asks \ S : ask'[b] = ask[b]
           /\ \A b \in S : /\ ask'[b].stage = "idle" /\ ask'[b].result = "none"
                            /\ ask'[b].effects = 0 /\ ask'[b].version = 0 /\ ask'[b].with = 0
BY NewAskIs DEF Ended, NoAsk
(* A page that sees its call fail waits for none.                           *)
LEMMA ThrownRun ==
    ASSUME ConsoleTypeOK, NEW S
    PROVE  Thrown(S).run \in {hook.run, Nobody}
BY DEF Thrown, ConsoleTypeOK, Hook
(* What a page asks for is sent, and awaited.                               *)
LEMMA RunSends ==
    ASSUME ConsoleTypeOK, NEW a \in Asks, NEW page \in Hook,
           NEW registered \in [Pairs -> Asks \cup {Nobody}],
           held # 0, run(a, page, registered)
    PROVE  /\ \E y \in Ask : Sending(a, y, registered) /\ y.version = 0 /\ y.kind = "read"
           /\ hook'.run = a
<1>1. send(a, NewAsk("read"), registered)
  BY DEF run
<1>2. hook'.run = a
  BY DEF run, Hook
<1> QED BY <1>1, <1>2, SendSends, NewAskIs, NewAskTyped
(* Every step keeps what is known of the calls.                             *)
LEMMA CallsStep ==
    ASSUME ConsoleTypeOK, ConsoleTypeOK', CallsInv, HookInv, ConsoleNext
    PROVE  CallsInv'
<1>1. ask' \in [Asks -> Ask] /\ data \in Nat /\ 0 <= data
  BY DEF ConsoleTypeOK
<1>2. reads \in [Pairs -> Asks \cup {Nobody}] /\ hook \in Hook
  BY DEF ConsoleTypeOK
<1>3. ASSUME NEW a \in Asks, ask[a].stage \in {"idle", "ready"}
      PROVE  Unfollowed(a) /\ Registered(reads, a)
  BY <1>3, IdleIsUnfollowed, ReadsAreRegistered DEF CallsInv
<1>4. ASSUME NEW a \in Asks, Leader(a), ask' = Ended(Sharing(a)), reads' = Deregistered(a),
             UNCHANGED <<data, reported>>, hook'.run \in {hook.run, Nobody}
      PROVE  CallsInv'
  <2>1. Sharing(a) \in SUBSET Asks
    BY DEF Sharing
  <2>2. \A b \in Asks \ Sharing(a) : ask'[b] = ask[b]
    BY <1>4, <2>1, SharedAnswer
  <2>3. \A b \in Sharing(a) : /\ ask'[b].stage # "sent" /\ ask'[b].result = "none"
                              /\ ask'[b].effects = 0 /\ ask'[b].version = 0
    BY <1>4, <2>1, SharedAnswer
  <2> QED BY <1>1, <1>4, <2>2, <2>3, AnsweredCalls
<1>5. ASSUME NEW S \in SUBSET Asks, \A b \in S : ask[b].stage # "sent",
             Throw(S), UNCHANGED <<reads, data, reported>>
      PROVE  CallsInv'
  <2>1. ask' = Ended(S) /\ hook'.run \in {hook.run, Nobody}
    BY <1>5, ThrownRun DEF Throw
  <2>2. \A b \in Asks : ask[b].stage = "sent" => ask'[b] = ask[b]
    BY <1>5, <2>1, SharedAnswer
  <2>3. \A b \in Asks : ask'[b] = ask[b] \/
           /\ ask'[b].stage # "sent" /\ ask'[b].result = "none"
           /\ ask'[b].effects = 0 /\ ask'[b].version <= data
    BY <1>1, <1>5, <2>1, SharedAnswer
  <2> QED BY <1>1, <1>5, <2>1, <2>2, <2>3, UnsentCalls
<1>6. ASSUME UNCHANGED <<ask, reads, data, reported>>, hook'.run \in {hook.run, Nobody}
      PROVE  CallsInv'
  <2>1. /\ \A b \in Asks : ask[b].stage = "sent" => ask'[b] = ask[b]
        /\ \A b \in Asks : ask'[b] = ask[b]
    BY <1>6
  <2> QED BY <1>1, <1>6, <2>1, UnsentCalls
<1>7. ASSUME NEW a \in Asks, Call(a)
      PROVE  CallsInv'
  <2>1. CASE Submit(a)
    <3>1. send(a, NewAsk("write"), reads) /\ held # 0 /\ ask[a].stage = "idle"
          /\ UNCHANGED <<data, reported, hook>>
      BY <2>1 DEF Submit, Free
    <3>2. PICK y \in Ask : Sending(a, y, reads) /\ y.version = 0
      BY <1>2, <3>1, SendSends, NewAskIs, NewAskTyped
    <3> QED BY <1>1, <1>2, <1>3, <3>1, <3>2, SentCalls DEF CallsInv, RecentInv, ConsoleTypeOK
  <2>2. CASE Reread(a)
    <3>1. run(a, hook, reads) /\ held # 0 /\ ask[a].stage = "idle" /\ UNCHANGED <<data, reported>>
      BY <2>2 DEF Reread, Free
    <3>2. PICK y \in Ask : Sending(a, y, reads) /\ y.version = 0
      BY <1>2, <3>1, RunSends
    <3>3. hook'.run = a
      BY <1>2, <3>1, RunSends
    <3> QED BY <1>1, <1>2, <1>3, <3>1, <3>2, <3>3, SentCalls DEF CallsInv, RecentInv, ConsoleTypeOK
  <2>3. CASE Render(a)
    <3>1. run(a, Mounted(held), reads) /\ held # 0 /\ ask[a].stage = "idle"
          /\ UNCHANGED <<data, reported>>
      BY <2>3 DEF Render, Free
    <3>2. Mounted(held) \in Hook
      BY MountedTyped DEF ConsoleTypeOK
    <3>3. PICK y \in Ask : Sending(a, y, reads) /\ y.version = 0
      BY <1>2, <3>1, <3>2, RunSends
    <3>4. hook'.run = a
      BY <1>2, <3>1, <3>2, RunSends
    <3> QED BY <1>1, <1>2, <1>3, <3>1, <3>3, <3>4, SentCalls DEF CallsInv, RecentInv, ConsoleTypeOK
  <2>4. CASE Serve(a)
    BY <1>1, <2>4, ServedCalls
  <2>5. CASE ReadSucceeds(a)
    <3>1. hook'.run \in {hook.run, Nobody}
      BY <1>2, <2>5 DEF ReadSucceeds, Hook
    <3> QED BY <1>4, <2>5, <3>1 DEF ReadSucceeds, Answered, Leader
  <2>6. CASE WriteSucceeds(a)
    <3>1. /\ Leader(a) /\ ask[a].kind = "write" /\ ask[a].with = held /\ ask[a].with # 0
          /\ UNCHANGED data /\ reported' \in {ask[a].version, reported}
      BY <2>6 DEF WriteSucceeds, Answered, Leader, CallsInv, AskInv
    <3>2. Unfollowed(a)
      BY <3>1, IdleIsUnfollowed DEF CallsInv
    <3>3. reported' \in Nat /\ reported' <= data
      BY <3>1 DEF CallsInv, RecentInv, ConsoleTypeOK
    <3>4. /\ ReadsCleared \in [Pairs -> Asks \cup {Nobody}] /\ Registered(ReadsCleared, a)
          /\ \A s \in Pairs : ReadsCleared[s] = Nobody
      BY DEF ReadsCleared, Registered
    <3>5. CASE run(a, hook, ReadsCleared)
      <4>1. PICK y \in Ask : Sending(a, y, ReadsCleared) /\ y.version = 0
        BY <1>2, <3>1, <3>4, <3>5, RunSends
      <4>2. hook'.run = a
        BY <1>2, <3>1, <3>4, <3>5, RunSends
      <4> HIDE DEF ReadsCleared
      <4> QED BY <1>1, <3>1, <3>2, <3>3, <3>4, <4>1, <4>2, SentCalls
    <3>6. CASE hook.rendered = 0 /\ ask' = Ended({a}) /\ reads' = ReadsCleared /\ UNCHANGED hook
      <4>1. /\ \A b \in Asks : b # a => ask'[b] = ask[b]
            /\ ask'[a].stage = "idle" /\ ask'[a].effects = 0 /\ ask'[a].version = 0
        BY <3>6, SharedAnswer
      <4>2. AskInv'
        <5> SUFFICES ASSUME NEW b \in Asks
                     PROVE  /\ ask'[b].stage \in {"waiting", "ready"} =>
                                 ask'[b].result = "none" /\ ask'[b].effects = 0
                            /\ ask'[b].stage = "sent" =>
                                 /\ ask'[b].with # 0 /\ ask'[b].fetch \in Asks
                                 /\ ask'[ask'[b].fetch].stage = "sent"
                                 /\ ask'[ask'[b].fetch].fetch = ask'[b].fetch
                                 /\ ask'[ask'[b].fetch].with = ask'[b].with
                                 /\ ask'[ask'[b].fetch].kind = ask'[b].kind
                                 /\ ask'[b].fetch # b => ask'[b].kind = "read"
                            /\ ask'[b].effects # 0 =>
                                 /\ ask'[b].stage = "sent" /\ ask'[b].fetch = b
                                 /\ ask'[b].result = "ok" /\ ask'[b].effects = 1
          BY DEF AskInv, Leader
        <5>1. CASE b = a
          BY <4>1, <5>1
        <5>2. CASE b # a
          BY <3>2, <4>1, <5>2 DEF CallsInv, AskInv, Leader, Unfollowed
        <5> QED BY <5>1, <5>2
      <4>3. hook'.run = Nobody
        BY <3>6 DEF HookInv, Unmounted
      <4>4. ReadsInv'
        BY <3>4, <3>6 DEF ReadsInv
      <4>5. RecentInv'
        BY <1>1, <3>1, <3>3, <3>4, <3>6, <4>1, <4>3 DEF RecentInv, CallsInv
      <4> QED BY <4>2, <4>4, <4>5 DEF CallsInv
    <3> QED BY <2>6, <3>5, <3>6 DEF WriteSucceeds
  <2>7. CASE SessionChanged(a)
    BY <1>4, <2>7, ThrownRun DEF SessionChanged, Throw, Answered, Leader
  <2>8. CASE TokenExpired(a)
    <3> DEFINE again == {b \in Sharing(a) : ask[b].with = held /\ ~ask[b].retried}
               over == Sharing(a) \ again
               y(b) == [NewAsk(ask[b].kind) EXCEPT !.stage = "waiting", !.retried = TRUE,
                                                   !.effects = ask[b].effects]
    <3>1. Leader(a) /\ ask[a].result = "expired" /\ reads' = Deregistered(a)
          /\ UNCHANGED <<data, reported>> /\ hook' = Thrown(over)
      BY <2>8 DEF TokenExpired, Retried, Answered, Leader
    <3>2. \A b \in Sharing(a) : ask[b].effects = 0
      BY <3>1 DEF Sharing, CallsInv, AskInv, Leader
    <3>3. \A b \in Sharing(a) : /\ y(b).stage = "waiting" /\ y(b).result = "none"
                                /\ y(b).effects = 0 /\ y(b).version = 0 /\ y(b).with = 0
      BY <3>2 DEF NewAsk
    <3>4. ask' = [b \in Asks |-> IF b \in again THEN y(b) ELSE Ended(over)[b]]
      BY <2>8 DEF TokenExpired
    <3>5. \A b \in Asks : Ended(over)[b] = IF b \in over THEN NoAsk ELSE ask[b]
      BY DEF Ended
    <3>6. \A b \in Asks \ Sharing(a) : ask'[b] = ask[b]
      <4> HIDE DEF y
      <4> QED BY <3>4, <3>5
    <3>7. \A b \in Sharing(a) : /\ ask'[b].stage # "sent" /\ ask'[b].result = "none"
                                /\ ask'[b].effects = 0 /\ ask'[b].version = 0
      <4>1. Sharing(a) \subseteq Asks
        BY DEF Sharing
      <4>2. NoAsk.stage = "idle" /\ NoAsk.result = "none" /\ NoAsk.effects = 0 /\ NoAsk.version = 0
        BY NewAskIs DEF NoAsk
      <4> HIDE DEF y
      <4> QED BY <3>3, <3>4, <3>5, <4>1, <4>2
    <3>8. hook'.run \in {hook.run, Nobody}
      BY <3>1, ThrownRun
    <3> QED BY <1>1, <3>1, <3>6, <3>7, <3>8, AnsweredCalls
  <2>9. CASE Unauthorized(a)
    BY <1>4, <2>9, ThrownRun DEF Unauthorized, Rejected, Throw, Answered, Leader
  <2>10. CASE Fail(a)
    BY <1>4, <2>10, ThrownRun DEF Fail, Throw, Leader
  <2>11. CASE Resume(a)
    <3>1. ask[a].stage = "ready" /\ UNCHANGED <<data, reported>>
      BY <2>11 DEF Resume
    <3>2. CASE held # 0 /\ dispatch(a, ask[a], reads) /\ UNCHANGED hook
      <4>1. ask[a] \in Ask /\ ask[a].result = "none" /\ ask[a].effects = 0 /\ ask[a].version <= data
        BY <3>1 DEF CallsInv, AskInv, RecentInv, ConsoleTypeOK
      <4>2. PICK y \in Ask : Sending(a, y, reads) /\ y.version = ask[a].version
        BY <1>2, <3>2, <4>1, DispatchSends
      <4> QED BY <1>1, <1>2, <1>3, <3>1, <3>2, <4>1, <4>2, SentCalls DEF CallsInv, RecentInv, ConsoleTypeOK
    <3>3. CASE Throw({a}) /\ UNCHANGED reads
      BY <1>5, <3>1, <3>3
    <3> QED BY <2>11, <3>2, <3>3 DEF Resume
  <2> QED BY <1>7, <2>1, <2>2, <2>3, <2>4, <2>5, <2>6, <2>7, <2>8, <2>9, <2>10, <2>11 DEF Call
<1>8. ASSUME NEW acct \in Accounts, setTenantSession(acct)
      PROVE  CallsInv'
  BY <1>6, <1>8 DEF setTenantSession
<1>9. CASE Age
  BY <1>6, <1>9 DEF Age
<1>10. CASE Unmount
  BY <1>6, <1>10 DEF Unmount, Unmounted
<1>11. CASE ServeRenewal
  BY <1>6, <1>11 DEF ServeRenewal
<1>12. CASE RenewalSucceeds
  <2>1. \A b \in Asks : ask[b].stage # "waiting" => ask'[b] = ask[b]
    BY <1>12 DEF RenewalSucceeds, Waiting
  <2>2. \A b \in Asks : ask[b].stage = "waiting" => ask'[b] = [ask[b] EXCEPT !.stage = "ready"]
    BY <1>12 DEF RenewalSucceeds, Waiting
  <2>3. \A b \in Asks : ask[b].stage = "waiting" =>
           /\ ask'[b].stage # "sent" /\ ask'[b].result = "none"
           /\ ask'[b].effects = 0 /\ ask'[b].version <= data
    BY <2>2 DEF ConsoleTypeOK, Ask, CallsInv, AskInv, RecentInv
  <2>4. UNCHANGED <<reads, data, reported, hook>>
    BY <1>12 DEF RenewalSucceeds
  <2> QED BY <1>1, <2>1, <2>3, <2>4, UnsentCalls
<1>13. Waiting \in SUBSET Asks /\ \A b \in Waiting : ask[b].stage # "sent"
  BY DEF Waiting
<1>14. CASE RenewalRefused
  BY <1>5, <1>13, <1>14 DEF RenewalRefused
<1>15. CASE RenewalFails
  BY <1>5, <1>13, <1>15 DEF RenewalFails
<1>16. CASE signOutTenant
  BY <1>6, <1>16 DEF signOutTenant
<1>17. CASE Reload
  <2>1. \A b \in Asks : ask'[b].stage = "idle" /\ ask'[b].effects = 0 /\ ask'[b].version = 0
    BY <1>17, NewAskIs DEF Reload, NoAsk
  <2>2. \A s \in Pairs : reads'[s] = Nobody
    BY <1>17 DEF Reload, NoReads
  <2>3. hook'.run = Nobody /\ UNCHANGED <<data, reported>>
    BY <1>17 DEF Reload, Unmounted
  <2> QED BY <1>1, <2>1, <2>2, <2>3 DEF CallsInv, AskInv, ReadsInv, RecentInv
<1> QED
  BY ONLY <1>7, <1>8, <1>9, <1>10, <1>11, <1>12, <1>14, <1>15, <1>16, <1>17, ConsoleNext
  DEF ConsoleNext

-----------------------------------------------------------------------------
(* The pairs and the renewal.                                               *)

(* All that a call does to them is to begin a renewal of the session held.  *)
Begins ==
    /\ renewal.of = 0 /\ held # 0 /\ held' = held
    /\ renewal'.of = held /\ renewal'.answer = "none" /\ renewal'.pair = 0
    /\ \A s \in Pairs :
          /\ pair'[s].access = pair[s].access /\ pair'[s].refresh = pair[s].refresh
          /\ pair'[s].presented = pair[s].presented + (IF s = held THEN 1 ELSE 0)
(* A call begins a renewal of the session held, or none.                    *)
LEMMA RefreshBegins ==
    ASSUME ConsoleTypeOK, held # 0, held' = held, refreshTenantSession
    PROVE  UNCHANGED <<pair, renewal>> \/ Begins
<1>1. CASE UNCHANGED <<pair, renewal>>
  BY <1>1
<1>2. CASE /\ renewal.of = 0 /\ renewal' = [NoRenewal EXCEPT !.of = held]
           /\ pair' = [pair EXCEPT ![held].presented = @ + 1]
  <2>1. renewal'.of = held /\ renewal'.answer = "none" /\ renewal'.pair = 0
    BY <1>2 DEF NoRenewal
  <2> DEFINE y == [pair[held] EXCEPT !.presented = @ + 1]
  <2>2. held \in Pairs
    BY DEF ConsoleTypeOK, Pairs
  <2>3. y.access = pair[held].access /\ y.refresh = pair[held].refresh
        /\ y.presented = pair[held].presented + 1
    BY <2>2 DEF ConsoleTypeOK, Pair
  <2>4. pair' = [pair EXCEPT ![held] = y]
    BY <1>2
  <2>5. ASSUME NEW s \in Pairs
        PROVE  /\ pair'[s].access = pair[s].access /\ pair'[s].refresh = pair[s].refresh
               /\ pair'[s].presented = pair[s].presented + (IF s = held THEN 1 ELSE 0)
    <3> HIDE DEF y
    <3> QED BY <2>2, <2>3, <2>4 DEF ConsoleTypeOK, Pair
  <2> QED BY <1>2, <2>1, <2>5 DEF Begins
<1> QED BY <1>1, <1>2 DEF refreshTenantSession
(* No step of a call but that touches the pairs, and none installs a        *)
(* session.                                                                 *)
LEMMA CallPairs ==
    ASSUME ConsoleTypeOK, AskInv, NEW a \in Asks, Call(a)
    PROVE  /\ issued' = issued /\ held' \in {held, 0}
           /\ UNCHANGED <<pair, renewal>> \/ Begins
           /\ hook'.rendered \in {hook.rendered, held}
<1>1. ASSUME NEW x, NEW registered, send(a, x, registered), held # 0, held' = held
      PROVE  UNCHANGED <<pair, renewal>> \/ Begins
  BY <1>1, RefreshBegins DEF send
<1>2. ASSUME NEW page \in Hook, NEW registered, run(a, page, registered), held # 0, held' = held
      PROVE  /\ UNCHANGED <<pair, renewal>> \/ Begins
             /\ hook'.rendered = page.rendered
  <2>1. send(a, NewAsk("read"), registered)
    BY <1>2 DEF run
  <2>2. hook'.rendered = page.rendered
    BY <1>2 DEF run, Hook
  <2> QED BY <1>1, <1>2, <2>1, <2>2
<1>3. hook \in Hook /\ Mounted(held) \in Hook /\ Mounted(held).rendered = held
  BY MountedTyped DEF ConsoleTypeOK, Mounted, Unmounted
<1>4. \A S : Thrown(S).rendered = hook.rendered
  BY <1>3 DEF Thrown, Hook
<1>5. CASE Submit(a)
  BY <1>1, <1>5 DEF Submit
<1>6. CASE Reread(a)
  BY <1>2, <1>3, <1>6 DEF Reread
<1>7. CASE Render(a)
  BY <1>2, <1>3, <1>7 DEF Render
<1>8. CASE Serve(a)
  BY <1>8 DEF Serve
<1>9. CASE ReadSucceeds(a)
  BY <1>3, <1>9 DEF ReadSucceeds, Hook
<1>10. CASE WriteSucceeds(a)
  <2>1. held # 0 /\ held' = held /\ issued' = issued
    BY <1>10 DEF WriteSucceeds, Answered, AskInv
  <2>2. run(a, hook, ReadsCleared) \/ UNCHANGED <<pair, renewal, hook>>
    BY <1>10 DEF WriteSucceeds
  <2> QED BY <1>2, <1>3, <2>1, <2>2
<1>11. CASE SessionChanged(a)
  BY <1>4, <1>11 DEF SessionChanged, Throw
<1>12. CASE TokenExpired(a)
  <2> DEFINE again == {b \in Sharing(a) : ask[b].with = held /\ ~ask[b].retried}
             over == Sharing(a) \ again
  <2>1. hook' = Thrown(over) /\ UNCHANGED <<issued, held>>
    BY <1>12 DEF TokenExpired
  <2>2. \/ again = {} /\ UNCHANGED <<pair, renewal>>
        \/ again # {} /\ refreshTenantSession
    BY <1>12 DEF TokenExpired
  <2>3. again # {} => held # 0
    BY DEF Sharing, AskInv
  <2> HIDE DEF again
  <2> QED BY <1>4, <2>1, <2>2, <2>3, RefreshBegins
<1>13. CASE Unauthorized(a)
  BY <1>4, <1>13 DEF Unauthorized, Throw
<1>14. CASE Fail(a)
  BY <1>4, <1>14 DEF Fail, Throw
<1>15. CASE Resume(a)
  BY <1>4, <1>15 DEF Resume, Throw
<1> QED
  BY <1>5, <1>6, <1>7, <1>8, <1>9, <1>10, <1>11, <1>12, <1>13, <1>14, <1>15 DEF Call
(* A revocation spends no token and concerns only pairs that were issued.   *)
LEMMA RevokedPairs ==
    ASSUME ConsoleTypeOK, NEW acct, NEW s \in Pairs
    PROVE  /\ Revoked(acct)[s].presented = pair[s].presented
           /\ s > issued => Revoked(acct)[s] = pair[s]
           /\ \/ Revoked(acct)[s] = pair[s]
              \/ Revoked(acct)[s].access = "revoked" /\ Revoked(acct)[s].refresh = "revoked"
<1> DEFINE y == [pair[s] EXCEPT !.access = "revoked", !.refresh = "revoked"]
<1>1. y.access = "revoked" /\ y.refresh = "revoked" /\ y.presented = pair[s].presented
  BY DEF ConsoleTypeOK, Pair
<1>2. Revoked(acct)[s] = IF s <= issued /\ Of(s) = acct THEN y ELSE pair[s]
  BY DEF Revoked
<1> HIDE DEF y
<1>3. s > issued => ~(s <= issued)
  BY DEF ConsoleTypeOK, Pairs
<1> QED BY <1>1, <1>2, <1>3

(* What a step may do to a token pair that was issued.                      *)
PairKept(s) ==
    /\ pair[s].access = "revoked" => pair'[s].access = "revoked"
    /\ pair[s].refresh # "good" => pair'[s].refresh # "good"
    /\ pair'[s].access = "revoked" => pair'[s].refresh = "revoked"
(* A missed answer changes only the count of presentations.                 *)
LEMMA Forgotten ==
    ASSUME ConsoleTypeOK, NEW r \in 0 .. LastPair, NEW s \in Pairs,
           pair' = [pair EXCEPT ![r].presented = 0]
    PROVE  /\ pair'[s].access = pair[s].access /\ pair'[s].refresh = pair[s].refresh
           /\ pair'[s].presented = IF s = r THEN 0 ELSE pair[s].presented
<1> DEFINE y == [pair[r] EXCEPT !.presented = 0]
<1>1. r \in Pairs => y.access = pair[r].access /\ y.refresh = pair[r].refresh /\ y.presented = 0
  BY DEF ConsoleTypeOK, Pair
<1>2. pair' = [pair EXCEPT ![r] = y]
  OBVIOUS
<1> HIDE DEF y
<1> QED BY <1>1, <1>2 DEF ConsoleTypeOK

TokensInv == PairsInv /\ RenewalInv /\ PresentedInv

PairsKept == issued' >= issued /\ \A s \in Pairs : s <= issued => PairKept(s)
(* Every step keeps what is known of pairs and renewal, and gives no pair   *)
(* back.                                                                    *)
LEMMA TokensStep ==
    ASSUME ConsoleTypeOK, ConsoleTypeOK', AskInv, TokensInv, ConsoleNext
    PROVE  TokensInv' /\ PairsKept
<1> USE DEF TokensInv
<1>1. /\ issued \in Nat /\ held \in Nat /\ hook.rendered \in Nat
      /\ renewal.of \in Nat /\ renewal.pair \in Nat
      /\ held \in 0 .. LastPair /\ renewal.of \in 0 .. LastPair /\ renewal.pair \in 0 .. LastPair
      /\ \A s \in Pairs : s \in Nat /\ s > 0 /\ pair[s].presented \in Nat
      /\ \A s \in 0 .. LastPair : s # 0 => s \in Pairs
  <2>1. /\ issued \in Nat /\ held \in Nat
        /\ held \in 0 .. LastPair /\ renewal.of \in 0 .. LastPair /\ renewal.pair \in 0 .. LastPair
        /\ hook.rendered \in 0 .. LastPair
    BY DEF ConsoleTypeOK, Renewal, Hook
  <2>2. \A s \in Pairs : s \in Nat /\ s > 0
    BY DEF Pairs
  <2>3. \A s \in Pairs : pair[s].presented \in Nat
    BY DEF ConsoleTypeOK, Pair
  <2>4. \A s \in 0 .. LastPair : s # 0 => s \in Pairs
    BY DEF Pairs
  <2> QED BY <2>1, <2>2, <2>3, <2>4
<1>2. ASSUME NEW a \in Asks, Call(a)
      PROVE  TokensInv' /\ PairsKept
  <2>1. /\ issued' = issued /\ held' \in {held, 0}
        /\ UNCHANGED <<pair, renewal>> \/ Begins
        /\ hook'.rendered \in {hook.rendered, held}
    BY <1>2, CallPairs
  <2>2. CASE UNCHANGED <<pair, renewal>>
    <3>1. PairsInv' /\ PairsKept
      BY <1>1, <2>1, <2>2 DEF PairsInv, PairsKept, PairKept
    <3>2. RenewalInv'
      BY <1>1, <2>1, <2>2 DEF RenewalInv
    <3>3. PresentedInv'
      BY <1>1, <2>1, <2>2 DEF PresentedInv, RefreshedOnce
    <3> QED BY <3>1, <3>2, <3>3
  <2>3. CASE Begins
    <3>1. PairsInv' /\ PairsKept
      BY <1>1, <2>1, <2>3 DEF PairsInv, PairsKept, PairKept, Begins
    <3>2. RenewalInv'
      BY <1>1, <2>1, <2>3 DEF RenewalInv, Begins
    <3>3. PresentedInv'
      BY <1>1, <2>1, <2>3 DEF PresentedInv, RefreshedOnce, Begins
    <3> QED BY <3>1, <3>2, <3>3
  <2> QED BY <2>1, <2>2, <2>3
<1>3. ASSUME NEW acct \in Accounts, setTenantSession(acct)
      PROVE  TokensInv' /\ PairsKept
  <2>1. /\ issued < LastPair /\ issued' = issued + 1 /\ held' = issued + 1 /\ issued + 1 \in Pairs
        /\ UNCHANGED <<renewal, hook>>
        /\ pair' = [pair EXCEPT ![issued + 1] = NewPair(acct)]
    BY <1>1, <1>3, ConsoleOK DEF setTenantSession, Pairs
  <2>2. /\ pair'[issued + 1].presented = 0 /\ pair'[issued + 1].access = "good"
        /\ \A s \in Pairs : s # issued + 1 => pair'[s] = pair[s]
    BY <2>1 DEF NewPair, ConsoleTypeOK
  <2>3. PairsInv' /\ PairsKept
    BY <1>1, <2>1, <2>2 DEF PairsInv, PairsKept, PairKept
  <2>4. RenewalInv'
    BY <1>1, <2>1, <2>2 DEF RenewalInv, PairsInv
  <2>5. PresentedInv'
    BY <1>1, <2>1, <2>2 DEF PresentedInv, RefreshedOnce, PairsInv
  <2> QED BY <2>3, <2>4, <2>5
<1>4. CASE Age
  <2>1. UNCHANGED <<issued, held, renewal, hook>>
    BY <1>4 DEF Age
  <2>2. \A s \in Pairs :
          /\ pair'[s].presented = pair[s].presented /\ pair'[s].refresh = pair[s].refresh
          /\ \/ pair'[s].access = pair[s].access
             \/ s = held /\ pair[s].access = "good" /\ pair'[s].access = "expired"
    <3> DEFINE y == [pair[held] EXCEPT !.access = "expired"]
    <3>1. held \in Pairs
      BY <1>1, <1>4 DEF Age
    <3>2. /\ y.presented = pair[held].presented /\ y.refresh = pair[held].refresh
          /\ y.access = "expired"
      BY <3>1 DEF ConsoleTypeOK, Pair
    <3>3. \/ pair' = pair
          \/ pair[held].access = "good" /\ pair' = [pair EXCEPT ![held] = y]
      BY <1>4 DEF Age
    <3> HIDE DEF y
    <3> QED BY <3>1, <3>2, <3>3 DEF ConsoleTypeOK
  <2>3. PairsInv' /\ PairsKept
    BY <1>1, <2>1, <2>2 DEF PairsInv, PairsKept, PairKept
  <2>4. RenewalInv'
    BY <1>1, <2>1, <2>2 DEF RenewalInv, PairsInv
  <2>5. PresentedInv'
    BY <1>1, <2>1, <2>2 DEF PresentedInv, RefreshedOnce, PairsInv
  <2> QED BY <2>3, <2>4, <2>5
<1>5. CASE Unmount
  <2>1. UNCHANGED <<issued, held, renewal, pair>> /\ hook'.rendered = 0
    BY <1>5 DEF Unmount, Unmounted
  <2>2. PairsInv' /\ PairsKept
    BY <1>1, <2>1 DEF PairsInv, PairsKept, PairKept
  <2>3. RenewalInv'
    BY <1>1, <2>1 DEF RenewalInv
  <2>4. PresentedInv'
    BY <2>1 DEF PresentedInv, RefreshedOnce
  <2> QED BY <2>2, <2>3, <2>4
<1>6. CASE ServeRenewal
  <2>1. UNCHANGED <<held, hook>> /\ renewal.of # 0 /\ renewal.answer = "none"
    BY <1>6 DEF ServeRenewal
  <2>2. renewal.of \in Pairs
    BY <1>1, <2>1
  <2>3. CASE /\ pair[renewal.of].refresh = "good" /\ issued < LastPair /\ issued' = issued + 1
             /\ pair' = [pair EXCEPT ![renewal.of].refresh = "spent",
                                     ![issued + 1] = NewPair(Of(renewal.of))]
             /\ renewal' = [renewal EXCEPT !.answer = "ok", !.pair = issued + 1]
    <3> DEFINE y == [pair[renewal.of] EXCEPT !.refresh = "spent"]
               z == NewPair(Of(renewal.of))
    <3>1. /\ y.presented = pair[renewal.of].presented /\ y.refresh = "spent"
          /\ y.access = pair[renewal.of].access
      BY <2>2 DEF ConsoleTypeOK, Pair
    <3>2. z.presented = 0 /\ z.access = "good" /\ z.refresh = "good"
      BY DEF NewPair
    <3>3. pair' = [[pair EXCEPT ![renewal.of] = y] EXCEPT ![issued + 1] = z]
      BY <2>3
    <3>4. issued + 1 \in Pairs /\ renewal.of < issued + 1
      BY <1>1, <2>3, ConsoleOK DEF Pairs, PairsInv
    <3>5. /\ pair'[issued + 1] = z /\ pair'[renewal.of] = y
          /\ \A s \in Pairs : s \notin {renewal.of, issued + 1} => pair'[s] = pair[s]
      <4> HIDE DEF y, z
      <4> QED BY <1>1, <2>2, <3>3, <3>4 DEF ConsoleTypeOK
    <3>6. renewal'.of = renewal.of /\ renewal'.answer = "ok" /\ renewal'.pair = issued + 1
      BY <2>3 DEF ConsoleTypeOK, Renewal
    <3> HIDE DEF y, z
    <3>7. PairsInv' /\ PairsKept
      <4> issued' = issued + 1 /\ pair[renewal.of].refresh = "good"
        BY <2>3
      <4>1. \A s \in Pairs : s <= issued => PairKept(s)
        <5> TAKE s \in Pairs
        <5> HAVE s <= issued
        <5>1. CASE s = renewal.of
          BY <1>1, <3>1, <3>5, <5>1 DEF PairsInv, PairKept
        <5>2. CASE s # renewal.of
          <6>1. pair'[s] = pair[s]
            BY <1>1, <3>5, <5>2
          <6> QED BY <6>1 DEF PairsInv, PairKept
        <5> QED BY <5>1, <5>2
      <4>2. \A s \in Pairs : /\ s > issued' => pair'[s].presented = 0
                             /\ pair'[s].access = "revoked" => pair'[s].refresh = "revoked"
                             /\ s > issued' => pair'[s].access # "revoked"
        <5> TAKE s \in Pairs
        <5>1. CASE s = renewal.of
          BY <1>1, <2>2, <3>1, <3>4, <3>5, <5>1 DEF PairsInv
        <5>2. CASE s = issued + 1
          BY <3>2, <3>5, <5>2
        <5>3. CASE s \notin {renewal.of, issued + 1}
          <6>1. pair'[s] = pair[s] /\ (s > issued' => s > issued)
            BY <1>1, <3>5, <5>3
          <6> QED BY <6>1 DEF PairsInv
        <5> QED BY <5>1, <5>2, <5>3
      <4>3. issued' >= issued /\ held' <= issued' /\ renewal'.of <= issued'
            /\ renewal'.pair <= issued' /\ hook'.rendered <= issued'
        BY <1>1, <2>1, <2>3, <3>6 DEF PairsInv
      <4> QED BY <4>1, <4>2, <4>3 DEF PairsInv, PairsKept
    <3>8. RenewalInv'
      BY <1>1, <2>1, <3>2, <3>4, <3>5, <3>6 DEF RenewalInv, PairsInv
    <3>9. PresentedInv'
      BY <1>1, <2>1, <2>2, <3>1, <3>2, <3>4, <3>5, <3>6 DEF PresentedInv, RefreshedOnce, PairsInv
    <3> QED BY <3>7, <3>8, <3>9
  <2>4. CASE /\ pair[renewal.of].refresh # "good"
             /\ pair' = IF pair[renewal.of].refresh = "spent" THEN Revoked(Of(renewal.of)) ELSE pair
             /\ renewal' = [renewal EXCEPT !.answer = "refused"]
             /\ UNCHANGED issued
    <3>1. renewal'.of = renewal.of /\ renewal'.answer = "refused" /\ renewal'.pair = renewal.pair
      BY <2>4 DEF ConsoleTypeOK, Renewal
    <3>2. \A s \in Pairs :
            /\ pair'[s].presented = pair[s].presented
            /\ s > issued => pair'[s] = pair[s]
            /\ \/ pair'[s] = pair[s]
               \/ pair'[s].access = "revoked" /\ pair'[s].refresh = "revoked"
      BY <2>4, RevokedPairs
    <3>3. PairsInv' /\ PairsKept
      BY <1>1, <2>1, <2>4, <3>1, <3>2 DEF PairsInv, PairsKept, PairKept
    <3>4. RenewalInv'
      BY <1>1, <2>1, <2>2, <2>4, <3>1, <3>2 DEF RenewalInv
    <3>5. PresentedInv'
      BY <1>1, <2>1, <2>4, <3>1, <3>2 DEF PresentedInv, RefreshedOnce
    <3> QED BY <3>3, <3>4, <3>5
  <2> QED BY <1>6, <2>3, <2>4 DEF ServeRenewal
<1>7. NoRenewal.of = 0 /\ NoRenewal.answer = "none" /\ NoRenewal.pair = 0
  BY DEF NoRenewal
<1>8. \A S : Thrown(S).rendered = hook.rendered
  BY DEF Thrown, ConsoleTypeOK, Hook
<1>9. CASE RenewalSucceeds
  <2>1. /\ UNCHANGED <<issued, pair, hook>> /\ held' = renewal.pair /\ renewal.answer = "ok"
        /\ renewal'.of = 0 /\ renewal'.answer = "none" /\ renewal'.pair = 0
    BY <1>7, <1>9 DEF RenewalSucceeds
  <2>2. PairsInv' /\ PairsKept
    BY <1>1, <2>1 DEF PairsInv, PairsKept, PairKept
  <2>3. RenewalInv'
    BY <2>1 DEF RenewalInv
  <2>4. PresentedInv'
    BY <2>1 DEF PresentedInv, RefreshedOnce, RenewalInv
  <2> QED BY <2>2, <2>3, <2>4
<1>10. CASE RenewalRefused
  <2>1. /\ UNCHANGED <<issued, pair>> /\ held' = 0 /\ hook'.rendered = hook.rendered
        /\ renewal'.of = 0 /\ renewal'.answer = "none" /\ renewal'.pair = 0
    BY <1>7, <1>8, <1>10 DEF RenewalRefused, Throw
  <2>2. PairsInv' /\ PairsKept
    BY <1>1, <2>1 DEF PairsInv, PairsKept, PairKept
  <2>3. RenewalInv'
    BY <2>1 DEF RenewalInv
  <2>4. PresentedInv'
    BY <2>1 DEF PresentedInv, RefreshedOnce
  <2> QED BY <2>2, <2>3, <2>4
<1>11. ASSUME /\ UNCHANGED <<issued, held>> /\ hook'.rendered \in {hook.rendered, 0}
              /\ renewal' = NoRenewal
              /\ pair' = [pair EXCEPT ![renewal.of].presented = 0]
       PROVE  TokensInv' /\ PairsKept
  <2>1. \A s \in Pairs :
          /\ pair'[s].access = pair[s].access /\ pair'[s].refresh = pair[s].refresh
          /\ pair'[s].presented = IF s = renewal.of THEN 0 ELSE pair[s].presented
    BY <1>1, <1>11, Forgotten
  <2>2. PairsInv' /\ PairsKept
    BY <1>1, <1>7, <1>11, <2>1 DEF PairsInv, PairsKept, PairKept
  <2>3. RenewalInv'
    BY <1>7, <1>11 DEF RenewalInv
  <2>4. PresentedInv'
    BY <1>1, <1>7, <1>11, <2>1 DEF PresentedInv, RefreshedOnce
  <2> QED BY <2>2, <2>3, <2>4
<1>12. CASE RenewalFails
  BY <1>8, <1>11, <1>12 DEF RenewalFails, Throw
<1>13. CASE signOutTenant
  <2>1. /\ UNCHANGED <<issued, renewal, hook>> /\ held' = 0
        /\ pair' = pair \/ pair' = Revoked(Of(hook.rendered))
    BY <1>13 DEF signOutTenant
  <2>2. \A s \in Pairs :
          /\ pair'[s].presented = pair[s].presented
          /\ s > issued => pair'[s] = pair[s]
          /\ \/ pair'[s] = pair[s]
             \/ pair'[s].access = "revoked" /\ pair'[s].refresh = "revoked"
    BY <2>1, RevokedPairs
  <2>3. PairsInv' /\ PairsKept
    BY <1>1, <2>1, <2>2 DEF PairsInv, PairsKept, PairKept
  <2>4. RenewalInv'
    BY <1>1, <2>1, <2>2 DEF RenewalInv
  <2>5. PresentedInv'
    BY <1>1, <2>1, <2>2 DEF PresentedInv, RefreshedOnce
  <2> QED BY <2>3, <2>4, <2>5
<1>14. CASE Reload
  <2>1. UNCHANGED <<issued, held>> /\ hook'.rendered = 0 /\ renewal' = NoRenewal
    BY <1>14 DEF Reload, Unmounted
  <2>2. CASE renewal.of # 0
    BY <1>11, <1>14, <2>1, <2>2 DEF Reload
  <2>3. CASE renewal.of = 0
    <3>1. pair' = pair
      BY <1>14, <2>3 DEF Reload
    <3>2. PairsInv' /\ PairsKept
      BY <1>1, <1>7, <2>1, <3>1 DEF PairsInv, PairsKept, PairKept
    <3>3. RenewalInv'
      BY <1>7, <2>1 DEF RenewalInv
    <3>4. PresentedInv'
      BY <1>7, <2>1, <2>3, <3>1 DEF PresentedInv, RefreshedOnce
    <3> QED BY <3>2, <3>3, <3>4
  <2> QED BY <2>2, <2>3
<1> QED
  BY ONLY <1>2, <1>3, <1>4, <1>5, <1>6, <1>9, <1>10, <1>12, <1>13, <1>14, ConsoleNext
  DEF ConsoleNext
(* A call that was answered "revoked" was sent with a revoked pair.         *)
LEMMA RevokedStep ==
    ASSUME ConsoleTypeOK, ConsoleTypeOK', CallsInv, RevokedInv, TokensInv, HookInv, ConsoleNext
    PROVE  RevokedInv'
<1> DEFINE Meets(b) ==
             /\ ask'[b].with <= issued
             /\ ask'[b].stage = "sent" /\ ask'[b].result = "revoked" =>
                  pair[ask'[b].with].access = "revoked"
<1>1. PairsKept
  BY TokensStep DEF CallsInv
<1>2. /\ 0 <= issued /\ held <= issued /\ AskInv
      /\ reads \in [Pairs -> Asks \cup {Nobody}] /\ hook \in Hook
      /\ \A s : ReadsCleared \in [Pairs -> Asks \cup {Nobody}]
      /\ Mounted(held) \in Hook
  BY MountedTyped DEF ConsoleTypeOK, TokensInv, PairsInv, CallsInv, ReadsCleared
<1>3. \A b \in Asks : ask'[b] = ask[b] => Meets(b)
  BY DEF RevokedInv
<1>4. \A b \in Asks : ask'[b].with = 0 /\ ask'[b].result # "revoked" => Meets(b)
  BY <1>2
<1>5. ASSUME NEW a \in Asks, NEW y \in Ask, NEW registered, Sending(a, y, registered)
      PROVE  \A b \in Asks : Meets(b)
  <2>1. /\ ask'[a] = y /\ \A b \in Asks : b # a => ask'[b] = ask[b]
        /\ y.result = "none" /\ y.with \in {0, held}
    BY <1>5 DEF Sending, ConsoleTypeOK
  <2> QED BY <1>2, <1>3, <2>1
<1>6. ASSUME NEW S \in SUBSET Asks, ask' = Ended(S)
      PROVE  \A b \in Asks : Meets(b)
  <2>1. /\ \A b \in Asks \ S : ask'[b] = ask[b]
        /\ \A b \in S : ask'[b].result = "none" /\ ask'[b].with = 0
    BY <1>6, SharedAnswer
  <2> QED BY <1>3, <1>4, <2>1
<1>7. \A a : Sharing(a) \in SUBSET Asks
  BY DEF Sharing
<1>8. ASSUME NEW a \in Asks, Call(a)
      PROVE  \A b \in Asks : Meets(b)
  <2>1. CASE Submit(a)
    <3>1. send(a, NewAsk("write"), reads) /\ held # 0
      BY <2>1 DEF Submit
    <3> QED BY <1>2, <1>5, <3>1, SendSends, NewAskIs, NewAskTyped
  <2>2. CASE Reread(a)
    BY <1>2, <1>5, <2>2, RunSends DEF Reread
  <2>3. CASE Render(a)
    BY <1>2, <1>5, <2>3, RunSends DEF Render
  <2>4. CASE Serve(a)
    <3> DEFINE access == pair[ask[a].with].access
    <3>1. \A b \in Asks : b # a => ask'[b] = ask[b]
      BY <2>4 DEF Serve, ConsoleTypeOK
    <3>2. ask'[a].with = ask[a].with /\ (ask'[a].result = "revoked" => access = "revoked")
      <4> DEFINE refused == [ask[a] EXCEPT !.result = access]
                 read == [ask[a] EXCEPT !.result = "ok", !.version = data]
                 written == [ask[a] EXCEPT !.result = "ok", !.version = data', !.effects = @ + 1]
      <4>1. \/ ask' = [ask EXCEPT ![a] = refused]
            \/ ask' = [ask EXCEPT ![a] = read]
            \/ ask' = [ask EXCEPT ![a] = written]
        BY <2>4 DEF Serve
      <4>2. /\ refused.with = ask[a].with /\ refused.result = access
            /\ read.with = ask[a].with /\ read.result = "ok"
            /\ written.with = ask[a].with /\ written.result = "ok"
        BY DEF ConsoleTypeOK, Ask
      <4> HIDE DEF access, refused, read, written
      <4> QED BY <4>1, <4>2 DEF ConsoleTypeOK
    <3> QED BY <1>3, <3>1, <3>2 DEF RevokedInv
  <2>5. CASE ReadSucceeds(a)
    BY <1>6, <1>7, <2>5 DEF ReadSucceeds
  <2>6. CASE WriteSucceeds(a)
    <3>1. held # 0
      BY <1>2, <2>6 DEF WriteSucceeds, Answered, AskInv
    <3>2. run(a, hook, ReadsCleared) \/ ask' = Ended({a})
      BY <2>6 DEF WriteSucceeds
    <3> QED BY <1>2, <1>5, <1>6, <3>1, <3>2, RunSends
  <2>7. CASE SessionChanged(a)
    BY <1>6, <1>7, <2>7 DEF SessionChanged, Throw
  <2>8. CASE TokenExpired(a)
    <3> DEFINE again == {b \in Sharing(a) : ask[b].with = held /\ ~ask[b].retried}
               over == Sharing(a) \ again
               y(b) == [NewAsk(ask[b].kind) EXCEPT !.stage = "waiting", !.retried = TRUE,
                                                   !.effects = ask[b].effects]
    <3>1. ask' = [b \in Asks |-> IF b \in again THEN y(b) ELSE Ended(over)[b]]
      BY <2>8 DEF TokenExpired
    <3>2. \A b : y(b).with = 0 /\ y(b).result = "none"
      BY DEF NewAsk
    <3>3. \A b \in Asks : Ended(over)[b] = IF b \in over THEN NoAsk ELSE ask[b]
      BY DEF Ended
    <3>4. NoAsk.with = 0 /\ NoAsk.result = "none"
      BY NewAskIs DEF NoAsk
    <3>5. \A b \in Asks : ask'[b] = ask[b] \/ (ask'[b].with = 0 /\ ask'[b].result = "none")
      <4> HIDE DEF again, over, y
      <4> QED BY <3>1, <3>2, <3>3, <3>4
    <3> QED BY <1>3, <1>4, <3>5
  <2>9. CASE Unauthorized(a)
    BY <1>6, <1>7, <2>9 DEF Unauthorized, Throw
  <2>10. CASE Fail(a)
    BY <1>6, <1>7, <2>10 DEF Fail, Throw
  <2>11. CASE Resume(a)
    <3>1. ask[a].stage = "ready"
      BY <2>11 DEF Resume
    <3>2. CASE held # 0 /\ dispatch(a, ask[a], reads)
      <4>1. ask[a] \in Ask /\ ask[a].result = "none" /\ ask[a].effects = 0
        BY <1>2, <3>1 DEF AskInv, ConsoleTypeOK
      <4> QED BY <1>2, <1>5, <3>2, <4>1, DispatchSends
    <3>3. CASE Throw({a})
      BY <1>6, <3>3 DEF Throw
    <3> QED BY <2>11, <3>2, <3>3 DEF Resume
  <2> QED BY <1>8, <2>1, <2>2, <2>3, <2>4, <2>5, <2>6, <2>7, <2>8, <2>9, <2>10, <2>11 DEF Call
<1>9. ASSUME RenewalSucceeds
      PROVE  \A b \in Asks : Meets(b)
  <2>1. \A b \in Asks : ask'[b] = ask[b] \/ ask'[b] = [ask[b] EXCEPT !.stage = "ready"]
    BY <1>9 DEF RenewalSucceeds
  <2>2. \A b \in Asks : ask'[b] = ask[b] \/
           (ask'[b].stage = "ready" /\ ask'[b].with = ask[b].with)
    BY <2>1 DEF ConsoleTypeOK, Ask
  <2> QED BY <1>3, <2>2 DEF RevokedInv
<1>10. ASSUME RenewalRefused \/ RenewalFails
      PROVE  \A b \in Asks : Meets(b)
  <2>1. Waiting \in SUBSET Asks
    BY DEF Waiting
  <2> QED BY <1>6, <1>10, <2>1 DEF RenewalRefused, RenewalFails, Throw
<1>11. ASSUME Reload
      PROVE  \A b \in Asks : Meets(b)
  BY <1>4, <1>11, NewAskIs DEF Reload, NoAsk
<1>12. ASSUME Age \/ Unmount \/ ServeRenewal \/ signOutTenant
      PROVE  \A b \in Asks : Meets(b)
  BY <1>3, <1>12 DEF Age, Unmount, ServeRenewal, signOutTenant
<1>13. ASSUME NEW acct \in Accounts, setTenantSession(acct)
       PROVE  \A b \in Asks : Meets(b)
  BY <1>3, <1>13 DEF setTenantSession
<1>14. \A b \in Asks : Meets(b)
  BY ONLY <1>8, <1>9, <1>10, <1>11, <1>12, <1>13, ConsoleNext DEF ConsoleNext
<1>15. ASSUME NEW b \in Asks
       PROVE  /\ ask'[b].with <= issued'
              /\ ask'[b].stage = "sent" /\ ask'[b].result = "revoked" =>
                   pair'[ask'[b].with].access = "revoked"
  <2>1. ask'[b].with <= issued /\ issued \in Nat /\ issued' \in Nat /\ ask'[b].with \in 0 .. LastPair
    BY <1>14 DEF ConsoleTypeOK, Ask
  <2>2. issued' >= issued
    BY <1>1 DEF PairsKept
  <2>3. ask'[b].stage = "sent" => ask'[b].with \in Pairs
    BY <2>1, CallsStep DEF CallsInv, AskInv, Pairs
  <2> QED BY <1>1, <1>14, <2>1, <2>2, <2>3 DEF PairsKept, PairKept
<1> QED BY <1>15 DEF RevokedInv

-----------------------------------------------------------------------------
(* The page.                                                                *)

(* A call under way keeps its kind.                                         *)
StaysOf(b) == ask[b].stage # "idle" => ask'[b].stage # "idle" /\ ask'[b].kind = ask[b].kind
(* The page keeps its invariant while its session stays or ends,            *)
LEMMA HookKept ==
    ASSUME ConsoleTypeOK, HookInv, UNCHANGED <<hook, reported>>,
           \A b \in Asks : StaysOf(b),
           held' \in {held, 0} \/ held' # hook.rendered
    PROVE  HookInv'
<1>1. hook.run # Nobody => hook.run \in Asks
  BY DEF ConsoleTypeOK, Hook
<1>2. hook.rendered = 0 => hook.shown = 0
  BY DEF HookInv, Unmounted
<1> QED BY <1>1, <1>2 DEF HookInv, StaysOf
(* when calls fail,                                                         *)
LEMMA HookThrown ==
    ASSUME ConsoleTypeOK, HookInv, NEW S \in SUBSET Asks, hook' = Thrown(S), UNCHANGED reported,
           \A b \in Asks \ S : StaysOf(b),
           held' \in {held, 0}
    PROVE  HookInv'
<1>1. hook.run # Nobody => hook.run \in Asks
  BY DEF ConsoleTypeOK, Hook
<1>2. CASE hook.run \in S
  <2>1. /\ hook'.run = Nobody /\ hook'.error = TRUE
        /\ hook'.rendered = hook.rendered /\ hook'.shown = hook.shown
    BY <1>2 DEF Thrown, Awaited, ConsoleTypeOK, Hook
  <2>2. hook.rendered # 0
    BY <1>2, ConsoleOK DEF HookInv, Unmounted
  <2> QED BY <2>1, <2>2 DEF HookInv
<1>3. CASE hook.run \notin S
  <2>1. hook' = hook
    BY <1>3 DEF Thrown, Awaited
  <2>2. hook.rendered = 0 => hook.shown = 0
    BY DEF HookInv, Unmounted
  <2> QED BY <1>1, <1>3, <2>1, <2>2 DEF HookInv, StaysOf
<1> QED BY <1>2, <1>3
(* when it asks again,                                                      *)
LEMMA HookRun ==
    ASSUME ConsoleTypeOK, HookInv, NEW a \in Asks, NEW registered \in [Pairs -> Asks \cup {Nobody}],
           NEW page, (page = hook /\ hook.rendered # 0) \/ page = Mounted(held),
           held # 0, held' = held, run(a, page, registered)
    PROVE  HookInv'
<1>1. page \in Hook /\ page.rendered # 0 /\ (page.rendered = held => page.shown \in {0, held})
  <2>1. CASE page = hook /\ hook.rendered # 0
    BY <2>1 DEF HookInv, ConsoleTypeOK
  <2>2. CASE page = Mounted(held)
    <3>1. Mounted(held).rendered = held /\ Mounted(held).shown = 0
      BY DEF Mounted, Unmounted
    <3> QED BY <2>2, <3>1, MountedTyped DEF ConsoleTypeOK
  <2> QED BY <2>1, <2>2
<1>2. /\ hook'.run = a /\ hook'.loading = TRUE
      /\ hook'.rendered = page.rendered /\ hook'.shown = page.shown
  BY <1>1 DEF run, Hook
<1>3. PICK y \in Ask : Sending(a, y, registered) /\ y.version = 0 /\ y.kind = "read"
  BY <1>1, RunSends
<1>4. ask'[a] = y /\ y.stage # "idle"
  BY <1>3 DEF Sending, ConsoleTypeOK
<1> QED BY <1>1, <1>2, <1>3, <1>4 DEF HookInv
(* and when it is left.                                                     *)
LEMMA UnmountedHook ==
    ASSUME hook' = Unmounted
    PROVE  HookInv'
<1>1. /\ hook'.rendered = 0 /\ hook'.shown = 0 /\ hook'.run = Nobody
  BY DEF Unmounted
<1> QED BY <1>1 DEF HookInv
(* The end of some calls leaves the others under way.                       *)
LEMMA EndedStays ==
    ASSUME ConsoleTypeOK, NEW S \in SUBSET Asks, ask' = Ended(S)
    PROVE  \A b \in Asks \ S : StaysOf(b)
BY SharedAnswer DEF StaysOf
(* Every step keeps what is known of the page.                              *)
LEMMA HookStep ==
    ASSUME ConsoleTypeOK, ConsoleTypeOK', CallsInv, TokensInv, HookInv, ConsoleNext
    PROVE  HookInv'
<1>1. /\ reads \in [Pairs -> Asks \cup {Nobody}]
      /\ ReadsCleared \in [Pairs -> Asks \cup {Nobody}]
      /\ \A a : Sharing(a) \in SUBSET Asks
  BY DEF ConsoleTypeOK, ReadsCleared, Sharing
<1>2. ASSUME NEW S \in SUBSET Asks, Throw(S), UNCHANGED reported, held' \in {held, 0}
      PROVE  HookInv'
  BY <1>2, HookThrown, EndedStays DEF Throw
<1>3. UNCHANGED ask => \A b \in Asks : StaysOf(b)
  BY DEF StaysOf
<1>4. ASSUME NEW a \in Asks, NEW y \in Ask, NEW registered, Sending(a, y, registered),
             ask[a].stage = "idle" \/ y.kind = ask[a].kind
      PROVE  \A b \in Asks : StaysOf(b)
  <2>1. /\ ask'[a] = y /\ y.stage # "idle"
        /\ \A b \in Asks : b # a => ask'[b] = ask[b]
    BY <1>4 DEF Sending, ConsoleTypeOK
  <2> QED BY <1>4, <2>1 DEF StaysOf
<1>5. ASSUME NEW a \in Asks, Call(a)
      PROVE  HookInv'
  <2>1. CASE Submit(a)
    <3>1. /\ send(a, NewAsk("write"), reads) /\ held # 0 /\ ask[a].stage = "idle"
          /\ UNCHANGED <<held, reported, hook>>
      BY <2>1 DEF Submit, Free
    <3>2. PICK y \in Ask : Sending(a, y, reads)
      BY <1>1, <3>1, SendSends, NewAskIs, NewAskTyped
    <3> QED BY <1>4, <3>1, <3>2, HookKept
  <2>2. CASE Reread(a)
    BY <1>1, <2>2, HookRun DEF Reread
  <2>3. CASE Render(a)
    BY <1>1, <2>3, HookRun DEF Render
  <2>4. CASE Serve(a)
    <3>1. UNCHANGED <<held, reported, hook>>
      BY <2>4 DEF Serve
    <3>2. \A b \in Asks : StaysOf(b)
      <4> DEFINE refused == [ask[a] EXCEPT !.result = pair[ask[a].with].access]
                 read == [ask[a] EXCEPT !.result = "ok", !.version = data]
                 written == [ask[a] EXCEPT !.result = "ok", !.version = data', !.effects = @ + 1]
      <4>1. \/ ask' = [ask EXCEPT ![a] = refused]
            \/ ask' = [ask EXCEPT ![a] = read]
            \/ ask' = [ask EXCEPT ![a] = written]
        BY <2>4 DEF Serve
      <4>2. /\ refused.kind = ask[a].kind /\ refused.stage = ask[a].stage
            /\ read.kind = ask[a].kind /\ read.stage = ask[a].stage
            /\ written.kind = ask[a].kind /\ written.stage = ask[a].stage
        BY DEF ConsoleTypeOK, Ask
      <4> HIDE DEF refused, read, written
      <4> QED BY <4>1, <4>2 DEF ConsoleTypeOK, StaysOf
    <3> QED BY <3>1, <3>2, HookKept
  <2>5. CASE ReadSucceeds(a)
    <3>1. /\ Leader(a) /\ ask[a].result = "ok" /\ ask[a].with = held /\ ask[a].with # 0
          /\ ask' = Ended(Sharing(a)) /\ UNCHANGED <<held, reported>>
      BY <2>5 DEF ReadSucceeds, Answered, Leader, CallsInv, AskInv
    <3>2. CASE Awaited(Sharing(a))
      <4>1. /\ hook'.run = Nobody /\ hook'.shown = held /\ hook'.version = ask[a].version
            /\ hook'.rendered = hook.rendered
        BY <2>5, <3>1, <3>2 DEF ReadSucceeds, ConsoleTypeOK, Hook
      <4>2. hook.run \in Asks /\ ask[hook.run].stage = "sent" /\ ask[hook.run].fetch = a
        BY <3>2 DEF Awaited, Sharing
      <4>3. hook.run # Nobody /\ hook.rendered # 0
        BY <4>2, ConsoleOK DEF HookInv, Unmounted
      <4>4. ask[a].version >= reported
        BY <3>1, <4>2, <4>3 DEF CallsInv, RecentInv, Recent
      <4> QED BY <3>1, <4>1, <4>3, <4>4 DEF HookInv
    <3>3. CASE ~Awaited(Sharing(a))
      <4>1. hook' = hook
        BY <2>5, <3>3 DEF ReadSucceeds
      <4>2. hook' = Thrown(Sharing(a))
        BY <3>3, <4>1 DEF Thrown
      <4> QED BY <1>1, <3>1, <4>2, HookThrown, EndedStays
    <3> QED BY <3>2, <3>3
  <2>6. CASE WriteSucceeds(a)
    <3>1. held # 0 /\ held' = held /\ ask[a].kind = "write"
      BY <2>6 DEF WriteSucceeds, Answered, CallsInv, AskInv
    <3>2. CASE hook.rendered # 0 /\ run(a, hook, ReadsCleared)
      BY <1>1, <3>1, <3>2, HookRun
    <3>3. CASE hook.rendered = 0 /\ UNCHANGED hook
      BY <3>3, UnmountedHook DEF HookInv
    <3> QED BY <2>6, <3>2, <3>3 DEF WriteSucceeds
  <2>7. CASE SessionChanged(a)
    BY <1>1, <1>2, <2>7 DEF SessionChanged
  <2>8. CASE TokenExpired(a)
    <3> DEFINE again == {b \in Sharing(a) : ask[b].with = held /\ ~ask[b].retried}
               over == Sharing(a) \ again
               y(b) == [NewAsk(ask[b].kind) EXCEPT !.stage = "waiting", !.retried = TRUE,
                                                   !.effects = ask[b].effects]
    <3>1. /\ hook' = Thrown(over) /\ UNCHANGED <<held, reported>>
          /\ ask' = [b \in Asks |-> IF b \in again THEN y(b) ELSE Ended(over)[b]]
      BY <2>8 DEF TokenExpired
    <3>2. \A b : y(b).stage = "waiting" /\ y(b).kind = ask[b].kind
      BY DEF NewAsk
    <3>3. \A b \in Asks : Ended(over)[b] = IF b \in over THEN NoAsk ELSE ask[b]
      BY DEF Ended
    <3>4. \A b \in Asks \ over : StaysOf(b)
      <4> HIDE DEF again, over, y
      <4> QED BY <3>1, <3>2, <3>3 DEF StaysOf
    <3>5. over \in SUBSET Asks
      BY <1>1
    <3> HIDE DEF over
    <3> QED BY <3>1, <3>4, <3>5, HookThrown
  <2>9. CASE Unauthorized(a)
    BY <1>1, <1>2, <2>9 DEF Unauthorized
  <2>10. CASE Fail(a)
    BY <1>1, <1>2, <2>10 DEF Fail
  <2>11. CASE Resume(a)
    <3>1. ask[a].stage = "ready" /\ UNCHANGED <<held, reported>>
      BY <2>11 DEF Resume
    <3>2. CASE held # 0 /\ dispatch(a, ask[a], reads) /\ UNCHANGED hook
      <4>1. ask[a] \in Ask /\ ask[a].result = "none" /\ ask[a].effects = 0
        BY <3>1 DEF CallsInv, AskInv, ConsoleTypeOK
      <4>2. PICK y \in Ask : Sending(a, y, reads) /\ y.kind = ask[a].kind
        BY <1>1, <3>2, <4>1, DispatchSends
      <4> QED BY <1>4, <3>1, <3>2, <4>2, HookKept
    <3>3. CASE Throw({a})
      BY <1>2, <3>1, <3>3
    <3> QED BY <2>11, <3>2, <3>3 DEF Resume
  <2> QED BY <1>5, <2>1, <2>2, <2>3, <2>4, <2>5, <2>6, <2>7, <2>8, <2>9, <2>10, <2>11 DEF Call
<1>6. ASSUME NEW acct \in Accounts, setTenantSession(acct)
      PROVE  HookInv'
  <2>1. /\ UNCHANGED <<ask, reported, hook>> /\ hook.rendered = 0 /\ held' = issued + 1
    BY <1>6 DEF setTenantSession
  <2>2. held' # hook.rendered
    BY <2>1 DEF ConsoleTypeOK
  <2> QED BY <1>3, <2>1, <2>2, HookKept
<1>7. CASE Age
  BY <1>3, <1>7, HookKept DEF Age
<1>8. CASE Unmount
  BY <1>8, UnmountedHook DEF Unmount
<1>9. CASE ServeRenewal
  BY <1>3, <1>9, HookKept DEF ServeRenewal
<1>10. CASE RenewalSucceeds
  <2>1. UNCHANGED <<reported, hook>> /\ held' # hook.rendered
    BY <1>10 DEF RenewalSucceeds, TokensInv, RenewalInv
  <2>2. \A b \in Asks : ask'[b] = ask[b] \/ ask'[b] = [ask[b] EXCEPT !.stage = "ready"]
    BY <1>10 DEF RenewalSucceeds
  <2>3. \A b \in Asks : StaysOf(b)
    BY <2>2 DEF StaysOf, ConsoleTypeOK, Ask
  <2> QED BY <2>1, <2>3, HookKept
<1>11. Waiting \in SUBSET Asks
  BY DEF Waiting
<1>12. CASE RenewalRefused
  BY <1>2, <1>11, <1>12 DEF RenewalRefused
<1>13. CASE RenewalFails
  BY <1>2, <1>11, <1>13 DEF RenewalFails
<1>14. CASE signOutTenant
  BY <1>3, <1>14, HookKept DEF signOutTenant
<1>15. CASE Reload
  BY <1>15, UnmountedHook DEF Reload
<1> QED
  BY ONLY <1>5, <1>6, <1>7, <1>8, <1>9, <1>10, <1>12, <1>13, <1>14, <1>15, ConsoleNext
  DEF ConsoleNext

-----------------------------------------------------------------------------
ConsoleInv == ConsoleTypeOK /\ TokensInv /\ CallsInv /\ RevokedInv /\ HookInv
(* The invariant holds at first, and every step keeps it.                   *)
LEMMA ConsoleInvInit == ConsoleInit => ConsoleInv
<1> SUFFICES ASSUME ConsoleInit
             PROVE  ConsoleInv
  OBVIOUS
<1> USE ConsoleOK DEF ConsoleInit
<1>1. \A s \in Pairs : s \in Nat /\ s > 0
  BY DEF Pairs
<1>2. /\ \A s \in Pairs : pair[s].access = "good" /\ pair[s].presented = 0
      /\ pair \in [Pairs -> Pair]
  <2>1. NewPair(Nobody) \in Pair /\ NewPair(Nobody).access = "good" /\ NewPair(Nobody).presented = 0
    BY DEF NewPair, Pair
  <2> QED BY <2>1
<1>3. /\ renewal.of = 0 /\ renewal.answer = "none" /\ renewal.pair = 0 /\ renewal \in Renewal
  BY DEF NoRenewal, Renewal
<1>4. /\ hook.rendered = 0 /\ hook.run = Nobody /\ hook.shown = 0 /\ hook = Unmounted
      /\ hook \in Hook
  <2>1. 0 \in 0 .. LastPair
    OBVIOUS
  <2> QED BY <2>1, MountedTyped DEF Unmounted
<1>5. /\ ask \in [Asks -> Ask]
      /\ \A a \in Asks : /\ ask[a].stage = "idle" /\ ask[a].effects = 0 /\ ask[a].with = 0
                          /\ ask[a].version = 0
  BY NoAskTyped, NewAskIs DEF NoAsk
<1>6. reads \in [Pairs -> Asks \cup {Nobody}] /\ \A s \in Pairs : reads[s] = Nobody
  BY DEF NoReads
<1>7. ConsoleTypeOK
  <2>1. issued \in 0 .. LastPair /\ held \in 0 .. LastPair /\ data \in Nat /\ reported \in Nat
    OBVIOUS
  <2>2. due \in BOOLEAN
    OBVIOUS
  <2> QED BY ONLY <1>2, <1>3, <1>4, <1>5, <1>6, <2>1, <2>2 DEF ConsoleTypeOK
<1>8. TokensInv
  <2>1. PairsInv
    BY <1>2, <1>3, <1>4 DEF PairsInv
  <2>2. RenewalInv
    BY <1>3 DEF RenewalInv
  <2>3. PresentedInv
    BY <1>2 DEF PresentedInv, RefreshedOnce
  <2> QED BY <2>1, <2>2, <2>3 DEF TokensInv
<1>9. CallsInv
  BY <1>4, <1>5, <1>6 DEF CallsInv, AskInv, ReadsInv, RecentInv
<1>10. RevokedInv
  BY <1>5 DEF RevokedInv
<1>11. HookInv
  BY <1>4 DEF HookInv
<1> QED BY <1>7, <1>8, <1>9, <1>10, <1>11 DEF ConsoleInv

LEMMA ConsoleInvStep == ConsoleInv /\ [ConsoleNext]_consoleVars => ConsoleInv'
<1> SUFFICES ASSUME ConsoleInv, [ConsoleNext]_consoleVars
             PROVE  ConsoleInv'
  OBVIOUS
<1> USE DEF ConsoleInv
<1>1. CASE ConsoleNext
  <2>1. AskInv
    BY DEF CallsInv
  <2>2. ConsoleTypeOK'
    BY <1>1, <2>1, ConsoleTypeStep
  <2> QED BY <1>1, <2>1, <2>2, TokensStep, CallsStep, RevokedStep, HookStep
<1>2. CASE UNCHANGED consoleVars
  BY <1>2 DEF consoleVars, ConsoleTypeOK, TokensInv, PairsInv, RenewalInv, PresentedInv,
     RefreshedOnce, CallsInv, AskInv, ReadsInv, RecentInv, Recent, Leader, RevokedInv, HookInv
<1> QED BY <1>1, <1>2

LEMMA ConsoleInvAlways == ConsoleSpec => []ConsoleInv
BY ConsoleInvInit, ConsoleInvStep, PTL DEF ConsoleSpec

(* Every variable of a tab keeps its type.                                  *)
THEOREM ConsoleTypes == ConsoleSpec => []ConsoleTypeOK
<1>1. ConsoleInv => ConsoleTypeOK
  BY DEF ConsoleInv
<1> QED BY <1>1, ConsoleInvAlways, PTL

(* A page shows nothing of another account, whatever is shared, repeated or *)
(* answered late: a session that was replaced is never held again, and what *)
(* a page rendered for the session held shows was read with it              *)
(* (useResource.ts:18-63, client.ts:160-161).                               *)
THEOREM PagesShowTheirOwn == ConsoleSpec => []ShownIsOwn
<1>1. ConsoleInv => ShownIsOwn
  BY DEF ConsoleInv, HookInv, ShownIsOwn
<1> QED BY <1>1, ConsoleInvAlways, PTL

(* A page that has settled shows the writes that were reported: no read of  *)
(* before a write is shared, or waited for, after it (client.ts:116-119).   *)
THEOREM PagesShowWrites == ConsoleSpec => []ReadsYourWrites
<1>1. ConsoleInv => ReadsYourWrites
  BY DEF ConsoleInv, HookInv, ReadsYourWrites
<1> QED BY <1>1, ConsoleInvAlways, PTL

(* A submission takes effect once: only a call that was refused for its     *)
(* token is sent again (client.ts:63-70, 153-159).                          *)
THEOREM WritesTakeEffectOnce == ConsoleSpec => []WritesOnce
<1>1. ConsoleInv => WritesOnce
  BY DEF ConsoleInv, CallsInv, AskInv, WritesOnce
<1> QED BY <1>1, ConsoleInvAlways, PTL

(* The tab presents a refresh token once, however many calls want it        *)
(* renewed (client.ts:77-103).                                              *)
THEOREM TokensArePresentedOnce == ConsoleSpec => []RefreshedOnce
<1>1. ConsoleInv => RefreshedOnce
  BY DEF ConsoleInv, TokensInv, PresentedInv
<1> QED BY <1>1, ConsoleInvAlways, PTL

(* A session the server would renew ends only by a sign-out, or by the      *)
(* answer to a renewal that another session began (client.ts:88-103).       *)
THEOREM SessionsSurvive == ConsoleSpec => SessionSurvives
<1> DEFINE Survives == held # 0 /\ held' = 0 =>
               signOutTenant \/ pair[held].refresh # "good" \/ renewal.of \notin {0, held}
<1>1. ASSUME ConsoleInv, [ConsoleNext]_consoleVars
      PROVE  [Survives]_consoleVars
  <2> SUFFICES ASSUME ConsoleNext, held # 0, held' = 0, ~signOutTenant, renewal.of \in {0, held}
               PROVE  pair[held].refresh # "good"
    BY <1>1
  <2> USE <1>1 DEF ConsoleInv
  <2>1. ConsoleTypeOK'
    BY ConsoleTypeStep DEF CallsInv
  <2>2. held \in Pairs
    BY DEF ConsoleTypeOK, Pairs
  <2>3. ASSUME NEW a \in Asks, Call(a)
        PROVE  pair[held].refresh # "good"
    <3>1. CASE Unauthorized(a)
      <4>1. ask[a].stage = "sent" /\ ask[a].result = "revoked" /\ ask[a].with = held
        BY <3>1 DEF Unauthorized, Rejected, Answered
      <4>2. pair[held].access = "revoked"
        BY <4>1 DEF RevokedInv
      <4> QED BY <2>2, <4>2 DEF TokensInv, PairsInv
    <3>2. CASE ~Unauthorized(a)
      <4>1. held' = held
        BY <2>3, <3>2 DEF Call, Submit, Reread, Render, Serve, ReadSucceeds, WriteSucceeds,
           SessionChanged, TokenExpired, Fail, Resume
      <4> QED BY <4>1
    <3> QED BY <3>1, <3>2
  <2>4. CASE RenewalRefused
    <3>1. renewal.of = held
      BY <2>4 DEF RenewalRefused, TokensInv, RenewalInv
    <3> QED BY <2>4, <3>1 DEF RenewalRefused, TokensInv, RenewalInv
  <2>5. CASE RenewalSucceeds
    BY <2>5 DEF RenewalSucceeds, TokensInv, RenewalInv
  <2>6. ASSUME NEW acct \in Accounts, setTenantSession(acct)
        PROVE  pair[held].refresh # "good"
    <3>1. held' = issued + 1 /\ issued \in Nat
      BY <2>6 DEF setTenantSession, ConsoleTypeOK
    <3> QED BY <3>1
  <2>7. CASE Age \/ Unmount \/ ServeRenewal \/ RenewalFails \/ Reload
    BY <2>7 DEF Age, Unmount, ServeRenewal, RenewalFails, Reload
  <2> QED BY <2>3, <2>4, <2>5, <2>6, <2>7 DEF ConsoleNext
<1> QED BY <1>1, ConsoleInvAlways, PTL DEF ConsoleSpec, SessionSurvives
=============================================================================
