------------------------------ MODULE Console ------------------------------
(***************************************************************************)
(* One tab of the web console: the tenant session it holds, the renewal of *)
(* the session's tokens, the calls of its API client, and the data a page  *)
(* shows.  The program has one thread; between two of its steps any answer *)
(* may arrive, the user may sign out or in or reload the page, and tokens  *)
(* expire or are revoked.                                                  *)
(*                                                                         *)
(* A session is a token pair, named by its number.  Of what a page shows   *)
(* only the version counts: data numbers the writes of all accounts, and a *)
(* read returns the number of the last.  Users do not race for sessions    *)
(* here: the server's side of the same tokens is Sessions.                 *)
(***************************************************************************)
EXTENDS Integers

CONSTANTS
    Accounts,       \* who may sign in, each in a tenant of their own
    Asks,           \* calls of request that may overlap (bound)
    LastPair,       \* token pairs issued (bound)
    LastVersion,    \* writes told apart (bound)
    Nobody

ASSUME ConsoleOK ==
    /\ LastPair \in Nat /\ LastVersion \in Nat
    /\ Nobody \notin Asks \cup Accounts

VARIABLES
    issued,         \* how many pairs the server has issued
    pair,           \* [1 .. LastPair -> token pair]
    held,           \* tenantCache: the pair the tab holds, 0 without
    due,            \* it is to be renewed, by the client's clock
    renewal,        \* refreshing: the call of /v1/auth/refresh in flight
    ask,            \* [Asks -> a call of request]
    reads,          \* pendingReads: [1 .. LastPair -> the call that fetches]
    data,           \* how many writes the server has done
    reported,       \* of these, the latest the tab saw succeed
    hook            \* useResource, in the page the tab shows

consoleVars == <<issued, pair, held, due, renewal, ask, reads, data, reported, hook>>

-----------------------------------------------------------------------------
Pairs == 1 .. LastPair

(* access and refresh are the server's view; presented counts how often the *)
(* tab has presented the refresh token since it missed an answer to that.   *)
Pair == [account : Accounts \cup {Nobody},
         access  : {"good", "expired", "revoked"},
         refresh : {"good", "spent", "revoked"},
         presented : Nat]

NewPair(acct) ==
    [account |-> acct, access |-> "good", refresh |-> "good", presented |-> 0]

Renewal == [of : 0 .. LastPair, answer : {"none", "ok", "refused"}, pair : 0 .. LastPair]

NoRenewal == [of |-> 0, answer |-> "none", pair |-> 0]

Results == {"none", "ok", "expired", "revoked"}

(* with is sentWith; fetch is the call whose promise this one awaits, its   *)
(* own unless it shares a read; effects counts what the server did for it.  *)
Ask == [stage : {"idle", "waiting", "ready", "sent"}, kind : {"read", "write"},
        with : 0 .. LastPair, retried : BOOLEAN, fetch : Asks \cup {Nobody},
        result : Results, version : Nat, effects : Nat]

NewAsk(kind) ==
    [stage |-> "idle", kind |-> kind, with |-> 0, retried |-> FALSE,
     fetch |-> Nobody, result |-> "none", version |-> 0, effects |-> 0]

NoAsk == NewAsk("read")

(* rendered is the session of the last render, run the call whose result is *)
(* awaited (generation), shown the session with which data was read, if any.*)
Hook == [rendered : 0 .. LastPair, run : Asks \cup {Nobody},
         loading : BOOLEAN, error : BOOLEAN, shown : 0 .. LastPair, version : Nat]

Unmounted == [rendered |-> 0, run |-> Nobody, loading |-> FALSE, error |-> FALSE,
              shown |-> 0, version |-> 0]

Mounted(s) == [Unmounted EXCEPT !.rendered = s]

Of(s) == pair[s].account

NoReads == [s \in Pairs |-> Nobody]

-----------------------------------------------------------------------------
(* The calls of the client.                                                 *)

RefreshAgain ==             \* slip: every caller presents the token itself
    /\ renewal' = [NoRenewal EXCEPT !.of = held]
    /\ pair' = [pair EXCEPT ![held].presented = @ + 1]

(* Concurrent callers share the call in flight, whichever session it is of. *)
refreshTenantSession ==
    \/ /\ renewal.of # 0
       /\ UNCHANGED <<pair, renewal>>
    \/ /\ renewal.of = 0
       /\ renewal' = [NoRenewal EXCEPT !.of = held]
       /\ pair' = [pair EXCEPT ![held].presented = @ + 1]

(* Reads of one session share a fetch while it is registered.               *)
dispatch(a, x, registered) ==
    LET shared == x.kind = "read" /\ registered[held] # Nobody IN
    /\ ask' = [ask EXCEPT ![a] =
           [x EXCEPT !.stage = "sent", !.with = held,
                     !.fetch = IF shared THEN registered[held] ELSE a]]
    /\ reads' = IF x.kind = "read" /\ ~shared THEN [registered EXCEPT ![held] = a]
                ELSE registered

(* needsRefresh looks at the client's clock.                                *)
send(a, x, registered) ==
    \/ /\ due
       /\ refreshTenantSession
       /\ ask' = [ask EXCEPT ![a] = [x EXCEPT !.stage = "waiting"]]
       /\ reads' = registered
    \/ /\ ~due
       /\ dispatch(a, x, registered)
       /\ UNCHANGED <<pair, renewal>>

(* useResource begins to load; what it showed stays until the answer.       *)
run(a, page, registered) ==
    /\ hook' = [page EXCEPT !.run = a, !.loading = TRUE]
    /\ send(a, NewAsk("read"), registered)

Free(a) == ask[a].stage = "idle"

(* A form of the page sends a write.                                        *)
Submit(a) ==
    /\ Free(a) /\ hook.rendered # 0 /\ held # 0
    /\ send(a, NewAsk("write"), reads)
    /\ UNCHANGED <<issued, held, due, data, reported, hook>>

(* reload, or the timer of pollMs.                                          *)
Reread(a) ==
    /\ Free(a) /\ hook.rendered # 0 /\ held # 0
    /\ run(a, hook, reads)
    /\ UNCHANGED <<issued, held, due, data, reported>>

RenderKeepingData(a) ==     \* slip: the identity leaves the access token out
    /\ Free(a) /\ hook.rendered # held /\ held # 0
    /\ run(a, [hook EXCEPT !.rendered = held], reads)
    /\ UNCHANGED <<issued, held, due, data, reported>>

(* A changed session is a changed identity: nothing is shown of the old one.*)
Render(a) ==
    /\ Free(a) /\ hook.rendered # held /\ held # 0
    /\ run(a, Mounted(held), reads)
    /\ UNCHANGED <<issued, held, due, data, reported>>

(* The user goes to another page, or RequireTenant leads to that for sign-in.*)
Unmount ==
    /\ hook.rendered # 0
    /\ hook' = Unmounted
    /\ UNCHANGED <<issued, pair, held, due, renewal, ask, reads, data, reported>>

-----------------------------------------------------------------------------
(* The server.                                                              *)

Revoked(acct) ==
    [s \in Pairs |-> IF s <= issued /\ Of(s) = acct
                     THEN [pair[s] EXCEPT !.access = "revoked", !.refresh = "revoked"]
                     ELSE pair[s]]

Serve(a) ==
    LET x == ask[a]
        access == pair[x.with].access
        Answer(y) == ask' = [ask EXCEPT ![a] = y]
    IN /\ x.stage = "sent" /\ x.fetch = a /\ x.result = "none"
       /\ \/ /\ access # "good"
             /\ Answer([x EXCEPT !.result = access])
             /\ UNCHANGED data
          \/ /\ access = "good" /\ x.kind = "read"
             /\ Answer([x EXCEPT !.result = "ok", !.version = data])
             /\ UNCHANGED data
          \/ /\ access = "good" /\ x.kind = "write"
             /\ data' = IF data < LastVersion THEN data + 1 ELSE data
             /\ Answer([x EXCEPT !.result = "ok", !.version = data', !.effects = @ + 1])
       /\ UNCHANGED <<issued, pair, held, due, renewal, reads, reported, hook>>

(* A refresh token that was spent already ends every session of its owner.  *)
ServeRenewal ==
    LET s == renewal.of IN
    /\ s # 0 /\ renewal.answer = "none"
    /\ \/ /\ pair[s].refresh = "good" /\ issued < LastPair
          /\ issued' = issued + 1
          /\ pair' = [pair EXCEPT ![s].refresh = "spent", ![issued + 1] = NewPair(Of(s))]
          /\ renewal' = [renewal EXCEPT !.answer = "ok", !.pair = issued + 1]
       \/ /\ pair[s].refresh # "good"
          /\ pair' = IF pair[s].refresh = "spent" THEN Revoked(Of(s)) ELSE pair
          /\ renewal' = [renewal EXCEPT !.answer = "refused"]
          /\ UNCHANGED issued
    /\ UNCHANGED <<held, due, ask, reads, data, reported, hook>>

(* The access token of the session nears its expiry on the client's clock,  *)
(* or is past it on the server's: clocks differ, and timers sleep.          *)
Age ==
    /\ held # 0
    /\ \/ due' = TRUE /\ UNCHANGED pair
       \/ /\ pair[held].access = "good" /\ pair' = [pair EXCEPT ![held].access = "expired"]
          /\ UNCHANGED due
    /\ UNCHANGED <<issued, held, renewal, ask, reads, data, reported, hook>>

-----------------------------------------------------------------------------
(* Answers.                                                                 *)

Sharing(a) == {b \in Asks : ask[b].stage = "sent" /\ ask[b].fetch = a}

(* The answer is that of the run the page waits for.                        *)
Awaited(S) == hook.run \in S

Ended(S) == [b \in Asks |-> IF b \in S THEN NoAsk ELSE ask[b]]

(* The calls of S throw; a page that waits for one of them shows the error. *)
Thrown(S) ==
    IF Awaited(S) THEN [hook EXCEPT !.run = Nobody, !.loading = FALSE, !.error = TRUE] ELSE hook

Throw(S) == ask' = Ended(S) /\ hook' = Thrown(S)

(* Only the registration of this fetch is removed.                          *)
Deregistered(a) ==
    [s \in Pairs |-> IF s = ask[a].with /\ reads[s] = a THEN Nobody ELSE reads[s]]

Answered(a, result) ==
    ask[a].stage = "sent" /\ ask[a].fetch = a /\ ask[a].result = result

ReadSucceeds(a) ==
    LET s == ask[a].with IN
    /\ Answered(a, "ok") /\ ask[a].kind = "read" /\ s = held
    /\ ask' = Ended(Sharing(a))
    /\ hook' = IF Awaited(Sharing(a))
               THEN [hook EXCEPT !.run = Nobody, !.loading = FALSE, !.error = FALSE,
                                 !.shown = s, !.version = ask[a].version]
               ELSE hook
    /\ reads' = Deregistered(a)
    /\ UNCHANGED <<issued, pair, held, due, renewal, data, reported>>

ReadsKept == reads          \* slip: a read in flight is shared after the write

ReadsCleared == [s \in Pairs |-> Nobody]

(* Reads that are in flight may predate the write; a page that watches the  *)
(* path loads again.                                                        *)
WriteSucceeds(a) ==
    /\ Answered(a, "ok") /\ ask[a].kind = "write" /\ ask[a].with = held
    /\ reported' = IF ask[a].version > reported THEN ask[a].version ELSE reported
    /\ \/ hook.rendered # 0 /\ run(a, hook, ReadsCleared)
       \/ /\ hook.rendered = 0
          /\ ask' = Ended({a}) /\ reads' = ReadsCleared
          /\ UNCHANGED <<pair, renewal, hook>>
    /\ UNCHANGED <<issued, held, due, data>>

(* session_changed: the answer is that of another session than the one held.*)
SessionChanged(a) ==
    /\ Answered(a, "ok") /\ ask[a].with # held
    /\ Throw(Sharing(a)) /\ reads' = Deregistered(a)
    /\ UNCHANGED <<issued, pair, held, due, renewal, data, reported>>

RetriedWhenLost(a) ==       \* slip: a write is repeated when its answer is lost
    ask[a].stage = "sent" /\ ask[a].fetch = a

Retried(a) == Answered(a, "expired")

(* Refresh once and send again, unless another session is held by now.      *)
TokenExpired(a) ==
    LET again == {b \in Sharing(a) : ask[b].with = held /\ ~ask[b].retried}
        over == Sharing(a) \ again
    IN /\ Retried(a)
       /\ ask' = [b \in Asks |->
              IF b \in again
              THEN [NewAsk(ask[b].kind) EXCEPT !.stage = "waiting", !.retried = TRUE,
                                               !.effects = ask[b].effects]
              ELSE Ended(over)[b]]
       /\ hook' = Thrown(over)
       /\ \/ again = {} /\ UNCHANGED <<pair, renewal>>
          \/ again # {} /\ refreshTenantSession
       /\ reads' = Deregistered(a)
       /\ UNCHANGED <<issued, held, due, data, reported>>

RejectedOrExpired(a) ==     \* slip: an expired token ends a session that can be renewed
    Answered(a, "revoked") \/ Answered(a, "expired")

Rejected(a) == Answered(a, "revoked")

(* Any other 401 ends the session, if it is the one that was used.          *)
Unauthorized(a) ==
    /\ Rejected(a)
    /\ \/ ask[a].with = held /\ held' = 0 /\ due' = FALSE
       \/ ask[a].with # held /\ UNCHANGED <<held, due>>
    /\ Throw(Sharing(a)) /\ reads' = Deregistered(a)
    /\ UNCHANGED <<issued, pair, renewal, data, reported>>

(* The server refuses, or its answer is lost or cannot be read.             *)
Fail(a) ==
    /\ ask[a].stage = "sent" /\ ask[a].fetch = a
    /\ Throw(Sharing(a)) /\ reads' = Deregistered(a)
    /\ UNCHANGED <<issued, pair, held, due, renewal, data, reported>>

Waiting == {b \in Asks : ask[b].stage = "waiting"}

RenewalSucceeds ==
    /\ renewal.answer = "ok"
    /\ held' = renewal.pair /\ due' = FALSE
    /\ renewal' = NoRenewal
    /\ ask' = [b \in Asks |-> IF b \in Waiting THEN [ask[b] EXCEPT !.stage = "ready"] ELSE ask[b]]
    /\ UNCHANGED <<issued, pair, reads, data, reported, hook>>

RenewalRefused ==
    /\ renewal.answer = "refused"
    /\ held' = 0 /\ due' = FALSE
    /\ renewal' = NoRenewal
    /\ Throw(Waiting)
    /\ UNCHANGED <<issued, pair, reads, data, reported>>

(* Without an answer of the server, or with one that it is not available or *)
(* too busy, the session stays and so does its refresh token.               *)
RenewalFails ==
    /\ renewal.of # 0
    /\ pair' = [pair EXCEPT ![renewal.of].presented = 0]
    /\ renewal' = NoRenewal
    /\ Throw(Waiting)
    /\ UNCHANGED <<issued, held, due, reads, data, reported>>

(* What awaited the renewal goes on with whatever session is held then.     *)
Resume(a) ==
    /\ ask[a].stage = "ready"
    /\ \/ held # 0 /\ dispatch(a, ask[a], reads) /\ UNCHANGED hook
       \/ held = 0 /\ Throw({a}) /\ UNCHANGED reads
    /\ UNCHANGED <<issued, pair, held, due, renewal, data, reported>>

-----------------------------------------------------------------------------
(* The user.                                                                *)

(* The pages for sign-in, account setup and registration.                   *)
setTenantSession(acct) ==
    /\ hook.rendered = 0 /\ issued < LastPair
    /\ issued' = issued + 1
    /\ pair' = [pair EXCEPT ![issued + 1] = NewPair(acct)]
    /\ held' = issued + 1 /\ due' = FALSE
    /\ UNCHANGED <<renewal, ask, reads, data, reported, hook>>

(* /v1/auth/logout is sent with the token of the page and not awaited: an   *)
(* expired token, or a lost request, revokes nothing.                       *)
signOutTenant ==
    /\ hook.rendered # 0
    /\ \/ pair[hook.rendered].access = "good" /\ pair' = Revoked(Of(hook.rendered))
       \/ UNCHANGED pair
    /\ held' = 0 /\ due' = FALSE
    /\ UNCHANGED <<issued, renewal, ask, reads, data, reported, hook>>

(* sessionStorage keeps the session; what was in flight is forgotten, and   *)
(* the server may have done it or not.                                      *)
Reload ==
    /\ hook' = Unmounted
    /\ ask' = [a \in Asks |-> NoAsk]
    /\ reads' = NoReads
    /\ renewal' = NoRenewal
    /\ pair' = IF renewal.of = 0 THEN pair ELSE [pair EXCEPT ![renewal.of].presented = 0]
    /\ UNCHANGED <<issued, held, due, data, reported>>

-----------------------------------------------------------------------------
ConsoleInit ==
    /\ issued = 0
    /\ pair = [s \in Pairs |-> NewPair(Nobody)]
    /\ held = 0 /\ due = FALSE
    /\ renewal = NoRenewal
    /\ ask = [a \in Asks |-> NoAsk]
    /\ reads = NoReads
    /\ data = 0
    /\ reported = 0
    /\ hook = Unmounted

Call(a) ==
    \/ Submit(a) \/ Reread(a) \/ Render(a) \/ Serve(a) \/ ReadSucceeds(a) \/ WriteSucceeds(a)
    \/ SessionChanged(a) \/ TokenExpired(a) \/ Unauthorized(a) \/ Fail(a) \/ Resume(a)

ConsoleNext ==
    \/ \E a \in Asks : Call(a)
    \/ \E acct \in Accounts : setTenantSession(acct)
    \/ Age \/ Unmount \/ ServeRenewal \/ RenewalSucceeds \/ RenewalRefused \/ RenewalFails
    \/ signOutTenant \/ Reload

ConsoleSpec == ConsoleInit /\ [][ConsoleNext]_consoleVars

-----------------------------------------------------------------------------
ConsoleTypeOK ==
    /\ issued \in 0 .. LastPair
    /\ pair \in [Pairs -> Pair]
    /\ held \in 0 .. LastPair /\ due \in BOOLEAN
    /\ renewal \in Renewal
    /\ ask \in [Asks -> Ask]
    /\ reads \in [Pairs -> Asks \cup {Nobody}]
    /\ data \in Nat
    /\ reported \in Nat
    /\ hook \in Hook

(* The page of a session shows data of that session's account only: not of  *)
(* the one before it, whatever was in flight, shared or repeated at the     *)
(* change ("a changed identity or parameter never exposes the old result",  *)
(* useResource.ts:15).                                                      *)
ShownIsOwn ==
    hook.rendered = held /\ hook.shown # 0 => Of(hook.shown) = Of(held)

(* A page that has loaded without an error shows every write that was       *)
(* reported as successful, although reads are shared and older ones are     *)
(* still under way (client.ts:116-119, useResource.ts:27-37).               *)
ReadsYourWrites ==
    LET settled == hook.shown # 0 /\ ~hook.loading /\ ~hook.error IN
    hook.rendered = held /\ settled => hook.version >= reported

(* A submission changes the resource once, though a call may be sent twice  *)
(* (client.ts:63-70).                                                       *)
WritesOnce == \A a \in Asks : ask[a].effects <= 1

(* A refresh token is presented once, but for the answers the tab misses    *)
(* ("a refresh token works exactly once and a second use signs the user     *)
(* out", client.ts:84-87).                                                  *)
RefreshedOnce == \A s \in Pairs : pair[s].presented <= 1

(* "The session ends only when refresh fails or the user signs out"         *)
(* (session.ts:10-12): one that the server would renew is not given up for  *)
(* an expired token, a lost answer, or what a call of an earlier session    *)
(* met.  But it is, or is replaced, when a renewal that another session     *)
(* began is answered, for client.ts:88-103 does not look which is held.     *)
SessionSurvives ==
    [][held # 0 /\ held' = 0 =>
         signOutTenant \/ pair[held].refresh # "good" \/ renewal.of \notin {0, held}]_consoleVars
=============================================================================
