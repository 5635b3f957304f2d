------------------------------- MODULE Session -------------------------------
(***************************************************************************)
(* The session of one device: doWithRetry of app/internal/api/fetch.go     *)
(* against Authenticated and TryRefreshToken of the backend's              *)
(* authMiddleware.go.  Requests run side by side; one whose access token   *)
(* has expired refreshes it, the others follow.  The server rotates the    *)
(* refresh token: it deletes the row of the one presented, then inserts a  *)
(* new one, in two transactions.                                           *)
(*                                                                         *)
(* Tokens are numbered as they are issued; an access token has the number  *)
(* of the refresh token that came with it; 0 is none.  Time is reduced to  *)
(* order: a refused request follows when a refresh ended after its answer. *)
(***************************************************************************)
EXTENDS Integers, FiniteSets

CONSTANTS
  Request,
  MaxTokens,     \* tokens the server issues (bounds the model)
  MaxSessions    \* sign-ins on the device (bounds the model)

ASSUME BoundAssumption == MaxTokens \in Nat /\ MaxSessions \in Nat /\ MaxSessions <= MaxTokens

VARIABLES
  keyring,   \* the access and the refresh token on the device
  mem,       \* memRefreshToken
  lock,      \* who holds refreshMu, in a set
  outcome,   \* refreshErr
  request,   \* request[r]: where r is on the device, the access token it took
  handler,   \* handler[r]: the refresh that r's server side runs, the tokens it was
             \* handed, the one it made
  rows,      \* the refresh tokens the server knows
  stale,     \* access tokens that have expired
  issued,    \* tokens issued so far
  session,   \* sign-ins so far
  era,       \* history: era[t]: the sign-in token t descends from
  excuse,    \* history: what happened that may cost a session
  ended      \* history: the request answered errSessionExpired last, in a set

device == <<keyring, mem, lock, outcome, request>>
server == <<handler, rows, stale, issued, era>>
vars == <<device, server, session, excuse, ended>>

Token == 0..MaxTokens
Idle == [at |-> "idle", access |-> 0]
NoHandler == [at |-> "none", access |-> 0, token |-> 0, new |-> 0]

\* Every variable has its shape, and the lock is held by the request that refreshes.
TypeOK ==
  /\ keyring \in [access : Token, refresh : Token] /\ mem \in Token
  /\ outcome \in {"fine", "lost", "expired"}
  /\ request \in [Request -> [at : {"idle", "sent", "refused", "follow", "again", "asking"},
                              access : Token]]
  /\ handler \in [Request -> [at : {"none", "asked", "found", "deleted", "renewed", "denied", "passed"},
                              access : Token, token : Token, new : Token]]
  /\ rows \in SUBSET (1..issued) /\ stale \in SUBSET (1..issued)
  /\ issued \in Token /\ session \in 0..MaxSessions
  /\ era \in [1..MaxTokens -> 0..MaxSessions]
  /\ excuse \in SUBSET {"lost", "fault", "old", "stranded", "logout"}
  /\ ended \in SUBSET Request
  /\ lock = {r \in Request : request[r].at = "asking"} /\ Cardinality(lock) <= 1

Init ==
  /\ keyring = [access |-> 0, refresh |-> 0] /\ mem = 0
  /\ lock = {} /\ outcome = "fine"
  /\ request = [r \in Request |-> Idle]
  /\ handler = [r \in Request |-> NoHandler]
  /\ rows = {} /\ stale = {} /\ issued = 0
  /\ session = 0 /\ era = [t \in 1..MaxTokens |-> 0]
  /\ excuse = {} /\ ended = {}

At(r, place) == request[r].at = place
Go(r, place) == request' = [request EXCEPT ![r].at = place]
Stop(r) == request' = [request EXCEPT ![r] = Idle]

\* currentRefreshToken: the in-process copy first.
Current == IF mem # 0 THEN mem ELSE keyring.refresh

\* Mutation: there is no in-process copy.
Remember_KeyringOnly(t) == \/ keyring' = [keyring EXCEPT !.refresh = t] /\ mem' = 0
                           \/ keyring' = keyring /\ mem' = 0
\* saveTokensFromResponse: either write to the keyring may fail; a refresh token
\* is then kept in the process.
Remember(t) ==
  \E access \in {keyring.access, t} :
    \/ keyring' = [access |-> access, refresh |-> t] /\ mem' = 0
    \/ keyring' = [keyring EXCEPT !.access = access] /\ mem' = t

\* The server issues token t to the session a.
Issue(t, a) ==
  /\ t <= MaxTokens
  /\ issued' = t
  /\ rows' = rows \cup {t}
  /\ era' = [era EXCEPT ![t] = a]

\* The user signs in where nobody is.
Login ==
  /\ Current = 0
  /\ session < MaxSessions
  /\ session' = session + 1
  /\ Issue(issued + 1, session + 1)
  /\ Remember(issued + 1)
  /\ UNCHANGED <<lock, outcome, request, handler, stale, excuse, ended>>

(* Requests.                                                               *)

\* doRequest, with the access token of the moment.
Send(r) ==
  /\ At(r, "idle") /\ handler[r].at = "none"
  /\ keyring.access # 0
  /\ request' = [request EXCEPT ![r] = [at |-> "sent", access |-> keyring.access]]
  /\ UNCHANGED <<keyring, mem, lock, outcome, server, session, excuse, ended>>

\* Mutation: refreshMu is not taken.
Free_Always == lock \subseteq Request
\* refreshMu is free.
Free == lock = {}

\* The answer: not a 401, so the last refresh is no longer a failure.
Succeed(r) ==
  /\ At(r, "sent") /\ request[r].access \notin stale
  /\ Free
  /\ outcome' = "fine"
  /\ Stop(r)
  /\ UNCHANGED <<keyring, mem, lock, server, session, excuse, ended>>

\* The answer: a 401.
Refused(r) ==
  /\ At(r, "sent") /\ request[r].access \in stale
  /\ Go(r, "refused")
  /\ UNCHANGED <<keyring, mem, lock, outcome, server, session, excuse, ended>>

\* No answer, or the answer to a request that followed a refresh: the caller's affair.
Return(r) ==
  /\ At(r, "sent") \/ At(r, "again")
  /\ Stop(r)
  /\ UNCHANGED <<keyring, mem, lock, outcome, server, session, excuse, ended>>

\* A refresh ended since the 401: its failure is this request's, or it is sent again.
Follow(r) ==
  /\ At(r, "follow")
  /\ Free
  /\ IF outcome = "fine"
     THEN request' = [request EXCEPT ![r] = [at |-> "again", access |-> keyring.access]]
     ELSE Stop(r)
  /\ UNCHANGED <<keyring, mem, lock, outcome, server, session, excuse, ended>>

\* Mutation: the lock is kept by a request that cannot refresh.
LeaveLock_Held(r) == lock' = {r}
\* A request that cannot refresh unlocks.
LeaveLock(r) == UNCHANGED lock /\ r \in Request

\* No refresh ended since the 401: this request makes it, with the credentials of
\* the moment, and holds the lock to the answer.
Refresh(r) ==
  /\ At(r, "refused")
  /\ Free
  /\ IF keyring.access # 0 /\ Current # 0
     THEN /\ lock' = lock \cup {r}
          /\ Go(r, "asking")
          /\ handler' = [handler EXCEPT ![r] =
               [at |-> "asked", access |-> keyring.access, token |-> Current, new |-> 0]]
     ELSE Stop(r) /\ LeaveLock(r) /\ UNCHANGED handler
  /\ UNCHANGED <<keyring, mem, outcome, rows, stale, issued, era, session, excuse, ended>>

\* finishRefresh: the outcome is there for those who wait.
Finish(r, how) ==
  /\ outcome' = how
  /\ lock' = lock \ {r}
  /\ request' = [q \in Request |->
       IF q = r THEN Idle
       ELSE IF At(q, "refused") THEN [request[q] EXCEPT !.at = "follow"] ELSE request[q]]

\* The answer to the refresh: new tokens; or none, as the access token was good;
\* or a 401, which ends the session.
Receive(r) ==
  /\ At(r, "asking")
  /\ \/ /\ handler[r].at = "renewed"
        /\ Remember(handler[r].new)
        /\ Finish(r, "fine")
        /\ UNCHANGED ended
     \/ /\ handler[r].at = "passed"
        /\ Finish(r, "fine")
        /\ UNCHANGED <<keyring, mem, ended>>
     \/ /\ handler[r].at = "denied"
        /\ keyring' = [access |-> 0, refresh |-> 0] /\ mem' = 0
        /\ Finish(r, "expired")
        /\ ended' = {r}
  /\ handler' = [handler EXCEPT ![r] = NoHandler]
  /\ UNCHANGED <<rows, stale, issued, session, era, excuse>>

\* The answer is lost, or too late for the client.
Lose(r) ==
  /\ At(r, "asking")
  /\ Finish(r, "lost")
  /\ excuse' = excuse \cup {"lost"}
  /\ UNCHANGED <<keyring, mem, server, session, ended>>

(* The server's side of a refresh: Authenticated, TryRefreshToken.         *)

Serves(r, place, next) ==
  /\ handler[r].at = place
  /\ handler' = [handler EXCEPT ![r].at = next]

\* The access token it was handed is good after all: nothing to refresh.
Pass(r) ==
  /\ handler[r].access \notin stale
  /\ Serves(r, "asked", "passed")
  /\ UNCHANGED <<device, rows, stale, issued, era, session, excuse, ended>>

\* GetRefreshToken.
LookUp(r) ==
  /\ handler[r].access \in stale
  /\ Serves(r, "asked", IF handler[r].token \in rows THEN "found" ELSE "denied")
  /\ UNCHANGED <<device, rows, stale, issued, era, session, excuse, ended>>

\* The row is there, and its expires_at has passed.
TooOld(r) ==
  /\ handler[r].access \in stale
  /\ handler[r].token \in rows
  /\ Serves(r, "asked", "denied")
  /\ excuse' = excuse \cup {"old"}
  /\ UNCHANGED <<device, rows, stale, issued, era, session, ended>>

\* DeleteRefreshToken.
Revoke(r) ==
  /\ Serves(r, "found", "deleted")
  /\ rows' = rows \ {handler[r].token}
  /\ UNCHANGED <<device, stale, issued, era, session, excuse, ended>>

\* CreateRefreshToken and CreateJWT.
Renew(r) ==
  /\ handler[r].at = "deleted"
  /\ handler' = [handler EXCEPT ![r].at = "renewed", ![r].new = issued + 1]
  /\ Issue(issued + 1, era[handler[r].token])
  /\ UNCHANGED <<device, stale, session, excuse, ended>>

\* A statement of the refresh fails: Authenticated answers 401, as for a token it
\* does not know.
Fault(r) ==
  /\ \E place \in {"asked", "found", "deleted"} : Serves(r, place, "denied")
  /\ excuse' = excuse \cup {"fault"}
  /\ UNCHANGED <<device, rows, stale, issued, era, session, ended>>

\* The server is done with a refresh whose client has gone.
Drop(r) ==
  /\ ~At(r, "asking")
  /\ handler[r].at \in {"renewed", "denied", "passed"}
  /\ handler' = [handler EXCEPT ![r] = NoHandler]
  /\ UNCHANGED <<device, rows, stale, issued, era, session, excuse, ended>>

\* An access token expires.
Expire(t) ==
  /\ t \in (1..issued) \ stale
  /\ stale' = stale \cup {t}
  /\ UNCHANGED <<device, handler, rows, issued, era, session, excuse, ended>>

(* The device.                                                             *)

\* Logout: the tokens go from the device, without refreshMu.
Logout ==
  /\ session > 0 /\ Current # 0
  /\ keyring' = [access |-> 0, refresh |-> 0] /\ mem' = 0
  /\ excuse' = excuse \cup {"logout"}
  /\ UNCHANGED <<lock, outcome, request, server, session, ended>>

\* The app is started again: the keyring is what is left.
Restart ==
  /\ mem' = 0
  /\ lock' = {} /\ outcome' = "fine"
  /\ request' = [r \in Request |-> Idle]
  /\ excuse' = excuse \cup (IF mem # 0 THEN {"stranded"} ELSE {})
                      \cup (IF lock # {} THEN {"lost"} ELSE {})
  /\ UNCHANGED <<keyring, server, session, ended>>

-----------------------------------------------------------------------------
Acquire(r) == Refresh(r) \/ Follow(r)

Client(r) == Send(r) \/ Succeed(r) \/ Refused(r) \/ Return(r) \/ Acquire(r) \/ Receive(r) \/ Lose(r)

Server(r) == Pass(r) \/ LookUp(r) \/ TooOld(r) \/ Revoke(r) \/ Renew(r) \/ Fault(r) \/ Drop(r)

Next ==
  \/ \E r \in Request : Client(r) \/ Server(r)
  \/ \E t \in Token : Expire(t)
  \/ Login \/ Logout \/ Restart

\* Every request has a time limit, and a Go mutex starves nobody.
Fairness == \A r \in Request : WF_vars(Return(r)) /\ WF_vars(Lose(r)) /\ SF_vars(Acquire(r))

Spec == Init /\ [][Next]_vars /\ Fairness

-----------------------------------------------------------------------------
Quiet == lock = {} /\ \A r \in Request : handler[r].at = "none"

\* Whatever the interleaving of requests, refreshes and failed keyring writes, the
\* device holds the token the server knows, and the server knows no other, unless
\* an answer was lost, the server failed, the token was presented after its time, the
\* process ended with a token it could not write, or the user signed out.  (fetch.go: a
\* rotated token must not strand the session.)
InStep == Quiet /\ excuse = {} => rows = IF session = 0 THEN {} ELSE {Current}

\* Without one of these nobody is told that the session expired.
SessionKept == excuse = {} => ended = {}

\* A request ends: no path keeps the lock.
RequestsEnd == \A r \in Request : request[r].at # "idle" ~> request[r].at = "idle"

\* "A signed-out token is never presented on the session that follows"
\* (secret_store.go, at ClearRefreshToken): the device holds tokens of its last
\* sign-in only.
OwnSession == Current # 0 => era[Current] = session
=============================================================================
