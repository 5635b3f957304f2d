---------------------------- MODULE SessionProofs ----------------------------
(***************************************************************************)
(* Proofs about Session, for every number of requests, tokens and sign-ins: *)
(* while nothing happened that may cost a session, the device and the      *)
(* server agree on the refresh token, and nobody is signed out.            *)
(***************************************************************************)
EXTENDS Session, FiniteSetTheorems, TLAPS

\* refreshMu has one holder.
Alone == \A q, r \in lock : q = r

\* Only a token the server knew is rotated.
Known == \A r \in Request :
  handler[r].at \in {"found", "deleted"} => handler[r].token \in 1..MaxTokens

\* How far the refresh of r has got with the one token the server knows.
Step(r) ==
  /\ Current # 0
  /\ handler[r].at \in {"asked", "found", "deleted", "renewed", "passed"}
  /\ handler[r].at \in {"asked", "found"} => handler[r].token = Current
  /\ handler[r].at \in {"asked", "found", "passed"} => rows = {Current}
  /\ handler[r].at = "deleted" => rows = {}
  /\ handler[r].at = "renewed" => rows = {handler[r].new} /\ handler[r].new # 0

Agreed == rows = IF session = 0 THEN {} ELSE {Current}

\* Between two refreshes the device and the server agree; during one, its holder
\* of the lock knows what they will agree on, and no other server side runs.
Steady ==
  /\ ended = {}
  /\ session = 0 <=> Current = 0
  /\ \A r \in Request \ lock : handler[r].at = "none"
  /\ \A r \in lock : Step(r)
  /\ lock = {} => Agreed

IInv == TypeOK /\ Alone /\ Known /\ (excuse = {} => Steady)

-----------------------------------------------------------------------------
(* The parts of the type invariant.                                        *)

RequestShape == [at : {"idle", "sent", "refused", "follow", "again", "asking"}, access : Token]
HandlerShape ==
  [at : {"none", "asked", "found", "deleted", "renewed", "denied", "passed"},
   access : Token, token : Token, new : Token]

DeviceOK ==
  /\ keyring \in [access : Token, refresh : Token] /\ mem \in Token
  /\ outcome \in {"fine", "lost", "expired"}
  /\ request \in [Request -> RequestShape]
LockOK == lock = {r \in Request : request[r].at = "asking"} /\ Alone
ServerOK ==
  /\ handler \in [Request -> HandlerShape]
  /\ rows \in SUBSET (1..issued) /\ stale \in SUBSET (1..issued)
  /\ issued \in Token /\ era \in [1..MaxTokens -> 0..MaxSessions]
HistoryOK ==
  /\ session \in 0..MaxSessions
  /\ excuse \in SUBSET {"lost", "fault", "old", "stranded", "logout"}
  /\ ended \in SUBSET Request

LEMMA Parts == TypeOK /\ Alone <=> DeviceOK /\ LockOK /\ ServerOK /\ HistoryOK
<1>1. ASSUME Alone PROVE Cardinality(lock) <= 1
  <2>1. CASE lock = {}
    BY <2>1, FS_EmptySet
  <2>2. CASE lock # {}
    <3>1. PICK r : lock = {r}
      BY <1>1, <2>2 DEF Alone
    <3> QED BY <3>1, FS_Singleton
  <2> QED BY <2>1, <2>2
<1> QED
  BY <1>1 DEF TypeOK, DeviceOK, LockOK, ServerOK, HistoryOK, RequestShape, HandlerShape

LEMMA PartsNext == (TypeOK /\ Alone)' <=> (DeviceOK /\ LockOK /\ ServerOK /\ HistoryOK)'
<1> QED BY Parts, PTL

\* Tokens are numbers, 0 among them.
LEMMA TokenNat == Token \subseteq Nat /\ 0 \in Token /\ MaxTokens \in Nat /\ MaxSessions \in Nat
<1> QED BY BoundAssumption DEF Token

LEMMA InitIInv == Init => IInv
<1> SUFFICES ASSUME Init PROVE IInv
  OBVIOUS
<1>1. DeviceOK
  BY TokenNat DEF Init, DeviceOK, RequestShape, Idle
<1>2. LockOK
  BY DEF Init, LockOK, Alone, Idle
<1>3. ServerOK
  BY TokenNat DEF Init, ServerOK, HandlerShape, NoHandler
<1>4. HistoryOK
  BY TokenNat DEF Init, HistoryOK
<1>5. Known
  BY DEF Init, Known, NoHandler
<1>6. Steady
  BY DEF Init, Steady, Agreed, Current, NoHandler
<1> QED BY <1>1, <1>2, <1>3, <1>4, <1>5, <1>6, Parts DEF IInv

-----------------------------------------------------------------------------
(* The actions.                                                            *)

\* A request that does not refresh goes on.
LEMMA WalkKeeps ==
  ASSUME IInv, NEW r \in Request \ lock, NEW next \in RequestShape, next.at # "asking",
         request' = [request EXCEPT ![r] = next], outcome' \in {"fine", "lost", "expired"},
         UNCHANGED <<keyring, mem, lock, server, session, excuse, ended>>
  PROVE  IInv'
<1>1. DeviceOK /\ LockOK /\ ServerOK /\ HistoryOK
  BY Parts DEF IInv
<1>2. DeviceOK'
  BY <1>1 DEF DeviceOK
<1>3. LockOK'
  BY <1>1 DEF LockOK, Alone, DeviceOK
<1>4. ServerOK' /\ HistoryOK'
  BY <1>1 DEF ServerOK, HistoryOK, server
<1>5. Known'
  BY DEF IInv, Known, server
<1>6. excuse' = {} => Steady'
  BY DEF IInv, Steady, Step, Agreed, Current, server
<1> QED BY <1>2, <1>3, <1>4, <1>5, <1>6, PartsNext DEF IInv

LEMMA WalksKeep ==
  ASSUME IInv, NEW r \in Request,
         Send(r) \/ Succeed(r) \/ Refused(r) \/ Return(r) \/ Follow(r)
  PROVE  IInv'
<1>1. DeviceOK /\ LockOK
  BY Parts DEF IInv
<1>2. r \in Request \ lock
  BY <1>1 DEF LockOK, Send, Succeed, Refused, Return, Follow, At
<1>3. Idle \in RequestShape /\ Idle.at # "asking"
  BY TokenNat DEF RequestShape, Idle
<1>4. outcome \in {"fine", "lost", "expired"} /\ keyring.access \in Token
  BY <1>1 DEF DeviceOK
<1>5. request \in [Request -> RequestShape]
  BY <1>1 DEF DeviceOK
<1>6. CASE Send(r)
  <2> DEFINE next == [at |-> "sent", access |-> keyring.access]
  <2>1. next \in RequestShape /\ next.at # "asking"
    BY <1>4 DEF RequestShape
  <2> QED BY <1>2, <1>4, <1>6, <2>1, WalkKeeps DEF Send
<1>7. CASE Succeed(r)
  BY <1>2, <1>3, <1>7, WalkKeeps DEF Succeed, Stop
<1>8. CASE Refused(r)
  <2> DEFINE next == [request[r] EXCEPT !.at = "refused"]
  <2>1. next \in RequestShape /\ next.at # "asking"
    BY <1>5 DEF RequestShape
  <2>2. request' = [request EXCEPT ![r] = next]
    BY <1>5, <1>8 DEF Refused, Go
  <2> HIDE DEF next
  <2> QED BY <1>2, <1>4, <1>8, <2>1, <2>2, WalkKeeps DEF Refused
<1>9. CASE Return(r)
  BY <1>2, <1>3, <1>4, <1>9, WalkKeeps DEF Return, Stop
<1>10. CASE Follow(r)
  <2> DEFINE next == [at |-> "again", access |-> keyring.access]
  <2>1. next \in RequestShape /\ next.at # "asking"
    BY <1>4 DEF RequestShape
  <2>2. CASE outcome = "fine"
    BY <1>2, <1>4, <1>10, <2>1, <2>2, WalkKeeps DEF Follow
  <2>3. CASE outcome # "fine"
    BY <1>2, <1>3, <1>4, <1>10, <2>3, WalkKeeps DEF Follow, Stop
  <2> QED BY <2>2, <2>3
<1> QED BY <1>6, <1>7, <1>8, <1>9, <1>10

LEMMA RefreshKeeps ==
  ASSUME IInv, NEW r \in Request, Refresh(r)
  PROVE  IInv'
<1>1. DeviceOK /\ LockOK /\ ServerOK /\ HistoryOK
  BY Parts DEF IInv
<1>2. lock = {} /\ r \in Request \ lock
  BY DEF Refresh, Free
<1>3. CASE keyring.access # 0 /\ Current # 0
  <2> DEFINE asked == [at |-> "asked", access |-> keyring.access, token |-> Current, new |-> 0]
  <2>1. lock' = {r} /\ handler' = [handler EXCEPT ![r] = asked]
    BY <1>2, <1>3 DEF Refresh
  <2>2. request' = [request EXCEPT ![r].at = "asking"]
    BY <1>3 DEF Refresh, Go
  <2>3. UNCHANGED <<keyring, mem, outcome, rows, stale, issued, era, session, excuse, ended>>
    BY DEF Refresh
  <2>4. asked \in HandlerShape
    BY <1>1, TokenNat DEF DeviceOK, HandlerShape, Current
  <2>5. asked.at = "asked" /\ asked.token = Current
    OBVIOUS
  <2> HIDE DEF asked
  <2>6. DeviceOK'
    BY <1>1, <2>2, <2>3 DEF DeviceOK, RequestShape
  <2>7. LockOK'
    BY <1>1, <1>2, <2>1, <2>2 DEF LockOK, Alone, DeviceOK, RequestShape
  <2>8. ServerOK'
    BY <1>1, <2>1, <2>3, <2>4 DEF ServerOK
  <2>9. HistoryOK'
    BY <1>1, <2>3 DEF HistoryOK
  <2>10. Known'
    BY <1>1, <2>1, <2>5 DEF IInv, Known, ServerOK
  <2>11. excuse' = {} => Steady'
    <3> SUFFICES ASSUME excuse' = {} PROVE Steady'
      OBVIOUS
    <3>1. Steady /\ rows = {Current} /\ Current' = Current
      BY <1>2, <1>3, <2>3 DEF IInv, Steady, Agreed, Current
    <3>2. handler'[r] = asked /\ \A q \in Request \ {r} : handler'[q] = handler[q]
      BY <1>1, <2>1 DEF ServerOK
    <3>3. Step(r)'
      BY <1>3, <2>3, <2>5, <3>1, <3>2 DEF Step
    <3> QED BY <1>2, <2>1, <2>3, <3>1, <3>2, <3>3 DEF Steady
  <2> QED BY <2>6, <2>7, <2>8, <2>9, <2>10, <2>11, PartsNext DEF IInv
<1>4. CASE ~(keyring.access # 0 /\ Current # 0)
  <2>1. Idle \in RequestShape /\ Idle.at # "asking"
    BY TokenNat DEF RequestShape, Idle
  <2>2. request' = [request EXCEPT ![r] = Idle]
    BY <1>4 DEF Refresh, Stop
  <2>3. UNCHANGED <<keyring, mem, lock, outcome, server, session, excuse, ended>>
    BY <1>4 DEF Refresh, LeaveLock, server
  <2>4. outcome' \in {"fine", "lost", "expired"}
    BY <1>1, <2>3 DEF DeviceOK
  <2> QED BY <1>2, <2>1, <2>2, <2>3, <2>4, WalkKeeps
<1> QED BY <1>3, <1>4

\* What Remember leaves on the device.
LEMMA Remembered ==
  ASSUME DeviceOK, NEW t \in Token, Remember(t)
  PROVE  /\ keyring' \in [access : Token, refresh : Token] /\ mem' \in Token
         /\ t # 0 => Current' = t
<1>1. PICK access \in {keyring.access, t} :
        \/ keyring' = [access |-> access, refresh |-> t] /\ mem' = 0
        \/ keyring' = [keyring EXCEPT !.access = access] /\ mem' = t
  BY DEF Remember
<1>2. access \in Token /\ keyring \in [access : Token, refresh : Token] /\ 0 \in Token
  BY <1>1, TokenNat DEF DeviceOK
<1> QED BY <1>1, <1>2 DEF Current

\* The lock after the answer.
LEMMA Finished ==
  ASSUME IInv, NEW r \in Request, NEW how \in {"fine", "lost", "expired"}, At(r, "asking"),
         Finish(r, how)
  PROVE  lock = {r} /\ lock' = {} /\ outcome' = how /\ LockOK'
         /\ request' \in [Request -> RequestShape]
<1>1. DeviceOK /\ LockOK
  BY Parts DEF IInv
<1>2. lock = {r}
  BY <1>1 DEF LockOK, Alone, At
<1>3. lock' = {} /\ outcome' = how
  BY <1>2 DEF Finish
<1>4. \A q \in Request : request[q] \in RequestShape /\ (q # r => request[q].at # "asking")
  BY <1>1, <1>2 DEF DeviceOK, LockOK
<1>5. Idle \in RequestShape /\ Idle.at # "asking"
  BY TokenNat DEF Idle, RequestShape
<1>6. ASSUME NEW q \in Request
      PROVE  request'[q] \in RequestShape /\ request'[q].at # "asking"
  <2>1. CASE q = r
    BY <1>5, <2>1 DEF Finish
  <2>2. CASE q # r /\ At(q, "refused")
    <3>1. request'[q] = [request[q] EXCEPT !.at = "follow"]
      BY <2>2 DEF Finish
    <3> QED BY <1>4, <3>1 DEF RequestShape
  <2>3. CASE q # r /\ ~At(q, "refused")
    BY <1>4, <2>3 DEF Finish
  <2> QED BY <2>1, <2>2, <2>3
<1>7. request' \in [Request -> RequestShape]
  BY <1>6 DEF Finish
<1>8. LockOK'
  BY <1>3, <1>6 DEF LockOK, Alone
<1> QED BY <1>2, <1>3, <1>7, <1>8

LEMMA ReceiveKeeps ==
  ASSUME IInv, NEW r \in Request, Receive(r)
  PROVE  IInv'
<1>1. DeviceOK /\ LockOK /\ ServerOK /\ HistoryOK
  BY Parts DEF IInv
<1>2. At(r, "asking") /\ UNCHANGED <<rows, stale, issued, session, era, excuse>>
      /\ handler' = [handler EXCEPT ![r] = NoHandler]
  BY DEF Receive
<1>3. handler[r] \in HandlerShape /\ handler[r].new \in Token
  BY <1>1 DEF ServerOK, HandlerShape
<1>4. PICK how \in {"fine", "expired"} : Finish(r, how)
  BY DEF Receive
<1>5. lock = {r} /\ lock' = {} /\ outcome' = how /\ LockOK'
      /\ request' \in [Request -> RequestShape]
  BY <1>2, <1>4, Finished
<1>6. keyring' \in [access : Token, refresh : Token] /\ mem' \in Token
  <2>1. CASE handler[r].at = "renewed"
    BY <1>1, <1>3, <2>1, Remembered DEF Receive
  <2>2. CASE handler[r].at = "passed"
    BY <1>1, <2>2 DEF Receive, DeviceOK
  <2>3. CASE handler[r].at = "denied"
    <3>1. keyring' = [access |-> 0, refresh |-> 0] /\ mem' = 0
      BY <2>3 DEF Receive
    <3> QED BY <3>1, TokenNat
  <2> QED BY <2>1, <2>2, <2>3 DEF Receive
<1>7. DeviceOK'
  BY <1>5, <1>6 DEF DeviceOK
<1>8. NoHandler \in HandlerShape /\ NoHandler.at = "none"
  BY TokenNat DEF NoHandler, HandlerShape
<1>9. ServerOK'
  BY <1>1, <1>2, <1>8 DEF ServerOK
<1>10. HistoryOK'
  <2>1. ended' \in SUBSET Request
    BY <1>1 DEF Receive, HistoryOK
  <2> QED BY <1>1, <1>2, <2>1 DEF HistoryOK
<1>11. \A q \in Request : handler'[q] = IF q = r THEN NoHandler ELSE handler[q]
  BY <1>1, <1>2 DEF ServerOK
<1>12. Known'
  BY <1>8, <1>11 DEF IInv, Known
<1>13. excuse' = {} => Steady'
  <2> SUFFICES ASSUME excuse' = {} PROVE Steady'
    OBVIOUS
  <2>1. Steady /\ Step(r)
    BY <1>2, <1>5 DEF IInv, Steady
  <2>2. \A q \in Request : handler'[q].at = "none"
    BY <1>5, <1>8, <1>11, <2>1 DEF Steady
  <2>3. session # 0
    BY <2>1 DEF Steady, Step
  <2>4. ended' = {} /\ Current' # 0 /\ rows = {Current'}
    <3>1. CASE handler[r].at = "renewed"
      <4>1. Current' = handler[r].new
        BY <1>1, <1>3, <2>1, <3>1, Remembered DEF Receive, Step
      <4> QED BY <2>1, <3>1, <4>1 DEF Receive, Steady, Step
    <3>2. CASE handler[r].at = "passed"
      BY <2>1, <2>3, <3>2 DEF Receive, Steady, Step, Current
    <3> QED BY <2>1, <3>1, <3>2 DEF Step, Receive
  <2> QED BY <1>2, <1>5, <2>2, <2>3, <2>4 DEF Steady, Agreed
<1> QED BY <1>5, <1>7, <1>9, <1>10, <1>12, <1>13, PartsNext DEF IInv

\* A lost answer is an excuse.
LEMMA LoseKeeps ==
  ASSUME IInv, NEW r \in Request, Lose(r)
  PROVE  IInv'
<1>1. DeviceOK /\ LockOK /\ ServerOK /\ HistoryOK
  BY Parts DEF IInv
<1>2. LockOK' /\ outcome' = "lost" /\ request' \in [Request -> RequestShape]
  BY Finished DEF Lose
<1>3. UNCHANGED <<keyring, mem, server, session, ended>>
  BY DEF Lose
<1>4. DeviceOK'
  BY <1>1, <1>2, <1>3 DEF DeviceOK
<1>5. ServerOK' /\ Known'
  BY <1>1, <1>3 DEF IInv, ServerOK, Known, server
<1>6. excuse' = excuse \cup {"lost"}
  BY DEF Lose
<1>7. HistoryOK' /\ excuse' # {}
  BY <1>1, <1>3, <1>6 DEF HistoryOK
<1> QED BY <1>2, <1>4, <1>5, <1>7, PartsNext DEF IInv

\* The server side of r goes on to next, and may change the rows.
LEMMA ServeKeeps ==
  ASSUME IInv, NEW r \in Request, NEW next \in HandlerShape,
         handler' = [handler EXCEPT ![r] = next],
         next.at \in {"found", "deleted"} => next.token \in 1..MaxTokens,
         ServerOK', HistoryOK', excuse \subseteq excuse',
         excuse' = {} => r \in lock /\ Step(r)',
         UNCHANGED <<device, session, ended>>
  PROVE  IInv'
<1>1. DeviceOK /\ LockOK /\ ServerOK
  BY Parts DEF IInv
<1>2. DeviceOK'
  BY <1>1 DEF DeviceOK, device
<1>3. LockOK'
  BY <1>1 DEF LockOK, Alone, device
<1>4. \A q \in Request : handler'[q] = IF q = r THEN next ELSE handler[q]
  BY <1>1 DEF ServerOK
<1>5. Known'
  BY <1>4 DEF IInv, Known
<1>6. excuse' = {} => Steady'
  <2> SUFFICES ASSUME excuse' = {} PROVE Steady'
    OBVIOUS
  <2>1. Steady /\ r \in lock /\ Step(r)' /\ UNCHANGED <<lock, session, ended>>
    BY DEF IInv, device
  <2>2. Current' = Current
    BY DEF Current, device
  <2>3. \A q \in lock' : q = r
    BY <1>1, <2>1 DEF LockOK, Alone
  <2>4. \A q \in Request \ lock' : handler'[q].at = "none"
    BY <1>4, <2>1 DEF Steady
  <2> QED BY <2>1, <2>2, <2>3, <2>4 DEF Steady
<1> QED BY <1>2, <1>3, <1>5, <1>6, PartsNext DEF IInv

\* A step of the server side that makes no token.
LEMMA PlaceKeeps ==
  ASSUME IInv, NEW r \in Request, NEW place \in {"asked", "found", "deleted"},
         NEW how \in {"passed", "found", "denied", "deleted"}, Serves(r, place, how),
         how = "found" => handler[r].token \in rows,
         how = "deleted" => place = "found",
         rows' \subseteq rows,
         excuse' \in {excuse, excuse \cup {"fault"}, excuse \cup {"old"}},
         excuse' = {} /\ Steady /\ Step(r) =>
           /\ how # "denied"
           /\ how = "deleted" => rows' = {}
           /\ how \in {"passed", "found"} => place = "asked" /\ rows' = rows,
         UNCHANGED <<device, stale, issued, era, session, ended>>
  PROVE  IInv'
<1>1. ServerOK /\ HistoryOK
  BY Parts DEF IInv
<1> DEFINE next == [handler[r] EXCEPT !.at = how]
<1>2. handler[r] \in HandlerShape /\ handler[r].at = place
  BY <1>1 DEF ServerOK, Serves
<1>3. next \in HandlerShape /\ next.at = how /\ next.token = handler[r].token
  BY <1>2 DEF HandlerShape
<1>4. handler' = [handler EXCEPT ![r] = next]
  BY <1>1 DEF ServerOK, Serves
<1> HIDE DEF next
<1>5. handler'[r] = next
  BY <1>1, <1>4 DEF ServerOK
<1>6. ServerOK'
  BY <1>1, <1>3, <1>4 DEF ServerOK
<1>7. HistoryOK' /\ excuse \subseteq excuse'
  BY <1>1 DEF HistoryOK
<1>8. next.at \in {"found", "deleted"} => next.token \in 1..MaxTokens
  <2>1. CASE how = "found"
    <3>1. handler[r].token \in 1..issued /\ issued \in 0..MaxTokens
      BY <1>1, <2>1 DEF ServerOK, Token
    <3>2. handler[r].token \in 1..MaxTokens
      BY <3>1, TokenNat
    <3> QED BY <1>3, <3>2
  <2>2. CASE how = "deleted"
    BY <1>2, <1>3, <2>2 DEF IInv, Known
  <2> QED BY <1>3, <2>1, <2>2
<1>9. excuse' = {} => r \in lock /\ Step(r)'
  <2> SUFFICES ASSUME excuse' = {} PROVE r \in lock /\ Step(r)'
    OBVIOUS
  <2>1. Steady /\ r \in lock /\ Step(r)
    BY <1>2 DEF IInv, Steady
  <2>2. Current' = Current
    BY DEF Current, device
  <2> QED BY <1>2, <1>3, <1>5, <2>1, <2>2 DEF Step
<1>10. UNCHANGED <<device, session, ended>>
  OBVIOUS
<1> QED BY <1>3, <1>4, <1>6, <1>7, <1>8, <1>9, <1>10, ServeKeeps

LEMMA ServesKeep ==
  ASSUME IInv, NEW r \in Request, Pass(r) \/ LookUp(r) \/ TooOld(r) \/ Revoke(r) \/ Fault(r)
  PROVE  IInv'
<1>1. CASE Pass(r)
  <2>1. Serves(r, "asked", "passed") /\ rows' = rows /\ excuse' = excuse
    BY <1>1 DEF Pass
  <2>2. UNCHANGED <<device, stale, issued, era, session, ended>>
    BY <1>1 DEF Pass
  <2> QED BY <2>1, <2>2, PlaceKeeps
<1>2. CASE LookUp(r)
  <2> DEFINE how == IF handler[r].token \in rows THEN "found" ELSE "denied"
  <2>1. Serves(r, "asked", how) /\ rows' = rows /\ excuse' = excuse
    BY <1>2 DEF LookUp
  <2>2. UNCHANGED <<device, stale, issued, era, session, ended>>
    BY <1>2 DEF LookUp
  <2>3. Steady /\ Step(r) => handler[r].token \in rows
    BY <2>1 DEF Step, Serves
  <2>4. CASE handler[r].token \in rows
    <3>1. Serves(r, "asked", "found")
      BY <2>1, <2>4
    <3> QED BY <2>1, <2>2, <2>4, <3>1, PlaceKeeps
  <2>5. CASE handler[r].token \notin rows
    <3>1. Serves(r, "asked", "denied")
      BY <2>1, <2>5
    <3> QED BY <2>1, <2>2, <2>3, <2>5, <3>1, PlaceKeeps
  <2> QED BY <2>4, <2>5
<1>3. CASE Revoke(r)
  <2>1. Serves(r, "found", "deleted") /\ rows' = rows \ {handler[r].token} /\ excuse' = excuse
    BY <1>3 DEF Revoke
  <2>2. UNCHANGED <<device, stale, issued, era, session, ended>>
    BY <1>3 DEF Revoke
  <2>3. Step(r) => rows' = {}
    BY <2>1 DEF Step, Serves
  <2> QED BY <2>1, <2>2, <2>3, PlaceKeeps
<1>4. CASE Fault(r)
  <2>1. PICK place \in {"asked", "found", "deleted"} : Serves(r, place, "denied")
    BY <1>4 DEF Fault
  <2>2. rows' = rows /\ excuse' = excuse \cup {"fault"}
    BY <1>4 DEF Fault
  <2>3. UNCHANGED <<device, stale, issued, era, session, ended>>
    BY <1>4 DEF Fault
  <2> QED BY <2>1, <2>2, <2>3, PlaceKeeps
<1>5. CASE TooOld(r)
  <2>1. Serves(r, "asked", "denied") /\ rows' = rows /\ excuse' = excuse \cup {"old"}
    BY <1>5 DEF TooOld
  <2>2. UNCHANGED <<device, stale, issued, era, session, ended>>
    BY <1>5 DEF TooOld
  <2> QED BY <2>1, <2>2, PlaceKeeps
<1> QED BY <1>1, <1>2, <1>3, <1>4, <1>5

LEMMA RenewKeeps ==
  ASSUME IInv, NEW r \in Request, Renew(r)
  PROVE  IInv'
<1>1. ServerOK /\ HistoryOK
  BY Parts DEF IInv
<1> DEFINE next == [handler[r] EXCEPT !.at = "renewed", !.new = issued + 1]
<1>2. handler' = [handler EXCEPT ![r] = next]
  BY <1>1 DEF Renew, ServerOK
<1>3. /\ issued + 1 \in 1..MaxTokens
      /\ issued' = issued + 1
      /\ rows' = rows \cup {issued + 1}
      /\ era' = [era EXCEPT ![issued + 1] = era[handler[r].token]]
  BY <1>1, TokenNat DEF Renew, Issue, ServerOK, Token
<1>4. handler[r] \in HandlerShape /\ handler[r].at = "deleted"
      /\ handler[r].token \in 1..MaxTokens
  BY <1>1 DEF Renew, ServerOK, IInv, Known
<1>5. /\ next \in HandlerShape
      /\ next.at = "renewed"
      /\ next.new = issued + 1
  <2>1. issued + 1 \in Token
    BY <1>3, TokenNat DEF Token
  <2> QED BY <1>4, <2>1 DEF HandlerShape
<1> HIDE DEF next
<1>6. UNCHANGED <<device, stale, session, excuse, ended>>
  BY DEF Renew
<1>7. ServerOK'
  <2>1. handler' \in [Request -> HandlerShape]
    BY <1>1, <1>2, <1>5 DEF ServerOK
  <2>2. era[handler[r].token] \in 0..MaxSessions
    BY <1>1, <1>4 DEF ServerOK
  <2>3. era' \in [1..MaxTokens -> 0..MaxSessions]
    BY <1>1, <1>3, <2>2 DEF ServerOK
  <2>4. issued' \in Token /\ issued \in Nat
    BY <1>1, <1>3, TokenNat DEF ServerOK, Token
  <2>5. rows' \subseteq 1..issued' /\ stale' \subseteq 1..issued'
    BY <1>1, <1>3, <1>6, <2>4 DEF ServerOK
  <2> QED BY <2>1, <2>3, <2>4, <2>5 DEF ServerOK
<1>8. HistoryOK'
  BY <1>1, <1>6 DEF HistoryOK
<1>9. excuse' = {} => r \in lock /\ Step(r)'
  <2> SUFFICES ASSUME excuse' = {} PROVE r \in lock /\ Step(r)'
    OBVIOUS
  <2>1. Steady /\ r \in lock /\ Step(r) /\ Current' = Current
    BY <1>4, <1>6 DEF IInv, Steady, Current, device
  <2>2. handler'[r] = next
    BY <1>1, <1>2 DEF ServerOK
  <2>3. rows' = {issued + 1} /\ issued + 1 # 0
    BY <1>3, <1>4, <2>1, TokenNat DEF Step
  <2> QED BY <1>5, <2>1, <2>2, <2>3 DEF Step
<1>10. excuse \subseteq excuse' /\ UNCHANGED <<device, session, ended>>
  BY <1>6
<1> QED BY <1>2, <1>5, <1>7, <1>8, <1>9, <1>10, ServeKeeps

\* A refresh nobody waits for any more is one that somebody gave up.
LEMMA DropKeeps ==
  ASSUME IInv, NEW r \in Request, Drop(r)
  PROVE  IInv'
<1>1. ServerOK /\ HistoryOK /\ LockOK
  BY Parts DEF IInv
<1>2. /\ UNCHANGED <<device, rows, stale, issued, era, session, excuse, ended>>
      /\ handler' = [handler EXCEPT ![r] = NoHandler]
      /\ handler[r].at # "none"
  BY DEF Drop
<1>3. NoHandler \in HandlerShape /\ NoHandler.at = "none"
  BY TokenNat DEF NoHandler, HandlerShape
<1>4. ServerOK'
  BY <1>1, <1>2, <1>3 DEF ServerOK
<1>5. HistoryOK'
  BY <1>1, <1>2 DEF HistoryOK
<1>6. excuse' # {}
  <2>1. r \in Request \ lock
    BY <1>1 DEF Drop, LockOK, At
  <2> QED BY <1>2, <2>1 DEF IInv, Steady
<1>7. excuse \subseteq excuse' /\ UNCHANGED <<device, session, ended>>
  BY <1>2
<1>8. NoHandler.at \notin {"found", "deleted"}
  BY <1>3
<1> QED BY <1>2, <1>3, <1>4, <1>5, <1>6, <1>7, <1>8, ServeKeeps

LEMMA ExpireKeeps ==
  ASSUME IInv, NEW t \in Token, Expire(t)
  PROVE  IInv'
<1>1. DeviceOK /\ LockOK /\ ServerOK /\ HistoryOK
  BY Parts DEF IInv
<1>2. UNCHANGED <<device, handler, rows, issued, era, session, excuse, ended>>
      /\ stale' \subseteq 1..issued
  BY <1>1 DEF Expire, ServerOK
<1>3. DeviceOK' /\ LockOK' /\ ServerOK' /\ HistoryOK'
  BY <1>1, <1>2 DEF DeviceOK, LockOK, Alone, ServerOK, HistoryOK, device
<1>4. Known'
  BY <1>2 DEF IInv, Known
<1>5. excuse' = {} => Steady'
  BY <1>2 DEF IInv, Steady, Step, Agreed, Current, device
<1> QED BY <1>3, <1>4, <1>5, PartsNext DEF IInv

LEMMA LoginKeeps ==
  ASSUME IInv, Login
  PROVE  IInv'
<1>1. DeviceOK /\ LockOK /\ ServerOK /\ HistoryOK
  BY Parts DEF IInv
<1>2. /\ issued + 1 \in 1..MaxTokens
      /\ issued' = issued + 1
      /\ rows' = rows \cup {issued + 1}
      /\ era' = [era EXCEPT ![issued + 1] = session + 1]
      /\ session + 1 \in 1..MaxSessions
      /\ session' = session + 1
  <2>1. Issue(issued + 1, session + 1) /\ session < MaxSessions /\ session' = session + 1
    BY DEF Login
  <2>2. issued + 1 \in 1..MaxTokens
    BY <1>1, <2>1, TokenNat DEF Issue, ServerOK, Token
  <2>3. session + 1 \in 1..MaxSessions
    BY <1>1, <2>1, TokenNat DEF HistoryOK
  <2> QED BY <2>1, <2>2, <2>3 DEF Issue
<1>3. UNCHANGED <<lock, outcome, request, handler, stale, excuse, ended>> /\ Current = 0
  BY DEF Login
<1>4. issued + 1 \in Token /\ issued + 1 # 0
  BY <1>2, TokenNat DEF Token
<1>5. keyring' \in [access : Token, refresh : Token] /\ mem' \in Token /\ Current' = issued + 1
  BY <1>1, <1>4, Remembered DEF Login
<1>6. DeviceOK' /\ LockOK'
  BY <1>1, <1>3, <1>5 DEF DeviceOK, LockOK, Alone
<1>7. ServerOK'
  <2>1. era' \in [1..MaxTokens -> 0..MaxSessions]
    BY <1>1, <1>2, TokenNat DEF ServerOK
  <2>2. issued' \in Token /\ issued \in Nat
    BY <1>1, <1>2, <1>4, TokenNat DEF ServerOK
  <2>3. rows' \subseteq 1..issued' /\ stale' \subseteq 1..issued'
    BY <1>1, <1>2, <1>3, <2>2 DEF ServerOK
  <2> QED BY <1>1, <1>3, <2>1, <2>2, <2>3 DEF ServerOK
<1>8. HistoryOK'
  BY <1>1, <1>2, <1>3, TokenNat DEF HistoryOK
<1>9. Known'
  BY <1>3 DEF IInv, Known
<1>10. excuse' = {} => Steady'
  <2> SUFFICES ASSUME excuse' = {} PROVE Steady'
    OBVIOUS
  <2>1. Steady /\ session = 0
    BY <1>3 DEF IInv, Steady
  <2>2. lock = {}
    BY <1>3, <2>1 DEF Steady, Step
  <2>3. rows = {}
    BY <2>1, <2>2 DEF Steady, Agreed
  <2>4. session' # 0 /\ Current' # 0 /\ rows' = {Current'}
    BY <1>2, <1>4, <1>5, <2>1, <2>3
  <2> QED BY <1>3, <2>1, <2>2, <2>4 DEF Steady, Agreed
<1> QED BY <1>6, <1>7, <1>8, <1>9, <1>10, PartsNext DEF IInv

LEMMA LogoutKeeps ==
  ASSUME IInv, Logout
  PROVE  IInv'
<1>1. DeviceOK /\ LockOK /\ ServerOK /\ HistoryOK
  BY Parts DEF IInv
<1>2. /\ keyring' = [access |-> 0, refresh |-> 0] /\ mem' = 0
      /\ excuse' = excuse \cup {"logout"}
      /\ UNCHANGED <<lock, outcome, request, server, session, ended>>
  BY DEF Logout
<1>3. DeviceOK'
  BY <1>1, <1>2, TokenNat DEF DeviceOK
<1>4. LockOK'
  BY <1>1, <1>2 DEF LockOK, Alone
<1>5. ServerOK' /\ Known'
  BY <1>1, <1>2 DEF IInv, ServerOK, Known, server
<1>6. HistoryOK' /\ excuse' # {}
  BY <1>1, <1>2 DEF HistoryOK
<1> QED BY <1>3, <1>4, <1>5, <1>6, PartsNext DEF IInv

\* What the process knew is gone.
LEMMA RestartKeeps ==
  ASSUME IInv, Restart
  PROVE  IInv'
<1>1. DeviceOK /\ LockOK /\ ServerOK /\ HistoryOK
  BY Parts DEF IInv
<1>2. mem' = 0 /\ lock' = {} /\ outcome' = "fine"
      /\ UNCHANGED <<keyring, server, session, ended>>
  BY DEF Restart
<1>3. request' = [r \in Request |-> Idle]
  BY DEF Restart
<1>4. Idle \in RequestShape /\ Idle.at # "asking"
  BY TokenNat DEF Idle, RequestShape
<1>5. DeviceOK'
  BY <1>1, <1>2, <1>3, <1>4, TokenNat DEF DeviceOK
<1>6. LockOK'
  BY <1>2, <1>3, <1>4 DEF LockOK, Alone
<1>7. ServerOK' /\ Known'
  BY <1>1, <1>2 DEF IInv, ServerOK, Known, server
<1>8. HistoryOK'
  BY <1>1, <1>2 DEF Restart, HistoryOK
<1>9. excuse' = {} => Steady'
  <2> SUFFICES ASSUME excuse' = {} PROVE Steady'
    OBVIOUS
  <2>1. excuse = {} /\ mem = 0 /\ lock = {}
    BY DEF Restart
  <2>2. Steady /\ Current' = Current
    BY <1>2, <2>1 DEF IInv, Current
  <2> QED BY <1>2, <2>1, <2>2 DEF Steady, Agreed, server
<1> QED BY <1>5, <1>6, <1>7, <1>8, <1>9, PartsNext DEF IInv

LEMMA StutterKeeps == IInv /\ UNCHANGED vars => IInv'
<1> SUFFICES ASSUME IInv, UNCHANGED vars PROVE IInv'
  OBVIOUS
<1>1. DeviceOK /\ LockOK /\ ServerOK /\ HistoryOK
  BY Parts DEF IInv
<1>2. UNCHANGED <<keyring, mem, lock, outcome, request, handler, rows, stale, issued, era,
                  session, excuse, ended>>
  BY DEF vars, device, server
<1>3. DeviceOK' /\ LockOK' /\ ServerOK' /\ HistoryOK'
  BY <1>1, <1>2 DEF DeviceOK, LockOK, Alone, ServerOK, HistoryOK
<1>4. Known' /\ (excuse' = {} => Steady')
  BY <1>2 DEF IInv, Known, Steady, Step, Agreed, Current
<1> QED BY <1>3, <1>4, PartsNext DEF IInv

LEMMA NextKeeps == IInv /\ [Next]_vars => IInv'
<1> SUFFICES ASSUME IInv, [Next]_vars PROVE IInv'
  OBVIOUS
<1>1. ASSUME NEW r \in Request, Client(r) PROVE IInv'
  BY <1>1, WalksKeep, RefreshKeeps, ReceiveKeeps, LoseKeeps DEF Client, Acquire
<1>2. ASSUME NEW r \in Request, Server(r) PROVE IInv'
  BY <1>2, ServesKeep, RenewKeeps, DropKeeps DEF Server
<1>3. ASSUME NEW t \in Token, Expire(t) PROVE IInv'
  BY <1>3, ExpireKeeps
<1>4. CASE Login \/ Logout \/ Restart
  BY <1>4, LoginKeeps, LogoutKeeps, RestartKeeps
<1>5. CASE UNCHANGED vars
  BY <1>5, StutterKeeps
<1> QED BY <1>1, <1>2, <1>3, <1>4, <1>5 DEF Next

-----------------------------------------------------------------------------
(* The theorems.                                                           *)

\* Every reachable state has the inductive invariant.
THEOREM SessionIInv == Spec => []IInv
<1> QED BY InitIInv, NextKeeps, PTL DEF Spec

\* The state has its shape, and one request at most holds refreshMu.
THEOREM SessionTypeOK == Spec => []TypeOK
<1>1. IInv => TypeOK
  BY DEF IInv
<1> QED BY <1>1, SessionIInv, PTL

\* The device holds the one token the server knows, unless something happened that
\* may cost a session (doWithRetry, TryRefreshToken).
THEOREM SessionInStep == Spec => []InStep
<1>1. IInv => InStep
  BY DEF IInv, InStep, Steady, Agreed, Quiet
<1> QED BY <1>1, SessionIInv, PTL

\* Nobody is signed out of a live session without one of these.
THEOREM SessionIsKept == Spec => []SessionKept
<1>1. IInv => SessionKept
  BY DEF IInv, SessionKept, Steady
<1> QED BY <1>1, SessionIInv, PTL
=============================================================================
