------------------------------ MODULE TunnelCache ------------------------------
(***************************************************************************)
(* dialect/engine/connect: the SSH tunnels datasources are reached         *)
(* through, and the pools opened behind them.                              *)
(*                                                                         *)
(* The look at the cache and the one after the dial are critical sections  *)
(* of tunnelCacheMu and a step each; the dial is made without it.  A       *)
(* tunnel that leaves the cache is closed and its pools are flushed by the *)
(* goroutine that took it out, with the lock or, where the collector or an *)
(* eviction took it, without.                                              *)
(*                                                                         *)
(* Data.  Tunnels are numbered in the order they are dialled.  Each        *)
(* listens on a port of its own, so the pools behind it have keys of       *)
(* their own: Via[k] is the tunnel a key's DSN goes through, 0 for none.   *)
(***************************************************************************)
EXTENDS ConnCache

CONSTANTS
  Host,        \* datasources behind a bastion, by tunnel key
  Via,         \* Via[k]: the tunnel whose local end is in the DSN of k
  MaxTunnels   \* tunnels dialled in a behaviour (bounds the model)

ASSUME TunnelAssumption ==
  /\ MaxTunnels \in Nat
  /\ Via \in [Key -> 0..MaxTunnels]

VARIABLES
  cached,    \* cached[h]: the tunnel of h in tunnelCache, 0 for none
  dialled,   \* tunnels dialled so far
  dead,      \* tunnels that no longer answer a keepalive, as far as anyone may ask
  shut,      \* tunnels that are closed
  mutex,     \* the goroutine that holds tunnelCacheMu past one step, if any
  call,      \* call[t]: where t is on its way to a pool behind a tunnel
  drop,      \* drop[t]: tunnels t has taken out and not flushed yet
  gone       \* the workspace is deleted

tunnelVars == <<cached, dialled, dead, shut, mutex, call, drop, gone>>
vars == <<connCacheVars, tunnelVars>>

Tunnel == 1..MaxTunnels
Behind(n) == {k \in Key : Via[k] = n}

\* dial: StartSSHTunnel is under way; again: the second look is due, for the own
\* tunnel; spare: the own tunnel lost and is to be closed; use: tunnel is the one to
\* use; conns: CloseWorkspaceTunnels is done and CloseWorkspaceConns is not.
Resolving == [at : {"idle", "dial", "again", "spare", "use", "conns"},
              host : Host \cup {0}, own : 0..MaxTunnels, tunnel : 0..MaxTunnels]
Going(at, h, own, n) == [at |-> at, host |-> h, own |-> own, tunnel |-> n]
AtRest == Going("idle", 0, 0, 0)
Use(n) == Going("use", 0, 0, n)

TunnelInit ==
  /\ ConnInit
  /\ cached = [h \in Host |-> 0]
  /\ dialled = 0 /\ dead = {} /\ shut = {} /\ mutex = {}
  /\ call = [t \in Thread |-> AtRest]
  /\ drop = [t \in Thread |-> {}]
  /\ gone = FALSE

\* t can go on: it is in no call of the pools' cache, and closeDeletedTunnel and the
\* lock are behind it.
Ready(t) == Free(t) /\ Idling(t) /\ drop[t] = {} /\ t \notin mutex
Calm(t)  == Ready(t) /\ call[t].at = "idle"

Alive(h) == cached[h] \notin {0} \cup dead

\* n is in the cache, or with the caller that dialled it and has not looked again.
Owned(n) ==
  \/ \E h \in Host : cached[h] = n
  \/ \E t \in Thread : call[t].at = "again" /\ call[t].own = n

\* What taking the tunnels out of the cache owes to closeDeletedTunnel.
Taken(H) == {cached[h] : h \in H} \ {0}

-----------------------------------------------------------------------------
(* GetOrCreateTunnel and what follows it.                                  *)

\* The first look finds a live tunnel.
LookHit(t, h) ==
  /\ Calm(t) /\ ~gone /\ mutex = {}
  /\ Alive(h)
  /\ call' = [call EXCEPT ![t] = Use(cached[h])]
  /\ UNCHANGED <<connCacheVars, cached, dialled, dead, shut, mutex, drop, gone>>

\* It finds none, or a dead one, which is deleted; a dial follows.
LookMiss(t, h) ==
  /\ Calm(t) /\ ~gone /\ mutex = {}
  /\ ~Alive(h)
  /\ call' = [call EXCEPT ![t] = Going("dial", h, 0, 0)]
  /\ cached' = [cached EXCEPT ![h] = 0]
  /\ drop' = [drop EXCEPT ![t] = Taken({h})]
  /\ mutex' = IF cached[h] = 0 THEN {} ELSE {t}
  /\ UNCHANGED <<connCacheVars, dialled, dead, shut, gone>>

\* StartSSHTunnel returns a tunnel, or an error.
Dial(t) ==
  /\ Ready(t) /\ call[t].at = "dial"
  /\ dialled < MaxTunnels
  /\ dialled' = dialled + 1
  /\ call' = [call EXCEPT ![t] = Going("again", @.host, dialled + 1, 0)]
  /\ UNCHANGED <<connCacheVars, cached, dead, shut, mutex, drop, gone>>

DialFails(t) ==
  /\ Ready(t) /\ call[t].at = "dial"
  /\ call' = [call EXCEPT ![t] = AtRest]
  /\ UNCHANGED <<connCacheVars, cached, dialled, dead, shut, mutex, drop, gone>>

\* The second look finds the tunnel of a caller that was faster.
SecondLookHit(t) ==
  LET c == call[t] IN
  /\ Ready(t) /\ c.at = "again" /\ mutex = {}
  /\ Alive(c.host)
  /\ call' = [call EXCEPT ![t] = Going("spare", 0, c.own, cached[c.host])]
  /\ UNCHANGED <<connCacheVars, cached, dialled, dead, shut, mutex, drop, gone>>

\* Mutation: the tunnel that lost is left alone.
Spared_Open(n) == shut
Spared(n) == shut \cup {n}

\* The own one, which nobody has seen, is closed.
CloseSpare(t) ==
  /\ call[t].at = "spare"
  /\ shut' = Spared(call[t].own)
  /\ dead' = dead \ {call[t].own}
  /\ call' = [call EXCEPT ![t] = Use(@.tunnel)]
  /\ UNCHANGED <<connCacheVars, cached, dialled, mutex, drop, gone>>

\* It finds none, or a dead one, which the own one displaces.
SecondLookMiss(t) ==
  LET c == call[t] IN
  /\ Ready(t) /\ c.at = "again" /\ mutex = {}
  /\ ~Alive(c.host)
  /\ cached' = [cached EXCEPT ![c.host] = c.own]
  /\ drop' = [drop EXCEPT ![t] = Taken({c.host})]
  /\ mutex' = IF cached[c.host] = 0 THEN {} ELSE {t}
  /\ call' = [call EXCEPT ![t] = Use(c.own)]
  /\ UNCHANGED <<connCacheVars, dialled, dead, shut, gone>>

SecondLook(t) == SecondLookHit(t) \/ SecondLookMiss(t)

\* getOrOpen with the DSN of the tunnel's local end.
OpenBehind(t, k) ==
  /\ Ready(t) /\ call[t].at = "use"
  /\ Via[k] = call[t].tunnel
  /\ GetOrOpen(t, k)
  /\ call' = [call EXCEPT ![t] = AtRest]
  /\ UNCHANGED <<cached, dialled, dead, shut, mutex, drop, gone>>

\* The DSN cannot be pointed at the tunnel.
RewriteFails(t) ==
  /\ Ready(t) /\ call[t].at = "use"
  /\ call' = [call EXCEPT ![t] = AtRest]
  /\ UNCHANGED <<connCacheVars, cached, dialled, dead, shut, mutex, drop, gone>>

\* A datasource that needs no tunnel.
OpenDirect(t, k) ==
  /\ Calm(t)
  /\ Via[k] = 0
  /\ k \in Workspace => ~gone
  /\ GetOrOpen(t, k)
  /\ UNCHANGED tunnelVars

-----------------------------------------------------------------------------
(* Tunnels that leave.                                                     *)

\* The connection to the bastion breaks.
Break(n) ==
  /\ Owned(n) /\ n \notin dead
  /\ dead' = dead \cup {n}
  /\ UNCHANGED <<connCacheVars, cached, dialled, shut, mutex, call, drop, gone>>

\* The collector, or the eviction of another goroutine's Set, takes a tunnel out.
ExpireTunnel(t, h) ==
  /\ Calm(t)
  /\ cached[h] # 0
  /\ cached' = [cached EXCEPT ![h] = 0]
  /\ drop' = [drop EXCEPT ![t] = Taken({h})]
  /\ UNCHANGED <<connCacheVars, dialled, dead, shut, mutex, call, gone>>

\* closeDeletedTunnel: the tunnel is closed, then DeleteConnsByAddr finds its pools.
CloseTunnel(t, n) ==
  /\ n \in drop[t] \ shut
  /\ shut' = shut \cup {n}
  /\ dead' = dead \ {n}
  /\ UNCHANGED <<connCacheVars, cached, dialled, mutex, call, drop, gone>>

Flush(t, n) ==
  /\ n \in drop[t] \cap shut
  /\ FindConns(t, Behind(n))
  /\ drop' = [drop EXCEPT ![t] = @ \ {n}]
  /\ UNCHANGED <<cached, dialled, dead, shut, mutex, call, gone>>

\* Mutation: the lock is kept.
Unlocked_Never(t) == mutex
Unlocked(t) == mutex \ {t}

\* The critical section that ran closeDeletedTunnel ends.
Unlock(t) ==
  /\ t \in mutex
  /\ Free(t) /\ Idling(t) /\ drop[t] = {}
  /\ mutex' = Unlocked(t)
  /\ UNCHANGED <<connCacheVars, cached, dialled, dead, shut, call, drop, gone>>

\* InvalidateWorkspaceCache: CloseWorkspaceTunnels, then CloseWorkspaceConns.
CloseWorkspaceTunnels(t) ==
  /\ Calm(t) /\ ~gone /\ mutex = {}
  /\ gone' = TRUE
  /\ cached' = [h \in Host |-> 0]
  /\ drop' = [drop EXCEPT ![t] = Taken(Host)]
  /\ mutex' = IF Taken(Host) = {} THEN {} ELSE {t}
  /\ call' = [call EXCEPT ![t] = Going("conns", 0, 0, 0)]
  /\ UNCHANGED <<connCacheVars, dialled, dead, shut>>

InvalidateConns(t) ==
  /\ Ready(t) /\ call[t].at = "conns"
  /\ CloseWorkspaceConns(t)
  /\ call' = [call EXCEPT ![t] = AtRest]
  /\ UNCHANGED <<cached, dialled, dead, shut, mutex, drop, gone>>

-----------------------------------------------------------------------------
\* Steps of the pools, which the tunnels do not see.
PoolStep ==
  \/ \E k \in Key : Age(k)
  \/ \E v \in closing : ClosePool(v)
  \/ \E t \in Thread : ConnWork(t) \/ (Calm(t) /\ GC(t))

\* Steps of a call that is under way.
GoOn(t) ==
  \/ Dial(t)
  \/ DialFails(t)
  \/ SecondLook(t)
  \/ CloseSpare(t)
  \/ \E k \in Key : OpenBehind(t, k)
  \/ RewriteFails(t)
  \/ \E n \in Tunnel : CloseTunnel(t, n)
  \/ \E n \in Tunnel : Flush(t, n)
  \/ Unlock(t)
  \/ InvalidateConns(t)

TunnelNext ==
  \/ PoolStep /\ UNCHANGED tunnelVars
  \/ \E n \in Tunnel : Break(n)
  \/ \E t \in Thread :
       \/ \E h \in Host : LookHit(t, h) \/ LookMiss(t, h) \/ ExpireTunnel(t, h)
       \/ \E k \in Key : OpenDirect(t, k)
       \/ GoOn(t)
       \/ CloseWorkspaceTunnels(t)

\* Goroutines go on, dials and keepalives return, timers fire.
TunnelFairness ==
  /\ \A t \in Thread : WF_vars((ConnWork(t) /\ UNCHANGED tunnelVars) \/ GoOn(t))
  /\ \A v \in 1..MaxMade : WF_connCacheVars(ClosePool(v))

TunnelSafety == TunnelInit /\ [][TunnelNext]_vars

TunnelSpec == TunnelSafety /\ TunnelFairness

-----------------------------------------------------------------------------
(* Properties.                                                             *)

\* Every variable of this module and of ConnCache has its shape, and one goroutine at
\* most holds the lock.
TunnelTypeOK ==
  /\ ConnTypeOK
  /\ cached \in [Host -> 0..dialled]
  /\ dialled \in 0..MaxTunnels
  /\ dead \in SUBSET (1..dialled)
  /\ shut \in SUBSET (1..dialled)
  /\ mutex \in SUBSET Thread
  /\ \A t, u \in mutex : t = u
  /\ call \in [Thread -> Resolving]
  /\ drop \in [Thread -> SUBSET (1..dialled)]
  /\ gone \in BOOLEAN

\* "a tunnel dropped without being closed is a socket into the customer's network that
\* outlives the entry that named it" (tunnel_cache.go:49): a tunnel serves from its
\* dial until it leaves the cache or loses the second look, and is then closed, once.
TunnelLife == INSTANCE PoolLife WITH
  Pool <- Tunnel,
  life <- [n \in Tunnel |->
            IF n > dialled THEN "new"
            ELSE IF n \in shut THEN "closed"
            ELSE IF Owned(n) THEN "serving" ELSE "draining"]

ImplementsTunnelLife == TunnelLife!Spec

\* Whoever asks for a tunnel, or deletes a workspace, gets through: tunnelCacheMu is
\* given back also when closeDeletedTunnel flushes pools under it.
CallersEnd == \A t \in Thread : ~Calm(t) ~> Calm(t)

\* "a pool behind a dead tunnel would otherwise linger" (conn_cache.go:86): once a
\* closed tunnel has been flushed, no pool behind it is served.
\* The code does not keep this: README.md, section 6.
NoneBehindShut ==
  \A n \in shut : (\A t \in Thread : n \notin drop[t] /\ Idling(t)) => Behind(n) \cap Cached = {}

\* A deleted workspace has no tunnels and no pools left: "a pool that outlives them is
\* an open connection to a database nobody may reach any more" (conn_cache.go:109).
\* The code does not keep this: README.md, section 6.
DeletedWorkspaceHasNone ==
  gone /\ (\A t \in Thread : call[t].at # "conns") =>
    Workspace \cap Cached = {} /\ \A h \in Host : cached[h] = 0
=============================================================================
