------------------------------ MODULE ToolExec ------------------------------
(***************************************************************************)
(* Remote tool execution on one target daemon: a request passes the nonce  *)
(* cache of the transport (transport/server.go, nonce.go) and then the     *)
(* token checks, the replay cache and the per-origin rate limit of         *)
(* POST /mcp/execute (toolexec), and at last starts a tool.                *)
(*                                                                         *)
(* An origin mints a token for a call its user approved and sends it in    *)
(* envelopes; each envelope has a nonce and a timestamp of its own.  The   *)
(* network may deliver an envelope late, twice or never, and an origin     *)
(* that heard nothing may send the same token again in a new envelope.     *)
(* Time is counted in small units; the clocks of origins differ from the   *)
(* target's.  Keys and signatures are the subject of KeyRotate: every      *)
(* token and envelope here is properly signed and addressed.               *)
(***************************************************************************)
EXTENDS Integers, Sequences, FiniteSets

CONSTANTS
  Origin, Token, Envelope,
  Skew,         \* TimestampSkewMax and ClockSkewTolerance
  MaxLifetime,  \* DefaultMaxTokenLifetime
  ReplayTTL, ReplayMax,   \* ReplayCache
  NonceTTL, NonceCap,     \* NonceCache, the cap per member
  Burst, Window,          \* RateLimiter
  Drift,                  \* how far an origin's clock may be off
  Lifetimes,              \* the lifetimes origins ask for
  MaxTime, MaxBoots, MaxDeliveries   \* bounds

ASSUME ToolExecSets ==
  IsFiniteSet(Token) /\ IsFiniteSet(Envelope) /\ Token # {} /\ Origin # {}
ASSUME ToolExecParams ==
  /\ Skew \in Nat /\ MaxLifetime \in Nat
  /\ ReplayTTL \in Nat /\ ReplayMax \in Nat /\ NonceTTL \in Nat /\ NonceCap \in Nat
  /\ Burst \in Nat /\ Window \in Nat
  /\ Drift \subseteq Int /\ Lifetimes \subseteq Nat
  /\ MaxTime \in Nat /\ MaxBoots \in Nat /\ MaxDeliveries \in Nat

\* Of the defaults (15 min against 10 min and 60 s; 5 min against 60 s) this
\* is what matters.
ASSUME WindowsFit == ReplayTTL >= MaxLifetime + Skew /\ NonceTTL >= 2 * Skew

VARIABLES
  now,       \* the target's clock
  drift,     \* drift[o]: the clock of o minus the target's
  tok,       \* tok[t]: claims of a minted token
  env,       \* env[e]: a sent envelope
  nonces,    \* NonceCache: per member its entries, oldest first
  authed,    \* authed[e]: deliveries past authMiddleware, not handled yet
  replay,    \* ReplayCache.entries: expiry per request_id, 0 = no entry
  bucket,    \* RateLimiter: timestamps per origin
  boots,     \* restarts of the target so far
  deliveries,
  used,      \* history: times a token was started or refused by the rate limit
  admitted,  \* history: times an envelope passed authMiddleware since the boot
  evicted,   \* history: times the cap pushed its nonce out since the boot
  started    \* history: <<origin, time>> of what the rate limit let through

vars == <<now, drift, tok, env, nonces, authed, replay, bucket, boots, deliveries,
          used, admitted, evicted, started>>

Claims == [minted : BOOLEAN, origin : Origin, approved : Int, exp : Int]
Sent == [sent : BOOLEAN, tok : Token, ts : Int]

TypeOK ==
  /\ now \in Nat /\ drift \in [Origin -> Drift]
  /\ tok \in [Token -> Claims] /\ env \in [Envelope -> Sent]
  /\ nonces \in [Origin -> Seq([id : Envelope, added : Nat])]
  /\ authed \in [Envelope -> Nat]
  /\ replay \in [Token -> Nat]
  /\ bucket \in [Origin -> Seq(Nat)]
  /\ boots \in Nat /\ deliveries \in Nat
  /\ used \in [Token -> Nat]
  /\ admitted \in [Envelope -> Nat] /\ evicted \in [Envelope -> Nat]
  /\ started \in Seq(Origin \X Nat)

Init ==
  /\ now = 0 /\ drift \in [Origin -> Drift]
  /\ tok = [t \in Token |-> [minted |-> FALSE, origin |-> CHOOSE o \in Origin : TRUE,
                             approved |-> 0, exp |-> 0]]
  /\ env = [e \in Envelope |-> [sent |-> FALSE, tok |-> CHOOSE t \in Token : TRUE, ts |-> 0]]
  /\ nonces = [o \in Origin |-> <<>>]
  /\ authed = [e \in Envelope |-> 0]
  /\ replay = [t \in Token |-> 0]
  /\ bucket = [o \in Origin |-> <<>>]
  /\ boots = 0 /\ deliveries = 0
  /\ used = [t \in Token |-> 0]
  /\ admitted = [e \in Envelope |-> 0] /\ evicted = [e \in Envelope |-> 0]
  /\ started = <<>>

From(e) == tok[env[e].tok].origin

-----------------------------------------------------------------------------
\* MintToken on the origin, whose clock may be off by more than the tolerance
\* and which chooses the token's lifetime.
Mint(t, o, lifetime) ==
  /\ ~ tok[t].minted
  /\ tok' = [tok EXCEPT ![t] = [minted |-> TRUE, origin |-> o, approved |-> now + drift[o],
                                exp |-> now + drift[o] + lifetime]]
  /\ UNCHANGED <<now, drift, env, nonces, authed, replay, bucket, boots, deliveries,
                 used, admitted, evicted, started>>

\* Client.Do: a fresh nonce and the origin's time.
Send(e, t) ==
  /\ ~ env[e].sent /\ tok[t].minted
  /\ env' = [env EXCEPT ![e] = [sent |-> TRUE, tok |-> t, ts |-> now + drift[tok[t].origin]]]
  /\ UNCHANGED <<now, drift, tok, nonces, authed, replay, bucket, boots, deliveries,
                 used, admitted, evicted, started>>

-----------------------------------------------------------------------------
\* The sweep of NonceCache.CheckAndStore: entries older than age are dropped
\* from the front, up to the first that is not.
Unexpired(o, age) ==
  LET n == Len(nonces[o])
      first == CHOOSE k \in 1..(n + 1) : /\ \A j \in 1..(k - 1) : now - nonces[o][j].added > age
                                         /\ k <= n => now - nonces[o][k].added <= age
  IN SubSeq(nonces[o], first, n)

\* (faulty) nonces that expire one tick early.
LiveNoncesShort(o) == Unexpired(o, NonceTTL - 1)

\* NonceCache.CheckAndStore: expired entries go first, then a known nonce is
\* a replay, and past the cap the oldest entry goes.
LiveNonces(o) == Unexpired(o, NonceTTL)
KnownNonce(o, e) == \E k \in 1..Len(LiveNonces(o)) : LiveNonces(o)[k].id = e
StoredNonces(o, e) == Append(LiveNonces(o), [id |-> e, added |-> now])

\* authMiddleware lets a delivery through.  The timestamp is checked against
\* the target's clock on both sides.
Authenticate(e) ==
  LET o == From(e)
      kept == StoredNonces(o, e)
      over == Len(kept) > NonceCap
  IN /\ env[e].sent /\ deliveries < MaxDeliveries
     /\ now - env[e].ts \in (-Skew)..Skew
     /\ ~ KnownNonce(o, e)
     /\ nonces' = [nonces EXCEPT ![o] = IF over THEN Tail(kept) ELSE kept]
     /\ evicted' = IF over THEN [evicted EXCEPT ![Head(kept).id] = @ + 1] ELSE evicted
     /\ admitted' = [admitted EXCEPT ![e] = @ + 1]
     /\ authed' = [authed EXCEPT ![e] = @ + 1]
     /\ deliveries' = deliveries + 1
     /\ UNCHANGED <<now, drift, tok, env, replay, bucket, boots, used, started>>

\* A delivery whose nonce is known only sweeps the cache; one outside the
\* window of timestamps changes nothing.
RejectReplay(e) ==
  /\ env[e].sent /\ deliveries < MaxDeliveries
  /\ now - env[e].ts \in (-Skew)..Skew
  /\ KnownNonce(From(e), e)
  /\ nonces' = [nonces EXCEPT ![From(e)] = LiveNonces(From(e))]
  /\ deliveries' = deliveries + 1
  /\ UNCHANGED <<now, drift, tok, env, authed, replay, bucket, boots, used,
                 admitted, evicted, started>>

-----------------------------------------------------------------------------
\* Token.VerifyClaims.
VerifyClaims(t) ==
  /\ tok[t].exp > now
  /\ tok[t].approved - now <= Skew
  /\ tok[t].exp - tok[t].approved <= MaxLifetime

\* (faulty) a full replay cache that makes room instead of refusing.
SweptEvicts ==
  IF Cardinality({t \in Token : replay[t] # 0}) >= ReplayMax
    THEN [t \in Token |-> 0]
    ELSE replay

\* ReplayCache.CheckAndStore: a live entry is a replay; a full cache drops
\* what expired and, if that makes no room, refuses.
Swept ==
  IF Cardinality({t \in Token : replay[t] # 0}) >= ReplayMax
    THEN [t \in Token |-> IF now >= replay[t] THEN 0 ELSE replay[t]]
    ELSE replay
Replayed(t) == replay[t] # 0 /\ now < replay[t]
Room == Cardinality({t \in Token : Swept[t] # 0}) < ReplayMax

\* The entries of s after the cutoff, in their order.
Younger(s, cutoff) ==
  LET kept == {k \in DOMAIN s : s[k] > cutoff}
      place(k) == Cardinality({i \in kept : i <= k})
  IN [j \in 1..Cardinality(kept) |-> s[CHOOSE k \in kept : place(k) = j]]

\* (faulty) a rate window that is one tick short.
InWindowShort(o) == Younger(bucket[o], now - Window + 1)

\* RateLimiter.Allow.
InWindow(o) == Younger(bucket[o], now - Window)
UnderLimit(o) == Len(InWindow(o)) < Burst

\* handleExecute up to the start of the tool.  The claims and the replay cache
\* are consulted with one reading of the clock.
Execute(e) ==
  LET t == env[e].tok
      o == tok[t].origin
  IN /\ authed[e] > 0
     /\ VerifyClaims(t) /\ ~ Replayed(t) /\ Room
     /\ UnderLimit(o)
     /\ replay' = [Swept EXCEPT ![t] = now + ReplayTTL]
     /\ bucket' = [bucket EXCEPT ![o] = Append(InWindow(o), now)]
     /\ started' = Append(started, <<o, now>>)
     /\ used' = [used EXCEPT ![t] = @ + 1]
     /\ authed' = [authed EXCEPT ![e] = @ - 1]
     /\ UNCHANGED <<now, drift, tok, env, nonces, boots, deliveries, admitted, evicted>>

\* 429: the token stays in the replay cache.
RateLimited(e) ==
  LET t == env[e].tok
      o == tok[t].origin
  IN /\ authed[e] > 0
     /\ VerifyClaims(t) /\ ~ Replayed(t) /\ Room
     /\ ~ UnderLimit(o)
     /\ replay' = [Swept EXCEPT ![t] = now + ReplayTTL]
     /\ bucket' = [bucket EXCEPT ![o] = InWindow(o)]
     /\ used' = [used EXCEPT ![t] = @ + 1]
     /\ authed' = [authed EXCEPT ![e] = @ - 1]
     /\ UNCHANGED <<now, drift, tok, env, nonces, boots, deliveries, admitted, evicted, started>>

\* 401 or 403: bad claims, a replay, or a cache full of live entries.
Deny(e) ==
  LET t == env[e].tok
  IN /\ authed[e] > 0
     /\ \/ ~ VerifyClaims(t) /\ UNCHANGED replay
        \/ VerifyClaims(t) /\ Replayed(t) /\ UNCHANGED replay
        \/ VerifyClaims(t) /\ ~ Replayed(t) /\ ~ Room /\ replay' = Swept
     /\ authed' = [authed EXCEPT ![e] = @ - 1]
     /\ UNCHANGED <<now, drift, tok, env, nonces, bucket, boots, deliveries, used,
                    admitted, evicted, started>>

-----------------------------------------------------------------------------
Tick ==
  /\ now < MaxTime /\ now' = now + 1
  /\ UNCHANGED <<drift, tok, env, nonces, authed, replay, bucket, boots, deliveries,
                 used, admitted, evicted, started>>

\* Both caches and the limiter live in memory only.
Restart ==
  /\ boots < MaxBoots /\ boots' = boots + 1
  /\ nonces' = [o \in Origin |-> <<>>] /\ authed' = [e \in Envelope |-> 0]
  /\ replay' = [t \in Token |-> 0] /\ bucket' = [o \in Origin |-> <<>>]
  /\ admitted' = [e \in Envelope |-> 0] /\ evicted' = [e \in Envelope |-> 0]
  /\ started' = <<>>
  /\ UNCHANGED <<now, drift, tok, env, deliveries, used>>

Next ==
  \/ \E t \in Token, o \in Origin, l \in Lifetimes : Mint(t, o, l)
  \/ \E e \in Envelope, t \in Token : Send(e, t)
  \/ \E e \in Envelope :
       Authenticate(e) \/ RejectReplay(e) \/ Execute(e) \/ RateLimited(e) \/ Deny(e)
  \/ Tick \/ Restart

Spec == Init /\ [][Next]_vars

-----------------------------------------------------------------------------
\* An approved call is started or burnt at most once between two restarts of
\* the target, however often its token is delivered, in whichever envelopes,
\* and whatever the nonce cache forgot.
AtMostOnce == \A t \in Token : used[t] <= 1 + boots

\* The transport lets one envelope through twice only after the cap pushed its
\* nonce out: an entry that merely expired cannot let a duplicate in, because
\* the timestamp is then too old.
AdmittedOnceUnlessEvicted == \A e \in Envelope : admitted[e] <= 1 + evicted[e]

\* No origin starts more than Burst tools within one window, at whatever
\* moment the window begins.
RateBounded ==
  \A k \in 1..Len(started) :
    Cardinality({j \in 1..k : /\ started[j][1] = started[k][1]
                              /\ started[j][2] > started[k][2] - Window}) <= Burst
=============================================================================
