--------------------------- MODULE ToolExecProofs ---------------------------
(***************************************************************************)
(* What the replay cache and the nonce cache of a target promise for any   *)
(* set of tokens and envelopes, any clocks and lifetimes, any caps of the  *)
(* caches, and any time to live that covers the validity window.           *)
(***************************************************************************)
EXTENDS ToolExec, WellFoundedInduction, SequenceTheorems, FunctionTheorems, FiniteSetTheorems, TLAPS

\* A set of natural numbers that is not empty has a least element.
LEMMA Least ==
  ASSUME NEW S \in SUBSET Nat, S # {}
  PROVE  \E k \in S : \A j \in S : k <= j
<1> DEFINE R == {ss \in Nat \X Nat : ss[1] < ss[2]}
<1>1. IsWellFoundedOn(R, Nat)
  BY NatLessThanWellFounded, Zenon DEF OpToRel
<1>2. \A i, j \in Nat : i < j => <<i, j>> \in R
  OBVIOUS
<1> HIDE DEF R
<1>3. PICK k \in S : \A j \in S : ~ (<<j, k>> \in R)
  BY <1>1, WFMin
<1>4. ASSUME NEW j \in S PROVE k <= j
  <2>1. k \in Nat /\ j \in Nat /\ ~ (j < k)
    BY <1>2, <1>3
  <2> QED
    BY <2>1
<1> QED
  BY <1>4

\* What the nonce cache holds.
Entry == [id : Envelope, added : Nat]

\* The sweep keeps the newer end of the list, and drops only what is older than
\* age.
LEMMA Sweep ==
  ASSUME NEW o, NEW age \in Int, nonces[o] \in Seq(Entry), now \in Nat
  PROVE  /\ Unexpired(o, age) \in Seq(Entry)
         /\ \A k \in 1..Len(nonces[o]) :
              \/ now - nonces[o][k].added > age
              \/ \E j \in 1..Len(Unexpired(o, age)) : Unexpired(o, age)[j] = nonces[o][k]
<1> DEFINE s == nonces[o]
           t == now
           n == Len(s)
           Good(k) == /\ \A j \in 1..(k - 1) : t - s[j].added > age
                      /\ k <= n => t - s[k].added <= age
           first == CHOOSE k \in 1..(n + 1) : Good(k)
           kept == SubSeq(s, first, n)
           Young == {k \in 1..n : t - s[k].added <= age}
<1>1. t \in Nat /\ n \in Nat /\ \A k \in 1..n : s[k] \in Entry /\ s[k].added \in Nat
  <2>1. \A k \in 1..n : s[k] \in Entry
    OBVIOUS
  <2> QED
    BY <2>1 DEF Entry
<1> HIDE DEF s, t
<1>2. \E k \in 1..(n + 1) : Good(k)
  <2>1. CASE Young = {}
    <3>1. \A j \in 1..n : t - s[j].added > age
      BY <1>1, <2>1
    <3>2. Good(n + 1)
      BY <1>1, <3>1
    <3> QED
      BY <1>1, <3>2
  <2>2. CASE Young # {}
    <3>1. PICK k \in Young : \A j \in Young : k <= j
      <4>1. Young \in SUBSET Nat
        BY <1>1
      <4> HIDE DEF Young
      <4> QED
        BY <2>2, <4>1, Least
    <3>2. Good(k)
      BY <1>1, <3>1
    <3> QED
      BY <1>1, <3>2, SMTT(30)
  <2> QED
    BY <2>1, <2>2
<1>3. first \in 1..(n + 1) /\ Good(first)
  <2> HIDE DEF Good
  <2> QED
    BY <1>2
<1> HIDE DEF first
<1>4. /\ kept \in Seq(Entry)
      /\ Len(kept) = n - first + 1
      /\ \A i \in 1..(n - first + 1) : kept[i] = s[first + i - 1]
  BY <1>1, <1>3, SubSeqProperties
<1>5. ASSUME NEW k \in 1..n, ~ (t - s[k].added > age)
      PROVE  \E j \in 1..Len(kept) : kept[j] = s[k]
  <2>1. k >= first
    BY <1>1, <1>3, <1>5
  <2>2. k - first + 1 \in 1..Len(kept) /\ kept[k - first + 1] = s[k]
    BY <1>1, <1>3, <1>4, <2>1
  <2> QED
    BY <2>2
<1>6. Unexpired(o, age) = kept
  BY DEF Unexpired, first, s, t
<1> QED
  BY <1>4, <1>5, <1>6 DEF s, t

-----------------------------------------------------------------------------
CacheTypes ==
  /\ now \in Nat /\ drift \in [Origin -> Int]
  /\ tok \in [Token -> Claims] /\ env \in [Envelope -> Sent]
  /\ nonces \in [Origin -> Seq(Entry)]
  /\ authed \in [Envelope -> Nat] /\ replay \in [Token -> Nat]
  /\ boots \in Nat /\ used \in [Token -> Nat]
  /\ admitted \in [Envelope -> Nat] /\ evicted \in [Envelope -> Nat]

\* What passed a check was sent and minted, and is fixed from then on.
Settled ==
  /\ \A e \in Envelope : env[e].sent => tok[env[e].tok].minted
  /\ \A e \in Envelope : authed[e] > 0 \/ admitted[e] > 0 => env[e].sent
  /\ \A t \in Token : used[t] > 0 => tok[t].minted

\* A token used since the boot has expired, or the replay cache remembers it for
\* as long as it is valid.
Burnt ==
  \A t \in Token : used[t] > boots => now >= tok[t].exp \/ replay[t] >= tok[t].exp

\* The cache holds e's nonce, stored early enough in e's window.
Noted(e) ==
  \E k \in 1..Len(nonces[From(e)]) :
    /\ nonces[From(e)][k].id = e
    /\ env[e].ts <= nonces[From(e)][k].added + Skew

\* An envelope admitted more often than the cap forgot it is too old by now, or
\* noted.
Remembered ==
  \A e \in Envelope : admitted[e] > evicted[e] => now - env[e].ts > Skew \/ Noted(e)

ExecInv ==
  /\ CacheTypes /\ Settled /\ Burnt /\ Remembered
  /\ AtMostOnce /\ AdmittedOnceUnlessEvicted

LEMMA ExecInit == Init => ExecInv
<1> SUFFICES ASSUME Init PROVE ExecInv
  OBVIOUS
<1>1. CacheTypes
  <2>1. \A o \in Origin : (CHOOSE p \in Origin : TRUE) \in Origin
    OBVIOUS
  <2>2. tok \in [Token -> Claims] /\ env \in [Envelope -> Sent]
    BY ToolExecSets DEF Init, Claims, Sent
  <2>3. drift \in [Origin -> Int]
    BY ToolExecParams DEF Init
  <2>4. nonces \in [Origin -> Seq(Entry)]
    BY DEF Init
  <2> QED
    BY <2>2, <2>3, <2>4 DEF Init, CacheTypes
<1>2. Settled /\ Burnt /\ Remembered /\ AtMostOnce /\ AdmittedOnceUnlessEvicted
  BY DEF Init, Settled, Burnt, Remembered, AtMostOnce, AdmittedOnceUnlessEvicted
<1> QED
  BY <1>1, <1>2 DEF ExecInv

\* A step of an origin, or of the clock: nothing of the target changes.
LEMMA OutsideInv ==
  ASSUME ExecInv,
         UNCHANGED <<nonces, authed, replay, boots, used, admitted, evicted>>,
         now' \in Nat, now' >= now, drift' = drift,
         tok' \in [Token -> Claims], env' \in [Envelope -> Sent],
         \A t \in Token : tok[t].minted => tok'[t] = tok[t],
         \A e \in Envelope : env[e].sent => env'[e] = env[e],
         \A e \in Envelope : env'[e].sent => tok'[env'[e].tok].minted
  PROVE  ExecInv'
<1>1. CacheTypes'
  BY DEF ExecInv, CacheTypes
<1>2. Settled'
  BY DEF ExecInv, Settled
<1>3. AtMostOnce' /\ AdmittedOnceUnlessEvicted'
  BY DEF ExecInv, AtMostOnce, AdmittedOnceUnlessEvicted
<1>4. Burnt'
  <2> SUFFICES ASSUME NEW t \in Token, used[t] > boots
               PROVE  now' >= tok'[t].exp \/ replay[t] >= tok'[t].exp
    BY DEF Burnt
  <2>1. used[t] \in Nat /\ boots \in Nat /\ tok[t].exp \in Int /\ now \in Nat
    BY DEF ExecInv, CacheTypes, Claims
  <2>2. tok'[t] = tok[t]
    BY <2>1 DEF ExecInv, Settled
  <2>3. now >= tok[t].exp \/ replay[t] >= tok[t].exp
    BY DEF ExecInv, Burnt
  <2> QED
    BY <2>1, <2>2, <2>3
<1>5. Remembered'
  <2> SUFFICES ASSUME NEW e \in Envelope, admitted[e] > evicted[e]
               PROVE  now' - env'[e].ts > Skew \/ Noted(e)'
    BY DEF Remembered
  <2>1. admitted[e] \in Nat /\ evicted[e] \in Nat /\ env[e] \in Sent /\ env[e].ts \in Int /\ now \in Nat
    BY DEF ExecInv, CacheTypes, Sent
  <2>2. env'[e] = env[e] /\ env[e].sent
    BY <2>1 DEF ExecInv, Settled
  <2>3. tok'[env[e].tok] = tok[env[e].tok]
    BY <2>1, <2>2 DEF ExecInv, Settled, Sent
  <2>4. now - env[e].ts > Skew \/ Noted(e)
    BY DEF ExecInv, Remembered
  <2>5. From(e)' = From(e)
    BY <2>2, <2>3 DEF From
  <2>6. Noted(e) => Noted(e)'
    BY <2>2, <2>5 DEF Noted
  <2>7. now - env[e].ts > Skew => now' - env'[e].ts > Skew
    BY <2>1, <2>2, ToolExecParams
  <2> QED
    BY <2>4, <2>6, <2>7
<1> QED
  BY <1>1, <1>2, <1>3, <1>4, <1>5 DEF ExecInv

\* Sweeping the replay cache drops only what expired.
LEMMA SweptKeeps ==
  ASSUME ExecInv
  PROVE  /\ Swept \in [Token -> Nat]
         /\ \A t \in Token : Swept[t] = replay[t] \/ now >= replay[t]
BY DEF ExecInv, CacheTypes, Swept

\* VerifyClaims accepts a token for no longer than the replay cache keeps it.
LEMMA ClaimsFit ==
  ASSUME ExecInv, NEW t \in Token, VerifyClaims(t)
  PROVE  tok[t].exp > now /\ now + ReplayTTL >= tok[t].exp
<1>1. tok[t].exp \in Int /\ tok[t].approved \in Int /\ now \in Nat
  BY DEF ExecInv, CacheTypes, Claims
<1> QED
  BY <1>1, WindowsFit, ToolExecParams DEF VerifyClaims

\* What handleExecute does, whichever way it ends: the caches that remember
\* envelopes stay, and a token is burnt only if nothing had burnt it before.
LEMMA HandledInv ==
  ASSUME ExecInv, NEW e \in Envelope, authed[e] > 0,
         UNCHANGED <<now, drift, tok, env, nonces, boots, admitted, evicted>>,
         authed' = [authed EXCEPT ![e] = @ - 1],
         \/ used' = used /\ (replay' = replay \/ replay' = Swept)
         \/ /\ VerifyClaims(env[e].tok) /\ ~ Replayed(env[e].tok)
            /\ replay' = [Swept EXCEPT ![env[e].tok] = now + ReplayTTL]
            /\ used' = [used EXCEPT ![env[e].tok] = @ + 1]
  PROVE  ExecInv'
<1> DEFINE t == env[e].tok
<1>1. /\ t \in Token /\ now \in Nat /\ boots \in Nat /\ replay \in [Token -> Nat]
      /\ used \in [Token -> Nat] /\ authed \in [Envelope -> Nat]
      /\ \A u \in Token : tok[u].exp \in Int
  BY DEF ExecInv, CacheTypes, Sent, Claims
<1>2. env[e].sent /\ tok[t].minted
  BY DEF ExecInv, Settled
<1>3. Swept \in [Token -> Nat] /\ \A u \in Token : Swept[u] = replay[u] \/ now >= replay[u]
  BY SweptKeeps
<1>4. \A u \in Token : used[u] > boots => now >= tok[u].exp \/ replay[u] >= tok[u].exp
  BY DEF ExecInv, Burnt
<1>5. \A u \in Token : used[u] <= 1 + boots
  BY DEF ExecInv, AtMostOnce
<1> HIDE DEF t
<1>6. \A u \in Token : used[u] > boots => now >= tok[u].exp \/ Swept[u] >= tok[u].exp
  <2> SUFFICES ASSUME NEW u \in Token, used[u] > boots
               PROVE  now >= tok[u].exp \/ Swept[u] >= tok[u].exp
    OBVIOUS
  <2>1. CASE Swept[u] = replay[u]
    BY <1>4, <2>1
  <2>2. CASE now >= replay[u]
    BY <1>1, <1>4, <2>2
  <2> QED
    BY <1>3, <2>1, <2>2
<1>7. /\ used' \in [Token -> Nat] /\ replay' \in [Token -> Nat] /\ AtMostOnce' /\ Burnt'
      /\ \A u \in Token : used'[u] > 0 => tok[u].minted
  <2>1. CASE used' = used /\ (replay' = replay \/ replay' = Swept)
    BY <1>1, <1>3, <1>4, <1>5, <1>6, <2>1 DEF AtMostOnce, Burnt, ExecInv, Settled
  <2>2. CASE /\ VerifyClaims(t) /\ ~ Replayed(t)
             /\ replay' = [Swept EXCEPT ![t] = now + ReplayTTL]
             /\ used' = [used EXCEPT ![t] = @ + 1]
    <3>1. tok[t].exp > now /\ now + ReplayTTL >= tok[t].exp /\ now + ReplayTTL \in Nat
      BY <1>1, <2>2, ClaimsFit, ToolExecParams
    <3>2. ~ (replay[t] >= tok[t].exp)
      BY <1>1, <2>2, <3>1 DEF Replayed
    <3>3. used[t] <= boots
      BY <1>1, <1>4, <3>1, <3>2
    <3>4. used' \in [Token -> Nat] /\ replay' \in [Token -> Nat]
      BY <1>1, <1>3, <2>2, <3>1
    <3>5. \A u \in Token : u # t => used'[u] = used[u] /\ replay'[u] = Swept[u]
      BY <1>1, <1>3, <2>2
    <3>6. used'[t] = used[t] + 1 /\ replay'[t] = now + ReplayTTL
      BY <1>1, <1>3, <2>2
    <3>7. AtMostOnce'
      BY <1>1, <1>5, <3>3, <3>5, <3>6 DEF AtMostOnce
    <3>8. Burnt'
      BY <1>1, <1>6, <3>1, <3>5, <3>6 DEF Burnt
    <3>9. \A u \in Token : used'[u] > 0 => tok[u].minted
      BY <1>2, <3>5 DEF ExecInv, Settled
    <3> QED
      BY <3>4, <3>7, <3>8, <3>9
  <2> QED
    BY <2>1, <2>2 DEF t
<1>8. authed' \in [Envelope -> Nat] /\ \A f \in Envelope : authed'[f] > 0 => env[f].sent
  BY <1>1, <1>2 DEF ExecInv, Settled
<1>9. CacheTypes' /\ Settled'
  BY <1>7, <1>8 DEF ExecInv, CacheTypes, Settled
<1>10. Remembered' /\ AdmittedOnceUnlessEvicted'
  BY DEF ExecInv, Remembered, Noted, From, AdmittedOnceUnlessEvicted
<1> QED
  BY <1>7, <1>9, <1>10 DEF ExecInv

-----------------------------------------------------------------------------
\* The sweep of the nonce cache drops only entries past their time to live.
LEMMA LiveKeeps ==
  ASSUME ExecInv, NEW o \in Origin
  PROVE  /\ LiveNonces(o) \in Seq(Entry)
         /\ \A k \in 1..Len(nonces[o]) :
              \/ now - nonces[o][k].added > NonceTTL
              \/ \E j \in 1..Len(LiveNonces(o)) : LiveNonces(o)[j] = nonces[o][k]
<1>1. nonces[o] \in Seq(Entry) /\ NonceTTL \in Int /\ now \in Nat
  BY ToolExecParams DEF ExecInv, CacheTypes
<1> QED
  BY <1>1, Sweep DEF LiveNonces

LEMMA FromType ==
  ASSUME ExecInv, NEW e \in Envelope PROVE From(e) \in Origin
BY DEF ExecInv, CacheTypes, Claims, Sent, From

\* A noted envelope that the sweep forgets is too old to be admitted again: the
\* time to live covers the window of timestamps on both sides.
LEMMA StaleOrKept ==
  ASSUME ExecInv, NEW f \in Envelope, Noted(f)
  PROVE  \/ now - env[f].ts > Skew
         \/ \E j \in 1..Len(LiveNonces(From(f))) :
              /\ LiveNonces(From(f))[j].id = f
              /\ env[f].ts <= LiveNonces(From(f))[j].added + Skew
<1>1. PICK k \in 1..Len(nonces[From(f)]) :
        nonces[From(f)][k].id = f /\ env[f].ts <= nonces[From(f)][k].added + Skew
  BY DEF Noted
<1>2. nonces[From(f)] \in Seq(Entry) /\ env[f].ts \in Int /\ now \in Nat
  BY FromType DEF ExecInv, CacheTypes, Sent
<1>3. nonces[From(f)][k] \in Entry
  BY <1>2
<1>4. nonces[From(f)][k].added \in Nat
  BY <1>3 DEF Entry
<1>5. CASE now - nonces[From(f)][k].added > NonceTTL
  BY <1>1, <1>2, <1>4, <1>5, WindowsFit, ToolExecParams, SMTT(30)
<1>6. CASE \E j \in 1..Len(LiveNonces(From(f))) : LiveNonces(From(f))[j] = nonces[From(f)][k]
  BY <1>1, <1>6
<1> QED
  BY <1>5, <1>6, FromType, LiveKeeps

LEMMA RejectInv ==
  ASSUME ExecInv, NEW e \in Envelope, RejectReplay(e)
  PROVE  ExecInv'
<1> DEFINE o == From(e)
<1>1. /\ nonces' = [nonces EXCEPT ![o] = LiveNonces(o)]
      /\ UNCHANGED <<now, drift, tok, env, authed, replay, boots, used, admitted, evicted>>
  BY DEF RejectReplay
<1>2. o \in Origin /\ LiveNonces(o) \in Seq(Entry) /\ nonces \in [Origin -> Seq(Entry)]
  BY FromType, LiveKeeps DEF ExecInv, CacheTypes
<1>3. nonces' \in [Origin -> Seq(Entry)]
  BY <1>1, <1>2
<1>4. CacheTypes' /\ Settled' /\ Burnt' /\ AtMostOnce' /\ AdmittedOnceUnlessEvicted'
  BY <1>1, <1>3
     DEF ExecInv, CacheTypes, Settled, Burnt, AtMostOnce, AdmittedOnceUnlessEvicted
<1>5. Remembered'
  <2> SUFFICES ASSUME NEW f \in Envelope, admitted[f] > evicted[f], ~ (now - env[f].ts > Skew)
               PROVE  Noted(f)'
    BY <1>1 DEF Remembered
  <2>1. Noted(f)
    BY DEF ExecInv, Remembered
  <2>2. From(f)' = From(f) /\ From(f) \in Origin
    BY <1>1, FromType DEF From
  <2>3. CASE From(f) = o
    <3>1. nonces'[From(f)] = LiveNonces(From(f))
      BY <1>1, <1>2, <2>3
    <3>2. PICK j \in 1..Len(LiveNonces(From(f))) :
            LiveNonces(From(f))[j].id = f /\ env[f].ts <= LiveNonces(From(f))[j].added + Skew
      BY <2>1, StaleOrKept
    <3> QED
      BY <1>1, <2>2, <3>1, <3>2 DEF Noted
  <2>4. CASE From(f) # o
    <3>1. nonces'[From(f)] = nonces[From(f)]
      BY <1>1, <1>2, <2>2, <2>4
    <3> QED
      BY <1>1, <2>1, <2>2, <3>1 DEF Noted
  <2> QED
    BY <2>3, <2>4
<1> QED
  BY <1>4, <1>5 DEF ExecInv

LEMMA AuthenticateInv ==
  ASSUME ExecInv, NEW e \in Envelope, Authenticate(e)
  PROVE  ExecInv'
<1> DEFINE o == From(e)
           L == LiveNonces(o)
           x == [id |-> e, added |-> now]
           kept == Append(L, x)
           over == Len(kept) > NonceCap
           list == IF over THEN Tail(kept) ELSE kept
<1>1. /\ env[e].sent /\ now - env[e].ts \in (-Skew)..Skew /\ ~ KnownNonce(o, e)
      /\ nonces' = [nonces EXCEPT ![o] = list]
      /\ evicted' = IF over THEN [evicted EXCEPT ![Head(kept).id] = @ + 1] ELSE evicted
      /\ admitted' = [admitted EXCEPT ![e] = @ + 1]
      /\ authed' = [authed EXCEPT ![e] = @ + 1]
      /\ UNCHANGED <<now, drift, tok, env, replay, boots, used>>
  BY DEF Authenticate, StoredNonces
<1>2. /\ o \in Origin /\ L \in Seq(Entry) /\ nonces \in [Origin -> Seq(Entry)]
      /\ now \in Nat /\ env[e].ts \in Int
      /\ admitted \in [Envelope -> Nat] /\ evicted \in [Envelope -> Nat] /\ authed \in [Envelope -> Nat]
  BY FromType, LiveKeeps DEF ExecInv, CacheTypes, Sent
<1> DEFINE late == now - env[e].ts
<1>18. ~ (now - env[e].ts > Skew) /\ env[e].ts <= now + Skew
  <2>1. Skew \in Nat
    BY ToolExecParams
  <2>2. late \in (-Skew)..Skew
    BY <1>1
  <2>3. late \in Int /\ now = late + env[e].ts
    BY <1>2
  <2> HIDE DEF late
  <2> QED
    BY <1>2, <2>1, <2>2, <2>3, SMTT(30)
<1>3. x \in Entry
  BY <1>2 DEF Entry
<1> HIDE DEF o, L, x
<1>4. /\ kept \in Seq(Entry) /\ Len(kept) = Len(L) + 1 /\ Len(L) \in Nat /\ kept # <<>>
      /\ \A j \in 1..Len(L) : kept[j] = L[j]
      /\ kept[Len(L) + 1] = x
  <2>1. Len(L) \in Nat
    BY <1>2
  <2>2. L \in Seq(Entry)
    BY <1>2
  <2>3. kept \in Seq(Entry) /\ Len(kept) = Len(L) + 1
    BY <1>3, <2>2
  <2>4. (\A j \in 1..Len(L) : kept[j] = L[j]) /\ kept[Len(L) + 1] = x
    BY <1>3, <2>2
  <2>5. kept # <<>>
    BY <1>3, <2>2, AppendProperties
  <2> QED
    BY <2>1, <2>3, <2>4, <2>5
<1>5. /\ Tail(kept) \in Seq(Entry) /\ Len(Tail(kept)) = Len(L) /\ Head(kept) = kept[1]
      /\ \A j \in 1..Len(L) : Tail(kept)[j] = kept[j + 1]
  <2> HIDE DEF kept
  <2>1. Head(kept) \in Entry /\ Tail(kept) \in Seq(Entry) /\ Len(Tail(kept)) = Len(kept) - 1
        /\ \A j \in 1..Len(Tail(kept)) : Tail(kept)[j] = kept[j + 1]
    BY <1>4, HeadTailProperties
  <2>2. Head(kept) = kept[1]
    BY <1>4
  <2> QED
    BY <1>4, <2>1, <2>2
<1>6. Head(kept).id \in Envelope
  <2>1. kept[1] \in Entry
    BY <1>4
  <2> QED
    BY <1>5, <2>1 DEF Entry
<1> HIDE DEF kept
<1>7. nonces' \in [Origin -> Seq(Entry)] /\ nonces'[o] = list
  BY <1>1, <1>2, <1>4, <1>5
<1>8. /\ admitted' \in [Envelope -> Nat] /\ authed' \in [Envelope -> Nat]
      /\ admitted'[e] = admitted[e] + 1
      /\ \A f \in Envelope : f # e => admitted'[f] = admitted[f] /\ authed'[f] = authed[f]
  <2>1. admitted' = [admitted EXCEPT ![e] = admitted[e] + 1] /\ authed' = [authed EXCEPT ![e] = authed[e] + 1]
    BY <1>1
  <2> QED
    BY <1>2, <2>1
<1>9. /\ evicted' \in [Envelope -> Nat]
      /\ \A f \in Envelope : evicted'[f] >= evicted[f]
      /\ over => evicted'[Head(kept).id] = evicted[Head(kept).id] + 1
  <2>1. CASE over
    <3>1. evicted' = [evicted EXCEPT ![Head(kept).id] = evicted[Head(kept).id] + 1]
      BY <1>1, <2>1
    <3> QED
      BY <1>2, <1>6, <3>1
  <2>2. CASE ~ over
    <3>1. evicted' = evicted
      BY <1>1, <2>2
    <3> QED
      BY <1>2, <2>2, <3>1
  <2> QED
    BY <2>1, <2>2
<1>10. CacheTypes'
  BY <1>1, <1>7, <1>8, <1>9 DEF ExecInv, CacheTypes
<1>11. Settled'
  BY <1>1, <1>8 DEF ExecInv, Settled
<1>12. Burnt' /\ AtMostOnce'
  BY <1>1 DEF ExecInv, Burnt, AtMostOnce
<1>13. \A f \in Envelope : admitted[f] <= 1 + evicted[f]
  BY DEF ExecInv, AdmittedOnceUnlessEvicted
\* What the sweep did not drop.
<1>14. ASSUME NEW f \in Envelope, From(f) = o, admitted[f] > evicted[f], ~ (now - env[f].ts > Skew)
       PROVE  \E j \in 1..Len(L) : L[j].id = f /\ env[f].ts <= L[j].added + Skew
  <2>1. Noted(f)
    BY <1>14 DEF ExecInv, Remembered
  <2> QED
    BY <1>14, <2>1, StaleOrKept DEF L
<1>15. admitted[e] <= evicted[e]
  <2> SUFFICES ASSUME admitted[e] > evicted[e] PROVE FALSE
    BY <1>2
  <2>2. PICK j \in 1..Len(L) : L[j].id = e
    BY <1>14, <1>18 DEF o
  <2> QED
    BY <1>1, <2>2 DEF KnownNonce, L
<1>16. AdmittedOnceUnlessEvicted'
  <2> SUFFICES ASSUME NEW f \in Envelope PROVE admitted'[f] <= 1 + evicted'[f]
    BY DEF AdmittedOnceUnlessEvicted
  <2>1. CASE f = e
    BY <1>2, <1>8, <1>9, <1>15, <2>1
  <2>2. CASE f # e
    BY <1>2, <1>8, <1>9, <1>13, <2>2, SMTT(30)
  <2> QED
    BY <2>1, <2>2
\* A nonce at position j of the list survives, or the cap pushes it out.
<1>17. ASSUME NEW f \in Envelope, NEW j \in 1..Len(kept), kept[j].id = f, admitted'[f] > evicted'[f]
       PROVE  \E k \in 1..Len(list) : list[k] = kept[j]
  <2>1. CASE ~ over
    BY <1>4, <2>1
  <2>2. CASE over /\ j > 1
    <3>1. j - 1 \in 1..Len(L) /\ Tail(kept)[j - 1] = kept[j]
      BY <1>4, <1>5, <2>2
    <3> QED
      BY <1>5, <2>2, <3>1
  <2>3. CASE over /\ j = 1
    <3>1. evicted'[f] = evicted[f] + 1
      BY <1>5, <1>9, <1>17, <2>3
    <3>2. admitted'[f] <= 1 + evicted[f]
      <4>1. CASE f = e
        BY <1>2, <1>8, <1>15, <4>1
      <4>2. CASE f # e
        BY <1>8, <1>13, <4>2
      <4> QED
        BY <4>1, <4>2
    <3> QED
      BY <1>2, <1>8, <1>9, <1>17, <3>1, <3>2, SMTT(30)
  <2> QED
    BY <1>4, <2>1, <2>2, <2>3
<1>19. Remembered'
  <2> SUFFICES ASSUME NEW f \in Envelope, admitted'[f] > evicted'[f], ~ (now - env[f].ts > Skew)
               PROVE  Noted(f)'
    BY <1>1 DEF Remembered
  <2>1. From(f)' = From(f) /\ From(f) \in Origin
    BY <1>1, FromType DEF From
  <2>2. CASE From(f) # o
    <3>1. f # e
      BY <2>2 DEF o
    <3>2. admitted[f] > evicted[f]
      BY <1>2, <1>8, <1>9, <3>1
    <3>3. Noted(f)
      BY <3>2 DEF ExecInv, Remembered
    <3>4. nonces'[From(f)] = nonces[From(f)]
      BY <1>1, <1>2, <2>1, <2>2
    <3> QED
      BY <1>1, <2>1, <3>3, <3>4 DEF Noted
  <2>3. CASE From(f) = o
    <3>1. \E j \in 1..Len(kept) : kept[j].id = f /\ env[f].ts <= kept[j].added + Skew
      <4>1. CASE f = e
        <5>1. x.id = e /\ env[e].ts <= x.added + Skew
          BY <1>18 DEF x
        <5> QED
          BY <1>4, <4>1, <5>1
      <4>2. CASE f # e
        <5>1. admitted[f] > evicted[f]
          BY <1>2, <1>8, <1>9, <4>2
        <5>2. PICK j \in 1..Len(L) : L[j].id = f /\ env[f].ts <= L[j].added + Skew
          BY <1>14, <2>3, <5>1
        <5> QED
          BY <1>4, <5>2
      <4> QED
        BY <4>1, <4>2
    <3>2. PICK j \in 1..Len(kept) : kept[j].id = f /\ env[f].ts <= kept[j].added + Skew
      BY <3>1
    <3>3. PICK k \in 1..Len(list) : list[k] = kept[j]
      BY <1>17, <3>2
    <3> HIDE DEF list
    <3> QED
      BY <1>1, <1>7, <2>1, <2>3, <3>2, <3>3 DEF Noted
  <2> QED
    BY <2>2, <2>3
<1> QED
  BY <1>10, <1>11, <1>12, <1>16, <1>19 DEF ExecInv

\* A restart forgets everything, and counts.
LEMMA RestartInv ==
  ASSUME ExecInv, Restart
  PROVE  ExecInv'
<1>1. /\ boots' = boots + 1 /\ boots \in Nat /\ used \in [Token -> Nat]
      /\ \A t \in Token : used[t] <= 1 + boots
  BY DEF ExecInv, CacheTypes, AtMostOnce, Restart
<1>2. \A t \in Token : used[t] <= boots' /\ ~ (used[t] > boots')
  BY <1>1
<1>3. nonces' \in [Origin -> Seq(Entry)]
  BY DEF Restart
<1>4. CacheTypes'
  BY <1>1, <1>3 DEF ExecInv, CacheTypes, Restart
<1>5. Settled'
  BY DEF ExecInv, Settled, Restart
<1>6. AtMostOnce' /\ Burnt'
  BY <1>1, <1>2 DEF AtMostOnce, Burnt, Restart
<1>7. AdmittedOnceUnlessEvicted' /\ Remembered'
  BY DEF AdmittedOnceUnlessEvicted, Remembered, Restart
<1> QED
  BY <1>4, <1>5, <1>6, <1>7 DEF ExecInv

LEMMA ExecNext ==
  ASSUME ExecInv, [Next]_vars
  PROVE  ExecInv'
<1>1. /\ now \in Nat /\ drift \in [Origin -> Int] /\ tok \in [Token -> Claims] /\ env \in [Envelope -> Sent]
      /\ \A e \in Envelope : env[e].sent => tok[env[e].tok].minted
  BY DEF ExecInv, CacheTypes, Settled
<1>2. CASE UNCHANGED vars
  BY <1>1, <1>2, OutsideInv DEF vars
<1>3. ASSUME NEW t \in Token, NEW o \in Origin, NEW l \in Lifetimes, Mint(t, o, l)
      PROVE  ExecInv'
  <2> DEFINE c == [minted |-> TRUE, origin |-> o, approved |-> now + drift[o], exp |-> now + drift[o] + l]
  <2>1. c \in Claims /\ c.minted
    BY <1>1, ToolExecParams DEF Claims
  <2>2. ~ tok[t].minted /\ tok' = [tok EXCEPT ![t] = c]
    BY <1>3 DEF Mint
  <2> HIDE DEF c
  <2>3. /\ tok' \in [Token -> Claims]
        /\ \A u \in Token : tok[u].minted => tok'[u] = tok[u] /\ tok'[u].minted
    BY <1>1, <2>1, <2>2
  <2>4. UNCHANGED <<now, drift, env, nonces, authed, replay, boots, used, admitted, evicted>>
    BY <1>3 DEF Mint
  <2>5. \A e \in Envelope : env[e].tok \in Token
    BY <1>1 DEF Sent
  <2>6. \A e \in Envelope : env'[e].sent => tok'[env'[e].tok].minted
    BY <1>1, <2>3, <2>4, <2>5
  <2> QED
    BY <1>1, <2>3, <2>4, <2>6, OutsideInv
<1>4. ASSUME NEW e \in Envelope, NEW t \in Token, Send(e, t)
      PROVE  ExecInv'
  <2> DEFINE m == [sent |-> TRUE, tok |-> t, ts |-> now + drift[tok[t].origin]]
  <2>1. m \in Sent /\ m.tok = t
    <3>1. tok[t].origin \in Origin
      BY <1>1 DEF Claims
    <3> QED
      BY <1>1, <3>1 DEF Sent
  <2>2. ~ env[e].sent /\ tok[t].minted /\ env' = [env EXCEPT ![e] = m]
    BY <1>4 DEF Send
  <2> HIDE DEF m
  <2>3. /\ env' \in [Envelope -> Sent] /\ env'[e] = m
        /\ \A f \in Envelope : f # e => env'[f] = env[f]
    BY <1>1, <2>1, <2>2
  <2>4. UNCHANGED <<now, drift, tok, nonces, authed, replay, boots, used, admitted, evicted>>
    BY <1>4 DEF Send
  <2>5. \A f \in Envelope : env[f].sent => env'[f] = env[f]
    BY <2>2, <2>3
  <2>6. \A f \in Envelope : env'[f].sent => tok'[env'[f].tok].minted
    BY <1>1, <2>1, <2>2, <2>3, <2>4
  <2> QED
    BY <1>1, <2>3, <2>4, <2>5, <2>6, OutsideInv
<1>5. CASE Tick
  <2>1. now' \in Nat /\ now' >= now
    BY <1>1, <1>5 DEF Tick
  <2>2. UNCHANGED <<drift, tok, env, nonces, authed, replay, boots, used, admitted, evicted>>
    BY <1>5 DEF Tick
  <2> QED
    BY <1>1, <2>1, <2>2, OutsideInv
<1>6. ASSUME NEW e \in Envelope, Execute(e) \/ RateLimited(e) PROVE ExecInv'
  BY <1>6, HandledInv DEF Execute, RateLimited
<1>7. ASSUME NEW e \in Envelope, Deny(e) PROVE ExecInv'
  <2>1. /\ authed[e] > 0 /\ authed' = [authed EXCEPT ![e] = @ - 1]
        /\ UNCHANGED <<now, drift, tok, env, nonces, boots, admitted, evicted>>
        /\ used' = used /\ (replay' = replay \/ replay' = Swept)
    BY <1>7 DEF Deny
  <2> QED
    BY <2>1, HandledInv
<1> QED
  BY <1>2, <1>3, <1>4, <1>5, <1>6, <1>7, RejectInv, AuthenticateInv, RestartInv DEF Next

-----------------------------------------------------------------------------
\* The inductive invariant of the two caches.
THEOREM ExecSafe == Spec => []ExecInv
<1>1. ExecInv /\ [Next]_vars => ExecInv'
  BY ExecNext
<1> QED
  BY <1>1, ExecInit, PTL DEF Spec

\* An approved call is started or burnt at most once per boot of the target
\* (ReplayCache.CheckAndStore, VerifyClaims): the replay cache may be full,
\* sweep or refuse, and the nonce cache may forget what it likes.
THEOREM CallsRunOnce == Spec => []AtMostOnce
<1>1. ExecInv => AtMostOnce
  BY DEF ExecInv
<1> QED
  BY <1>1, ExecSafe, PTL

\* authMiddleware admits an envelope again only after the cap pushed its nonce
\* out (NonceCache.CheckAndStore): no clock makes an expired entry matter.
THEOREM EnvelopesAdmittedOnce == Spec => []AdmittedOnceUnlessEvicted
<1>1. ExecInv => AdmittedOnceUnlessEvicted
  BY DEF ExecInv
<1> QED
  BY <1>1, ExecSafe, PTL

-----------------------------------------------------------------------------
(***************************************************************************)
(* The rate limit: the bucket of an origin is counted instead of what the  *)
(* origin started, which is right as far as the window reaches.            *)
(***************************************************************************)

\* How many entries of a bucket are after the cutoff, and how many tools the
\* limiter let an origin start after it.
Later(s, cutoff) == Cardinality({k \in 1..Len(s) : s[k] > cutoff})
StartsAt(o, cutoff) == {j \in 1..Len(started) : started[j][1] = o /\ started[j][2] > cutoff}

\* The bucket counts right from the beginning of the window on.
Counted ==
  \A o \in Origin, cutoff \in Int :
    cutoff >= now - Window => Later(bucket[o], cutoff) = Cardinality(StartsAt(o, cutoff))

RateInv ==
  /\ bucket \in [Origin -> Seq(Nat)] /\ started \in Seq(Origin \X Nat)
  /\ Counted /\ RateBounded

\* Numbering the members of a finite set of numbers by their size is a bijection.
LEMMA Ranking ==
  ASSUME NEW K \in SUBSET Nat, IsFiniteSet(K)
  PROVE  [k \in K |-> Cardinality({i \in K : i <= k})] \in Bijection(K, 1..Cardinality(K))
<1> DEFINE Below(k) == {i \in K : i <= k}
           r == [k \in K |-> Cardinality(Below(k))]
           n == Cardinality(K)
<1>1. n \in Nat
  BY FS_CardinalityType
<1>2. ASSUME NEW k \in K
      PROVE  IsFiniteSet(Below(k)) /\ Cardinality(Below(k)) \in 1..n
  <2>1. Below(k) \in SUBSET K /\ k \in Below(k)
    OBVIOUS
  <2> HIDE DEF Below
  <2>2. IsFiniteSet(Below(k)) /\ Cardinality(Below(k)) <= n
    BY <2>1, FS_Subset
  <2>3. Cardinality(Below(k)) \in Nat /\ Cardinality(Below(k)) # 0
    BY <2>1, <2>2, FS_CardinalityType, FS_EmptySet
  <2> QED
    BY <1>1, <2>2, <2>3
<1>3. ASSUME NEW k \in K, NEW l \in K, k < l
      PROVE  Cardinality(Below(k)) # Cardinality(Below(l))
  <2>1. Below(k) \in SUBSET Below(l) /\ l \in Below(l) /\ l \notin Below(k)
    <3>1. \A i \in K : i \in Nat
      OBVIOUS
    <3>2. \A i \in K : i <= k => i <= l
      BY <1>3, <3>1
    <3>3. l <= l /\ ~ (l <= k)
      BY <1>3, <3>1
    <3> QED
      BY <3>2, <3>3
  <2>2. IsFiniteSet(Below(l)) /\ Below(k) # Below(l)
    BY <1>2, <2>1
  <2> HIDE DEF Below
  <2> QED
    BY <2>1, <2>2, FS_Subset
<1> HIDE DEF n
<1>4. r \in [K -> 1..n]
  BY <1>2
<1>5. \A k, l \in K : r[k] = r[l] => k = l
  <2> SUFFICES ASSUME NEW k \in K, NEW l \in K, k # l PROVE Cardinality(Below(k)) # Cardinality(Below(l))
    BY <1>4
  <2>1. k < l \/ l < k
    OBVIOUS
  <2> HIDE DEF Below
  <2> QED
    BY <1>3, <2>1
<1>6. r \in Injection(K, 1..n)
  <2> HIDE DEF r
  <2> QED
    BY <1>4, <1>5 DEF Injection, IsInjective
<1>7. IsFiniteSet(1..n) /\ Cardinality(1..n) = Cardinality(K)
  <2>1. Cardinality(1..n) = IF 1 > n THEN 0 ELSE n - 1 + 1
    BY <1>1, FS_Interval
  <2>2. IsFiniteSet(1..n)
    BY <1>1, FS_Interval
  <2> QED
    BY <1>1, <2>1, <2>2 DEF n
<1> HIDE DEF r
<1>8. r \in Surjection(K, 1..n)
  BY <1>6, <1>7, FS_Injection
<1>9. r \in Bijection(K, 1..n)
  BY <1>6, <1>8 DEF Bijection
<1> QED
  BY <1>9 DEF r, n

\* What the limiter keeps: of the entries after its cutoff none is lost, and
\* none is counted twice.
LEMMA YoungerFacts ==
  ASSUME NEW s \in Seq(Nat), NEW cutoff \in Int
  PROVE  /\ Younger(s, cutoff) \in Seq(Nat)
         /\ Len(Younger(s, cutoff)) = Later(s, cutoff)
         /\ \A c \in Int : c >= cutoff => Later(Younger(s, cutoff), c) = Later(s, c)
<1> DEFINE kept == {k \in 1..Len(s) : s[k] > cutoff}
           n == Cardinality(kept)
           r == [k \in kept |-> Cardinality({i \in kept : i <= k})]
           h == [j \in 1..n |-> CHOOSE k \in kept : r[k] = j]
           y == [j \in 1..n |-> s[h[j]]]
<1>1. Len(s) \in Nat /\ DOMAIN s = 1..Len(s) /\ \A k \in 1..Len(s) : s[k] \in Nat
  OBVIOUS
<1>2. IsFiniteSet(kept) /\ kept \in SUBSET Nat /\ kept \in SUBSET (1..Len(s)) /\ n \in Nat
  <2>1. IsFiniteSet(1..Len(s)) /\ kept \in SUBSET (1..Len(s))
    BY <1>1, FS_Interval
  <2>2. kept \in SUBSET Nat
    BY <1>1
  <2> HIDE DEF kept
  <2> QED
    BY <2>1, <2>2, FS_Subset, FS_CardinalityType
<1>3. Younger(s, cutoff) = y
  <2>1. kept = {k \in DOMAIN s : s[k] > cutoff}
    BY <1>1
  <2>2. ASSUME NEW j \in 1..n
        PROVE  (CHOOSE k \in kept : Cardinality({i \in kept : i <= k}) = j) = (CHOOSE k \in kept : r[k] = j)
    <3> HIDE DEF kept
    <3>1. \A k \in kept : (Cardinality({i \in kept : i <= k}) = j) <=> (r[k] = j)
      OBVIOUS
    <3> QED
      BY <3>1, Zenon
  <2> HIDE DEF kept
  <2>3. Younger(s, cutoff) = [j \in 1..n |-> s[CHOOSE k \in kept : Cardinality({i \in kept : i <= k}) = j]]
    BY <2>1 DEF Younger
  <2> QED
    BY <2>2, <2>3
<1>4. r \in Bijection(kept, 1..n)
  <2> HIDE DEF kept
  <2> QED
    BY <1>2, Ranking
<1>5. /\ \A j \in 1..n : h[j] \in kept /\ r[h[j]] = j
      /\ \A k \in kept : r[k] \in 1..n /\ h[r[k]] = k
  <2> HIDE DEF kept, r
  <2>1. /\ \A k \in kept : r[k] \in 1..n
        /\ \A j \in 1..n : \E k \in kept : r[k] = j
        /\ \A k, l \in kept : r[k] = r[l] => k = l
    BY <1>4 DEF Bijection, Injection, Surjection, IsInjective
  <2>2. ASSUME NEW j \in 1..n PROVE h[j] \in kept /\ r[h[j]] = j
    <3>1. h[j] = CHOOSE k \in kept : r[k] = j
      OBVIOUS
    <3> HIDE DEF h
    <3> QED
      BY <2>1, <3>1
  <2> HIDE DEF h
  <2> QED
    BY <2>1, <2>2
<1> HIDE DEF h, r, n
<1>6. y \in Seq(Nat) /\ Len(y) = n /\ \A j \in 1..n : y[j] = s[h[j]]
  <2>1. \A j \in 1..n : s[h[j]] \in Nat
    BY <1>1, <1>5
  <2>2. y \in [1..n -> Nat]
    BY <2>1
  <2> QED
    BY <1>2, <2>2, IsASeq
<1> HIDE DEF y
<1>7. ASSUME NEW c \in Int, c >= cutoff PROVE Later(y, c) = Later(s, c)
  <2> DEFINE A == {j \in 1..Len(y) : y[j] > c}
             B == {k \in 1..Len(s) : s[k] > c}
             f == [j \in A |-> h[j]]
  <2>1. \A k \in B : k \in kept
    BY <1>1, <1>7
  <2>2. \A j \in A : f[j] \in B
    BY <1>1, <1>5, <1>6
  <2>3. \A i, j \in A : f[i] = f[j] => i = j
    BY <1>5, <1>6
  <2>4. ASSUME NEW k \in B PROVE \E j \in A : f[j] = k
    <3>1. r[k] \in 1..n /\ h[r[k]] = k
      BY <1>5, <2>1
    <3>2. r[k] \in A
      BY <1>6, <3>1
    <3> QED
      BY <3>1, <3>2
  <2>5. IsFiniteSet(A)
    <3>1. IsFiniteSet(1..n) /\ A \in SUBSET (1..n)
      BY <1>2, <1>6, FS_Interval
    <3> HIDE DEF A
    <3> QED
      BY <3>1, FS_Subset
  <2>6. f \in Bijection(A, B)
    <3> HIDE DEF A, B
    <3>1. f \in [A -> B]
      BY <2>2
    <3> HIDE DEF f
    <3> QED
      BY <2>3, <2>4, <3>1 DEF Bijection, Injection, Surjection, IsInjective
  <2>7. Cardinality(A) = Cardinality(B)
    <3> HIDE DEF A, B, f
    <3>1. ExistsBijection(A, B)
      BY <2>6 DEF ExistsBijection
    <3> QED
      BY <2>5, <3>1, FS_Bijection
  <2> QED
    BY <2>7 DEF Later
<1>8. n = Later(s, cutoff)
  BY DEF n, Later
<1> QED
  BY <1>3, <1>6, <1>7, <1>8

\* One more at the end.
LEMMA CountAppended ==
  ASSUME NEW n \in Nat, NEW A \in SUBSET (1..n)
  PROVE  /\ IsFiniteSet(A) /\ Cardinality(A) \in Nat
         /\ Cardinality(A \cup {n + 1}) = Cardinality(A) + 1
<1>1. IsFiniteSet(1..n)
  BY FS_Interval
<1>2. IsFiniteSet(A) /\ Cardinality(A) \in Nat
  BY <1>1, FS_Subset, FS_CardinalityType
<1>3. n + 1 \notin A
  OBVIOUS
<1> QED
  BY <1>2, <1>3, FS_AddElement

LEMMA LaterAppended ==
  ASSUME NEW s \in Seq(Nat), NEW t \in Nat, NEW c \in Int
  PROVE  /\ Append(s, t) \in Seq(Nat)
         /\ Later(Append(s, t), c) = IF t > c THEN Later(s, c) + 1 ELSE Later(s, c)
<1> DEFINE A == {k \in 1..Len(s) : s[k] > c}
           B == {k \in 1..Len(Append(s, t)) : Append(s, t)[k] > c}
<1>1. /\ Append(s, t) \in Seq(Nat) /\ Len(Append(s, t)) = Len(s) + 1 /\ Len(s) \in Nat
      /\ \A k \in 1..Len(s) : Append(s, t)[k] = s[k]
      /\ Append(s, t)[Len(s) + 1] = t
  BY AppendProperties
<1>2. A \in SUBSET (1..Len(s))
  OBVIOUS
<1>3. B = IF t > c THEN A \cup {Len(s) + 1} ELSE A
  BY <1>1
<1>4. Later(s, c) = Cardinality(A) /\ Later(Append(s, t), c) = Cardinality(B)
  BY DEF Later
<1> HIDE DEF A, B
<1>5. Cardinality(A \cup {Len(s) + 1}) = Cardinality(A) + 1
  BY <1>1, <1>2, CountAppended
<1> QED
  BY <1>1, <1>3, <1>4, <1>5

-----------------------------------------------------------------------------
LEMMA RateInit == Init => RateInv
<1> SUFFICES ASSUME Init PROVE RateInv
  OBVIOUS
<1>1. bucket = [o \in Origin |-> <<>>] /\ started = <<>>
  BY DEF Init
<1>2. <<>> \in Seq(Nat) /\ <<>> \in Seq(Origin \X Nat) /\ Len(<<>>) = 0 /\ 1..0 = {}
  OBVIOUS
<1>3. bucket \in [Origin -> Seq(Nat)] /\ started \in Seq(Origin \X Nat)
  BY <1>1, <1>2
<1>4. \A k \in 1..Len(started) : FALSE
  BY <1>1, <1>2
<1>5. RateBounded
  BY <1>4 DEF RateBounded
<1>6. ASSUME NEW o \in Origin, NEW c \in Int PROVE Later(bucket[o], c) = Cardinality(StartsAt(o, c))
  <2>1. StartsAt(o, c) = {}
    BY <1>4 DEF StartsAt
  <2>2. bucket[o] = <<>>
    BY <1>1
  <2>3. {k \in 1..Len(bucket[o]) : bucket[o][k] > c} = {}
    BY <1>2, <2>2
  <2> QED
    BY <2>1, <2>3 DEF Later
<1> QED
  BY <1>3, <1>5, <1>6 DEF RateInv, Counted

\* Nothing that leaves buckets and starts alone can hurt: the window only moves
\* on.
LEMMA RateQuiet ==
  ASSUME RateInv, now \in Nat, now' \in Nat, now' >= now, UNCHANGED <<bucket, started>>
  PROVE  RateInv'
<1>1. Window \in Nat
  BY ToolExecParams
<1>2. ASSUME NEW c \in Int, c >= now' - Window PROVE c >= now - Window
  <2>1. ASSUME NEW a \in Nat, NEW b \in Nat, b >= a, NEW w \in Nat, c >= b - w PROVE c >= a - w
    BY <2>1
  <2> QED
    BY <1>1, <1>2, <2>1
<1>3. ASSUME NEW o \in Origin, NEW c \in Int, c >= now' - Window
      PROVE  Later(bucket[o], c)' = Cardinality(StartsAt(o, c))'
  <2>1. Later(bucket[o], c) = Cardinality(StartsAt(o, c))
    BY <1>2, <1>3 DEF RateInv, Counted
  <2> QED
    BY <2>1 DEF Later, StartsAt
<1>5. Counted'
  BY <1>3 DEF Counted
<1>4. RateBounded'
  BY DEF RateInv, RateBounded
<1> QED
  BY <1>4, <1>5 DEF RateInv

\* 429: only entries that left the window go.
LEMMA RateSwept ==
  ASSUME RateInv, now \in Nat, NEW o \in Origin,
         now' = now, started' = started, bucket' = [bucket EXCEPT ![o] = InWindow(o)]
  PROVE  RateInv'
<1>1. Window \in Nat /\ now - Window \in Int
  BY ToolExecParams
<1>2. bucket \in [Origin -> Seq(Nat)] /\ bucket[o] \in Seq(Nat)
  BY DEF RateInv
<1>3. /\ InWindow(o) \in Seq(Nat)
      /\ \A c \in Int : c >= now - Window => Later(InWindow(o), c) = Later(bucket[o], c)
  BY <1>1, <1>2, YoungerFacts DEF InWindow
<1>4. bucket' \in [Origin -> Seq(Nat)]
  BY <1>2, <1>3
<1>5. ASSUME NEW p \in Origin, NEW c \in Int, c >= now - Window
      PROVE  Later(bucket'[p], c) = Cardinality(StartsAt(p, c))
  <2>1. Later(bucket[p], c) = Cardinality(StartsAt(p, c))
    BY <1>5 DEF RateInv, Counted
  <2>2. CASE p = o
    <3>1. bucket'[p] = InWindow(o)
      BY <1>2, <2>2
    <3> QED
      BY <1>3, <1>5, <2>1, <2>2, <3>1
  <2>3. CASE p # o
    <3>1. bucket'[p] = bucket[p]
      BY <1>2, <2>3
    <3> QED
      BY <2>1, <3>1
  <2> QED
    BY <2>2, <2>3
<1>6. Counted'
  <2>1. \A p, c : StartsAt(p, c)' = StartsAt(p, c)
    BY DEF StartsAt
  <2> QED
    BY <1>5, <2>1 DEF Counted, Later
<1>7. RateBounded' /\ started' \in Seq(Origin \X Nat)
  BY DEF RateInv, RateBounded
<1> QED
  BY <1>4, <1>6, <1>7 DEF RateInv

\* Allow: one more start, while fewer than Burst are in the window.
LEMMA RateAllowed ==
  ASSUME RateInv, now \in Nat, NEW o \in Origin, UnderLimit(o),
         now' = now, started' = Append(started, <<o, now>>),
         bucket' = [bucket EXCEPT ![o] = Append(InWindow(o), now)]
  PROVE  RateInv'
<1> DEFINE n == Len(started)
           edge == now - Window
<1>1. Window \in Nat /\ Burst \in Nat /\ edge \in Int
  BY ToolExecParams
<1>2. bucket \in [Origin -> Seq(Nat)] /\ bucket[o] \in Seq(Nat) /\ started \in Seq(Origin \X Nat)
  BY DEF RateInv
<1>3. /\ started' \in Seq(Origin \X Nat) /\ n \in Nat /\ Len(started') = n + 1
      /\ \A j \in 1..n : started'[j] = started[j]
      /\ started'[n + 1] = <<o, now>>
  <2>1. <<o, now>> \in Origin \X Nat
    OBVIOUS
  <2> QED
    BY <1>2, <2>1, AppendProperties
<1>4. /\ InWindow(o) \in Seq(Nat) /\ Len(InWindow(o)) = Later(bucket[o], edge)
      /\ \A c \in Int : c >= edge => Later(InWindow(o), c) = Later(bucket[o], c)
  BY <1>1, <1>2, YoungerFacts DEF InWindow
<1>5. Append(InWindow(o), now) \in Seq(Nat)
  BY <1>4
<1>6. bucket' \in [Origin -> Seq(Nat)]
  BY <1>2, <1>5
<1>7. ASSUME NEW p \in Origin, NEW c \in Int
      PROVE  StartsAt(p, c)' = IF p = o /\ now > c THEN StartsAt(p, c) \cup {n + 1} ELSE StartsAt(p, c)
  <2>1. StartsAt(p, c)' = {j \in 1..(n + 1) : started'[j][1] = p /\ started'[j][2] > c}
    BY <1>3 DEF StartsAt
  <2>2. StartsAt(p, c) = {j \in 1..n : started[j][1] = p /\ started[j][2] > c}
    BY DEF StartsAt
  <2>3. started'[n + 1][1] = o /\ started'[n + 1][2] = now
    BY <1>3
  <2>4. \A j \in 1..(n + 1) : j \in 1..n \/ j = n + 1
    BY <1>3
  <2>5. n + 1 \in 1..(n + 1) /\ n + 1 \notin 1..n /\ \A j \in 1..n : j \in 1..(n + 1)
    BY <1>3
  <2> HIDE DEF n
  <2> QED
    BY <1>3, <2>1, <2>2, <2>3, <2>4, <2>5
<1>8. ASSUME NEW p \in Origin, NEW c \in Int
      PROVE  /\ IsFiniteSet(StartsAt(p, c)) /\ Cardinality(StartsAt(p, c)) \in Nat
             /\ Cardinality(StartsAt(p, c) \cup {n + 1}) = Cardinality(StartsAt(p, c)) + 1
  <2>1. StartsAt(p, c) \in SUBSET (1..n) /\ n \in Nat
    BY <1>3 DEF StartsAt
  <2> HIDE DEF n
  <2> QED
    BY <2>1, CountAppended
<1> HIDE DEF n, edge
<1>9. ASSUME NEW p \in Origin, NEW c \in Int, c >= edge
      PROVE  Later(bucket'[p], c) = Cardinality(StartsAt(p, c)')
  <2>1. Later(bucket[p], c) = Cardinality(StartsAt(p, c))
    BY <1>9 DEF RateInv, Counted, edge
  <2>2. CASE p = o
    <3>1. bucket'[p] = Append(InWindow(o), now)
      BY <1>2, <2>2
    <3>2. Later(InWindow(o), c) = Cardinality(StartsAt(p, c))
      BY <1>4, <1>9, <2>1, <2>2
    <3>3. Later(bucket'[p], c) = IF now > c THEN Later(InWindow(o), c) + 1 ELSE Later(InWindow(o), c)
      <4>1. InWindow(o) \in Seq(Nat)
        BY <1>4
      <4>2. Later(Append(InWindow(o), now), c)
              = IF now > c THEN Later(InWindow(o), c) + 1 ELSE Later(InWindow(o), c)
        BY <4>1, LaterAppended
      <4> QED
        BY <3>1, <4>2, Zenon
    <3>4. StartsAt(p, c)' = IF p = o /\ now > c THEN StartsAt(p, c) \cup {n + 1} ELSE StartsAt(p, c)
      BY <1>7
    <3>5. CASE now > c
      <4>1. StartsAt(p, c)' = StartsAt(p, c) \cup {n + 1}
        BY <2>2, <3>4, <3>5
      <4>2. Cardinality(StartsAt(p, c) \cup {n + 1}) = Cardinality(StartsAt(p, c)) + 1
        BY <1>8
      <4> QED
        BY <3>2, <3>3, <3>5, <4>1, <4>2
    <3>6. CASE ~ (now > c)
      BY <3>2, <3>3, <3>4, <3>6
    <3> QED
      BY <3>5, <3>6
  <2>3. CASE p # o
    <3>1. bucket'[p] = bucket[p]
      BY <1>2, <2>3
    <3> QED
      BY <1>7, <2>1, <2>3, <3>1
  <2> QED
    BY <2>2, <2>3
<1>10. Counted'
  BY <1>9 DEF Counted, Later, edge
<1>11. RateBounded'
  <2> SUFFICES ASSUME NEW k \in 1..(n + 1)
               PROVE  Cardinality({j \in 1..k : /\ started'[j][1] = started'[k][1]
                                                /\ started'[j][2] > started'[k][2] - Window}) <= Burst
    BY <1>3 DEF RateBounded
  <2>1. CASE k \in 1..n
    <3>1. \A j \in 1..k : started'[j] = started[j]
      BY <1>3, <2>1
    <3>2. started'[k] = started[k]
      BY <1>3, <2>1
    <3>3. {j \in 1..k : /\ started'[j][1] = started'[k][1]
                        /\ started'[j][2] > started'[k][2] - Window}
          = {j \in 1..k : /\ started[j][1] = started[k][1]
                          /\ started[j][2] > started[k][2] - Window}
      BY <3>1, <3>2
    <3>4. Cardinality({j \in 1..k : /\ started[j][1] = started[k][1]
                                    /\ started[j][2] > started[k][2] - Window}) <= Burst
      BY <2>1 DEF RateInv, RateBounded, n
    <3> QED
      BY <3>3, <3>4
  <2>2. CASE k = n + 1
    <3>1. started'[k][1] = o /\ started'[k][2] = now
      BY <1>3, <2>2
    <3>2. ASSUME NEW c \in Int, c = edge
          PROVE  Cardinality(StartsAt(o, c)') <= Burst
      <4>1. Later(bucket[o], c) = Cardinality(StartsAt(o, c))
        <5>1. c >= now - Window
          BY <1>1, <3>2 DEF edge
        <5> QED
          BY <5>1 DEF RateInv, Counted
      <4>2. Cardinality(StartsAt(o, c)) < Burst
        BY <1>4, <3>2, <4>1 DEF UnderLimit
      <4>3. /\ Cardinality(StartsAt(o, c)) \in Nat
            /\ Cardinality(StartsAt(o, c) \cup {n + 1}) = Cardinality(StartsAt(o, c)) + 1
        BY <1>8
      <4>4. \/ Cardinality(StartsAt(o, c)') = Cardinality(StartsAt(o, c))
            \/ Cardinality(StartsAt(o, c)') = Cardinality(StartsAt(o, c) \cup {n + 1})
        <5>1. StartsAt(o, c)' = IF o = o /\ now > c THEN StartsAt(o, c) \cup {n + 1} ELSE StartsAt(o, c)
          BY <1>7
        <5> QED
          BY <5>1, Zenon
      <4> QED
        BY <1>1, <4>2, <4>3, <4>4
    <3>3. ASSUME NEW c \in Int, c = edge
          PROVE  {j \in 1..k : /\ started'[j][1] = started'[k][1]
                               /\ started'[j][2] > started'[k][2] - Window} = StartsAt(o, c)'
      BY <1>3, <2>2, <3>1, <3>3 DEF StartsAt, edge
    <3> QED
      BY <1>1, <3>2, <3>3
  <2> QED
    <3>1. k \in 1..n \/ k = n + 1
      BY <1>3
    <3> QED
      BY <2>1, <2>2, <3>1, Zenon
<1> QED
  BY <1>3, <1>6, <1>10, <1>11 DEF RateInv

LEMMA RateNext ==
  ASSUME ExecInv, RateInv, [Next]_vars
  PROVE  RateInv'
<1>1. /\ now \in Nat /\ tok \in [Token -> Claims] /\ env \in [Envelope -> Sent]
  BY DEF ExecInv, CacheTypes
<1>2. \A e \in Envelope : tok[env[e].tok].origin \in Origin
  BY <1>1 DEF Claims, Sent
<1>3. ASSUME now' \in {now, now + 1}, UNCHANGED <<bucket, started>> PROVE RateInv'
  <2>1. now' \in Nat /\ now' >= now
    BY <1>1, <1>3
  <2> QED
    BY <1>1, <1>3, <2>1, RateQuiet
<1>4. CASE UNCHANGED vars
  BY <1>3, <1>4 DEF vars
<1>5. ASSUME NEW t \in Token, NEW o \in Origin, NEW l \in Lifetimes, Mint(t, o, l) PROVE RateInv'
  BY <1>3, <1>5 DEF Mint
<1>6. ASSUME NEW e \in Envelope, NEW t \in Token, Send(e, t) PROVE RateInv'
  BY <1>3, <1>6 DEF Send
<1>7. ASSUME NEW e \in Envelope, Authenticate(e) PROVE RateInv'
  BY <1>3, <1>7 DEF Authenticate
<1>8. ASSUME NEW e \in Envelope, RejectReplay(e) PROVE RateInv'
  BY <1>3, <1>8 DEF RejectReplay
<1>9. ASSUME NEW e \in Envelope, Execute(e) PROVE RateInv'
  <2> DEFINE o == tok[env[e].tok].origin
  <2>1. /\ UnderLimit(o) /\ now' = now /\ started' = Append(started, <<o, now>>)
        /\ bucket' = [bucket EXCEPT ![o] = Append(InWindow(o), now)]
    BY <1>9 DEF Execute
  <2>2. o \in Origin
    BY <1>2
  <2> HIDE DEF o
  <2> QED
    BY <1>1, <2>1, <2>2, RateAllowed
<1>10. ASSUME NEW e \in Envelope, RateLimited(e) PROVE RateInv'
  <2> DEFINE o == tok[env[e].tok].origin
  <2>1. now' = now /\ started' = started /\ bucket' = [bucket EXCEPT ![o] = InWindow(o)]
    BY <1>10 DEF RateLimited
  <2>2. o \in Origin
    BY <1>2
  <2> HIDE DEF o
  <2> QED
    BY <1>1, <2>1, <2>2, RateSwept
<1>11. ASSUME NEW e \in Envelope, Deny(e) PROVE RateInv'
  BY <1>3, <1>11 DEF Deny
<1>12. CASE Tick
  BY <1>3, <1>12 DEF Tick
<1>13. CASE Restart
  <2>1. bucket' = [o \in Origin |-> <<>>] /\ started' = <<>> /\ now' = now
    BY <1>13 DEF Restart
  <2>2. <<>> \in Seq(Nat) /\ <<>> \in Seq(Origin \X Nat) /\ Len(<<>>) = 0 /\ 1..0 = {}
    OBVIOUS
  <2>3. bucket' \in [Origin -> Seq(Nat)] /\ started' \in Seq(Origin \X Nat)
    BY <2>1, <2>2
  <2>4. \A k \in 1..Len(started') : FALSE
    BY <2>1, <2>2
  <2>5. RateBounded'
    BY <2>4 DEF RateBounded
  <2>6. ASSUME NEW o \in Origin, NEW c \in Int PROVE Later(bucket'[o], c) = Cardinality(StartsAt(o, c)')
    <3>1. StartsAt(o, c)' = {}
      BY <2>4 DEF StartsAt
    <3>2. bucket'[o] = <<>>
      BY <2>1
    <3>3. {k \in 1..Len(bucket'[o]) : bucket'[o][k] > c} = {}
      BY <2>2, <3>2
    <3> QED
      BY <3>1, <3>3 DEF Later
  <2>7. Counted'
    BY <2>6 DEF Counted, Later
  <2> QED
    BY <2>3, <2>5, <2>7 DEF RateInv
<1> QED
  BY <1>4, <1>5, <1>6, <1>7, <1>8, <1>9, <1>10, <1>11, <1>12, <1>13 DEF Next

\* No origin starts more than Burst tools within one window, wherever the window
\* begins (RateLimiter.Allow): the entries the limiter drops and the refused
\* requests it does not record make no difference.
THEOREM RatesBounded == Spec => []RateBounded
<1>1. ExecInv /\ RateInv /\ [Next]_vars => RateInv'
  BY RateNext
<1>2. RateInv => RateBounded
  BY DEF RateInv
<1> QED
  BY <1>1, <1>2, RateInit, ExecSafe, PTL DEF Spec
=============================================================================
