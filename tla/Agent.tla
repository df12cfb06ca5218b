------------------------------- MODULE Agent --------------------------------
(***************************************************************************)
(* The agent loop inside the daemon (agent/loop.go, approvals.go,          *)
(* registry.go, tools.go, cmd agent_daemon.go) together with the two       *)
(* clients that answer its prompts: the terminal (`minti-cland agent`) and *)
(* the dashboard, which relays through `minti-cland agent --json` and      *)
(* `minti-cland agent-approve`.                                            *)
(*                                                                         *)
(* A chat alternates model calls with rounds of tool calls.  A call that   *)
(* may change the system shows a card to the user and waits for a decision *)
(* that arrives on another HTTP request, at any time: before the wait is   *)
(* registered, while it lasts, as its timer fires, or rounds later.        *)
(*                                                                         *)
(* Waits are numbered within a chat; card w and channel w belong to wait   *)
(* w.  The numbers are the model's, the code knows only call ids.          *)
(***************************************************************************)
EXTENDS Naturals, Sequences, FiniteSets

CONSTANTS
  Req,                 \* the chats
  Tool, readTools,     \* wire names, and the allowlist of those that only read
  MaxIters,            \* DefaultMaxIters
  MaxCalls,            \* bound: tool calls in one reply
  NoCall

ASSUME AgentSets == readTools \subseteq Tool
ASSUME AgentBounds == MaxIters \in Nat /\ MaxCalls \in Nat

Wait == 1..(MaxIters * MaxCalls)
Decision == {"approve", "deny"}

\* The runtime numbers the calls of each reply from 0 and makes "<name>_<i>"
\* of it: the ids of two rounds of one chat may be equal.
CallID == Tool \X (0..(MaxCalls - 1))

VARIABLES
  catalog,   \* catalogOnce, and the wire names the catalog offers
  pc,        \* where handleChat and Loop.Run of a chat are
  readOnly,  \* the chat has no approver
  iter,      \* model calls made
  todo,      \* call ids of the current reply not handled yet
  waits,     \* number of cards shown so far
  card,      \* card[r][w]: the call id on card w
  decided,   \* decided[r][w]: what the user answered on it
  post,      \* post[r][w]: where the POST /agent/approve of card w is
  pending,   \* ChannelApprover.pending: call id to its channel, 0 = none
  box,       \* box[r][w]: what channel w holds
  gone,      \* the client disconnected: the request's context is cancelled
  ran        \* ran[r]: waits whose change tool was started

vars == <<catalog, pc, readOnly, iter, todo, waits, card, decided, post, pending,
          box, gone, ran>>

\* "held": Resolve found a channel and has not yet sent to it.
PostState == {"none", "sent", "held", "acked", "refused"}
Stage == {"idle", "model", "calls", "prompted", "awaiting", "running", "ended", "rejected"}

AgentTypeOK ==
  /\ catalog \in [state : {"unbuilt", "failed", "built"}, offered : SUBSET Tool]
  /\ pc \in [Req -> Stage] /\ readOnly \in [Req -> BOOLEAN]
  /\ iter \in [Req -> 0..MaxIters]
  /\ todo \in [Req -> Seq(CallID)]
  /\ waits \in [Req -> Nat]
  /\ card \in [Req -> [Wait -> CallID \cup {NoCall}]]
  /\ decided \in [Req -> [Wait -> Decision \cup {"none"}]]
  /\ post \in [Req -> [Wait -> [state : PostState, ch : Nat]]]
  /\ pending \in [Req -> [CallID -> Nat]]
  /\ box \in [Req -> [Wait -> Decision \cup {"empty"}]]
  /\ gone \in [Req -> BOOLEAN]
  /\ ran \in [Req -> SUBSET Wait]

Init ==
  /\ catalog = [state |-> "unbuilt", offered |-> {}]
  /\ pc = [r \in Req |-> "idle"] /\ readOnly \in [Req -> BOOLEAN]
  /\ iter = [r \in Req |-> 0] /\ todo = [r \in Req |-> <<>>]
  /\ waits = [r \in Req |-> 0]
  /\ card = [r \in Req |-> [w \in Wait |-> NoCall]]
  /\ decided = [r \in Req |-> [w \in Wait |-> "none"]]
  /\ post = [r \in Req |-> [w \in Wait |-> [state |-> "none", ch |-> 0]]]
  /\ pending = [r \in Req |-> [i \in CallID |-> 0]]
  /\ box = [r \in Req |-> [w \in Wait |-> "empty"]]
  /\ gone = [r \in Req |-> FALSE]
  /\ ran = [r \in Req |-> {}]

Active(r) == pc[r] \notin {"idle", "ended", "rejected"}

-----------------------------------------------------------------------------
\* Classify: what is not on the allowlist changes the system.
Classify(tool) == IF tool \in readTools THEN "read" ELSE "change"

\* BuildCatalog, once per daemon: namespaces that do not answer are skipped, a
\* name offered by two servers fails the catalog for good.
BuildCatalog ==
  {[state |-> "failed", offered |-> {}]} \cup [state : {"built"}, offered : SUBSET Tool]

\* handleChat up to Loop.Run.
handleChat(r) ==
  /\ pc[r] = "idle"
  /\ \/ catalog.state = "unbuilt" /\ catalog' \in BuildCatalog
     \/ catalog.state # "unbuilt" /\ UNCHANGED catalog
  /\ pc' = [pc EXCEPT ![r] = IF catalog'.state = "failed" THEN "rejected" ELSE "model"]
  /\ UNCHANGED <<readOnly, iter, todo, waits, card, decided, post, pending, box, gone, ran>>

\* One model call fails or brings the final answer.  The caller ignores the
\* request's context: a chat whose client left goes on asking.
ModelEnds(r) ==
  /\ pc[r] = "model" /\ iter[r] < MaxIters
  /\ iter' = [iter EXCEPT ![r] = @ + 1]
  /\ pc' = [pc EXCEPT ![r] = "ended"]
  /\ UNCHANGED <<catalog, readOnly, todo, waits, card, decided, post, pending, box, gone, ran>>

\* fromOllamaToolCalls gives the ids; anthropicCaller.Call passes them on.
Ids(names) == [k \in 1..Len(names) |-> <<names[k], k - 1>>]

ModelAsks(r, names) ==
  /\ pc[r] = "model" /\ iter[r] < MaxIters
  /\ iter' = [iter EXCEPT ![r] = @ + 1]
  /\ todo' = [todo EXCEPT ![r] = Ids(names)]
  /\ pc' = [pc EXCEPT ![r] = "calls"]
  /\ UNCHANGED <<catalog, readOnly, waits, card, decided, post, pending, box, gone, ran>>

\* The cap: an error event and the end of the chat.
IterationCap(r) ==
  /\ pc[r] = "model" /\ iter[r] = MaxIters
  /\ pc' = [pc EXCEPT ![r] = "ended"]
  /\ UNCHANGED <<catalog, readOnly, iter, todo, waits, card, decided, post, pending, box, gone, ran>>

-----------------------------------------------------------------------------
\* runToolCall, in the order of its checks.
Call(r) == Head(todo[r])
Offered(r) == Call(r)[1] \in catalog.offered

RoundOver(r) ==
  /\ pc[r] = "calls" /\ todo[r] = <<>>
  /\ pc' = [pc EXCEPT ![r] = "model"]
  /\ UNCHANGED <<catalog, readOnly, iter, todo, waits, card, decided, post, pending, box, gone, ran>>

\* An unknown tool, or a change without an approver: an error result.
Refuse(r) ==
  /\ pc[r] = "calls" /\ todo[r] # <<>>
  /\ ~ Offered(r) \/ (Classify(Call(r)[1]) = "change" /\ readOnly[r])
  /\ todo' = [todo EXCEPT ![r] = Tail(@)]
  /\ UNCHANGED <<catalog, pc, readOnly, iter, waits, card, decided, post, pending, box, gone, ran>>

\* A read tool runs at once, with or without success.
RunRead(r) ==
  /\ pc[r] = "calls" /\ todo[r] # <<>>
  /\ Offered(r) /\ Classify(Call(r)[1]) = "read"
  /\ todo' = [todo EXCEPT ![r] = Tail(@)]
  /\ UNCHANGED <<catalog, pc, readOnly, iter, waits, card, decided, post, pending, box, gone, ran>>

\* (faulty) runToolCall without the read-only test.
PromptAnyway(r) ==
  /\ pc[r] = "calls" /\ todo[r] # <<>>
  /\ Offered(r) /\ Classify(Call(r)[1]) = "change"
  /\ waits' = [waits EXCEPT ![r] = @ + 1]
  /\ card' = [card EXCEPT ![r][waits'[r]] = Call(r)]
  /\ pc' = [pc EXCEPT ![r] = "prompted"]
  /\ UNCHANGED <<catalog, readOnly, iter, todo, decided, post, pending, box, gone, ran>>

\* approval_required goes out: the client shows the card.  The wait is not
\* registered yet.
Prompt(r) ==
  /\ pc[r] = "calls" /\ todo[r] # <<>>
  /\ Offered(r) /\ Classify(Call(r)[1]) = "change" /\ ~ readOnly[r]
  /\ waits' = [waits EXCEPT ![r] = @ + 1]
  /\ card' = [card EXCEPT ![r][waits'[r]] = Call(r)]
  /\ pc' = [pc EXCEPT ![r] = "prompted"]
  /\ UNCHANGED <<catalog, readOnly, iter, todo, decided, post, pending, box, gone, ran>>

\* Await registers a fresh channel under the call id.
Register(r) ==
  /\ pc[r] = "prompted"
  /\ pending' = [pending EXCEPT ![r][Call(r)] = waits[r]]
  /\ box' = [box EXCEPT ![r][waits[r]] = "empty"]
  /\ pc' = [pc EXCEPT ![r] = "awaiting"]
  /\ UNCHANGED <<catalog, readOnly, iter, todo, waits, card, decided, post, gone, ran>>

\* The entry goes when Await returns.
Unregistered(r) == [pending EXCEPT ![r][Call(r)] = 0]

\* Await: the channel's decision; approve leads to Execute.
Decide(r) ==
  /\ pc[r] = "awaiting" /\ box[r][waits[r]] # "empty"
  /\ pending' = Unregistered(r)
  /\ IF box[r][waits[r]] = "approve"
       THEN pc' = [pc EXCEPT ![r] = "running"] /\ UNCHANGED todo
       ELSE pc' = [pc EXCEPT ![r] = "calls"] /\ todo' = [todo EXCEPT ![r] = Tail(@)]
  /\ UNCHANGED <<catalog, readOnly, iter, waits, card, decided, post, box, gone, ran>>

\* (faulty) a timeout that counts as an approval.
ExpireFailsOpen(r) ==
  /\ pc[r] = "awaiting"
  /\ pending' = Unregistered(r)
  /\ pc' = [pc EXCEPT ![r] = "running"]
  /\ UNCHANGED <<catalog, readOnly, iter, todo, waits, card, decided, post, box, gone, ran>>

\* (faulty) Await without its timer.
ExpireWhenGone(r) ==
  /\ pc[r] = "awaiting" /\ gone[r]
  /\ pending' = Unregistered(r)
  /\ pc' = [pc EXCEPT ![r] = "calls"]
  /\ todo' = [todo EXCEPT ![r] = Tail(@)]
  /\ UNCHANGED <<catalog, readOnly, iter, waits, card, decided, post, box, gone, ran>>

\* Await: the timer or the cancelled context; either may win over a decision
\* that is already in the channel.
Expire(r) ==
  /\ pc[r] = "awaiting"
  /\ pending' = Unregistered(r)
  /\ pc' = [pc EXCEPT ![r] = "calls"]
  /\ todo' = [todo EXCEPT ![r] = Tail(@)]
  /\ UNCHANGED <<catalog, readOnly, iter, waits, card, decided, post, box, gone, ran>>

\* (faulty) execution under a context of its own.
ExecuteDetached(r) ==
  /\ pc[r] = "running"
  /\ ran' = [ran EXCEPT ![r] = @ \cup {waits[r]}]
  /\ pc' = [pc EXCEPT ![r] = "calls"]
  /\ todo' = [todo EXCEPT ![r] = Tail(@)]
  /\ UNCHANGED <<catalog, readOnly, iter, waits, card, decided, post, pending, box, gone>>

\* Executor.Execute: no server is spawned for a cancelled context; otherwise
\* the tool starts, unless its arguments do not parse or the spawn fails.
Execute(r) ==
  /\ pc[r] = "running"
  /\ \/ ~ gone[r] /\ ran' = [ran EXCEPT ![r] = @ \cup {waits[r]}]
     \/ UNCHANGED ran
  /\ pc' = [pc EXCEPT ![r] = "calls"]
  /\ todo' = [todo EXCEPT ![r] = Tail(@)]
  /\ UNCHANGED <<catalog, readOnly, iter, waits, card, decided, post, pending, box, gone>>

-----------------------------------------------------------------------------
\* The user answers a card, once: the buttons are disabled, the terminal reads
\* one line.  The answer may be given long after the card was shown.
Answer(r, w, d) ==
  /\ w <= waits[r] /\ decided[r][w] = "none"
  /\ decided' = [decided EXCEPT ![r][w] = d]
  /\ post' = [post EXCEPT ![r][w].state = "sent"]
  /\ UNCHANGED <<catalog, pc, readOnly, iter, todo, waits, card, pending, box, gone, ran>>

\* handleApprove: 404 without the chat's approver, 409 without a wait for the
\* call id; otherwise Resolve holds the channel it found.
handleApprove(r, w) ==
  LET ch == pending[r][card[r][w]]
      found == Active(r) /\ ch # 0
  IN /\ post[r][w].state = "sent"
     /\ post' = [post EXCEPT ![r][w] = IF found THEN [state |-> "held", ch |-> ch]
                                                 ELSE [state |-> "refused", ch |-> 0]]
     /\ UNCHANGED <<catalog, pc, readOnly, iter, todo, waits, card, decided, pending, box,
                    gone, ran>>

\* Resolve's send: the first writer wins, and the answer is ok either way, also
\* when the wait is over by now.
Resolve(r, w) ==
  LET ch == post[r][w].ch
  IN /\ post[r][w].state = "held"
     /\ box' = [box EXCEPT ![r][ch] = IF @ = "empty" THEN decided[r][w] ELSE @]
     /\ post' = [post EXCEPT ![r][w].state = "acked"]
     /\ UNCHANGED <<catalog, pc, readOnly, iter, todo, waits, card, decided, pending, gone, ran>>

\* The client goes away (a closed tab kills the relaying CLI).
Disconnect(r) ==
  /\ Active(r) /\ ~ gone[r]
  /\ gone' = [gone EXCEPT ![r] = TRUE]
  /\ UNCHANGED <<catalog, pc, readOnly, iter, todo, waits, card, decided, post, pending, box, ran>>

-----------------------------------------------------------------------------
Replies == UNION {[1..n -> Tool] : n \in 1..MaxCalls}

LoopStep(r) ==
  \/ ModelEnds(r) \/ (\E names \in Replies : ModelAsks(r, names)) \/ IterationCap(r)
  \/ RoundOver(r) \/ Refuse(r) \/ RunRead(r) \/ Prompt(r) \/ Register(r)
  \/ Decide(r) \/ Expire(r) \/ Execute(r)

UserStep(r) ==
  \/ \E w \in Wait, d \in Decision : Answer(r, w, d)
  \/ \E w \in Wait : handleApprove(r, w) \/ Resolve(r, w)
  \/ Disconnect(r)

Next == \E r \in Req : handleChat(r) \/ LoopStep(r) \/ UserStep(r)

Spec == Init /\ [][Next]_vars

\* A loop that can take a step takes one: model calls have a timeout of thirty
\* minutes, tools one of five, waits one of two.
FairSpec == Spec /\ \A r \in Req : WF_vars(LoopStep(r))

-----------------------------------------------------------------------------
\* Every change tool that ran was let through by an answer "approve" of the
\* user to a card with that call id, and no answer lets two calls through:
\* the answer is the one that went into that call's channel.
RanOnOwnApproval ==
  \A r \in Req : \A w \in ran[r] : \E a \in Wait :
    /\ decided[r][a] = "approve" /\ post[r][a].ch = w
    /\ card[r][a] = card[r][w]

\* A read-only chat changes nothing, whatever the model asks and whatever is
\* posted to /agent/approve.
ReadOnlyChangesNothing == \A r \in Req : readOnly[r] => ran[r] = {}

\* A chat whose client is gone starts no change tool any more, though its loop
\* and answers under way go on.
GoneChangesNothing == [][\A r \in Req : gone[r] => ran'[r] = ran[r]]_vars

\* Every chat comes to an end, also if nobody ever answers a card.
ChatEnds == \A r \in Req : Active(r) ~> ~ Active(r)

\* What approvals.go says of call ids ("unique per request") would give more:
\* the call that runs is the one on the card the user approved.
RanAsSeen == \A r \in Req : \A w \in ran[r] : decided[r][w] = "approve"
=============================================================================
