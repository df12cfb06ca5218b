---------------------------- MODULE AgentProofs -----------------------------
(***************************************************************************)
(* Proofs about Agent for any number of chats and tools and any caps on    *)
(* rounds and calls: what a chat changed was approved on a card of the     *)
(* same call id, and a read-only or abandoned chat changes nothing.        *)
(***************************************************************************)
EXTENDS Agent, TLAPS

\* runToolCall handles the head of the reply until it has a result.
InCall(r) == pc[r] \in {"prompted", "awaiting", "running"}

\* The cards that i rounds can show.
Room(i) == i * MaxCalls

\* The cards shown and the calls still to handle fit the caps of Loop.Run: this
\* is what makes every wait a member of Wait.
CallBudget ==
  \A r \in Req :
    /\ InCall(r) => todo[r] # <<>> /\ waits[r] + Len(todo[r]) <= Room(iter[r]) + 1
    /\ ~ InCall(r) => waits[r] + Len(todo[r]) <= Room(iter[r])
    /\ pc[r] \in {"idle", "model"} => todo[r] = <<>>

\* The call under way is the one on the last card.
CurrentCard ==
  \A r \in Req : InCall(r) => waits[r] \in Wait /\ card[r][waits[r]] = Call(r) /\ ~ readOnly[r]

\* A card that was shown has a call id, and only such cards are answered.
ShownCards ==
  \A r \in Req : \A w \in Wait :
    /\ w <= waits[r] => card[r][w] \in CallID
    /\ decided[r][w] # "none" => w <= waits[r]
    /\ post[r][w].state # "none" => decided[r][w] # "none"

\* The channel registered under a call id is that of a card with this id.
PendingOwnCard ==
  \A r \in Req : \A i \in CallID :
    pending[r][i] # 0 => /\ pending[r][i] \in Wait /\ pending[r][i] <= waits[r]
                         /\ card[r][pending[r][i]] = i

\* A post that Resolve found a channel for holds one of its own call id, and
\* any other post holds none.
PostOwnCard ==
  \A r \in Req : \A w \in Wait :
    IF post[r][w].state \in {"held", "acked"}
      THEN /\ post[r][w].ch \in Wait /\ post[r][w].ch <= waits[r]
           /\ card[r][post[r][w].ch] = card[r][w]
      ELSE post[r][w].ch = 0

\* The user approved, on a card with the call id of w, with the one post that
\* went to w's channel.
Approved(r, w) ==
  \E a \in Wait : decided[r][a] = "approve" /\ post[r][a].ch = w /\ card[r][a] = card[r][w]

\* A channel holds "approve" only if the user approved.
BoxApproved == \A r \in Req : \A w \in Wait : box[r][w] = "approve" => Approved(r, w)

\* Execute is reached with the approval of the call in hand.
RunningApproved == \A r \in Req : pc[r] = "running" => Approved(r, waits[r])

CallInv == AgentTypeOK /\ CallBudget /\ CurrentCard /\ ShownCards
ApprovalInv ==
  /\ PendingOwnCard /\ PostOwnCard /\ BoxApproved /\ RunningApproved
  /\ RanOnOwnApproval

-----------------------------------------------------------------------------
\* A reply of the model is a sequence of at most MaxCalls calls, each with an id.
LEMMA RepliesFit ==
  ASSUME NEW names \in Replies
  PROVE  Ids(names) \in Seq(CallID) /\ Len(Ids(names)) <= MaxCalls
<1>1. PICK n \in 1..MaxCalls : names \in [1..n -> Tool]
  BY DEF Replies
<1>2. n \in Nat /\ MaxCalls \in Nat /\ n <= MaxCalls
  BY AgentBounds
<1>3. names \in Seq(Tool) /\ Len(names) = n
  BY <1>1, <1>2
<1>4. Ids(names) = [k \in 1..n |-> <<names[k], k - 1>>]
  BY <1>3 DEF Ids
<1>5. \A k \in 1..n : <<names[k], k - 1>> \in CallID
  BY <1>1, <1>2 DEF CallID
<1>6. Ids(names) \in [1..n -> CallID]
  BY <1>4, <1>5
<1> QED
  BY <1>2, <1>6

\* One more model call opens room for MaxCalls more cards; the rounds made never
\* open more than the caps allow.
LEMMA Budget ==
  ASSUME NEW i \in 0..MaxIters
  PROVE  /\ Room(i) \in Nat /\ Room(i + 1) = Room(i) + MaxCalls
         /\ Room(i) <= Room(MaxIters) /\ Wait = 1..Room(MaxIters) /\ Room(MaxIters) \in Nat
<1>1. MaxIters \in Nat /\ MaxCalls \in Nat /\ i \in Nat /\ i <= MaxIters
  BY AgentBounds
<1>2. PICK d \in Nat : MaxIters = i + d
  BY <1>1
<1>3. /\ i * MaxCalls \in Nat /\ d * MaxCalls \in Nat
      /\ (i + d) * MaxCalls = i * MaxCalls + d * MaxCalls
  BY <1>1
<1> QED
  BY <1>1, <1>2, <1>3 DEF Room, Wait

LEMMA CallInit == Init => CallInv
<1> SUFFICES ASSUME Init PROVE CallInv
  OBVIOUS
<1>1. AgentTypeOK
  BY AgentBounds DEF Init, AgentTypeOK, PostState, Stage, Decision
<1>2. CallBudget
  BY AgentBounds, Budget DEF Init, CallBudget, InCall
<1>3. CurrentCard
  BY DEF Init, CurrentCard, InCall
<1>4. ShownCards
  BY AgentBounds DEF Init, ShownCards, Wait
<1> QED
  BY <1>1, <1>2, <1>3, <1>4 DEF CallInv

\* Every step keeps the types, the budget of cards and the current card.
LEMMA CallStep == CallInv /\ [Next]_vars => CallInv'
<1> SUFFICES ASSUME CallInv, [Next]_vars PROVE CallInv'
  OBVIOUS
<1> USE AgentBounds
<1>0. AgentTypeOK /\ CallBudget /\ CurrentCard /\ ShownCards
  BY DEF CallInv
<1>s. ASSUME UNCHANGED <<waits, card, decided, post>> PROVE ShownCards'
  BY <1>0, <1>s DEF ShownCards
<1>w. \A r \in Req : waits[r] <= Room(MaxIters) /\ Room(iter[r]) \in Nat
  <2> TAKE r \in Req
  <2>1. iter[r] \in 0..MaxIters /\ waits[r] \in Nat /\ todo[r] \in Seq(CallID)
    BY <1>0 DEF AgentTypeOK
  <2>2. Len(todo[r]) \in Nat /\ (InCall(r) => Len(todo[r]) >= 1)
    BY <2>1, <1>0 DEF CallBudget
  <2>3. Room(iter[r]) \in Nat /\ Room(MaxIters) \in Nat /\ Room(iter[r]) <= Room(MaxIters)
    BY <2>1, Budget
  <2>4. \/ InCall(r) /\ waits[r] + Len(todo[r]) <= Room(iter[r]) + 1
        \/ ~ InCall(r) /\ waits[r] + Len(todo[r]) <= Room(iter[r])
    BY <1>0 DEF CallBudget
  <2> QED
    BY <2>1, <2>2, <2>3, <2>4
<1>1. ASSUME NEW r \in Req, handleChat(r) PROVE CallInv'
  <2>1. catalog' \in [state : {"unbuilt", "failed", "built"}, offered : SUBSET Tool]
    BY <1>0, <1>1 DEF handleChat, BuildCatalog, AgentTypeOK
  <2>2. pc' \in [Req -> Stage] /\ \A s \in Req : pc'[s] = pc[s] \/ pc'[s] \in {"rejected", "model"}
    BY <1>0, <1>1 DEF handleChat, AgentTypeOK, Stage
  <2>3. AgentTypeOK'
    BY <1>0, <1>1, <2>1, <2>2 DEF handleChat, AgentTypeOK
  <2>4. CallBudget'
    <3>1. ASSUME NEW s \in Req
          PROVE  \/ pc'[s] = pc[s]
                 \/ pc[s] = "idle" /\ pc'[s] \in {"rejected", "model"}
      BY <1>0, <1>1, <2>2 DEF handleChat, AgentTypeOK
    <3> QED
      BY <1>0, <1>1, <3>1 DEF handleChat, CallBudget, InCall
  <2>5. CurrentCard'
    BY <1>0, <1>1, <2>2 DEF handleChat, CurrentCard, InCall, Call
  <2> QED
    BY <1>1, <1>s, <2>3, <2>4, <2>5 DEF handleChat, CallInv
<1>2. ASSUME NEW r \in Req, ModelEnds(r) PROVE CallInv'
  <2>1. iter[r] \in 0..MaxIters /\ iter[r] + 1 \in 0..MaxIters
    BY <1>0, <1>2 DEF ModelEnds, AgentTypeOK
  <2>2. Room(iter[r] + 1) = Room(iter[r]) + MaxCalls /\ Room(iter[r]) \in Nat
    BY <2>1, Budget
  <2>3. AgentTypeOK'
    BY <1>0, <1>2, <2>1 DEF ModelEnds, AgentTypeOK, Stage
  <2>4. CallBudget'
    <3> SUFFICES ASSUME NEW s \in Req
                 PROVE  /\ InCall(s)' => /\ todo'[s] # <<>>
                                         /\ waits'[s] + Len(todo'[s]) <= Room(iter'[s]) + 1
                        /\ ~ InCall(s)' => waits'[s] + Len(todo'[s]) <= Room(iter'[s])
                        /\ pc'[s] \in {"idle", "model"} => todo'[s] = <<>>
      BY DEF CallBudget
    <3>1. CASE s = r
      BY <1>0, <1>2, <2>2, <3>1 DEF ModelEnds, AgentTypeOK, CallBudget, InCall
    <3>2. CASE s # r
      BY <1>0, <1>2, <3>2 DEF ModelEnds, AgentTypeOK, CallBudget, InCall
    <3> QED
      BY <3>1, <3>2
  <2>5. CurrentCard'
    BY <1>0, <1>2 DEF ModelEnds, AgentTypeOK, CurrentCard, InCall, Call
  <2> QED
    BY <1>2, <1>s, <2>3, <2>4, <2>5 DEF ModelEnds, CallInv
<1>3. ASSUME NEW r \in Req, NEW names \in Replies, ModelAsks(r, names) PROVE CallInv'
  <2>1. iter[r] \in 0..MaxIters /\ iter[r] + 1 \in 0..MaxIters
    BY <1>0, <1>3 DEF ModelAsks, AgentTypeOK
  <2>2. Room(iter[r] + 1) = Room(iter[r]) + MaxCalls /\ Room(iter[r]) \in Nat
    BY <2>1, Budget
  <2>a. Ids(names) \in Seq(CallID) /\ Len(Ids(names)) <= MaxCalls
    BY RepliesFit
  <2>3. AgentTypeOK'
    BY <1>0, <1>3, <2>1, <2>a DEF ModelAsks, AgentTypeOK, Stage
  <2>4. CallBudget'
    <3> SUFFICES ASSUME NEW s \in Req
                 PROVE  /\ InCall(s)' => /\ todo'[s] # <<>>
                                         /\ waits'[s] + Len(todo'[s]) <= Room(iter'[s]) + 1
                        /\ ~ InCall(s)' => waits'[s] + Len(todo'[s]) <= Room(iter'[s])
                        /\ pc'[s] \in {"idle", "model"} => todo'[s] = <<>>
      BY DEF CallBudget
    <3>1. CASE s = r
      <4>1. /\ pc'[r] = "calls" /\ todo'[r] = Ids(names) /\ waits'[r] = waits[r]
            /\ iter'[r] = iter[r] + 1 /\ pc[r] = "model"
        BY <1>0, <1>3 DEF ModelAsks, AgentTypeOK
      <4>2. waits[r] \in Nat /\ waits[r] <= Room(iter[r])
        BY <4>1, <1>0, <2>2 DEF AgentTypeOK, CallBudget, InCall
      <4>3. Len(Ids(names)) \in Nat
        BY <2>a
      <4> QED
        BY <3>1, <4>1, <4>2, <4>3, <2>2, <2>a DEF InCall
    <3>2. CASE s # r
      BY <1>0, <1>3, <3>2 DEF ModelAsks, AgentTypeOK, CallBudget, InCall
    <3> QED
      BY <3>1, <3>2
  <2>5. CurrentCard'
    BY <1>0, <1>3 DEF ModelAsks, AgentTypeOK, CurrentCard, InCall, Call
  <2> QED
    BY <1>3, <1>s, <2>3, <2>4, <2>5 DEF ModelAsks, CallInv
<1>4. ASSUME NEW r \in Req, IterationCap(r) PROVE CallInv'
  BY <1>0, <1>4, <1>s DEF IterationCap, AgentTypeOK, CallBudget, CurrentCard, CallInv, InCall, Call, Stage
<1>5. ASSUME NEW r \in Req, RoundOver(r) PROVE CallInv'
  BY <1>0, <1>5, <1>s DEF RoundOver, AgentTypeOK, CallBudget, CurrentCard, CallInv, InCall, Call, Stage
\* The head of the reply is done: one call less, no call under way.
<1>t. ASSUME NEW r \in Req, pc[r] = "calls" \/ InCall(r), todo[r] # <<>>,
             todo' = [todo EXCEPT ![r] = Tail(@)], pc' = [pc EXCEPT ![r] = "calls"],
             UNCHANGED <<readOnly, iter, waits, card>>
      PROVE  todo' \in [Req -> Seq(CallID)] /\ CallBudget' /\ CurrentCard'
  <2>1. todo[r] \in Seq(CallID) /\ todo \in [Req -> Seq(CallID)] /\ pc \in [Req -> Stage]
    BY <1>0 DEF AgentTypeOK
  <2>2. Tail(todo[r]) \in Seq(CallID) /\ Len(Tail(todo[r])) = Len(todo[r]) - 1
    BY <2>1, <1>t
  <2>3. CallBudget'
    <3> SUFFICES ASSUME NEW s \in Req
                 PROVE  /\ InCall(s)' => /\ todo'[s] # <<>>
                                         /\ waits'[s] + Len(todo'[s]) <= Room(iter'[s]) + 1
                        /\ ~ InCall(s)' => waits'[s] + Len(todo'[s]) <= Room(iter'[s])
                        /\ pc'[s] \in {"idle", "model"} => todo'[s] = <<>>
      BY DEF CallBudget
    <3>1. CASE s = r
      <4>1. /\ pc'[r] = "calls" /\ todo'[r] = Tail(todo[r]) /\ waits'[r] = waits[r]
            /\ iter'[r] = iter[r]
        BY <1>t, <2>1
      <4>2. waits[r] \in Nat /\ Room(iter[r]) \in Nat /\ Len(todo[r]) \in Nat
        BY <1>0, <1>w, <2>1 DEF AgentTypeOK
      <4>3. waits[r] + Len(todo[r]) <= Room(iter[r]) + 1
        BY <1>0, <4>2 DEF CallBudget
      <4> QED
        BY <3>1, <4>1, <4>2, <4>3, <2>2 DEF InCall
    <3>2. CASE s # r
      BY <1>0, <1>t, <3>2, <2>1 DEF CallBudget, InCall
    <3> QED
      BY <3>1, <3>2
  <2> QED
    BY <1>0, <1>t, <2>1, <2>2, <2>3 DEF CurrentCard, InCall, Call
<1>6. ASSUME NEW r \in Req, Refuse(r) \/ RunRead(r) PROVE CallInv'
  <2>1. pc' = [pc EXCEPT ![r] = "calls"]
    BY <1>0, <1>6 DEF Refuse, RunRead, AgentTypeOK
  <2>2. todo' \in [Req -> Seq(CallID)] /\ CallBudget' /\ CurrentCard'
    BY <1>6, <2>1, <1>t DEF Refuse, RunRead
  <2> QED
    BY <1>0, <1>6, <1>s, <2>2 DEF Refuse, RunRead, AgentTypeOK, CallInv
<1>7. ASSUME NEW r \in Req, Prompt(r) PROVE CallInv'
  <2>1. /\ todo[r] \in Seq(CallID) /\ todo[r] # <<>> /\ waits[r] \in Nat
        /\ iter[r] \in 0..MaxIters /\ pc[r] = "calls"
    BY <1>0, <1>7 DEF Prompt, AgentTypeOK
  <2>2. Len(todo[r]) \in Nat /\ Len(todo[r]) >= 1 /\ Call(r) \in CallID
    BY <2>1 DEF Call
  <2>3. waits[r] + Len(todo[r]) <= Room(iter[r])
    BY <1>0, <1>w, <2>1, <2>2 DEF CallBudget, InCall
  <2>4. waits[r] + 1 \in Wait
    <3>1. /\ Room(iter[r]) \in Nat /\ Room(MaxIters) \in Nat
          /\ Room(iter[r]) <= Room(MaxIters) /\ Wait = 1..Room(MaxIters)
      BY <2>1, Budget
    <3> QED
      BY <2>1, <2>2, <2>3, <3>1
  <2>5. /\ waits'[r] = waits[r] + 1 /\ pc'[r] = "prompted"
        /\ card' = [card EXCEPT ![r][waits[r] + 1] = Call(r)]
        /\ \A s \in Req : s # r => waits'[s] = waits[s] /\ pc'[s] = pc[s] /\ card'[s] = card[s]
        /\ UNCHANGED <<todo, iter, readOnly>> /\ ~ readOnly[r]
    BY <1>0, <1>7 DEF Prompt, AgentTypeOK
  <2>6. AgentTypeOK'
    BY <1>0, <1>7, <2>2, <2>4, <2>5 DEF Prompt, AgentTypeOK, Stage
  <2>7. CallBudget'
    <3> SUFFICES ASSUME NEW s \in Req
                 PROVE  /\ InCall(s)' => /\ todo'[s] # <<>>
                                         /\ waits'[s] + Len(todo'[s]) <= Room(iter'[s]) + 1
                        /\ ~ InCall(s)' => waits'[s] + Len(todo'[s]) <= Room(iter'[s])
                        /\ pc'[s] \in {"idle", "model"} => todo'[s] = <<>>
      BY DEF CallBudget
    <3>1. CASE s = r
      BY <1>w, <2>1, <2>2, <2>3, <2>5, <3>1 DEF InCall
    <3>2. CASE s # r
      BY <1>0, <2>5, <3>2 DEF CallBudget, InCall
    <3> QED
      BY <3>1, <3>2
  <2>8. CurrentCard'
    <3>1. card'[r][waits[r] + 1] = Call(r)
      BY <1>0, <2>4, <2>5 DEF AgentTypeOK
    <3> QED
      BY <1>0, <2>4, <2>5, <3>1 DEF CurrentCard, InCall, Call
  <2>9. ShownCards'
    <3> SUFFICES ASSUME NEW s \in Req, NEW w \in Wait
                 PROVE  /\ w <= waits'[s] => card'[s][w] \in CallID
                        /\ decided[s][w] # "none" => w <= waits'[s]
                        /\ post[s][w].state # "none" => decided[s][w] # "none"
      BY <1>7 DEF Prompt, ShownCards
    <3>1. CASE s # r
      BY <1>0, <2>5, <3>1 DEF ShownCards
    <3>2. CASE s = r
      <4>1. card'[r][w] = IF w = waits[r] + 1 THEN Call(r) ELSE card[r][w]
        BY <1>0, <2>4, <2>5 DEF AgentTypeOK
      <4>2. w \in Nat
        BY Budget DEF Wait
      <4> QED
        BY <1>0, <2>1, <2>2, <2>5, <3>2, <4>1, <4>2 DEF ShownCards
    <3> QED
      BY <3>1, <3>2
  <2> QED
    BY <2>6, <2>7, <2>8, <2>9 DEF CallInv
<1>8. ASSUME NEW r \in Req, Register(r) PROVE CallInv'
  <2>1. waits[r] \in Wait /\ todo[r] # <<>> /\ todo[r] \in Seq(CallID)
    BY <1>0, <1>8 DEF Register, CurrentCard, CallBudget, InCall, AgentTypeOK
  <2>2. Call(r) \in CallID
    BY <2>1 DEF Call
  <2>3. AgentTypeOK'
    BY <1>0, <1>8, <2>1, <2>2 DEF Register, AgentTypeOK, Stage, Wait
  <2> QED
    BY <1>0, <1>8, <1>s, <2>3 DEF Register, AgentTypeOK, CallBudget, CurrentCard, CallInv, InCall, Call
<1>9. ASSUME NEW r \in Req, Decide(r) \/ Expire(r) PROVE CallInv'
  <2>1. waits[r] \in Wait /\ todo[r] # <<>> /\ todo[r] \in Seq(CallID) /\ InCall(r)
    BY <1>0, <1>9 DEF Decide, Expire, CurrentCard, CallBudget, InCall, AgentTypeOK
  <2>2. Call(r) \in CallID
    BY <2>1 DEF Call
  <2>3. pending' \in [Req -> [CallID -> Nat]]
    BY <1>0, <1>9, <2>2, SMTT(30) DEF Decide, Expire, Unregistered, AgentTypeOK
  <2>4. CASE pc' = [pc EXCEPT ![r] = "running"] /\ UNCHANGED todo
    BY <1>0, <1>9, <1>s, <2>3, <2>4 DEF Decide, Expire, AgentTypeOK, CallBudget, CurrentCard, CallInv, InCall, Call, Stage
  <2>5. CASE pc' = [pc EXCEPT ![r] = "calls"] /\ todo' = [todo EXCEPT ![r] = Tail(@)]
    <3>1. UNCHANGED <<catalog, readOnly, iter, waits, card, decided, post, box, gone, ran>>
      BY <1>9 DEF Decide, Expire
    <3>2. todo' \in [Req -> Seq(CallID)] /\ CallBudget' /\ CurrentCard'
      BY <2>1, <2>5, <3>1, <1>t
    <3> QED
      BY <1>0, <1>s, <2>3, <2>5, <3>1, <3>2 DEF AgentTypeOK, CallInv, Stage
  <2> QED
    BY <1>9, <2>4, <2>5 DEF Decide, Expire
<1>10. ASSUME NEW r \in Req, Execute(r) PROVE CallInv'
  <2>1. waits[r] \in Wait /\ todo[r] # <<>> /\ InCall(r)
    BY <1>0, <1>10 DEF Execute, CurrentCard, CallBudget, InCall
  <2>2. todo' \in [Req -> Seq(CallID)] /\ CallBudget' /\ CurrentCard'
    BY <2>1, <1>10, <1>t DEF Execute
  <2>3. ran' \in [Req -> SUBSET Wait]
    <3>1. ran \in [Req -> SUBSET Wait] /\ ran[r] \cup {waits[r]} \in SUBSET Wait
      BY <1>0, <2>1 DEF AgentTypeOK
    <3> QED
      BY <1>10, <3>1 DEF Execute
  <2> QED
    BY <1>0, <1>10, <1>s, <2>2, <2>3 DEF Execute, AgentTypeOK, CallInv, Stage
<1>11. ASSUME NEW r \in Req, UserStep(r) PROVE CallInv'
  <2>1. UNCHANGED <<catalog, pc, readOnly, iter, todo, waits, card, pending, ran>>
    BY <1>11 DEF UserStep, Answer, handleApprove, Resolve, Disconnect
  <2>2. ASSUME NEW w \in Wait, NEW d \in Decision, Answer(r, w, d)
        PROVE  AgentTypeOK' /\ ShownCards'
    <3>1. /\ post \in [Req -> [Wait -> [state : PostState, ch : Nat]]]
          /\ [post[r][w] EXCEPT !.state = "sent"] \in [state : PostState, ch : Nat]
          /\ [post[r][w] EXCEPT !.state = "sent"].state = "sent"
      <4>1. /\ post \in [Req -> [Wait -> [state : PostState, ch : Nat]]]
            /\ post[r][w] \in [state : PostState, ch : Nat]
        BY <1>0 DEF AgentTypeOK
      <4> QED
        BY <4>1 DEF PostState
    <3>2. post' = [post EXCEPT ![r][w] = [post[r][w] EXCEPT !.state = "sent"]]
      BY <2>2 DEF Answer
    <3>3. AgentTypeOK'
      BY <1>0, <2>2, <3>1, <3>2 DEF Answer, AgentTypeOK
    <3>4. ShownCards'
      <4>1. \A s \in Req : \A v \in Wait :
              \/ s = r /\ v = w /\ decided'[s][v] = d /\ v <= waits[s]
              \/ decided'[s][v] = decided[s][v] /\ post'[s][v] = post[s][v]
        BY <1>0, <2>2, <3>1, <3>2 DEF Answer, AgentTypeOK
      <4>2. d # "none" /\ UNCHANGED <<waits, card>>
        BY <2>1 DEF Decision
      <4>3. ASSUME NEW s \in Req, NEW v \in Wait
            PROVE  /\ v <= waits'[s] => card'[s][v] \in CallID
                   /\ decided'[s][v] # "none" => v <= waits'[s]
                   /\ post'[s][v].state # "none" => decided'[s][v] # "none"
        BY <1>0, <4>1, <4>2 DEF ShownCards
      <4> QED
        BY <4>3 DEF ShownCards
    <3> QED
      BY <3>3, <3>4
  <2>3. ASSUME NEW w \in Wait, handleApprove(r, w) PROVE AgentTypeOK' /\ ShownCards'
    <3>1. card[r][w] \in CallID /\ w <= waits[r]
      BY <1>0, <2>3 DEF handleApprove, ShownCards
    <3>2. pending[r][card[r][w]] \in Nat
      BY <1>0, <3>1 DEF AgentTypeOK
    <3>3. PICK e \in [state : PostState, ch : Nat] : post' = [post EXCEPT ![r][w] = e]
      <4>1. /\ [state |-> "held", ch |-> pending[r][card[r][w]]] \in [state : PostState, ch : Nat]
            /\ [state |-> "refused", ch |-> 0] \in [state : PostState, ch : Nat]
        BY <3>2 DEF PostState
      <4> QED
        BY <2>3, <4>1 DEF handleApprove
    <3>4. AgentTypeOK'
      BY <1>0, <2>3, <3>3, SMTT(30) DEF handleApprove, AgentTypeOK
    <3>5. ShownCards'
      BY <1>0, <2>3, <3>1, <3>3 DEF handleApprove, AgentTypeOK, ShownCards
    <3> QED
      BY <3>4, <3>5
  <2>4. ASSUME NEW w \in Wait, Resolve(r, w) PROVE AgentTypeOK' /\ ShownCards'
    <3>1. /\ post \in [Req -> [Wait -> [state : PostState, ch : Nat]]]
          /\ [post[r][w] EXCEPT !.state = "acked"] \in [state : PostState, ch : Nat]
          /\ [post[r][w] EXCEPT !.state = "acked"].state = "acked"
      <4>1. /\ post \in [Req -> [Wait -> [state : PostState, ch : Nat]]]
            /\ post[r][w] \in [state : PostState, ch : Nat]
        BY <1>0 DEF AgentTypeOK
      <4> QED
        BY <4>1 DEF PostState
    <3>2. post' = [post EXCEPT ![r][w] = [post[r][w] EXCEPT !.state = "acked"]]
      BY <2>4 DEF Resolve
    <3>3. decided[r][w] \in Decision
      BY <1>0, <2>4 DEF AgentTypeOK, Resolve, ShownCards
    <3>4. box' \in [Req -> [Wait -> Decision \cup {"empty"}]]
      <4> DEFINE f == [box[r] EXCEPT ![post[r][w].ch] = IF @ = "empty" THEN decided[r][w] ELSE @]
      <4>1. box \in [Req -> [Wait -> Decision \cup {"empty"}]] /\ box' = [box EXCEPT ![r] = f]
        BY <1>0, <2>4 DEF Resolve, AgentTypeOK
      <4>2. f \in [Wait -> Decision \cup {"empty"}]
        BY <3>3, <4>1
      <4> QED
        BY <4>1, <4>2
    <3>5. AgentTypeOK'
      BY <1>0, <2>4, <3>1, <3>2, <3>4 DEF Resolve, AgentTypeOK
    <3>6. ShownCards'
      BY <1>0, <2>4, <3>1, <3>2 DEF Resolve, AgentTypeOK, ShownCards
    <3> QED
      BY <3>5, <3>6
  <2>5. ASSUME Disconnect(r) PROVE AgentTypeOK' /\ ShownCards'
    BY <1>0, <2>5, <1>s DEF Disconnect, AgentTypeOK
  <2>6. AgentTypeOK' /\ ShownCards'
    BY <1>11, <2>2, <2>3, <2>4, <2>5 DEF UserStep
  <2> QED
    BY <1>0, <2>1, <2>6 DEF CallBudget, CurrentCard, CallInv, InCall, Call
<1>12. CASE UNCHANGED vars
  BY <1>0, <1>12, <1>s DEF vars, AgentTypeOK, CallBudget, CurrentCard, CallInv, InCall, Call
<1> QED
  BY <1>1, <1>2, <1>3, <1>4, <1>5, <1>6, <1>7, <1>8, <1>9, <1>10, <1>11, <1>12
     DEF Next, LoopStep

-----------------------------------------------------------------------------
\* RanOnOwnApproval, said with Approved.
LEMMA RanApproved == RanOnOwnApproval <=> \A r \in Req : \A w \in ran[r] : Approved(r, w)
BY DEF RanOnOwnApproval, Approved

\* An approval stays one as long as the answered posts keep their channels and
\* the cards shown their call ids.
LEMMA ApprovedKept ==
  ASSUME CallInv, PostOwnCard, NEW r \in Req, NEW w \in Wait, Approved(r, w),
         \A a \in Wait : post[r][a].ch # 0 => post'[r][a].ch = post[r][a].ch,
         \A a \in Wait : decided[r][a] = "approve" => decided'[r][a] = "approve",
         \A a \in Wait : a <= waits[r] => card'[r][a] = card[r][a]
  PROVE  Approved(r, w)'
<1>1. PICK a \in Wait : decided[r][a] = "approve" /\ post[r][a].ch = w /\ card[r][a] = card[r][w]
  BY DEF Approved
<1>2. w # 0 /\ a <= waits[r]
  BY <1>1, AgentBounds DEF CallInv, ShownCards, Wait
<1>3. w <= waits[r]
  BY <1>1, <1>2 DEF PostOwnCard
<1>4. decided'[r][a] = "approve" /\ post'[r][a].ch = w /\ card'[r][a] = card'[r][w]
  BY <1>1, <1>2, <1>3
<1> QED
  BY <1>4 DEF Approved

\* The part of every step that leaves the approver's state alone.
LEMMA ApprovalIdle ==
  ASSUME CallInv, ApprovalInv, UNCHANGED <<waits, card, decided, post, pending, box, ran>>,
         \A r \in Req : pc'[r] = "running" => pc[r] = "running"
  PROVE  ApprovalInv'
BY DEF ApprovalInv, PendingOwnCard, PostOwnCard, BoxApproved, RunningApproved,
       RanOnOwnApproval, Approved

LEMMA ApprovalInit == Init => ApprovalInv
BY AgentBounds
   DEF Init, ApprovalInv, PendingOwnCard, PostOwnCard, BoxApproved, RunningApproved,
       RanOnOwnApproval

\* Every step of a chat and of its user keeps the chain from a tool that ran
\* over the channel and the post back to the user's answer.
LEMMA ApprovalStep == CallInv /\ CallInv' /\ ApprovalInv /\ [Next]_vars => ApprovalInv'
<1> SUFFICES ASSUME CallInv, CallInv', ApprovalInv, [Next]_vars PROVE ApprovalInv'
  OBVIOUS
<1>0. /\ AgentTypeOK /\ CallBudget /\ CurrentCard /\ ShownCards
      /\ PendingOwnCard /\ PostOwnCard /\ BoxApproved /\ RunningApproved
      /\ \A r \in Req : \A w \in ran[r] : Approved(r, w)
  BY RanApproved DEF CallInv, ApprovalInv
<1>w. /\ 0 \notin Wait /\ Wait \subseteq Nat
      /\ \A r \in Req : ran[r] \subseteq Wait
  BY <1>0, AgentBounds DEF Wait, AgentTypeOK
\* The step changes only what belongs to chat r and keeps r's approvals.
<1>k. ASSUME NEW r \in Req,
             \A s \in Req : s # r => /\ waits'[s] = waits[s] /\ card'[s] = card[s]
                                     /\ decided'[s] = decided[s] /\ post'[s] = post[s]
                                     /\ pending'[s] = pending[s] /\ box'[s] = box[s]
                                     /\ ran'[s] = ran[s] /\ pc'[s] = pc[s],
             \A i \in CallID : pending'[r][i] # 0 =>
               /\ pending'[r][i] \in Wait /\ pending'[r][i] <= waits'[r]
               /\ card'[r][pending'[r][i]] = i,
             \A w \in Wait :
               IF post'[r][w].state \in {"held", "acked"}
                 THEN /\ post'[r][w].ch \in Wait /\ post'[r][w].ch <= waits'[r]
                      /\ card'[r][post'[r][w].ch] = card'[r][w]
                 ELSE post'[r][w].ch = 0,
             \A w \in Wait : box'[r][w] = "approve" => Approved(r, w)',
             pc'[r] = "running" => Approved(r, waits[r])',
             \A w \in ran'[r] : Approved(r, w)'
      PROVE  ApprovalInv'
  <2>1. \A s \in Req : s # r => \A w : Approved(s, w) => Approved(s, w)'
    BY <1>k DEF Approved
  <2>2. PendingOwnCard'
    BY <1>0, <1>k DEF PendingOwnCard
  <2>3. PostOwnCard'
    BY <1>0, <1>k DEF PostOwnCard
  <2>4. BoxApproved'
    BY <1>0, <1>k, <2>1 DEF BoxApproved
  <2>5. RunningApproved'
    BY <1>0, <1>k, <2>1 DEF RunningApproved, Approved
  <2>6. \A s \in Req : \A w \in ran'[s] : Approved(s, w)'
    BY <1>0, <1>k, <2>1
  <2>7. RanOnOwnApproval'
    BY <2>6 DEF RanOnOwnApproval, Approved
  <2> QED
    BY <2>2, <2>3, <2>4, <2>5, <2>7 DEF ApprovalInv
<1>1. ASSUME NEW r \in Req, handleChat(r) PROVE ApprovalInv'
  BY <1>0, <1>1, ApprovalIdle DEF handleChat, AgentTypeOK
<1>2. ASSUME NEW r \in Req, ModelEnds(r) PROVE ApprovalInv'
  BY <1>0, <1>2, ApprovalIdle DEF ModelEnds, AgentTypeOK
<1>3. ASSUME NEW r \in Req, NEW names \in Replies, ModelAsks(r, names) PROVE ApprovalInv'
  BY <1>0, <1>3, ApprovalIdle DEF ModelAsks, AgentTypeOK
<1>4. ASSUME NEW r \in Req, IterationCap(r) \/ RoundOver(r) \/ Refuse(r) \/ RunRead(r)
      PROVE  ApprovalInv'
  BY <1>0, <1>4, ApprovalIdle DEF IterationCap, RoundOver, Refuse, RunRead, AgentTypeOK
<1>5. ASSUME NEW r \in Req, Prompt(r) PROVE ApprovalInv'
  <2>1. /\ waits[r] \in Nat /\ waits'[r] = waits[r] + 1
        /\ pc'[r] = "prompted"
        /\ UNCHANGED <<decided, post, pending, box, ran>>
        /\ \A s \in Req : s # r => waits'[s] = waits[s] /\ pc'[s] = pc[s] /\ card'[s] = card[s]
    BY <1>0, <1>5 DEF Prompt, AgentTypeOK
  <2>2. \A w \in Wait : w <= waits[r] => card'[r][w] = card[r][w]
    BY <1>0, <1>5, <1>w, <2>1 DEF Prompt, AgentTypeOK
  <2>3. \A w \in Wait : Approved(r, w) => Approved(r, w)'
    BY <1>0, <2>1, <2>2, ApprovedKept
  <2>4. \A i \in CallID : pending'[r][i] # 0 =>
               /\ pending'[r][i] \in Wait /\ pending'[r][i] <= waits'[r]
               /\ card'[r][pending'[r][i]] = i
    <3> TAKE i \in CallID
    <3> HAVE pending'[r][i] # 0
    <3>1. /\ pending[r][i] \in Wait /\ pending[r][i] <= waits[r]
          /\ card[r][pending[r][i]] = i
      BY <1>0, <2>1 DEF PendingOwnCard
    <3>2. pending[r][i] \in Nat /\ waits[r] \in Nat /\ waits'[r] = waits[r] + 1
      BY <1>w, <2>1, <3>1
    <3>3. pending[r][i] <= waits'[r]
      BY <3>1, <3>2
    <3> QED
      BY <2>1, <2>2, <3>1, <3>3
  <2>5. ASSUME NEW w \in Wait
        PROVE  IF post'[r][w].state \in {"held", "acked"}
                 THEN /\ post'[r][w].ch \in Wait /\ post'[r][w].ch <= waits'[r]
                      /\ card'[r][post'[r][w].ch] = card'[r][w]
                 ELSE post'[r][w].ch = 0
    <3>1. CASE post[r][w].state \in {"held", "acked"}
      <4>1. w <= waits[r]
        BY <1>0, <3>1 DEF ShownCards
      <4>2. /\ post[r][w].ch \in Wait /\ post[r][w].ch <= waits[r]
            /\ card[r][post[r][w].ch] = card[r][w]
        BY <1>0, <3>1 DEF PostOwnCard
      <4>3. card'[r][post[r][w].ch] = card'[r][w]
        BY <2>2, <4>1, <4>2
      <4>4. post[r][w].ch \in Nat /\ waits[r] \in Nat /\ waits'[r] = waits[r] + 1
        BY <1>w, <2>1, <4>2
      <4>5. post[r][w].ch <= waits'[r]
        BY <4>2, <4>4
      <4> QED
        BY <2>1, <3>1, <4>2, <4>3, <4>5
    <3>2. CASE post[r][w].state \notin {"held", "acked"}
      BY <1>0, <2>1, <3>2 DEF PostOwnCard
    <3> QED
      BY <3>1, <3>2
  <2>6. \A w \in Wait : box'[r][w] = "approve" => Approved(r, w)'
    BY <1>0, <2>1, <2>3 DEF BoxApproved
  <2>7. \A w \in ran'[r] : Approved(r, w)'
    BY <1>0, <1>w, <2>1, <2>3
  <2> QED
    BY <1>k, <2>1, <2>4, <2>5, <2>6, <2>7
<1>6. ASSUME NEW r \in Req, Register(r) PROVE ApprovalInv'
  <2>1. /\ waits[r] \in Wait /\ card[r][waits[r]] = Call(r)
        /\ todo[r] \in Seq(CallID) /\ todo[r] # <<>>
    BY <1>0, <1>6 DEF Register, CurrentCard, InCall, CallBudget, AgentTypeOK
  <2>2. Call(r) \in CallID
    BY <2>1 DEF Call
  <2>3. /\ pc'[r] = "awaiting" /\ UNCHANGED <<waits, card, decided, post, ran>>
        /\ \A s \in Req : s # r => pc'[s] = pc[s] /\ pending'[s] = pending[s] /\ box'[s] = box[s]
        /\ \A i \in CallID : pending'[r][i] = IF i = Call(r) THEN waits[r] ELSE pending[r][i]
        /\ \A w \in Wait : box'[r][w] = "approve" => box[r][w] = "approve"
    BY <1>0, <1>6, <2>1, <2>2 DEF Register, AgentTypeOK
  <2>4. \A w : Approved(r, w) => Approved(r, w)'
    BY <2>3 DEF Approved
  <2>5. \A i \in CallID : pending'[r][i] # 0 =>
               /\ pending'[r][i] \in Wait /\ pending'[r][i] <= waits'[r]
               /\ card'[r][pending'[r][i]] = i
    BY <1>0, <1>w, <2>1, <2>3 DEF PendingOwnCard
  <2>6. /\ \A w \in Wait : box'[r][w] = "approve" => Approved(r, w)'
        /\ \A w \in ran'[r] : Approved(r, w)'
    BY <1>0, <2>3, <2>4 DEF BoxApproved
  <2>7. \A w \in Wait :
               IF post'[r][w].state \in {"held", "acked"}
                 THEN /\ post'[r][w].ch \in Wait /\ post'[r][w].ch <= waits'[r]
                      /\ card'[r][post'[r][w].ch] = card'[r][w]
                 ELSE post'[r][w].ch = 0
    BY <1>0, <2>3 DEF PostOwnCard
  <2> QED
    BY <1>k, <2>3, <2>5, <2>6, <2>7
<1>7. ASSUME NEW r \in Req, Decide(r) \/ Expire(r) PROVE ApprovalInv'
  <2>1. /\ waits[r] \in Wait /\ todo[r] \in Seq(CallID) /\ todo[r] # <<>>
    BY <1>0, <1>7 DEF Decide, Expire, CurrentCard, InCall, CallBudget, AgentTypeOK
  <2>2. Call(r) \in CallID
    BY <2>1 DEF Call
  <2>3. /\ UNCHANGED <<waits, card, decided, post, box, ran>>
        /\ \A s \in Req : s # r => pc'[s] = pc[s] /\ pending'[s] = pending[s]
        /\ \A i \in CallID : pending'[r][i] \in {0, pending[r][i]}
        /\ pc'[r] = "running" => box[r][waits[r]] = "approve"
    BY <1>0, <1>7, <2>2 DEF Decide, Expire, Unregistered, AgentTypeOK
  <2>4. \A w : Approved(r, w) => Approved(r, w)'
    BY <2>3 DEF Approved
  <2>5. \A i \in CallID : pending'[r][i] # 0 =>
               /\ pending'[r][i] \in Wait /\ pending'[r][i] <= waits'[r]
               /\ card'[r][pending'[r][i]] = i
    BY <1>0, <2>3 DEF PendingOwnCard
  <2>6. /\ \A w \in Wait : box'[r][w] = "approve" => Approved(r, w)'
        /\ \A w \in ran'[r] : Approved(r, w)'
    BY <1>0, <2>3, <2>4 DEF BoxApproved
  <2>7. pc'[r] = "running" => Approved(r, waits[r])'
    BY <1>0, <2>1, <2>3, <2>4 DEF BoxApproved, Approved
  <2>8. \A w \in Wait :
               IF post'[r][w].state \in {"held", "acked"}
                 THEN /\ post'[r][w].ch \in Wait /\ post'[r][w].ch <= waits'[r]
                      /\ card'[r][post'[r][w].ch] = card'[r][w]
                 ELSE post'[r][w].ch = 0
    BY <1>0, <2>3 DEF PostOwnCard
  <2> QED
    BY <1>k, <2>3, <2>5, <2>6, <2>7, <2>8
<1>8. ASSUME NEW r \in Req, Execute(r) PROVE ApprovalInv'
  <2>1. /\ UNCHANGED <<waits, card, decided, post, pending, box>>
        /\ pc[r] = "running" /\ \A s \in Req : pc'[s] = "running" => pc[s] = "running"
        /\ \A s \in Req : ran'[s] \subseteq ran[s] \cup (IF s = r THEN {waits[r]} ELSE {})
    BY <1>0, <1>8 DEF Execute, AgentTypeOK
  <2>2. \A s \in Req : \A w : Approved(s, w) => Approved(s, w)'
    BY <2>1 DEF Approved
  <2>3. Approved(r, waits[r])
    BY <1>0, <2>1 DEF RunningApproved
  <2>4. \A s \in Req : \A w \in ran'[s] : Approved(s, w)'
    BY <1>0, <2>1, <2>2, <2>3
  <2>5. RanOnOwnApproval'
    BY <2>4 DEF RanOnOwnApproval, Approved
  <2> QED
    BY <1>0, <2>1, <2>5
       DEF ApprovalInv, PendingOwnCard, PostOwnCard, BoxApproved, RunningApproved, Approved
<1>9. ASSUME NEW r \in Req, NEW w \in Wait, NEW d \in Decision, Answer(r, w, d) PROVE ApprovalInv'
  <2>1. /\ UNCHANGED <<pc, waits, card, pending, box, ran>> /\ decided[r][w] = "none"
        /\ \A s \in Req : s # r => decided'[s] = decided[s] /\ post'[s] = post[s]
        /\ \A v \in Wait : v # w => decided'[r][v] = decided[r][v] /\ post'[r][v] = post[r][v]
        /\ post'[r][w].ch = post[r][w].ch /\ post'[r][w].state = "sent"
    BY <1>0, <1>9 DEF Answer, AgentTypeOK
  <2>2. post[r][w].state = "none" /\ post[r][w].ch = 0
    BY <1>0, <2>1 DEF ShownCards, PostOwnCard
  <2>3. \A v \in Wait : Approved(r, v) => Approved(r, v)'
    BY <1>0, <2>1, <2>2, ApprovedKept
  <2>4. \A v \in Wait :
               IF post'[r][v].state \in {"held", "acked"}
                 THEN /\ post'[r][v].ch \in Wait /\ post'[r][v].ch <= waits'[r]
                      /\ card'[r][post'[r][v].ch] = card'[r][v]
                 ELSE post'[r][v].ch = 0
    BY <1>0, <2>1, <2>2 DEF PostOwnCard
  <2>5. /\ \A v \in Wait : box'[r][v] = "approve" => Approved(r, v)'
        /\ \A v \in ran'[r] : Approved(r, v)'
    BY <1>0, <1>w, <2>1, <2>3 DEF BoxApproved
  <2>6. pc'[r] = "running" => Approved(r, waits[r])'
    BY <1>0, <2>1, <2>3 DEF RunningApproved, CurrentCard, InCall, Approved
  <2> QED
    BY <1>0, <1>k, <2>1, <2>4, <2>5, <2>6 DEF PendingOwnCard
<1>10. ASSUME NEW r \in Req, NEW w \in Wait, handleApprove(r, w) PROVE ApprovalInv'
  <2>1. /\ UNCHANGED <<pc, waits, card, decided, pending, box, ran>>
        /\ post[r][w].state = "sent" /\ post[r][w].ch = 0
        /\ \A s \in Req : s # r => post'[s] = post[s]
        /\ \A v \in Wait : v # w => post'[r][v] = post[r][v]
        /\ \/ post'[r][w] = [state |-> "held", ch |-> pending[r][card[r][w]]]
              /\ pending[r][card[r][w]] # 0
           \/ post'[r][w] = [state |-> "refused", ch |-> 0]
    BY <1>0, <1>10 DEF handleApprove, AgentTypeOK, PostOwnCard
  <2>2. card[r][w] \in CallID
    BY <1>0, <2>1 DEF ShownCards
  <2>3. \A v \in Wait : Approved(r, v) => Approved(r, v)'
    BY <1>0, <2>1, ApprovedKept
  <2>4. ASSUME NEW v \in Wait
        PROVE  IF post'[r][v].state \in {"held", "acked"}
                 THEN /\ post'[r][v].ch \in Wait /\ post'[r][v].ch <= waits'[r]
                      /\ card'[r][post'[r][v].ch] = card'[r][v]
                 ELSE post'[r][v].ch = 0
    <3>1. CASE v # w
      BY <1>0, <2>1, <3>1 DEF PostOwnCard
    <3>2. CASE v = w
      BY <1>0, <2>1, <2>2, <3>2 DEF PendingOwnCard
    <3> QED
      BY <3>1, <3>2
  <2>5. /\ \A v \in Wait : box'[r][v] = "approve" => Approved(r, v)'
        /\ \A v \in ran'[r] : Approved(r, v)'
    BY <1>0, <1>w, <2>1, <2>3 DEF BoxApproved
  <2>6. pc'[r] = "running" => Approved(r, waits[r])'
    BY <1>0, <2>1, <2>3 DEF RunningApproved, CurrentCard, InCall, Approved
  <2> QED
    BY <1>0, <1>k, <2>1, <2>4, <2>5, <2>6 DEF PendingOwnCard
<1>11. ASSUME NEW r \in Req, NEW w \in Wait, Resolve(r, w) PROVE ApprovalInv'
  <2>1. /\ UNCHANGED <<pc, waits, card, decided, pending, ran>>
        /\ post[r][w].state = "held"
        /\ \A s \in Req : s # r => post'[s] = post[s] /\ box'[s] = box[s]
        /\ \A v \in Wait : v # w => post'[r][v] = post[r][v]
        /\ post'[r][w].state = "acked" /\ post'[r][w].ch = post[r][w].ch
    BY <1>0, <1>11 DEF Resolve, AgentTypeOK
  <2>2. /\ post[r][w].ch \in Wait /\ post[r][w].ch <= waits[r]
        /\ card[r][post[r][w].ch] = card[r][w]
    BY <1>0, <2>1 DEF PostOwnCard
  <2>3. \A v \in Wait : Approved(r, v) => Approved(r, v)'
    BY <1>0, <2>1, ApprovedKept
  <2>4. \A v \in Wait :
               IF post'[r][v].state \in {"held", "acked"}
                 THEN /\ post'[r][v].ch \in Wait /\ post'[r][v].ch <= waits'[r]
                      /\ card'[r][post'[r][v].ch] = card'[r][v]
                 ELSE post'[r][v].ch = 0
    BY <1>0, <2>1, <2>2 DEF PostOwnCard
  <2>5. ASSUME NEW v \in Wait, box'[r][v] = "approve" PROVE Approved(r, v)'
    <3>1. \/ box[r][v] = "approve"
          \/ v = post[r][w].ch /\ decided[r][w] = "approve"
      BY <1>0, <1>11, <2>2, <2>5 DEF Resolve, AgentTypeOK
    <3>2. CASE box[r][v] = "approve"
      BY <1>0, <2>3, <3>2 DEF BoxApproved
    <3>3. CASE v = post[r][w].ch /\ decided[r][w] = "approve"
      BY <2>1, <2>2, <3>3 DEF Approved
    <3> QED
      BY <3>1, <3>2, <3>3
  <2>6. \A v \in ran'[r] : Approved(r, v)'
    BY <1>0, <1>w, <2>1, <2>3
  <2>7. pc'[r] = "running" => Approved(r, waits[r])'
    BY <1>0, <2>1, <2>3 DEF RunningApproved, CurrentCard, InCall, Approved
  <2> QED
    BY <1>0, <1>k, <2>1, <2>4, <2>5, <2>6, <2>7 DEF PendingOwnCard
<1>12. ASSUME NEW r \in Req, Disconnect(r) PROVE ApprovalInv'
  BY <1>0, <1>12, ApprovalIdle DEF Disconnect, AgentTypeOK
<1>13. CASE UNCHANGED vars
  BY <1>0, <1>13, ApprovalIdle DEF vars
<1> QED
  BY <1>1, <1>2, <1>3, <1>4, <1>5, <1>6, <1>7, <1>8, <1>9, <1>10, <1>11, <1>12, <1>13
     DEF Next, LoopStep, UserStep

-----------------------------------------------------------------------------
\* Types, the budget of cards and the current card hold throughout: the loop
\* never shows more cards than its caps allow, and no step reads a card, a
\* channel or a call that is not there.
THEOREM AgentCalls == Spec => []CallInv
<1>1. Init => CallInv
  BY CallInit
<1>2. CallInv /\ [Next]_vars => CallInv'
  BY CallStep
<1> QED
  BY <1>1, <1>2, PTL DEF Spec

\* Whatever the order of prompts, answers, posts, timers and disconnects, a
\* change tool that Loop.Run started was approved by the user on a card with
\* that call id, through the one post that went into that call's channel.
THEOREM AgentApprovals == Spec => []RanOnOwnApproval
<1>1. Init => ApprovalInv
  BY ApprovalInit
<1>2. CallInv /\ CallInv' /\ ApprovalInv /\ [Next]_vars => ApprovalInv'
  BY ApprovalStep
<1>3. ApprovalInv => RanOnOwnApproval
  BY DEF ApprovalInv
<1> QED
  BY <1>1, <1>2, <1>3, AgentCalls, PTL DEF Spec

\* A step starts a change tool only in Execute, for the call under way.
LEMMA RanBy ==
  ASSUME AgentTypeOK, [Next]_vars, NEW r \in Req
  PROVE  ran'[r] = ran[r] \/ (pc[r] = "running" /\ ~ gone[r])
<1>1. CASE \E s \in Req : Execute(s)
  <2>1. PICK s \in Req : Execute(s)
    BY <1>1
  <2>2. CASE s = r
    BY <2>1, <2>2 DEF Execute
  <2>3. CASE s # r
    BY <2>1, <2>3 DEF Execute, AgentTypeOK
  <2> QED
    BY <2>2, <2>3
<1>2. CASE ~ \E s \in Req : Execute(s)
  <2>1. UNCHANGED ran
    BY <1>2, ZenonT(60) DEF Next, LoopStep, UserStep, handleChat, ModelEnds, ModelAsks, IterationCap,
                RoundOver, Refuse, RunRead, Prompt, Register, Decide, Expire, Answer,
                handleApprove, Resolve, Disconnect, vars
  <2> QED
    BY <2>1
<1> QED
  BY <1>1, <1>2

\* A chat without an approver changes nothing: no card of it is ever shown, so
\* no post to /agent/approve finds anything to approve.
THEOREM AgentReadOnly == Spec => []ReadOnlyChangesNothing
<1>1. Init => ReadOnlyChangesNothing
  BY DEF Init, ReadOnlyChangesNothing
<1>2. CallInv /\ ReadOnlyChangesNothing /\ [Next]_vars => ReadOnlyChangesNothing'
  <2> SUFFICES ASSUME CallInv, ReadOnlyChangesNothing, [Next]_vars, NEW r \in Req, readOnly'[r]
               PROVE  ran'[r] = {}
    BY DEF ReadOnlyChangesNothing
  <2>1. UNCHANGED readOnly
    BY ZenonT(60) DEF Next, LoopStep, UserStep, handleChat, ModelEnds, ModelAsks, IterationCap, RoundOver,
           Refuse, RunRead, Prompt, Register, Decide, Expire, Execute, Answer, handleApprove,
           Resolve, Disconnect, vars
  <2>2. pc[r] # "running"
    BY <2>1 DEF CallInv, CurrentCard, InCall
  <2>3. ran'[r] = ran[r]
    BY <2>2, RanBy DEF CallInv
  <2> QED
    BY <2>1, <2>3 DEF ReadOnlyChangesNothing
<1> QED
  BY <1>1, <1>2, AgentCalls, PTL DEF Spec

\* Once the client is gone no change tool starts any more, though the loop goes
\* on, cards may still be answered and an approval may already be in a channel.
THEOREM AgentGone == Spec => GoneChangesNothing
<1>1. CallInv /\ [Next]_vars => [\A r \in Req : gone[r] => ran'[r] = ran[r]]_vars
  BY RanBy DEF CallInv
<1> QED
  BY <1>1, AgentCalls, PTL DEF Spec, GoneChangesNothing
=============================================================================
