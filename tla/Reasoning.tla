----------------------------- MODULE Reasoning ------------------------------
(***************************************************************************)
(* One reasoning request on its way through the clan: the router of each   *)
(* daemon (router/router.go) sends it to the member it believes to be the  *)
(* orchestrator, whose runtime (runtime-adapter) turns the backend's       *)
(* stream into Anthropic, OpenAI or Ollama events, which come back along   *)
(* the chain of proxies to the client.                                     *)
(*                                                                         *)
(* Members do not agree on the orchestrator while an election spreads; the *)
(* beliefs here change freely (what they can be is the subject of          *)
(* Election).  A backend may stop mid-stream, with or without an error; a  *)
(* proxy, the client or the network may cut the exchange at any moment.    *)
(***************************************************************************)
EXTENDS Naturals, Sequences, FiniteSets, SequencesExt

CONSTANTS
  Member, None,
  MaxHops,      \* bound: members a request passes through
  MaxMoves,     \* bound: changes of belief
  MaxDeltas,    \* bound: text chunks of one reply
  MaxTools      \* bound: tool calls of one reply

ASSUME ReasoningBounds == MaxHops \in Nat /\ MaxMoves \in Nat /\ MaxDeltas \in Nat /\ MaxTools \in Nat
ASSUME NoneIsNobody == None \notin Member

\* The three surfaces of router and runtime: POST /v1/messages,
\* /v1/chat/completions and /api/chat.
Shape == {"anthropic", "openai", "ollama"}

VARIABLES
  orch,      \* orch[m]: CurrentOrchestrator in m's election state
  registry,  \* registry[m]: members whose address m knows
  moves,
  shape,     \* the endpoint the client uses
  stream,    \* whether it asks for a stream
  path,      \* the daemons that hold the request, the client's own first
  phase,     \* "asking", "routing", "serving", "streaming", "over"
  status,    \* HTTP status the client got, 0 before the header
  sw,        \* the stream writer: flags, and the events written so far
  deltas,    \* text chunks the backend has sent
  source,    \* how the backend's stream ended, "open" before
  seen       \* number of events of sw.out that reached the client

vars == <<orch, registry, moves, shape, stream, path, phase, status, sw, deltas, source, seen>>
exchange == <<shape, stream, path, phase, status, sw, deltas, source, seen>>

Event == {"message_start", "delta", "tool_use", "message_stop", "chunk", "finish", "[DONE]", "error"}
Writer == [started : BOOLEAN, finished : BOOLEAN, out : Seq(Event)]
NewWriter == [started |-> FALSE, finished |-> FALSE, out |-> <<>>]

ReasoningTypeOK ==
  /\ orch \in [Member -> Member \cup {None}]
  /\ registry \in [Member -> SUBSET Member]
  /\ moves \in Nat /\ shape \in Shape /\ stream \in BOOLEAN /\ path \in Seq(Member)
  /\ phase \in {"asking", "routing", "serving", "streaming", "over"}
  /\ status \in {0, 200, 400, 401, 502, 503}
  /\ sw \in Writer /\ deltas \in Nat
  /\ source \in {"open", "done", "eof", "error"}
  /\ seen \in 0..Len(sw.out)

Init ==
  /\ orch \in [Member -> Member \cup {None}]
  /\ registry = [m \in Member |-> Member \ {m}]
  /\ moves = 0 /\ shape \in Shape /\ stream \in BOOLEAN /\ path = <<>> /\ phase = "asking"
  /\ status = 0 /\ sw = NewWriter
  /\ deltas = 0 /\ source = "open" /\ seen = 0

-----------------------------------------------------------------------------
\* The election moves a member's belief; an entry of the registry goes stale.
Elect(m, l) ==
  /\ moves < MaxMoves /\ moves' = moves + 1
  /\ orch' = [orch EXCEPT ![m] = l]
  /\ UNCHANGED <<registry, exchange>>

Forget(m, l) ==
  /\ moves < MaxMoves /\ moves' = moves + 1
  /\ l \in registry[m]
  /\ registry' = [registry EXCEPT ![m] = @ \ {l}]
  /\ UNCHANGED <<orch, exchange>>

-----------------------------------------------------------------------------
\* The client posts to its own daemon.
Ask(m) ==
  /\ phase = "asking" /\ phase' = "routing" /\ path' = <<m>>
  /\ UNCHANGED <<orch, registry, moves, shape, stream, status, sw, deltas, source, seen>>

Here == Last(path)

\* An answer without a stream: the header travels back and the exchange ends.
Reply(code) ==
  /\ status' = code /\ phase' = "over"
  /\ UNCHANGED <<orch, registry, moves, shape, stream, path, sw, deltas, source, seen>>

\* authMiddleware of a hop that does not accept the signature.
Rejected == phase = "routing" /\ Reply(401)

\* handleReasoning: nobody elected, or an orchestrator without an address.
NoRoute ==
  /\ phase = "routing"
  /\ orch[Here] = None \/ (orch[Here] # Here /\ orch[Here] \notin registry[Here])
  /\ Reply(503)

\* proxyLocal.
SelfRoute ==
  /\ phase = "routing" /\ orch[Here] = Here
  /\ phase' = "serving"
  /\ UNCHANGED <<orch, registry, moves, shape, stream, path, status, sw, deltas, source, seen>>

\* proxyPeer: signed afresh, with no record of the members passed already.
PeerProxy ==
  /\ phase = "routing"
  /\ orch[Here] \in registry[Here] \ {Here}
  /\ Len(path) < MaxHops
  /\ path' = Append(path, orch[Here])
  /\ UNCHANGED <<orch, registry, moves, shape, stream, phase, status, sw, deltas, source, seen>>

\* (faulty) only a missing runtime ends the request, no timeout of a hop.
UnreachableRuntime == phase = "serving" /\ Reply(502)

\* The next hop or the runtime cannot be reached, or a hop's timeout expires
\* before a header came back: 502 from the hop above.
Unreachable ==
  /\ phase \in {"routing", "serving"}
  /\ Reply(502)

-----------------------------------------------------------------------------
\* The stream handlers send 200 and the headers before they call the backend.
BeginStream ==
  /\ phase' = "streaming" /\ status' = 200
  /\ UNCHANGED <<orch, registry, moves, shape, stream, path, sw, deltas, source, seen>>

\* The handlers of the runtime.  400: a body that cannot be translated, or no
\* model to run.  502: the models could not be listed (only where an empty model
\* is resolved), or Backend.Chat failed.
handleAnthropicMessages ==
  /\ phase = "serving" /\ shape = "anthropic"
  /\ \/ \E code \in {400, 502} : Reply(code)
     \/ stream /\ BeginStream
     \/ ~ stream /\ Reply(200)

handleOpenAIChat ==
  /\ phase = "serving" /\ shape = "openai"
  /\ \/ \E code \in {400, 502} : Reply(code)
     \/ stream /\ BeginStream
     \/ ~ stream /\ Reply(200)

handleOllamaChat ==
  /\ phase = "serving" /\ shape = "ollama"
  /\ \/ Reply(400)
     \/ stream /\ BeginStream
     \/ ~ stream /\ \E code \in {200, 502} : Reply(code)

-----------------------------------------------------------------------------
Sent(s, events) == [s EXCEPT !.out = @ \o events]

\* anthropicStreamWriter.
ensureStarted(s) ==
  IF s.started THEN s ELSE [Sent(s, <<"message_start">>) EXCEPT !.started = TRUE]

\* (faulty) closeStream that does not remember that it ran.
closeStreamForgets(s, tools) ==
  IF s.finished THEN s ELSE Sent(s, [k \in 1..tools |-> "tool_use"] \o <<"message_stop">>)

closeStream(s, tools) ==
  IF s.finished THEN s
  ELSE [Sent(s, [k \in 1..tools |-> "tool_use"] \o <<"message_stop">>) EXCEPT !.finished = TRUE]

anthropicWriteChunk(s, done, tools) ==
  IF done THEN closeStream(ensureStarted(s), tools) ELSE Sent(ensureStarted(s), <<"delta">>)

anthropicClose(s) == IF s.finished THEN s ELSE closeStream(ensureStarted(s), 0)

\* openAIStreamWriter; tool calls are not passed on.
openAIWriteChunk(s, done) ==
  IF done THEN [Sent(s, <<"finish">>) EXCEPT !.finished = TRUE] ELSE Sent(s, <<"chunk">>)

openAIClose(s) == Sent(s, <<"[DONE]">>)

\* ollamaStreamWriter, whose Close does nothing.
ollamaWriteChunk(s, done) == Sent(s, <<IF done THEN "finish" ELSE "chunk">>)

WriteChunk(s, done, tools) ==
  CASE shape = "anthropic" -> anthropicWriteChunk(s, done, tools)
    [] shape = "openai" -> openAIWriteChunk(s, done)
    [] shape = "ollama" -> ollamaWriteChunk(s, done)

Close(s) ==
  CASE shape = "anthropic" -> anthropicClose(s)
    [] shape = "openai" -> openAIClose(s)
    [] shape = "ollama" -> s

\* What the stream handlers do when ChatStream has returned, with an error or
\* without: an error event, and the closing events unless they are out.
streamAnthropic(s, failed) ==
  LET t == IF failed THEN Sent(s, <<"error">>) ELSE s
  IN IF t.finished THEN t ELSE anthropicClose(t)

\* (faulty) streamOpenAI that only logs a backend error.
streamOpenAILogOnly(s, failed) == IF s.finished THEN s ELSE openAIClose(s)

streamOpenAI(s, failed) ==
  LET t == IF failed THEN Sent(s, <<"error">>) ELSE s
  IN IF t.finished THEN t ELSE openAIClose(t)

\* streamOllama only logs the error.
Returned(s, failed) ==
  CASE shape = "anthropic" -> streamAnthropic(s, failed)
    [] shape = "openai" -> streamOpenAI(s, failed)
    [] shape = "ollama" -> s

\* Ollama.ChatStream: a line with text, the done line with the tool calls (a
\* done line with text is both), the end of the stream without it, and a failure
\* of the call, the scan or the decoding.
Delta ==
  /\ phase = "streaming" /\ source = "open" /\ deltas < MaxDeltas
  /\ deltas' = deltas + 1 /\ sw' = WriteChunk(sw, FALSE, 0)
  /\ UNCHANGED <<orch, registry, moves, shape, stream, path, phase, status, source, seen>>

Finish(how, s) ==
  /\ phase = "streaming" /\ source = "open"
  /\ source' = how /\ sw' = s
  /\ UNCHANGED <<orch, registry, moves, shape, stream, path, phase, status, deltas, seen>>

DoneChunk(tools) == Finish("done", Returned(Close(WriteChunk(sw, TRUE, tools)), FALSE))
EndOfStream == Finish("eof", Returned(Close(sw), FALSE))
BackendError == Finish("error", Returned(sw, TRUE))

-----------------------------------------------------------------------------
\* streamResponse relays what was written, in order, and flushes.
Relay ==
  /\ phase = "streaming" /\ seen < Len(sw.out)
  /\ seen' = seen + 1
  /\ UNCHANGED <<orch, registry, moves, shape, stream, path, phase, status, sw, deltas, source>>

\* The handlers return: the end of a complete stream.
StreamOver ==
  /\ phase = "streaming" /\ source # "open" /\ seen = Len(sw.out)
  /\ phase' = "over"
  /\ UNCHANGED <<orch, registry, moves, shape, stream, path, status, sw, deltas, source, seen>>

\* A hop loses the one below it, or a timeout expires, or the client leaves:
\* streamResponse just returns, and the stream ends early.
Cut ==
  /\ phase = "streaming" /\ phase' = "over"
  /\ UNCHANGED <<orch, registry, moves, shape, stream, path, status, sw, deltas, source, seen>>

Next ==
  \/ \E m \in Member, l \in Member \cup {None} : Elect(m, l)
  \/ \E m, l \in Member : Forget(m, l)
  \/ \E m \in Member : Ask(m)
  \/ Rejected \/ NoRoute \/ SelfRoute \/ PeerProxy \/ Unreachable
  \/ handleAnthropicMessages \/ handleOpenAIChat \/ handleOllamaChat
  \/ Delta \/ EndOfStream \/ BackendError
  \/ \E tools \in 0..MaxTools : DoneChunk(tools)
  \/ Relay \/ StreamOver \/ Cut

Spec == Init /\ [][Next]_vars

\* Every wait has a limit: thirty minutes per proxy hop and for the client.
FairSpec == Spec /\ WF_vars(Unreachable) /\ WF_vars(Cut)

-----------------------------------------------------------------------------
At(e) == {k \in DOMAIN sw.out : sw.out[k] = e}

\* Whatever the backend did, an Anthropic client gets one message: nothing but
\* an error comes before its start, nothing after its stop, and neither is
\* missing or repeated once the handler is done.
AnthropicEnvelope ==
  shape = "anthropic" =>
    /\ \A k \in DOMAIN sw.out : sw.out[k] \notin {"error", "message_start"} =>
         \E j \in At("message_start") : j < k
    /\ At("message_stop") \subseteq {Len(sw.out)}
    /\ Cardinality(At("message_start")) <= 1
    /\ source # "open" => At("message_start") # {} /\ At("message_stop") # {}

\* The text among the first k events.
Texts(k) == {j \in 1..k : sw.out[j] \in {"delta", "chunk"}}

\* A client that sees an end marker has the whole reply, as far as the backend
\* sent one, or was shown the backend's error before it.
EndMarkerHonest ==
  \A k \in 1..seen : sw.out[k] \in {"message_stop", "finish", "[DONE]"} =>
    \/ source \in {"done", "eof"} /\ Cardinality(Texts(k)) = deltas
    \/ \E j \in 1..(k - 1) : sw.out[j] = "error"

\* Every request is over some day, also if two members each take the other for
\* the orchestrator and pass it to and fro.
Answered == (phase # "asking") ~> (phase = "over")
=============================================================================
