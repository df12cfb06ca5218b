-------------------------- MODULE ReasoningProofs --------------------------
(***************************************************************************)
(* Proofs about the streams of Reasoning, for any clan, any length of a    *)
(* reply, any number of tool calls, and wherever a backend ends its        *)
(* stream: what the stream writers of the runtime put out is well formed,  *)
(* and an end marker stands for a complete reply or follows an error.      *)
(***************************************************************************)
EXTENDS Reasoning, SequenceTheorems, FiniteSetTheorems, TLAPS

Text == {"delta", "chunk"}
EndMarker == {"message_stop", "finish", "[DONE]"}

\* The events of an Anthropic reply with d chunks of text so far.
Opened(out, d) ==
  /\ out \in Seq(Event) /\ Len(out) = d + 1 /\ out[1] = "message_start"
  /\ \A k \in 2..(d + 1) : out[k] = "delta"

\* The same on the other two surfaces.
Chunked(out, d) ==
  /\ out \in Seq(Event) /\ Len(out) = d
  /\ \A k \in 1..d : out[k] = "chunk"

\* While the backend sends, a writer has put out the text it got and nothing
\* else, and has not finished; the Anthropic one starts its message with the
\* first text.
OpenWriter ==
  source = "open" =>
    /\ ~ sw.finished
    /\ shape = "anthropic" =>
         IF sw.started THEN Opened(sw.out, deltas) ELSE sw.out = <<>> /\ deltas = 0
    /\ shape # "anthropic" => Chunked(sw.out, deltas)

\* Text among the first k events; the text is the d events after the first a.
TextCount(out, k) == Cardinality({j \in 1..k : out[j] \in Text})
TextBetween(out, a, d, k) == \A j \in 1..k : out[j] \in Text <=> j \in (a + 1)..(a + d)

\* Every end marker in a sequence of events is after all text of the reply, if
\* the backend sent one to its end, or after an error.
Honest(out, how, d) ==
  \A k \in 1..Len(out) : out[k] \in EndMarker =>
    \/ how \in {"done", "eof"} /\ TextCount(out, k) = d
    \/ \E j \in 1..(k - 1) : out[j] = "error"

\* A message: only errors before its start, which is unique, and its stop last.
Enveloped(out) ==
  /\ \E i \in 1..Len(out) : /\ out[i] = "message_start"
                            /\ \A k \in 1..Len(out) : out[k] = "message_start" => k = i
                            /\ \A k \in 1..(i - 1) : out[k] = "error"
  /\ Len(out) > 0 /\ \A k \in 1..Len(out) : out[k] = "message_stop" <=> k = Len(out)

StreamInv ==
  /\ shape \in Shape /\ sw \in Writer /\ deltas \in Nat /\ source \in {"open", "done", "eof", "error"}
  /\ seen \in 0..Len(sw.out)
  /\ OpenWriter
  /\ source # "open" => Honest(sw.out, source, deltas)
  /\ shape = "anthropic" /\ source # "open" => Enveloped(sw.out)

-----------------------------------------------------------------------------
\* What a writer puts out goes to the end of what is out.
Extended(t, s, c) ==
  /\ t \in Writer /\ t.started = s.started /\ t.finished = s.finished
  /\ t.out \in Seq(Event) /\ Len(t.out) = Len(s.out) + Len(c)
  /\ \A k \in 1..Len(s.out) : t.out[k] = s.out[k]
  /\ \A k \in 1..Len(c) : t.out[Len(s.out) + k] = c[k]

LEMMA SentFacts ==
  ASSUME NEW s \in Writer, NEW c \in Seq(Event)
  PROVE  Extended(Sent(s, c), s, c)
<1>1. s.out \in Seq(Event) /\ s.started \in BOOLEAN /\ s.finished \in BOOLEAN
  BY DEF Writer
<1>2. /\ s.out \o c \in Seq(Event) /\ Len(s.out \o c) = Len(s.out) + Len(c)
      /\ \A k \in 1..Len(s.out) + Len(c) :
           (s.out \o c)[k] = IF k <= Len(s.out) THEN s.out[k] ELSE c[k - Len(s.out)]
  BY <1>1, ConcatProperties
<1>3. Sent(s, c) = [s EXCEPT !.out = s.out \o c]
  BY DEF Sent
<1>4. /\ Sent(s, c) \in Writer /\ Sent(s, c).out = s.out \o c
      /\ Sent(s, c).started = s.started /\ Sent(s, c).finished = s.finished
  BY <1>2, <1>3 DEF Writer
<1>5. Len(s.out) \in Nat /\ Len(c) \in Nat
  BY <1>1
<1>6. ASSUME NEW k \in 1..Len(c) PROVE Sent(s, c).out[Len(s.out) + k] = c[k]
  <2>1. Len(s.out) + k \in 1..Len(s.out) + Len(c) /\ ~ (Len(s.out) + k <= Len(s.out))
        /\ (Len(s.out) + k) - Len(s.out) = k
    BY <1>5
  <2> QED
    BY <1>2, <1>4, <2>1
<1>7. \A k \in 1..Len(s.out) : Sent(s, c).out[k] = s.out[k]
  BY <1>2, <1>4, <1>5
<1> QED
  BY <1>2, <1>4, <1>6, <1>7 DEF Extended

\* The events closeStream sends.
Closing(n) == [k \in 1..n |-> "tool_use"] \o <<"message_stop">>
LEMMA ClosingFacts ==
  ASSUME NEW n \in Nat
  PROVE  /\ Closing(n) \in Seq(Event) /\ Len(Closing(n)) = n + 1
         /\ \A k \in 1..n : Closing(n)[k] = "tool_use"
         /\ Closing(n)[n + 1] = "message_stop"
<1> DEFINE t == [k \in 1..n |-> "tool_use"]
<1>1. t \in Seq(Event) /\ Len(t) = n /\ \A k \in 1..n : t[k] = "tool_use"
  <2>1. t \in [1..n -> Event]
    BY DEF Event
  <2> QED
    BY <2>1, IsASeq
<1>2. <<"message_stop">> \in Seq(Event) /\ Len(<<"message_stop">>) = 1
  BY DEF Event
<1> HIDE DEF t
<1>3. /\ t \o <<"message_stop">> \in Seq(Event) /\ Len(t \o <<"message_stop">>) = n + 1
      /\ \A k \in 1..n + 1 :
           (t \o <<"message_stop">>)[k] = IF k <= n THEN t[k] ELSE <<"message_stop">>[k - n]
  BY <1>1, <1>2, ConcatProperties
<1>4. \A k \in 1..n : (t \o <<"message_stop">>)[k] = t[k]
  BY <1>3
<1>5. (t \o <<"message_stop">>)[n + 1] = "message_stop"
  <2>1. n + 1 \in 1..n + 1 /\ ~ (n + 1 <= n) /\ (n + 1) - n = 1
    OBVIOUS
  <2> QED
    BY <1>3, <2>1
<1>6. Closing(n) = t \o <<"message_stop">>
  BY DEF Closing, t
<1> QED
  BY <1>1, <1>3, <1>4, <1>5, <1>6

\* One event.
LEMMA SingleFacts ==
  ASSUME NEW e \in Event
  PROVE  <<e>> \in Seq(Event) /\ Len(<<e>>) = 1 /\ <<e>>[1] = e
OBVIOUS

\* What has to be seen of a position: text comes before it, all of it.
LEMMA AllText ==
  ASSUME NEW out, NEW a \in Nat, NEW d \in Nat, NEW k \in Nat, a + d <= k,
         TextBetween(out, a, d, k)
  PROVE  TextCount(out, k) = d
<1>1. {j \in 1..k : out[j] \in Text} = (a + 1)..(a + d)
  <2>1. \A j \in (a + 1)..(a + d) : j \in 1..k
    OBVIOUS
  <2>2. \A j \in 1..k : out[j] \in Text <=> j \in (a + 1)..(a + d)
    BY DEF TextBetween
  <2> HIDE DEF Text
  <2> QED
    BY <2>1, <2>2
<1>2. Cardinality((a + 1)..(a + d)) = d
  <2>1. a + 1 \in Int /\ a + d \in Int
    OBVIOUS
  <2>2. Cardinality((a + 1)..(a + d)) = IF a + 1 > a + d THEN 0 ELSE (a + d) - (a + 1) + 1
    BY <2>1, FS_Interval
  <2>3. CASE d = 0
    <3>1. a + 1 > a + d
      BY <2>3
    <3> QED
      BY <2>2, <2>3, <3>1
  <2>4. CASE d > 0
    <3>1. ~ (a + 1 > a + d) /\ (a + d) - (a + 1) + 1 = d
      BY <2>4
    <3> QED
      BY <2>2, <3>1
  <2> QED
    BY <2>3, <2>4
<1> QED
  BY <1>1, <1>2 DEF TextCount

-----------------------------------------------------------------------------
\* The ways in which an Anthropic stream ends, after d chunks of text.

\* The backend sent its done line, with n tool calls, or just stopped (n = 0).
LEMMA AnthropicClosed ==
  ASSUME NEW s \in Writer, NEW d \in Nat, NEW n \in Nat, NEW how \in {"done", "eof"},
         Opened(s.out, d)
  PROVE  Honest(Sent(s, Closing(n)).out, how, d) /\ Enveloped(Sent(s, Closing(n)).out)
<1> DEFINE out == Sent(s, Closing(n)).out
<1>1. /\ Len(out) = d + n + 2 /\ out[1] = "message_start"
      /\ \A k \in 2..(d + 1) : out[k] = "delta"
      /\ \A k \in (d + 2)..(d + n + 1) : out[k] = "tool_use"
      /\ out[d + n + 2] = "message_stop"
  <2>1. /\ Len(out) = (d + 1) + (n + 1)
        /\ \A k \in 1..(d + 1) : out[k] = s.out[k]
        /\ \A k \in 1..(n + 1) : out[d + 1 + k] = Closing(n)[k]
    <3>1. Closing(n) \in Seq(Event) /\ Len(Closing(n)) = n + 1
      BY ClosingFacts
    <3>2. Len(s.out) = d + 1 /\ d + 1 \in Nat /\ n + 1 \in Nat
      BY DEF Opened
    <3>3. Extended(Sent(s, Closing(n)), s, Closing(n))
      BY <3>1, SentFacts
    <3> QED
      BY <3>1, <3>2, <3>3 DEF Extended
  <2>2. ASSUME NEW k \in (d + 2)..(d + n + 1) PROVE out[k] = "tool_use"
    <3>1. k - (d + 1) \in 1..n /\ k - (d + 1) \in 1..(n + 1) /\ d + 1 + (k - (d + 1)) = k
      OBVIOUS
    <3> HIDE DEF out
    <3>2. out[d + 1 + (k - (d + 1))] = Closing(n)[k - (d + 1)]
      BY <2>1, <3>1
    <3>3. Closing(n)[k - (d + 1)] = "tool_use"
      BY <3>1, ClosingFacts
    <3> QED
      BY <3>1, <3>2, <3>3
  <2>3. out[d + n + 2] = "message_stop"
    <3>1. n + 1 \in 1..(n + 1) /\ d + 1 + (n + 1) = d + n + 2
      OBVIOUS
    <3> HIDE DEF out
    <3>2. out[d + 1 + (n + 1)] = Closing(n)[n + 1]
      BY <2>1, <3>1
    <3>3. Closing(n)[n + 1] = "message_stop"
      BY ClosingFacts
    <3> QED
      BY <3>1, <3>2, <3>3
  <2> HIDE DEF out
  <2>4. 1 \in 1..(d + 1) /\ \A k \in 2..(d + 1) : k \in 1..(d + 1)
    OBVIOUS
  <2> QED
    BY <2>1, <2>2, <2>3, <2>4 DEF Opened
<1> HIDE DEF out
<1>2. \A k \in 1..Len(out) : \/ k = 1 /\ out[k] = "message_start"
                             \/ k \in 2..(d + 1) /\ out[k] = "delta"
                             \/ k \in (d + 2)..(d + n + 1) /\ out[k] = "tool_use"
                             \/ k = d + n + 2 /\ out[k] = "message_stop"
  BY <1>1
<1>3. Enveloped(out)
  <2>1. 1 \in 1..Len(out) /\ Len(out) > 0 /\ Len(out) = d + n + 2
    BY <1>1
  <2> QED
    BY <1>2, <2>1 DEF Enveloped
<1>4. TextCount(out, Len(out)) = d
  <2>1. TextBetween(out, 1, d, Len(out))
    BY <1>2 DEF Text, TextBetween
  <2>2. Len(out) \in Nat /\ 1 + d <= Len(out) /\ 1 \in Nat
    BY <1>1
  <2> QED
    BY <2>1, <2>2, AllText
<1>5. \A k \in 1..Len(out) : out[k] \in EndMarker => k = Len(out)
  BY <1>1, <1>2 DEF EndMarker
<1>6. Honest(out, how, d)
  BY <1>4, <1>5 DEF Honest
<1> QED
  BY <1>3, <1>6 DEF out

\* The backend failed after the message had started.
LEMMA AnthropicFailed ==
  ASSUME NEW s \in Writer, NEW d \in Nat, Opened(s.out, d)
  PROVE  LET out == Sent(Sent(s, <<"error">>), Closing(0)).out
         IN  Honest(out, "error", d) /\ Enveloped(out)
<1> DEFINE t == Sent(s, <<"error">>)
           out == Sent(t, Closing(0)).out
<1>1. /\ t \in Writer /\ Len(t.out) = d + 2 /\ t.out[d + 2] = "error"
      /\ \A k \in 1..(d + 1) : t.out[k] = s.out[k]
  <2>1. "error" \in Event
    BY DEF Event
  <2>2. Len(s.out) = d + 1
    BY DEF Opened
  <2>3. /\ t \in Writer /\ Len(t.out) = d + 1 + 1
        /\ \A k \in 1..(d + 1) : t.out[k] = s.out[k]
        /\ \A k \in 1..1 : t.out[d + 1 + k] = <<"error">>[k]
    <3>1. <<"error">> \in Seq(Event) /\ Len(<<"error">>) = 1 /\ d + 1 \in Nat /\ 1 \in Nat
      BY <2>1
    <3>2. Extended(t, s, <<"error">>)
      BY <3>1, SentFacts
    <3> HIDE DEF t
    <3> QED
      BY <2>2, <3>1, <3>2 DEF Extended
  <2> HIDE DEF t
  <2>4. 1 \in 1..1 /\ d + 1 + 1 = d + 2
    OBVIOUS
  <2> QED
    BY <2>1, <2>3, <2>4, SingleFacts
<1> HIDE DEF t
<1>2. /\ Len(out) = d + 3 /\ out[d + 3] = "message_stop"
      /\ \A k \in 1..(d + 2) : out[k] = t.out[k]
  <2>1. 0 \in Nat /\ 0 + 1 = 1 /\ 1 \in 1..1 /\ d + 2 + 1 = d + 3
    OBVIOUS
  <2>2. Closing(0) \in Seq(Event) /\ Len(Closing(0)) = 1 /\ Closing(0)[1] = "message_stop"
    BY <2>1, ClosingFacts
  <2>3. /\ Len(out) = d + 2 + 1 /\ \A k \in 1..(d + 2) : out[k] = t.out[k]
        /\ \A k \in 1..1 : out[d + 2 + k] = Closing(0)[k]
    <3>1. d + 2 \in Nat /\ 1 \in Nat
      OBVIOUS
    <3>2. Extended(Sent(t, Closing(0)), t, Closing(0))
      BY <1>1, <2>2, SentFacts
    <3> QED
      BY <1>1, <2>2, <3>1, <3>2 DEF Extended
  <2> HIDE DEF out
  <2> QED
    BY <2>1, <2>2, <2>3
<1> HIDE DEF out
<1>3. \A k \in 1..Len(out) : \/ k = 1 /\ out[k] = "message_start"
                             \/ k \in 2..(d + 1) /\ out[k] = "delta"
                             \/ k = d + 2 /\ out[k] = "error"
                             \/ k = d + 3 /\ out[k] = "message_stop"
  BY <1>1, <1>2 DEF Opened
<1>4. Enveloped(out)
  <2>1. 1 \in 1..Len(out) /\ Len(out) > 0 /\ Len(out) = d + 3
    BY <1>2
  <2> QED
    BY <1>3, <2>1 DEF Enveloped
<1>5. Honest(out, "error", d)
  <2>1. \A k \in 1..Len(out) : out[k] \in EndMarker => k = d + 3
    BY <1>3 DEF EndMarker
  <2>2. d + 2 \in 1..(d + 3 - 1) /\ d + 2 \in 1..Len(out) /\ out[d + 2] = "error"
    BY <1>1, <1>2
  <2> QED
    BY <2>1, <2>2 DEF Honest
<1> QED
  BY <1>4, <1>5 DEF out, t

\* The backend failed before any text.
LEMMA AnthropicRefused ==
  ASSUME NEW s \in Writer, s.out = <<>>
  PROVE  LET out == Sent(Sent(Sent(s, <<"error">>), <<"message_start">>), Closing(0)).out
         IN  Honest(out, "error", 0) /\ Enveloped(out)
<1> DEFINE t == Sent(s, <<"error">>)
           u == Sent(t, <<"message_start">>)
           out == Sent(u, Closing(0)).out
<1>1. out[1] = "error" /\ out[2] = "message_start" /\ out[3] = "message_stop" /\ Len(out) = 3
  <2>1. /\ <<"error">> \in Seq(Event) /\ Len(<<"error">>) = 1 /\ <<"error">>[1] = "error"
        /\ <<"message_start">> \in Seq(Event) /\ Len(<<"message_start">>) = 1
        /\ <<"message_start">>[1] = "message_start"
    BY DEF Event
  <2>2. Closing(0) \in Seq(Event) /\ Len(Closing(0)) = 1 /\ Closing(0)[1] = "message_stop"
    <3>1. 0 \in Nat /\ 0 + 1 = 1
      OBVIOUS
    <3> QED
      BY <3>1, ClosingFacts
  <2>3. Len(s.out) = 0 /\ 0 \in Nat /\ 1 \in Nat /\ 2 \in Nat /\ 1 \in 1..1 /\ 1 \in 1..2 /\ 2 \in 1..2
    OBVIOUS
  <2>4. t \in Writer /\ Len(t.out) = 0 + 1 /\ \A k \in 1..1 : t.out[0 + k] = <<"error">>[k]
    <3>1. Extended(t, s, <<"error">>)
      BY <2>1, <2>3, SentFacts
    <3> HIDE DEF t
    <3> QED
      BY <2>1, <2>3, <3>1 DEF Extended
  <2> HIDE DEF t
  <2>5. t \in Writer /\ Len(t.out) = 1 /\ t.out[1] = "error"
    BY <2>1, <2>4
  <2>6. /\ u \in Writer /\ Len(u.out) = 1 + 1 /\ \A k \in 1..1 : u.out[k] = t.out[k]
        /\ \A k \in 1..1 : u.out[1 + k] = <<"message_start">>[k]
    <3>1. Extended(u, t, <<"message_start">>)
      BY <2>1, <2>3, <2>5, SentFacts
    <3> HIDE DEF u
    <3> QED
      BY <2>1, <2>3, <2>5, <3>1 DEF Extended
  <2> HIDE DEF u
  <2>7. u \in Writer /\ Len(u.out) = 2 /\ u.out[1] = "error" /\ u.out[2] = "message_start"
    BY <2>1, <2>5, <2>6
  <2>8. /\ Len(out) = 2 + 1 /\ \A k \in 1..2 : out[k] = u.out[k]
        /\ \A k \in 1..1 : out[2 + k] = Closing(0)[k]
    <3>1. Extended(Sent(u, Closing(0)), u, Closing(0))
      BY <2>2, <2>3, <2>7, SentFacts
    <3>2. Len(out) = Len(u.out) + Len(Closing(0))
      BY <3>1 DEF Extended
    <3>3. \A k \in 1..2 : out[k] = u.out[k]
      BY <2>7, <3>1 DEF Extended
    <3>4. \A k \in 1..1 : out[2 + k] = Closing(0)[k]
      BY <2>2, <2>7, <3>1 DEF Extended
    <3> HIDE DEF out
    <3> QED
      BY <2>2, <2>7, <3>2, <3>3, <3>4
  <2> HIDE DEF out
  <2> QED
    BY <2>2, <2>7, <2>8
<1> HIDE DEF out
<1>2. Len(out) = 3 /\ out[1] = "error" /\ out[2] = "message_start" /\ out[3] = "message_stop"
  BY <1>1
<1>3. \A k \in 1..Len(out) : k = 1 \/ k = 2 \/ k = 3
  BY <1>2
<1>4. Enveloped(out)
  <2>1. 2 \in 1..Len(out) /\ Len(out) > 0
    BY <1>2
  <2> QED
    BY <1>2, <1>3, <2>1 DEF Enveloped
<1>5. Honest(out, "error", 0)
  <2>1. \A k \in 1..Len(out) : out[k] \in EndMarker => k = 3
    BY <1>2, <1>3 DEF EndMarker
  <2>2. 1 \in 1..(3 - 1)
    OBVIOUS
  <2> QED
    BY <1>2, <2>1, <2>2 DEF Honest
<1> QED
  BY <1>4, <1>5 DEF out, u, t

-----------------------------------------------------------------------------
\* The ways in which a stream ends on the other two surfaces: the first d
\* events are the text, none of the others is.
Tailed(out, d) ==
  /\ out \in Seq(Event) /\ d <= Len(out)
  /\ \A k \in 1..d : out[k] = "chunk"
  /\ \A k \in (d + 1)..Len(out) : out[k] \notin Text

LEMMA ChunkedTailed ==
  ASSUME NEW out, NEW d \in Nat, Chunked(out, d)
  PROVE  Tailed(out, d)
BY DEF Chunked, Tailed

LEMMA TailGrows ==
  ASSUME NEW s \in Writer, NEW d \in Nat, NEW e \in Event \ Text, Tailed(s.out, d)
  PROVE  /\ Tailed(Sent(s, <<e>>).out, d) /\ Sent(s, <<e>>) \in Writer
         /\ Len(Sent(s, <<e>>).out) = Len(s.out) + 1
         /\ Sent(s, <<e>>).out[Len(s.out) + 1] = e
         /\ \A k \in 1..Len(s.out) : Sent(s, <<e>>).out[k] = s.out[k]
<1> DEFINE t == Sent(s, <<e>>)
<1>1. <<e>> \in Seq(Event) /\ Len(<<e>>) = 1 /\ <<e>>[1] = e
  OBVIOUS
<1>2. Extended(t, s, <<e>>)
  BY <1>1, SentFacts
<1> HIDE DEF t
<1>3. s.out \in Seq(Event) /\ Len(s.out) \in Nat /\ d <= Len(s.out)
  BY DEF Tailed
<1>4. /\ t \in Writer /\ t.out \in Seq(Event) /\ Len(t.out) = Len(s.out) + 1
      /\ \A k \in 1..Len(s.out) : t.out[k] = s.out[k]
  BY <1>1, <1>2 DEF Extended
<1>5. t.out[Len(s.out) + 1] = e
  <2>1. 1 \in 1..Len(<<e>>)
    BY <1>1
  <2> QED
    BY <1>1, <1>2, <2>1 DEF Extended
<1>6. ASSUME NEW k \in 1..d PROVE t.out[k] = "chunk"
  BY <1>3, <1>4 DEF Tailed
<1>7. ASSUME NEW k \in (d + 1)..Len(t.out) PROVE t.out[k] \notin Text
  <2>1. CASE k = Len(s.out) + 1
    BY <1>5, <2>1
  <2>2. CASE k # Len(s.out) + 1
    <3>1. k \in 1..Len(s.out) /\ k \in (d + 1)..Len(s.out)
      BY <1>3, <1>4, <2>2
    <3> QED
      BY <1>4, <3>1 DEF Tailed
  <2> QED
    BY <2>1, <2>2
<1>8. Tailed(t.out, d)
  BY <1>3, <1>4, <1>6, <1>7 DEF Tailed
<1> QED
  BY <1>4, <1>5, <1>8 DEF t

\* An end marker after the text, if the backend did not fail.
LEMMA TailedHonest ==
  ASSUME NEW out, NEW d \in Nat, NEW how \in {"done", "eof"}, Tailed(out, d)
  PROVE  Honest(out, how, d)
<1>1. Len(out) \in Nat /\ d <= Len(out)
  BY DEF Tailed
<1>2. ASSUME NEW k \in 1..Len(out), out[k] \in EndMarker PROVE TextCount(out, k) = d
  <2>1. k > d
    <3>1. CASE k \in 1..d
      BY <1>2, <3>1 DEF Tailed, EndMarker
    <3> QED
      BY <1>1, <3>1
  <2>2. TextBetween(out, 0, d, k)
    BY <1>1, <2>1 DEF Tailed, TextBetween, Text
  <2>3. 0 \in Nat /\ 0 + d <= k /\ k \in Nat
    BY <2>1
  <2> QED
    BY <2>2, <2>3, AllText
<1> QED
  BY <1>2 DEF Honest

\* Without a closing event nothing is promised, whatever the backend did.
LEMMA ChunkedHonest ==
  ASSUME NEW out, NEW d \in Nat, NEW how, Chunked(out, d)
  PROVE  Honest(out, how, d)
BY DEF Chunked, Honest, EndMarker

\* After an error.
LEMMA FailedHonest ==
  ASSUME NEW s \in Writer, NEW d \in Nat, Chunked(s.out, d)
  PROVE  /\ Honest(Sent(Sent(s, <<"error">>), <<"[DONE]">>).out, "error", d)
         /\ Sent(Sent(s, <<"error">>), <<"[DONE]">>) \in Writer
         /\ Len(Sent(Sent(s, <<"error">>), <<"[DONE]">>).out) = d + 2
<1> DEFINE t == Sent(s, <<"error">>)
           u == Sent(t, <<"[DONE]">>)
<1>1. "error" \in Event \ Text /\ "[DONE]" \in Event \ Text
  BY DEF Event, Text
<1>2. Tailed(s.out, d) /\ Len(s.out) = d
  BY ChunkedTailed DEF Chunked
<1>3. /\ Tailed(t.out, d) /\ t \in Writer /\ Len(t.out) = d + 1 /\ t.out[d + 1] = "error"
      /\ \A k \in 1..d : t.out[k] = s.out[k]
  BY <1>1, <1>2, TailGrows
<1> HIDE DEF t
<1>4. /\ u \in Writer /\ Len(u.out) = d + 1 + 1
      /\ \A k \in 1..(d + 1) : u.out[k] = t.out[k]
  BY <1>1, <1>3, TailGrows
<1> HIDE DEF u
<1>5. u.out[d + 1] = "error" /\ Len(u.out) = d + 2 /\ \A k \in 1..d : u.out[k] = "chunk"
  BY <1>3, <1>4 DEF Chunked
<1>6. ASSUME NEW k \in 1..Len(u.out), u.out[k] \in EndMarker
      PROVE  \E j \in 1..(k - 1) : u.out[j] = "error"
  <2>1. k = d + 2
    BY <1>5, <1>6 DEF EndMarker
  <2>2. d + 1 \in 1..(k - 1)
    BY <2>1
  <2> QED
    BY <1>5, <2>2
<1>7. Honest(u.out, "error", d)
  BY <1>6 DEF Honest
<1> QED
  BY <1>4, <1>5, <1>7 DEF u, t

-----------------------------------------------------------------------------
\* The writer a finished stream leaves behind.
Finished(s, how) ==
  /\ s \in Writer /\ Len(s.out) >= Len(sw.out)
  /\ Honest(s.out, how, deltas)
  /\ shape = "anthropic" => Enveloped(s.out)

\* closeStream and ensureStarted, in terms of what they send.
LEMMA CloseStreamFacts ==
  ASSUME NEW s \in Writer, NEW n \in Nat, ~ s.finished
  PROVE  /\ closeStream(s, n) \in Writer /\ closeStream(s, n).finished
         /\ closeStream(s, n).out = Sent(s, Closing(n)).out
         /\ Len(closeStream(s, n).out) = Len(s.out) + (n + 1)
<1>1. Extended(Sent(s, Closing(n)), s, Closing(n)) /\ Len(Closing(n)) = n + 1
  BY ClosingFacts, SentFacts
<1>2. closeStream(s, n) = [Sent(s, Closing(n)) EXCEPT !.finished = TRUE]
  BY DEF closeStream, Closing
<1>3. Sent(s, Closing(n)) \in Writer
  BY <1>1 DEF Extended
<1>4. /\ closeStream(s, n) \in Writer /\ closeStream(s, n).finished
      /\ closeStream(s, n).out = Sent(s, Closing(n)).out
  BY <1>2, <1>3 DEF Writer
<1>5. Len(Sent(s, Closing(n)).out) = Len(s.out) + (n + 1) /\ Len(s.out) \in Nat
  BY <1>1 DEF Extended, Writer
<1>6. closeStream(s, n).out = Sent(s, Closing(n)).out
  BY <1>4
<1>7. Len(closeStream(s, n).out) = Len(s.out) + (n + 1)
  BY <1>5, <1>6, Zenon
<1> QED
  BY <1>4, <1>7, Zenon

LEMMA EnsureStartedFacts ==
  ASSUME NEW s \in Writer, ~ s.started
  PROVE  /\ ensureStarted(s) \in Writer /\ ensureStarted(s).started
         /\ ensureStarted(s).finished = s.finished
         /\ ensureStarted(s).out = Sent(s, <<"message_start">>).out
         /\ Len(ensureStarted(s).out) = Len(s.out) + 1
<1>1. <<"message_start">> \in Seq(Event) /\ Len(<<"message_start">>) = 1
  BY DEF Event
<1>2. Extended(Sent(s, <<"message_start">>), s, <<"message_start">>)
  BY <1>1, SentFacts
<1>3. ensureStarted(s) = [Sent(s, <<"message_start">>) EXCEPT !.started = TRUE]
  BY DEF ensureStarted
<1>4. /\ Sent(s, <<"message_start">>) \in Writer
      /\ Sent(s, <<"message_start">>).finished = s.finished
      /\ Len(Sent(s, <<"message_start">>).out) = Len(s.out) + 1
  BY <1>1, <1>2 DEF Extended
<1> QED
  BY <1>3, <1>4 DEF Writer

\* Before a stream ends, an Anthropic writer that has started, or starts now,
\* holds a message of the text so far.
LEMMA StartedOpen ==
  ASSUME StreamInv, source = "open", shape = "anthropic"
  PROVE  /\ ensureStarted(sw) \in Writer /\ ~ ensureStarted(sw).finished
         /\ ensureStarted(sw).started
         /\ Opened(ensureStarted(sw).out, deltas)
         /\ Len(ensureStarted(sw).out) >= Len(sw.out)
<1>1. sw \in Writer /\ ~ sw.finished /\ deltas \in Nat
  BY DEF StreamInv, OpenWriter
<1>2. CASE sw.started
  <2>1. ensureStarted(sw) = sw
    BY <1>2 DEF ensureStarted
  <2>2. Opened(sw.out, deltas)
    BY <1>2 DEF StreamInv, OpenWriter
  <2>3. Len(sw.out) \in Nat
    BY <2>2 DEF Opened
  <2> QED
    BY <1>1, <1>2, <2>1, <2>2, <2>3
<1>3. CASE ~ sw.started
  <2>1. sw.out = <<>> /\ deltas = 0 /\ Len(sw.out) = 0
    BY <1>3 DEF StreamInv, OpenWriter
  <2>2. /\ ensureStarted(sw) \in Writer /\ ensureStarted(sw).finished = sw.finished
        /\ ensureStarted(sw).started
        /\ ensureStarted(sw).out = Sent(sw, <<"message_start">>).out
        /\ Len(ensureStarted(sw).out) = 1
    <3>1. /\ ensureStarted(sw) \in Writer /\ ensureStarted(sw).finished = sw.finished
          /\ ensureStarted(sw).started
          /\ ensureStarted(sw).out = Sent(sw, <<"message_start">>).out
          /\ Len(ensureStarted(sw).out) = Len(sw.out) + 1
      BY <1>1, <1>3, EnsureStartedFacts, Zenon
    <3>2. Len(ensureStarted(sw).out) = 1
      BY <2>1, <3>1
    <3> QED
      BY <3>1, <3>2, Zenon
  <2>3. Sent(sw, <<"message_start">>).out \in Seq(Event) /\ Sent(sw, <<"message_start">>).out[1] = "message_start"
    <3>1. /\ <<"message_start">> \in Seq(Event) /\ Len(<<"message_start">>) = 1
          /\ <<"message_start">>[1] = "message_start" /\ 1 \in 1..1
      BY DEF Event
    <3>2. Extended(Sent(sw, <<"message_start">>), sw, <<"message_start">>)
      BY <1>1, <3>1, SentFacts
    <3>3. /\ Sent(sw, <<"message_start">>).out \in Seq(Event)
          /\ Sent(sw, <<"message_start">>).out[0 + 1] = <<"message_start">>[1]
      BY <2>1, <3>1, <3>2 DEF Extended
    <3> QED
      BY <3>1, <3>3
  <2>4. Opened(ensureStarted(sw).out, deltas)
    BY <2>1, <2>2, <2>3 DEF Opened
  <2> QED
    BY <1>1, <2>1, <2>2, <2>4
<1> QED
  BY <1>2, <1>3

\* The Anthropic writer after the done line, at a premature end, and when the
\* backend fails.
LEMMA AnthropicDone ==
  ASSUME StreamInv, source = "open", shape = "anthropic", NEW n \in Nat, NEW how \in {"done", "eof"}
  PROVE  Finished(closeStream(ensureStarted(sw), n), how)
<1> DEFINE u == ensureStarted(sw)
<1>1. u \in Writer /\ ~ u.finished /\ Opened(u.out, deltas) /\ Len(u.out) >= Len(sw.out)
  BY StartedOpen
<1>2. deltas \in Nat /\ sw \in Writer
  BY DEF StreamInv
<1>3. Len(u.out) \in Nat /\ Len(sw.out) \in Nat
  BY <1>1, <1>2 DEF Writer
<1> HIDE DEF u
<1>4. /\ closeStream(u, n) \in Writer /\ closeStream(u, n).out = Sent(u, Closing(n)).out
      /\ Len(closeStream(u, n).out) = Len(u.out) + (n + 1)
  BY <1>1, CloseStreamFacts
<1>5. Honest(Sent(u, Closing(n)).out, how, deltas) /\ Enveloped(Sent(u, Closing(n)).out)
  BY <1>1, <1>2, AnthropicClosed
<1>6. Finished(closeStream(u, n), how)
  <2>1. Len(closeStream(u, n).out) >= Len(sw.out)
    <3>1. Len(u.out) + (n + 1) >= Len(sw.out)
      <4>1. ASSUME NEW a \in Nat, NEW b \in Nat, a >= b PROVE a + (n + 1) >= b
        BY <4>1
      <4>2. Len(u.out) >= Len(sw.out)
        BY <1>1
      <4> QED
        BY <1>3, <4>1, <4>2
    <3> QED
      BY <1>4, <3>1, Zenon
  <2> QED
    BY <1>4, <1>5, <2>1, Zenon DEF Finished
<1> QED
  BY <1>6 DEF u

LEMMA AnthropicError ==
  ASSUME StreamInv, source = "open", shape = "anthropic"
  PROVE  Finished(streamAnthropic(sw, TRUE), "error")
<1> DEFINE t == Sent(sw, <<"error">>)
<1>1. sw \in Writer /\ ~ sw.finished /\ deltas \in Nat /\ Len(sw.out) \in Nat
  BY DEF StreamInv, OpenWriter, Writer
<1>2. <<"error">> \in Seq(Event) /\ Len(<<"error">>) = 1
  BY DEF Event
<1>3. Extended(t, sw, <<"error">>)
  BY <1>1, <1>2, SentFacts
<1>4. streamAnthropic(sw, TRUE) = IF t.finished THEN t ELSE anthropicClose(t)
  BY DEF streamAnthropic
<1> HIDE DEF t
<1>5. t \in Writer /\ t.started = sw.started /\ ~ t.finished /\ Len(t.out) = Len(sw.out) + 1
  BY <1>1, <1>2, <1>3 DEF Extended
<1>6. streamAnthropic(sw, TRUE) = closeStream(ensureStarted(t), 0)
  BY <1>4, <1>5 DEF anthropicClose
<1>7. CASE sw.started
  <2>1. ensureStarted(t) = t
    BY <1>5, <1>7 DEF ensureStarted
  <2>2. Opened(sw.out, deltas)
    BY <1>7 DEF StreamInv, OpenWriter
  <2>3. Honest(Sent(t, Closing(0)).out, "error", deltas) /\ Enveloped(Sent(t, Closing(0)).out)
    BY <1>1, <2>2, AnthropicFailed DEF t
  <2>4. /\ closeStream(t, 0) \in Writer /\ closeStream(t, 0).out = Sent(t, Closing(0)).out
        /\ Len(closeStream(t, 0).out) = Len(t.out) + (0 + 1)
    BY <1>5, CloseStreamFacts
  <2>5. Len(closeStream(t, 0).out) >= Len(sw.out)
    BY <1>1, <1>5, <2>4
  <2>6. Finished(closeStream(t, 0), "error")
    BY <2>3, <2>4, <2>5, Zenon DEF Finished
  <2> QED
    BY <1>6, <2>1, <2>6
<1>8. CASE ~ sw.started
  <2>1. sw.out = <<>> /\ deltas = 0
    BY <1>8 DEF StreamInv, OpenWriter
  <2> DEFINE u == ensureStarted(t)
  <2>2. /\ u \in Writer /\ ~ u.finished /\ u.out = Sent(t, <<"message_start">>).out
        /\ Len(u.out) = Len(t.out) + 1
    BY <1>5, <1>8, EnsureStartedFacts
  <2> HIDE DEF u
  <2>3. /\ closeStream(u, 0) \in Writer /\ closeStream(u, 0).out = Sent(u, Closing(0)).out
        /\ Len(closeStream(u, 0).out) = Len(u.out) + (0 + 1)
    BY <2>2, CloseStreamFacts
  <2>4. Sent(u, Closing(0)).out = Sent(Sent(t, <<"message_start">>), Closing(0)).out
    BY <2>2 DEF Sent, Extended, Writer
  <2>5. Honest(Sent(u, Closing(0)).out, "error", 0) /\ Enveloped(Sent(u, Closing(0)).out)
    BY <1>1, <2>1, <2>4, AnthropicRefused DEF t
  <2>6. Finished(closeStream(u, 0), "error")
    BY <1>1, <1>5, <2>1, <2>2, <2>3, <2>5 DEF Finished
  <2> QED
    BY <1>6, <2>6 DEF u
<1> QED
  BY <1>7, <1>8

\* The OpenAI writer: the done line, a premature end (which is closed twice),
\* an error.
LEMMA OpenAIDone ==
  ASSUME StreamInv, source = "open", shape = "openai", NEW e \in Event \ Text
  PROVE  /\ Finished(Sent(Sent(sw, <<e>>), <<"[DONE]">>), "done")
         /\ Finished(Sent(Sent(sw, <<e>>), <<"[DONE]">>), "eof")
<1> DEFINE t == Sent(sw, <<e>>)
           u == Sent(t, <<"[DONE]">>)
<1>1. sw \in Writer /\ deltas \in Nat /\ Chunked(sw.out, deltas)
  BY DEF StreamInv, OpenWriter
<1>2. "[DONE]" \in Event \ Text
  BY DEF Event, Text
<1>3. Tailed(sw.out, deltas) /\ Len(sw.out) \in Nat
  BY <1>1, ChunkedTailed DEF Writer
<1>4. t \in Writer /\ Tailed(t.out, deltas) /\ Len(t.out) = Len(sw.out) + 1
  BY <1>1, <1>3, TailGrows
<1> HIDE DEF t
<1>5. u \in Writer /\ Tailed(u.out, deltas) /\ Len(u.out) = Len(t.out) + 1
  BY <1>1, <1>2, <1>4, TailGrows
<1> HIDE DEF u
<1>6. Honest(u.out, "done", deltas) /\ Honest(u.out, "eof", deltas)
  BY <1>1, <1>5, TailedHonest
<1>7. Len(u.out) >= Len(sw.out)
  BY <1>3, <1>4, <1>5
<1>8. shape # "anthropic"
  OBVIOUS
<1>9. Finished(u, "done") /\ Finished(u, "eof")
  BY <1>5, <1>6, <1>7, <1>8 DEF Finished
<1> QED
  BY <1>9 DEF u, t

LEMMA OpenAIError ==
  ASSUME StreamInv, source = "open", shape = "openai"
  PROVE  Finished(Sent(Sent(sw, <<"error">>), <<"[DONE]">>), "error")
<1>1. sw \in Writer /\ deltas \in Nat /\ Chunked(sw.out, deltas) /\ Len(sw.out) = deltas
  BY DEF StreamInv, OpenWriter, Chunked
<1> DEFINE u == Sent(Sent(sw, <<"error">>), <<"[DONE]">>)
<1>2. Honest(u.out, "error", deltas) /\ u \in Writer /\ Len(u.out) = deltas + 2
  BY <1>1, FailedHonest
<1> HIDE DEF u
<1>3. Finished(u, "error")
  BY <1>1, <1>2 DEF Finished
<1> QED
  BY <1>3 DEF u

\* The Ollama writer sends its last line, or nothing.
LEMMA OllamaDone ==
  ASSUME StreamInv, source = "open", shape = "ollama"
  PROVE  /\ Finished(Sent(sw, <<"finish">>), "done")
         /\ \A how : Finished(sw, how)
<1>1. sw \in Writer /\ deltas \in Nat /\ Chunked(sw.out, deltas)
  BY DEF StreamInv, OpenWriter
<1>2. "finish" \in Event \ Text
  BY DEF Event, Text
<1>3. Tailed(sw.out, deltas) /\ Len(sw.out) \in Nat
  BY <1>1, ChunkedTailed DEF Writer
<1> DEFINE t == Sent(sw, <<"finish">>)
<1>4. t \in Writer /\ Tailed(t.out, deltas) /\ Len(t.out) = Len(sw.out) + 1
  BY <1>1, <1>2, <1>3, TailGrows
<1> HIDE DEF t
<1>5. Honest(t.out, "done", deltas)
  BY <1>1, <1>4, TailedHonest
<1>6. Finished(t, "done")
  BY <1>3, <1>4, <1>5 DEF Finished
<1>7. ASSUME NEW how PROVE Finished(sw, how)
  BY <1>1, <1>3, ChunkedHonest DEF Finished
<1> QED
  BY <1>6, <1>7 DEF t

-----------------------------------------------------------------------------
\* The done line, whichever the surface.
LEMMA DoneChunkFinishes ==
  ASSUME StreamInv, source = "open", NEW n \in Nat
  PROVE  Finished(Returned(Close(WriteChunk(sw, TRUE, n)), FALSE), "done")
<1>1. sw \in Writer /\ shape \in Shape
  BY DEF StreamInv
<1>2. CASE shape = "anthropic"
  <2> DEFINE u == closeStream(ensureStarted(sw), n)
  <2>1. Finished(u, "done")
    BY <1>2, AnthropicDone
  <2>2. ensureStarted(sw) \in Writer /\ ~ ensureStarted(sw).finished
    BY <1>2, StartedOpen
  <2>3. u.finished
    BY <2>2, CloseStreamFacts
  <2>4. WriteChunk(sw, TRUE, n) = u
    BY <1>2 DEF WriteChunk, anthropicWriteChunk
  <2> HIDE DEF u
  <2>5. Close(u) = u
    BY <1>2, <2>3 DEF Close, anthropicClose
  <2>6. Returned(u, FALSE) = u
    BY <1>2, <2>3 DEF Returned, streamAnthropic
  <2> QED
    BY <2>1, <2>4, <2>5, <2>6
<1>3. CASE shape = "openai"
  <2> DEFINE t == [Sent(sw, <<"finish">>) EXCEPT !.finished = TRUE]
             u == Sent(t, <<"[DONE]">>)
             v == Sent(Sent(sw, <<"finish">>), <<"[DONE]">>)
  <2>1. "finish" \in Event \ Text /\ <<"finish">> \in Seq(Event) /\ <<"[DONE]">> \in Seq(Event)
    BY DEF Event, Text
  <2>2. Finished(v, "done")
    BY <1>3, <2>1, OpenAIDone
  <2>3. Sent(sw, <<"finish">>) \in Writer
    BY <1>1, <2>1, SentFacts DEF Extended
  <2>4. t \in Writer /\ t.out = Sent(sw, <<"finish">>).out /\ t.finished
    BY <2>3 DEF Writer
  <2>5. Extended(u, t, <<"[DONE]">>)
    BY <2>1, <2>4, SentFacts
  <2>6. WriteChunk(sw, TRUE, n) = t
    BY <1>3 DEF WriteChunk, openAIWriteChunk
  <2>7. Close(t) = u
    BY <1>3 DEF Close, openAIClose
  <2>8. u \in Writer /\ u.finished /\ u.out = v.out
    <3>1. u.out = t.out \o <<"[DONE]">> /\ v.out = Sent(sw, <<"finish">>).out \o <<"[DONE]">>
      <4>1. v.out = Sent(sw, <<"finish">>).out \o <<"[DONE]">>
        <5> DEFINE w == Sent(sw, <<"finish">>)
        <5>1. w \in Writer
          BY <2>3
        <5> HIDE DEF w
        <5>2. Sent(w, <<"[DONE]">>).out = w.out \o <<"[DONE]">>
          BY <5>1 DEF Sent, Writer
        <5> QED
          BY <5>2 DEF w
      <4> HIDE DEF t
      <4>2. u.out = t.out \o <<"[DONE]">>
        BY <2>4 DEF Sent, Writer
      <4> QED
        BY <4>1, <4>2
    <3> HIDE DEF t, v, u
    <3>2. u \in Writer /\ u.finished = t.finished
      BY <2>5 DEF Extended
    <3> QED
      BY <2>4, <3>1, <3>2
  <2> HIDE DEF t, u, v
  <2>9. Returned(u, FALSE) = u
    BY <1>3, <2>8 DEF Returned, streamOpenAI
  <2>10. Finished(u, "done")
    BY <2>2, <2>8 DEF Finished
  <2> QED
    BY <2>6, <2>7, <2>9, <2>10
<1>4. CASE shape = "ollama"
  <2>1. Finished(Sent(sw, <<"finish">>), "done")
    BY <1>4, OllamaDone
  <2>2. /\ WriteChunk(sw, TRUE, n) = Sent(sw, <<"finish">>)
        /\ \A s : Close(s) = s /\ Returned(s, FALSE) = s
    BY <1>4 DEF WriteChunk, ollamaWriteChunk, Close, Returned
  <2> QED
    BY <2>1, <2>2
<1> QED
  BY <1>1, <1>2, <1>3, <1>4 DEF Shape

\* The end of the backend's stream without a done line.
LEMMA EndOfStreamFinishes ==
  ASSUME StreamInv, source = "open"
  PROVE  Finished(Returned(Close(sw), FALSE), "eof")
<1>1. sw \in Writer /\ shape \in Shape /\ ~ sw.finished
  BY DEF StreamInv, OpenWriter
<1>2. CASE shape = "anthropic"
  <2> DEFINE u == closeStream(ensureStarted(sw), 0)
  <2>1. Finished(u, "eof")
    BY <1>2, AnthropicDone
  <2>2. ensureStarted(sw) \in Writer /\ ~ ensureStarted(sw).finished
    BY <1>2, StartedOpen
  <2>3. u.finished
    BY <2>2, CloseStreamFacts
  <2>4. Close(sw) = u
    BY <1>1, <1>2 DEF Close, anthropicClose
  <2> HIDE DEF u
  <2>5. Returned(u, FALSE) = u
    BY <1>2, <2>3 DEF Returned, streamAnthropic
  <2> QED
    BY <2>1, <2>4, <2>5, Zenon
<1>3. CASE shape = "openai"
  <2>1. "[DONE]" \in Event \ Text /\ <<"[DONE]">> \in Seq(Event)
    BY DEF Event, Text
  <2>2. Finished(Sent(Sent(sw, <<"[DONE]">>), <<"[DONE]">>), "eof")
    BY <1>3, <2>1, OpenAIDone
  <2> DEFINE t == Sent(sw, <<"[DONE]">>)
  <2>3. Extended(t, sw, <<"[DONE]">>)
    BY <1>1, <2>1, SentFacts
  <2>4. Close(sw) = t
    BY <1>3 DEF Close, openAIClose
  <2> HIDE DEF t
  <2>5. ~ t.finished
    BY <1>1, <2>3 DEF Extended
  <2>6. Returned(t, FALSE) = Sent(t, <<"[DONE]">>)
    BY <1>3, <2>5 DEF Returned, streamOpenAI, openAIClose
  <2> QED
    BY <2>2, <2>4, <2>6 DEF t
<1>4. CASE shape = "ollama"
  <2>1. Finished(sw, "eof")
    BY <1>4, OllamaDone
  <2>2. Returned(Close(sw), FALSE) = sw
    BY <1>4 DEF Close, Returned
  <2> QED
    BY <2>1, <2>2, Zenon
<1> QED
  BY <1>1, <1>2, <1>3, <1>4 DEF Shape

\* A failure of the backend.
LEMMA BackendErrorFinishes ==
  ASSUME StreamInv, source = "open"
  PROVE  Finished(Returned(sw, TRUE), "error")
<1>1. sw \in Writer /\ shape \in Shape /\ ~ sw.finished
  BY DEF StreamInv, OpenWriter
<1>2. CASE shape = "anthropic"
  <2>1. Returned(sw, TRUE) = streamAnthropic(sw, TRUE)
    BY <1>2 DEF Returned
  <2> QED
    BY <1>2, <2>1, AnthropicError, Zenon
<1>3. CASE shape = "openai"
  <2> DEFINE t == Sent(sw, <<"error">>)
  <2>1. <<"error">> \in Seq(Event)
    BY DEF Event
  <2>2. Extended(t, sw, <<"error">>)
    BY <1>1, <2>1, SentFacts
  <2>3. Returned(sw, TRUE) = IF t.finished THEN t ELSE Sent(t, <<"[DONE]">>)
    BY <1>3 DEF Returned, streamOpenAI, openAIClose
  <2>4. Finished(Sent(t, <<"[DONE]">>), "error")
    BY <1>3, OpenAIError
  <2> HIDE DEF t
  <2>5. ~ t.finished
    BY <1>1, <2>2 DEF Extended
  <2> QED
    BY <2>3, <2>4, <2>5
<1>4. CASE shape = "ollama"
  <2>1. Returned(sw, TRUE) = sw /\ Finished(sw, "error")
    BY <1>4, OllamaDone DEF Returned
  <2> QED
    BY <2>1, Zenon
<1> QED
  BY <1>1, <1>2, <1>3, <1>4 DEF Shape

-----------------------------------------------------------------------------
\* The last step of a stream that is still open.
LEMMA FinishKeeps ==
  ASSUME StreamInv, NEW how \in {"done", "eof", "error"}, NEW s, Finish(how, s),
         Finished(s, how)
  PROVE  StreamInv'
<1>1. shape' = shape /\ deltas' = deltas /\ seen' = seen /\ source' = how /\ sw' = s
  BY DEF Finish
<1>2. /\ s \in Writer /\ Len(s.out) >= Len(sw.out) /\ Honest(s.out, how, deltas)
      /\ shape = "anthropic" => Enveloped(s.out)
  BY DEF Finished
<1>3. seen \in 0..Len(sw.out) /\ Len(sw.out) \in Nat /\ Len(s.out) \in Nat
  BY <1>2 DEF StreamInv, Writer
<1>4. seen \in 0..Len(s.out)
  BY <1>2, <1>3
<1>5. source' # "open"
  BY <1>1
<1>6. Honest(sw.out, source, deltas)'
  <2>1. Honest(s.out, how, deltas)
    BY <1>2
  <2> QED
    BY <1>1, <2>1 DEF Honest, TextCount
<1>7. (shape = "anthropic" => Enveloped(sw.out))'
  BY <1>1, <1>2 DEF Enveloped
<1>8. OpenWriter'
  BY <1>5 DEF OpenWriter
<1> QED
  BY <1>1, <1>2, <1>4, <1>6, <1>7, <1>8 DEF StreamInv

\* A chunk of text.
LEMMA DeltaKeeps ==
  ASSUME StreamInv, Delta
  PROVE  StreamInv'
<1>1. /\ source = "open" /\ sw \in Writer /\ deltas \in Nat /\ shape \in Shape
      /\ seen \in 0..Len(sw.out) /\ Len(sw.out) \in Nat /\ ~ sw.finished
  BY DEF StreamInv, Delta, OpenWriter, Writer
<1>2. /\ source' = "open" /\ shape' = shape /\ seen' = seen /\ deltas' = deltas + 1
      /\ sw' = WriteChunk(sw, FALSE, 0)
  BY <1>1 DEF Delta
<1>3. CASE shape = "anthropic"
  <2> DEFINE u == ensureStarted(sw)
  <2>1. u \in Writer /\ ~ u.finished /\ u.started /\ Opened(u.out, deltas) /\ Len(u.out) >= Len(sw.out)
    BY <1>1, <1>3, StartedOpen
  <2>2. sw' = Sent(u, <<"delta">>)
    BY <1>2, <1>3 DEF WriteChunk, anthropicWriteChunk
  <2> HIDE DEF u
  <2>3. <<"delta">> \in Seq(Event) /\ Len(<<"delta">>) = 1 /\ <<"delta">>[1] = "delta"
    BY DEF Event
  <2>4. Extended(sw', u, <<"delta">>)
    BY <2>1, <2>2, <2>3, SentFacts
  <2>5. sw' \in Writer /\ sw'.started /\ ~ sw'.finished
    BY <2>1, <2>4 DEF Extended
  <2>6. /\ Len(u.out) = deltas + 1 /\ Len(sw'.out) = deltas + 2 /\ sw'.out \in Seq(Event)
        /\ \A k \in 1..(deltas + 1) : sw'.out[k] = u.out[k]
    BY <1>1, <2>1, <2>3, <2>4 DEF Extended, Opened
  <2>7. sw'.out[deltas + 1 + 1] = "delta"
    <3>1. 1 \in 1..Len(<<"delta">>)
      BY <2>3
    <3> QED
      BY <2>3, <2>4, <2>6, <3>1 DEF Extended
  <2>8. Opened(sw'.out, deltas + 1)
    <3>1. Len(sw'.out) = (deltas + 1) + 1
      BY <1>1, <2>6
    <3>2. sw'.out[1] = "message_start"
      BY <1>1, <2>1, <2>6 DEF Opened
    <3>3. ASSUME NEW k \in 2..((deltas + 1) + 1) PROVE sw'.out[k] = "delta"
      BY <1>1, <2>1, <2>6, <2>7 DEF Opened
    <3> QED
      BY <2>6, <3>1, <3>2, <3>3 DEF Opened
  <2>9. Opened(sw.out, deltas)'
    BY <1>2, <2>8 DEF Opened
  <2>10. OpenWriter'
    BY <1>2, <1>3, <2>5, <2>9 DEF OpenWriter
  <2>11. seen' \in 0..Len(sw'.out) /\ deltas' \in Nat
    <3>1. deltas' \in Nat /\ seen' = seen
      BY <1>1, <1>2
    <3>2. Len(sw'.out) \in Nat /\ Len(sw.out) <= Len(sw'.out)
      <4>1. deltas + 1 >= Len(sw.out)
        BY <2>1, <2>6
      <4>2. Len(sw'.out) = deltas + 2
        BY <2>6
      <4> QED
        BY <1>1, <4>1, <4>2
    <3> QED
      BY <1>1, <3>1, <3>2
  <2> QED
    BY <1>1, <1>2, <2>5, <2>10, <2>11 DEF StreamInv
<1>4. CASE shape # "anthropic"
  <2>1. <<"chunk">> \in Seq(Event) /\ Len(<<"chunk">>) = 1 /\ <<"chunk">>[1] = "chunk"
    BY DEF Event
  <2>2. sw' = Sent(sw, <<"chunk">>)
    <3>1. shape = "openai" \/ shape = "ollama"
      BY <1>1, <1>4 DEF Shape
    <3> QED
      BY <1>2, <3>1 DEF WriteChunk, openAIWriteChunk, ollamaWriteChunk
  <2>3. Extended(sw', sw, <<"chunk">>)
    BY <1>1, <2>1, <2>2, SentFacts
  <2>4. Chunked(sw.out, deltas)
    BY <1>1, <1>4 DEF StreamInv, OpenWriter
  <2>5. sw' \in Writer /\ ~ sw'.finished
    BY <1>1, <2>3 DEF Extended
  <2>6. /\ Len(sw.out) = deltas /\ Len(sw'.out) = deltas + 1 /\ sw'.out \in Seq(Event)
        /\ \A k \in 1..deltas : sw'.out[k] = sw.out[k]
    BY <2>1, <2>3, <2>4 DEF Extended, Chunked
  <2>7. sw'.out[deltas + 1] = "chunk"
    <3>1. 1 \in 1..Len(<<"chunk">>)
      BY <2>1
    <3> QED
      BY <2>1, <2>3, <2>6, <3>1 DEF Extended
  <2>8. \A k \in 1..(deltas + 1) : sw'.out[k] = "chunk"
    BY <1>1, <2>4, <2>6, <2>7 DEF Chunked
  <2>9. Chunked(sw.out, deltas)'
    BY <1>2, <2>6, <2>8 DEF Chunked
  <2>10. OpenWriter'
    BY <1>2, <1>4, <2>5, <2>9 DEF OpenWriter
  <2>11. seen' \in 0..Len(sw'.out) /\ deltas' \in Nat
    <3>1. deltas' \in Nat /\ seen' = seen
      BY <1>1, <1>2
    <3>2. Len(sw'.out) \in Nat /\ Len(sw.out) <= Len(sw'.out)
      <4>1. Len(sw'.out) = Len(sw.out) + 1
        BY <2>6
      <4> QED
        BY <1>1, <4>1
    <3> QED
      BY <1>1, <3>1, <3>2
  <2> QED
    BY <1>1, <1>2, <2>5, <2>10, <2>11 DEF StreamInv
<1> QED
  BY <1>3, <1>4

\* Every other step leaves what was written alone.
LEMMA QuietKeeps ==
  ASSUME StreamInv, UNCHANGED <<shape, sw, deltas, source>>, seen' \in 0..Len(sw.out)
  PROVE  StreamInv'
<1>1. (source # "open" => Honest(sw.out, source, deltas))'
  BY DEF StreamInv, Honest, TextCount
<1>2. (shape = "anthropic" /\ source # "open" => Enveloped(sw.out))'
  BY DEF StreamInv, Enveloped
<1>3. OpenWriter'
  BY DEF StreamInv, OpenWriter, Opened, Chunked
<1> QED
  BY <1>1, <1>2, <1>3 DEF StreamInv

LEMMA StreamInitially == Init => StreamInv
<1> SUFFICES ASSUME Init PROVE StreamInv
  OBVIOUS
<1>1. sw = [started |-> FALSE, finished |-> FALSE, out |-> <<>>] /\ <<>> \in Seq(Event) /\ Len(<<>>) = 0
  BY DEF Init, NewWriter
<1>2. sw \in Writer /\ ~ sw.finished /\ ~ sw.started /\ sw.out = <<>> /\ Len(sw.out) = 0
  BY <1>1 DEF Writer
<1>3. shape \in Shape /\ deltas = 0 /\ source = "open" /\ seen = 0
  BY DEF Init
<1>4. OpenWriter
  BY <1>1, <1>2, <1>3 DEF OpenWriter, Chunked
<1> QED
  BY <1>2, <1>3, <1>4 DEF StreamInv

LEMMA StreamStep == StreamInv /\ [Next]_vars => StreamInv'
<1> SUFFICES ASSUME StreamInv, [Next]_vars PROVE StreamInv'
  OBVIOUS
<1>1. MaxTools \in Nat /\ seen \in 0..Len(sw.out) /\ Len(sw.out) \in Nat
  BY ReasoningBounds DEF StreamInv, Writer
<1>2. CASE Delta
  BY <1>2, DeltaKeeps
<1>3. CASE EndOfStream
  <2>1. Finish("eof", Returned(Close(sw), FALSE)) /\ source = "open"
    BY <1>3 DEF EndOfStream, Finish
  <2> QED
    <3>1. Finished(Returned(Close(sw), FALSE), "eof")
      BY <2>1, EndOfStreamFinishes, Zenon
    <3>2. "eof" \in {"done", "eof", "error"}
      OBVIOUS
    <3> QED
      BY <2>1, <3>1, <3>2, FinishKeeps, Zenon
<1>4. CASE BackendError
  <2>1. Finish("error", Returned(sw, TRUE)) /\ source = "open"
    BY <1>4 DEF BackendError, Finish
  <2> QED
    <3>1. Finished(Returned(sw, TRUE), "error")
      BY <2>1, BackendErrorFinishes, Zenon
    <3>2. "error" \in {"done", "eof", "error"}
      OBVIOUS
    <3> QED
      BY <2>1, <3>1, <3>2, FinishKeeps, Zenon
<1>5. ASSUME NEW tools \in 0..MaxTools, DoneChunk(tools) PROVE StreamInv'
  <2>1. /\ Finish("done", Returned(Close(WriteChunk(sw, TRUE, tools)), FALSE))
        /\ source = "open" /\ tools \in Nat
    BY <1>1, <1>5 DEF DoneChunk, Finish
  <2> QED
    <3>1. Finished(Returned(Close(WriteChunk(sw, TRUE, tools)), FALSE), "done")
      BY <2>1, DoneChunkFinishes, Zenon
    <3>2. "done" \in {"done", "eof", "error"}
      OBVIOUS
    <3> QED
      BY <2>1, <3>1, <3>2, FinishKeeps, Zenon
<1>6. CASE Relay
  <2>1. UNCHANGED <<shape, sw, deltas, source>> /\ seen' \in 0..Len(sw.out)
    BY <1>1, <1>6 DEF Relay
  <2> QED
    BY <2>1, QuietKeeps
<1>7. ASSUME UNCHANGED <<shape, sw, deltas, source, seen>> PROVE StreamInv'
  BY <1>1, <1>7, QuietKeeps
<1>8. CASE UNCHANGED vars
  BY <1>7, <1>8 DEF vars
<1>9. ASSUME NEW m \in Member, NEW l \in Member \cup {None}, Elect(m, l) PROVE StreamInv'
  BY <1>7, <1>9 DEF Elect, exchange
<1>10. ASSUME NEW m \in Member, NEW l \in Member, Forget(m, l) PROVE StreamInv'
  BY <1>7, <1>10 DEF Forget, exchange
<1>11. ASSUME NEW m \in Member, Ask(m) PROVE StreamInv'
  BY <1>7, <1>11 DEF Ask
<1>12. ASSUME NEW code, Reply(code) PROVE StreamInv'
  BY <1>7, <1>12 DEF Reply
<1>13. CASE BeginStream
  BY <1>7, <1>13 DEF BeginStream
<1>14. CASE Rejected \/ NoRoute \/ Unreachable
  BY <1>12, <1>14 DEF Rejected, NoRoute, Unreachable
<1>15. CASE SelfRoute \/ PeerProxy
  BY <1>7, <1>15 DEF SelfRoute, PeerProxy
<1>16. CASE handleAnthropicMessages \/ handleOpenAIChat \/ handleOllamaChat
  BY <1>12, <1>13, <1>16 DEF handleAnthropicMessages, handleOpenAIChat, handleOllamaChat
<1>17. CASE StreamOver \/ Cut
  BY <1>7, <1>17 DEF StreamOver, Cut
<1> QED
  BY <1>2, <1>3, <1>4, <1>5, <1>6, <1>8, <1>9, <1>10, <1>11, <1>14, <1>15, <1>16, <1>17 DEF Next

\* The invariant of the stream writers: an open one holds the text the backend
\* sent and nothing more, a closed one a complete message or the news that it is
\* not.
THEOREM StreamSafe == Spec => []StreamInv
BY StreamInitially, StreamStep, PTL DEF Spec

\* AnthropicEnvelope, of the code of anthropicStreamWriter and streamAnthropic:
\* one message_start with nothing but errors before it, one message_stop with
\* nothing after it.
THEOREM StreamEnveloped == Spec => []AnthropicEnvelope
<1>1. ASSUME StreamInv PROVE AnthropicEnvelope
  <2> SUFFICES ASSUME shape = "anthropic"
               PROVE  /\ \A k \in DOMAIN sw.out : sw.out[k] \notin {"error", "message_start"} =>
                           \E j \in At("message_start") : j < k
                      /\ At("message_stop") \subseteq {Len(sw.out)}
                      /\ Cardinality(At("message_start")) <= 1
                      /\ source # "open" => At("message_start") # {} /\ At("message_stop") # {}
    BY DEF AnthropicEnvelope
  <2>1. sw.out \in Seq(Event) /\ Len(sw.out) \in Nat /\ DOMAIN sw.out = 1..Len(sw.out) /\ deltas \in Nat
    BY <1>1 DEF StreamInv, Writer
  <2>2. \A k : k \in At("message_start") <=> k \in 1..Len(sw.out) /\ sw.out[k] = "message_start"
    BY <2>1 DEF At
  <2>3. \A k : k \in At("message_stop") <=> k \in 1..Len(sw.out) /\ sw.out[k] = "message_stop"
    BY <2>1 DEF At
  <2>4. ASSUME NEW i, At("message_start") \subseteq {i} PROVE Cardinality(At("message_start")) <= 1
    <3>1. At("message_start") = {} \/ At("message_start") = {i}
      BY <2>4
    <3>2. Cardinality({}) = 0 /\ Cardinality({i}) = 1
      BY FS_EmptySet, FS_Singleton
    <3> QED
      BY <3>1, <3>2
  <2>5. CASE source = "open" /\ sw.started
    <3>1. Opened(sw.out, deltas)
      BY <1>1, <2>5 DEF StreamInv, OpenWriter
    <3>2. /\ 1 \in At("message_start")
          /\ \A k \in 1..Len(sw.out) : k = 1 \/ sw.out[k] = "delta"
      BY <2>1, <2>2, <3>1 DEF Opened
    <3>3. At("message_start") \subseteq {1} /\ At("message_stop") = {}
      BY <2>2, <2>3, <3>1, <3>2 DEF Opened
    <3>4. \A k \in DOMAIN sw.out : sw.out[k] \notin {"error", "message_start"} => 1 < k
      BY <2>1, <3>1 DEF Opened
    <3> QED
      BY <2>4, <2>5, <3>2, <3>3, <3>4
  <2>6. CASE source = "open" /\ ~ sw.started
    <3>1. Len(sw.out) = 0
      BY <1>1, <2>6 DEF StreamInv, OpenWriter
    <3>2. At("message_start") = {} /\ At("message_stop") = {} /\ DOMAIN sw.out = {}
      BY <2>1, <2>2, <2>3, <3>1
    <3> QED
      BY <2>4, <2>6, <3>2
  <2>7. CASE source # "open"
    <3>1. Enveloped(sw.out)
      BY <1>1, <2>7 DEF StreamInv
    <3>2. PICK i \in 1..Len(sw.out) : /\ sw.out[i] = "message_start"
                                      /\ \A k \in 1..Len(sw.out) : sw.out[k] = "message_start" => k = i
                                      /\ \A k \in 1..(i - 1) : sw.out[k] = "error"
      BY <3>1 DEF Enveloped
    <3>3. i \in At("message_start") /\ At("message_start") \subseteq {i}
      BY <2>2, <3>2
    <3>4. Len(sw.out) \in At("message_stop") /\ At("message_stop") \subseteq {Len(sw.out)}
      BY <2>1, <2>3, <3>1 DEF Enveloped
    <3>5. \A k \in DOMAIN sw.out : sw.out[k] \notin {"error", "message_start"} => i < k
      <4> SUFFICES ASSUME NEW k \in 1..Len(sw.out), sw.out[k] \notin {"error", "message_start"} PROVE i < k
        BY <2>1
      <4>1. k # i /\ k \notin 1..(i - 1)
        BY <3>2
      <4> QED
        BY <2>1, <3>2, <4>1
    <3> QED
      BY <2>4, <3>3, <3>4, <3>5
  <2> QED
    BY <2>5, <2>6, <2>7
<1> QED
  BY <1>1, StreamSafe, PTL

\* EndMarkerHonest, of the three stream writers and of Ollama.ChatStream: an end
\* marker the client saw comes after the whole text of a backend that ended its
\* stream, or after an error.
THEOREM EndMarkersHonest == Spec => []EndMarkerHonest
<1>1. ASSUME StreamInv PROVE EndMarkerHonest
  <2> SUFFICES ASSUME NEW k \in 1..seen, sw.out[k] \in EndMarker
               PROVE  \/ source \in {"done", "eof"} /\ Cardinality(Texts(k)) = deltas
                      \/ \E j \in 1..(k - 1) : sw.out[j] = "error"
    BY DEF EndMarkerHonest, EndMarker
  <2>1. seen \in 0..Len(sw.out) /\ Len(sw.out) \in Nat /\ deltas \in Nat /\ k \in 1..Len(sw.out)
    BY <1>1 DEF StreamInv, Writer
  <2>2. TextCount(sw.out, k) = Cardinality(Texts(k))
    BY DEF TextCount, Texts, Text
  <2>3. source # "open"
    <3>1. CASE shape = "anthropic" /\ source = "open"
      <4>1. sw.out = <<>> \/ Opened(sw.out, deltas)
        BY <1>1, <3>1 DEF StreamInv, OpenWriter
      <4>2. CASE sw.out = <<>>
        BY <2>1, <4>2
      <4>3. CASE Opened(sw.out, deltas)
        BY <2>1, <4>3 DEF Opened, EndMarker
      <4> QED
        BY <4>1, <4>2, <4>3
    <3>2. CASE shape # "anthropic" /\ source = "open"
      <4>1. Chunked(sw.out, deltas)
        BY <1>1, <3>2 DEF StreamInv, OpenWriter
      <4> QED
        BY <2>1, <4>1 DEF Chunked, EndMarker
    <3> QED
      BY <3>1, <3>2
  <2>4. Honest(sw.out, source, deltas)
    BY <1>1, <2>3 DEF StreamInv
  <2> QED
    BY <2>1, <2>2, <2>4 DEF Honest
<1> QED
  BY <1>1, StreamSafe, PTL
=============================================================================
