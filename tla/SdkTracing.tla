------------------------------ MODULE SdkTracing ------------------------------
(***************************************************************************)
(* sdk-js/src: how a span is started, ended and handed to the span queue   *)
(* (SdkSpanQueue models what the queue does with it).                      *)
(*                                                                         *)
(* A call is a span of its own.  Its kind tells who ends it: the program,  *)
(* through the handle of startSpan() (manual); trace(), or the program     *)
(* before it (traced); the patched create() of a vendor's client (unary),  *)
(* or the iterable that create() returns (openai, anthropic).              *)
(***************************************************************************)
EXTENDS Naturals, Sequences, FiniteSets

CONSTANTS Call, Reader, Kind,
  MaxChunks     \* bound: the chunks of a streamed answer

\* Assumed by the module that instantiates this one.
SdkTracingAssumption ==
  IsFiniteSet(Reader) /\ MaxChunks \in Nat /\ Kind \subseteq {"manual", "traced", "unary", "openai", "anthropic"}

VARIABLES
  call,     \* the kind, the progress and the trace of each call, and ActiveSpan.ended
  stream,   \* the chunks that a call's answer still has, and collectedChunks
  reader,   \* the iterators that a program makes of a call's iterable
  sent,     \* the records of each call that the queue took
  closed,   \* the client is shut down
  dropped   \* history: the calls of which the closed queue refused a record

vars == <<call, stream, reader, sent, closed, dropped>>

Init ==
  /\ call \in {[c \in Call |-> [kind |-> k[c], at |-> "new", trace |-> c, ended |-> FALSE]] : k \in [Call -> Kind]}
  /\ stream \in {[c \in Call |-> [left |-> n, collected |-> 0]] : n \in 0..MaxChunks}
  /\ reader = [c \in Call |-> [i \in Reader |-> [at |-> "new", got |-> 0]]]
  /\ sent = [c \in Call |-> <<>>]
  /\ closed = FALSE
  /\ dropped = {}

\* Tracer.endSpan() computes a finished copy; enqueue() ignores it after shutdown().
EndSpan(c, status, chunks) ==
  IF closed THEN dropped' = dropped \cup {c} /\ UNCHANGED sent
  ELSE sent' = [sent EXCEPT ![c] = Append(@, [status |-> status, chunks |-> chunks])] /\ UNCHANGED dropped

\* endSpan() reports an error if it is given one, and takes the empty string, thrown
\* as it is (blank), for none.
StatusAt(at) == IF at = "threw" THEN "error" ELSE "ok"

\* A call made inside the function of trace(), or by what that function left
\* running, belongs to its trace: the context follows the asynchronous calls.
Start(c) ==
  /\ call[c].at = "new"
  /\ \E context \in {c} \cup {d \in Call : call[d].kind = "traced" /\ call[d].at # "new"} :
       call' = [call EXCEPT ![c].at = "open", ![c].trace = call[context].trace]
  /\ UNCHANGED <<stream, reader, sent, closed, dropped>>

\* Mutant of Once: a handle that was ended is ended again.
OnceMore(c, status) == EndSpan(c, status, 0)

\* ActiveSpan.end() and setError()
Once(c, status) ==
  IF call[c].ended THEN UNCHANGED <<sent, dropped>> ELSE EndSpan(c, status, 0)

\* The program ends the span through its handle.
EndHandle(c) ==
  /\ call[c].kind \in {"manual", "traced"} /\ call[c].at # "new"
  /\ \E status \in {"ok", "error"} : Once(c, status)
  /\ call' = [call EXCEPT ![c].ended = TRUE]
  /\ UNCHANGED <<stream, reader, closed>>

\* trace(): the function resolves or rejects.
Settle(c) ==
  /\ call[c].kind = "traced" /\ call[c].at = "open"
  /\ \E result \in {"returned", "threw", "blank"} :
       /\ Once(c, StatusAt(result))
       /\ call' = [call EXCEPT ![c].at = result, ![c].ended = TRUE]
  /\ UNCHANGED <<stream, reader, closed>>

-----------------------------------------------------------------------------
(* The patched create() of openai.ts and of anthropic.ts. *)

\* The vendor answers.
Respond(c) ==
  /\ call[c].at = "open"
  /\ \/ /\ call[c].kind = "unary"
        /\ call' = [call EXCEPT ![c].at = "returned"]
        /\ EndSpan(c, "ok", 0)
     \/ /\ call[c].kind \in {"openai", "anthropic"}
        /\ call' = [call EXCEPT ![c].at = "streaming"]
        /\ UNCHANGED <<sent, dropped>>
  /\ UNCHANGED <<stream, reader, closed>>

\* The vendor's create() throws, or what it returned has not the fields that a
\* unary answer is read for, which is inside the same try statement.
Fail(c) ==
  /\ call[c].at = "open" /\ call[c].kind \in {"unary", "openai", "anthropic"}
  /\ \E at \in {"threw", "blank"} : /\ call' = [call EXCEPT ![c].at = at]
                                 /\ EndSpan(c, StatusAt(at), 0)
  /\ UNCHANGED <<stream, reader, closed>>

\* Every `for await` over the iterable runs the generator anew, on the one stream.
Iterate(c, i) ==
  /\ call[c].at = "streaming" /\ reader[c][i].at = "new"
  /\ reader' = [reader EXCEPT ![c][i].at = "reading"]
  /\ UNCHANGED <<call, stream, sent, closed, dropped>>

Pull(c, i) ==
  /\ reader[c][i].at = "reading" /\ stream[c].left > 0
  /\ stream' = [stream EXCEPT ![c].left = @ - 1, ![c].collected = @ + 1]
  /\ reader' = [reader EXCEPT ![c][i].got = @ + 1]
  /\ UNCHANGED <<call, sent, closed, dropped>>

Finish(c, i, at) ==
  /\ reader[c][i].at = "reading"
  /\ reader' = [reader EXCEPT ![c][i].at = at]
  /\ UNCHANGED <<call, closed>>

\* Mutant of Collected: OpenAI's chunks are collected by each generator.
CollectedByReader(c, i) == reader[c][i].got

\* OpenAI's chunks are collected beside the generator, Anthropic's text inside it.
Collected(c, i) == IF call[c].kind = "openai" THEN stream[c].collected ELSE reader[c][i].got

Exhaust(c, i) ==
  /\ stream[c].left = 0
  /\ Finish(c, i, "done")
  /\ EndSpan(c, "ok", Collected(c, i))
  /\ UNCHANGED stream

\* The connection breaks, or the vendor's stream refuses to be iterated again: both
\* are Error objects, which are never taken for none.
StreamFails(c, i) ==
  /\ Finish(c, i, "failed")
  /\ EndSpan(c, "error", 0)
  /\ UNCHANGED stream

\* The consumer leaves its loop: the generator returns at the yield, past the end
\* of the try statement, and the vendor's stream is closed.
Leave(c, i) ==
  /\ Finish(c, i, "left")
  /\ stream' = [stream EXCEPT ![c].left = 0]
  /\ UNCHANGED <<sent, dropped>>

Shutdown ==
  /\ ~closed
  /\ closed' = TRUE
  /\ UNCHANGED <<call, stream, reader, sent, dropped>>

Next ==
  \/ \E c \in Call : Start(c) \/ EndHandle(c) \/ Settle(c) \/ Respond(c) \/ Fail(c)
  \/ \E c \in Call, i \in Reader : Iterate(c, i) \/ Pull(c, i) \/ Exhaust(c, i) \/ StreamFails(c, i) \/ Leave(c, i)
  \/ Shutdown

-----------------------------------------------------------------------------
ReadersAt(c, at) == {i \in Reader : reader[c][i].at \in at}

\* One record for a call that ended and none for one that has not: a streamed
\* call has as many as loops over it that ran to their end.
RecordPerEnd(c) ==
  c \in dropped \/
  Len(sent[c]) = IF call[c].kind \in {"manual", "traced"} THEN IF call[c].ended THEN 1 ELSE 0
                 ELSE IF call[c].at \in {"returned", "threw", "blank"} THEN 1
                 ELSE Cardinality(ReadersAt(c, {"done", "failed"}))

\* What a streamed answer's record holds is all that was received, by anyone of
\* OpenAI's loops, and by the only one of Anthropic's.
WholeAnswer(c) ==
  \A n \in DOMAIN sent[c] :
    /\ sent[c][n].status = "ok" /\ call[c].at = "streaming"
    /\ call[c].kind = "openai" \/ Cardinality(ReadersAt(c, {"reading", "done", "left", "failed"})) = 1
    => sent[c][n].chunks = stream[c].collected /\ stream[c].left = 0

\* The queue gets one record of each call that ended and none of the others, a
\* streamed answer's record is whole, and a unary call is reported as an error if
\* and only if its caller saw an exception that is not the empty string
\* (openai.ts:143, client.ts:26, tracer.ts:93).
SpanSentOnce ==
  \A c \in Call : /\ RecordPerEnd(c)
                  /\ WholeAnswer(c)
                  /\ call[c].kind = "unary" => \A n \in DOMAIN sent[c] :
                       (sent[c][n].status = "error") = (call[c].at = "threw")

=============================================================================
