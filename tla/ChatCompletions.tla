---------------------------- MODULE ChatCompletions ----------------------------
(* One request to a Chat Completions provider (adapter, stream, errors): the      *)
(* credential, the answer in chunks cut anywhere, the deadline and the user's    *)
(* cancellation.  Texts, limits in bytes and the transport are left out.        *)
EXTENDS Naturals, Sequences, FiniteSets

LOCAL INSTANCE SequencesExt

CONSTANTS WireEvents,   \* the events the server may send
          Configured,   \* the models that are configured
          MaxPieces     \* bound: pieces of the stream (an event, or the blank line after it)

VARIABLES request,      \* "none", or its kind and whether tools were offered
          phase,        \* where the request is
          aborted, timedOut,
          buffer,       \* what was received and not consumed
          progress,     \* what the events consumed so far have said
          settled,      \* the result
          sent          \* history: the pieces the server has sent

chatVars == <<request, phase, aborted, timedOut, buffer, progress, settled, sent>>

Blank == "|"
NotSettled == [status |-> "none", code |-> "none", finish |-> "none", calls |-> 0, by |-> "none"]
Fragments == {"call0", "call1", "args0", "anonymous"}   \* an index and a name, or one of them
Fresh == [done |-> FALSE, terminal |-> FALSE, finish |-> "unknown", named |-> <<>>,
          deltas |-> 0, failed |-> "no"]

ChatInit ==
    /\ request = [kind |-> "none", tools |-> FALSE] /\ phase = "idle"
    /\ aborted = FALSE /\ timedOut = FALSE /\ buffer = <<>> /\ progress = Fresh
    /\ settled = NotSettled /\ sent = <<>>

-----------------------------------------------------------------------------
(* accumulateToolCall: a fragment without an index opens the next call.  `named` *)
(* says of each index whether its name has been received.                      *)
Indexed(named, e) ==
    CASE e = "call0" -> [at |-> 0, name |-> TRUE] [] e = "call1" -> [at |-> 1, name |-> TRUE]
      [] e = "args0" -> [at |-> 0, name |-> FALSE]
      [] OTHER -> [at |-> Cardinality(DOMAIN named), name |-> TRUE]
Accumulate(named, e) ==
    LET call == Indexed(named, e)
    IN  [i \in DOMAIN named \cup {call.at} |->
            (i \in DOMAIN named /\ named[i]) \/ (i = call.at /\ call.name)]

(* consumeEvent: nothing counts after [DONE]. *)
ConsumeEvent(p, e) ==
    CASE p.done \/ p.failed # "no" \/ e = "comment" -> p
      [] e = "done" -> [p EXCEPT !.done = TRUE, !.terminal = TRUE]
      [] e = "delta" -> [p EXCEPT !.deltas = @ + 1]
      [] e = "error" -> [p EXCEPT !.failed = "provider"]
      [] e = "stop" -> [p EXCEPT !.terminal = TRUE, !.finish = "stop"]
      [] e = "tool_calls" /\ request.tools -> [p EXCEPT !.terminal = TRUE, !.finish = "tool-calls"]
      [] e \in Fragments /\ request.tools -> [p EXCEPT !.named = Accumulate(@, e)]
      [] OTHER -> [p EXCEPT !.failed = "protocol"]

(* The events of a buffer that are complete, and what is left. *)
LastBlank(pieces) == SelectLastInSeq(pieces, LAMBDA x : x = Blank)
Complete(pieces) == SelectSeq(SubSeq(pieces, 1, LastBlank(pieces)), LAMBDA x : x # Blank)
RestDropped(pieces) == IF LastBlank(pieces) = 0 THEN pieces ELSE <<>>
Rest(pieces) == SubSeq(pieces, LastBlank(pieces) + 1, Len(pieces))

-----------------------------------------------------------------------------
Settle(result) == settled' = result /\ phase' = "settled"
Failure(code) == [status |-> "error", code |-> code, finish |-> "none", calls |-> 0, by |-> "adapter"]
Success(finish, calls) ==
    [status |-> "ok", code |-> "none", finish |-> finish, calls |-> calls, by |-> "adapter"]

(* What a status of error says, and what the body may make of it: a quota that is *)
(* spent, or a code of its own (0 is none) instead of the status.              *)
Statuses == {400, 401, 402, 404, 408, 429, 500, 504}
ErrorFromStatus(status) ==
    CASE status \in {401, 403} -> "authentication-failed" [] status = 402 -> "insufficient-credits"
      [] status = 404 -> "model-unavailable" [] status \in {408, 504} -> "timeout"
      [] status = 429 -> "rate-limited" [] status >= 500 -> "provider-unavailable"
      [] OTHER -> "invalid-response"
ErrorFromPayload(quota, code, status) ==
    IF quota THEN ErrorFromStatus(402)
    ELSE ErrorFromStatus(IF code \in 400..599 THEN code ELSE status)
Told(code) == [Failure(code) EXCEPT !.by = "provider"]

(* The catch of execute, embed and requestModelCatalog; an error of the provider  *)
(* passes as it is (in the stream: an event of error without a code).          *)
Classified(reason) ==
    IF reason = "provider" THEN Told(ErrorFromPayload(FALSE, 0, 502))
    ELSE IF aborted THEN Failure("cancelled")
    ELSE IF timedOut THEN Failure("timeout")
    ELSE IF reason = "protocol" THEN Failure("invalid-response")
    ELSE Failure("provider-unavailable")

(* A provider that is disabled or a model of another one is refused at once; so    *)
(* are inputs beyond the limits of embed.                                      *)
Begin(kind, refusals) ==
    /\ phase = "idle" /\ request' \in [kind : {kind}, tools : {FALSE, kind = "chat"}]
    /\ \/ phase' = "credential" /\ UNCHANGED settled
       \/ \E code \in refusals : Settle(Failure(code))
    /\ UNCHANGED <<aborted, timedOut, buffer, progress, sent>>
Execute == Begin("chat", {"provider-unavailable", "model-unavailable"})
ValidatedInputs == {"invalid-response"}
Embed == Begin("embed", {"provider-unavailable", "model-unavailable"} \cup ValidatedInputs)
RequestModelCatalog == Begin("catalog", {})

Credential(found) ==
    /\ phase = "credential"
    /\ IF ~found THEN Settle(Failure("authentication-failed"))
       ELSE IF aborted THEN Settle(Failure("cancelled"))
       ELSE phase' = "requesting" /\ UNCHANGED settled
    /\ UNCHANGED <<request, aborted, timedOut, buffer, progress, sent>>

Stopped == aborted \/ timedOut
Answers ==
    /\ phase = "requesting" /\ ~Stopped
    /\ \/ phase' = "refused" /\ UNCHANGED settled     \* a status of error, its body to be read
       \/ phase' = (IF request.kind = "chat" THEN "reading" ELSE "body") /\ UNCHANGED settled
       \/ Settle(Classified("protocol"))              \* not an event stream
    /\ UNCHANGED <<request, aborted, timedOut, buffer, progress, sent>>

(* Whatever happens to its body, a status of error is the provider's answer. *)
Refused ==
    /\ phase = "refused"
    /\ \E quota \in BOOLEAN, code \in {0} \cup Statuses, status \in Statuses :
           Settle(Told(ErrorFromPayload(quota, code, status)))
    /\ UNCHANGED <<request, aborted, timedOut, buffer, progress, sent>>

(* normalizeModelCatalog: every model has an identifier of its own, or the catalog *)
(* is refused; what is already known of a model is kept.                       *)
Catalogs == BoundedSeq(Configured \cup {"new", ""}, 2)
NormalizeCatalog(ids) ==
    IF Cardinality(ToSet(ids)) = Len(ids) /\ "" \notin ToSet(ids)
    THEN {[id |-> id, known |-> id \in Configured] : id \in ToSet(ids)} ELSE {}
Refuses(ids) == ids # <<>> /\ NormalizeCatalog(ids) = {}

(* getAvailability, of an enabled provider. *)
CatalogAvailability(ids) ==
    IF Configured \subseteq {model.id : model \in NormalizeCatalog(ids)}
    THEN "available" ELSE "degraded"
AvailabilityFromError(code) ==
    CASE code = "authentication-failed" -> "authentication-required"
      [] code = "model-unavailable" -> "incompatible"
      [] code \in {"timeout", "provider-unavailable"} -> "offline"
      [] OTHER -> "degraded"
Availability ==
    IF settled.status = "ok" THEN settled.finish ELSE AvailabilityFromError(settled.code)

Body ==
    /\ phase = "body" /\ ~Stopped
    /\ \/ request.kind = "embed" /\ Settle(Success("none", 0))
       \/ Settle(Classified("protocol"))
       \/ /\ request.kind = "catalog"
          /\ \E ids \in Catalogs :
                 IF Refuses(ids) THEN Settle(Classified("protocol"))
                 ELSE Settle(Success(CatalogAvailability(ids), 0))
    /\ UNCHANGED <<request, aborted, timedOut, buffer, progress, sent>>

(* A chunk: some pieces, every event they complete consumed at once. *)
Chunk(pieces) ==
    /\ phase = "reading" /\ ~Stopped /\ Len(sent) + Len(pieces) <= MaxPieces
    /\ (Head(pieces) = Blank) = (Len(sent) % 2 = 1)
    /\ sent' = sent \o pieces
    /\ buffer' = Rest(buffer \o pieces)
    /\ progress' = FoldLeft(ConsumeEvent, progress, Complete(buffer \o pieces))
    /\ IF progress'.failed = "no" THEN UNCHANGED <<phase, settled>>
       ELSE Settle(Classified(progress'.failed))
    /\ UNCHANGED <<request, aborted, timedOut>>

(* The end of the stream, finalizeToolCalls and the result. *)
Final(p) ==
    IF p.failed # "no" THEN Classified(p.failed)
    ELSE IF ~p.terminal \/ (\E i \in DOMAIN p.named : ~p.named[i]) THEN Classified("protocol")
    ELSE IF DOMAIN p.named # {}
    THEN Success("tool-calls", Cardinality(DOMAIN p.named))
    ELSE IF p.finish = "tool-calls" THEN Classified("protocol")
    ELSE Success(p.finish, 0)
StreamEnds ==
    /\ phase = "reading" /\ ~Stopped
    /\ LET end == FoldLeft(ConsumeEvent, progress, buffer)
       IN  progress' = end /\ Settle(Final(end))
    /\ buffer' = <<>> /\ UNCHANGED <<request, aborted, timedOut, sent>>

NetworkFails ==
    /\ phase \in {"requesting", "reading", "body"} /\ Settle(Classified("network"))
    /\ UNCHANGED <<request, aborted, timedOut, buffer, progress, sent>>

(* createRequestControl: its timer runs from the request on; a catalog has no     *)
(* parent signal.  Either ends what is awaited with a rejection.               *)
Times == phase \in {"requesting", "refused", "reading", "body"}
TimerFires ==
    /\ Times /\ ~timedOut /\ timedOut' = TRUE
    /\ UNCHANGED <<request, phase, aborted, buffer, progress, settled, sent>>
Abort ==
    /\ phase \notin {"idle", "settled"} /\ request.kind # "catalog" /\ ~aborted /\ aborted' = TRUE
    /\ UNCHANGED <<request, phase, timedOut, buffer, progress, settled, sent>>
Rejected == Stopped /\ NetworkFails

ChatWork == (\E found \in BOOLEAN : Credential(found)) \/ TimerFires \/ Rejected \/ Refused
Pieces == {<<e>> : e \in WireEvents \cup {Blank}} \cup {<<e, Blank>> : e \in WireEvents}
          \cup {<<Blank, e>> : e \in WireEvents}
ChatNext ==
    \/ Execute \/ Embed \/ RequestModelCatalog \/ Answers \/ Body \/ StreamEnds \/ NetworkFails \/ Abort \/ ChatWork
    \/ \E pieces \in Pieces : Chunk(pieces)

-----------------------------------------------------------------------------
(* normalizeEmbeddingResponse: vectors by the index the provider gave them. *)
RECURSIVE Placed(_, _)
Placed(vectors, items) ==
    IF items = <<>> THEN vectors
    ELSE LET i == Head(items) + 1
         IN  IF i \notin DOMAIN vectors \/ vectors[i] # 0 THEN <<>>
             ELSE Placed([vectors EXCEPT ![i] = Len(vectors) - Len(items) + 1], Tail(items))
Embeddings(items, inputs) ==
    IF Len(items) # inputs THEN <<>> ELSE Placed([i \in 1..inputs |-> 0], items)

(* Each input gets the vector that names it, in whatever order they came, or the  *)
(* whole answer is refused.                                                    *)
VectorsFollowInputs ==
    \A items \in TupleOf(0..3, 3) \cup TupleOf(0..2, 2) :
        LET vectors == Embeddings(items, 3)
        IN  IF Len(items) = 3 /\ {items[i] : i \in 1..3} = 0..2
            THEN \A i \in 1..3 : items[vectors[i]] = i - 1
            ELSE vectors = <<>>

(* A catalog with a model twice or without a name is refused, and a connection is   *)
(* called available only when the provider offers every configured model.       *)
CatalogsTellModels ==
    \A ids \in Catalogs :
        /\ Refuses(ids) = \E i, j \in DOMAIN ids : ids[i] = "" \/ (i # j /\ ids[i] = ids[j])
        /\ ~Refuses(ids) =>
               (CatalogAvailability(ids) = "available") = (Configured \ ToSet(ids) = {})

ChatTypeOK ==
    /\ progress.deltas \in 0..MaxPieces /\ Len(buffer) <= MaxPieces
    /\ phase \in {"idle", "credential", "requesting", "refused", "reading", "body", "settled"}

(* What has been shown of the answer is what the complete events before [DONE]     *)
(* hold, wherever the chunks were cut.                                         *)
Counted(events) ==
    LET end == SelectInSeq(events, LAMBDA e : e = "done")
    IN  SelectSeq(IF end = 0 THEN events ELSE SubSeq(events, 1, end), LAMBDA e : e = "delta")
DeltasFollowStream ==
    phase = "reading" => progress.deltas = Len(Counted(Complete(sent)))

(* An answer counts as complete only when the server said so, and its calls are   *)
(* all named; a stream cut short is an error.                                  *)
CompleteAnswersOnly ==
    request.kind = "chat" /\ phase = "settled" =>
        (settled.status = "ok" =>
            /\ \E i \in DOMAIN sent : sent[i] \in {"done", "stop", "tool_calls"}
            /\ (settled.finish = "tool-calls") = (settled.calls > 0)
            /\ settled.calls > 0 => request.tools
            /\ \A i \in DOMAIN progress.named : progress.named[i])

(* What the user cancelled is never told as a failure, unless it is the one the     *)
(* provider itself answered with.                                              *)
CancelIsNotAFailure ==
    phase = "settled" /\ aborted /\ settled.by = "adapter" => settled.code \notin {"timeout", "invalid-response", "provider-unavailable"}

(* What a test of the connection says: available only after a whole catalog, and a *)
(* provider that refused the credential, or gave no answer in time, is told so. *)
AvailabilityTellsAnswer ==
    phase = "settled" /\ request.kind = "catalog" =>
        /\ Availability = "available" => settled.status = "ok" /\ settled.by = "adapter"
        /\ settled.code = "authentication-failed" => Availability = "authentication-required"
        /\ timedOut /\ settled.by = "adapter" /\ settled.status = "error" => Availability \in {"offline", "authentication-required"}
=============================================================================
