----------------------------- MODULE BatchContract -----------------------------
(***************************************************************************)
(* The wire contract of POST /api/v1/telemetry/batches as both ends read   *)
(* it: how the backend judges a body and its items (telemetry/validation.py,*)
(* schemas.py) and how the sending tools judge the answer                  *)
(* (simulator/send_batch.py).  A member of an item is good, absent, or bad:*)
(* present with a value its schema refuses.                                *)
(***************************************************************************)
EXTENDS Naturals, Sequences

CONSTANTS
    MaxBatch,  \* MAX_BATCH_SIZE, 500
    MaxCounter \* the largest sequence number or uptime, 2^63 - 1

ASSUME ContractAssumption == MaxBatch \in Nat \ {0} /\ MaxCounter \in Nat

Presence == {"good", "absent", "bad"}

IdFields == {"device_id", "boot_id", "sequence_number"}
Fields   == IdFields \cup {"metric", "unit", "others"}

\* `others` is bad when there is a member the contract does not know.
Shape == [Fields -> Presence]

Faultless == [f \in Fields |-> "good"]

Errors(shape) == {f \in Fields : shape[f] # "good"}

\* A counter is an integer from 0 to MaxCounter.
IsCounter(n) == n \in 0..MaxCounter

-----------------------------------------------------------------------------
(* The backend                                                             *)

\* schema_version is the integer 1, another integer, or no integer at all;
\* extra: are there other members?
Envelope == [json : BOOLEAN, version : {"one", "other", "malformed"}, extra : BOOLEAN]

Proper == [json |-> TRUE, version |-> "one", extra |-> FALSE]

\* parse_telemetry_batch: malformed bodies and envelopes first, then the version,
\* then the size.
BatchError(envelope, items) ==
    CASE \/ ~envelope.json
         \/ envelope.version = "malformed"
         \/ envelope.extra
         \/ items = <<>>                        -> "malformed_batch"
      [] /\ envelope.json /\ ~envelope.extra /\ items # <<>>
         /\ envelope.version = "other"          -> "unsupported_schema_version"
      [] /\ envelope = Proper
         /\ Len(items) > MaxBatch               -> "batch_too_large"
      [] OTHER                                  -> "none"

\* Mutant: an absent metric or unit counts as a wrong one, and one fault of this
\* kind is enough.
ItemReason_AnyFault(shape) ==
    CASE "metric" \in Errors(shape) -> "invalid_metric"
      [] /\ "metric" \notin Errors(shape)
         /\ "unit" \in Errors(shape) -> "invalid_unit"
      [] OTHER -> "malformed_value"

\* validate_telemetry_item: a wrong metric or unit is named only when nothing else
\* is wrong.
ItemReason(shape) ==
    LET onlyLiterals == /\ Errors(shape) \subseteq {"metric", "unit"}
                        /\ \A f \in Errors(shape) : shape[f] = "bad"
    IN  CASE onlyLiterals /\ "metric" \in Errors(shape)    -> "invalid_metric"
          [] onlyLiterals /\ "metric" \notin Errors(shape) -> "invalid_unit"
          [] ~onlyLiterals                                 -> "malformed_value"

\* The identity an answer repeats: the members that are good, null for the others.
Echo(item) ==
    [f \in IdFields |-> IF item.shape[f] = "good" THEN <<item.id[f]>> ELSE <<>>]

Result(item, outcome, reason) ==
    [identity |-> Echo(item), outcome |-> outcome, reason |-> reason]

\* The answer to an item the contract refuses.
Refusal(item) == Result(item, "rejected", ItemReason(item.shape))

\* TelemetryResponseItem.validate_outcome: the model raises for anything else.
Answerable(result) ==
    LET complete == \A f \in IdFields : result.identity[f] # <<>>
    IN  IF result.outcome = "rejected"
        THEN result.reason # "none" /\ (complete \/ result.reason = "malformed_value")
        ELSE result.reason = "none" /\ complete

-----------------------------------------------------------------------------
(* The sender                                                              *)

\* What the sender knows of a member of its own item: an absent one reads as null.
Sent(item, f) ==
    CASE item.shape[f] = "good"   -> <<item.id[f]>>
      [] item.shape[f] = "absent" -> <<>>
      [] item.shape[f] = "bad"    -> <<item.id[f], "bad">>

\* One result answers one item.
Answers(item, result) ==
    /\ \A f \in IdFields : result.identity[f] = Sent(item, f)
    /\ result.outcome \in {"accepted", "duplicate", "rejected"}
    /\ (result.outcome = "rejected") = (result.reason # "none")

\* classify_response: an answer counts as a whole or not at all.
Classifiable(items, results) ==
    /\ Len(results) = Len(items)
    /\ \A i \in DOMAIN items : Answers(items[i], results[i])
=============================================================================
