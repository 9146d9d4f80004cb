------------------------------- MODULE MCGateway -------------------------------
(* Instances of the gateway for TLC.                                        *)
EXTENDS Gateway_refinement

\* "p" and "p_" are different bytes with the same content (say, another
\* firmware_version); "q" is another reading under the same identity.
MCPayloads == {"p", "p_", "q"}
OnePayload == {"p"}
MCContent == [p \in Payloads |-> IF p = "q" THEN "high" ELSE "low"]

\* Every combination; every payload for one identity next to another one with one
\* payload; any two arrival times for two identities and one that comes late.
AllMessages   == [id : Ids, payload : Payloads, at : Times]
OneContested  == {m \in AllMessages : m.id = 2 => m.payload = "p"}
OneLate       == {m \in AllMessages : m.id = 1 => m.at = 2}

Moves(deliver, net, disk, crash, signal) ==
    [m \in EnvMoves |->
        CASE m = "deliver" -> deliver [] m = "net" -> net [] m = "disk" -> disk
          [] m = "crash" -> crash [] m = "signal" -> signal]

DurabilityBudget == Moves(2, 1, 1, 1, 1)
DeliveryBudget   == Moves(3, 1, 0, 1, 0)
ConflictBudget   == Moves(2, 0, 0, 0, 0)
=============================================================================
