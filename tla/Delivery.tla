-------------------------------- MODULE Delivery -------------------------------
(***************************************************************************)
(* What the gateway promises, without threads, transactions, requests or   *)
(* crashes: an event is taken over once, its content may reach the backend *)
(* any number of times but is recorded there once, and the event leaves    *)
(* the gateway's hands only as delivered or as quarantined.                *)
(*                                                                         *)
(* Gateway.tla implements this module (Gateway_refinement.tla): queued and *)
(* quarantined are the key and bytes of the rows of the two tables.        *)
(***************************************************************************)
CONSTANTS
    Ids,      \* event identities
    Payloads, \* event bytes
    Content   \* payload -> content compared by the backend

VARIABLES
    stored,      \* every event ever taken over: a set of <<identity, payload>>
    queued,      \* the events not yet settled
    quarantined, \* the events rejected for good
    backend      \* identity -> content

vars == <<stored, queued, quarantined, backend>>

Events == Ids \X Payloads

\* The event's content is recorded under its identity.
Recorded(e) == e[1] \in DOMAIN backend /\ backend[e[1]] = Content[e[2]]

Init ==
    /\ stored = {}
    /\ queued = {}
    /\ quarantined = {}
    /\ backend = [i \in {} |-> {}]

\* Take over an event whose identity is neither queued nor quarantined.
Store(e) ==
    /\ \A f \in queued \cup quarantined : f[1] # e[1]
    /\ stored' = stored \cup {e}
    /\ queued' = queued \cup {e}
    /\ UNCHANGED <<quarantined, backend>>

\* The backend records events that were taken over, and overwrites nothing.
Record ==
    /\ DOMAIN backend \subseteq DOMAIN backend'
    /\ \A i \in DOMAIN backend : backend'[i] = backend[i]
    /\ \A i \in DOMAIN backend' \ DOMAIN backend :
         \E e \in stored : e[1] = i /\ backend'[i] = Content[e[2]]
    /\ UNCHANGED <<stored, queued, quarantined>>

\* Settle a set of queued events: those not rejected are recorded already.
Settle(done, rejected) ==
    /\ done \cup rejected \subseteq queued
    /\ \A e \in done : Recorded(e)
    /\ queued' = queued \ (done \cup rejected)
    /\ quarantined' = quarantined \cup rejected
    /\ UNCHANGED <<stored, backend>>

Next ==
    \/ \E e \in Events : Store(e)
    \/ Record
    \/ \E done, rejected \in SUBSET queued : Settle(done, rejected)

Spec == Init /\ [][Next]_vars

-----------------------------------------------------------------------------

\* Nothing that was taken over disappears.
NothingLost ==
    \A e \in stored : e \in queued \/ e \in quarantined \/ Recorded(e)

\* An identity has at most one event in the gateway's hands.
OneEventPerIdentity ==
    \A e, f \in queued \cup quarantined : e[1] = f[1] => e = f
=============================================================================
