---------------------------- MODULE Gateway_refinement ----------------------------
(***************************************************************************)
(* The gateway implements Delivery.  A row of a table is the event it      *)
(* carries; claims, snapshots, requests and thread states are invisible.   *)
(***************************************************************************)
EXTENDS Gateway

\* The events of a table: <<identity, payload>> of every row.
EventsOf(table) == {<<i, table[i].payload>> : i \in DOMAIN table}

D == INSTANCE Delivery
       WITH queued <- EventsOf(queue), quarantined <- EventsOf(quarantine)

\* Every step of the gateway, faults and crashes included, is a Store, a Record
\* or a Settle of the abstract specification, or changes nothing it can see.
ImplementsDelivery == D!Spec
=============================================================================
