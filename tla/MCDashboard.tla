------------------------------ MODULE MCDashboard ------------------------------
(* An instance of the browser and the read API for TLC.                      *)
EXTENDS Dashboard

R(d, boot, n, measured, synchronised, received) ==
    [device |-> d, boot |-> boot, n |-> n, measured |-> measured,
     synchronised |-> synchronised, received |-> received]

\* Three readings of a boot, the last one without a synchronised clock and at the
\* event time of the second; one that follows the first by number after a reboot.
MCReadings ==
    {R("d1", "b1", 1, 1, TRUE, 4), R("d1", "b1", 2, 2, TRUE, 4),
     R("d1", "b1", 3, 0, FALSE, 2), R("d1", "b2", 2, 2, TRUE, 4)}

MCWindows == {<<0, 2>>, <<1, 3>>}

Moving(moves) == [m \in Moves |-> IF m \in DOMAIN moves THEN moves[m] ELSE 0]

\* Charts, while readings arrive; walks between two views; the list of devices, while
\* it changes; and the other views, while episodes come and go.
MCBudgets ==
    {Moving([history |-> 1, reading |-> 3, refresh |-> 1]),
     Moving([history |-> 1, reading |-> 1, select |-> 1, refresh |-> 1, equipment |-> 1, fault |-> 1]),
     Moving([devices |-> 1, platform |-> 1, change |-> 2, registry |-> 1, fault |-> 1]),
     Moving([devices |-> 1, change |-> 2, reading |-> 1, fault |-> 1]),
     Moving([alerts |-> 1, platform |-> 1, episode |-> 3, fault |-> 1])}
=============================================================================
