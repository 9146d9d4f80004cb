------------------------------ MODULE MCDeployment ------------------------------
(* Installations for TLC.                                                    *)
EXTENDS Deployment

Moving(moves) == [m \in Moves |-> IF m \in DOMAIN moves THEN moves[m] ELSE 0]

\* The token: two runs with a kill, a failure and edits in between; the passwords: three
\* runs, so that a directory moved aside, or left without admin.password, is followed by an
\* installation beside the running broker and one after a stop; the database: two runs with
\* a seed by hand and changes of the rows.
MCBudgets ==
    {Moving([run |-> 2, kill |-> 1, fail |-> 1, token |-> 2, auth |-> 1, stop |-> 1]),
     Moving([run |-> 3, kill |-> 1, fail |-> 1, auth |-> 2, stop |-> 1]),
     Moving([run |-> 2, kill |-> 1, fail |-> 1, url |-> 1, rows |-> 2, seed |-> 1])}
=============================================================================
