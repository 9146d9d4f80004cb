------------------------------ MODULE MCAlertStream ------------------------------
(* An instance of the alert stream for TLC.  For every value and event time   *)
(* there is a reading whose device time is trusted and whose receipt is later,*)
(* one whose device time is there but not trusted, and one without a time.     *)
EXTENDS AlertStream

MCReadings ==
    UNION {{[value |-> v, measured |-> t, synchronised |-> TRUE, received |-> MaxTime + 2],
            [value |-> v, measured |-> MaxTime + 2, synchronised |-> FALSE, received |-> t],
            [value |-> v, measured |-> NoTime, synchronised |-> TRUE, received |-> t]} :
           v \in {27, 28, 30, 31}, t \in 0..MaxTime}
=============================================================================
