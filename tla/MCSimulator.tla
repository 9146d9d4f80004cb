------------------------------ MODULE MCSimulator ------------------------------
(* Instances of the sending tools for TLC.                                   *)
EXTENDS Simulator

\* One run in batches of 2 over a reboot; the same run one event longer and in other
\* batches, over HTTP and over MQTT; a run whose explicit boot ID is the one derived for
\* its second boot; one whose last uptime no counter can hold.
Alpha == [run_id |-> "alpha", boot_id |-> NoBoot, seed |-> 1, count |-> 3,
          interval |-> 2, reboot_every |-> 2, sound |-> TRUE]
Longer == [Alpha EXCEPT !.count = 4]
Beta  == [run_id |-> "beta", boot_id |-> <<"b1">>, seed |-> 1, count |-> 3,
          interval |-> 2, reboot_every |-> 1, sound |-> TRUE]
TooLong == [Alpha EXCEPT !.run_id = "long", !.reboot_every = 0, !.interval = 4]

MCUuid ==
    [k \in {"alpha", "beta", "long"} \X {NoBoot, <<"b1">>} \X (0..4) |->
        IF k = <<"beta", <<"b1">>, 1>> THEN <<"b1">> ELSE <<ToString(k)>>]

Tool(mode, scenario, size) == [mode |-> mode, scenario |-> scenario, size |-> size]

Fixture(items, envelope, expect) ==
    [mode |-> "fixture", items |-> items, envelope |-> envelope, expect |-> expect]

FixtureItem(n, shape) ==
    [id |-> [device_id |-> "device", boot_id |-> <<"f">>, sequence_number |-> n],
     content |-> [seed |-> 0, index |-> n, uptime |-> 0], shape |-> shape]

Faulty(f, how) == [Faultless EXCEPT ![f] = how]

Shapes == {Faulty("unit", "bad"), Faulty("metric", "absent"), Faulty("boot_id", "bad"),
           [Faulty("unit", "bad") EXCEPT !["device_id"] = "absent"]}

Good(n) == FixtureItem(n, Faultless)

MCJobs ==
    {Tool("http", Alpha, 2), Tool("http", Longer, 3), Tool("mqtt", Alpha, 1),
     Tool("generate", Alpha, 2), Tool("http", Beta, 2), Tool("http", TooLong, 3),
     Fixture(<<Good(0), Good(1)>>, Proper, <<>>),
     Fixture(<<Good(0), Good(0)>>, Proper, <<"accepted", "duplicate">>),
     Fixture(<<Good(0)>>, [Proper EXCEPT !.version = "other"], <<>>)}
    \cup {Fixture(<<Good(1), FixtureItem(2, shape)>>, Proper, <<>>) : shape \in Shapes}

ASSUME InstanceIsDisciplined == Disciplined

MCBudget == [m \in Moves |-> CASE m = "run" -> 2 [] OTHER -> 1]
=============================================================================
