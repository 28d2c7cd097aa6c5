----------------------------- MODULE MCCollector ------------------------------
(***************************************************************************)
(* Small instances of Collector: two hosts, configurations with a disabled *)
(* GPU, a disabled host and none at all.                                   *)
(***************************************************************************)
EXTENDS Collector

CONSTANTS h1, h2

Odd == [kept |-> "word", odd |-> TRUE]
Dotted == [kept |-> "mark", odd |-> FALSE]
Empty == [kept |-> "nothing", odd |-> TRUE]

Process(pid, name) == [pid |-> pid, name |-> name]
Free == [lease |-> None, started |-> FALSE, processes |-> {}]
External(names) ==
    [lease |-> None, started |-> FALSE,
     processes |-> {Process(i, names[i]) : i \in DOMAIN names}]
Leased(label) == [lease |-> label, started |-> FALSE, processes |-> {}]
Training(label) == [lease |-> label, started |-> TRUE, processes |-> {Process(1, Word)}]

SomeConditions ==
    [h \in Hosts |-> IF h = h1
                     THEN {None, Free, External(<<Dotted>>), Leased(Odd)}
                     ELSE {Free, External(<<Word>>), Training(Empty)}]
DottedConditions == [h \in Hosts |-> {Free, Training(Dotted)}]

OneGpuEach == [h \in Hosts |-> {0}]
TwoGpus == [h \in Hosts |-> IF h = h1 THEN {0, 1} ELSE {0}]

Config(hosts, disabled, backoff) ==
    [hosts |-> hosts, disabled |-> [h \in Hosts |-> IF h = h1 THEN disabled ELSE {}],
     interval |-> 1, idleInterval |-> 2, backoff |-> backoff]
SomeConfigs == {Config(<<h1, h2>>, {}, <<1, 2>>), Config(<<h1, h2>>, {0}, <<1, 2>>),
                Config(<<h1>>, {}, <<1, 2>>), Config(<<>>, {}, <<1, 2>>)}
SlowAndFast == {[Config(<<h1, h2>>, {}, <<1, 2>>) EXCEPT !.interval = 2]}
=============================================================================
