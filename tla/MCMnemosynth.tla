---------------------------- MODULE MCMnemosynth ----------------------------
EXTENDS Mnemosynth

CONSTANTS k1, k2

A == <<"A", "CentralModule">>
M == <<"A", "m">>
B == <<"B", "CentralModule">>
N == <<"A", "n">>

TwoMachines == {A, M, B}
OneMachine == {A, M}
TwoModules == {A, M, N}    \* one machine
MCKey == {k1, k2, "entry"}
ModuleWrites == [k \in MCKey |-> IF k = "entry" THEN A ELSE M]
BothWrite == [k \in MCKey |-> IF k = k1 THEN M ELSE A]
EachWrites == [k \in MCKey |-> IF k = k1 THEN M ELSE IF k = k2 THEN N ELSE A]
MCPortsOf == [m \in Modules |-> k1]
OwnPortsOf == [m \in Modules |-> IF m = M THEN k1 ELSE k2]
MCEntryAbout == [e \in Endpoint |-> "entry"]
=============================================================================
