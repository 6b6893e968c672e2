---------------------------- MODULE MCTabBridge ----------------------------
(* The bridge with requests, or with ports: the two meet only in the leader *)
(* they follow.                                                             *)
EXTENDS BridgePorts, TLC
CONSTANTS a, b, c
TwoTabs == {a, b}
ThreeTabs == {a, b, c}
OneCaller == {a}
TabSymmetry == Permutations({b, c})

\* Bound: with ports, nobody asks for the leader in the last term.
NoLateHello == terms' = MaxTerms => \A t \in Tabs : \A n \in DOMAIN inbox'[t] : inbox'[t][n].k # "hello"

VARIABLE subject
MCInit == PortsInit /\ subject \in {"calls", "ports"}
MCNext ==
  /\ UNCHANGED subject
  /\ \/ subject = "calls" /\ BridgeNext /\ UNCHANGED portVars
     \/ subject = "ports" /\ PortsNext /\ NoLateHello
MCSpec == MCInit /\ [][MCNext]_<<bridgeVars, portVars, subject>>
=============================================================================
