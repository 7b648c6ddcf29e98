----------------------------- MODULE MCMonitor ------------------------------
(* Small instances of Monitor for TLC. *)
EXTENDS Monitor, TLC

CONSTANTS c1, c2, disk1, mem1, cpu1

OneContainer    == {c1}
TwoContainers   == {c1, c2}
NoResources     == {}
NoKinds         == [k \in {} |-> "mem"]
Resources       == {disk1, mem1, cpu1}
KindOfResources == (disk1 :> "disk") @@ (mem1 :> "mem") @@ (cpu1 :> "cpu")
=============================================================================
