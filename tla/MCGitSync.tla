------------------------------ MODULE MCGitSync ------------------------------
(* Instances of GitSync for TLC. *)
EXTENDS GitSync

\* Two replicas with a batch each; batch 3 comes from a peer that is not modelled.
MCOwn == [r \in Replica |-> {r}]
MCOneOwn == [r \in Replica |-> IF r = 1 THEN {1} ELSE {}]
MCNoClash == {}
MCClash == {<<1, 2>>, <<2, 1>>}
MCCrashAnywhere == Steps \ {"idle"}
\* The steps after which recovery can always continue.
MCCrashSafe == {"fetch", "create_root", "files", "ref", "checkpoint", "phase", "observe"}

\* Two instances in one: both replicas with two operations each and one crash, or
\* replica 1 against peers with all its operations and crashes.
MCBothReplicas ==
    /\ remote.files \cap Peer = {} /\ crashes <= 1
    /\ \A r \in Replica : born[r] <= 2
MCReplicaAndPeers == born[2] = 0 /\ recs[2] = {Genesis}
MCInstance == MCBothReplicas \/ MCReplicaAndPeers
==============================================================================
