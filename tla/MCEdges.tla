------------------------------- MODULE MCEdges -------------------------------
(* What lies around the queue: who submits, which stub a task is put on, the  *)
(* sockets of the stubs, the machines they run on and what they leave there.  *)
(* Side by side like the parts of MCServices; a run is about the part in      *)
(* focus, and the others do not move.                                         *)
EXTENDS Placement, Checkpointing, Walltime, Deployment, Tunnel, Registry, Submission,
        Storage, Relay, CapacityPolicy

CONSTANT Parts \* the parts a run looks at

VARIABLE focus

otherVars == <<placeVars, checkpointVars, walltimeVars, deployVars, tunnelVars,
               registryVars, submissionVars, storageVars, relayVars, policyVars>>
edgesVars == <<otherVars, focus>>

\* Two machines of 10 GB, the second in an allocation leased to somebody.
Memory == [s \in Machines |-> 10]
LeaseOf == [s \in Machines |-> IF s \in InSlurm THEN "l" ELSE "none"]
Everywhere == [s \in Machines |-> {"a100"}]
Plain == [gpu |-> 0, cpu |-> 0, whole |-> FALSE, needs |-> {}, lease |-> "none",
          target |-> Nowhere, grid |-> "g", own |-> {}]
SomeAsks == {[Plain EXCEPT !.gpu = 5], [Plain EXCEPT !.needs = {"a100"}],
             [Plain EXCEPT !.cpu = 4, !.own = {"m1"}],
             [Plain EXCEPT !.lease = "l", !.gpu = 4, !.cpu = 4]}
OneTask == [p \in Processes |-> "t"]
Pages == [c \in Commands |-> IF c = "c1" THEN "t1" ELSE NoTab]
OneIdentity == [d \in Daemons |-> "s"]

Init ==
  /\ PlaceInit /\ CheckpointInit /\ WalltimeInit /\ DeployInit /\ TunnelInit
  /\ RegistryInit /\ SubmissionInit /\ StorageInit /\ RelayInit /\ PolicyInit
  /\ focus \in Parts
  \* the choices of a part are made where it is in focus
  /\ focus # "deployment" => ~host.slurm
  /\ focus # "tunnel" => child[1] = "alive"
  /\ serving.backups = IF focus \in {"one stub", "no slip"} THEN MaxBackups ELSE 1
  /\ focus # "submission" => \A x \in Authors : author[x].content = "a"

\* The stubs of Storage are alike: of those nothing knows of yet, the first is taken.
Tables == {rows, copy.table} \cup {files[k].table : k \in DOMAIN files}
Known ==
  {s \in Hosts :
     \/ \E table \in Tables, t \in Held : table[t].host = s
     \/ \E a \in {live, copy.arrays} \cup {files[k].arrays : k \in DOMAIN files}, t \in Held : a[s][t] # "none"}
FirstHostFirst ==
  Known = {} /\ serving.host = NoHost /\ copy.shared \in {{}, Hosts} =>
    serving'.host # "i" /\ live'["i"] = live["i"]

Next ==
  \/ focus = "placement" /\ PlaceNext
     /\ UNCHANGED <<checkpointVars, walltimeVars, deployVars, tunnelVars, registryVars, submissionVars, storageVars, relayVars, policyVars, focus>>
  \/ focus = "checkpoints" /\ CheckpointNext
     /\ UNCHANGED <<placeVars, walltimeVars, deployVars, tunnelVars, registryVars, submissionVars, storageVars, relayVars, policyVars, focus>>
  \/ focus = "walltime" /\ WalltimeNext
     /\ UNCHANGED <<placeVars, checkpointVars, deployVars, tunnelVars, registryVars, submissionVars, storageVars, relayVars, policyVars, focus>>
  \* of a target whose record was spoilt nothing is claimed
  \/ focus = "deployment" /\ ~faults.spoilt /\ DeployNext
     /\ UNCHANGED <<placeVars, checkpointVars, walltimeVars, tunnelVars, registryVars, submissionVars, storageVars, relayVars, policyVars, focus>>
  \/ focus = "tunnel" /\ TunnelNext
     /\ UNCHANGED <<placeVars, checkpointVars, walltimeVars, deployVars, registryVars, submissionVars, storageVars, relayVars, policyVars, focus>>
  \/ focus = "registry" /\ RegistryNext
     /\ UNCHANGED <<placeVars, checkpointVars, walltimeVars, deployVars, tunnelVars, submissionVars, storageVars, relayVars, policyVars, focus>>
  \/ focus = "submission" /\ SubmissionNext
     /\ UNCHANGED <<placeVars, checkpointVars, walltimeVars, deployVars, tunnelVars, registryVars, storageVars, relayVars, policyVars, focus>>
  \/ focus = "storage" /\ StorageNext /\ FirstHostFirst
     /\ UNCHANGED <<placeVars, checkpointVars, walltimeVars, deployVars, tunnelVars, registryVars, submissionVars, relayVars, policyVars, focus>>
  \* more backups where only one stub has tasks, or nothing fails
  \/ focus = "one stub" /\ StorageNext /\ serving'.host # "i" /\ live'["i"] = live["i"]
     /\ UNCHANGED <<placeVars, checkpointVars, walltimeVars, deployVars, tunnelVars, registryVars, submissionVars, relayVars, policyVars, focus>>
  \/ focus = "no slip" /\ StorageNext /\ FirstHostFirst /\ serving'.slips = serving.slips
     /\ UNCHANGED <<placeVars, checkpointVars, walltimeVars, deployVars, tunnelVars, registryVars, submissionVars, relayVars, policyVars, focus>>
  \/ focus = "requests" /\ (HttpNext \/ LineNext)
     /\ UNCHANGED <<placeVars, checkpointVars, walltimeVars, deployVars, tunnelVars, registryVars, submissionVars, storageVars, policyVars, focus>>
  \/ focus = "shell" /\ (ShellNext \/ LineNext)
     /\ UNCHANGED <<placeVars, checkpointVars, walltimeVars, deployVars, tunnelVars, registryVars, submissionVars, storageVars, policyVars, focus>>
  \/ focus = "policy" /\ PolicyNext
     /\ UNCHANGED <<placeVars, checkpointVars, walltimeVars, deployVars, tunnelVars, registryVars, submissionVars, storageVars, relayVars, focus>>

Spec == Init /\ [][Next]_edgesVars

\* No daemon and no tunnel runs that those who stop them do not know, and each socket the
\* server keeps for a stub is that stub's (deploy.ts:186-333, tunnel.ts:20-136, socket/stub.ts:934-1037).
LinksKnown ==
  /\ DeployTypeOK /\ TunnelTypeOK /\ RegistryTypeOK
  /\ DaemonsKnown /\ TunnelKept /\ LinksAgree

\* What is asked of the server or a stub over a connection that loses requests and
\* answers has one effect and one answer: OneExperimentPerKey of submissions
\* (submit.py:112), RelaySound of commands and files (reliable.ts:92).
RequestsKept == OneExperimentPerKey /\ RelaySound

\* What is kept outlives a restart and a restore (store/index.ts, store/backup.ts):
\* RestartLosesNothing of the rows, BackupsHold of the files.
StorageSound == StorageTypeOK /\ RestartLosesNothing /\ BackupsHold
=============================================================================
