---------------------------- MODULE MCServerRun ----------------------------
(* Instances of ServerRun for TLC; worker indices are plain numbers.       *)
EXTENDS ServerRun

AllFaults     == {"build", "poolSpawn", "bridge", "watcher", "tpcSpawn", "serve"}
PoolSpawnOnly == {"poolSpawn"}
=============================================================================
