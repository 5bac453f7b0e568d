---------------------------- MODULE MCRemoteCommand ----------------------------
(* Every host and caller, two interrupts and two broken connections, for TLC. *)
EXTENDS RemoteCommand

MCScenarios == [setsid : BOOLEAN, writable : BOOLEAN, thread : {"main", "worker"}, signals : {2}, drops : {2}]
=============================================================================
