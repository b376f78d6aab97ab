------------------------------ MODULE Sessions ------------------------------
(***************************************************************************)
(* The session cache by itself, under any use, and the handshakes that     *)
(* rely on it.  The handshakes see the abstract cache, which the other     *)
(* part shows ssl_lru.c to implement.  One of the two runs at a time, so   *)
(* that the state space is the sum of theirs.                              *)
(***************************************************************************)
EXTENDS SessionCacheUse, Handshake

SessionsInit == UseInit /\ HsInit
SessionsNext ==
  \/ server.config = NoConfig /\ sessions = <<>> /\ UseNext /\ UNCHANGED hsVars
  \/ ~initDone /\ HsNext /\ UNCHANGED <<vars, view>>
SessionsSpec == SessionsInit /\ [][SessionsNext]_<<vars, view, hsVars>> /\ HsFairness
=============================================================================
