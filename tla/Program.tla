------------------------------ MODULE Program ------------------------------
(***************************************************************************)
(* The program (main.cpp): it starts the network (network_utility.cpp),    *)
(* waits for an address, and then serves; or it downloads a file, as the   *)
(* call that main.cpp holds ready in a comment does.  The two share        *)
(* nothing but the network.                                                *)
(***************************************************************************)
EXTENDS HttpsServer, Download

VARIABLE program   \* what main() does

ProgramVars == <<program, vars, DownloadVars>>
ProgramInit == program = "init" /\ Init /\ DownloadInit

(* XNetStartup and WSAStartup, which may fail: main() returns.             *)
NetworkInit ==
  /\ program = "init"
  /\ program' \in {"wait", "returned"}
  /\ UNCHANGED <<vars, DownloadVars>>

(* wait_ready: asks once a second, with no limit, and returns when the     *)
(* address is known or cannot be known.                                    *)
NetworkReady ==
  /\ program = "wait"
  /\ program' = "serve"
  /\ UNCHANGED <<vars, DownloadVars>>
ReadyToDownload(u) ==
  /\ program = "wait"
  /\ program' = "download"
  /\ DownloadFile(u)
  /\ UNCHANGED vars

Serve == program = "serve" /\ Next /\ UNCHANGED <<program, DownloadVars>>
DoDownload == program = "download" /\ DownloadNext /\ UNCHANGED <<program, vars>>

ProgramNext ==
  \/ NetworkInit \/ NetworkReady \/ \E u \in Urls : ReadyToDownload(u)
  \/ Serve \/ DoDownload

ProgramSpec ==
  /\ ProgramInit /\ [][ProgramNext]_ProgramVars
  /\ OwnerFairness /\ ThreadFairness /\ DownloadFairness
=============================================================================
