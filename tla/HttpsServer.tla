---------------------------- MODULE HttpsServer ----------------------------
(***************************************************************************)
(* The HTTPS server of server.cpp: the thread that accepts (process), one  *)
(* thread per client (client_process), and the owner of the server object, *)
(* who calls start() and stop().  They share the table "threads", the flag *)
(* server_running and listen_socket_global without a lock, so each access  *)
(* is a step of its own.  The TLS exchange with a client is one step that  *)
(* takes any time.  A socket is the number of its connection and numbers   *)
(* are not used again; 0 is what memset leaves.                            *)
(***************************************************************************)
EXTENDS Integers

CONSTANTS
  NumThreads,    \* MAX_NUM_THREADS
  MaxConns,      \* bound: connections that arrive
  MaxStarts,     \* bound: calls of start()
  ProcessWaitExpires,  \* whether stop()'s wait for the accepting thread, and
  ClientWaitExpires    \* its waits for client threads, may end before they do

ASSUME ServerAssumption ==
  /\ NumThreads \in Nat /\ MaxConns \in Nat /\ MaxStarts \in Nat
  /\ ProcessWaitExpires \in BOOLEAN /\ ClientWaitExpires \in BOOLEAN

Slots == 1 .. NumThreads
Conns == 1 .. MaxConns
Starts == 1 .. MaxStarts

VARIABLES
  threads,         \* slot -> [active, sock, complete, thread]
  server_running,
  listen,          \* listen_socket_global: the start whose socket it is, or 0
  running,
  thread,          \* server::thread: the start whose thread it is, or 0
  owner,           \* where the owner is in stop(), or "idle"
  waited,          \* slots stop() has waited for
  starts,          \* calls of start()
  proc,            \* start -> its accepting thread [pc, open, client, i]
  conns,           \* connections accepted
  worker,          \* connection -> its thread [pc, slot]
  closes,          \* connection -> closesocket calls on its socket
  handles          \* connection -> handles on its thread that are not closed

vars == <<threads, server_running, listen, running, thread, owner, waited,
          starts, proc, conns, worker, closes, handles>>

Zero == [active |-> FALSE, sock |-> 0, complete |-> FALSE, thread |-> 0]
Cleared == [i \in Slots |-> Zero]

Init ==
  /\ threads = Cleared
  /\ server_running = FALSE /\ listen = 0
  /\ running = FALSE /\ thread = 0 /\ owner = "idle" /\ waited = 0 /\ starts = 0
  /\ proc = [r \in Starts |-> [pc |-> "none", open |-> FALSE, client |-> 0, i |-> 0]]
  /\ conns = 0
  /\ worker = [c \in Conns |-> [pc |-> "none", slot |-> 0]]
  /\ closes = [c \in Conns |-> 0]
  /\ handles = [c \in Conns |-> 0]

CloseSocket(c) == closes' = IF c = 0 THEN closes ELSE [closes EXCEPT ![c] = @ + 1]
CloseHandle(c) == handles' = IF c = 0 THEN handles ELSE [handles EXCEPT ![c] = @ - 1]

-----------------------------------------------------------------------------
(* client_process, the thread of connection c.  It has a pointer to its    *)
(* slot and takes the socket from there, each time it needs it.            *)
WorkerVars == <<worker, threads, closes>>
WorkerGo(c, from, to) == /\ worker[c].pc = from
                         /\ worker' = [worker EXCEPT ![c].pc = to]

ExchangeComplete(c) ==     \* mutant: the slot is given up before the socket
  /\ WorkerGo(c, "exchange", "close")
  /\ threads' = [threads EXCEPT ![worker[c].slot].complete = TRUE]
  /\ UNCHANGED closes
(* The request, the response and br_sslio_close.                           *)
Exchange(c) == WorkerGo(c, "exchange", "close") /\ UNCHANGED <<threads, closes>>
CloseClient(c) ==
  /\ WorkerGo(c, "close", "complete")
  /\ CloseSocket(threads[worker[c].slot].sock)
  /\ UNCHANGED threads
Complete(c) ==
  /\ WorkerGo(c, "complete", "ended")
  /\ threads' = [threads EXCEPT ![worker[c].slot].complete = TRUE]
  /\ UNCHANGED closes

WorkerStep(c) == /\ Exchange(c) \/ CloseClient(c) \/ Complete(c)
                 /\ UNCHANGED <<server_running, listen, running, thread, owner, waited,
                                starts, proc, conns, handles>>

-----------------------------------------------------------------------------
(* process, the accepting thread of start r.                               *)
ProcAt(r, from) == proc[r].pc = from
ProcGo(r, to) == proc' = [proc EXCEPT ![r].pc = to]
TableVars == <<threads, conns, worker, closes, handles>>

BindFails(r) ==
  /\ ProcAt(r, "bind") /\ ProcGo(r, "ended")
  /\ server_running' = FALSE
  /\ UNCHANGED <<listen, TableVars>>
Bind(r) ==
  /\ ProcAt(r, "bind")
  /\ proc' = [proc EXCEPT ![r].pc = "publish", ![r].open = TRUE]
  /\ UNCHANGED <<server_running, listen, TableVars>>
Publish(r) ==
  /\ ProcAt(r, "publish") /\ ProcGo(r, "loop")
  /\ listen' = r
  /\ UNCHANGED <<server_running, TableVars>>
Loop(r) ==
  /\ ProcAt(r, "loop") /\ ProcGo(r, IF server_running THEN "select" ELSE "finish")
  /\ UNCHANGED <<server_running, listen, TableVars>>
(* get_read_status fails, always on a closed socket; or a client is there; *)
(* or the thread sleeps and tries again.                                   *)
Select(r) ==
  /\ ProcAt(r, "select")
  /\ \E to \in {"finish"} \union (IF proc[r].open THEN {"accept", "loop"} ELSE {}) : ProcGo(r, to)
  /\ UNCHANGED <<server_running, listen, TableVars>>
AcceptFails(r) ==
  /\ ProcAt(r, "accept") /\ ProcGo(r, "loop")
  /\ UNCHANGED <<server_running, listen, TableVars>>
Accept(r) ==
  /\ ProcAt(r, "accept") /\ proc[r].open
  /\ conns < MaxConns
  /\ conns' = conns + 1
  /\ proc' = [proc EXCEPT ![r] = [pc |-> "scan", open |-> @.open, client |-> conns + 1, i |-> 1]]
  /\ UNCHANGED <<server_running, listen, threads, worker, closes, handles>>

(* The search for a slot looks at one slot per step: free, done with, or   *)
(* taken; when all are taken the client is dropped.                        *)
ScanFree(r) ==
  /\ ProcAt(r, "scan") /\ proc[r].i \in Slots
  /\ ~threads[proc[r].i].active
  /\ ProcGo(r, "place")
  /\ UNCHANGED <<server_running, listen, TableVars>>
ScanCompleteLeaks(r) ==    \* mutant: the slot is cleared before its handle is read
  /\ ProcAt(r, "scan") /\ proc[r].i \in Slots
  /\ threads[proc[r].i].active /\ threads[proc[r].i].complete
  /\ threads' = [threads EXCEPT ![proc[r].i] = Zero]
  /\ CloseHandle(threads'[proc[r].i].thread)
  /\ ProcGo(r, "place")
  /\ UNCHANGED <<server_running, listen, conns, worker, closes>>
ScanComplete(r) ==
  /\ ProcAt(r, "scan") /\ proc[r].i \in Slots
  /\ threads[proc[r].i].active /\ threads[proc[r].i].complete
  /\ CloseHandle(threads[proc[r].i].thread)
  /\ threads' = [threads EXCEPT ![proc[r].i] = Zero]
  /\ ProcGo(r, "place")
  /\ UNCHANGED <<server_running, listen, conns, worker, closes>>
ScanTaken(r) ==
  /\ ProcAt(r, "scan") /\ proc[r].i \in Slots
  /\ threads[proc[r].i].active /\ ~threads[proc[r].i].complete
  /\ proc' = [proc EXCEPT ![r].i = @ + 1]
  /\ UNCHANGED <<server_running, listen, TableVars>>
DropLeaks(r) ==        \* mutant: a client without a slot is forgotten
  /\ ProcAt(r, "scan") /\ proc[r].i \notin Slots
  /\ ProcGo(r, "loop")
  /\ UNCHANGED <<server_running, listen, threads, conns, worker, closes, handles>>
Drop(r) ==
  /\ ProcAt(r, "scan") /\ proc[r].i \notin Slots
  /\ CloseSocket(proc[r].client)
  /\ ProcGo(r, "loop")
  /\ UNCHANGED <<server_running, listen, threads, conns, worker, handles>>

(* The slot is filled, the thread is created and runs, and its handle is   *)
(* stored; or CreateThread fails and nobody looks.                         *)
Place(r) ==
  /\ ProcAt(r, "place") /\ ProcGo(r, "create")
  /\ threads' = [threads EXCEPT ![proc[r].i].active = TRUE,
                                ![proc[r].i].sock = proc[r].client]
  /\ UNCHANGED <<server_running, listen, conns, worker, closes, handles>>
Create(r) ==
  /\ ProcAt(r, "create") /\ ProcGo(r, "store")
  /\ worker' = [worker EXCEPT ![proc[r].client] = [pc |-> "exchange", slot |-> proc[r].i]]
  /\ handles' = [handles EXCEPT ![proc[r].client] = 1]
  /\ UNCHANGED <<server_running, listen, threads, conns, closes>>
CreateFails(r) ==
  /\ ProcAt(r, "create") /\ ProcGo(r, "loop")
  /\ worker' = [worker EXCEPT ![proc[r].client].pc = "failed"]
  /\ threads' = [threads EXCEPT ![proc[r].i].thread = 0]
  /\ UNCHANGED <<server_running, listen, conns, closes, handles>>
StoreHandle(r) ==
  /\ ProcAt(r, "store") /\ ProcGo(r, "loop")
  /\ threads' = [threads EXCEPT ![proc[r].i].thread = proc[r].client]
  /\ UNCHANGED <<server_running, listen, conns, worker, closes, handles>>

Finish(r) ==
  /\ ProcAt(r, "finish")
  /\ proc' = [proc EXCEPT ![r].pc = "forget", ![r].open = FALSE]
  /\ UNCHANGED <<server_running, listen, TableVars>>
ForgetListen(r) ==
  /\ ProcAt(r, "forget") /\ ProcGo(r, "ended")
  /\ listen' = 0
  /\ UNCHANGED <<server_running, TableVars>>

ProcessStep(r) ==
  /\ \/ BindFails(r) \/ Bind(r) \/ Publish(r) \/ Loop(r) \/ Select(r)
     \/ AcceptFails(r) \/ Accept(r)
     \/ ScanFree(r) \/ ScanComplete(r) \/ ScanTaken(r) \/ Drop(r)
     \/ Place(r) \/ Create(r) \/ CreateFails(r) \/ StoreHandle(r)
     \/ Finish(r) \/ ForgetListen(r)
  /\ UNCHANGED <<running, thread, owner, waited, starts>>

-----------------------------------------------------------------------------
(* start and stop.  An owner calls start() on a stopped server.            *)
Start ==
  /\ owner = "idle" /\ ~running /\ starts < MaxStarts
  /\ threads' = Cleared
  /\ running' = TRUE /\ server_running' = TRUE
  /\ starts' = starts + 1 /\ thread' = starts + 1
  /\ proc' = [proc EXCEPT ![starts + 1].pc = "bind"]
  /\ UNCHANGED <<listen, owner, waited, conns, worker, closes, handles>>

StopKeepsFlag ==           \* mutant: only the socket is to end the accepting thread
  /\ owner = "idle" /\ running
  /\ running' = FALSE
  /\ owner' = "close"
  /\ UNCHANGED <<threads, server_running, listen, thread, waited, starts, proc, conns, worker,
                 closes, handles>>
Stop ==
  /\ owner = "idle" /\ running
  /\ running' = FALSE /\ server_running' = FALSE
  /\ owner' = "close"
  /\ UNCHANGED <<threads, listen, thread, waited, starts, proc, conns, worker, closes, handles>>

StopListening ==
  /\ owner = "close"
  /\ proc' = IF listen = 0 THEN proc ELSE [proc EXCEPT ![listen].open = FALSE]
  /\ owner' = "waitProcess"
  /\ UNCHANGED <<threads, server_running, listen, running, thread, waited, starts,
                 conns, worker, closes, handles>>

StopWaitNothing ==         \* mutant: the accepting thread is not waited for
  /\ owner = "waitProcess"
  /\ thread' = 0
  /\ owner' = "waitClients" /\ waited' = 0
  /\ UNCHANGED <<threads, server_running, listen, running, starts, proc,
                 conns, worker, closes, handles>>
StopWaitProcess ==
  /\ owner = "waitProcess"
  /\ ProcessWaitExpires \/ ProcAt(thread, "ended")
  /\ thread' = 0
  /\ owner' = "waitClients" /\ waited' = 0
  /\ UNCHANGED <<threads, server_running, listen, running, starts, proc,
                 conns, worker, closes, handles>>

Awaited(i) == threads[i].active /\ threads[i].thread # 0
StopWaitClosesAgain ==     \* mutant: the handle is closed twice
  /\ owner = "waitClients" /\ waited < NumThreads
  /\ Awaited(waited + 1) => worker[threads[waited + 1].thread].pc = "ended"
  /\ waited' = waited + 1
  /\ handles' = IF Awaited(waited + 1)
                THEN [handles EXCEPT ![threads[waited + 1].thread] = @ - 2] ELSE handles
  /\ UNCHANGED <<threads, server_running, listen, running, thread, owner, starts, proc,
                 conns, worker, closes>>
StopWaitClient ==
  /\ owner = "waitClients" /\ waited < NumThreads
  /\ Awaited(waited + 1) => ClientWaitExpires \/ worker[threads[waited + 1].thread].pc = "ended"
  /\ waited' = waited + 1
  /\ CloseHandle(IF Awaited(waited + 1) THEN threads[waited + 1].thread ELSE 0)
  /\ UNCHANGED <<threads, server_running, listen, running, thread, owner, starts, proc,
                 conns, worker, closes>>

StopClearCloses ==         \* mutant: the sockets left in the table are closed
  /\ owner = "waitClients" /\ waited = NumThreads
  /\ threads' = Cleared
  /\ closes' = [c \in Conns |-> IF \E i \in Slots : threads[i].sock = c
                                THEN closes[c] + 1 ELSE closes[c]]
  /\ owner' = "idle"
  /\ UNCHANGED <<server_running, listen, running, thread, waited, starts, proc,
                 conns, worker, handles>>
StopClear ==
  /\ owner = "waitClients" /\ waited = NumThreads
  /\ threads' = Cleared
  /\ owner' = "idle"
  /\ UNCHANGED <<server_running, listen, running, thread, waited, starts, proc,
                 conns, worker, closes, handles>>

StopStep == StopListening \/ StopWaitProcess \/ StopWaitClient \/ StopClear

Next == \/ Start \/ Stop \/ StopStep
        \/ \E r \in Starts : ProcessStep(r)
        \/ \E c \in Conns : WorkerStep(c)

(* The waits of stop() end by themselves, and it has no other loop.        *)
OwnerFairness == WF_vars(StopStep)
(* The threads are scheduled; reads and writes of a client that falls      *)
(* silent fail after two seconds.                                          *)
ThreadFairness == /\ \A r \in Starts : WF_vars(ProcessStep(r))
                  /\ \A c \in Conns : WF_vars(WorkerStep(c))

Spec == Init /\ [][Next]_vars /\ OwnerFairness
FairSpec == Spec /\ ThreadFairness

-----------------------------------------------------------------------------
(* Types: a slot names a connection and its thread, or zero.               *)
TypeOK ==
  /\ threads \in [Slots -> [active : BOOLEAN, sock : 0 .. conns,
                            complete : BOOLEAN, thread : 0 .. conns]]
  /\ server_running \in BOOLEAN /\ running \in BOOLEAN
  /\ listen \in 0 .. starts /\ thread \in 0 .. starts /\ starts \in 0 .. MaxStarts
  /\ owner \in {"idle", "close", "waitProcess", "waitClients"}
  /\ waited \in 0 .. NumThreads
  /\ conns \in 0 .. MaxConns
  /\ \A r \in Starts : proc[r].i \in 0 .. NumThreads + 1 /\ proc[r].client \in 0 .. conns
  /\ \A c \in Conns : /\ worker[c].slot \in Slots \union {0}
                      /\ closes[c] \in Nat /\ handles[c] \in {0, 1}

Alive(c) == worker[c].pc \in {"exchange", "close", "complete"}

(* As long as a client thread runs, the slot it points to holds its own    *)
(* socket: no other client gets the slot and stop() does not clear it      *)
(* (client_process reads thread_info->client_socket at every use).         *)
OwnSocket == \A c \in Conns : Alive(c) => threads[worker[c].slot].sock = c

(* No socket of a client is closed twice, by its thread, by another        *)
(* client's thread or by the accepting thread.                             *)
ClosedOnce == \A c \in Conns : closes[c] <= 1

(* Once stop() has returned no client thread runs: "Wait for all client    *)
(* threads to complete" (server.cpp:279).                                  *)
Stopped == owner = "idle" /\ ~running
ClientsComplete == Stopped => \A c \in Conns : ~Alive(c)

(* Nor does the accepting thread, which could create more ("Wait for the   *)
(* main server thread to finish", server.cpp:271).                         *)
StoppedIsQuiet ==
  /\ ClientsComplete
  /\ Stopped => \A r \in Starts : proc[r].pc \in {"none", "ended"}

(* Once stop() has returned, every socket accepted was closed, but for a   *)
(* client whose thread could not be created, and so was every handle of a  *)
(* thread (the reuse of a slot, the end of client_process, stop).          *)
NothingLeaks ==
  Stopped => \A c \in 1 .. conns : /\ handles[c] = 0
                                   /\ worker[c].pc # "failed" => closes[c] = 1

(* A client that was accepted has its socket closed in the end, when it is *)
(* served or because every slot is taken, unless its thread could not be   *)
(* created (process, client_process).                                      *)
ClosedInTheEnd == \A c \in Conns : conns >= c ~> closes[c] > 0 \/ worker[c].pc = "failed"

(* stop() returns, with waits that have no limit too: whichever step the   *)
(* accepting thread is at when stop() is called, before its socket is      *)
(* known to stop() or after, it ends.                                      *)
StopReturns == owner # "idle" ~> owner = "idle"
=============================================================================
