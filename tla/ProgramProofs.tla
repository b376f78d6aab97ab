--------------------------- MODULE ProgramProofs ---------------------------
(***************************************************************************)
(* Proofs about Program, in its two parts.                                 *)
(*                                                                         *)
(* HttpsServer, for any number of slots, connections and starts, when the  *)
(* waits of stop() last until the threads have ended.  The inductive       *)
(* invariant IInv says who may touch a slot: an accepting thread that      *)
(* fills it, or the one client thread that runs in it.  A second part adds *)
(* where every socket and every handle of a thread can be found: none is   *)
(* lost.                                                                   *)
(*                                                                         *)
(* Download, for any responses, however their bytes arrive.  The inductive *)
(* invariant says where in the response the first byte of the store is: at *)
(* the beginning of a line, of a chunk or of its bytes, or in the body.    *)
(***************************************************************************)
EXTENDS Program, SequenceTheorems, FiniteSetTheorems, Induction, TLAPS

-----------------------------------------------------------------------------
(* The server.                                                             *)

ProcPcs == {"none", "bind", "publish", "loop", "select", "accept", "scan",
            "place", "create", "store", "finish", "forget", "ended"}
WorkerPcs == {"none", "failed", "exchange", "close", "complete", "ended"}

SlotType == [active : BOOLEAN, sock : Nat, complete : BOOLEAN, thread : Nat]
ProcType == [pc : ProcPcs, open : BOOLEAN, client : Nat, i : Nat]
WorkerType == [pc : WorkerPcs, slot : Nat]

(* The types of the state, in the constants only.                          *)
Types ==
  /\ threads \in [Slots -> SlotType]
  /\ proc \in [Starts -> ProcType]
  /\ worker \in [Conns -> WorkerType]
  /\ closes \in [Conns -> Nat]
  /\ running \in BOOLEAN /\ thread \in Nat /\ starts \in Nat /\ conns \in Nat
  /\ owner \in {"idle", "close", "waitProcess", "waitClients"}
  /\ waited \in 0 .. NumThreads

(* One accepting thread at most, and none while stop() looks at the slots  *)
(* or once it has returned.                                                *)
OneProcess ==
  /\ \A r \in Starts : r # thread => proc[r].pc \in {"none", "ended"}
  /\ (owner = "waitClients" \/ Stopped) => thread = 0

(* The connection that an accepting thread holds, and its slot.            *)
InHandOf(r) ==
  /\ proc[r].pc \in {"scan", "place", "create"} =>
       /\ proc[r].client \in 1 .. conns
       /\ worker[proc[r].client].pc = "none" /\ closes[proc[r].client] = 0
  /\ proc[r].pc = "place" =>
       proc[r].i \in Slots /\ ~threads[proc[r].i].active
  /\ proc[r].pc = "create" =>
       /\ proc[r].i \in Slots /\ threads[proc[r].i].active
       /\ ~threads[proc[r].i].complete
       /\ threads[proc[r].i].sock = proc[r].client
  /\ proc[r].pc = "store" =>
       /\ proc[r].i \in Slots /\ proc[r].client \in Conns
       /\ worker[proc[r].client].slot = proc[r].i
       /\ threads[proc[r].i].sock = proc[r].client

InHand == \A r \in Starts : InHandOf(r)

FreeSlots == \A i \in Slots : ~threads[i].active => ~threads[i].complete

(* Connections to come have left no trace, and a socket is open until its  *)
(* thread closes it.                                                       *)
Closes ==
  /\ conns \in 0 .. MaxConns
  /\ \A c \in Conns :
       /\ c > conns => worker[c].pc = "none" /\ closes[c] = 0
       /\ worker[c].pc \in {"exchange", "close"} => closes[c] = 0
       /\ closes[c] <= 1

(* A client thread runs in a slot of its own, whose handle is stored or    *)
(* about to be, and which stop() has not waited for yet.                   *)
OwnSlotOf(c) ==
  /\ worker[c].slot \in Slots
  /\ threads[worker[c].slot].active /\ ~threads[worker[c].slot].complete
  /\ threads[worker[c].slot].sock = c
  /\ \/ threads[worker[c].slot].thread = c
     \/ \E r \in Starts : proc[r].pc = "store" /\ proc[r].client = c
  /\ owner = "waitClients" => worker[c].slot > waited
  /\ ~Stopped
OwnSlot == \A c \in Conns : Alive(c) => OwnSlotOf(c)

IInv == Types /\ OneProcess /\ InHand /\ FreeSlots /\ Closes /\ OwnSlot

USE ServerAssumption

(* The records of an accepting thread that has a new connection, and of a  *)
(* new client thread.                                                      *)
LEMMA NewClient ==
  \A b \in BOOLEAN, n \in Nat :
    [pc |-> "scan", open |-> b, client |-> n + 1, i |-> 1] \in ProcType
BY SMT DEF ProcType, ProcPcs
(* ... and of a new client worker.                                         *)
LEMMA NewWorker == \A i \in Nat : [pc |-> "exchange", slot |-> i] \in WorkerType
BY SMT DEF WorkerType, WorkerPcs

(* The initial state satisfies the invariant.                              *)
LEMMA InitIInv == Init => IInv
<1> SUFFICES ASSUME Init PROVE IInv
  OBVIOUS
<1> USE DEF Init
<1>1. Types
  <2>1. threads \in [Slots -> SlotType]
    BY DEF SlotType, Zero, Cleared
  <2>2. proc \in [Starts -> ProcType]
    BY DEF ProcType, ProcPcs
  <2>3. worker \in [Conns -> WorkerType]
    BY DEF WorkerType, WorkerPcs
  <2>4. closes \in [Conns -> Nat]
    BY SMT
  <2>5. running \in BOOLEAN
    BY Zenon
  <2>6. /\ thread \in Nat /\ starts \in Nat /\ conns \in Nat
        /\ owner \in {"idle", "close", "waitProcess", "waitClients"}
        /\ waited \in 0 .. NumThreads
    BY SMT
  <2> QED BY <2>1, <2>2, <2>3, <2>4, <2>5, <2>6 DEF Types
<1>2. OneProcess /\ InHand /\ Closes /\ OwnSlot
  BY SMT DEF OneProcess, InHand, InHandOf, Closes, OwnSlot, Alive, Conns, Starts
<1>3. FreeSlots
  BY SMT DEF FreeSlots, Zero, Cleared
<1> QED BY <1>1, <1>2, <1>3 DEF IInv

(* A step of a client thread preserves the invariant.                      *)
LEMMA WorkerStepIInv ==
  ASSUME IInv, NEW c \in Conns, WorkerStep(c)
  PROVE  IInv'
<1> USE DEF IInv

<1>1. CASE Exchange(c)
  <2> USE <1>1 DEF Types, Exchange, WorkerStep, WorkerGo, CloseSocket
  <2>1. Types'
    <3>1. worker' \in [Conns -> WorkerType]
      BY DEF WorkerType, WorkerPcs
    <3> QED BY SMT, <3>1
  <2>2. OneProcess'
    BY DEF OneProcess, Stopped
  <2>3. InHand'
    BY SMT DEF InHand, InHandOf
  <2>4. FreeSlots'
    BY DEF FreeSlots
  <2>5. Closes'
    BY SMT DEF Closes
  <2>6. OwnSlot'
    BY SMT DEF OwnSlot, OwnSlotOf, Alive, Stopped
  <2> QED BY <2>1, <2>2, <2>3, <2>4, <2>5, <2>6 DEF IInv

<1>2. CASE CloseClient(c)
  <2> USE <1>2 DEF Types, CloseClient, WorkerStep, WorkerGo, CloseSocket
  <2>1. Types'
    <3>1. worker' \in [Conns -> WorkerType]
      BY DEF WorkerType, WorkerPcs
    <3>2. closes' \in [Conns -> Nat]
      <4>1. threads[worker[c].slot].sock = c
        BY SMT DEF OwnSlot, OwnSlotOf, Alive
      <4> QED BY SMT, <4>1 DEF Conns
    <3> QED BY SMT, <3>1, <3>2
  <2>2. OneProcess'
    BY DEF OneProcess, Stopped
  <2>3. InHand'
    BY SMT DEF InHand, InHandOf, OneProcess, FreeSlots, Closes, OwnSlot,
       OwnSlotOf, Alive, Zero, Slots, Starts, Conns, SlotType, ProcType,
       WorkerType
  <2>4. FreeSlots'
    BY DEF FreeSlots
  <2>5. Closes'
    BY SMT DEF Closes, InHand, InHandOf, OwnSlot, OwnSlotOf, Alive
  <2>6. OwnSlot'
    BY SMT DEF OwnSlot, OwnSlotOf, Alive, Stopped
  <2> QED BY <2>1, <2>2, <2>3, <2>4, <2>5, <2>6 DEF IInv

<1>3. CASE Complete(c)
  <2> USE <1>3 DEF Types, Complete, WorkerStep, WorkerGo, CloseSocket
  <2>1. Types'
    <3>1. threads' \in [Slots -> SlotType]
      BY DEF SlotType
    <3>2. worker' \in [Conns -> WorkerType]
      BY DEF WorkerType, WorkerPcs
    <3> QED BY SMT, <3>1, <3>2
  <2>2. OneProcess'
    BY DEF OneProcess, Stopped
  <2>3. InHand'
    BY SMT DEF InHand, InHandOf, OneProcess, FreeSlots, Closes, OwnSlot,
       OwnSlotOf, Alive, Zero, Slots, Starts, Conns, SlotType, ProcType,
       WorkerType
  <2>4. FreeSlots'
    BY SMT DEF FreeSlots, InHand, InHandOf, Zero, Cleared, OwnSlot, OwnSlotOf,
       Alive
  <2>5. Closes'
    BY SMT DEF Closes
  <2>6. OwnSlot'
    BY SMT DEF OwnSlot, OwnSlotOf, Alive, Stopped
  <2> QED BY <2>1, <2>2, <2>3, <2>4, <2>5, <2>6 DEF IInv

<1> QED BY <1>1, <1>2, <1>3 DEF WorkerStep

(* A step of an accepting thread preserves the invariant.                  *)
LEMMA ProcessStepIInv ==
  ASSUME IInv, NEW r \in Starts, ProcessStep(r)
  PROVE  IInv'
<1> USE DEF IInv
<1>0. /\ \A q \in Starts : q # r => proc[q].pc \in {"none", "ended"}
      /\ owner # "waitClients" /\ ~Stopped
  BY SMT DEF ProcessStep, OneProcess, Starts, ProcAt, BindFails, Bind, Publish, Loop, Select,
             AcceptFails, Accept, ScanFree, ScanComplete, ScanTaken, Drop, Place, Create,
             CreateFails, StoreHandle, Finish, ForgetListen

<1>1. CASE BindFails(r)
  <2> USE <1>1 DEF Types, BindFails, ProcessStep, ProcAt, ProcGo, TableVars
  <2>1. Types'
    <3>1. proc' \in [Starts -> ProcType]
      BY DEF ProcType, ProcPcs
    <3> QED BY SMT, <3>1
  <2>2. OneProcess'
    BY SMT DEF OneProcess, Stopped
  <2>3. InHand'
    BY SMT DEF InHand, InHandOf
  <2>4. FreeSlots'
    BY DEF FreeSlots
  <2>5. Closes'
    BY DEF Closes
  <2>6. OwnSlot'
    BY SMT DEF OwnSlot, OwnSlotOf, Alive, Stopped
  <2> QED BY <2>1, <2>2, <2>3, <2>4, <2>5, <2>6 DEF IInv

<1>2. CASE Bind(r)
  <2> USE <1>2 DEF Types, Bind, ProcessStep, ProcAt, ProcGo, TableVars
  <2>1. Types'
    <3>1. proc' \in [Starts -> ProcType]
      BY DEF ProcType, ProcPcs
    <3> QED BY SMT, <3>1
  <2>2. OneProcess'
    BY SMT DEF OneProcess, Stopped
  <2>3. InHand'
    BY SMT DEF InHand, InHandOf
  <2>4. FreeSlots'
    BY DEF FreeSlots
  <2>5. Closes'
    BY DEF Closes
  <2>6. OwnSlot'
    <3> SUFFICES ASSUME NEW d \in Conns, Alive(d)' PROVE OwnSlotOf(d)'
      BY DEF OwnSlot
    <3>1. Alive(d) /\ OwnSlotOf(d)
      BY SMT DEF OwnSlot, Alive
    <3>2. \A q \in Starts : proc[q].pc = "store" => proc'[q] = proc[q]
      BY SMT DEF ProcType
    <3> QED BY SMT, <3>1, <3>2 DEF OwnSlotOf, Stopped
  <2> QED BY <2>1, <2>2, <2>3, <2>4, <2>5, <2>6 DEF IInv

<1>3. CASE Publish(r)
  <2> USE <1>3 DEF Types, Publish, ProcessStep, ProcAt, ProcGo, TableVars
  <2>1. Types'
    <3>1. proc' \in [Starts -> ProcType]
      BY DEF ProcType, ProcPcs
    <3> QED BY SMT, <3>1
  <2>2. OneProcess'
    BY SMT DEF OneProcess, Stopped
  <2>3. InHand'
    BY SMT DEF InHand, InHandOf
  <2>4. FreeSlots'
    BY DEF FreeSlots
  <2>5. Closes'
    BY DEF Closes
  <2>6. OwnSlot'
    BY SMT DEF OwnSlot, OwnSlotOf, Alive, Stopped
  <2> QED BY <2>1, <2>2, <2>3, <2>4, <2>5, <2>6 DEF IInv

<1>4. CASE Loop(r)
  <2> USE <1>4 DEF Types, Loop, ProcessStep, ProcAt, ProcGo, TableVars
  <2>1. Types'
    <3>1. proc' \in [Starts -> ProcType]
      BY DEF ProcType, ProcPcs
    <3> QED BY SMT, <3>1
  <2>2. OneProcess'
    BY SMT DEF OneProcess, Stopped
  <2>3. InHand'
    BY SMT DEF InHand, InHandOf
  <2>4. FreeSlots'
    BY DEF FreeSlots
  <2>5. Closes'
    BY DEF Closes
  <2>6. OwnSlot'
    <3> SUFFICES ASSUME NEW d \in Conns, Alive(d)' PROVE OwnSlotOf(d)'
      BY DEF OwnSlot
    <3>1. Alive(d) /\ OwnSlotOf(d)
      BY SMT DEF OwnSlot, Alive
    <3>2. \A q \in Starts : proc[q].pc = "store" => proc'[q] = proc[q]
      BY SMT DEF ProcType
    <3> QED BY SMT, <3>1, <3>2 DEF OwnSlotOf, Stopped
  <2> QED BY <2>1, <2>2, <2>3, <2>4, <2>5, <2>6 DEF IInv

<1>5. CASE Select(r)
  <2> USE <1>5 DEF Types, Select, ProcessStep, ProcAt, ProcGo, TableVars
  <2>1. Types'
    <3>1. proc' \in [Starts -> ProcType]
      BY DEF ProcType, ProcPcs
    <3> QED BY SMT, <3>1
  <2>2. OneProcess'
    BY SMT DEF OneProcess, Stopped
  <2>3. InHand'
    BY SMT DEF InHand, InHandOf
  <2>4. FreeSlots'
    BY DEF FreeSlots
  <2>5. Closes'
    BY DEF Closes
  <2>6. OwnSlot'
    BY SMT DEF OwnSlot, OwnSlotOf, Alive, Stopped
  <2> QED BY <2>1, <2>2, <2>3, <2>4, <2>5, <2>6 DEF IInv

<1>6. CASE AcceptFails(r)
  <2> USE <1>6 DEF Types, AcceptFails, ProcessStep, ProcAt, ProcGo, TableVars
  <2>1. Types'
    <3>1. proc' \in [Starts -> ProcType]
      BY DEF ProcType, ProcPcs
    <3> QED BY SMT, <3>1
  <2>2. OneProcess'
    BY SMT DEF OneProcess, Stopped
  <2>3. InHand'
    BY SMT DEF InHand, InHandOf
  <2>4. FreeSlots'
    BY DEF FreeSlots
  <2>5. Closes'
    BY DEF Closes
  <2>6. OwnSlot'
    BY SMT DEF OwnSlot, OwnSlotOf, Alive, Stopped
  <2> QED BY <2>1, <2>2, <2>3, <2>4, <2>5, <2>6 DEF IInv

<1>7. CASE Accept(r)
  <2> USE <1>7 DEF Types, Accept, ProcessStep, ProcAt, ProcGo, TableVars
  <2>1. Types'
    <3>1. proc' \in [Starts -> ProcType]
      <4>1. proc[r].open \in BOOLEAN
        BY Zenon DEF ProcType
      <4> QED BY <4>1, NewClient, Zenon
    <3> QED BY SMT, <3>1
  <2>2. OneProcess'
    BY SMT DEF OneProcess, Stopped
  <2>3. InHand'
    <3> SUFFICES ASSUME NEW q \in Starts PROVE InHandOf(q)'
      BY DEF InHand
    <3>1. CASE q # r
      BY SMT, <3>1, <1>0 DEF InHandOf
    <3>2. CASE q = r
      BY SMT, <3>2 DEF InHand, InHandOf, Closes, Conns
    <3> QED BY <3>1, <3>2
  <2>4. FreeSlots'
    BY DEF FreeSlots
  <2>5. Closes'
    BY SMT DEF Closes, OneProcess, InHand, InHandOf, OwnSlot, OwnSlotOf, Alive,
       Slots, Starts, Conns, SlotType, ProcType, WorkerType
  <2>6. OwnSlot'
    <3> SUFFICES ASSUME NEW d \in Conns, Alive(d)' PROVE OwnSlotOf(d)'
      BY DEF OwnSlot
    <3>1. Alive(d) /\ OwnSlotOf(d)
      BY SMT DEF OwnSlot, Alive
    <3>2. \A q \in Starts : proc[q].pc = "store" => proc'[q] = proc[q]
      BY SMT DEF ProcType
    <3> QED BY SMT, <3>1, <3>2 DEF OwnSlotOf, Stopped
  <2> QED BY <2>1, <2>2, <2>3, <2>4, <2>5, <2>6 DEF IInv

<1>8. CASE ScanFree(r)
  <2> USE <1>8 DEF Types, ScanFree, ProcessStep, ProcAt, ProcGo, TableVars
  <2>1. Types'
    <3>1. proc' \in [Starts -> ProcType]
      BY DEF ProcType, ProcPcs
    <3> QED BY SMT, <3>1
  <2>2. OneProcess'
    BY SMT DEF OneProcess, Stopped
  <2>3. InHand'
    <3> SUFFICES ASSUME NEW q \in Starts PROVE InHandOf(q)'
      BY DEF InHand
    <3>1. CASE q # r
      BY SMT, <3>1, <1>0 DEF InHandOf
    <3>2. CASE q = r
      BY SMT, <3>2 DEF InHand, InHandOf
    <3> QED BY <3>1, <3>2
  <2>4. FreeSlots'
    BY DEF FreeSlots
  <2>5. Closes'
    BY DEF Closes
  <2>6. OwnSlot'
    <3> SUFFICES ASSUME NEW d \in Conns, Alive(d)' PROVE OwnSlotOf(d)'
      BY DEF OwnSlot
    <3>1. Alive(d) /\ OwnSlotOf(d)
      BY SMT DEF OwnSlot, Alive
    <3>2. \A q \in Starts : proc[q].pc = "store" => proc'[q] = proc[q]
      BY SMT DEF ProcType
    <3> QED BY SMT, <3>1, <3>2 DEF OwnSlotOf, Stopped
  <2> QED BY <2>1, <2>2, <2>3, <2>4, <2>5, <2>6 DEF IInv

<1>9. CASE ScanComplete(r)
  <2> USE <1>9 DEF Types, ScanComplete, ProcessStep, ProcAt, ProcGo,
        TableVars, CloseHandle, Zero
  <2>1. Types'
    <3>1. threads' \in [Slots -> SlotType]
      BY DEF SlotType, Zero
    <3>2. proc' \in [Starts -> ProcType]
      BY DEF ProcType, ProcPcs
    <3> QED BY SMT, <3>1, <3>2
  <2>2. OneProcess'
    BY SMT DEF OneProcess, Stopped
  <2>3. InHand'
    <3> SUFFICES ASSUME NEW q \in Starts PROVE InHandOf(q)'
      BY DEF InHand
    <3>1. CASE q # r
      BY SMT, <3>1, <1>0 DEF InHandOf
    <3>2. CASE q = r
      BY SMT, <3>2 DEF InHand, InHandOf
    <3> QED BY <3>1, <3>2
  <2>4. FreeSlots'
    BY SMT DEF FreeSlots
  <2>5. Closes'
    BY DEF Closes
  <2>6. OwnSlot'
    <3> SUFFICES ASSUME NEW d \in Conns, Alive(d)' PROVE OwnSlotOf(d)'
      BY DEF OwnSlot
    <3>1. Alive(d) /\ OwnSlotOf(d)
      BY SMT DEF OwnSlot, Alive
    <3>2. \A q \in Starts : proc[q].pc = "store" => proc'[q] = proc[q]
      BY SMT DEF ProcType
    <3>3. threads'[worker[d].slot] = threads[worker[d].slot]
      BY SMT, <3>1 DEF OwnSlotOf
    <3> QED BY SMT, <3>1, <3>2, <3>3 DEF OwnSlotOf, Stopped
  <2> QED BY <2>1, <2>2, <2>3, <2>4, <2>5, <2>6 DEF IInv

<1>10. CASE ScanTaken(r)
  <2> USE <1>10 DEF Types, ScanTaken, ProcessStep, ProcAt, ProcGo, TableVars
  <2>1. Types'
    <3>1. proc' \in [Starts -> ProcType]
      BY DEF ProcType, ProcPcs
    <3> QED BY SMT, <3>1
  <2>2. OneProcess'
    BY SMT DEF OneProcess, Stopped
  <2>3. InHand'
    <3> SUFFICES ASSUME NEW q \in Starts PROVE InHandOf(q)'
      BY DEF InHand
    <3>1. CASE q # r
      BY SMT, <3>1, <1>0 DEF InHandOf
    <3>2. CASE q = r
      BY SMT, <3>2 DEF InHand, InHandOf
    <3> QED BY <3>1, <3>2
  <2>4. FreeSlots'
    BY DEF FreeSlots
  <2>5. Closes'
    BY DEF Closes
  <2>6. OwnSlot'
    <3> SUFFICES ASSUME NEW d \in Conns, Alive(d)' PROVE OwnSlotOf(d)'
      BY DEF OwnSlot
    <3>1. Alive(d) /\ OwnSlotOf(d)
      BY SMT DEF OwnSlot, Alive
    <3>2. \A q \in Starts : proc[q].pc = "store" => proc'[q] = proc[q]
      BY SMT DEF ProcType
    <3> QED BY SMT, <3>1, <3>2 DEF OwnSlotOf, Stopped
  <2> QED BY <2>1, <2>2, <2>3, <2>4, <2>5, <2>6 DEF IInv

<1>11. CASE Drop(r)
  <2> USE <1>11 DEF Types, Drop, ProcessStep, ProcAt, ProcGo, TableVars,
        CloseSocket
  <2>1. Types'
    <3>1. proc' \in [Starts -> ProcType]
      BY DEF ProcType, ProcPcs
    <3>2. closes' \in [Conns -> Nat]
      <4>1. proc[r].client \in Conns
        BY SMT DEF InHand, InHandOf, Closes, Conns
      <4> QED BY SMT, <4>1 DEF Conns
    <3> QED BY SMT, <3>1, <3>2
  <2>2. OneProcess'
    BY SMT DEF OneProcess, Stopped
  <2>3. InHand'
    <3> SUFFICES ASSUME NEW q \in Starts PROVE InHandOf(q)'
      BY DEF InHand
    <3>1. CASE q # r
      BY SMT, <3>1, <1>0 DEF InHandOf
    <3>2. CASE q = r
      BY SMT, <3>2 DEF InHand, InHandOf
    <3> QED BY <3>1, <3>2
  <2>4. FreeSlots'
    BY DEF FreeSlots
  <2>5. Closes'
    BY SMT DEF Closes, InHand, InHandOf, OwnSlot, OwnSlotOf, Alive
  <2>6. OwnSlot'
    BY SMT DEF OwnSlot, OwnSlotOf, Alive, Stopped
  <2> QED BY <2>1, <2>2, <2>3, <2>4, <2>5, <2>6 DEF IInv

<1>12. CASE Place(r)
  <2> USE <1>12 DEF Types, Place, ProcessStep, ProcAt, ProcGo, TableVars
  <2>1. Types'
    <3>1. threads' \in [Slots -> SlotType]
      <4>1. proc[r].client \in Nat
        BY SMT DEF ProcType
      <4> QED BY <4>1, Zenon DEF SlotType
    <3>2. proc' \in [Starts -> ProcType]
      BY DEF ProcType, ProcPcs
    <3> QED BY SMT, <3>1, <3>2
  <2>2. OneProcess'
    BY SMT DEF OneProcess, Stopped
  <2>3. InHand'
    <3> SUFFICES ASSUME NEW q \in Starts PROVE InHandOf(q)'
      BY DEF InHand
    <3>1. CASE q # r
      BY SMT, <3>1, <1>0 DEF InHandOf
    <3>2. CASE q = r
      BY SMT, <3>2 DEF InHand, InHandOf, OneProcess, FreeSlots, Closes,
         OwnSlot, OwnSlotOf, Alive, Zero, Slots, Starts, Conns, SlotType,
         ProcType, WorkerType
    <3> QED BY <3>1, <3>2
  <2>4. FreeSlots'
    BY SMT DEF FreeSlots
  <2>5. Closes'
    BY DEF Closes
  <2>6. OwnSlot'
    BY SMT DEF OwnSlot, OwnSlotOf, Alive, Stopped, SlotType, ProcType,
       WorkerType
  <2> QED BY <2>1, <2>2, <2>3, <2>4, <2>5, <2>6 DEF IInv

<1>13. CASE Create(r)
  <2> USE <1>13 DEF Types, Create, ProcessStep, ProcAt, ProcGo, TableVars
  <2>1. Types'
    <3>1. proc' \in [Starts -> ProcType]
      BY DEF ProcType, ProcPcs
    <3>2. worker' \in [Conns -> WorkerType]
      <4>1. proc[r].i \in Nat
        BY SMT DEF ProcType
      <4>2. [pc |-> "exchange", slot |-> proc[r].i] \in WorkerType
        BY <4>1, NewWorker, Zenon
      <4> QED BY <4>2, Zenon
    <3> QED BY SMT, <3>1, <3>2
  <2>2. OneProcess'
    BY SMT DEF OneProcess, Stopped
  <2>3. InHand'
    <3> SUFFICES ASSUME NEW q \in Starts PROVE InHandOf(q)'
      BY DEF InHand
    <3>1. CASE q # r
      BY SMT, <3>1, <1>0 DEF InHandOf
    <3>2. CASE q = r
      BY SMT, <3>2 DEF InHand, InHandOf, Closes, Conns
    <3> QED BY <3>1, <3>2
  <2>4. FreeSlots'
    BY DEF FreeSlots
  <2>5. Closes'
    BY SMT DEF Closes, InHand, InHandOf, OwnSlot, OwnSlotOf, Alive
  <2>6. OwnSlot'
    <3> SUFFICES ASSUME NEW d \in Conns, Alive(d)' PROVE OwnSlotOf(d)'
      BY DEF OwnSlot
    <3>1. CASE d = proc[r].client
      <4>1. proc'[r].pc = "store" /\ proc'[r].client = d
        BY SMT, <3>1 DEF ProcType
      <4>2. worker'[d].slot = proc[r].i
        BY SMT, <3>1
      <4>3. /\ proc[r].i \in Slots /\ threads[proc[r].i].active
            /\ ~threads[proc[r].i].complete /\ threads[proc[r].i].sock = d
        BY SMT, <3>1 DEF InHand, InHandOf
      <4> QED BY SMT, <4>1, <4>2, <4>3, <1>0 DEF OwnSlotOf, Stopped
    <3>2. CASE d # proc[r].client
      <4>1. worker'[d] = worker[d]
        BY SMT, <3>2
      <4>2. Alive(d) /\ OwnSlotOf(d)
        BY SMT, <4>1 DEF OwnSlot, Alive
      <4>3. \A q \in Starts : proc[q].pc = "store" => proc'[q] = proc[q]
        BY SMT DEF ProcType
      <4> QED BY SMT, <4>1, <4>2, <4>3 DEF OwnSlotOf, Stopped
    <3> QED BY <3>1, <3>2
  <2> QED BY <2>1, <2>2, <2>3, <2>4, <2>5, <2>6 DEF IInv

<1>14. CASE CreateFails(r)
  <2> USE <1>14 DEF Types, CreateFails, ProcessStep, ProcAt, ProcGo, TableVars
  <2>1. Types'
    <3>1. threads' \in [Slots -> SlotType]
      BY DEF SlotType
    <3>2. proc' \in [Starts -> ProcType]
      BY DEF ProcType, ProcPcs
    <3>3. worker' \in [Conns -> WorkerType]
      BY DEF WorkerType, WorkerPcs
    <3> QED BY SMT, <3>1, <3>2, <3>3
  <2>2. OneProcess'
    BY SMT DEF OneProcess, Stopped
  <2>3. InHand'
    <3> SUFFICES ASSUME NEW q \in Starts PROVE InHandOf(q)'
      BY DEF InHand
    <3>1. CASE q # r
      BY SMT, <3>1, <1>0 DEF InHandOf
    <3>2. CASE q = r
      BY SMT, <3>2 DEF InHand, InHandOf
    <3> QED BY <3>1, <3>2
  <2>4. FreeSlots'
    BY SMT DEF FreeSlots
  <2>5. Closes'
    BY SMT DEF Closes, InHand, InHandOf, OwnSlot, OwnSlotOf, Alive
  <2>6. OwnSlot'
    <3> SUFFICES ASSUME NEW d \in Conns, Alive(d)' PROVE OwnSlotOf(d)'
      BY DEF OwnSlot
    <3>1. proc[r].client \in Conns /\ worker[proc[r].client].pc = "none"
      BY SMT DEF InHand, InHandOf, Closes, Conns
    <3>2. d # proc[r].client
      BY SMT, <3>1 DEF Alive, WorkerType
    <3>3. worker'[d] = worker[d]
      BY SMT, <3>2
    <3>4. Alive(d) /\ OwnSlotOf(d)
      BY SMT, <3>3 DEF OwnSlot, Alive
    <3>5. worker[d].slot # proc[r].i
      BY SMT, <3>2, <3>4 DEF InHand, InHandOf, OwnSlotOf
    <3>6. threads'[worker[d].slot] = threads[worker[d].slot]
      BY SMT, <3>5
    <3>7. \A q \in Starts : proc[q].pc = "store" => proc'[q] = proc[q]
      BY SMT, <1>0
    <3>8. (\E q \in Starts : proc[q].pc = "store" /\ proc[q].client = d)
            => \E p \in Starts : proc'[p].pc = "store" /\ proc'[p].client = d
      BY <3>7
    <3>9. owner' # "waitClients" /\ ~Stopped'
      BY <1>0 DEF Stopped
    <3> QED BY Zenon, <3>3, <3>4, <3>6, <3>8, <3>9 DEF OwnSlotOf
  <2> QED BY <2>1, <2>2, <2>3, <2>4, <2>5, <2>6 DEF IInv

<1>15. CASE StoreHandle(r)
  <2> USE <1>15 DEF Types, StoreHandle, ProcessStep, ProcAt, ProcGo, TableVars
  <2>1. Types'
    <3>1. threads' \in [Slots -> SlotType]
      <4>1. proc[r].client \in Nat
        BY SMT DEF ProcType
      <4> QED BY <4>1, Zenon DEF SlotType
    <3>2. proc' \in [Starts -> ProcType]
      BY DEF ProcType, ProcPcs
    <3> QED BY SMT, <3>1, <3>2
  <2>2. OneProcess'
    BY SMT DEF OneProcess, Stopped
  <2>3. InHand'
    <3> SUFFICES ASSUME NEW q \in Starts PROVE InHandOf(q)'
      BY DEF InHand
    <3>1. CASE q # r
      BY SMT, <3>1, <1>0 DEF InHandOf
    <3>2. CASE q = r
      BY SMT, <3>2 DEF InHand, InHandOf
    <3> QED BY <3>1, <3>2
  <2>4. FreeSlots'
    BY SMT DEF FreeSlots
  <2>5. Closes'
    BY DEF Closes
  <2>6. OwnSlot'
    BY SMT DEF OwnSlot, OwnSlotOf, Alive, Stopped, InHand, InHandOf
  <2> QED BY <2>1, <2>2, <2>3, <2>4, <2>5, <2>6 DEF IInv

<1>16. CASE Finish(r)
  <2> USE <1>16 DEF Types, Finish, ProcessStep, ProcAt, ProcGo, TableVars
  <2>1. Types'
    <3>1. proc' \in [Starts -> ProcType]
      BY DEF ProcType, ProcPcs
    <3> QED BY SMT, <3>1
  <2>2. OneProcess'
    BY SMT DEF OneProcess, Stopped
  <2>3. InHand'
    BY SMT DEF InHand, InHandOf
  <2>4. FreeSlots'
    BY DEF FreeSlots
  <2>5. Closes'
    BY DEF Closes
  <2>6. OwnSlot'
    <3> SUFFICES ASSUME NEW d \in Conns, Alive(d)' PROVE OwnSlotOf(d)'
      BY DEF OwnSlot
    <3>1. Alive(d) /\ OwnSlotOf(d)
      BY SMT DEF OwnSlot, Alive
    <3>2. \A q \in Starts : proc[q].pc = "store" => proc'[q] = proc[q]
      BY SMT DEF ProcType
    <3> QED BY SMT, <3>1, <3>2 DEF OwnSlotOf, Stopped
  <2> QED BY <2>1, <2>2, <2>3, <2>4, <2>5, <2>6 DEF IInv

<1>17. CASE ForgetListen(r)
  <2> USE <1>17 DEF Types, ForgetListen, ProcessStep, ProcAt, ProcGo, TableVars
  <2>1. Types'
    <3>1. proc' \in [Starts -> ProcType]
      BY DEF ProcType, ProcPcs
    <3> QED BY SMT, <3>1
  <2>2. OneProcess'
    BY SMT DEF OneProcess, Stopped
  <2>3. InHand'
    BY SMT DEF InHand, InHandOf
  <2>4. FreeSlots'
    BY DEF FreeSlots
  <2>5. Closes'
    BY DEF Closes
  <2>6. OwnSlot'
    BY SMT DEF OwnSlot, OwnSlotOf, Alive, Stopped
  <2> QED BY <2>1, <2>2, <2>3, <2>4, <2>5, <2>6 DEF IInv

<1> QED BY <1>1, <1>2, <1>3, <1>4, <1>5, <1>6, <1>7, <1>8, <1>9, <1>10, <1>11, <1>12,
           <1>13, <1>14, <1>15, <1>16, <1>17 DEF ProcessStep

(* A call of start() or a step of stop() preserves the invariant when the  *)
(* waits do not expire.                                                    *)
LEMMA OwnerIInv ==
  ASSUME IInv, ~ProcessWaitExpires, ~ClientWaitExpires, Start \/ Stop \/ StopStep
  PROVE  IInv'
<1> USE DEF IInv

<1>1. CASE Start
  <2> USE <1>1 DEF Types, Start
  <2>1. Types'
    <3>1. threads' \in [Slots -> SlotType]
      BY DEF SlotType, Zero, Cleared
    <3>2. proc' \in [Starts -> ProcType]
      BY DEF ProcType, ProcPcs
    <3> QED BY SMT, <3>1, <3>2
  <2>2. OneProcess'
    <3>1. \A q \in Starts : proc[q].pc \in {"none", "ended"}
      BY SMT DEF OneProcess, Stopped, Starts
    <3>2. \A q \in Starts : q # starts + 1 => proc'[q] = proc[q]
      BY SMT
    <3> QED BY SMT, <3>1, <3>2 DEF OneProcess, Stopped
  <2>3. InHand'
    <3>1. \A q \in Starts : proc[q].pc \in {"none", "ended"}
      BY SMT DEF OneProcess, Stopped, Starts
    <3>2. \A q \in Starts : proc'[q].pc \in {"none", "ended", "bind"}
      BY SMT, <3>1 DEF ProcType
    <3> QED BY SMT, <3>2 DEF InHand, InHandOf
  <2>4. FreeSlots'
    BY SMT DEF FreeSlots, InHand, InHandOf, Zero, Cleared, OwnSlot, OwnSlotOf,
       Alive
  <2>5. Closes'
    BY DEF Closes
  <2>6. OwnSlot'
    BY SMT DEF OwnSlot, OwnSlotOf, Alive, Stopped
  <2> QED BY <2>1, <2>2, <2>3, <2>4, <2>5, <2>6 DEF IInv

<1>2. CASE Stop
  <2> USE <1>2 DEF Types, Stop
  <2>1. Types'
    BY Zenon
  <2>2. OneProcess'
    BY SMT DEF OneProcess, Stopped
  <2>3. InHand'
    BY DEF InHand, InHandOf
  <2>4. FreeSlots'
    BY DEF FreeSlots
  <2>5. Closes'
    BY DEF Closes
  <2>6. OwnSlot'
    BY SMT DEF OwnSlot, OwnSlotOf, Alive, Stopped
  <2> QED BY <2>1, <2>2, <2>3, <2>4, <2>5, <2>6 DEF IInv

<1>3. CASE StopListening
  <2> USE <1>3 DEF Types, StopListening
  <2>1. Types'
    <3>1. proc' \in [Starts -> ProcType]
      BY DEF ProcType, ProcPcs
    <3> QED BY SMT, <3>1
  <2>2. OneProcess'
    BY SMT DEF OneProcess, Stopped
  <2>3. InHand'
    BY SMT DEF InHand, InHandOf
  <2>4. FreeSlots'
    BY DEF FreeSlots
  <2>5. Closes'
    BY DEF Closes
  <2>6. OwnSlot'
    BY SMT DEF OwnSlot, OwnSlotOf, Alive, Stopped
  <2> QED BY <2>1, <2>2, <2>3, <2>4, <2>5, <2>6 DEF IInv

<1>4. CASE StopWaitProcess
  <2> USE <1>4 DEF Types, StopWaitProcess, ProcAt
  <2>1. Types'
    BY SMT
  <2>2. OneProcess'
    BY SMT DEF OneProcess, Stopped
  <2>3. InHand'
    BY DEF InHand, InHandOf
  <2>4. FreeSlots'
    BY DEF FreeSlots
  <2>5. Closes'
    BY DEF Closes
  <2>6. OwnSlot'
    BY SMT DEF OwnSlot, OwnSlotOf, Alive, Stopped, OneProcess, InHand,
       InHandOf, Closes, FreeSlots, Zero, Cleared, Slots, Starts, Conns,
       SlotType, ProcType, WorkerType
  <2> QED BY <2>1, <2>2, <2>3, <2>4, <2>5, <2>6 DEF IInv

<1>5. CASE StopWaitClient
  <2> USE <1>5 DEF Types, StopWaitClient, CloseHandle, Awaited
  <2>1. Types'
    BY SMT
  <2>2. OneProcess'
    BY DEF OneProcess, Stopped
  <2>3. InHand'
    BY DEF InHand, InHandOf
  <2>4. FreeSlots'
    BY DEF FreeSlots
  <2>5. Closes'
    BY DEF Closes
  <2>6. OwnSlot'
    <3> SUFFICES ASSUME NEW d \in Conns, Alive(d)' PROVE OwnSlotOf(d)'
      BY DEF OwnSlot
    <3>1. Alive(d) /\ OwnSlotOf(d)
      BY SMT DEF OwnSlot, Alive
    <3>2. \A q \in Starts : proc[q].pc \in {"none", "ended"}
      BY SMT DEF OneProcess, Starts
    <3>3. threads[worker[d].slot].thread = d
      BY SMT, <3>1, <3>2 DEF OwnSlotOf
    <3>4. worker[d].slot # waited + 1
      <4> SUFFICES ASSUME worker[d].slot = waited + 1 PROVE FALSE
        OBVIOUS
      <4>1. Awaited(waited + 1) /\ threads[waited + 1].thread = d
        BY SMT, <3>1, <3>3 DEF OwnSlotOf, Conns
      <4> QED BY SMT, <4>1, <3>1 DEF Alive
    <3> QED BY SMT, <3>1, <3>4 DEF OwnSlotOf, Stopped, Slots
  <2> QED BY <2>1, <2>2, <2>3, <2>4, <2>5, <2>6 DEF IInv

<1>6. CASE StopClear
  <2> USE <1>6 DEF Types, StopClear
  <2>1. Types'
    <3>1. threads' \in [Slots -> SlotType]
      BY DEF SlotType, Zero, Cleared
    <3> QED BY SMT, <3>1
  <2>2. OneProcess'
    BY SMT DEF OneProcess, Stopped
  <2>3. InHand'
    <3>1. \A q \in Starts : proc[q].pc \in {"none", "ended"}
      BY SMT DEF OneProcess, Stopped, Starts
    <3> QED BY SMT, <3>1 DEF InHand, InHandOf
  <2>4. FreeSlots'
    BY SMT DEF FreeSlots, InHand, InHandOf, Zero, Cleared, OwnSlot, OwnSlotOf,
       Alive
  <2>5. Closes'
    BY DEF Closes
  <2>6. OwnSlot'
    BY SMT DEF OwnSlot, OwnSlotOf, Alive, Stopped, OneProcess, InHand,
       InHandOf, Closes, FreeSlots, Zero, Cleared, Slots, Starts, Conns,
       SlotType, ProcType, WorkerType
  <2> QED BY <2>1, <2>2, <2>3, <2>4, <2>5, <2>6 DEF IInv

<1> QED BY <1>1, <1>2, <1>3, <1>4, <1>5, <1>6 DEF StopStep

(* A step that changes nothing preserves the invariant.                    *)
LEMMA StutterIInv == IInv /\ UNCHANGED vars => IInv'
BY SMT DEF vars, IInv, Types, OneProcess, InHand, InHandOf, FreeSlots, Closes, OwnSlot, OwnSlotOf,
           Alive, Stopped

(* The invariant holds in every reachable state, when stop() waits long    *)
(* enough.                                                                 *)
THEOREM Invariance ==
  ASSUME ~ProcessWaitExpires, ~ClientWaitExpires PROVE Spec => []IInv
<1>1. IInv /\ [Next]_vars => IInv'
  BY WorkerStepIInv, ProcessStepIInv, OwnerIInv, StutterIInv DEF Next
<1> QED BY <1>1, InitIInv, PTL DEF Spec

(* A client thread always finds its own socket in its slot: nobody clears  *)
(* or reuses the slot while the thread runs.                               *)
THEOREM SlotExclusive ==
  ASSUME ~ProcessWaitExpires, ~ClientWaitExpires PROVE Spec => []OwnSocket
<1>1. IInv => OwnSocket BY DEF IInv, OwnSlot, OwnSlotOf, OwnSocket
<1> QED BY <1>1, Invariance, PTL

(* No client's socket is closed twice.                                     *)
THEOREM SocketsClosedOnce ==
  ASSUME ~ProcessWaitExpires, ~ClientWaitExpires PROVE Spec => []ClosedOnce
<1>1. IInv => ClosedOnce BY DEF IInv, Closes, ClosedOnce
<1> QED BY <1>1, Invariance, PTL

(* When stop() has returned no thread of the server runs.                  *)
THEOREM StopIsComplete ==
  ASSUME ~ProcessWaitExpires, ~ClientWaitExpires PROVE Spec => []StoppedIsQuiet
<1>1. IInv => StoppedIsQuiet
  BY SMT DEF IInv, OneProcess, OwnSlot, OwnSlotOf, StoppedIsQuiet, ClientsComplete, Starts
<1> QED BY <1>1, Invariance, PTL

-----------------------------------------------------------------------------
(* Sockets and handles that are not lost.  The types of the state, as the  *)
(* runs check them, and where a handle that is open can be found: in the   *)
(* slot of its thread, which stop() has not passed, or with the accepting  *)
(* thread that is about to store it.                                       *)
SlotOf(n) == [active : BOOLEAN, sock : 0 .. n, complete : BOOLEAN, thread : 0 .. n]
ProcOf(n) == [pc : ProcPcs, open : BOOLEAN, client : 0 .. n, i : 0 .. NumThreads + 1]
WorkerOf == [pc : WorkerPcs, slot : Slots \union {0}]

Bounds ==
  /\ threads \in [Slots -> SlotOf(conns)]
  /\ listen \in 0 .. starts /\ thread \in 0 .. starts /\ starts \in 0 .. MaxStarts
  /\ server_running \in BOOLEAN
  /\ proc \in [Starts -> ProcOf(conns)]
  /\ worker \in [Conns -> WorkerOf]
  /\ handles \in [Conns -> {0, 1}]

Ran(c) == worker[c].pc \notin {"none", "failed"}
Passed(i) == owner = "waitClients" /\ i <= waited
Storing(c) == \E r \in Starts : proc[r].pc = "store" /\ proc[r].client = c
Holding(c) == \E r \in Starts : proc[r].pc \in {"scan", "place", "create"} /\ proc[r].client = c

(* What a slot names is the thread that runs or ran in it.                 *)
Stored ==
  \A i \in Slots :
    /\ threads[i].active /\ threads[i].thread # 0 =>
         /\ threads[i].thread \in Conns
         /\ worker[threads[i].thread].slot = i /\ Ran(threads[i].thread)
         /\ ~Passed(i) => handles[threads[i].thread] = 1
    /\ ~threads[i].active => threads[i].thread = 0
    /\ Stopped => ~threads[i].active
ToStore ==
  \A r \in Starts :
    /\ proc[r].pc = "create" => threads[proc[r].i].thread = 0
    /\ proc[r].pc = "store" =>
         /\ threads[proc[r].i].active /\ threads[proc[r].i].thread = 0
         /\ handles[proc[r].client] = 1 /\ Ran(proc[r].client) /\ proc[r].client <= conns
Known ==
  \A c \in Conns :
    /\ ~Ran(c) => handles[c] = 0
    /\ handles[c] = 1 =>
       \/ Storing(c)
       \/ /\ worker[c].slot \in Slots /\ ~Passed(worker[c].slot)
          /\ threads[worker[c].slot].active /\ threads[worker[c].slot].thread = c
ClosedOrHeld ==
  \A c \in Conns :
    /\ worker[c].pc \in {"complete", "ended"} => closes[c] = 1
    /\ worker[c].pc = "none" /\ c <= conns => closes[c] = 1 \/ Holding(c)
HandleInv == Stored /\ ToStore /\ Known /\ ClosedOrHeld

(* Initially there is nothing to lose.                                     *)
LEMMA InitHandles == Init => Bounds /\ HandleInv
<1> SUFFICES ASSUME Init PROVE Bounds /\ HandleInv
  OBVIOUS
<1> USE DEF Init
<1>1. Bounds
  <2>1. /\ threads \in [Slots -> SlotOf(conns)]
        /\ listen \in 0 .. starts /\ thread \in 0 .. starts /\ starts \in 0 .. MaxStarts
        /\ handles \in [Conns -> {0, 1}]
    BY SMT DEF Zero, Cleared, SlotOf
  <2>2. proc \in [Starts -> ProcOf(conns)]
    BY SMT DEF ProcPcs, ProcOf
  <2>3. worker \in [Conns -> WorkerOf]
    BY SMT DEF WorkerPcs, WorkerOf
  <2>4. server_running \in BOOLEAN
    BY Zenon
  <2> QED BY <2>1, <2>2, <2>3, <2>4 DEF Bounds
<1>2. HandleInv
  BY SMT DEF HandleInv, Stored, ToStore, Known, ClosedOrHeld, Ran, Zero, Cleared, Conns, Starts
<1> QED BY <1>1, <1>2

(* A step that neither makes, stores nor closes a handle, and that leaves  *)
(* to every slot its thread, keeps what is known of handles.               *)
LEMMA SameHandles ==
  ASSUME IInv, HandleInv, handles' = handles, conns \in Nat, conns' \in Nat, conns <= conns',
         Stopped' => Stopped, \A i \in Slots : owner' = "waitClients" /\ i <= waited' <=> Passed(i),
         \A i \in Slots : /\ threads'[i].active = threads[i].active
                          /\ threads'[i].thread = threads[i].thread,
         \A c \in Conns : worker'[c].slot = worker[c].slot /\ (Ran(c)' <=> Ran(c)),
         \A r \in Starts :
           /\ proc'[r].pc = "store" <=> proc[r].pc = "store"
           /\ proc'[r].pc = "create" => proc[r].pc = "create"
           /\ proc[r].pc \in {"store", "create"} =>
                proc'[r].i = proc[r].i /\ proc'[r].client = proc[r].client
  PROVE  Stored' /\ ToStore' /\ Known'
<1>0. Stored /\ ToStore /\ Known /\ InHand
  BY DEF HandleInv, IInv
<1>1. Stored'
  BY <1>0, SMT DEF Stored, Passed
<1>2. ToStore'
  <2>1. \A r \in Starts : proc[r].pc \in {"store", "create"} =>
          /\ proc[r].i \in Slots /\ proc[r].client \in Nat
          /\ proc[r].pc = "store" => proc[r].client \in Conns
    BY <1>0, SMT DEF InHand, InHandOf, Conns
  <2> QED BY <1>0, <2>1, SMT DEF ToStore
<1>3. Known'
  <2>1. \A c \in Conns : Storing(c) => Storing(c)'
    BY Zenon DEF Storing
  <2>2. \A i \in Slots : Passed(i)' <=> Passed(i)
    BY Zenon DEF Passed
  <2>3. \A c \in Conns : worker'[c].slot = worker[c].slot /\ (Ran(c)' <=> Ran(c))
    OBVIOUS
  <2> SUFFICES ASSUME NEW c \in Conns
               PROVE  /\ ~Ran(c)' => handles'[c] = 0
                      /\ handles'[c] = 1 =>
                         \/ Storing(c)'
                         \/ /\ worker'[c].slot \in Slots /\ ~Passed(worker[c].slot)
                            /\ threads'[worker'[c].slot].active
                            /\ threads'[worker'[c].slot].thread = c
    BY <2>2, <2>3 DEF Known, Passed
  <2> QED BY <1>0, <2>1, <2>3, SMT DEF Known
<1> QED BY <1>1, <1>2, <1>3

(* A step of a client thread loses neither its socket nor its handle.      *)
LEMMA WorkerHandles ==
  ASSUME IInv, HandleInv, NEW c \in Conns, WorkerStep(c)
  PROVE  HandleInv'
<1>0. /\ Alive(c) /\ OwnSlotOf(c) /\ worker \in [Conns -> WorkerType]
      /\ threads \in [Slots -> SlotType] /\ closes \in [Conns -> Nat]
      /\ conns \in Nat /\ ClosedOrHeld
  BY SMT DEF IInv, Types, HandleInv, OwnSlot, Alive, WorkerStep, WorkerGo, Exchange, CloseClient, Complete
<1>1. /\ handles' = handles /\ conns' = conns /\ proc' = proc /\ owner' = owner
      /\ running' = running /\ waited' = waited
  BY DEF WorkerStep
<1>2. \E to \in {"close", "complete", "ended"} : worker' = [worker EXCEPT ![c].pc = to]
  BY DEF WorkerStep, Exchange, CloseClient, Complete, WorkerGo
<1>3. \A d \in Conns : worker'[d].slot = worker[d].slot /\ (Ran(d)' <=> Ran(d))
  BY <1>0, <1>2, SMT DEF WorkerType, Ran, Alive
<1>4. \A i \in Slots : threads'[i].active = threads[i].active /\ threads'[i].thread = threads[i].thread
  BY <1>0, SMT DEF WorkerStep, Exchange, CloseClient, Complete, SlotType
<1>5. Stored' /\ ToStore' /\ Known'
  BY <1>0, <1>1, <1>3, <1>4, SameHandles, SMT DEF Stopped, Passed
<1>6. ClosedOrHeld'
  <2>1. closes'[c] = IF worker'[c].pc \in {"complete", "ended"} THEN 1 ELSE closes[c]
    <3>1. CASE Exchange(c)
      BY <1>0, <3>1, SMT DEF Exchange, WorkerGo, WorkerType
    <3>2. CASE CloseClient(c)
      <4>1. closes[c] = 0 /\ threads[worker[c].slot].sock = c /\ worker'[c].pc = "complete"
        BY <1>0, <3>2, SMT DEF IInv, Closes, CloseClient, WorkerGo, OwnSlotOf, WorkerType
      <4>2. closes' = [closes EXCEPT ![c] = closes[c] + 1]
        <5>1. c # 0 BY SMT DEF Conns
        <5> QED BY <3>2, <4>1, <5>1 DEF CloseClient, CloseSocket
      <4> QED BY <1>0, <4>1, <4>2, SMT
    <3>3. CASE Complete(c)
      BY <1>0, <3>3, SMT DEF ClosedOrHeld, Complete, WorkerGo, WorkerType
    <3> QED BY <3>1, <3>2, <3>3 DEF WorkerStep
  <2>2. \A d \in Conns : d # c => closes'[d] = closes[d] /\ worker'[d] = worker[d]
    <3>1. CASE CloseClient(c)
      <4>1. threads[worker[c].slot].sock = c
        BY <1>0 DEF OwnSlotOf
      <4> QED BY <1>0, <1>2, <3>1, <4>1, SMT DEF CloseClient, CloseSocket, WorkerType
    <3>2. CASE Exchange(c) \/ Complete(c)
      BY <1>0, <1>2, <3>2, SMT DEF Exchange, Complete, WorkerType
    <3> QED BY <3>1, <3>2 DEF WorkerStep
  <2>3. worker'[c].pc # "none"
    BY <1>0, <1>2, SMT DEF WorkerType
  <2> QED BY <1>0, <1>1, <2>1, <2>2, <2>3, SMT DEF ClosedOrHeld, Holding
<1> QED BY <1>5, <1>6 DEF HandleInv

(* Nor does a step of an accepting thread.                                 *)
LEMMA OneRuns ==
  ASSUME IInv, NEW r \in Starts, ProcessStep(r)
  PROVE  /\ \A q \in Starts : q # r => proc[q].pc \in {"none", "ended"}
         /\ owner # "waitClients" /\ ~Stopped
         /\ owner' = owner /\ running' = running /\ waited' = waited
BY SMT DEF IInv, ProcessStep, OneProcess, Starts, ProcAt, BindFails, Bind, Publish, Loop, Select,
           AcceptFails, Accept, ScanFree, ScanComplete, ScanTaken, Drop, Place, Create,
           CreateFails, StoreHandle, Finish, ForgetListen

(* ... and a step of it that neither creates a handle nor moves the one it *)
(* just created leaves what is known of handles.                           *)
LEMMA QuietHandles ==
  ASSUME IInv, HandleInv, NEW r \in Starts, ProcessStep(r),
         \/ BindFails(r) \/ Bind(r) \/ Publish(r) \/ Loop(r) \/ Select(r) \/ AcceptFails(r)
         \/ ScanFree(r) \/ ScanTaken(r) \/ Finish(r) \/ ForgetListen(r)
  PROVE  HandleInv'
<1>1. /\ proc \in [Starts -> ProcType] /\ conns \in Nat
  BY DEF IInv, Types
<1>2. UNCHANGED <<threads, conns, worker, closes, handles>>
  BY DEF BindFails, Bind, Publish, Loop, Select, AcceptFails, ScanFree, ScanTaken, Finish,
         ForgetListen, TableVars
<1>3. UNCHANGED <<owner, running, waited>>
  BY OneRuns
<1>4. /\ \A q \in Starts : q # r => proc'[q] = proc[q]
      /\ proc'[r].client = proc[r].client
      /\ proc[r].pc \notin {"store", "create"} /\ proc'[r].pc \notin {"store", "create"}
      /\ proc[r].pc \in {"scan", "place", "create"} => proc'[r].pc \in {"scan", "place", "create"}
  BY <1>1, SMT DEF ProcType, ProcAt, ProcGo, BindFails, Bind, Publish, Loop, Select, AcceptFails,
         ScanFree, ScanTaken, Finish, ForgetListen
<1>5. Stored' /\ ToStore' /\ Known'
  BY <1>1, <1>2, <1>3, <1>4, SameHandles, SMT DEF Stopped, Passed, Ran
<1>6. ClosedOrHeld'
  BY <1>2, <1>4, SMT DEF HandleInv, ClosedOrHeld, Holding
<1> QED BY <1>5, <1>6 DEF HandleInv


(* What an accepting thread finds: only it runs, and stop() waits for no   *)
(* client yet.                                                             *)
LEMMA AcceptingFinds ==
  ASSUME IInv, HandleInv, NEW r \in Starts, ProcessStep(r)
  PROVE  /\ \A i \in Slots :
              /\ threads[i].active /\ threads[i].thread # 0 =>
                   /\ threads[i].thread \in Conns
                   /\ worker[threads[i].thread].slot = i
                   /\ Ran(threads[i].thread)
                   /\ handles[threads[i].thread] = 1
              /\ ~threads[i].active => threads[i].thread = 0
         /\ \A c \in Conns :
              /\ ~Ran(c) => handles[c] = 0
              /\ Storing(c) => proc[r].pc = "store" /\ proc[r].client = c
              /\ Holding(c) => proc[r].pc \in {"scan", "place", "create"} /\ proc[r].client = c
              /\ handles[c] = 1 /\ ~Storing(c) =>
                   /\ worker[c].slot \in Slots
                   /\ threads[worker[c].slot].active
                   /\ threads[worker[c].slot].thread = c
         /\ \A i : ~Passed(i) /\ ~Passed(i)'
         /\ ~Stopped /\ ~Stopped'
<1>1. /\ \A q \in Starts : q # r => proc[q].pc \in {"none", "ended"}
      /\ owner # "waitClients" /\ ~Stopped
      /\ owner' = owner /\ running' = running /\ waited' = waited
  BY OneRuns
<1>2. \A i : ~Passed(i) /\ ~Passed(i)'
  BY <1>1 DEF Passed
<1>3. ~Stopped /\ ~Stopped'
  BY <1>1 DEF Stopped
<1>4. \A c \in Conns :
        /\ Storing(c) => proc[r].pc = "store" /\ proc[r].client = c
        /\ Holding(c) => proc[r].pc \in {"scan", "place", "create"} /\ proc[r].client = c
  BY <1>1, SMT DEF Storing, Holding
<1> QED BY <1>2, <1>3, <1>4, SMT DEF HandleInv, Stored, Known

(* A new connection is in the hands of its accepting thread.               *)
LEMMA AcceptHandles ==
  ASSUME IInv, HandleInv, NEW r \in Starts, ProcessStep(r), Accept(r)
  PROVE  HandleInv'
<1>1. proc \in [Starts -> ProcType] /\ conns \in Nat /\ proc[r].pc = "accept"
  BY DEF IInv, Types, Accept, ProcAt
<1>2. UNCHANGED <<threads, worker, closes, handles>> /\ conns' = conns + 1
  BY DEF Accept
<1>3. UNCHANGED <<owner, running, waited>>
  BY OneRuns
<1>4. /\ \A q \in Starts : q # r => proc'[q] = proc[q]
      /\ proc'[r].pc = "scan" /\ proc'[r].client = conns + 1
  BY <1>1, SMT DEF Accept
<1>5. Stored' /\ ToStore' /\ Known'
  BY <1>1, <1>2, <1>3, <1>4, SameHandles, SMT DEF Stopped, Passed, Ran
<1>6. ClosedOrHeld'
  <2>1. \A c \in Conns : ~Holding(c)
    BY <1>1, AcceptingFinds
  <2>2. \A c \in Conns : c = conns + 1 => Holding(c)'
    BY <1>4, SMT DEF Holding
  <2>3. \A c \in Conns : c <= conns + 1 => c <= conns \/ c = conns + 1
    BY <1>1, SMT DEF Conns
  <2> QED BY <1>2, <2>1, <2>2, <2>3, SMT DEF HandleInv, ClosedOrHeld
<1> QED BY <1>5, <1>6 DEF HandleInv

(* A client without a slot has its socket closed.                          *)
LEMMA DropHandles ==
  ASSUME IInv, HandleInv, NEW r \in Starts, ProcessStep(r), Drop(r)
  PROVE  HandleInv'
<1>1. /\ proc \in [Starts -> ProcType] /\ conns \in Nat /\ proc[r].pc = "scan"
      /\ closes \in [Conns -> Nat]
      /\ proc[r].client \in Conns /\ proc[r].client # 0 /\ closes[proc[r].client] = 0
      /\ worker[proc[r].client].pc = "none"
  BY SMT DEF IInv, Types, Drop, ProcAt, InHand, InHandOf, Closes, Conns
<1>2. /\ UNCHANGED <<threads, worker, conns, handles>>
      /\ closes' = [closes EXCEPT ![proc[r].client] = @ + 1]
  BY <1>1 DEF Drop, CloseSocket
<1>3. UNCHANGED <<owner, running, waited>>
  BY OneRuns
<1>4. /\ \A q \in Starts : q # r => proc'[q] = proc[q]
      /\ proc'[r].pc = "loop"
  BY <1>1, SMT DEF Drop, ProcGo
<1>5. Stored' /\ ToStore' /\ Known'
  BY <1>1, <1>2, <1>3, <1>4, SameHandles, SMT DEF Stopped, Passed, Ran
<1>6. ClosedOrHeld'
  <2>1. \A c \in Conns : Holding(c) => c = proc[r].client
    BY AcceptingFinds
  <2>2. closes'[proc[r].client] = 1
    BY <1>1, <1>2, SMT
  <2>3. \A c \in Conns : c # proc[r].client => closes'[c] = closes[c]
    BY <1>1, <1>2, SMT
  <2> QED BY <1>1, <1>2, <2>1, <2>2, <2>3, SMT DEF HandleInv, ClosedOrHeld
<1> QED BY <1>5, <1>6 DEF HandleInv

(* The slot of a thread that has ended is given up with its handle.        *)
LEMMA ScanCompleteHandles ==
  ASSUME IInv, HandleInv, Bounds, NEW r \in Starts, ProcessStep(r), ScanComplete(r)
  PROVE  HandleInv'
<1> DEFINE i == proc[r].i
           t == threads[i].thread
<1>1. /\ proc \in [Starts -> ProcType] /\ proc[r].pc = "scan"
      /\ threads \in [Slots -> SlotType]
      /\ i \in Slots /\ threads[i].active
      /\ UNCHANGED <<conns, worker, closes>>
  BY DEF IInv, Types, ScanComplete, ProcAt
<1>2. /\ threads' = [threads EXCEPT ![i] = Zero]
      /\ handles' = IF t = 0 THEN handles ELSE [handles EXCEPT ![t] = @ - 1]
  BY DEF ScanComplete, CloseHandle
<1>3. /\ \A q \in Starts : q # r => proc'[q] = proc[q]
      /\ proc'[r].pc = "place" /\ proc'[r].client = proc[r].client
  BY <1>1, SMT DEF ScanComplete, ProcGo, ProcType
<1>4. \A q \in Starts : proc'[q].pc \notin {"create", "store"}
  BY <1>3, OneRuns, SMT
<1>5. \A c \in Conns : ~Storing(c)
  BY <1>1, AcceptingFinds
<1>6. \A c \in Conns : handles'[c] = IF c = t THEN 0 ELSE handles[c]
  <2>1. CASE t = 0
    BY <1>2, <2>1, SMT DEF Conns
  <2>2. CASE t # 0
    <3>1. t \in Conns /\ handles[t] = 1
      BY <1>1, <2>2, AcceptingFinds
    <3>2. handles \in [Conns -> {0, 1}]
      BY DEF Bounds
    <3> QED BY <1>2, <2>2, <3>1, <3>2, SMT
  <2> QED BY <2>1, <2>2
<1>7. Stored'
  <2>1. \A j \in Slots : j # i =>
          /\ threads'[j] = threads[j]
          /\ threads[j].active /\ threads[j].thread # 0 => threads[j].thread # t
    BY <1>1, <1>2, AcceptingFinds, SMT
  <2>2. ~threads'[i].active /\ threads'[i].thread = 0
    BY <1>1, <1>2, SMT DEF Zero
  <2>3. \A j \in Slots :
          /\ threads'[j].active /\ threads'[j].thread # 0 =>
               /\ threads'[j].thread \in Conns
               /\ worker'[threads'[j].thread].slot = j
               /\ Ran(threads[j].thread)
               /\ threads'[j] = threads[j]
               /\ handles'[threads'[j].thread] = 1
          /\ ~threads'[j].active => threads'[j].thread = 0
    BY <1>1, <1>6, <2>1, <2>2, AcceptingFinds, SMT
  <2>4. ~Stopped'
    BY AcceptingFinds
  <2> QED BY <1>1, <2>3, <2>4, SMT DEF Stored, Ran
<1>8. ToStore'
  BY <1>4, Zenon DEF ToStore
<1>9. Known'
  <2>1. \A c \in Conns : handles'[c] = 1 =>
          /\ worker[c].slot \in Slots
          /\ threads'[worker[c].slot].active
          /\ threads'[worker[c].slot].thread = c
    BY <1>1, <1>2, <1>5, <1>6, AcceptingFinds, SMT
  <2>2. \A c \in Conns : ~Ran(c) => handles'[c] = 0
    BY <1>6, AcceptingFinds, SMT
  <2>3. \A j : ~Passed(j)'
    BY AcceptingFinds
  <2> QED BY <1>1, <2>1, <2>2, <2>3, SMT DEF Known, Ran, Passed
<1>10. ClosedOrHeld'
  BY <1>1, <1>3, SMT DEF HandleInv, ClosedOrHeld, Holding
<1> QED BY <1>7, <1>8, <1>9, <1>10 DEF HandleInv

(* A slot that is filled names no thread yet.                              *)
LEMMA PlaceHandles ==
  ASSUME IInv, HandleInv, NEW r \in Starts, ProcessStep(r), Place(r)
  PROVE  HandleInv'
<1> DEFINE i == proc[r].i
<1>1. /\ proc \in [Starts -> ProcType] /\ proc[r].pc = "place"
      /\ threads \in [Slots -> SlotType]
      /\ i \in Slots /\ ~threads[i].active
      /\ UNCHANGED <<conns, worker, closes, handles>>
  BY DEF IInv, Types, Place, ProcAt, InHand, InHandOf
<1>2. threads[i].thread = 0
  BY <1>1, AcceptingFinds
<1>3. /\ \A q \in Starts : q # r => proc'[q] = proc[q] /\ proc[q].pc \in {"none", "ended"}
      /\ proc'[r].pc = "create" /\ proc'[r].client = proc[r].client /\ proc'[r].i = i
  BY <1>1, OneRuns, SMT DEF Place, ProcGo, ProcType
<1>4. /\ \A j \in Slots : j # i => threads'[j] = threads[j]
      /\ threads'[i].thread = 0 /\ threads'[i].active
  BY <1>1, <1>2, SMT DEF Place, SlotType
<1>5. Stored'
  <2>1. \A j \in Slots :
          /\ threads'[j].active /\ threads'[j].thread # 0 =>
               /\ threads'[j].thread \in Conns
               /\ worker'[threads'[j].thread].slot = j
               /\ Ran(threads[j].thread)
               /\ threads'[j] = threads[j]
               /\ handles'[threads'[j].thread] = 1
          /\ ~threads'[j].active => threads'[j].thread = 0
    BY <1>1, <1>4, AcceptingFinds, SMT
  <2>2. ~Stopped'
    BY AcceptingFinds
  <2> QED BY <1>1, <2>1, <2>2, SMT DEF Stored, Ran
<1>6. ToStore'
  BY <1>3, <1>4, SMT DEF ToStore
<1>7. Known'
  <2>1. \A c \in Conns : handles'[c] = 1 =>
          /\ worker[c].slot \in Slots
          /\ threads'[worker[c].slot].active
          /\ threads'[worker[c].slot].thread = c
    BY <1>1, <1>4, AcceptingFinds, SMT
  <2>2. \A c \in Conns : ~Ran(c) => handles'[c] = 0
    BY <1>1, AcceptingFinds, SMT
  <2>3. \A j : ~Passed(j)'
    BY AcceptingFinds
  <2> QED BY <1>1, <2>1, <2>2, <2>3, SMT DEF Known, Ran, Passed
<1>8. ClosedOrHeld'
  BY <1>1, <1>3, SMT DEF HandleInv, ClosedOrHeld, Holding
<1> QED BY <1>5, <1>6, <1>7, <1>8 DEF HandleInv

(* The handle of a new thread is with the accepting thread.                *)
LEMMA CreateHandles ==
  ASSUME IInv, HandleInv, Bounds, NEW r \in Starts, ProcessStep(r), Create(r)
  PROVE  HandleInv'
<1> DEFINE i == proc[r].i
           client == proc[r].client
<1>1. /\ proc \in [Starts -> ProcType] /\ proc[r].pc = "create"
      /\ worker \in [Conns -> WorkerType] /\ handles \in [Conns -> {0, 1}] /\ conns \in Nat
      /\ UNCHANGED <<conns, threads, closes>>
  BY DEF IInv, Types, Bounds, Create, ProcAt
<1>2. /\ i \in Slots /\ threads[i].active /\ threads[i].thread = 0
      /\ client \in Conns /\ client <= conns /\ worker[client].pc = "none"
  BY <1>1, SMT DEF IInv, HandleInv, ToStore, InHand, InHandOf, Closes, Conns
<1>3. /\ \A q \in Starts : q # r => proc'[q] = proc[q] /\ proc[q].pc \in {"none", "ended"}
      /\ proc'[r].pc = "store" /\ proc'[r].client = client /\ proc'[r].i = i
  BY <1>1, OneRuns, SMT DEF Create, ProcGo, ProcType
<1>4. /\ \A c \in Conns : c # client => worker'[c] = worker[c] /\ handles'[c] = handles[c]
      /\ worker'[client].pc = "exchange" /\ worker'[client].slot = i /\ handles'[client] = 1
  BY <1>1, <1>2, SMT DEF Create
<1>5. \A c \in Conns : Ran(c)' <=> Ran(c) \/ c = client
  BY <1>4, SMT DEF Ran
<1>6. Stored'
  <2>1. ~Ran(client)
    BY <1>2, SMT DEF Ran
  <2>2. \A j \in Slots :
          /\ threads[j].active /\ threads[j].thread # 0 =>
               /\ threads[j].thread \in Conns
               /\ worker'[threads[j].thread].slot = j
               /\ worker'[threads[j].thread].pc \notin {"none", "failed"}
               /\ handles'[threads[j].thread] = 1
          /\ ~threads[j].active => threads[j].thread = 0
    BY <1>2, <1>4, <2>1, AcceptingFinds, SMT DEF Ran
  <2>3. ~Stopped'
    BY AcceptingFinds
  <2> QED BY <1>1, <2>2, <2>3, SMT DEF Stored, Ran
<1>7. ToStore'
  BY <1>1, <1>2, <1>3, <1>4, SMT DEF ToStore, Ran
<1>8. Known'
  <2>1. \A c \in Conns : ~Storing(c)
    BY <1>1, AcceptingFinds
  <2>2. \A c \in Conns : c # client /\ handles'[c] = 1 =>
          /\ worker'[c].slot \in Slots
          /\ threads'[worker'[c].slot].active
          /\ threads'[worker'[c].slot].thread = c
    BY <1>1, <1>4, <2>1, AcceptingFinds, SMT
  <2>3. \A c \in Conns : ~Ran(c)' => handles'[c] = 0
    BY <1>4, <1>5, AcceptingFinds, SMT
  <2>4. \A c \in Conns : c = client => Storing(c)'
    BY <1>3, SMT DEF Storing
  <2>5. \A j : ~Passed(j)'
    BY AcceptingFinds
  <2> QED BY <2>2, <2>3, <2>4, <2>5, SMT DEF Known, Passed
<1>9. ClosedOrHeld'
  <2>1. \A c \in Conns : Holding(c) => c = client
    BY AcceptingFinds
  <2> QED BY <1>1, <1>4, <2>1, SMT DEF HandleInv, ClosedOrHeld
<1> QED BY <1>6, <1>7, <1>8, <1>9 DEF HandleInv

(* A thread that could not be created leaves no handle.                    *)
LEMMA CreateFailsHandles ==
  ASSUME IInv, HandleInv, NEW r \in Starts, ProcessStep(r), CreateFails(r)
  PROVE  HandleInv'
<1> DEFINE i == proc[r].i
           client == proc[r].client
<1>1. /\ proc \in [Starts -> ProcType] /\ proc[r].pc = "create"
      /\ worker \in [Conns -> WorkerType] /\ threads \in [Slots -> SlotType]
      /\ conns \in Nat
      /\ UNCHANGED <<conns, handles, closes>>
  BY DEF IInv, Types, CreateFails, ProcAt
<1>2. /\ i \in Slots /\ threads[i].active /\ threads[i].thread = 0
      /\ client \in Conns /\ worker[client].pc = "none"
  BY <1>1, SMT DEF IInv, HandleInv, ToStore, InHand, InHandOf, Closes, Conns
<1>3. /\ \A q \in Starts : q # r => proc'[q] = proc[q] /\ proc[q].pc \in {"none", "ended"}
      /\ proc'[r].pc = "loop"
  BY <1>1, OneRuns, SMT DEF CreateFails, ProcGo, ProcType
<1>4. /\ \A c \in Conns : worker'[c].slot = worker[c].slot
      /\ \A c \in Conns : c # client => worker'[c] = worker[c]
      /\ worker'[client].pc = "failed"
  BY <1>1, <1>2, SMT DEF CreateFails, WorkerType
<1>5. \A j \in Slots : /\ threads'[j].active = threads[j].active
                       /\ threads'[j].thread = threads[j].thread
  BY <1>1, <1>2, SMT DEF CreateFails, SlotType
<1>6. \A c \in Conns : Ran(c)' <=> Ran(c)
  BY <1>2, <1>4, SMT DEF Ran
<1>7. Stored'
  <2>1. \A j \in Slots :
          /\ threads'[j].active /\ threads'[j].thread # 0 =>
               /\ threads'[j].thread \in Conns
               /\ worker'[threads'[j].thread].slot = j
               /\ worker'[threads'[j].thread].pc \notin {"none", "failed"}
               /\ handles'[threads'[j].thread] = 1
          /\ ~threads'[j].active => threads'[j].thread = 0
    BY <1>1, <1>2, <1>4, <1>5, AcceptingFinds, SMT DEF Ran
  <2>2. ~Stopped'
    BY AcceptingFinds
  <2> QED BY <2>1, <2>2, SMT DEF Stored, Ran
<1>8. ToStore'
  BY <1>3, SMT DEF ToStore
<1>9. Known'
  <2>1. \A c \in Conns : ~Storing(c)
    BY <1>1, AcceptingFinds
  <2>2. \A c \in Conns : handles'[c] = 1 =>
          /\ worker'[c].slot \in Slots
          /\ threads'[worker'[c].slot].active
          /\ threads'[worker'[c].slot].thread = c
    BY <1>1, <1>4, <1>5, <2>1, AcceptingFinds, SMT
  <2>3. \A c \in Conns : ~Ran(c)' => handles'[c] = 0
    BY <1>1, <1>6, AcceptingFinds, SMT
  <2>4. \A j : ~Passed(j)'
    BY AcceptingFinds
  <2> QED BY <2>2, <2>3, <2>4, SMT DEF Known, Passed
<1>10. ClosedOrHeld'
  <2>1. \A c \in Conns : Holding(c) => c = client
    BY AcceptingFinds
  <2> QED BY <1>1, <1>4, <2>1, SMT DEF HandleInv, ClosedOrHeld
<1> QED BY <1>7, <1>8, <1>9, <1>10 DEF HandleInv

(* The handle goes to the slot of its thread.                              *)
LEMMA StoreHandleHandles ==
  ASSUME IInv, HandleInv, NEW r \in Starts, ProcessStep(r), StoreHandle(r)
  PROVE  HandleInv'
<1> DEFINE i == proc[r].i
           client == proc[r].client
<1>1. /\ proc \in [Starts -> ProcType] /\ proc[r].pc = "store"
      /\ threads \in [Slots -> SlotType] /\ conns \in Nat
      /\ UNCHANGED <<conns, worker, handles, closes>>
  BY DEF IInv, Types, StoreHandle, ProcAt
<1>2. /\ i \in Slots /\ threads[i].active /\ threads[i].thread = 0
      /\ client \in Conns /\ worker[client].slot = i /\ handles[client] = 1 /\ Ran(client)
  BY <1>1, SMT DEF IInv, HandleInv, ToStore, InHand, InHandOf
<1>3. /\ \A q \in Starts : q # r => proc'[q] = proc[q] /\ proc[q].pc \in {"none", "ended"}
      /\ proc'[r].pc = "loop"
  BY <1>1, OneRuns, SMT DEF StoreHandle, ProcGo, ProcType
<1>4. /\ \A j \in Slots : j # i => threads'[j] = threads[j]
      /\ threads'[i].thread = client /\ threads'[i].active
  BY <1>1, <1>2, SMT DEF StoreHandle, SlotType
<1>5. Stored'
  <2>1. \A j \in Slots :
          /\ threads'[j].active /\ threads'[j].thread # 0 =>
               /\ threads'[j].thread \in Conns
               /\ worker'[threads'[j].thread].slot = j
               /\ worker'[threads'[j].thread].pc \notin {"none", "failed"}
               /\ handles'[threads'[j].thread] = 1
          /\ ~threads'[j].active => threads'[j].thread = 0
    BY <1>1, <1>2, <1>4, AcceptingFinds, SMT DEF Ran
  <2>2. ~Stopped'
    BY AcceptingFinds
  <2> QED BY <2>1, <2>2, SMT DEF Stored, Ran
<1>6. ToStore'
  BY <1>3, SMT DEF ToStore
<1>7. Known'
  <2>1. \A c \in Conns : Storing(c) => c = client
    BY <1>1, AcceptingFinds
  <2>2. \A c \in Conns : handles'[c] = 1 =>
          /\ worker'[c].slot \in Slots
          /\ threads'[worker'[c].slot].active
          /\ threads'[worker'[c].slot].thread = c
    BY <1>1, <1>2, <1>4, <2>1, AcceptingFinds, SMT DEF Conns
  <2>3. \A c \in Conns : ~Ran(c)' => handles'[c] = 0
    BY <1>1, AcceptingFinds, SMT DEF Ran
  <2>4. \A j : ~Passed(j)'
    BY AcceptingFinds
  <2> QED BY <2>2, <2>3, <2>4, SMT DEF Known, Passed
<1>8. ClosedOrHeld'
  <2>1. \A c \in Conns : ~Holding(c)
    BY <1>1, AcceptingFinds
  <2> QED BY <1>1, <2>1, SMT DEF HandleInv, ClosedOrHeld
<1> QED BY <1>5, <1>6, <1>7, <1>8 DEF HandleInv

(* start() finds all slots free and no handle open.                        *)
LEMMA StartHandles ==
  ASSUME IInv, HandleInv, Start
  PROVE  HandleInv'
<1>1. /\ Stopped /\ conns \in Nat /\ proc \in [Starts -> ProcType] /\ starts \in Nat
      /\ \A q \in Starts : proc[q].pc \in {"none", "ended"}
      /\ threads' = Cleared /\ proc' = [proc EXCEPT ![starts + 1].pc = "bind"]
      /\ UNCHANGED <<conns, worker, closes, handles, owner>>
  BY SMT DEF IInv, Types, OneProcess, Start, Stopped, Starts
<1>2. \A q \in Starts : proc'[q].pc \in {"none", "ended", "bind"}
  BY <1>1, SMT DEF ProcType
<1>3. \A i \in Slots : ~threads'[i].active /\ threads'[i].thread = 0
  BY <1>1, SMT DEF Cleared, Zero
<1>4. Stored'
  BY <1>3, Zenon DEF Stored
<1>5. ToStore'
  BY <1>2, SMT DEF ToStore
<1>6. Known'
  <2>1. \A c \in Conns : ~Storing(c)
    BY <1>1, SMT DEF Storing
  <2>2. \A i \in Slots : ~threads[i].active
    BY <1>1 DEF HandleInv, Stored
  <2>3. \A c \in Conns : handles[c] # 1 /\ (~Ran(c) => handles[c] = 0)
    BY <2>1, <2>2 DEF HandleInv, Known
  <2> QED BY <1>1, <2>3, SMT DEF Known, Ran
<1>7. ClosedOrHeld'
  <2>1. \A c \in Conns : ~Holding(c)
    BY <1>1, SMT DEF Holding
  <2> QED BY <1>1, <2>1, SMT DEF HandleInv, ClosedOrHeld
<1> QED BY <1>4, <1>5, <1>6, <1>7 DEF HandleInv

(* stop() leaves the handles alone until it waits for the clients.         *)
LEMMA StopHandles ==
  ASSUME IInv, HandleInv, ~ProcessWaitExpires, Stop \/ StopListening \/ StopWaitProcess
  PROVE  HandleInv'
<1>1. /\ conns \in Nat /\ proc \in [Starts -> ProcType]
      /\ UNCHANGED <<threads, conns, worker, closes, handles>>
      /\ ~Stopped'
  BY DEF IInv, Types, Stop, StopListening, StopWaitProcess, Stopped
<1>2. \A q \in Starts : /\ proc'[q].pc = proc[q].pc /\ proc'[q].client = proc[q].client
                        /\ proc'[q].i = proc[q].i
  BY <1>1, SMT DEF Stop, StopListening, StopWaitProcess, ProcType
<1>3. \A i \in Slots : owner' = "waitClients" /\ i <= waited' <=> Passed(i)
  <2>1. owner # "waitClients"
    BY DEF Stop, StopListening, StopWaitProcess
  <2>2. owner' = "waitClients" => waited' = 0
    BY DEF Stop, StopListening, StopWaitProcess
  <2> QED BY <2>1, <2>2, SMT DEF Passed, Slots
<1>4. Stored' /\ ToStore' /\ Known'
  BY <1>1, <1>2, <1>3, SameHandles, SMT DEF Ran
<1>5. ClosedOrHeld'
  BY <1>1, <1>2, SMT DEF HandleInv, ClosedOrHeld, Holding
<1> QED BY <1>4, <1>5 DEF HandleInv

(* stop() closes the handle of one slot, the next it waits for.            *)
LEMMA StopWaitFinds ==
  ASSUME IInv, HandleInv, Bounds, StopWaitClient
  PROVE  /\ waited \in Nat /\ waited + 1 \in Slots
         /\ \A c \in Conns :
              handles'[c] = IF Awaited(waited + 1) /\ c = threads[waited + 1].thread
                            THEN 0 ELSE handles[c]
<1> DEFINE t == threads[waited + 1].thread
<1>1. waited \in Nat /\ waited + 1 \in Slots /\ ~Passed(waited + 1)
  BY SMT DEF IInv, Types, StopWaitClient, Slots, Passed
<1>2. CASE Awaited(waited + 1)
  <2>1. t \in Conns /\ handles[t] = 1 /\ t # 0
    BY <1>1, <1>2 DEF HandleInv, Stored, Awaited
  <2>2. handles' = [handles EXCEPT ![t] = @ - 1]
    BY <1>2, <2>1 DEF StopWaitClient, CloseHandle
  <2>3. handles \in [Conns -> {0, 1}]
    BY DEF Bounds
  <2> QED BY <1>1, <1>2, <2>1, <2>2, <2>3, SMT
<1>3. CASE ~Awaited(waited + 1)
  <2>1. handles' = handles
    BY <1>3 DEF StopWaitClient, CloseHandle
  <2> QED BY <1>1, <1>3, <2>1
<1> QED BY <1>2, <1>3

(* stop() has waited for the client thread in a slot, and closed its       *)
(* handle.                                                                 *)
LEMMA StopWaitHandles ==
  ASSUME IInv, HandleInv, Bounds, StopWaitClient
  PROVE  HandleInv'
<1> DEFINE w == waited + 1
<1>1. /\ owner = "waitClients" /\ owner' = "waitClients" /\ waited' = w
      /\ UNCHANGED <<threads, proc, conns, worker, closes>>
      /\ \A q \in Starts : proc[q].pc \in {"none", "ended"}
  BY SMT DEF IInv, Types, OneProcess, StopWaitClient, Starts
<1>2. waited \in Nat /\ w \in Slots
  BY StopWaitFinds
<1>3. \A i \in Slots : Passed(i)' <=> Passed(i) \/ i = w
  BY <1>1, <1>2, SMT DEF Passed, Slots
<1>4. ~Stopped'
  BY <1>1 DEF Stopped
<1>5. Stored'
  <2>1. \A i \in Slots :
          /\ threads[i].active /\ threads[i].thread # 0 =>
               /\ threads[i].thread \in Conns
               /\ worker[threads[i].thread].slot = i /\ Ran(threads[i].thread)
               /\ ~Passed(i) /\ i # w => handles'[threads[i].thread] = 1
          /\ ~threads[i].active => threads[i].thread = 0
    BY <1>2, StopWaitFinds, SMT DEF HandleInv, Stored, Awaited
  <2> QED BY <1>1, <1>3, <1>4, <2>1, SMT DEF Stored, Ran
<1>6. ToStore'
  BY <1>1, SMT DEF ToStore
<1>7. Known'
  <2>1. \A c \in Conns : ~Storing(c)
    BY <1>1, SMT DEF Storing
  <2>2. \A c \in Conns : handles'[c] = 1 =>
          /\ worker[c].slot \in Slots /\ ~Passed(worker[c].slot)
          /\ threads[worker[c].slot].active /\ threads[worker[c].slot].thread = c
    BY <2>1, StopWaitFinds, SMT DEF HandleInv, Known
  <2>3. \A c \in Conns : handles'[c] = 1 => worker[c].slot # w
    <3> SUFFICES ASSUME NEW c \in Conns, handles'[c] = 1, worker[c].slot = w PROVE FALSE
      OBVIOUS
    <3>1. threads[w].active /\ threads[w].thread = c /\ c # 0
      BY <2>2, SMT DEF Conns
    <3> QED BY <3>1, StopWaitFinds DEF Awaited
  <2>4. \A c \in Conns : ~Ran(c) => handles'[c] = 0
    BY StopWaitFinds, SMT DEF HandleInv, Known
  <2> QED BY <1>1, <1>2, <2>2, <2>3, <2>4, SMT DEF Known, Ran, Passed, Slots
<1>8. ClosedOrHeld'
  BY <1>1, SMT DEF HandleInv, ClosedOrHeld, Holding
<1> QED BY <1>5, <1>6, <1>7, <1>8 DEF HandleInv

(* When stop() clears the table it has closed every handle.                *)
LEMMA StopClearHandles ==
  ASSUME IInv, HandleInv, StopClear
  PROVE  HandleInv'
<1>1. /\ owner = "waitClients" /\ waited = NumThreads
      /\ threads' = Cleared
      /\ UNCHANGED <<proc, conns, worker, closes, handles>>
      /\ \A q \in Starts : proc[q].pc \in {"none", "ended"}
  BY SMT DEF IInv, Types, OneProcess, StopClear, Starts
<1>2. \A i \in Slots : ~threads'[i].active /\ threads'[i].thread = 0
  BY <1>1, SMT DEF Cleared, Zero
<1>3. Stored'
  BY <1>2, Zenon DEF Stored
<1>4. ToStore'
  BY <1>1, SMT DEF ToStore
<1>5. Known'
  <2>1. \A c \in Conns : ~Storing(c)
    BY <1>1, SMT DEF Storing
  <2>2. \A i \in Slots : Passed(i)
    BY <1>1, SMT DEF Passed, Slots
  <2>3. \A c \in Conns : handles[c] # 1 /\ (~Ran(c) => handles[c] = 0)
    BY <2>1, <2>2 DEF HandleInv, Known
  <2> QED BY <1>1, <2>3, SMT DEF Known, Ran
<1>6. ClosedOrHeld'
  BY <1>1, SMT DEF HandleInv, ClosedOrHeld, Holding
<1> QED BY <1>3, <1>4, <1>5, <1>6 DEF HandleInv

(* The records of the table and of the threads keep their types when a     *)
(* field is assigned.                                                      *)
LEMMA SlotFields ==
  ASSUME NEW n \in Nat, NEW s \in SlotOf(n)
  PROVE  /\ Zero \in SlotOf(n)
         /\ [s EXCEPT !.complete = TRUE] \in SlotOf(n)
         /\ \A c \in 0 .. n : /\ [s EXCEPT !.thread = c] \in SlotOf(n)
                              /\ [[s EXCEPT !.active = TRUE] EXCEPT !.sock = c] \in SlotOf(n)
         /\ \A m \in Nat : n <= m => s \in SlotOf(m)
<1>1. Zero \in SlotOf(n)
  BY DEF SlotOf, Zero
<1>2. [s EXCEPT !.complete = TRUE] \in SlotOf(n)
  BY DEF SlotOf
<1>3. \A c \in 0 .. n : [s EXCEPT !.thread = c] \in SlotOf(n)
  BY DEF SlotOf
<1>4. \A c \in 0 .. n : [[s EXCEPT !.active = TRUE] EXCEPT !.sock = c] \in SlotOf(n)
  BY DEF SlotOf
<1>5. ASSUME NEW m \in Nat, n <= m PROVE s \in SlotOf(m)
  <2>1. 0 .. n \subseteq 0 .. m
    BY <1>5
  <2> QED BY <2>1 DEF SlotOf
<1> QED BY <1>1, <1>2, <1>3, <1>4, <1>5

(* The fields of a thread's record keep their types.                       *)
LEMMA ProcFields ==
  ASSUME NEW n \in Nat, NEW p \in ProcOf(n)
  PROVE  /\ \A to \in ProcPcs, o \in BOOLEAN :
              /\ [p EXCEPT !.pc = to] \in ProcOf(n)
              /\ [p EXCEPT !.open = o] \in ProcOf(n)
              /\ [[p EXCEPT !.pc = to] EXCEPT !.open = o] \in ProcOf(n)
         /\ p.i \in Slots => [p EXCEPT !.i = @ + 1] \in ProcOf(n)
         /\ \A m \in Nat : n <= m => p \in ProcOf(m)
<1>1. \A to \in ProcPcs : [p EXCEPT !.pc = to] \in ProcOf(n)
  BY DEF ProcOf
<1>2. \A o \in BOOLEAN : [p EXCEPT !.open = o] \in ProcOf(n)
  BY DEF ProcOf
<1>3. \A to \in ProcPcs, o \in BOOLEAN : [[p EXCEPT !.pc = to] EXCEPT !.open = o] \in ProcOf(n)
  BY DEF ProcOf
<1>4. p.i \in Slots => [p EXCEPT !.i = @ + 1] \in ProcOf(n)
  BY DEF ProcOf, Slots
<1>5. ASSUME NEW m \in Nat, n <= m PROVE p \in ProcOf(m)
  <2>1. 0 .. n \subseteq 0 .. m
    BY <1>5
  <2> QED BY <2>1 DEF ProcOf
<1> QED BY <1>1, <1>2, <1>3, <1>4, <1>5

(* The types of the state are kept by a client thread,                     *)
LEMMA WorkerBounds ==
  ASSUME IInv, Bounds, NEW c \in Conns, WorkerStep(c)
  PROVE  Bounds'
<1>1. UNCHANGED <<conns, listen, starts, thread, server_running, proc, handles>>
  BY DEF WorkerStep
<1>2. worker' \in [Conns -> WorkerOf]
  BY SMT DEF Bounds, WorkerStep, Exchange, CloseClient, Complete, WorkerGo, WorkerPcs, WorkerOf
<1>3. threads' \in [Slots -> SlotOf(conns)]
  <2>1. CASE threads' = threads
    BY <2>1 DEF Bounds
  <2>2. CASE Complete(c)
    <3>1. conns \in Nat /\ threads \in [Slots -> SlotOf(conns)]
      BY DEF IInv, Types, Bounds
    <3>2. threads' = [threads EXCEPT ![worker[c].slot] = [@ EXCEPT !.complete = TRUE]]
      BY <2>2 DEF Complete
    <3>3. \A i \in Slots : [threads[i] EXCEPT !.complete = TRUE] \in SlotOf(conns)
      BY <3>1, SlotFields
    <3> QED BY <3>1, <3>2, <3>3, Zenon
  <2> QED BY <2>1, <2>2 DEF WorkerStep, Exchange, CloseClient
<1> QED BY <1>1, <1>2, <1>3 DEF Bounds

(* by an accepting thread,                                                 *)
LEMMA ProcessKeepsTable ==
  ASSUME IInv, Bounds, NEW r \in Starts, ProcessStep(r)
  PROVE  /\ threads' \in [Slots -> SlotOf(conns)]
         /\ worker' \in [Conns -> WorkerOf]
<1> DEFINE i == proc[r].i
           client == proc[r].client
<1>1. /\ threads \in [Slots -> SlotOf(conns)] /\ conns \in Nat
      /\ client \in 0 .. conns
      /\ \A j \in Slots : threads[j] \in SlotOf(conns)
  BY SMT DEF Bounds, IInv, Types, ProcOf
<1>2. threads' \in [Slots -> SlotOf(conns)]
  <2>1. CASE threads' = threads
    BY <1>1, <2>1
  <2>2. CASE ScanComplete(r)
    <3>1. threads' = [threads EXCEPT ![i] = Zero] /\ i \in Slots
      BY <2>2 DEF ScanComplete
    <3> QED BY <1>1, <3>1, SlotFields
  <2>3. CASE Place(r)
    <3>1. threads' = [threads EXCEPT ![i] = [[threads[i] EXCEPT !.active = TRUE]
                                               EXCEPT !.sock = client]]
      BY <2>3 DEF Place
    <3>2. \A j \in Slots :
            [[threads[j] EXCEPT !.active = TRUE] EXCEPT !.sock = client] \in SlotOf(conns)
      BY <1>1, SlotFields
    <3> QED BY <1>1, <3>1, <3>2, Zenon
  <2>4. CASE CreateFails(r)
    <3>1. threads' = [threads EXCEPT ![i] = [@ EXCEPT !.thread = 0]] /\ 0 \in 0 .. conns
      BY <1>1, <2>4, SMT DEF CreateFails
    <3>2. \A j \in Slots : [threads[j] EXCEPT !.thread = 0] \in SlotOf(conns)
      BY <1>1, <3>1, SlotFields
    <3> QED BY <1>1, <3>1, <3>2, Zenon
  <2>5. CASE StoreHandle(r)
    <3>1. threads' = [threads EXCEPT ![i] = [@ EXCEPT !.thread = client]]
      BY <2>5 DEF StoreHandle
    <3>2. \A j \in Slots : [threads[j] EXCEPT !.thread = client] \in SlotOf(conns)
      BY <1>1, SlotFields
    <3> QED BY <1>1, <3>1, <3>2, Zenon
  <2> QED BY <2>1, <2>2, <2>3, <2>4, <2>5 DEF ProcessStep, BindFails, Bind, Publish, Loop,
             Select, AcceptFails, Accept, ScanFree, ScanTaken, Drop, Create, Finish,
             ForgetListen, TableVars
<1>3. worker' \in [Conns -> WorkerOf]
  <2>1. CASE worker' = worker
    BY <2>1 DEF Bounds
  <2>2. CASE Create(r)
    <3>1. i \in Slots
      BY <2>2, SMT DEF IInv, InHand, InHandOf, Create, ProcAt
    <3>2. [pc |-> "exchange", slot |-> i] \in WorkerOf
      BY <3>1, SMT DEF WorkerOf, WorkerPcs
    <3> QED BY <2>2, <3>2, Zenon DEF Create, Bounds
  <2>3. CASE CreateFails(r)
    <3>1. worker' = [worker EXCEPT ![client] = [@ EXCEPT !.pc = "failed"]]
      BY <2>3 DEF CreateFails
    <3>2. \A c \in Conns : [worker[c] EXCEPT !.pc = "failed"] \in WorkerOf
      BY SMT DEF Bounds, WorkerOf, WorkerPcs
    <3> QED BY <3>1, <3>2, Zenon DEF Bounds
  <2> QED BY <2>1, <2>2, <2>3 DEF ProcessStep, BindFails, Bind, Publish, Loop, Select,
             AcceptFails, Accept, ScanFree, ScanComplete, ScanTaken, Drop, Place, StoreHandle,
             Finish, ForgetListen, TableVars
<1> QED BY <1>2, <1>3

(* A step of the accepting loop counts at most one connection, and moves   *)
(* one thread.                                                             *)
LEMMA ProcessKeepsProc ==
  ASSUME IInv, Bounds, NEW r \in Starts, ProcessStep(r)
  PROVE  conns' \in Nat /\ conns <= conns' /\ proc' \in [Starts -> ProcOf(conns')]
<1>1. conns \in Nat /\ proc \in [Starts -> ProcOf(conns)]
  BY DEF Bounds, IInv, Types
<1>2. conns' = IF Accept(r) THEN conns + 1 ELSE conns
  BY DEF ProcessStep, BindFails, Bind, Publish, Loop, Select, Accept, AcceptFails, ScanFree,
     ScanComplete, ScanTaken, Drop, Place, Create, CreateFails, StoreHandle, Finish,
     ForgetListen, TableVars
<1>3. conns' \in Nat /\ conns <= conns'
  BY <1>1, <1>2, SMT
<1>4. /\ proc \in [Starts -> ProcOf(conns')]
      /\ \A q \in Starts : proc[q] \in ProcOf(conns')
  BY <1>1, <1>3, ProcFields
<1>5. CASE Accept(r)
  <2>1. proc' = [proc EXCEPT ![r] = [pc |-> "scan", open |-> @.open, client |-> conns + 1, i |-> 1]]
    BY <1>5 DEF Accept
  <2>2. [pc |-> "scan", open |-> proc[r].open, client |-> conns + 1, i |-> 1] \in ProcOf(conns')
    BY <1>1, <1>2, <1>5, SMT DEF ProcOf, ProcPcs
  <2> QED BY <1>3, <1>4, <2>1, <2>2, Zenon
<1>6. CASE ScanTaken(r)
  <2>1. proc' = [proc EXCEPT ![r] = [proc[r] EXCEPT !.i = proc[r].i + 1]] /\ proc[r].i \in Slots
    BY <1>6 DEF ScanTaken
  <2>2. [proc[r] EXCEPT !.i = proc[r].i + 1] \in ProcOf(conns')
    BY <1>3, <1>4, <2>1, ProcFields
  <2> QED BY <1>3, <1>4, <2>1, <2>2, Zenon
<1>7. CASE Bind(r) \/ Finish(r)
  <2>1. PICK to \in ProcPcs, o \in BOOLEAN :
          proc' = [proc EXCEPT ![r] = [[proc[r] EXCEPT !.pc = to] EXCEPT !.open = o]]
    <3>1. "publish" \in ProcPcs /\ "forget" \in ProcPcs
      BY DEF ProcPcs
    <3> QED BY <1>7, <3>1 DEF Bind, Finish
  <2>2. [[proc[r] EXCEPT !.pc = to] EXCEPT !.open = o] \in ProcOf(conns')
    BY <1>3, <1>4, <2>1, ProcFields
  <2> QED BY <1>3, <1>4, <2>1, <2>2, Zenon
<1>8. CASE \E to \in ProcPcs : ProcGo(r, to)
  <2>1. PICK to \in ProcPcs : proc' = [proc EXCEPT ![r] = [@ EXCEPT !.pc = to]]
    BY <1>8 DEF ProcGo
  <2>2. [proc[r] EXCEPT !.pc = to] \in ProcOf(conns')
    BY <1>3, <1>4, <2>1, ProcFields
  <2> QED BY <1>3, <1>4, <2>1, <2>2, Zenon
<1>9. ProcessStep(r) => \/ Accept(r) \/ ScanTaken(r) \/ Bind(r) \/ Finish(r)
                        \/ \E to \in ProcPcs : ProcGo(r, to)
  BY SMT DEF ProcessStep, BindFails, Publish, Loop, Select, AcceptFails, ScanFree,
     ScanComplete, Drop, Place, Create, CreateFails, StoreHandle, ForgetListen, ProcPcs
<1> QED BY <1>5, <1>6, <1>7, <1>8, <1>9

(* ... and every other variable keeps its type as well.                    *)
LEMMA ProcessBounds ==
  ASSUME IInv, HandleInv, Bounds, NEW r \in Starts, ProcessStep(r)
  PROVE  Bounds'
<1>1. UNCHANGED <<starts, thread>>
  BY DEF ProcessStep
<1>2. listen' \in 0 .. starts /\ server_running' \in BOOLEAN
  <2>0. listen \in 0 .. starts /\ thread \in 0 .. starts /\ starts \in Nat /\ server_running \in BOOLEAN
    BY DEF Bounds, IInv, Types
  <2>1. CASE Publish(r)
    <3>1. r = thread
      BY <2>1, SMT DEF IInv, OneProcess, Publish, ProcAt
    <3> QED BY <2>0, <2>1, <3>1 DEF Publish
  <2>2. CASE ForgetListen(r)
    BY <2>0, <2>2, SMT DEF ForgetListen
  <2>3. CASE BindFails(r)
    BY <2>0, <2>3 DEF BindFails
  <2>4. CASE ~Publish(r) /\ ~ForgetListen(r) /\ ~BindFails(r)
    <3>1. UNCHANGED <<listen, server_running>>
      BY <2>4 DEF ProcessStep, Bind, Loop, Select, AcceptFails, Accept, ScanFree, ScanComplete,
         ScanTaken, Drop, Place, Create, CreateFails, StoreHandle, Finish
    <3> QED BY <2>0, <3>1
  <2> QED BY <2>1, <2>2, <2>3, <2>4
<1>3. threads' \in [Slots -> SlotOf(conns')]
  <2>1. threads' \in [Slots -> SlotOf(conns)] /\ conns \in Nat /\ conns' \in Nat /\ conns <= conns'
    BY ProcessKeepsTable, ProcessKeepsProc DEF IInv, Types
  <2> QED BY <2>1, SlotFields
<1>4. handles' \in [Conns -> {0, 1}]
  <2>0. handles \in [Conns -> {0, 1}]
    BY DEF Bounds
  <2>1. CASE handles' = handles
    BY <2>0, <2>1
  <2>2. CASE Create(r)
    BY <2>0, <2>2, Zenon DEF Create
  <2>3. CASE ScanComplete(r)
    <3> DEFINE t == threads[proc[r].i].thread
    <3>1. CASE t = 0
      BY <2>0, <2>3, <3>1 DEF ScanComplete, CloseHandle
    <3>2. CASE t # 0
      <4>1. t \in Conns /\ handles[t] = 1
        BY <2>3, <3>2, AcceptingFinds DEF ScanComplete
      <4>2. handles' = [handles EXCEPT ![t] = @ - 1]
        BY <2>3, <3>2 DEF ScanComplete, CloseHandle
      <4> QED BY <2>0, <4>1, <4>2, SMT
    <3> QED BY <3>1, <3>2
  <2> QED BY <2>1, <2>2, <2>3 DEF ProcessStep, BindFails, Bind, Publish, Loop, Select,
             AcceptFails, Accept, ScanFree, ScanTaken, Drop, Place, CreateFails, StoreHandle,
             Finish, ForgetListen, TableVars
<1> QED BY <1>1, <1>2, <1>3, <1>4, ProcessKeepsTable, ProcessKeepsProc DEF Bounds

(* and by the owner.                                                       *)
LEMMA OwnerBounds ==
  ASSUME IInv, HandleInv, Bounds, Start \/ Stop \/ StopStep
  PROVE  Bounds'
<1>1. /\ proc \in [Starts -> ProcOf(conns)] /\ conns \in Nat
      /\ \A q \in Starts : proc[q] \in ProcOf(conns)
      /\ UNCHANGED <<worker, conns, listen>>
  BY DEF Bounds, IInv, Types, Start, Stop, StopStep, StopListening, StopWaitProcess,
         StopWaitClient, StopClear
<1>2. /\ starts' \in 0 .. MaxStarts /\ thread' \in 0 .. starts' /\ listen \in 0 .. starts'
      /\ server_running' \in BOOLEAN
  <2>1. /\ starts \in 0 .. MaxStarts /\ thread \in 0 .. starts /\ listen \in 0 .. starts
        /\ server_running \in BOOLEAN
    BY DEF Bounds
  <2>2. CASE Start
    BY <2>1, <2>2, SMT DEF Start
  <2>3. CASE ~Start
    <3>1. starts' = starts /\ thread' \in {thread, 0} /\ server_running' \in {server_running, FALSE}
      BY <2>3 DEF Stop, StopStep, StopListening, StopWaitProcess, StopWaitClient, StopClear
    <3>2. 0 \in 0 .. starts
      BY <2>1
    <3> QED BY <2>1, <3>1, <3>2
  <2> QED BY <2>2, <2>3
<1>3. threads' \in [Slots -> SlotOf(conns)]
  <2>1. CASE threads' = threads
    BY <2>1 DEF Bounds
  <2>2. CASE threads' = Cleared
    BY <1>1, <2>2, SMT DEF Cleared, Zero, SlotOf
  <2> QED BY <2>1, <2>2 DEF Start, Stop, StopStep, StopListening, StopWaitProcess,
             StopWaitClient, StopClear
<1>4. proc' \in [Starts -> ProcOf(conns)]
  <2>1. CASE proc' = proc
    BY <1>1, <2>1
  <2>2. CASE Start
    <3>1. proc' = [proc EXCEPT ![starts + 1] = [@ EXCEPT !.pc = "bind"]]
      BY <2>2 DEF Start
    <3>2. \A q \in Starts : [proc[q] EXCEPT !.pc = "bind"] \in ProcOf(conns)
      BY <1>1, SMT DEF ProcOf, ProcPcs
    <3> QED BY <1>1, <3>1, <3>2, Zenon
  <2>3. CASE StopListening /\ listen # 0
    <3>1. proc' = [proc EXCEPT ![listen] = [@ EXCEPT !.open = FALSE]]
      BY <2>3 DEF StopListening
    <3>2. \A q \in Starts : [proc[q] EXCEPT !.open = FALSE] \in ProcOf(conns)
      BY <1>1, ProcFields DEF ProcPcs
    <3> QED BY <1>1, <3>1, <3>2, Zenon
  <2> QED BY <2>1, <2>2, <2>3 DEF Stop, StopStep, StopListening, StopWaitProcess,
             StopWaitClient, StopClear
<1>5. handles' \in [Conns -> {0, 1}]
  <2>1. CASE handles' = handles
    BY <2>1 DEF Bounds
  <2>2. CASE StopWaitClient
    <3>1. \E h : handles' = [handles EXCEPT ![h] = @ - 1] \/ handles' = handles
      BY <2>2 DEF StopWaitClient, CloseHandle
    <3>2. DOMAIN handles' = Conns /\ handles' = [c \in Conns |-> handles'[c]]
      BY <3>1 DEF Bounds
    <3>3. \A c \in Conns : handles'[c] \in {0, 1}
      BY <2>2, StopWaitFinds, SMT DEF Bounds
    <3> QED BY <3>2, <3>3
  <2> QED BY <2>1, <2>2 DEF Start, Stop, StopStep, StopListening, StopWaitProcess, StopClear
<1> QED BY <1>1, <1>2, <1>3, <1>4, <1>5 DEF Bounds

(* Types, what is known of handles and what is held, in every step.        *)
LEMMA NextHandles ==
  ASSUME IInv, HandleInv, Bounds, ~ProcessWaitExpires, [Next]_vars
  PROVE  HandleInv' /\ Bounds'
<1>1. ASSUME NEW c \in Conns, WorkerStep(c) PROVE HandleInv' /\ Bounds'
  BY <1>1, WorkerHandles, WorkerBounds
<1>2. ASSUME NEW r \in Starts, ProcessStep(r) PROVE HandleInv' /\ Bounds'
  BY <1>2, ProcessBounds, QuietHandles, AcceptHandles, ScanCompleteHandles, DropHandles,
     PlaceHandles, CreateHandles, CreateFailsHandles, StoreHandleHandles DEF ProcessStep
<1>3. CASE Start \/ Stop \/ StopStep
  BY <1>3, OwnerBounds, StartHandles, StopHandles, StopWaitHandles, StopClearHandles DEF StopStep
<1>4. CASE UNCHANGED vars
  <2>1. Bounds'
    BY <1>4, Zenon DEF vars, Bounds
  <2>2. HandleInv'
    BY <1>4, SMT DEF vars, HandleInv, Stored, ToStore, Known, ClosedOrHeld, Ran, Passed,
       Storing, Holding, Stopped
  <2> QED BY <2>1, <2>2
<1> QED BY <1>1, <1>2, <1>3, <1>4 DEF Next

(* What is known of sockets and handles holds in every reachable state,    *)
(* when stop() waits long enough.                                          *)
THEOREM HandlesKnown ==
  ASSUME ~ProcessWaitExpires, ~ClientWaitExpires
  PROVE  Spec => [](IInv /\ Bounds /\ HandleInv)
<1>1. IInv /\ Bounds /\ HandleInv /\ [Next]_vars => (IInv /\ Bounds /\ HandleInv)'
  BY NextHandles, WorkerStepIInv, ProcessStepIInv, OwnerIInv, StutterIInv DEF Next
<1> QED BY <1>1, InitIInv, InitHandles, PTL DEF Spec

(* The table and the threads' records are typed: a slot names connections  *)
(* that were accepted, and no thread's handle is closed twice (start, stop *)
(* and the three kinds of thread).                                         *)
THEOREM TypesCorrect ==
  ASSUME ~ProcessWaitExpires, ~ClientWaitExpires PROVE Spec => []TypeOK
<1>1. IInv /\ Bounds => TypeOK
  <2> SUFFICES ASSUME IInv, Bounds PROVE TypeOK
    OBVIOUS
  <2>1. \A r \in Starts : proc[r].i \in 0 .. NumThreads + 1 /\ proc[r].client \in 0 .. conns
    BY DEF Bounds, ProcOf
  <2>2. \A c \in Conns : /\ worker[c].slot \in Slots \union {0}
                         /\ closes[c] \in Nat /\ handles[c] \in {0, 1}
    BY DEF Bounds, WorkerOf, IInv, Types
  <2> QED BY <2>1, <2>2 DEF TypeOK, Bounds, SlotOf, IInv, Types, Closes
<1> QED BY <1>1, HandlesKnown, PTL

(* Once stop() has returned, every socket accepted was closed, but for a   *)
(* client whose thread could not be created, and so was every handle of a  *)
(* thread (the reuse of a slot, the end of client_process, stop).          *)
THEOREM NothingIsLost ==
  ASSUME ~ProcessWaitExpires, ~ClientWaitExpires PROVE Spec => []NothingLeaks
<1>1. IInv /\ Bounds /\ HandleInv => NothingLeaks
  <2> SUFFICES ASSUME IInv, Bounds, HandleInv, Stopped, NEW c \in 1 .. conns
               PROVE  handles[c] = 0 /\ (worker[c].pc # "failed" => closes[c] = 1)
    BY DEF NothingLeaks
  <2>1. c \in Conns /\ c <= conns /\ conns \in Nat
    BY SMT DEF IInv, Closes, Conns
  <2>2. \A r \in Starts : proc[r].pc \in {"none", "ended"}
    BY SMT DEF IInv, OneProcess, Starts
  <2>3. ~Storing(c) /\ ~Holding(c)
    BY <2>2, SMT DEF Storing, Holding
  <2>4. \A i \in Slots : ~threads[i].active
    BY DEF HandleInv, Stored
  <2>5. handles[c] = 0
    <3>1. handles[c] \in {0, 1}
      BY <2>1 DEF Bounds
    <3> QED BY <2>1, <2>3, <2>4, <3>1 DEF HandleInv, Known
  <2>6. ~Alive(c)
    BY <2>1 DEF IInv, OwnSlot, OwnSlotOf
  <2>7. worker[c].pc \in WorkerPcs
    BY <2>1 DEF IInv, Types, WorkerType
  <2> QED BY <2>1, <2>3, <2>5, <2>6, <2>7, SMT DEF HandleInv, ClosedOrHeld, Alive, WorkerPcs
<1> QED BY <1>1, HandlesKnown, PTL

-----------------------------------------------------------------------------
(* The download.                                                           *)

Tokens == UNION {{Site[u][i] : i \in DOMAIN Site[u]} : u \in DOMAIN Site}
End(s) == CHOOSE e \in CrLfAt(s) : IsResponse(s, e)

(* The store d holds what was received of s after the first t bytes.       *)
Holds(s, d, t) ==
  /\ s \in Seq(Tokens) /\ d \in Seq(Tokens) /\ t \in Nat /\ t + Len(d) <= Len(s)
  /\ \A i \in 1 .. Len(d) : d[i] = s[t + i]
(* No line ends in the store; one ends with its last bytes if at all.      *)
NoneEnds(d) == CrLfAt(d) = {}
LastEnds(d) == \A i \in CrLfAt(d) : i = Len(d) - 1

(* The headers are lines with these first bytes.                           *)
Lines == Seq(Tokens) \ {<<>>}
Firsts(h) == {h[j][1] : j \in DOMAIN h}
Fields(s, n) == {s[i] : i \in {j \in LineStarts(s) : j <= n}}

AtLine(s, t) == t + 1 \in LineStarts(s) /\ t < End(s)
(* The connection ended in the headers.                                    *)
Broken(s, t) == ended \in {"closed", "error"} /\ AtLine(s, t) /\ NoneEnds(data)
Headers(s, t) ==
  /\ AtLine(s, t) /\ Firsts(headers) = Fields(s, t)
  /\ pc = "headers" => NoneEnds(data)
  /\ pc = "lines" /\ slow => LastEnds(data)
Responded(s, t) ==
  t = End(s) + 1 /\ Firsts(headers) = Fields(s, End(s) - 1) /\ (slow => data = <<>>)

(* At the beginning or at the end of a chunk, or at the bytes of one.      *)
AtChunk(s, t) ==
  t + 1 \in ChunkStarts(s, End(s)) \union {Len(s) + 1} \union ChunkEnds(s, End(s))
InChunk(s, t) ==
  /\ chunk.size \in Nat /\ t + chunk.size + 1 \in ChunkEnds(s, End(s))
  /\ \A i \in t + 1 .. t + chunk.size : s[i].body
Chunks(s, t) ==
  /\ Chunked(s, End(s)) /\ DOMAIN chunk = DOMAIN NoChunk
  /\ IF chunk.looking THEN AtChunk(s, t) ELSE InChunk(s, t)
  /\ pc = "chunkLine" => chunk.looking /\ (slow => LastEnds(data))
  /\ pc = "chunkData" => ~chunk.looking /\ (slow => Len(data) <= chunk.size)
  /\ pc = "chunks" /\ slow => IF chunk.looking THEN NoneEnds(data) ELSE Len(data) < chunk.size
Plain(s, t) ==
  /\ Whole(s, End(s)) /\ End(s) < t
  /\ pc = "plain" /\ slow => data = <<>>

Fetching(s, t) ==
  /\ pc \in {"headers", "lines"} => chunk = NoChunk /\ Headers(s, t)
  /\ pc = "respond" => chunk = NoChunk /\ (Broken(s, t) \/ Responded(s, t))
  /\ pc \in {"chunks", "chunkLine", "chunkData"} => (pc = "chunks" /\ Broken(s, t)) \/ Chunks(s, t)
  /\ pc \in {"plain", "write"} => (pc = "plain" /\ Broken(s, t)) \/ Plain(s, t)
  /\ pc = "done" /\ slow => t = got \/ got # Len(s)
  /\ pc \in {"headers", "lines", "respond", "chunks", "chunkLine", "chunkData", "plain", "write", "done"}
Fetched ==
  /\ url \in DOMAIN Site /\ headers \in Seq(Lines)
  /\ \E t \in 0 .. got : /\ got = t + Len(data) /\ Holds(Site[url], data, t)
                        /\ file = BodyTo(Site[url], t) /\ Fetching(Site[url], t)
NotCalled ==
  pc = "idle" /\ data = <<>> /\ headers = <<>> /\ chunk = NoChunk /\ file = <<>> /\ got = 0
DownloadInv == NotCalled \/ Fetched

-----------------------------------------------------------------------------
(* Responses.                                                              *)
LEMMA SiteFacts ==
  ASSUME NEW u \in DOMAIN Site, NEW s, s = Site[u]
  PROVE  /\ s \in Seq(Tokens) /\ Len(s) \in Nat /\ \A i \in 1 .. Len(s) : s[i] \in Tokens
         /\ DOMAIN s = 1 .. Len(s)
         /\ End(s) \in CrLfAt(s) /\ IsResponse(s, End(s))
<1> DEFINE T == {s[i] : i \in DOMAIN s}
<1>1. s \in Seq(T) /\ \E e \in CrLfAt(s) : IsResponse(s, e)
  BY SiteAssumption
<1>2. T \subseteq Tokens
  BY DEF Tokens
<1> HIDE DEF T
<1>3. s \in Seq(Tokens)
  BY <1>1, <1>2, SeqMonotonic
<1>4. End(s) \in CrLfAt(s) /\ IsResponse(s, End(s))
  BY <1>1 DEF End
<1> QED BY <1>3, <1>4, ElementOfSeq, LenProperties

(* Two line ends do not overlap.                                           *)
LEMMA NoOverlap ==
  ASSUME NEW s, NEW i \in CrLfAt(s)
  PROVE  i + 1 \notin CrLfAt(s)
BY DEF CrLfAt

(* The headers: up to End they are lines without a byte of the body.       *)
LEMMA EndFacts ==
  ASSUME NEW s, s \in Seq(Tokens), End(s) \in CrLfAt(s), IsResponse(s, End(s))
  PROVE  /\ End(s) \in 1 .. Len(s) - 1 /\ Len(s) \in Nat
         /\ End(s) \in LineStarts(s)
         /\ \A b \in CrLfAt(s) : b \in LineStarts(s) => End(s) <= b
         /\ \A i \in 1 .. End(s) + 1 : ~s[i].body /\ (s[i].k = "length" => s[i].v \in Nat)
BY DEF IsResponse, HeadersTo, CrLfAt

-----------------------------------------------------------------------------
(* The store and its lines.                                                *)
LEMMA HoldsFacts ==
  ASSUME NEW s, NEW d, NEW t, Holds(s, d, t)
  PROVE  /\ s \in Seq(Tokens) /\ d \in Seq(Tokens) /\ t \in Nat /\ Len(d) \in Nat /\ Len(s) \in Nat
         /\ t + Len(d) <= Len(s) /\ \A i \in 1 .. Len(d) : d[i] = s[t + i]
BY DEF Holds

(* Line ends in the store are line ends of the response.                   *)
LEMMA CrLfMoved ==
  ASSUME NEW s, NEW d, NEW t, Holds(s, d, t), NEW i \in Nat
  PROVE  i \in CrLfAt(d) <=> i \in 1 .. Len(d) - 1 /\ t + i \in CrLfAt(s)
<1>0. t \in Nat /\ Len(d) \in Nat /\ Len(s) \in Nat /\ t + Len(d) <= Len(s)
  BY HoldsFacts
<1>1. CASE i \in 1 .. Len(d) - 1
  <2>1. i \in 1 .. Len(d) /\ i + 1 \in 1 .. Len(d) /\ t + (i + 1) = (t + i) + 1 /\ t + i \in 1 .. Len(s) - 1
    BY <1>0, <1>1
  <2>2. d[i] = s[t + i] /\ d[i + 1] = s[(t + i) + 1]
    BY <2>1, HoldsFacts
  <2> QED BY <1>1, <2>1, <2>2 DEF CrLfAt
<1>2. CASE i \notin 1 .. Len(d) - 1
  BY <1>2 DEF CrLfAt
<1> QED BY <1>1, <1>2

(* find_crlf finds the first line end, if there is one.                    *)
LEMMA FindFacts ==
  ASSUME NEW d, d \in Seq(Tokens)
  PROVE  /\ NoneEnds(d) => FindCrlf(d) = -1
         /\ ~NoneEnds(d) => /\ FindCrlf(d) \in Nat /\ FindCrlf(d) + 1 \in CrLfAt(d)
                            /\ FindCrlf(d) + 2 <= Len(d)
                            /\ \A j \in CrLfAt(d) : FindCrlf(d) + 1 <= j
<1>1. NoneEnds(d) => FindCrlf(d) = -1
  BY DEF NoneEnds, FindCrlf
<1>2. ASSUME ~NoneEnds(d)
      PROVE  /\ FindCrlf(d) \in Nat /\ FindCrlf(d) + 1 \in CrLfAt(d)
             /\ FindCrlf(d) + 2 <= Len(d)
             /\ \A j \in CrLfAt(d) : FindCrlf(d) + 1 <= j
  <2> DEFINE T == CrLfAt(d)
             m == CHOOSE i \in T : \A j \in T : i <= j
  <2>1. T \subseteq 1 .. Len(d) - 1 /\ Len(d) \in Nat
    BY DEF CrLfAt
  <2>2. T \in SUBSET Nat /\ T # {}
    BY <1>2, <2>1 DEF NoneEnds
  <2>3. FindCrlf(d) = m - 1
    BY <1>2 DEF FindCrlf, NoneEnds
  <2> HIDE DEF T
  <2>4. \E i \in T : \A j \in T : i <= j
    BY <2>2, LeastMember
  <2>5. m \in T /\ \A j \in T : m <= j
    BY <2>4
  <2> HIDE DEF m
  <2>6. m \in 1 .. Len(d) - 1
    BY <2>1, <2>5
  <2>7. m - 1 \in Nat /\ (m - 1) + 1 = m /\ (m - 1) + 2 <= Len(d)
    BY <2>1, <2>6
  <2> QED BY <2>3, <2>5, <2>7 DEF T
<1> QED BY <1>1, <1>2

(* What is found in the store is the next line end of the response.        *)
LEMMA LineFound ==
  ASSUME NEW s, NEW d, NEW t, Holds(s, d, t), NEW f, f = FindCrlf(d), f # -1
  PROVE  /\ f \in Nat /\ f + 2 <= Len(d) /\ t + f + 1 \in CrLfAt(s)
         /\ \A i \in CrLfAt(s) : i <= t \/ t + f + 1 <= i
<1>0. t \in Nat /\ Len(d) \in Nat /\ Len(s) \in Nat /\ t + Len(d) <= Len(s) /\ d \in Seq(Tokens)
  BY HoldsFacts
<1>1. f \in Nat /\ f + 1 \in CrLfAt(d) /\ f + 2 <= Len(d) /\ \A j \in CrLfAt(d) : f + 1 <= j
  BY <1>0, FindFacts
<1>2. t + (f + 1) \in CrLfAt(s) /\ t + (f + 1) = t + f + 1
  BY <1>0, <1>1, CrLfMoved
<1>3. ASSUME NEW i \in CrLfAt(s), i > t, i < t + f + 1 PROVE FALSE
  <2>1. i \in Nat
    BY <1>0 DEF CrLfAt
  <2>2. i - t \in Nat /\ i - t \in 1 .. Len(d) - 1 /\ t + (i - t) = i /\ i - t < f + 1
    BY <1>0, <1>1, <1>3, <2>1
  <2>3. i - t \in CrLfAt(d)
    BY <2>2, CrLfMoved
  <2> QED BY <1>1, <2>2, <2>3
<1>4. ASSUME NEW i \in CrLfAt(s) PROVE i <= t \/ t + f + 1 <= i
  <2>1. i \in Nat
    BY <1>0 DEF CrLfAt
  <2> QED BY <1>0, <1>1, <1>3, <2>1
<1> QED BY <1>1, <1>2, <1>4

(* If none is found, those to come are not in the store.                   *)
LEMMA LineMissing ==
  ASSUME NEW s, NEW d, NEW t, Holds(s, d, t), NoneEnds(d), NEW i \in CrLfAt(s), t < i
  PROVE  t + Len(d) <= i
<1>0. t \in Nat /\ Len(d) \in Nat /\ Len(s) \in Nat /\ i \in Nat
  BY HoldsFacts DEF CrLfAt
<1>1. ASSUME i < t + Len(d) PROVE FALSE
  <2>1. i - t \in Nat /\ i - t \in 1 .. Len(d) - 1 /\ t + (i - t) = i
    BY <1>0, <1>1
  <2>2. i - t \in CrLfAt(d)
    BY <2>1, CrLfMoved
  <2> QED BY <2>2 DEF NoneEnds
<1> QED BY <1>0, <1>1

(* br_sslio_read and add_range.                                            *)
Delivered(s, d, g, n) == d \o SubSeq(s, g + 1, g + n)

(* The store holds what was read, too.                                     *)
LEMMA ReadHolds ==
  ASSUME NEW s, NEW d, NEW t, Holds(s, d, t), NEW n \in Nat \ {0},
         NEW g \in Nat, g = t + Len(d), g + n <= Len(s),
         NEW e, e = Delivered(s, d, g, n)
  PROVE  /\ Holds(s, e, t) /\ Len(e) = Len(d) + n
         /\ n = 1 /\ NoneEnds(d) => LastEnds(e)
<1>00. s \in Seq(Tokens) /\ d \in Seq(Tokens) /\ t \in Nat /\ Len(d) \in Nat /\ Len(s) \in Nat
  BY HoldsFacts
<1>01. PICK l \in Nat : l = Len(d)
  BY <1>00
<1>02. g \in Nat
  BY <1>00, <1>01
<1>0. s \in Seq(Tokens) /\ d \in Seq(Tokens) /\ t \in Nat /\ Len(d) \in Nat /\ Len(s) \in Nat /\ g \in Nat
  BY <1>00, <1>02
<1> DEFINE a == SubSeq(s, g + 1, g + n)
<1>1. \A i \in g + 1 .. g + n : s[i] \in Tokens
  <2> SUFFICES ASSUME NEW i \in g + 1 .. g + n PROVE s[i] \in Tokens
    OBVIOUS
  <2>1. i \in 1 .. Len(s)
    BY <1>0
  <2> QED BY <1>0, <2>1, ElementOfSeq
<1>2. a \in Seq(Tokens) /\ Len(a) = n /\ \A i \in 1 .. n : a[i] = s[g + i]
  <2>1. PICK b \in Int, c \in Int : b = g + 1 /\ c = g + n
    BY <1>0
  <2>2. b <= c /\ c - b + 1 = n
    BY <1>0, <2>1
  <2>3. a = SubSeq(s, b, c)
    BY <2>1 DEF a
  <2>31. \A i \in b .. c : s[i] \in Tokens
    BY <1>1, <2>1
  <2>32. /\ SubSeq(s, b, c) \in Seq(Tokens)
         /\ Len(SubSeq(s, b, c)) = (IF b <= c THEN c - b + 1 ELSE 0)
         /\ \A i \in 1 .. c - b + 1 : SubSeq(s, b, c)[i] = s[b + i - 1]
    BY <2>31, SubSeqProperties
  <2> HIDE DEF a
  <2>4. /\ a \in Seq(Tokens) /\ Len(a) = (IF b <= c THEN c - b + 1 ELSE 0)
        /\ \A i \in 1 .. c - b + 1 : a[i] = s[b + i - 1]
    BY <2>3, <2>32, Zenon
  <2>5. \A i \in 1 .. n : b + i - 1 = g + i
    BY <1>0, <2>1
  <2> QED BY <2>2, <2>4, <2>5
<1> HIDE DEF a
<1>3. e \in Seq(Tokens) /\ Len(e) = Len(d) + n
      /\ \A i \in 1 .. Len(d) + n : e[i] = IF i <= Len(d) THEN d[i] ELSE a[i - Len(d)]
  <2>1. e = d \o a
    BY DEF a, Delivered
  <2>2. d \o a \in Seq(Tokens) /\ Len(d \o a) = Len(d) + Len(a)
        /\ \A i \in 1 .. Len(d) + Len(a) : (d \o a)[i] = IF i <= Len(d) THEN d[i] ELSE a[i - Len(d)]
    BY <1>0, <1>2, ConcatProperties
  <2> QED BY <1>2, <2>1, <2>2
<1>4. ASSUME NEW i \in 1 .. Len(e) PROVE e[i] = s[t + i]
  <2>1. CASE i <= Len(d)
    <3>1. i \in 1 .. Len(d) /\ i \in 1 .. Len(d) + n
      BY <1>0, <1>3, <2>1
    <3>2. e[i] = d[i]
      BY <1>3, <2>1, <3>1
    <3>3. d[i] = s[t + i]
      BY <3>1, HoldsFacts
    <3> QED BY <3>2, <3>3
  <2>2. CASE ~(i <= Len(d))
    <3>1. i - Len(d) \in 1 .. n /\ i \in 1 .. Len(d) + n /\ g + (i - Len(d)) = t + i
      BY <1>0, <1>3, <2>2
    <3> QED BY <1>2, <1>3, <2>2, <3>1
  <2> QED BY <2>1, <2>2
<1>5. Holds(s, e, t)
  <2>1. t + Len(e) <= Len(s)
    BY <1>0, <1>3
  <2> QED BY <1>0, <1>3, <1>4, <2>1 DEF Holds
<1>6. ASSUME n = 1, NoneEnds(d) PROVE LastEnds(e)
  <2> SUFFICES ASSUME NEW i \in CrLfAt(e), i # Len(e) - 1 PROVE FALSE
    BY DEF LastEnds
  <2>1. i \in Nat /\ i \in 1 .. Len(e) - 1
    BY <1>0, <1>3 DEF CrLfAt
  <2>2. t + i \in CrLfAt(s)
    BY <1>5, <2>1, CrLfMoved
  <2>3. i \in 1 .. Len(d) - 1
    BY <1>0, <1>3, <1>6, <2>1
  <2>4. i \in CrLfAt(d)
    BY <2>1, <2>2, <2>3, CrLfMoved
  <2> QED BY <1>6, <2>4 DEF NoneEnds
<1> QED BY <1>3, <1>5, <1>6

(* remove_range.                                                           *)
LEMMA RemoveHolds ==
  ASSUME NEW s, NEW d, NEW t, Holds(s, d, t), NEW n \in Nat, n <= Len(d), NEW e, e = RemoveRange(d, n)
  PROVE  /\ Holds(s, e, t + n) /\ Len(e) = Len(d) - n
         /\ n = Len(d) => e = <<>>
         /\ LastEnds(d) => LastEnds(e)
<1>0. /\ s \in Seq(Tokens) /\ d \in Seq(Tokens) /\ t \in Nat /\ Len(d) \in Nat /\ Len(s) \in Nat
      /\ t + Len(d) <= Len(s)
  BY HoldsFacts
<1>1. e \in Seq(Tokens) /\ Len(e) = Len(d) - n /\ \A i \in 1 .. Len(d) - n : e[i] = d[n + i]
  <2>1. \A i \in n + 1 .. Len(d) : d[i] \in Tokens
    <3> SUFFICES ASSUME NEW i \in n + 1 .. Len(d) PROVE d[i] \in Tokens
      OBVIOUS
    <3>1. i \in 1 .. Len(d)
      BY <1>0
    <3> QED BY <1>0, <3>1, ElementOfSeq
  <2>2. PICK l \in Nat : l = Len(d)
    BY <1>0
  <2>3. n + 1 \in Int /\ l \in Int /\ e = SubSeq(d, n + 1, l)
    BY <2>2 DEF RemoveRange
  <2>4. /\ e \in Seq(Tokens) /\ Len(e) = (IF n + 1 <= l THEN l - (n + 1) + 1 ELSE 0)
        /\ \A i \in 1 .. l - (n + 1) + 1 : e[i] = d[(n + 1) + i - 1]
    BY <2>1, <2>2, <2>3, SubSeqProperties
  <2>5. (IF n + 1 <= l THEN l - (n + 1) + 1 ELSE 0) = l - n /\ l - (n + 1) + 1 = l - n
    BY <2>2
  <2>6. \A i \in 1 .. l - n : (n + 1) + i - 1 = n + i
    BY <2>2
  <2> QED BY <2>2, <2>4, <2>5, <2>6
<1>2. Holds(s, e, t + n)
  <2>1. ASSUME NEW i \in 1 .. Len(e) PROVE e[i] = s[(t + n) + i]
    <3>1. i \in 1 .. Len(d) - n /\ n + i \in 1 .. Len(d) /\ t + (n + i) = (t + n) + i
      BY <1>0, <1>1
    <3>2. d[n + i] = s[t + (n + i)]
      BY <3>1, HoldsFacts
    <3> QED BY <1>1, <3>1, <3>2
  <2>2. t + n \in Nat /\ (t + n) + Len(e) <= Len(s)
    BY <1>0, <1>1
  <2> QED BY <1>0, <1>1, <2>1, <2>2 DEF Holds
<1>3. n = Len(d) => e = <<>>
  <2> SUFFICES ASSUME n = Len(d) PROVE e = <<>>
    OBVIOUS
  <2>1. Len(e) = 0
    BY <1>0, <1>1
  <2> QED BY <1>1, <2>1, EmptySeq
<1>4. ASSUME LastEnds(d) PROVE LastEnds(e)
  <2> SUFFICES ASSUME NEW i \in CrLfAt(e) PROVE i = Len(e) - 1
    BY DEF LastEnds
  <2>1. i \in Nat /\ i \in 1 .. Len(e) - 1
    BY <1>0, <1>1 DEF CrLfAt
  <2>2. (t + n) + i \in CrLfAt(s)
    BY <1>2, <2>1, CrLfMoved
  <2>3. n + i \in Nat /\ n + i \in 1 .. Len(d) - 1 /\ t + (n + i) = (t + n) + i
    BY <1>0, <1>1, <2>1
  <2>4. n + i \in CrLfAt(d)
    BY <2>2, <2>3, CrLfMoved
  <2>5. n + i = Len(d) - 1
    BY <1>4, <2>4 DEF LastEnds
  <2>6. PICK l \in Nat : l = Len(d)
    BY <1>0
  <2>7. Len(e) = l - n /\ n + i = l - 1
    BY <1>1, <2>5, <2>6
  <2> QED BY <2>1, <2>6, <2>7
<1> QED BY <1>1, <1>2, <1>3, <1>4

-----------------------------------------------------------------------------
(* The bytes of the body.                                                  *)
NextBody(s, b, i) == IF s[i].body THEN Append(b, s[i]) ELSE b
BodySteps(h, s, n) == h = [k \in 0 .. n |-> IF k = 0 THEN <<>> ELSE NextBody(s, h[k - 1], k)]

(* There is one sequence of bodies for the first n bytes.                  *)
LEMMA BodyStepsUnique ==
  ASSUME NEW s, NEW m \in Nat, NEW n \in Nat, NEW g, NEW h, BodySteps(g, s, m), BodySteps(h, s, n)
  PROVE  \A k \in Nat : k <= m /\ k <= n => g[k] = h[k]
<1> DEFINE S == {k \in Nat : k <= m /\ k <= n => g[k] = h[k]}
<1>1. 0 \in S
  BY DEF BodySteps
<1>2. ASSUME NEW k \in Nat, k \in S PROVE k + 1 \in S
  <2> SUFFICES ASSUME k + 1 <= m, k + 1 <= n PROVE g[k + 1] = h[k + 1]
    OBVIOUS
  <2>1. g[k] = h[k]
    BY <1>2
  <2>2. g[k + 1] = NextBody(s, g[(k + 1) - 1], k + 1) /\ h[k + 1] = NextBody(s, h[(k + 1) - 1], k + 1)
    BY DEF BodySteps
  <2> QED BY <2>1, <2>2
<1> HIDE DEF S
<1>3. Nat \subseteq S
  BY <1>1, <1>2, InductionOnSet
<1> QED BY <1>3 DEF S

(* And there is one.                                                       *)
LEMMA BodyStepsExist ==
  ASSUME NEW s
  PROVE  \A n \in Nat : \E h : BodySteps(h, s, n)
<1> DEFINE S == {n \in Nat : \E h : BodySteps(h, s, n)}
<1>1. 0 \in S
  <2>1. BodySteps([k \in 0 .. 0 |-> <<>>], s, 0)
    BY DEF BodySteps
  <2> QED BY <2>1
<1>2. ASSUME NEW n \in Nat, n \in S PROVE n + 1 \in S
  <2>1. PICK h : BodySteps(h, s, n)
    BY <1>2
  <2> DEFINE g == [k \in 0 .. n + 1 |-> IF k = n + 1 THEN NextBody(s, h[n], n + 1) ELSE h[k]]
  <2>2. ASSUME NEW k \in 0 .. n + 1
        PROVE  g[k] = IF k = 0 THEN <<>> ELSE NextBody(s, g[k - 1], k)
    BY <2>1 DEF BodySteps
  <2>3. g = [k \in 0 .. n + 1 |-> IF k = 0 THEN <<>> ELSE NextBody(s, g[k - 1], k)]
    BY <2>2
  <2>4. BodySteps(g, s, n + 1)
    BY <2>3 DEF BodySteps
  <2> QED BY <2>4
<1> HIDE DEF S
<1>3. Nat \subseteq S
  BY <1>1, <1>2, InductionOnSet
<1> QED BY <1>3 DEF S

(* BodyTo by its recursion.                                                *)
LEMMA BodyToDef ==
  ASSUME NEW s
  PROVE  /\ BodyTo(s, 0) = <<>>
         /\ \A n \in Nat : BodyTo(s, n + 1) = NextBody(s, BodyTo(s, n), n + 1)
<1> DEFINE some(n) == CHOOSE h : BodySteps(h, s, n)
           g == [k \in Nat |-> some(k)[k]]
           r == CHOOSE w : w = [i \in Nat |-> IF i = 0 THEN <<>> ELSE NextBody(s, w[i - 1], i)]
<1>1. \A n \in Nat : BodySteps(some(n), s, n)
  BY BodyStepsExist
<1> HIDE DEF some
<1>2. ASSUME NEW k \in Nat PROVE g[k] = IF k = 0 THEN <<>> ELSE NextBody(s, g[k - 1], k)
  <2>1. CASE k = 0
    BY <1>1, <2>1 DEF BodySteps
  <2>2. CASE k # 0
    <3>1. k - 1 \in Nat
      BY <2>2
    <3>2. some(k)[k] = NextBody(s, some(k)[k - 1], k)
      BY <1>1, <2>2 DEF BodySteps
    <3>3. some(k)[k - 1] = some(k - 1)[k - 1]
      BY <1>1, <3>1, BodyStepsUnique
    <3> QED BY <2>2, <3>1, <3>2, <3>3
  <2> QED BY <2>1, <2>2
<1>3. g = [k \in Nat |-> IF k = 0 THEN <<>> ELSE NextBody(s, g[k - 1], k)]
  BY <1>2
<1> HIDE DEF g
<1>4. r = [i \in Nat |-> IF i = 0 THEN <<>> ELSE NextBody(s, r[i - 1], i)]
  BY <1>3, Zenon
<1>5. \A n : BodyTo(s, n) = r[n]
  BY DEF BodyTo, NextBody
<1> HIDE DEF r
<1>6. r[0] = <<>>
  BY <1>4
<1>7. ASSUME NEW n \in Nat PROVE r[n + 1] = NextBody(s, r[n], n + 1)
  <2>1. n + 1 \in Nat /\ n + 1 # 0 /\ (n + 1) - 1 = n
    OBVIOUS
  <2> QED BY <1>4, <2>1
<1> QED BY <1>5, <1>6, <1>7

(* The body is made of bytes of the response.                              *)
LEMMA BodyToSeq ==
  ASSUME NEW s, s \in Seq(Tokens), NEW n \in Nat, n <= Len(s)
  PROVE  BodyTo(s, n) \in Seq(Tokens)
<1> DEFINE S == {m \in Nat : m <= Len(s) => BodyTo(s, m) \in Seq(Tokens)}
<1>1. 0 \in S
  <2>1. BodyTo(s, 0) = <<>> /\ <<>> \in Seq(Tokens)
    BY BodyToDef
  <2> QED BY <2>1
<1>2. ASSUME NEW m \in Nat, m \in S PROVE m + 1 \in S
  <2> SUFFICES ASSUME m + 1 <= Len(s) PROVE BodyTo(s, m + 1) \in Seq(Tokens)
    OBVIOUS
  <2>1. m + 1 \in 1 .. Len(s) /\ m <= Len(s)
    BY LenProperties
  <2>2. BodyTo(s, m) \in Seq(Tokens) /\ s[m + 1] \in Tokens
    BY <1>2, <2>1, ElementOfSeq
  <2>3. BodyTo(s, m + 1) = NextBody(s, BodyTo(s, m), m + 1)
    BY BodyToDef
  <2>4. Append(BodyTo(s, m), s[m + 1]) \in Seq(Tokens)
    BY <2>2, AppendProperties
  <2> QED BY <2>2, <2>3, <2>4 DEF NextBody
<1> HIDE DEF S
<1>3. Nat \subseteq S
  BY <1>1, <1>2, InductionOnSet
<1> QED BY <1>3 DEF S

(* What is not of the body is left out.                                    *)
LEMMA BodySkip ==
  ASSUME NEW s, NEW a \in Nat, NEW n \in Nat, \A i \in a + 1 .. a + n : ~s[i].body
  PROVE  BodyTo(s, a + n) = BodyTo(s, a)
<1> DEFINE S == {m \in Nat : m <= n => BodyTo(s, a + m) = BodyTo(s, a)}
<1>1. 0 \in S
  OBVIOUS
<1>2. ASSUME NEW m \in Nat, m \in S PROVE m + 1 \in S
  <2> SUFFICES ASSUME m + 1 <= n PROVE BodyTo(s, a + (m + 1)) = BodyTo(s, a)
    OBVIOUS
  <2>1. PICK b \in Nat : b = a + m
    OBVIOUS
  <2>2. b + 1 \in a + 1 .. a + n /\ a + (m + 1) = b + 1
    BY <2>1
  <2>3. BodyTo(s, b) = BodyTo(s, a)
    BY <1>2, <2>1
  <2>4. BodyTo(s, b + 1) = BodyTo(s, b)
    BY <2>2, BodyToDef DEF NextBody
  <2> QED BY <2>2, <2>3, <2>4
<1> HIDE DEF S
<1>3. Nat \subseteq S
  BY <1>1, <1>2, InductionOnSet
<1> QED BY <1>3 DEF S

(* What is of the body is added.                                           *)
LEMMA BodyTake ==
  ASSUME NEW s, NEW d, NEW a, Holds(s, d, a), NEW n \in Nat, n <= Len(d),
         \A i \in a + 1 .. a + n : s[i].body
  PROVE  BodyTo(s, a + n) = BodyTo(s, a) \o SubSeq(d, 1, n)
<1>0. /\ s \in Seq(Tokens) /\ d \in Seq(Tokens) /\ a \in Nat /\ Len(d) \in Nat /\ Len(s) \in Nat
      /\ a + Len(d) <= Len(s)
  BY HoldsFacts
<1> DEFINE S == {m \in Nat : m <= n => BodyTo(s, a + m) = BodyTo(s, a) \o SubSeq(d, 1, m)}
<1>1. 0 \in S
  <2>1. SubSeq(d, 1, 0) = <<>>
    BY SubSeqEmpty
  <2>2. a <= Len(s)
    BY <1>0
  <2>3. BodyTo(s, a) \in Seq(Tokens)
    BY <1>0, <2>2, BodyToSeq
  <2> QED BY <1>0, <2>1, <2>3, ConcatEmptySeq
<1>2. ASSUME NEW m \in Nat, m \in S PROVE m + 1 \in S
  <2> SUFFICES ASSUME m + 1 <= n PROVE BodyTo(s, a + (m + 1)) = BodyTo(s, a) \o SubSeq(d, 1, m + 1)
    OBVIOUS
  <2>1. PICK b \in Nat : b = a + m
    BY <1>0
  <2>2. b + 1 \in a + 1 .. a + n /\ a + (m + 1) = b + 1 /\ m + 1 \in 1 .. Len(d) /\ a <= Len(s)
    BY <1>0, <2>1
  <2>3. BodyTo(s, b) = BodyTo(s, a) \o SubSeq(d, 1, m)
    BY <1>2, <2>1
  <2>4. BodyTo(s, b + 1) = Append(BodyTo(s, b), d[m + 1])
    <3>1. d[m + 1] = s[b + 1]
      BY <2>2, HoldsFacts
    <3> QED BY <2>2, <3>1, BodyToDef DEF NextBody
  <2>5. SubSeq(d, 1, m + 1) = SubSeq(d, 1, m) \o <<d[m + 1]>>
    <3>1. 1 \in 1 .. Len(d) /\ m + 1 \in 1 .. Len(d) /\ (m + 1) - 1 = m
      BY <1>0, <2>2
    <3>2. SubSeq(d, 1, m + 1) = SubSeq(d, 1, (m + 1) - 1) \o <<d[m + 1]>>
      BY <1>0, <3>1, SubSeqRecursiveSecond
    <3> QED BY <3>1, <3>2
  <2>6. d[m + 1] \in Tokens /\ <<d[m + 1]>> \in Seq(Tokens)
    <3>1. d[m + 1] \in Tokens
      BY <1>0, <2>2, ElementOfSeq
    <3> QED BY <3>1
  <2>7. SubSeq(d, 1, m) \in Seq(Tokens)
    <3>1. ASSUME NEW i \in 1 .. m PROVE d[i] \in Tokens
      <4>1. i \in 1 .. Len(d)
        BY <1>0, <2>2
      <4> QED BY <1>0, <4>1, ElementOfSeq
    <3> QED BY <3>1, SubSeqProperties
  <2>8. BodyTo(s, a) \in Seq(Tokens) /\ BodyTo(s, a) \o SubSeq(d, 1, m) \in Seq(Tokens)
    BY <1>0, <2>2, <2>7, BodyToSeq, ConcatProperties
  <2>9. Append(BodyTo(s, b), d[m + 1]) = (BodyTo(s, a) \o SubSeq(d, 1, m)) \o <<d[m + 1]>>
    BY <2>3, <2>6, <2>8, AppendIsConcat
  <2>10. (BodyTo(s, a) \o SubSeq(d, 1, m)) \o <<d[m + 1]>> = BodyTo(s, a) \o (SubSeq(d, 1, m) \o <<d[m + 1]>>)
    <3>1. PICK x \in Seq(Tokens), y \in Seq(Tokens), z \in Seq(Tokens) :
               x = BodyTo(s, a) /\ y = SubSeq(d, 1, m) /\ z = <<d[m + 1]>>
      BY <2>6, <2>7, <2>8
    <3>2. (x \o y) \o z = x \o (y \o z)
      BY ConcatAssociative
    <3> QED BY <3>1, <3>2
  <2> QED BY <2>2, <2>4, <2>5, <2>9, <2>10
<1> HIDE DEF S
<1>3. Nat \subseteq S
  BY <1>1, <1>2, InductionOnSet
<1> QED BY <1>3 DEF S

-----------------------------------------------------------------------------
(* Places in a response, after the first t bytes; r is the next line end.  *)
NextEnd(s, t, r) == r \in CrLfAt(s) /\ t < r /\ \A i \in CrLfAt(s) : i <= t \/ r <= i
Response(s) == s \in Seq(Tokens) /\ End(s) \in CrLfAt(s) /\ IsResponse(s, End(s))

(* What is known of a response.                                            *)
LEMMA ResponseFacts ==
  ASSUME NEW s, Response(s)
  PROVE  /\ s \in Seq(Tokens) /\ Len(s) \in Nat /\ \A i \in 1 .. Len(s) : s[i] \in Tokens
         /\ CrLfAt(s) \subseteq 1 .. Len(s) - 1
         /\ End(s) \in 1 .. Len(s) - 1 /\ End(s) \in CrLfAt(s) /\ End(s) \in LineStarts(s)
         /\ \A b \in CrLfAt(s) : b \in LineStarts(s) => End(s) <= b
         /\ \A i \in 1 .. End(s) + 1 : ~s[i].body /\ (s[i].k = "length" => s[i].v \in Nat)
         /\ LineStarts(s) \subseteq Nat
<1>1. s \in Seq(Tokens) /\ Len(s) \in Nat /\ \A i \in 1 .. Len(s) : s[i] \in Tokens
  BY ElementOfSeq, LenProperties DEF Response
<1>2. CrLfAt(s) \subseteq 1 .. Len(s) - 1
  BY DEF CrLfAt
<1>3. LineStarts(s) \subseteq Nat
  BY <1>1, <1>2 DEF LineStarts
<1> QED BY <1>1, <1>2, <1>3, EndFacts DEF Response

(* A line does not begin with the second byte of a line end.               *)
LEMMA LineStartApart ==
  ASSUME NEW s, Response(s), NEW t \in Nat, t + 1 \in LineStarts(s)
  PROVE  t \notin CrLfAt(s)
<1> SUFFICES ASSUME t \in CrLfAt(s) PROVE FALSE
  OBVIOUS
<1>0. CrLfAt(s) \subseteq 1 .. Len(s) - 1 /\ Len(s) \in Nat
  BY ResponseFacts
<1>1. t + 1 # 1
  BY <1>0
<1>2. PICK i \in CrLfAt(s) : t + 1 = i + 2
  BY <1>1, Zenon DEF LineStarts
<1>3. t = i + 1
  BY <1>0, <1>2
<1> QED BY <1>3, NoOverlap

(* A header line that is not empty ends before the headers do.             *)
LEMMA HeaderNext ==
  ASSUME NEW s, Response(s), NEW t \in Nat, AtLine(s, t), NEW r \in Nat, NextEnd(s, t, r), t + 1 < r
  PROVE  AtLine(s, r + 1)
<1>0. CrLfAt(s) \subseteq 1 .. Len(s) - 1 /\ Len(s) \in Nat /\ End(s) \in CrLfAt(s) /\ End(s) \in Nat
  BY ResponseFacts
<1>1. t + 1 \in LineStarts(s) /\ t < End(s) /\ r \in CrLfAt(s)
  BY DEF AtLine, NextEnd
<1>2. r <= End(s)
  BY <1>0, <1>1 DEF NextEnd
<1>3. ASSUME r = End(s) PROVE FALSE
  <2>1. r # 1 /\ r \in LineStarts(s)
    BY <1>3, ResponseFacts
  <2>2. PICK i \in CrLfAt(s) : r = i + 2
    BY <2>1 DEF LineStarts
  <2>3. i \in Nat /\ i < r
    BY <1>0, <2>2
  <2>4. i <= t
    BY <2>3 DEF NextEnd
  <2>5. i = t
    BY <2>2, <2>3, <2>4
  <2> QED BY <1>1, <2>5, LineStartApart
<1>4. r + 1 # End(s)
  BY <1>0, <1>1, NoOverlap
<1>5. r + 1 < End(s)
  BY <1>0, <1>2, <1>3, <1>4
<1>6. (r + 1) + 1 \in LineStarts(s)
  BY <1>1 DEF LineStarts
<1> QED BY <1>5, <1>6 DEF AtLine

(* It adds its first byte to the fields.                                   *)
LEMMA FieldsNext ==
  ASSUME NEW s, Response(s), NEW t \in Nat, AtLine(s, t), NEW r \in Nat, NextEnd(s, t, r), t + 1 < r
  PROVE  Fields(s, r + 1) = Fields(s, t) \union {s[t + 1]}
<1>0. CrLfAt(s) \subseteq 1 .. Len(s) - 1 /\ Len(s) \in Nat /\ LineStarts(s) \subseteq Nat
  BY ResponseFacts
<1>1. t + 1 \in LineStarts(s)
  BY DEF AtLine
<1>2. ASSUME NEW i \in LineStarts(s) PROVE i <= r + 1 <=> i <= t \/ i = t + 1
  <2>1. i \in Nat
    BY <1>0
  <2>2. ASSUME i <= r + 1, t + 1 < i PROVE FALSE
    <3>1. PICK j \in CrLfAt(s) : i = j + 2
      BY <2>2 DEF LineStarts
    <3>2. j \in Nat /\ j < r /\ t <= j
      BY <1>0, <2>2, <3>1
    <3>3. j <= t
      BY <3>2 DEF NextEnd
    <3>4. j = t
      BY <3>2, <3>3
    <3> QED BY <1>1, <3>4, LineStartApart
  <2> QED BY <2>1, <2>2
<1>3. \A i : i \in {j \in LineStarts(s) : j <= r + 1} <=> i \in {j \in LineStarts(s) : j <= t} \/ i = t + 1
  BY <1>1, <1>2
<1> QED BY <1>3 DEF Fields

(* The empty line is where the headers end.                                *)
LEMMA EmptyNext ==
  ASSUME NEW s, Response(s), NEW t \in Nat, AtLine(s, t), t + 1 \in CrLfAt(s)
  PROVE  End(s) = t + 1
<1>1. End(s) <= t + 1 /\ End(s) \in Nat
  BY ResponseFacts DEF AtLine
<1>2. t < End(s)
  BY DEF AtLine
<1> QED BY <1>1, <1>2

(* Up to the end of the headers nothing is of the body.                    *)
LEMMA NoBodyYet ==
  ASSUME NEW s, Response(s), NEW t \in Nat, NEW n \in Nat, t + n <= End(s) + 1
  PROVE  BodyTo(s, t + n) = BodyTo(s, t) /\ BodyTo(s, t) = <<>>
<1>0. End(s) \in Nat /\ \A i \in 1 .. End(s) + 1 : ~s[i].body
  BY ResponseFacts
<1>1. \A i \in t + 1 .. t + n : ~s[i].body
  BY <1>0
<1>2. BodyTo(s, t + n) = BodyTo(s, t)
  BY <1>1, BodySkip
<1>3. \A i \in 0 + 1 .. 0 + t : ~s[i].body
  BY <1>0
<1>4. BodyTo(s, 0 + t) = BodyTo(s, 0)
  BY <1>3, BodySkip
<1> QED BY <1>2, <1>4, BodyToDef

(* The line end after a chunk.                                             *)
LEMMA ChunkEndFacts ==
  ASSUME NEW s, Response(s), NEW q \in ChunkEnds(s, End(s))
  PROVE  /\ q \in CrLfAt(s) /\ q \in 1 .. Len(s) - 1 /\ ~s[q].body /\ ~s[q + 1].body
         /\ AtChunk(s, q + 1)
<1>1. q \in CrLfAt(s) /\ ~s[q].body /\ ~s[q + 1].body /\ q + 2 \in ChunkStarts(s, End(s)) \union {Len(s) + 1}
  BY DEF ChunkEnds
<1>2. q \in 1 .. Len(s) - 1 /\ Len(s) \in Nat
  BY <1>1, ResponseFacts
<1>3. (q + 1) + 1 = q + 2
  BY <1>2
<1> QED BY <1>1, <1>2, <1>3 DEF AtChunk

(* An empty line where a chunk begins or ends.                             *)
LEMMA EmptyAtChunk ==
  ASSUME NEW s, Response(s), NEW t \in Nat, AtChunk(s, t), t + 1 \in CrLfAt(s)
  PROVE  t + 1 \in ChunkEnds(s, End(s))
<1>1. t + 1 # Len(s) + 1
  BY ResponseFacts
<1>2. t + 1 \notin ChunkStarts(s, End(s))
  BY DEF ChunkStarts, CrLfAt
<1> QED BY <1>1, <1>2 DEF AtChunk

(* The line up to r is the size of a chunk.                                *)
SizeLine(s, t, r) ==
  /\ s[t + 1].k = "size" /\ s[t + 1].v \in Nat
  /\ \A i \in t + 1 .. r + 1 : ~s[i].body
  /\ r + 2 + s[t + 1].v \in ChunkEnds(s, End(s))
  /\ \A i \in r + 2 .. r + 1 + s[t + 1].v : s[i].body

(* A chunk begins with its size.                                           *)
LEMMA ChunkHasSize ==
  ASSUME NEW s, Response(s), Chunked(s, End(s)), NEW t \in Nat, t + 1 \in ChunkStarts(s, End(s))
  PROVE  \E r \in Nat : NextEnd(s, t, r) /\ t + 1 < r /\ SizeLine(s, t, r)
<1>0. CrLfAt(s) \subseteq 1 .. Len(s) - 1 /\ Len(s) \in Nat
  BY ResponseFacts
<1>1. PICK p \in Nat : p = t + 1
  OBVIOUS
<1>2. IsChunk(s, End(s), p) /\ s[p].k = "size"
  BY <1>1 DEF Chunked, ChunkStarts
<1>3. PICK r \in CrLfAt(s) :
        /\ p < r /\ \A i \in CrLfAt(s) : i < p \/ r <= i
        /\ \A i \in p .. r + 1 : ~s[i].body
        /\ s[p].v \in Nat /\ r + 2 + s[p].v \in ChunkEnds(s, End(s))
        /\ \A i \in r + 2 .. r + 1 + s[p].v : s[i].body
  BY <1>2 DEF IsChunk
<1>4. r \in Nat
  BY <1>0
<1>5. ASSUME NEW i \in CrLfAt(s) PROVE i <= t \/ r <= i
  <2>1. i \in Nat
    BY <1>0
  <2> QED BY <1>1, <1>3, <2>1
<1>6. NextEnd(s, t, r) /\ t + 1 < r
  BY <1>1, <1>3, <1>4, <1>5 DEF NextEnd
<1>7. SizeLine(s, t, r)
  BY <1>1, <1>2, <1>3 DEF SizeLine
<1> QED BY <1>4, <1>6, <1>7

(* There is one next line end.                                             *)
LEMMA NextEndUnique ==
  ASSUME NEW s, NEW t \in Nat, NEW r \in Nat, NEW q \in Nat, NextEnd(s, t, r), NextEnd(s, t, q)
  PROVE  r = q
BY DEF NextEnd

(* A line that is not empty, where a chunk begins or ends, has a size.     *)
LEMMA LineAtChunk ==
  ASSUME NEW s, Response(s), Chunked(s, End(s)), NEW t \in Nat, AtChunk(s, t),
         NEW r \in Nat, NextEnd(s, t, r), t + 1 < r
  PROVE  SizeLine(s, t, r)
<1>0. CrLfAt(s) \subseteq 1 .. Len(s) - 1 /\ Len(s) \in Nat
  BY ResponseFacts
<1>1. t + 1 # Len(s) + 1
  BY <1>0 DEF NextEnd
<1>2. t + 1 \notin ChunkEnds(s, End(s))
  BY DEF ChunkEnds, NextEnd
<1>3. t + 1 \in ChunkStarts(s, End(s))
  BY <1>1, <1>2 DEF AtChunk
<1>4. PICK q \in Nat : NextEnd(s, t, q) /\ t + 1 < q /\ SizeLine(s, t, q)
  BY <1>3, ChunkHasSize
<1>5. r = q
  BY <1>4, NextEndUnique
<1> QED BY <1>4, <1>5

-----------------------------------------------------------------------------
(* The steps of the download, with s the response of which t bytes were    *)
(* taken out of the store.                                                 *)
Now(s, t) ==
  /\ url \in DOMAIN Site /\ headers \in Seq(Lines) /\ s = Site[url]
  /\ t \in 0 .. got /\ got = t + Len(data) /\ Holds(s, data, t) /\ file = BodyTo(s, t)

(* What was fetched, with the place in the response.                       *)
LEMMA FetchedNow ==
  ASSUME Fetched
  PROVE  \E s, t : Now(s, t) /\ Fetching(s, t)
BY DEF Fetched, Now

(* And back, after a step.                                                 *)
LEMMA NowFetched ==
  ASSUME NEW s, NEW t, Now(s, t)', Fetching(s, t)'
  PROVE  Fetched'
<1>1. t \in 0 .. got' /\ s = Site[url'] /\ url' \in DOMAIN Site /\ headers' \in Seq(Lines)
  BY DEF Now
<1>2. got' = t + Len(data') /\ Holds(Site[url'], data', t) /\ file' = BodyTo(Site[url'], t)
  BY DEF Now
<1>3. Fetching(Site[url], t)'
  BY <1>1 DEF Fetching, Headers, Broken, Responded, Chunks, AtChunk, InChunk, Plain
<1> QED BY <1>1, <1>2, <1>3 DEF Fetched

(* What is known at any place.                                             *)
LEMMA NowFacts ==
  ASSUME NEW s, NEW t, Now(s, t)
  PROVE  /\ Response(s) /\ Holds(s, data, t) /\ s = Site[url] /\ url \in DOMAIN Site
         /\ t \in Nat /\ got \in Nat /\ Len(data) \in Nat /\ Len(s) \in Nat
         /\ got = t + Len(data) /\ got <= Len(s) /\ data \in Seq(Tokens)
         /\ headers \in Seq(Lines) /\ file = BodyTo(s, t)
<1>1. Response(s)
  BY SiteFacts DEF Now, Response
<1>2. /\ s \in Seq(Tokens) /\ data \in Seq(Tokens) /\ t \in Nat /\ Len(data) \in Nat
      /\ Len(s) \in Nat /\ t + Len(data) <= Len(s)
  BY HoldsFacts DEF Now
<1>3. PICK l \in Nat : l = Len(data)
  BY <1>2
<1>4. got = t + l
  BY <1>3 DEF Now
<1>5. got \in Nat
  BY <1>2, <1>3, <1>4
<1> QED BY <1>1, <1>2, <1>5 DEF Now

(* br_sslio_read delivers bytes.                                           *)
LEMMA ReceiveStep ==
  ASSUME NEW s, NEW t, Now(s, t), NEW n \in Cuts, Receive(n), UNCHANGED <<headers, file>>
  PROVE  /\ Now(s, t)'
         /\ n \in Nat \ {0} /\ Len(data') = Len(data) + n /\ Len(data) \in Nat
         /\ (slow' => slow /\ n = 1) /\ (slow' /\ NoneEnds(data) => LastEnds(data'))
         /\ UNCHANGED <<url, chunk, result, ended, headers, file>> /\ ended = "open"
<1>0. /\ Holds(s, data, t) /\ s = Site[url] /\ url \in DOMAIN Site
      /\ t \in Nat /\ got \in Nat /\ Len(data) \in Nat /\ Len(s) \in Nat
      /\ got = t + Len(data) /\ headers \in Seq(Lines) /\ file = BodyTo(s, t)
  BY NowFacts
<1>1. n \in Nat \ {0}
  BY SiteAssumption
<1>2. /\ got + n <= Len(s) /\ data' = data \o SubSeq(s, got + 1, got + n) /\ got' = got + n
      /\ (slow' <=> slow /\ n = 1) /\ UNCHANGED <<url, chunk, result, ended>> /\ ended = "open"
  BY <1>0 DEF Receive
<1>3. /\ Holds(s, data', t) /\ Len(data') = Len(data) + n
      /\ n = 1 /\ NoneEnds(data) => LastEnds(data')
  <2>1. PICK m \in Nat \ {0}, g \in Nat : m = n /\ g = got
    BY <1>0, <1>1
  <2>2. Holds(s, data, t) /\ g = t + Len(data) /\ g + m <= Len(s) /\ data' = Delivered(s, data, g, m)
    BY <1>0, <1>2, <2>1 DEF Delivered
  <2>3. Holds(s, data', t) /\ Len(data') = Len(data) + m /\ (m = 1 /\ NoneEnds(data) => LastEnds(data'))
    BY <2>2, ReadHolds
  <2> QED BY <2>1, <2>3
<1>4. PICK l \in Nat : l = Len(data)
  BY <1>0
<1>5. got' = t + (l + n) /\ Len(data') = l + n /\ t \in 0 .. got'
  BY <1>0, <1>1, <1>2, <1>3, <1>4
<1>6. got' = t + Len(data')
  BY <1>5
<1>7. Now(s, t)'
  BY <1>0, <1>2, <1>3, <1>5, <1>6 DEF Now
<1> QED BY <1>0, <1>1, <1>2, <1>3, <1>7

(* remove_range takes out the first n bytes.                               *)
LEMMA RemoveStep ==
  ASSUME NEW s, NEW t, Now(s, t), NEW n \in Nat, n <= Len(data), data' = RemoveRange(data, n),
         UNCHANGED <<url, got>>, headers' \in Seq(Lines), file' = BodyTo(s, t + n)
  PROVE  /\ Now(s, t + n)' /\ (n = Len(data) => data' = <<>>)
         /\ (LastEnds(data) => LastEnds(data'))
<1>0. /\ Holds(s, data, t) /\ s = Site[url] /\ url \in DOMAIN Site
      /\ t \in Nat /\ got \in Nat /\ Len(data) \in Nat /\ got = t + Len(data)
  BY NowFacts
<1>1. /\ Holds(s, data', t + n) /\ Len(data') = Len(data) - n
      /\ (n = Len(data) => data' = <<>>) /\ (LastEnds(data) => LastEnds(data'))
  BY <1>0, RemoveHolds
<1>2. PICK l \in Nat : l = Len(data)
  BY <1>0
<1>3. t + n \in 0 .. got' /\ got' = (t + n) + (l - n) /\ Len(data') = l - n
  BY <1>0, <1>1, <1>2
<1>4. got' = (t + n) + Len(data')
  BY <1>3
<1>5. Now(s, t + n)'
  BY <1>0, <1>1, <1>3, <1>4 DEF Now
<1> QED BY <1>1, <1>5

(* No line ends in an empty store.                                         *)
LEMMA EmptyStore == NoneEnds(<<>>)
BY DEF NoneEnds, CrLfAt

(* The line that find_crlf finds.                                          *)
LEMMA FoundLine ==
  ASSUME NEW s, NEW t, Now(s, t), NEW f, f = FindCrlf(data), f # -1
  PROVE  /\ f \in Nat /\ f + 2 <= Len(data) /\ t + f + 1 \in Nat /\ NextEnd(s, t, t + f + 1)
         /\ (LastEnds(data) => f + 2 = Len(data))
<1>0. Holds(s, data, t) /\ t \in Nat /\ Len(data) \in Nat /\ data \in Seq(Tokens)
  BY NowFacts
<1>1. /\ f \in Nat /\ f + 2 <= Len(data) /\ t + f + 1 \in CrLfAt(s)
      /\ \A i \in CrLfAt(s) : i <= t \/ t + f + 1 <= i
  BY <1>0, LineFound
<1>2. t < t + f + 1 /\ t + f + 1 \in Nat
  BY <1>0, <1>1
<1>3. ASSUME LastEnds(data) PROVE f + 2 = Len(data)
  <2>1. ~NoneEnds(data)
    BY <1>0, FindFacts
  <2>2. f + 1 \in CrLfAt(data)
    BY <1>0, <2>1, FindFacts
  <2>3. f + 1 = Len(data) - 1
    BY <1>3, <2>2 DEF LastEnds
  <2> QED BY <1>0, <1>1, <2>3
<1> QED BY <1>1, <1>2, <1>3 DEF NextEnd

(* And when it finds none.                                                 *)
LEMMA FoundNone ==
  ASSUME NEW s, NEW t, Now(s, t), FindCrlf(data) = -1
  PROVE  NoneEnds(data)
<1>1. data \in Seq(Tokens)
  BY NowFacts
<1> QED BY <1>1, FindFacts

-----------------------------------------------------------------------------
(* A read, in the headers.                                                 *)
LEMMA HeadersReadStep ==
  ASSUME NEW s, NEW t, Now(s, t), Fetching(s, t), NEW n \in Cuts, HeadersRead(n)
  PROVE  Fetched'
<1>1. /\ Now(s, t)' /\ (slow' /\ NoneEnds(data) => LastEnds(data'))
      /\ UNCHANGED <<url, chunk, headers>> /\ pc = "headers" /\ pc' = "lines"
  BY ReceiveStep DEF HeadersRead
<1>2. chunk = NoChunk /\ Headers(s, t)
  BY <1>1 DEF Fetching
<1>3. Headers(s, t)'
  BY <1>1, <1>2 DEF Headers
<1>4. Fetching(s, t)'
  BY <1>1, <1>2, <1>3 DEF Fetching
<1> QED BY <1>1, <1>4, NowFetched

-----------------------------------------------------------------------------
(* The first bytes of the lines.                                           *)
LEMMA FirstsAppend ==
  ASSUME NEW h \in Seq(Lines), NEW x \in Lines
  PROVE  Append(h, x) \in Seq(Lines) /\ Firsts(Append(h, x)) = Firsts(h) \union {x[1]}
<1> DEFINE g == Append(h, x)
<1>1. PICK n \in Nat : n = Len(h)
  BY LenProperties
<1>2. /\ g \in Seq(Lines) /\ Len(g) = n + 1
      /\ \A i \in 1 .. n : g[i] = h[i]
      /\ g[n + 1] = x
  BY <1>1, AppendProperties
<1> HIDE DEF g
<1>3. DOMAIN h = 1 .. n /\ DOMAIN g = 1 .. n + 1
  BY <1>1, <1>2, LenProperties
<1>4. \A i \in 1 .. n : i \in 1 .. n + 1
  OBVIOUS
<1>5. \A i \in 1 .. n + 1 : i \in 1 .. n \/ i = n + 1
  OBVIOUS
<1>6. n + 1 \in 1 .. n + 1
  OBVIOUS
<1>7. ASSUME NEW y \in Firsts(g) PROVE y \in Firsts(h) \union {x[1]}
  BY <1>2, <1>3, <1>5 DEF Firsts
<1>8. ASSUME NEW y \in Firsts(h) \union {x[1]} PROVE y \in Firsts(g)
  <2>1. CASE y = x[1]
    BY <1>2, <1>3, <1>6, <2>1 DEF Firsts
  <2>2. CASE y \in Firsts(h)
    BY <1>2, <1>3, <1>4, <2>2 DEF Firsts
  <2> QED BY <2>1, <2>2
<1>9. Firsts(g) = Firsts(h) \union {x[1]}
  BY <1>7, <1>8
<1> QED BY <1>2, <1>9 DEF g

(* A line of the store that is not empty.                                  *)
LEMMA LineTaken ==
  ASSUME NEW s, NEW d, NEW t, Holds(s, d, t), NEW f \in Nat, 0 < f, f <= Len(d)
  PROVE  SubSeq(d, 1, f) \in Lines /\ SubSeq(d, 1, f)[1] = s[t + 1] /\ d[1] = s[t + 1]
<1>0. d \in Seq(Tokens) /\ Len(d) \in Nat
  BY HoldsFacts
<1>1. ASSUME NEW i \in 1 .. f PROVE d[i] \in Tokens
  <2>1. i \in 1 .. Len(d)
    BY <1>0
  <2> QED BY <1>0, <2>1, ElementOfSeq
<1>2. /\ SubSeq(d, 1, f) \in Seq(Tokens)
      /\ Len(SubSeq(d, 1, f)) = IF 1 <= f THEN f - 1 + 1 ELSE 0
      /\ \A i \in 1 .. f - 1 + 1 : SubSeq(d, 1, f)[i] = d[1 + i - 1]
  BY <1>1, SubSeqProperties
<1>3. 1 \in 1 .. f - 1 + 1 /\ 1 + 1 - 1 = 1 /\ 1 \in 1 .. Len(d)
  BY <1>0
<1>4. SubSeq(d, 1, f)[1] = d[1]
  BY <1>2, <1>3
<1>5. d[1] = s[t + 1]
  BY <1>3, HoldsFacts
<1>6. Len(SubSeq(d, 1, f)) # 0
  BY <1>2
<1>7. SubSeq(d, 1, f) # <<>>
  <2> SUFFICES ASSUME SubSeq(d, 1, f) = <<>> PROVE FALSE
    OBVIOUS
  <2>1. Len(<<>>) = 0
    OBVIOUS
  <2> QED BY <1>6, <2>1
<1> QED BY <1>2, <1>4, <1>5, <1>7 DEF Lines

(* A header line is taken out.                                             *)
LEMMA HeaderLineStep ==
  ASSUME NEW s, NEW t, Now(s, t), Fetching(s, t), HeaderLine
  PROVE  Fetched'
<1>0. /\ pc = "lines" /\ FindCrlf(data) > 0
      /\ headers' = Append(headers, SubSeq(data, 1, FindCrlf(data)))
      /\ data' = RemoveRange(data, FindCrlf(data) + 2)
      /\ UNCHANGED <<url, pc, chunk, file, result, got, ended, slow>>
  BY DEF HeaderLine
<1>1. /\ Response(s) /\ Holds(s, data, t) /\ t \in Nat /\ Len(data) \in Nat /\ headers \in Seq(Lines)
      /\ data \in Seq(Tokens) /\ file = BodyTo(s, t)
  BY NowFacts
<1>2. chunk = NoChunk /\ Headers(s, t)
  BY <1>0 DEF Fetching
<1>3. AtLine(s, t) /\ Firsts(headers) = Fields(s, t) /\ (slow => LastEnds(data))
  BY <1>0, <1>2 DEF Headers
<1>4. FindCrlf(data) # -1
  BY <1>0
<1>5. PICK f \in Nat :
        /\ f = FindCrlf(data) /\ f + 2 <= Len(data) /\ t + f + 1 \in Nat /\ NextEnd(s, t, t + f + 1)
        /\ 0 < f /\ f <= Len(data)
  BY <1>0, <1>1, <1>4, FoundLine
<1>6. PICK r \in Nat : r = t + f + 1 /\ NextEnd(s, t, r) /\ t + 1 < r /\ t + (f + 2) = r + 1
  BY <1>1, <1>5
<1>7. AtLine(s, r + 1) /\ Fields(s, r + 1) = Fields(s, t) \union {s[t + 1]}
  BY <1>1, <1>3, <1>6, HeaderNext, FieldsNext
<1>8. SubSeq(data, 1, f) \in Lines /\ SubSeq(data, 1, f)[1] = s[t + 1]
  BY <1>1, <1>5, LineTaken
<1>9. headers' \in Seq(Lines) /\ Firsts(headers') = Fields(s, r + 1)
  BY <1>0, <1>1, <1>3, <1>5, <1>7, <1>8, FirstsAppend
<1>10. BodyTo(s, t + (f + 2)) = BodyTo(s, t)
  <2>1. r + 1 < End(s) /\ End(s) \in Nat
    BY <1>1, <1>7, ResponseFacts DEF AtLine
  <2>2. t + (f + 2) <= End(s) + 1 /\ f + 2 \in Nat
    BY <1>6, <2>1
  <2> QED BY <1>1, <2>2, NoBodyYet
<1>11. Now(s, t + (f + 2))' /\ (LastEnds(data) => LastEnds(data'))
  <2>1. PICK n \in Nat : n = f + 2
    OBVIOUS
  <2>2. n <= Len(data) /\ data' = RemoveRange(data, n) /\ UNCHANGED <<url, got>> /\ file' = BodyTo(s, t + n)
    BY <1>0, <1>1, <1>5, <1>10, <2>1
  <2>3. Now(s, t + n)' /\ (LastEnds(data) => LastEnds(data'))
    BY <1>9, <2>2, RemoveStep
  <2> QED BY <2>1, <2>3
<1>12. Headers(s, r + 1)'
  BY <1>0, <1>3, <1>7, <1>9, <1>11 DEF Headers
<1>13. Fetching(s, r + 1)'
  BY <1>0, <1>2, <1>12 DEF Fetching
<1>14. Now(s, r + 1)'
  BY <1>6, <1>11
<1> QED BY <1>13, <1>14, NowFetched

(* There is no whole line yet.                                             *)
LEMMA NoLineStep ==
  ASSUME NEW s, NEW t, Now(s, t), Fetching(s, t), NoLine
  PROVE  Fetched'
<1>0. /\ pc = "lines" /\ FindCrlf(data) = -1 /\ pc' = "headers"
      /\ UNCHANGED <<url, data, headers, chunk, file, result, got, ended, slow>>
  BY DEF NoLine
<1>1. chunk = NoChunk /\ Headers(s, t) /\ NoneEnds(data)
  BY <1>0, FoundNone DEF Fetching
<1>2. Now(s, t)'
  BY <1>0 DEF Now
<1>3. Headers(s, t)'
  BY <1>0, <1>1 DEF Headers
<1>4. Fetching(s, t)'
  BY <1>0, <1>1, <1>3 DEF Fetching
<1> QED BY <1>2, <1>4, NowFetched

(* The empty line is taken out.                                            *)
LEMMA EmptyLineStep ==
  ASSUME NEW s, NEW t, Now(s, t), Fetching(s, t), EmptyLine
  PROVE  Fetched'
<1>0. /\ pc = "lines" /\ FindCrlf(data) = 0 /\ pc' = "respond"
      /\ data' = RemoveRange(data, 2)
      /\ UNCHANGED <<url, headers, chunk, file, result, got, ended, slow>>
  BY DEF EmptyLine
<1>1. /\ Response(s) /\ Holds(s, data, t) /\ t \in Nat /\ Len(data) \in Nat /\ headers \in Seq(Lines)
      /\ file = BodyTo(s, t)
  BY NowFacts
<1>2. chunk = NoChunk /\ Headers(s, t)
  BY <1>0 DEF Fetching
<1>3. AtLine(s, t) /\ Firsts(headers) = Fields(s, t) /\ (slow => LastEnds(data))
  BY <1>0, <1>2 DEF Headers
<1>4. PICK f \in Nat :
        /\ f = 0 /\ f + 2 <= Len(data) /\ NextEnd(s, t, t + f + 1) /\ (LastEnds(data) => f + 2 = Len(data))
  <2>1. 0 = FindCrlf(data) /\ 0 # -1
    BY <1>0
  <2> QED BY <2>1, FoundLine
<1>5. 2 <= Len(data) /\ t + 1 \in CrLfAt(s) /\ (LastEnds(data) => 2 = Len(data))
  <2>1. t + f + 1 = t + 1 /\ f + 2 = 2
    BY <1>1, <1>4
  <2> QED BY <1>4, <2>1 DEF NextEnd
<1>6. End(s) = t + 1
  BY <1>1, <1>3, <1>5, EmptyNext
<1>7. t + 2 = End(s) + 1 /\ t = End(s) - 1 /\ t + 2 <= End(s) + 1
  BY <1>1, <1>6
<1>8. BodyTo(s, t + 2) = BodyTo(s, t)
  BY <1>1, <1>7, NoBodyYet
<1>9. Now(s, t + 2)' /\ (2 = Len(data) => data' = <<>>)
  <2>1. headers' \in Seq(Lines) /\ UNCHANGED <<url, got>> /\ file' = BodyTo(s, t + 2)
    BY <1>0, <1>1, <1>8
  <2> QED BY <1>0, <1>5, <2>1, RemoveStep
<1>10. Responded(s, t + 2)'
  BY <1>0, <1>3, <1>5, <1>7, <1>9 DEF Responded
<1>11. Fetching(s, t + 2)'
  BY <1>0, <1>2, <1>10 DEF Fetching
<1> QED BY <1>9, <1>11, NowFetched

(* The connection ends in the headers.                                     *)
LEMMA HeadersEndStep ==
  ASSUME NEW s, NEW t, Now(s, t), Fetching(s, t), HeadersEnd
  PROVE  Fetched'
<1>0. /\ pc = "headers" /\ ended \in {"closed", "error"} /\ pc' = "respond"
      /\ UNCHANGED <<url, data, headers, chunk, file, result, got, ended, slow>>
  BY DEF HeadersEnd, ReadFails
<1>1. chunk = NoChunk /\ Headers(s, t)
  BY <1>0 DEF Fetching
<1>2. Now(s, t)'
  BY <1>0 DEF Now
<1>3. Broken(s, t)'
  BY <1>0, <1>1 DEF Headers, Broken
<1>4. Fetching(s, t)'
  BY <1>0, <1>1, <1>3 DEF Fetching
<1> QED BY <1>2, <1>4, NowFetched

-----------------------------------------------------------------------------
(* What the header lines say.                                              *)
(* A set of numbers up to n has a greatest one.                             *)
LEMMA GreatestMember ==
  ASSUME NEW n \in Nat, NEW V \in SUBSET (1 .. n), V # {}
  PROVE  \E i \in V : \A j \in V : j <= i
<1> DEFINE T == {n - i : i \in V}
<1>1. T \in SUBSET Nat /\ T # {}
  <2>1. ASSUME NEW i \in V PROVE n - i \in Nat
    <3>1. i \in 1 .. n
      OBVIOUS
    <3> QED BY <3>1
  <2> QED BY <2>1
<1>2. PICK m \in T : \A k \in T : m <= k
  <2> HIDE DEF T
  <2> QED BY <1>1, LeastMember
<1>3. PICK i \in V : m = n - i
  BY <1>2
<1>4. ASSUME NEW j \in V PROVE j <= i
  <2>1. m <= n - j
    BY <1>2
  <2> QED BY <1>3, <2>1
<1> QED BY <1>4

(* The value used is that of a line of its kind.                           *)
LEMMA LastValueFacts ==
  ASSUME NEW h \in Seq(Lines), NEW kind, NEW default, Values(h, kind) # {}
  PROVE  \E x \in Firsts(h) : x.k = kind /\ LastValue(h, kind, default) = x.v
<1> DEFINE V == Values(h, kind)
           i == CHOOSE i \in V : \A j \in V : j <= i
<1>1. V \subseteq DOMAIN h /\ \A j \in V : h[j][1].k = kind
  BY DEF Values
<1>2. V # {}
  OBVIOUS
<1>3. LastValue(h, kind, default) = h[i][1].v
  BY DEF LastValue
<1> HIDE DEF V
<1>4. PICK n \in Nat : DOMAIN h = 1 .. n
  BY LenProperties
<1>5. \E j \in V : \A k \in V : k <= j
  BY <1>1, <1>2, <1>4, GreatestMember
<1>6. i \in V
  BY <1>5
<1> HIDE DEF i
<1>7. h[i][1] \in Firsts(h) /\ h[i][1].k = kind
  BY <1>1, <1>6 DEF Firsts
<1> QED BY <1>3, <1>7

(* A field has been read if and only if the response has it.               *)
LEMMA FieldRead ==
  ASSUME NEW s, Response(s), NEW h, Firsts(h) = Fields(s, End(s) - 1), NEW kind
  PROVE  HasField(s, End(s), kind) <=> Values(h, kind) # {}
<1>1. End(s) \in Nat /\ LineStarts(s) \subseteq Nat
  BY ResponseFacts
<1>2. ASSUME NEW i \in LineStarts(s), i < End(s), s[i].k = kind PROVE Values(h, kind) # {}
  <2>1. i <= End(s) - 1
    BY <1>1, <1>2
  <2>2. s[i] \in Firsts(h)
    BY <2>1 DEF Fields
  <2>3. PICK j \in DOMAIN h : s[i] = h[j][1]
    BY <2>2 DEF Firsts
  <2>4. j \in Values(h, kind)
    BY <1>2, <2>3 DEF Values
  <2> QED BY <2>4
<1>3. ASSUME NEW j \in Values(h, kind) PROVE HasField(s, End(s), kind)
  <2>1. j \in DOMAIN h /\ h[j][1].k = kind
    BY DEF Values
  <2>2. h[j][1] \in Fields(s, End(s) - 1)
    BY <2>1 DEF Firsts
  <2>3. PICK i \in LineStarts(s) : i <= End(s) - 1 /\ h[j][1] = s[i]
    BY <2>2 DEF Fields
  <2>4. i < End(s)
    BY <1>1, <2>3
  <2> QED BY <2>1, <2>3, <2>4 DEF HasField
<1> QED BY <1>2, <1>3 DEF HasField

(* A line is one of the response.                                          *)
LEMMA FieldFacts ==
  ASSUME NEW s, Response(s), NEW n \in Nat, n < End(s), NEW x \in Fields(s, n)
  PROVE  x \in Tokens /\ (x.k = "length" => x.v \in Nat)
<1>1. PICK i \in LineStarts(s) : i <= n /\ x = s[i]
  BY DEF Fields
<1>2. i # 0
  BY DEF LineStarts, CrLfAt
<1>3. LineStarts(s) \subseteq Nat /\ Len(s) \in Nat /\ End(s) \in 1 .. Len(s) - 1
  BY ResponseFacts
<1>4. i \in 1 .. End(s) + 1 /\ i \in 1 .. Len(s)
  BY <1>1, <1>2, <1>3
<1> QED BY <1>1, <1>4, ResponseFacts

(* What the lines begin with are bytes of a response.                      *)
LEMMA FirstsTokens ==
  ASSUME NEW h \in Seq(Lines), NEW x \in Firsts(h)
  PROVE  x \in Tokens
<1>1. PICK j \in DOMAIN h : x = h[j][1]
  BY DEF Firsts
<1>2. PICK n \in Nat : n = Len(h) /\ DOMAIN h = 1 .. n
  BY LenProperties
<1>3. h[j] \in Lines
  BY <1>2, ElementOfSeq
<1>4. PICK l \in Seq(Tokens) : l = h[j] /\ l # <<>>
  BY <1>3 DEF Lines
<1>5. Len(l) \in Nat /\ Len(l) # 0
  BY <1>4, EmptySeq, LenProperties
<1>6. 1 \in 1 .. Len(l)
  BY <1>5
<1> QED BY <1>1, <1>4, <1>6, ElementOfSeq

(* A redirection is to what is answered.                                   *)
LEMMA TokenLocation ==
  ASSUME NEW x \in Tokens, x.k = "location"
  PROVE  x.v \in DOMAIN Site
<1>1. PICK u \in DOMAIN Site : \E i \in DOMAIN Site[u] : x = Site[u][i]
  BY DEF Tokens
<1> QED BY <1>1, SiteAssumption

(* When it responds, the headers are at most all of those of the response, *)
(* and nothing of the body was taken.                                      *)
LEMMA RespondFacts ==
  ASSUME NEW s, NEW t, Now(s, t), Fetching(s, t), pc = "respond"
  PROVE  /\ chunk = NoChunk /\ file = <<>> /\ (Broken(s, t) \/ Responded(s, t))
<1>0. Response(s) /\ t \in Nat /\ file = BodyTo(s, t)
  BY NowFacts
<1>1. chunk = NoChunk /\ (Broken(s, t) \/ Responded(s, t))
  BY DEF Fetching
<1>2. t + 0 <= End(s) + 1
  <2>1. End(s) \in Nat
    BY <1>0, ResponseFacts
  <2> QED BY <1>0, <1>1, <2>1 DEF Broken, Responded, AtLine
<1>3. BodyTo(s, t) = <<>>
  BY <1>0, <1>2, NoBodyYet
<1> QED BY <1>0, <1>1, <1>3

(* A download that starts has read nothing.                                *)
FreshStart(s) ==
  /\ url \in DOMAIN Site /\ s = Site[url] /\ pc = "headers" /\ data = <<>> /\ headers = <<>>
  /\ chunk = NoChunk /\ file = <<>> /\ got = 0

(* It has fetched what it should.                                          *)
LEMMA FreshFetched ==
  ASSUME NEW s, FreshStart(s)'
  PROVE  Fetched'
<1>0. /\ url' \in DOMAIN Site /\ s = Site[url'] /\ pc' = "headers" /\ data' = <<>> /\ headers' = <<>>
      /\ chunk' = NoChunk /\ file' = <<>> /\ got' = 0
  BY DEF FreshStart
<1>1. Response(s)
  BY <1>0, SiteFacts DEF Response
<1>2. s \in Seq(Tokens) /\ Len(s) \in Nat /\ End(s) \in Nat /\ 0 < End(s) /\ LineStarts(s) \subseteq Nat
  BY <1>1, ResponseFacts
<1>3. Holds(s, <<>>, 0)
  <2>1. Len(<<>>) = 0 /\ <<>> \in Seq(Tokens) /\ 0 + 0 <= Len(s)
    BY <1>2
  <2>2. \A i \in 1 .. 0 : <<>>[i] = s[0 + i]
    OBVIOUS
  <2> QED BY <1>2, <2>1, <2>2 DEF Holds
<1>4. Now(s, 0)'
  <2>1. Len(<<>>) = 0 /\ <<>> \in Seq(Lines) /\ 0 \in 0 .. 0 /\ BodyTo(s, 0) = <<>>
    BY BodyToDef
  <2> QED BY <1>0, <1>3, <2>1 DEF Now
<1>5. AtLine(s, 0)
  BY <1>2 DEF AtLine, LineStarts
<1>6. Fields(s, 0) = {} /\ Firsts(<<>>) = {}
  <2>1. ASSUME NEW i \in LineStarts(s), i <= 0 PROVE FALSE
    <3>1. i # 0
      BY DEF LineStarts, CrLfAt
    <3> QED BY <1>2, <2>1, <3>1
  <2>2. Fields(s, 0) = {}
    BY <2>1 DEF Fields
  <2>3. DOMAIN <<>> = {}
    OBVIOUS
  <2> QED BY <2>2, <2>3 DEF Firsts
<1>7. Headers(s, 0)'
  BY <1>0, <1>5, <1>6, EmptyStore DEF Headers
<1>8. Fetching(s, 0)'
  BY <1>0, <1>7 DEF Fetching
<1> QED BY <1>4, <1>8, NowFetched

(* A redirection starts again.                                             *)
LEMMA RedirectStep ==
  ASSUME NEW s, NEW t, Now(s, t), Fetching(s, t), Redirect
  PROVE  Fetched'
<1>0. /\ pc = "respond" /\ Values(headers, "location") # {}
      /\ url' = LastValue(headers, "location", url)
      /\ pc' = "headers" /\ data' = <<>> /\ headers' = <<>> /\ got' = 0 /\ ended' = "open"
      /\ UNCHANGED <<chunk, file, result, slow>>
  BY DEF Redirect
<1>1. headers \in Seq(Lines) /\ chunk = NoChunk /\ file = <<>>
  BY <1>0, NowFacts, RespondFacts
<1>2. url' \in DOMAIN Site
  <2>1. PICK x \in Firsts(headers) : x.k = "location" /\ url' = x.v
    BY <1>0, <1>1, LastValueFacts
  <2>2. x \in Tokens
    BY <1>1, FirstsTokens
  <2> QED BY <2>1, <2>2, TokenLocation
<1>3. PICK q : q = Site[url']
  OBVIOUS
<1>4. FreshStart(q)'
  BY <1>0, <1>1, <1>2, <1>3 DEF FreshStart
<1> QED BY <1>2, <1>4, FreshFetched

(* Where the headers end, the body starts.                                 *)
LEMMA StartBodyStep ==
  ASSUME NEW s, NEW t, Now(s, t), Fetching(s, t), StartBody
  PROVE  Fetched'
<1>0. /\ pc = "respond" /\ Values(headers, "location") = {}
      /\ pc' = IF LastValue(headers, "length", -1) < 0 THEN "chunks" ELSE "plain"
      /\ UNCHANGED <<url, data, headers, chunk, file, result, got, ended, slow>>
  BY DEF StartBody
<1>1. /\ Response(s) /\ t \in Nat /\ headers \in Seq(Lines) /\ chunk = NoChunk
      /\ (Broken(s, t) \/ Responded(s, t))
  BY <1>0, NowFacts, RespondFacts
<1>2. Now(s, t)'
  BY <1>0 DEF Now
<1>3. CASE Broken(s, t)
  <2>1. Broken(s, t)'
    BY <1>0, <1>3 DEF Broken
  <2>2. Fetching(s, t)'
    BY <1>0, <2>1 DEF Fetching
  <2> QED BY <1>2, <2>2, NowFetched
<1>4. CASE Responded(s, t)
  <2>1. /\ t = End(s) + 1 /\ Firsts(headers) = Fields(s, End(s) - 1)
        /\ (slow => data = <<>>)
    BY <1>4 DEF Responded
  <2>2. HasField(s, End(s), "location") <=> Values(headers, "location") # {}
    BY <1>1, <2>1, FieldRead
  <2>3. HasField(s, End(s), "length") <=> Values(headers, "length") # {}
    BY <1>1, <2>1, FieldRead
  <2>4. IF HasField(s, End(s), "length") THEN Whole(s, End(s)) ELSE Chunked(s, End(s))
    BY <1>0, <1>1, <2>2 DEF Response, IsResponse
  <2>5. End(s) \in Nat /\ End(s) < t /\ End(s) - 1 \in Nat /\ End(s) - 1 < End(s) /\ t + 1 = End(s) + 2
    BY <1>1, <2>1, ResponseFacts
  <2>6. CASE Values(headers, "length") = {}
    <3>1. LastValue(headers, "length", -1) = -1
      BY <2>6 DEF LastValue
    <3>2. pc' = "chunks"
      BY <1>0, <3>1
    <3>3. Chunked(s, End(s))
      BY <2>3, <2>4, <2>6
    <3>4. AtChunk(s, t)
      BY <2>5, <3>3 DEF Chunked, AtChunk
    <3>5. slow => NoneEnds(data)
      BY <2>1, EmptyStore
    <3>6. Chunks(s, t)'
      BY <1>0, <1>1, <3>2, <3>3, <3>4, <3>5 DEF Chunks, NoChunk
    <3>7. Fetching(s, t)'
      BY <3>2, <3>6 DEF Fetching
    <3> QED BY <1>2, <3>7, NowFetched
  <2>7. CASE Values(headers, "length") # {}
    <3>1. PICK x \in Firsts(headers) : x.k = "length" /\ LastValue(headers, "length", -1) = x.v
      BY <1>1, <2>7, LastValueFacts
    <3>2. x.v \in Nat
      BY <1>1, <2>1, <2>5, <3>1, FieldFacts
    <3>3. pc' = "plain"
      BY <1>0, <3>1, <3>2
    <3>4. Plain(s, t)'
      BY <1>0, <2>1, <2>3, <2>4, <2>5, <2>7 DEF Plain
    <3>5. Fetching(s, t)'
      BY <3>3, <3>4 DEF Fetching
    <3> QED BY <1>2, <3>5, NowFetched
  <2> QED BY <2>6, <2>7
<1> QED BY <1>1, <1>3, <1>4

-----------------------------------------------------------------------------
(* The body.                                                               *)

(* While the connection is open, the headers were complete.                *)
LEMMA InChunks ==
  ASSUME NEW s, NEW t, Fetching(s, t), pc \in {"chunks", "chunkLine", "chunkData"},
         pc = "chunks" => ended = "open"
  PROVE  Chunks(s, t)
BY DEF Fetching, Broken

(* A read, where the body comes in chunks.                                 *)
LEMMA ChunkReadStep ==
  ASSUME NEW s, NEW t, Now(s, t), Fetching(s, t), NEW n \in Cuts, ChunkRead(n)
  PROVE  Fetched'
<1>1. /\ Now(s, t)' /\ n \in Nat \ {0} /\ Len(data') = Len(data) + n /\ Len(data) \in Nat
      /\ (slow' => slow /\ n = 1) /\ (slow' /\ NoneEnds(data) => LastEnds(data'))
      /\ UNCHANGED <<url, chunk, headers>> /\ ended = "open"
      /\ pc = "chunks" /\ pc' = IF chunk.looking THEN "chunkLine" ELSE "chunkData"
  BY ReceiveStep DEF ChunkRead
<1>2. Chunks(s, t)
  BY <1>1, InChunks
<1>3. CASE chunk.looking
  <2>1. pc' = "chunkLine" /\ chunk'.looking
    BY <1>1, <1>3
  <2>2. slow' => LastEnds(data')
    BY <1>1, <1>2, <1>3 DEF Chunks
  <2>3. Chunked(s, End(s)) /\ AtChunk(s, t) /\ DOMAIN chunk = DOMAIN NoChunk
    BY <1>2, <1>3 DEF Chunks
  <2>4. Chunks(s, t)'
    BY <1>1, <2>1, <2>2, <2>3 DEF Chunks
  <2>5. Fetching(s, t)'
    BY <2>1, <2>4 DEF Fetching
  <2> QED BY <1>1, <2>5, NowFetched
<1>4. CASE ~chunk.looking
  <2>1. pc' = "chunkData" /\ chunk' = chunk
    BY <1>1, <1>4
  <2>2. /\ Chunked(s, End(s)) /\ InChunk(s, t) /\ DOMAIN chunk = DOMAIN NoChunk
        /\ (slow => Len(data) < chunk.size)
    BY <1>1, <1>2, <1>4 DEF Chunks
  <2>3. slow' => Len(data') <= chunk.size
    <3>1. chunk.size \in Nat
      BY <2>2 DEF InChunk
    <3> QED BY <1>1, <2>2, <3>1
  <2>4. InChunk(s, t)'
    BY <2>1, <2>2 DEF InChunk
  <2>5. Chunks(s, t)'
    BY <1>4, <2>1, <2>2, <2>3, <2>4 DEF Chunks
  <2>6. Fetching(s, t)'
    BY <2>1, <2>5 DEF Fetching
  <2> QED BY <1>1, <2>6, NowFetched
<1> QED BY <1>3, <1>4

(* There is no whole line yet.                                             *)
LEMMA NoChunkLineStep ==
  ASSUME NEW s, NEW t, Now(s, t), Fetching(s, t), NoChunkLine
  PROVE  Fetched'
<1>0. /\ pc = "chunkLine" /\ FindCrlf(data) = -1 /\ pc' = "chunks"
      /\ UNCHANGED <<url, data, headers, chunk, file, result, got, ended, slow>>
  BY DEF NoChunkLine
<1>1. NoneEnds(data) /\ Chunks(s, t)
  BY <1>0, FoundNone, InChunks
<1>2. Now(s, t)'
  BY <1>0 DEF Now
<1>3. Chunked(s, End(s)) /\ chunk.looking /\ AtChunk(s, t) /\ DOMAIN chunk = DOMAIN NoChunk
  BY <1>0, <1>1 DEF Chunks
<1>4. Chunks(s, t)'
  BY <1>0, <1>1, <1>3 DEF Chunks
<1>5. Fetching(s, t)'
  BY <1>0, <1>4 DEF Fetching
<1> QED BY <1>2, <1>5, NowFetched

(* The line that ends a chunk.                                             *)
LEMMA ChunkEndStep ==
  ASSUME NEW s, NEW t, Now(s, t), Fetching(s, t), ChunkLine, FindCrlf(data) = 0
  PROVE  Fetched'
<1>0. /\ pc = "chunkLine" /\ data' = RemoveRange(data, 2) /\ pc' = "chunks"
      /\ UNCHANGED <<chunk, url, headers, file, result, got, ended, slow>>
  BY DEF ChunkLine
<1>1. /\ Response(s) /\ t \in Nat /\ Len(data) \in Nat /\ headers \in Seq(Lines) /\ file = BodyTo(s, t)
  BY NowFacts
<1>2. Chunks(s, t)
  BY <1>0, InChunks
<1>3. /\ Chunked(s, End(s)) /\ chunk.looking /\ AtChunk(s, t) /\ DOMAIN chunk = DOMAIN NoChunk
      /\ (slow => LastEnds(data))
  BY <1>0, <1>2 DEF Chunks
<1>4. PICK f \in Nat :
        /\ f = 0 /\ f + 2 <= Len(data) /\ NextEnd(s, t, t + f + 1) /\ (LastEnds(data) => f + 2 = Len(data))
  <2>1. 0 = FindCrlf(data) /\ 0 # -1
    OBVIOUS
  <2> QED BY <2>1, FoundLine
<1>5. 2 <= Len(data) /\ t + 1 \in CrLfAt(s) /\ (LastEnds(data) => 2 = Len(data))
  <2>1. t + f + 1 = t + 1 /\ f + 2 = 2
    BY <1>1, <1>4
  <2> QED BY <1>4, <2>1 DEF NextEnd
<1>6. t + 1 \in ChunkEnds(s, End(s))
  BY <1>1, <1>3, <1>5, EmptyAtChunk
<1>7. ~s[t + 1].body /\ ~s[t + 2].body /\ AtChunk(s, t + 2)
  <2>1. PICK q \in Nat : q = t + 1 /\ q + 1 = t + 2
    BY <1>1
  <2> QED BY <1>1, <1>6, <2>1, ChunkEndFacts
<1>8. BodyTo(s, t + 2) = BodyTo(s, t)
  <2>1. \A i \in t + 1 .. t + 2 : i = t + 1 \/ i = t + 2
    BY <1>1
  <2>2. \A i \in t + 1 .. t + 2 : ~s[i].body
    BY <1>7, <2>1
  <2> QED BY <1>1, <2>2, BodySkip
<1>9. Now(s, t + 2)' /\ (2 = Len(data) => data' = <<>>)
  <2>1. headers' \in Seq(Lines) /\ UNCHANGED <<url, got>> /\ file' = BodyTo(s, t + 2)
    BY <1>0, <1>1, <1>8
  <2> QED BY <1>0, <1>5, <2>1, RemoveStep
<1>10. slow => NoneEnds(data')
  BY <1>3, <1>5, <1>9, EmptyStore
<1>11. Chunks(s, t + 2)'
  BY <1>0, <1>3, <1>7, <1>10 DEF Chunks
<1>12. Fetching(s, t + 2)'
  BY <1>0, <1>11 DEF Fetching
<1> QED BY <1>9, <1>12, NowFetched

(* The line that begins one.                                               *)
LEMMA ChunkSizeStep ==
  ASSUME NEW s, NEW t, Now(s, t), Fetching(s, t), ChunkLine, FindCrlf(data) # 0
  PROVE  Fetched'
<1>0. /\ pc = "chunkLine" /\ FindCrlf(data) >= 0 /\ data' = RemoveRange(data, FindCrlf(data) + 2)
      /\ pc' = "chunkData"
      /\ chunk' = [size |-> IF data[1].k = "size" THEN data[1].v ELSE -1, looking |-> FALSE]
      /\ UNCHANGED <<url, headers, file, result, got, ended, slow>>
  BY DEF ChunkLine
<1>1. /\ Response(s) /\ Holds(s, data, t) /\ t \in Nat /\ Len(data) \in Nat
      /\ headers \in Seq(Lines) /\ file = BodyTo(s, t)
  BY NowFacts
<1>2. Chunks(s, t)
  BY <1>0, InChunks
<1>3. Chunked(s, End(s)) /\ AtChunk(s, t) /\ (slow => LastEnds(data))
  BY <1>0, <1>2 DEF Chunks
<1>4. FindCrlf(data) # -1
  BY <1>0
<1>5. PICK f \in Nat :
        /\ f = FindCrlf(data) /\ f + 2 <= Len(data) /\ t + f + 1 \in Nat /\ NextEnd(s, t, t + f + 1)
        /\ 0 < f /\ f <= Len(data) /\ (LastEnds(data) => f + 2 = Len(data))
  BY <1>0, <1>1, <1>4, FoundLine
<1>6. PICK r \in Nat : r = t + f + 1 /\ NextEnd(s, t, r) /\ t + 1 < r /\ t + (f + 2) = r + 1
  BY <1>1, <1>5
<1>7. SizeLine(s, t, r)
  BY <1>1, <1>3, <1>6, LineAtChunk
<1>8. data[1] = s[t + 1]
  BY <1>1, <1>5, LineTaken
<1>9. PICK v \in Nat : v = s[t + 1].v /\ chunk' = [size |-> v, looking |-> FALSE]
  BY <1>0, <1>7, <1>8 DEF SizeLine
<1>10. InChunk(s, r + 1)'
  <2>1. (r + 1) + v + 1 = r + 2 + v /\ (r + 1) + 1 = r + 2 /\ (r + 1) + v = r + 1 + v
    OBVIOUS
  <2>2. r + 2 + v \in ChunkEnds(s, End(s)) /\ \A i \in r + 2 .. r + 1 + v : s[i].body
    BY <1>7, <1>9 DEF SizeLine
  <2>3. chunk'.size = v
    BY <1>9
  <2> QED BY <2>1, <2>2, <2>3 DEF InChunk
<1>11. BodyTo(s, t + (f + 2)) = BodyTo(s, t)
  <2>1. PICK n \in Nat : n = f + 2
    OBVIOUS
  <2>2. \A i \in t + 1 .. t + n : ~s[i].body
    BY <1>6, <1>7, <2>1 DEF SizeLine
  <2>3. BodyTo(s, t + n) = BodyTo(s, t)
    BY <1>1, <2>2, BodySkip
  <2> QED BY <2>1, <2>3
<1>12. Now(s, t + (f + 2))' /\ (f + 2 = Len(data) => data' = <<>>)
  <2>1. PICK n \in Nat : n = f + 2
    OBVIOUS
  <2>2. /\ n <= Len(data) /\ data' = RemoveRange(data, n) /\ UNCHANGED <<url, got>>
        /\ file' = BodyTo(s, t + n) /\ headers' \in Seq(Lines)
    BY <1>0, <1>1, <1>5, <1>11, <2>1
  <2>3. Now(s, t + n)' /\ (n = Len(data) => data' = <<>>)
    BY <2>2, RemoveStep
  <2> QED BY <2>1, <2>3
<1>13. slow => Len(data') <= v
  <2> SUFFICES ASSUME slow PROVE Len(data') <= v
    OBVIOUS
  <2>1. data' = <<>>
    BY <1>3, <1>5, <1>12
  <2>2. Len(data') = 0
    BY <2>1
  <2> QED BY <2>2
<1>14. Chunks(s, r + 1)'
  <2>1. chunk'.size = v /\ chunk'.looking = FALSE /\ DOMAIN chunk' = DOMAIN NoChunk
    BY <1>9 DEF NoChunk
  <2> QED BY <1>0, <1>3, <1>10, <1>13, <2>1 DEF Chunks
<1>15. Fetching(s, r + 1)'
  BY <1>0, <1>14 DEF Fetching
<1>16. Now(s, r + 1)'
  BY <1>6, <1>12
<1> QED BY <1>15, <1>16, NowFetched

(* The chunk is not there yet.                                             *)
LEMMA ChunkWaitStep ==
  ASSUME NEW s, NEW t, Now(s, t), Fetching(s, t), ChunkWait
  PROVE  Fetched'
<1>0. /\ pc = "chunkData" /\ Incomplete /\ pc' = "chunks"
      /\ UNCHANGED <<url, data, headers, chunk, file, result, got, ended, slow>>
  BY DEF ChunkWait
<1>1. Chunks(s, t) /\ Len(data) \in Nat
  BY <1>0, InChunks, NowFacts
<1>2. Chunked(s, End(s)) /\ ~chunk.looking /\ InChunk(s, t) /\ DOMAIN chunk = DOMAIN NoChunk
  BY <1>0, <1>1 DEF Chunks
<1>3. Len(data) < chunk.size
  <2>1. chunk.size \in Nat
    BY <1>2 DEF InChunk
  <2> QED BY <1>0, <1>1, <2>1 DEF Incomplete, BytesToGet
<1>4. Now(s, t)'
  BY <1>0 DEF Now
<1>5. InChunk(s, t)'
  BY <1>0, <1>2 DEF InChunk
<1>6. Chunks(s, t)'
  BY <1>0, <1>2, <1>3, <1>5 DEF Chunks
<1>7. Fetching(s, t)'
  BY <1>0, <1>6 DEF Fetching
<1> QED BY <1>4, <1>7, NowFetched

(* A whole chunk is written.                                               *)
LEMMA ChunkDataStep ==
  ASSUME NEW s, NEW t, Now(s, t), Fetching(s, t), ChunkData
  PROVE  Fetched'
<1>0. /\ pc = "chunkData" /\ ~Incomplete /\ pc' = "chunks"
      /\ file' = file \o SubSeq(data, 1, BytesToGet) /\ data' = RemoveRange(data, BytesToGet)
      /\ chunk' = [chunk EXCEPT !.looking = TRUE]
      /\ UNCHANGED <<url, headers, result, got, ended, slow>>
  BY DEF ChunkData
<1>1. /\ Response(s) /\ Holds(s, data, t) /\ t \in Nat /\ Len(data) \in Nat
      /\ headers \in Seq(Lines) /\ data \in Seq(Tokens) /\ file = BodyTo(s, t) /\ Chunks(s, t)
  BY <1>0, InChunks, NowFacts
<1>2. /\ Chunked(s, End(s)) /\ ~chunk.looking /\ InChunk(s, t) /\ DOMAIN chunk = DOMAIN NoChunk
      /\ (slow => Len(data) <= chunk.size)
  BY <1>0, <1>1 DEF Chunks
<1>3. PICK n \in Nat : n = chunk.size
  BY <1>2 DEF InChunk
<1>4. BytesToGet = n /\ n <= Len(data)
  BY <1>0, <1>1, <1>3 DEF Incomplete, BytesToGet
<1>5. t + n + 1 \in ChunkEnds(s, End(s)) /\ \A i \in t + 1 .. t + n : s[i].body
  BY <1>2, <1>3 DEF InChunk
<1>6. BodyTo(s, t + n) = BodyTo(s, t) \o SubSeq(data, 1, n)
  <2>1. PICK a \in Nat, d \in Seq(Tokens) : a = t /\ d = data
    BY <1>1
  <2>2. Holds(s, d, a) /\ n <= Len(d) /\ \A i \in a + 1 .. a + n : s[i].body
    BY <1>1, <1>4, <1>5, <2>1
  <2>3. BodyTo(s, a + n) = BodyTo(s, a) \o SubSeq(d, 1, n)
    BY <2>2, BodyTake
  <2> QED BY <2>1, <2>3
<1>7. Now(s, t + n)' /\ (n = Len(data) => data' = <<>>)
  <2>1. /\ data' = RemoveRange(data, n) /\ UNCHANGED <<url, got>>
        /\ headers' \in Seq(Lines) /\ file' = BodyTo(s, t + n)
    BY <1>0, <1>1, <1>4, <1>6
  <2> QED BY <1>4, <2>1, RemoveStep
<1>8. slow => NoneEnds(data')
  <2>1. slow => n = Len(data)
    BY <1>1, <1>2, <1>3, <1>4
  <2> QED BY <1>7, <2>1, EmptyStore
<1>9. chunk'.looking = TRUE /\ DOMAIN chunk' = DOMAIN NoChunk
  <2>1. DOMAIN chunk = {"size", "looking"}
    BY <1>2 DEF NoChunk
  <2> QED BY <1>0, <1>2, <2>1
<1>10. AtChunk(s, t + n)
  BY <1>5 DEF AtChunk
<1>11. Chunks(s, t + n)'
  BY <1>0, <1>2, <1>8, <1>9, <1>10 DEF Chunks
<1>12. Fetching(s, t + n)'
  BY <1>0, <1>11 DEF Fetching
<1> QED BY <1>7, <1>12, NowFetched

-----------------------------------------------------------------------------
(* A read, where the body is not chunked.                                  *)
LEMMA PlainReadStep ==
  ASSUME NEW s, NEW t, Now(s, t), Fetching(s, t), NEW n \in Cuts, PlainRead(n)
  PROVE  Fetched'
<1>1. Now(s, t)' /\ ended = "open" /\ pc = "plain" /\ pc' = "write"
  BY ReceiveStep DEF PlainRead
<1>2. Plain(s, t)
  BY <1>1 DEF Fetching, Broken
<1>3. Plain(s, t)'
  BY <1>1, <1>2 DEF Plain
<1>4. Fetching(s, t)'
  BY <1>1, <1>3 DEF Fetching
<1> QED BY <1>1, <1>4, NowFetched

(* What was read is written.                                               *)
LEMMA PlainWriteStep ==
  ASSUME NEW s, NEW t, Now(s, t), Fetching(s, t), PlainWrite
  PROVE  Fetched'
<1>0. /\ pc = "write" /\ pc' = "plain" /\ file' = file \o data /\ data' = <<>>
      /\ UNCHANGED <<url, headers, chunk, result, got, ended, slow>>
  BY DEF PlainWrite
<1>1. /\ Response(s) /\ Holds(s, data, t) /\ t \in Nat /\ Len(data) \in Nat /\ Len(s) \in Nat
      /\ headers \in Seq(Lines) /\ file = BodyTo(s, t) /\ data \in Seq(Tokens)
      /\ got = t + Len(data) /\ got <= Len(s)
  BY NowFacts
<1>2. Whole(s, End(s)) /\ End(s) < t /\ End(s) \in Nat
  BY <1>0, <1>1, ResponseFacts DEF Fetching, Plain
<1>3. PICK n \in Nat : n = Len(data)
  BY <1>1
<1>4. \A i \in t + 1 .. t + n : s[i].body
  <2>1. ASSUME NEW i \in t + 1 .. t + n PROVE i \in End(s) + 2 .. Len(s)
    BY <1>1, <1>2, <1>3
  <2> QED BY <1>2, <2>1 DEF Whole
<1>5. BodyTo(s, t + n) = BodyTo(s, t) \o SubSeq(data, 1, n)
  <2>1. PICK a \in Nat, d \in Seq(Tokens) : a = t /\ d = data
    BY <1>1
  <2>2. Holds(s, d, a) /\ n <= Len(d) /\ \A i \in a + 1 .. a + n : s[i].body
    BY <1>1, <1>3, <1>4, <2>1
  <2>3. BodyTo(s, a + n) = BodyTo(s, a) \o SubSeq(d, 1, n)
    BY <2>2, BodyTake
  <2> QED BY <2>1, <2>3
<1>6. SubSeq(data, 1, n) = data
  BY <1>1, <1>3, SubSeqFull
<1>7. data' = RemoveRange(data, n)
  <2>1. PICK e : e = RemoveRange(data, n)
    OBVIOUS
  <2>2. e = <<>>
    BY <1>1, <1>3, <2>1, RemoveHolds
  <2> QED BY <1>0, <2>1, <2>2
<1>8. Now(s, t + n)'
  <2>1. UNCHANGED <<url, got>> /\ headers' \in Seq(Lines) /\ n <= Len(data)
    BY <1>0, <1>1, <1>3
  <2>2. file' = BodyTo(s, t + n)
    BY <1>0, <1>1, <1>5, <1>6, Zenon
  <2> QED BY <1>7, <2>1, <2>2, RemoveStep
<1>9. Plain(s, t + n)'
  <2>1. End(s) < t + n
    BY <1>1, <1>2
  <2> QED BY <1>0, <1>2, <2>1 DEF Plain
<1>10. Fetching(s, t + n)'
  BY <1>0, <1>9 DEF Fetching
<1> QED BY <1>8, <1>10, NowFetched

(* When the reads delivered one byte each, and all were received, nothing  *)
(* is left when the download ends.                                         *)
LEMMA NothingLeft ==
  ASSUME NEW s, NEW t, Now(s, t), Fetching(s, t), pc \in {"chunks", "plain"}, slow, got = Len(s)
  PROVE  t = got
<1>1. /\ Response(s) /\ Holds(s, data, t) /\ t \in Nat /\ Len(data) \in Nat /\ Len(s) \in Nat
      /\ got = t + Len(data) /\ got \in Nat
  BY NowFacts
<1>2. ASSUME NoneEnds(data), NEW i \in CrLfAt(s), t < i PROVE FALSE
  <2>1. got <= i
    BY <1>1, <1>2, LineMissing
  <2>2. i \in 1 .. Len(s) - 1
    BY <1>1, ResponseFacts
  <2> QED BY <1>1, <2>1, <2>2
<1>3. CASE Broken(s, t)
  <2>1. NoneEnds(data) /\ t < End(s) /\ End(s) \in CrLfAt(s)
    BY <1>1, <1>3, ResponseFacts DEF Broken, AtLine
  <2> QED BY <1>2, <2>1
<1>4. CASE pc = "chunks" /\ Chunks(s, t) /\ chunk.looking
  <2>1. NoneEnds(data) /\ AtChunk(s, t) /\ Chunked(s, End(s))
    BY <1>4 DEF Chunks
  <2>2. CASE t + 1 \in ChunkStarts(s, End(s))
    <3>1. PICK r \in Nat : NextEnd(s, t, r)
      BY <1>1, <2>1, <2>2, ChunkHasSize
    <3> QED BY <1>2, <2>1, <3>1 DEF NextEnd
  <2>3. CASE t + 1 \in ChunkEnds(s, End(s))
    <3>1. t + 1 \in CrLfAt(s) /\ t < t + 1
      BY <1>1, <2>3 DEF ChunkEnds
    <3> QED BY <1>2, <2>1, <3>1
  <2>4. CASE t + 1 = Len(s) + 1
    BY <1>1, <2>4
  <2> QED BY <2>1, <2>2, <2>3, <2>4 DEF AtChunk
<1>5. CASE pc = "chunks" /\ Chunks(s, t) /\ ~chunk.looking
  <2>1. Len(data) < chunk.size /\ InChunk(s, t)
    BY <1>5 DEF Chunks
  <2>2. PICK n \in Nat : n = chunk.size /\ t + n + 1 \in ChunkEnds(s, End(s))
    BY <2>1 DEF InChunk
  <2>3. PICK q : q = t + n + 1 /\ q \in 1 .. Len(s) - 1
    BY <1>1, <2>2, ChunkEndFacts
  <2> QED BY <1>1, <2>1, <2>2, <2>3
<1>6. CASE pc = "plain" /\ Plain(s, t)
  <2>1. data = <<>>
    BY <1>6 DEF Plain
  <2>2. Len(data) = 0
    BY <2>1
  <2> QED BY <1>1, <2>2
<1> QED BY <1>3, <1>4, <1>5, <1>6 DEF Fetching

(* The download ends.                                                      *)
LEMMA ReturnResultStep ==
  ASSUME NEW s, NEW t, Now(s, t), Fetching(s, t), ReturnResult
  PROVE  Fetched'
<1>0. /\ pc \in {"chunks", "plain"} /\ pc' = "done"
      /\ UNCHANGED <<url, data, headers, chunk, file, got, ended, slow>>
  BY DEF ReturnResult
<1>1. slow => t = got \/ got # Len(s)
  BY <1>0, NothingLeft
<1>2. Now(s, t)'
  BY <1>0 DEF Now
<1>3. Fetching(s, t)'
  BY <1>0, <1>1 DEF Fetching
<1> QED BY <1>2, <1>3, NowFetched

(* The server ends the connection.                                         *)
LEMMA EndsStep ==
  ASSUME NEW s, NEW t, Now(s, t), Fetching(s, t), Ends
  PROVE  Fetched'
<1>0. /\ pc \notin {"idle", "done"} /\ ended = "open"
      /\ UNCHANGED <<url, pc, data, headers, chunk, file, result, got, slow>>
  BY DEF Ends, ServerEnds
<1>1. Now(s, t)'
  BY <1>0 DEF Now
<1>2. ~Broken(s, t)
  BY <1>0 DEF Broken
<1>3. Fetching(s, t)'
  BY <1>0, <1>2 DEF Fetching, Headers, Responded, Chunks, InChunk, Plain
<1> QED BY <1>1, <1>3, NowFetched

(* download_file is called.                                                *)
LEMMA DownloadFileStep ==
  ASSUME NotCalled, NEW u \in Urls, DownloadFile(u)
  PROVE  Fetched'
<1>1. FreshStart(Site[u])'
  BY SiteAssumption DEF DownloadFile, NotCalled, FreshStart
<1> QED BY <1>1, FreshFetched

(* Every step of the download keeps the invariant.                         *)
LEMMA FetchedStep ==
  ASSUME Fetched, DownloadNext
  PROVE  Fetched'
<1>0. PICK s, t : Now(s, t) /\ Fetching(s, t)
  BY FetchedNow
<1>1. CASE \E n \in Cuts : HeadersRead(n) \/ ChunkRead(n) \/ PlainRead(n)
  BY <1>0, <1>1, HeadersReadStep, ChunkReadStep, PlainReadStep
<1>2. CASE HeaderLine \/ NoLine \/ EmptyLine \/ HeadersEnd
  BY <1>0, <1>2, HeaderLineStep, NoLineStep, EmptyLineStep, HeadersEndStep
<1>3. CASE Redirect \/ StartBody
  BY <1>0, <1>3, RedirectStep, StartBodyStep
<1>4. CASE NoChunkLine \/ ChunkLine \/ ChunkWait \/ ChunkData
  BY <1>0, <1>4, NoChunkLineStep, ChunkEndStep, ChunkSizeStep, ChunkWaitStep, ChunkDataStep
<1>5. CASE PlainWrite \/ ReturnResult \/ Ends
  BY <1>0, <1>5, PlainWriteStep, ReturnResultStep, EndsStep
<1> QED BY <1>1, <1>2, <1>3, <1>4, <1>5 DEF DownloadNext, Step

(* What is not a step of the download keeps it, too.                       *)
LEMMA FetchedSame ==
  ASSUME DownloadInv, UNCHANGED DownloadVars
  PROVE  DownloadInv'
<1>1. UNCHANGED <<url, pc, data, headers, chunk, file, result, got, ended, slow>>
  BY DEF DownloadVars
<1>2. CASE NotCalled
  BY <1>1, <1>2 DEF DownloadInv, NotCalled
<1>3. CASE Fetched
  <2>1. PICK s, t : Now(s, t) /\ Fetching(s, t)
    BY <1>3, FetchedNow
  <2>2. Now(s, t)'
    BY <1>1, <2>1 DEF Now
  <2>3. Fetching(s, t)'
    BY <1>1, <2>1 DEF Fetching, Headers, Broken, NoneEnds, Responded, Chunks, InChunk, Plain
  <2>4. Fetched'
    BY <2>2, <2>3, NowFetched
  <2> QED BY <2>4 DEF DownloadInv
<1> QED BY <1>2, <1>3 DEF DownloadInv

(* The invariant says what is wanted.                                      *)
LEMMA FetchedIsWritten ==
  ASSUME DownloadInv
  PROVE  TakenIsWritten
<1>1. CASE NotCalled
  BY <1>1 DEF NotCalled, TakenIsWritten
<1>2. CASE Fetched
  <2>1. PICK s, t : Now(s, t) /\ Fetching(s, t)
    BY <1>2, FetchedNow
  <2>2. /\ Response(s) /\ Holds(s, data, t) /\ t \in Nat /\ Len(data) \in Nat /\ Len(s) \in Nat
        /\ s = Site[url] /\ file = BodyTo(s, t) /\ data \in Seq(Tokens) /\ s \in Seq(Tokens)
        /\ got = t + Len(data) /\ got <= Len(s) /\ got \in Nat
    BY <2>1, NowFacts, ResponseFacts
  <2>3. PICK n \in Nat : n = Len(data)
    BY <2>2
  <2>4. got - Len(data) = t /\ got = t + n
    BY <2>2, <2>3
  <2>5. data = SubSeq(s, t + 1, got)
    <3>1. PICK a \in Int, b \in Int : a = t + 1 /\ b = got
      BY <2>2
    <3>2. \A i \in a .. b : s[i] \in Tokens
      <4> SUFFICES ASSUME NEW i \in a .. b PROVE s[i] \in Tokens
        OBVIOUS
      <4>1. i \in 1 .. Len(s)
        BY <2>2, <3>1
      <4> QED BY <2>2, <4>1, ElementOfSeq
    <3>3. /\ SubSeq(s, a, b) \in Seq(Tokens) /\ Len(SubSeq(s, a, b)) = IF a <= b THEN b - a + 1 ELSE 0
          /\ \A i \in 1 .. b - a + 1 : SubSeq(s, a, b)[i] = s[a + i - 1]
      BY <3>2, SubSeqProperties
    <3>4. PICK x \in Seq(Tokens) : x = SubSeq(s, a, b)
      BY <3>3
    <3>5. Len(x) = Len(data)
      <4>1. (IF a <= b THEN b - a + 1 ELSE 0) = n
        BY <2>2, <2>4, <3>1
      <4> QED BY <2>3, <3>3, <3>4, <4>1
    <3>6. ASSUME NEW i \in 1 .. Len(x) PROVE x[i] = data[i]
      <4>1. i \in 1 .. n /\ i \in 1 .. Len(data)
        BY <2>3, <3>5
      <4>2. i \in 1 .. b - a + 1 /\ a + i - 1 = t + i
        BY <2>2, <2>4, <3>1, <4>1
      <4>3. x[i] = s[t + i]
        BY <3>3, <3>4, <4>2
      <4>4. data[i] = s[t + i]
        BY <2>2, <4>1, HoldsFacts
      <4> QED BY <4>3, <4>4
    <3>7. x = data
      BY <2>2, <3>5, <3>6, SeqEqual
    <3> QED BY <3>1, <3>4, <3>7
  <2>6. pc = "done" /\ slow /\ got = Len(s) => t = got
    BY <2>1 DEF Fetching
  <2> QED BY <2>2, <2>4, <2>5, <2>6 DEF TakenIsWritten
<1> QED BY <1>1, <1>2 DEF DownloadInv

-----------------------------------------------------------------------------
(* The program.                                                            *)

(* Until the network is ready nothing is downloaded.                       *)
ProgramInv == DownloadInv /\ (program \in {"init", "wait"} => NotCalled)

(* Before it is called a download makes no step.                           *)
LEMMA NothingToDo ==
  ASSUME NotCalled
  PROVE  ~DownloadNext
<1>1. pc = "idle"
  BY DEF NotCalled
<1>2. ~Ends
  BY <1>1 DEF Ends, ServerEnds
<1>3. ~Step
  BY <1>1 DEF Step, HeadersRead, ChunkRead, PlainRead, HeaderLine, NoLine, EmptyLine, HeadersEnd,
              Redirect, StartBody, NoChunkLine, ChunkLine, ChunkWait, ChunkData, PlainWrite, ReturnResult
<1> QED BY <1>2, <1>3 DEF DownloadNext

(* Every step of the program keeps the invariant of the download.          *)
LEMMA ProgramStepInv ==
  ASSUME ProgramInv, [ProgramNext]_ProgramVars
  PROVE  ProgramInv'
<1>0. DownloadInv /\ (program \in {"init", "wait"} => NotCalled)
  BY DEF ProgramInv
<1>1. ASSUME UNCHANGED DownloadVars, program' = program \/ program \in {"init", "wait"} PROVE ProgramInv'
  <2>1. DownloadInv'
    BY <1>0, <1>1, FetchedSame
  <2>2. NotCalled => NotCalled'
    BY <1>1 DEF NotCalled, DownloadVars
  <2> QED BY <1>0, <1>1, <2>1, <2>2 DEF ProgramInv
<1>2. CASE NetworkInit
  BY <1>1, <1>2 DEF NetworkInit
<1>3. CASE NetworkReady
  BY <1>1, <1>3 DEF NetworkReady
<1>4. ASSUME NEW u \in Urls, ReadyToDownload(u) PROVE ProgramInv'
  <2>1. program = "wait" /\ program' = "download" /\ DownloadFile(u)
    BY <1>4 DEF ReadyToDownload
  <2>2. Fetched'
    BY <1>0, <2>1, DownloadFileStep
  <2> QED BY <2>1, <2>2 DEF ProgramInv, DownloadInv
<1>5. CASE Serve
  BY <1>1, <1>5 DEF Serve
<1>6. CASE DoDownload
  <2>1. program = "download" /\ program' = program /\ DownloadNext
    BY <1>6 DEF DoDownload
  <2>2. Fetched
    BY <1>0, <2>1, NothingToDo DEF DownloadInv
  <2>3. Fetched'
    BY <2>1, <2>2, FetchedStep
  <2> QED BY <2>1, <2>3 DEF ProgramInv, DownloadInv
<1>7. CASE UNCHANGED ProgramVars
  <2>1. UNCHANGED DownloadVars /\ program' = program
    BY <1>7 DEF ProgramVars
  <2> QED BY <1>1, <2>1
<1> QED BY <1>2, <1>3, <1>4, <1>5, <1>6, <1>7 DEF ProgramNext

(* However the reads cut a response, and wherever the connection ends: of  *)
(* the bytes taken out of the store exactly those of the body are in the   *)
(* file, in order; and all of them when each read delivers one byte        *)
(* (populate_headers, chunk_download, download).                           *)
THEOREM DownloadIsExact == ProgramSpec => []TakenIsWritten
<1>1. ProgramInit => ProgramInv
  BY DEF ProgramInit, DownloadInit, ProgramInv, DownloadInv, NotCalled
<1>2. ProgramInv /\ [ProgramNext]_ProgramVars => ProgramInv'
  BY ProgramStepInv
<1>3. ProgramInv => TakenIsWritten
  BY FetchedIsWritten DEF ProgramInv
<1> QED BY <1>1, <1>2, <1>3, PTL DEF ProgramSpec

(* In the program the server is as it is alone: what was proved of it      *)
(* holds there (main starts it, and downloads nothing while it runs).      *)
THEOREM ServerInProgram ==
  ASSUME ~ProcessWaitExpires, ~ClientWaitExpires
  PROVE  ProgramSpec => [](TypeOK /\ OwnSocket /\ ClosedOnce /\ StoppedIsQuiet /\ NothingLeaks)
<1>1. ProgramInit => Init
  BY DEF ProgramInit
<1>2. [ProgramNext]_ProgramVars => [Next]_vars
  BY DEF ProgramNext, NetworkInit, NetworkReady, ReadyToDownload, Serve, DoDownload, ProgramVars
<1>3. ProgramSpec => Spec
  BY <1>1, <1>2, PTL DEF ProgramSpec, Spec
<1> QED BY <1>3, TypesCorrect, SlotExclusive, SocketsClosedOnce, StopIsComplete, NothingIsLost, PTL

=============================================================================
