-------------------------- MODULE SessionCacheUse --------------------------
(***************************************************************************)
(* What is checked of SessionCacheLru: the list and the tree are sound,    *)
(* they implement the abstract SessionCache.  "view" holds what the list   *)
(* contains, which is what the abstract cache sees.                        *)
(***************************************************************************)
EXTENDS SessionCacheLru, FiniteSets

CONSTANTS
  Sessions,  \* the <<id, parameters>> that the server saves
  Forgets    \* the IDs that it forgets

ASSUME UseAssumption == Sessions \subseteq Ids \X Params /\ Forgets \subseteq Ids

VARIABLE view

(* The addresses from the head along next.                                 *)
Longer ==
  [o \in Seq(Addrs) |->
     LET x == IF o = <<>> THEN head ELSE store[o[Len(o)]].next
     IN  IF x = Null THEN o ELSE Append(o, x)]
Order == Iterate(Longer, <<>>, Slots + 1)

(* The sessions in that order.                                             *)
Entry(x) == [id |-> CHOOSE id \in Ids : mask[id] = store[x].id, par |-> store[x].par]
Entries == [o \in Seq(Addrs) |-> [i \in DOMAIN o |-> Entry(o[i])]]
Contents == Entries[Order]

Abstract == INSTANCE SessionCache WITH cache <- view, Capacity <- Slots

UseInit == Init /\ view = Contents
UseNext == /\ \/ \E s \in Sessions : Save(s[1], s[2])
              \/ \E id \in Ids : Load(id)
              \/ \E id \in Forgets : Forget(id)
           /\ view' = Contents'

UseSpec == UseInit /\ [][UseNext]_<<vars, view>>

-----------------------------------------------------------------------------
(* The search for the ID of an entry finds this entry, and the search for  *)
(* any other ID ends nowhere: after any sequence of insertions and         *)
(* removals the tree holds every entry, in order and without a cycle       *)
(* (find_node, remove_node).                                               *)
TreeFindsAll ==
  \A id \in Ids :
    LET x == FindNode(Tree, mask[id])
        here == {y \in Used : store[y].id = mask[id]}
    IN  IF here = {} THEN x = Null ELSE here = {x}

(* The list is read the same way in both directions: from the head along   *)
(* next and from the tail along prev it visits every entry once (lru_save, *)
(* lru_load).                                                              *)
ListBothWays ==
  LET o == Order IN
  /\ Len(o) = Cardinality(Used)
  /\ {o[i] : i \in 1 .. Len(o)} = Used
  /\ \A i \in 1 .. Len(o) : store[o[i]].prev = IF i = 1 THEN Null ELSE o[i - 1]
  /\ tail = IF o = <<>> THEN Null ELSE o[Len(o)]

(* Tree and list stay whole and hold the same entries, after any sequence  *)
(* of saves, loads, evictions and forgets.                                 *)
StoreSound == TreeFindsAll /\ ListBothWays

(* The block of bytes implements the abstract cache: the same answers, the *)
(* order of last use, and the least recently used session makes room       *)
(* (the eviction policy that bearssl_ssl.h:3352-3354 states).              *)
RefinesCache == Abstract!Spec
=============================================================================
