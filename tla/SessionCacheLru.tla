-------------------------- MODULE SessionCacheLru --------------------------
(***************************************************************************)
(* The session cache of libbearssl/src/ssl/ssl_lru.c.  Entries of          *)
(* EntryLen bytes are taken one after the other from a block of StoreLen   *)
(* bytes; each one is linked in a list (prev, next: from the most to the   *)
(* least recently used) and in a search tree (left, right) ordered by the  *)
(* masked session ID.  An address is an offset in the block.               *)
(***************************************************************************)
EXTENDS Integers, Sequences

CONSTANTS
  Ids, Params, Disabled,
  StoreLen,  \* store_len
  Masks      \* the orders that mask_id may give to the session IDs

EntryLen == 100
Slots == StoreLen \div EntryLen
Addrs == {EntryLen * k : k \in 0 .. Slots - 1}
Null == -1                \* ADDR_NULL

ASSUME LruAssumption ==
  /\ StoreLen \in Nat /\ Disabled \notin Params
  /\ \A m \in Masks : /\ m \in [Ids -> Nat]
                      /\ \A i, j \in Ids : m[i] = m[j] => i = j

VARIABLES
  store,                  \* the entries, by address
  head, tail, root, storePtr,
  mask,                   \* the IDs as the key drawn by the first save masks them
  initDone,
  answer                  \* what the last load() returned

vars == <<store, head, tail, root, storePtr, mask, initDone, answer>>

None == [found |-> FALSE]
Found(par) == [found |-> TRUE, par |-> par]

Used == {x \in Addrs : x < storePtr}
Blank == [id |-> 0, par |-> Disabled,
          prev |-> Null, next |-> Null, left |-> Null, right |-> Null]

-----------------------------------------------------------------------------
(* The tree.  A tree t has a root and the entries; a link is the field     *)
(* that points to a node: the root, or a child field of an entry.          *)

Tree == [root |-> root, store |-> store]
RootLink == [at |-> Null, side |-> "root"]
Link(x, side) == [at |-> x, side |-> side]
Links == {RootLink} \union [at : Addrs, side : {"left", "right"}]
Node(t, link) == IF link = RootLink THEN t.root ELSE t.store[link.at][link.side]

(* set_link, set_left, set_right                                           *)
SetLink(t, link, x) ==
  IF link = RootLink THEN [t EXCEPT !.root = x]
  ELSE [t EXCEPT !.store[link.at][link.side] = x]

(* x after n steps of f                                                    *)
Iterate(f, x, n) == LET it[k \in Nat] == IF k = 0 THEN x ELSE f[it[k - 1]] IN it[n]

(* find_node: the link where the search for this ID ends, at its node or   *)
(* at null.  A path has at most Slots nodes.                               *)
Below(t, x, id) == Link(x, IF id < t.store[x].id THEN "left" ELSE "right")
FindStep(t, id) ==
  [link \in Links |-> LET x == Node(t, link) IN
     IF x = Null THEN link ELSE IF t.store[x].id = id THEN link ELSE Below(t, x, id)]
FindLink(t, id) == Iterate(FindStep(t, id), RootLink, Slots)
FindNode(t, id) == Node(t, FindLink(t, id))

(* From this link on, the last one that points to a node on this side.     *)
LastStep(t, side) ==
  [link \in Links |-> LET next == Link(Node(t, link), side) IN
     IF Node(t, next) = Null THEN link ELSE next]
Last(t, start, side) == Iterate(LastStep(t, side), start, Slots)

(* find_replacement_node, for a node that has a child: the link to it.     *)
Replacement(t, x) ==
  IF t.store[x].left # Null THEN Last(t, Link(x, "left"), "right")
                            ELSE Last(t, Link(x, "right"), "left")

OrphanDropped(t, y) == Null    \* mutant: the replacement's child is lost
(* The one child, if any, of a replacement node.                           *)
Orphan(t, y) ==
  IF t.store[y].left = Null THEN t.store[y].right ELSE t.store[y].left

RemoveNode(t, x) ==
  LET link == FindLink(t, t.store[x].id)
      away == Replacement(t, x)
      y == Node(t, away)
      u == SetLink(SetLink(t, away, Orphan(t, y)), link, y)
  IN  IF t.store[x].left = Null /\ t.store[x].right = Null
      THEN SetLink(t, link, Null)
      ELSE SetLink(SetLink(u, Link(y, "left"), u.store[x].left),
                   Link(y, "right"), u.store[x].right)

(* A new node goes where the search for its ID ends.                       *)
InsertNode(t, id, x) == SetLink(t, FindLink(t, id), x)

-----------------------------------------------------------------------------
Init ==
  /\ store = [x \in Addrs |-> Blank]
  /\ head = Null /\ tail = Null /\ root = Null /\ storePtr = 0
  /\ mask \in Masks /\ initDone = FALSE /\ answer = None

(* lru_save.                                                               *)
Full == storePtr > StoreLen - EntryLen
(* The entry at x enters the tree t and the list that begins with h.       *)
Fill(x, id, par, t, h) ==
  LET u == InsertNode(t, id, x)
      e == [id |-> id, par |-> par, prev |-> Null, next |-> h,
            left |-> Null, right |-> Null]
      s == [u.store EXCEPT ![x] = e]
  IN  /\ root' = u.root
      /\ store' = IF h = Null THEN s ELSE [s EXCEPT ![h].prev = x]
      /\ head' = x

(* The tail is evicted; it may be the head too.                            *)
SaveEvicting(id, par) ==
  LET x == tail
      last == store[x].prev
      t == IF last = Null THEN Tree ELSE [Tree EXCEPT !.store[last].next = Null]
  IN  /\ tail' = IF last = Null THEN x ELSE last
      /\ Fill(x, id, par, RemoveNode(t, x), IF last = Null THEN Null ELSE head)
      /\ UNCHANGED storePtr

SaveFresh(id, par) ==
  LET x == storePtr
  IN  /\ storePtr' = storePtr + EntryLen
      /\ tail' = IF head = Null THEN x ELSE tail
      /\ Fill(x, id, par, Tree, head)

Save(id, par) ==
  /\ initDone' = (initDone \/ StoreLen >= EntryLen)
  /\ IF StoreLen < EntryLen \/ FindNode(Tree, mask[id]) # Null
     THEN UNCHANGED <<store, head, tail, root, storePtr>>
     ELSE IF Full THEN SaveEvicting(mask[id], par) ELSE SaveFresh(mask[id], par)
  /\ answer' = None
  /\ UNCHANGED mask

(* lru_load: an entry that is not at the head moves there.                 *)
ToHead(x) ==
  /\ tail' = IF store[x].next = Null THEN store[x].prev ELSE tail
  /\ LET e == store[x]
         s == [store EXCEPT ![e.prev].next = e.next]
         r == IF e.next = Null THEN s ELSE [s EXCEPT ![e.next].prev = e.prev]
     IN  store' = [r EXCEPT ![head].prev = x, ![x].next = head, ![x].prev = Null]

LoadStays(id) ==        \* mutant: a session found keeps its place in the list
  /\ LET x == FindNode(Tree, mask[id])
     IN  answer' = IF initDone /\ x # Null /\ store[x].par # Disabled
                   THEN Found(store[x].par) ELSE None
  /\ UNCHANGED <<store, head, tail, root, storePtr, mask, initDone>>
LoadDisabled(id) ==     \* mutant: a forgotten session is moved to the head
  /\ LET x == FindNode(Tree, mask[id]) IN
     IF initDone /\ x # Null
     THEN /\ answer' = IF store[x].par = Disabled THEN None ELSE Found(store[x].par)
          /\ head' = x
          /\ IF x = head THEN UNCHANGED <<store, tail>> ELSE ToHead(x)
     ELSE answer' = None /\ UNCHANGED <<store, head, tail>>
  /\ UNCHANGED <<root, storePtr, mask, initDone>>
Load(id) ==
  /\ LET x == FindNode(Tree, mask[id]) IN
     IF initDone /\ x # Null /\ store[x].par # Disabled
     THEN /\ answer' = Found(store[x].par)
          /\ head' = x
          /\ IF x = head THEN UNCHANGED <<store, tail>> ELSE ToHead(x)
     ELSE answer' = None /\ UNCHANGED <<store, head, tail>>
  /\ UNCHANGED <<root, storePtr, mask, initDone>>

(* br_ssl_session_cache_lru_forget                                         *)
Forget(id) ==
  /\ LET x == FindNode(Tree, mask[id])
     IN  store' = IF initDone /\ x # Null THEN [store EXCEPT ![x].par = Disabled] ELSE store
  /\ answer' = None
  /\ UNCHANGED <<head, tail, root, storePtr, mask, initDone>>

Next == \E id \in Ids : \/ \E par \in Params : Save(id, par)
                        \/ Load(id) \/ Forget(id)

Spec == Init /\ [][Next]_vars
=============================================================================
