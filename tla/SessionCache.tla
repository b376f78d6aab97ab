---------------------------- MODULE SessionCache ----------------------------
(***************************************************************************)
(* What the LRU session cache of a TLS server promises                     *)
(* (br_ssl_session_cache_class and br_ssl_session_cache_lru in             *)
(* bearssl_ssl.h): a list of at most Capacity sessions, the most recently  *)
(* used first.  SessionCacheLru shows how ssl_lru.c keeps it in a block of *)
(* bytes, as a linked list and a search tree.                              *)
(***************************************************************************)
EXTENDS Integers, Sequences

CONSTANTS
  Ids,       \* session IDs
  Params,    \* session parameters: version (not 0), cipher suite, secret
  Disabled,  \* what is left of a forgotten session: version 0
  Capacity   \* how many sessions fit

VARIABLES
  cache,     \* sequence of [id, par], the most recently used first
  answer     \* what the last load() returned

None == [found |-> FALSE]
Found(par) == [found |-> TRUE, par |-> par]

Holds(s, id) == \E i \in DOMAIN s : s[i].id = id
Live(s, id) == {i \in DOMAIN s : s[i].id = id /\ s[i].par # Disabled}

(* A new entry goes to the front; the last one has to go when the cache is *)
(* full.  A session that is there, disabled or not, is not saved again.    *)
Saved(s, e) ==
  IF Holds(s, e.id) \/ Capacity = 0 THEN s
  ELSE [j \in 1 .. (IF Len(s) < Capacity THEN Len(s) + 1 ELSE Capacity) |->
          IF j = 1 THEN e ELSE s[j - 1]]

(* The i-th entry moves to the front.                                      *)
ToFront(s, i) ==
  [j \in DOMAIN s |-> IF j = 1 THEN s[i] ELSE IF j <= i THEN s[j - 1] ELSE s[j]]

(* A forgotten session keeps its place, and ages.                          *)
Forgotten(s, id) ==
  [i \in DOMAIN s |-> IF s[i].id = id THEN [id |-> id, par |-> Disabled] ELSE s[i]]

Init == cache = <<>> /\ answer = None

Save(id, par) ==
  /\ cache' = Saved(cache, [id |-> id, par |-> par])
  /\ answer' = None

LoadHit(id) == \E i \in Live(cache, id) : /\ cache' = ToFront(cache, i)
                                        /\ answer' = Found(cache[i].par)
LoadMiss(id) == Live(cache, id) = {} /\ answer' = None /\ UNCHANGED cache

Forget(id) == cache' = Forgotten(cache, id) /\ answer' = None

Next == \E id \in Ids : \/ \E par \in Params : Save(id, par)
                        \/ LoadHit(id) \/ LoadMiss(id) \/ Forget(id)

Spec == Init /\ [][Next]_<<cache, answer>>
=============================================================================
