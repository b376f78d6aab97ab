------------------------ MODULE SessionCacheProofs -------------------------
(***************************************************************************)
(* Proofs about SessionCacheUse: the list and the tree in the block of     *)
(* bytes are sound, and implement the abstract SessionCache; for any size  *)
(* of the block, any sessions and any order that the mask gives them.      *)
(***************************************************************************)
EXTENDS SessionCacheUse, FiniteSetTheorems, Induction, TLAPS

-----------------------------------------------------------------------------
(* Iterate.                                                                *)

(* Functions that make the first n steps.                                  *)
MakesSteps(h, f, x, n) == h = [k \in 0 .. n |-> IF k = 0 THEN x ELSE f[h[k - 1]]]

(* Two such functions agree where both are defined.                        *)
LEMMA StepsUnique ==
  ASSUME NEW f, NEW x, NEW m \in Nat, NEW n \in Nat, NEW g, NEW h,
         MakesSteps(g, f, x, m), MakesSteps(h, f, x, n)
  PROVE  \A k \in Nat : k <= m /\ k <= n => g[k] = h[k]
<1> DEFINE S == {k \in Nat : k <= m /\ k <= n => g[k] = h[k]}
<1>1. 0 \in S
  BY DEF MakesSteps
<1>2. ASSUME NEW k \in Nat, k \in S PROVE k + 1 \in S
  <2> SUFFICES ASSUME k + 1 <= m, k + 1 <= n PROVE g[k + 1] = h[k + 1]
    OBVIOUS
  <2>1. g[k] = h[k]
    BY <1>2
  <2>2. g[k + 1] = f[g[(k + 1) - 1]] /\ h[k + 1] = f[h[(k + 1) - 1]]
    BY DEF MakesSteps
  <2> QED BY <2>1, <2>2
<1> HIDE DEF S
<1>3. Nat \subseteq S
  BY <1>1, <1>2, InductionOnSet
<1> QED BY <1>3 DEF S

(* There is such a function for every number of steps.                     *)
LEMMA StepsExist ==
  ASSUME NEW f, NEW x
  PROVE  \A n \in Nat : \E h : MakesSteps(h, f, x, n)
<1> DEFINE S == {n \in Nat : \E h : MakesSteps(h, f, x, n)}
<1>1. 0 \in S
  <2>1. MakesSteps([k \in 0 .. 0 |-> x], f, x, 0)
    BY DEF MakesSteps
  <2> QED BY <2>1
<1>2. ASSUME NEW n \in Nat, n \in S PROVE n + 1 \in S
  <2>1. PICK h : MakesSteps(h, f, x, n)
    BY <1>2
  <2> DEFINE g == [k \in 0 .. n + 1 |-> IF k = n + 1 THEN f[h[n]] ELSE h[k]]
  <2>2. ASSUME NEW k \in 0 .. n + 1 PROVE g[k] = IF k = 0 THEN x ELSE f[g[k - 1]]
    BY <2>1 DEF MakesSteps
  <2>3. g = [k \in 0 .. n + 1 |-> IF k = 0 THEN x ELSE f[g[k - 1]]]
    BY <2>2
  <2>4. MakesSteps(g, f, x, n + 1)
    BY <2>3 DEF MakesSteps
  <2> QED BY <2>4
<1> HIDE DEF S
<1>3. Nat \subseteq S
  BY <1>1, <1>2, InductionOnSet
<1> QED BY <1>3 DEF S

(* The steps, one after the other.                                         *)
LEMMA IterateDef ==
  ASSUME NEW f, NEW x
  PROVE  /\ Iterate(f, x, 0) = x
         /\ \A n \in Nat : Iterate(f, x, n + 1) = f[Iterate(f, x, n)]
<1> DEFINE some(n) == CHOOSE h : MakesSteps(h, f, x, n)
           g == [k \in Nat |-> some(k)[k]]
           it == CHOOSE w : w = [k \in Nat |-> IF k = 0 THEN x ELSE f[w[k - 1]]]
<1>1. \A n \in Nat : MakesSteps(some(n), f, x, n)
  BY StepsExist
<1> HIDE DEF some
<1>2. ASSUME NEW k \in Nat PROVE g[k] = IF k = 0 THEN x ELSE f[g[k - 1]]
  <2>1. CASE k = 0
    BY <1>1, <2>1 DEF MakesSteps
  <2>2. CASE k # 0
    <3>1. k - 1 \in Nat
      BY <2>2
    <3>2. some(k)[k] = f[some(k)[k - 1]]
      BY <1>1, <2>2 DEF MakesSteps
    <3>3. some(k)[k - 1] = some(k - 1)[k - 1]
      BY <1>1, <3>1, StepsUnique
    <3> QED BY <2>2, <3>1, <3>2, <3>3
  <2> QED BY <2>1, <2>2
<1>3. g = [k \in Nat |-> IF k = 0 THEN x ELSE f[g[k - 1]]]
  BY <1>2
<1> HIDE DEF g
<1>4. it = [k \in Nat |-> IF k = 0 THEN x ELSE f[it[k - 1]]]
  BY <1>3, Zenon
<1>5. \A n : Iterate(f, x, n) = it[n]
  BY DEF Iterate
<1> HIDE DEF it
<1>6. it[0] = x
  BY <1>4
<1>7. ASSUME NEW n \in Nat PROVE it[n + 1] = f[it[n]]
  <2>1. n + 1 \in Nat /\ n + 1 # 0 /\ (n + 1) - 1 = n
    OBVIOUS
  <2> QED BY <1>4, <2>1
<1> QED BY <1>5, <1>6, <1>7

-----------------------------------------------------------------------------
(* The block of bytes.                                                     *)
Places == Addrs \union {Null}
EntryRecords == [id : Nat, par : Params \union {Disabled},
            prev : Places, next : Places, left : Places, right : Places]
Trees == [root : Places, store : [Addrs -> EntryRecords]]

(* The entries fit in the block, and no other one would.                   *)
LEMMA SlotsFit == /\ Slots \in Nat /\ EntryLen = 100
                  /\ EntryLen * Slots <= StoreLen /\ StoreLen < EntryLen * Slots + EntryLen
BY LruAssumption DEF Slots, EntryLen

(* The addresses are natural numbers, as many as there are places.         *)
LEMMA AddrsFit ==
  /\ Addrs \subseteq Nat /\ Null \notin Addrs
  /\ IsFiniteSet(Addrs) /\ Cardinality(Addrs) = Slots
<1>1. Addrs \subseteq Nat /\ Null \notin Addrs
  BY SlotsFit DEF Addrs, Null
<1> DEFINE f == [i \in 1 .. Slots |-> EntryLen * (i - 1)]
<1>2. f \in Bijection(1 .. Slots, Addrs)
  <2>1. f \in [1 .. Slots -> Addrs]
    <3> SUFFICES ASSUME NEW i \in 1 .. Slots PROVE EntryLen * (i - 1) \in Addrs
      OBVIOUS
    <3>1. i - 1 \in 0 .. Slots - 1
      BY SlotsFit
    <3> QED BY <3>1 DEF Addrs
  <2>2. \A i, j \in 1 .. Slots : f[i] = f[j] => i = j
    BY SlotsFit
  <2>3. \A a \in Addrs : \E i \in 1 .. Slots : f[i] = a
    <3> SUFFICES ASSUME NEW k \in 0 .. Slots - 1 PROVE \E i \in 1 .. Slots : f[i] = EntryLen * k
      BY DEF Addrs
    <3>1. k + 1 \in 1 .. Slots /\ (k + 1) - 1 = k
      BY SlotsFit
    <3> QED BY <3>1
  <2> HIDE DEF f
  <2>4. f \in Injection(1 .. Slots, Addrs)
    BY <2>1, <2>2 DEF Injection, IsInjective
  <2>5. f \in Surjection(1 .. Slots, Addrs)
    BY <2>1, <2>3 DEF Surjection
  <2> QED BY <2>4, <2>5 DEF Bijection
<1>3. IsFiniteSet(1 .. Slots) /\ Cardinality(1 .. Slots) = Slots
  <2>1. 1 \in Int /\ Slots \in Int /\ ~(1 > Slots /\ Slots # 0) /\ (Slots - 1) + 1 = Slots
    BY SlotsFit
  <2> QED BY <2>1, FS_Interval
<1> QED BY <1>1, <1>2, <1>3, FS_Bijection DEF ExistsBijection

-----------------------------------------------------------------------------
(* Links.                                                                  *)
Sides == {"left", "right"}
Opp(side) == IF side = "left" THEN "right" ELSE "left"
Less(side, a, b) == IF side = "left" THEN a < b ELSE b < a
Key(t, x) == t.store[x].id

(* A link is the root link, or a side of an entry; it determines both.     *)
LEMMA LinkFacts ==
  /\ RootLink \in Links
  /\ \A x \in Addrs, s \in Sides : /\ Link(x, s) \in Links /\ Link(x, s) # RootLink
                                  /\ Link(x, s).at = x /\ Link(x, s).side = s
  /\ \A x, y, s, r : Link(x, s) = Link(y, r) => x = y /\ s = r
  /\ \A l \in Links : l # RootLink => \E x \in Addrs, s \in Sides : l = Link(x, s)
<1>1. RootLink \in Links
  BY DEF Links
<1>2. ASSUME NEW x, NEW s PROVE Link(x, s).at = x /\ Link(x, s).side = s
  BY DEF Link
<1>3. ASSUME NEW x \in Addrs, NEW s \in Sides PROVE Link(x, s) \in Links /\ Link(x, s) # RootLink
  <2>1. Link(x, s) \in Links
    BY DEF Links, Link, Sides
  <2>2. RootLink.at = Null
    BY DEF RootLink
  <2> QED BY <1>2, <2>1, <2>2, AddrsFit
<1>4. ASSUME NEW l \in Links, l # RootLink PROVE \E x \in Addrs, s \in Sides : l = Link(x, s)
  <2>1. l \in [at : Addrs, side : {"left", "right"}]
    BY <1>4 DEF Links
  <2>2. l.at \in Addrs /\ l.side \in Sides /\ l = [at |-> l.at, side |-> l.side]
    BY <2>1 DEF Sides
  <2> QED BY <2>2 DEF Link
<1> QED BY <1>1, <1>2, <1>3, <1>4

(* What a link points to.                                                  *)
LEMMA NodeFacts ==
  ASSUME NEW t \in Trees
  PROVE  /\ Node(t, RootLink) = t.root
         /\ \A x \in Addrs : /\ Node(t, Link(x, "left")) = t.store[x].left
                            /\ Node(t, Link(x, "right")) = t.store[x].right
         /\ \A l \in Links : Node(t, l) \in Places
         /\ \A x \in Addrs : Key(t, x) \in Nat
<1>1. \A x \in Addrs : t.store[x] \in EntryRecords
  BY DEF Trees
<1>2. Node(t, RootLink) = t.root
  BY DEF Node
<1>3. \A x \in Addrs : /\ Node(t, Link(x, "left")) = t.store[x].left
                      /\ Node(t, Link(x, "right")) = t.store[x].right
  BY LinkFacts DEF Node, Sides
<1>4. ASSUME NEW l \in Links PROVE Node(t, l) \in Places
  <2>1. CASE l = RootLink
    BY <1>2, <2>1 DEF Trees
  <2>2. CASE l # RootLink
    <3>1. PICK x \in Addrs, s \in Sides : l = Link(x, s)
      BY <2>2, LinkFacts
    <3> QED BY <1>1, <1>3, <3>1 DEF Sides, EntryRecords
  <2> QED BY <2>1, <2>2
<1>5. \A x \in Addrs : Key(t, x) \in Nat
  BY <1>1 DEF Key, EntryRecords
<1> QED BY <1>2, <1>3, <1>4, <1>5

(* Only the link that is set changes (set_link, set_left, set_right).      *)
LEMMA SetLinkFacts ==
  ASSUME NEW t \in Trees, NEW l \in Links, NEW x \in Places
  PROVE  /\ SetLink(t, l, x) \in Trees
         /\ \A m \in Links : Node(SetLink(t, l, x), m) = IF m = l THEN x ELSE Node(t, m)
         /\ \A y \in Addrs : /\ Key(SetLink(t, l, x), y) = Key(t, y)
                            /\ SetLink(t, l, x).store[y].par = t.store[y].par
                            /\ SetLink(t, l, x).store[y].prev = t.store[y].prev
                            /\ SetLink(t, l, x).store[y].next = t.store[y].next
<1> DEFINE u == SetLink(t, l, x)
<1>0. t.root \in Places /\ t.store \in [Addrs -> EntryRecords] /\ t = [root |-> t.root, store |-> t.store]
  BY DEF Trees
<1>1. CASE l = RootLink
  <2>1. u = [t EXCEPT !.root = x]
    BY <1>1 DEF SetLink
  <2>2. u = [root |-> x, store |-> t.store]
    BY <1>0, <2>1
  <2>3. u \in Trees
    BY <1>0, <2>2 DEF Trees
  <2>4. \A m \in Links : Node(u, m) = IF m = l THEN x ELSE Node(t, m)
    BY <1>1, <2>2 DEF Node
  <2> QED BY <2>2, <2>3, <2>4 DEF Key
<1>2. CASE l # RootLink
  <2>1. PICK a \in Addrs, s \in Sides : l = Link(a, s) /\ l.at = a /\ l.side = s
    BY <1>2, LinkFacts
  <2>2. t.store[a] \in EntryRecords
    BY <1>0
  <2> DEFINE e == [t.store[a] EXCEPT ![s] = x]
  <2>3. /\ e \in EntryRecords /\ e.left = (IF s = "left" THEN x ELSE t.store[a].left)
        /\ e.right = (IF s = "right" THEN x ELSE t.store[a].right)
        /\ e.id = t.store[a].id /\ e.par = t.store[a].par
        /\ e.prev = t.store[a].prev /\ e.next = t.store[a].next
    <3>1. CASE s = "left"
      BY <2>2, <3>1 DEF EntryRecords
    <3>2. CASE s = "right"
      BY <2>2, <3>2 DEF EntryRecords
    <3> QED BY <2>1, <3>1, <3>2 DEF Sides
  <2> HIDE DEF e
  <2>4. u = [root |-> t.root, store |-> [t.store EXCEPT ![a] = e]]
    <3>1. u = [t EXCEPT !.store[a][s] = x]
      BY <1>2, <2>1 DEF SetLink
    <3> QED BY <1>0, <3>1 DEF e
  <2>5. u \in Trees
    BY <1>0, <2>3, <2>4 DEF Trees
  <2>6. \A y \in Addrs : u.store[y] = IF y = a THEN e ELSE t.store[y]
    BY <1>0, <2>4
  <2>7. ASSUME NEW m \in Links PROVE Node(u, m) = IF m = l THEN x ELSE Node(t, m)
    <3>1. CASE m = RootLink
      BY <1>2, <2>4, <3>1 DEF Node
    <3>2. CASE m # RootLink
      <4>1. PICK b \in Addrs, r \in Sides : m = Link(b, r) /\ m.at = b /\ m.side = r
        BY <3>2, LinkFacts
      <4>2. /\ Node(u, m) = IF r = "left" THEN u.store[b].left ELSE u.store[b].right
            /\ Node(t, m) = IF r = "left" THEN t.store[b].left ELSE t.store[b].right
        BY <2>5, <4>1, NodeFacts DEF Sides
      <4>3. CASE b = a
        <5>1. m = l <=> r = s
          BY <2>1, <4>1, <4>3
        <5> QED BY <2>1, <2>3, <2>6, <4>1, <4>2, <4>3, <5>1 DEF Sides
      <4>4. CASE b # a
        BY <2>1, <2>6, <4>1, <4>2, <4>4
      <4> QED BY <4>3, <4>4
    <3> QED BY <3>1, <3>2
  <2> HIDE DEF u
  <2>8. \A y \in Addrs : /\ Key(u, y) = Key(t, y) /\ u.store[y].par = t.store[y].par
                        /\ u.store[y].prev = t.store[y].prev /\ u.store[y].next = t.store[y].next
    BY <2>3, <2>6 DEF Key
  <2> QED BY <2>5, <2>7, <2>8 DEF u
<1> QED BY <1>1, <1>2

-----------------------------------------------------------------------------
(* The tree of the entries U: each link has a territory, the entries that  *)
(* are found through it, which are those below the entry it points to      *)
(* ("sub").  A link to nothing has none.                                   *)
OwnLinks(U) == {RootLink} \union {Link(x, s) : x \in U, s \in Sides}
Territory(t, U, sub, l) ==
  IF l = RootLink THEN U ELSE {y \in sub[l.at] : Less(l.side, Key(t, y), Key(t, l.at))}
Subtrees(U, sub) == sub \in [U -> SUBSET U] /\ \A x \in U : x \in sub[x]
KeysDiffer(t, U) == \A x, y \in U : Key(t, x) = Key(t, y) => x = y
LinkGood(t, U, sub, l) ==
  IF Node(t, l) = Null THEN Territory(t, U, sub, l) = {}
  ELSE Node(t, l) \in U /\ sub[Node(t, l)] = Territory(t, U, sub, l)
OneParent(t, U) ==
  \A l, m \in OwnLinks(U) : Node(t, l) = Node(t, m) /\ Node(t, l) # Null => l = m
Whole(t, U, sub) ==
  /\ Subtrees(U, sub) /\ KeysDiffer(t, U) /\ OneParent(t, U)
  /\ \A l \in OwnLinks(U) : LinkGood(t, U, sub, l)
TreeOK(t, U) == \E sub : Whole(t, U, sub)

(* The links of the entries U.                                             *)
LEMMA OwnLinksFacts ==
  ASSUME NEW U \in SUBSET Addrs
  PROVE  /\ OwnLinks(U) \subseteq Links /\ RootLink \in OwnLinks(U)
         /\ \A x \in U, s \in Sides : Link(x, s) \in OwnLinks(U)
         /\ \A l \in OwnLinks(U) : l # RootLink => \E x \in U, s \in Sides : l = Link(x, s)
         /\ \A x, s : Link(x, s) \in OwnLinks(U) /\ Link(x, s) # RootLink => x \in U /\ s \in Sides
<1>1. \A x \in U, s \in Sides : Link(x, s) \in Links
  BY LinkFacts
<1>2. \A x, s, y, r : Link(x, s) = Link(y, r) => x = y /\ s = r
  BY LinkFacts
<1>3. RootLink \in Links
  BY LinkFacts
<1> QED BY <1>1, <1>2, <1>3 DEF OwnLinks

(* What a side's territory is.                                             *)
LEMMA TerritoryFacts ==
  ASSUME NEW t \in Trees, NEW U \in SUBSET Addrs, NEW sub, Whole(t, U, sub)
  PROVE  /\ Territory(t, U, sub, RootLink) = U
         /\ \A x \in U, s \in Sides :
              /\ Territory(t, U, sub, Link(x, s)) = {y \in sub[x] : Less(s, Key(t, y), Key(t, x))}
              /\ Territory(t, U, sub, Link(x, s)) \subseteq sub[x] \ {x}
         /\ \A l \in OwnLinks(U) : Territory(t, U, sub, l) \subseteq U
<1>1. Territory(t, U, sub, RootLink) = U
  BY DEF Territory
<1>2. sub \in [U -> SUBSET U]
  BY DEF Whole, Subtrees
<1>3. ASSUME NEW x \in U, NEW s \in Sides
      PROVE  /\ Territory(t, U, sub, Link(x, s)) = {y \in sub[x] : Less(s, Key(t, y), Key(t, x))}
             /\ Territory(t, U, sub, Link(x, s)) \subseteq sub[x] \ {x}
  <2>1. Territory(t, U, sub, Link(x, s)) = {y \in sub[x] : Less(s, Key(t, y), Key(t, x))}
    BY LinkFacts DEF Territory
  <2>2. Key(t, x) \in Nat
    BY NodeFacts
  <2>3. ~Less(s, Key(t, x), Key(t, x))
    BY <2>2 DEF Less
  <2> QED BY <2>1, <2>3
<1>4. ASSUME NEW l \in OwnLinks(U) PROVE Territory(t, U, sub, l) \subseteq U
  <2>1. CASE l = RootLink
    BY <1>1, <2>1
  <2>2. CASE l # RootLink
    <3>1. PICK x \in U, s \in Sides : l = Link(x, s)
      BY <2>2, OwnLinksFacts
    <3> QED BY <1>2, <1>3, <3>1
  <2> QED BY <2>1, <2>2
<1> QED BY <1>1, <1>3, <1>4

(* An entry is on one side of another one.                                 *)
LEMMA SidesOf ==
  ASSUME NEW t \in Trees, NEW U \in SUBSET Addrs, NEW sub, Whole(t, U, sub), NEW x \in U
  PROVE  /\ sub[x] = {x} \union Territory(t, U, sub, Link(x, "left"))
                         \union Territory(t, U, sub, Link(x, "right"))
         /\ \A s \in Sides :
              Territory(t, U, sub, Link(x, s)) \intersect Territory(t, U, sub, Link(x, Opp(s))) = {}
<1>1. "left" \in Sides /\ "right" \in Sides
  BY DEF Sides
<1>2. sub[x] \in SUBSET U /\ x \in sub[x]
  BY DEF Whole, Subtrees
<1>3. /\ Territory(t, U, sub, Link(x, "left")) = {y \in sub[x] : Key(t, y) < Key(t, x)}
      /\ Territory(t, U, sub, Link(x, "right")) = {y \in sub[x] : Key(t, x) < Key(t, y)}
  BY <1>1, TerritoryFacts DEF Less
<1>4. \A y \in sub[x] : Key(t, y) \in Nat /\ (Key(t, y) = Key(t, x) => y = x)
  BY <1>2, NodeFacts DEF Whole, KeysDiffer
<1>5. sub[x] = {x} \union Territory(t, U, sub, Link(x, "left"))
                    \union Territory(t, U, sub, Link(x, "right"))
  BY <1>2, <1>3, <1>4
<1>6. Territory(t, U, sub, Link(x, "left")) \intersect Territory(t, U, sub, Link(x, "right")) = {}
  BY <1>2, <1>3, <1>4
<1> QED BY <1>5, <1>6 DEF Sides, Opp

(* Territories are finite.                                                 *)
LEMMA TerritoryFinite ==
  ASSUME NEW t \in Trees, NEW U \in SUBSET Addrs, NEW sub, Whole(t, U, sub), NEW l \in OwnLinks(U)
  PROVE  /\ IsFiniteSet(Territory(t, U, sub, l)) /\ Cardinality(Territory(t, U, sub, l)) \in Nat
         /\ Cardinality(Territory(t, U, sub, l)) <= Slots
<1>1. Territory(t, U, sub, l) \subseteq Addrs
  BY TerritoryFacts
<1> QED BY <1>1, AddrsFit, FS_Subset, FS_CardinalityType

(* The territory of a link from an entry is smaller than the one of the    *)
(* link to it.                                                             *)
LEMMA TerritoryShrinks ==
  ASSUME NEW t \in Trees, NEW U \in SUBSET Addrs, NEW sub, Whole(t, U, sub), NEW l \in OwnLinks(U),
         Node(t, l) # Null, NEW s \in Sides
  PROVE  /\ Node(t, l) \in U /\ Link(Node(t, l), s) \in OwnLinks(U)
         /\ Node(t, l) \in Territory(t, U, sub, l)
         /\ Territory(t, U, sub, l) = sub[Node(t, l)]
         /\ Territory(t, U, sub, Link(Node(t, l), s)) \subseteq Territory(t, U, sub, l)
         /\ Cardinality(Territory(t, U, sub, Link(Node(t, l), s))) < Cardinality(Territory(t, U, sub, l))
<1> DEFINE x == Node(t, l)
           A == Territory(t, U, sub, Link(x, s))
           B == Territory(t, U, sub, l)
<1>1. x \in U /\ sub[x] = B
  BY DEF Whole, LinkGood
<1>2. x \in sub[x]
  BY <1>1 DEF Whole, Subtrees
<1>3. Link(x, s) \in OwnLinks(U)
  BY <1>1, OwnLinksFacts
<1>4. A \subseteq sub[x] \ {x}
  BY <1>1, TerritoryFacts
<1>5. IsFiniteSet(A) /\ IsFiniteSet(B) /\ Cardinality(A) \in Nat /\ Cardinality(B) \in Nat
  BY <1>3, TerritoryFinite
<1> HIDE DEF A, B, x
<1>6. A \subseteq B /\ A # B
  BY <1>1, <1>2, <1>4
<1>7. Cardinality(A) < Cardinality(B)
  <2>1. A \in SUBSET B
    BY <1>6
  <2>2. Cardinality(A) <= Cardinality(B) /\ (Cardinality(B) = Cardinality(A) => B = A)
    BY <1>5, <2>1, FS_Subset
  <2> QED BY <1>5, <1>6, <2>2
<1> QED BY <1>1, <1>2, <1>3, <1>6, <1>7 DEF A, B, x

-----------------------------------------------------------------------------
(* The search.                                                             *)

(* A search that has stopped stays.                                        *)
LEMMA IterateStays ==
  ASSUME NEW f, NEW x, NEW m \in Nat, f[Iterate(f, x, m)] = Iterate(f, x, m)
  PROVE  \A n \in Nat : n >= m => Iterate(f, x, n) = Iterate(f, x, m)
<1> DEFINE S == {n \in Nat : n >= m => Iterate(f, x, n) = Iterate(f, x, m)}
<1>1. 0 \in S
  <2>1. 0 >= m => m = 0
    OBVIOUS
  <2> QED BY <2>1
<1>2. ASSUME NEW n \in Nat, n \in S PROVE n + 1 \in S
  <2> SUFFICES ASSUME n + 1 >= m PROVE Iterate(f, x, n + 1) = Iterate(f, x, m)
    OBVIOUS
  <2>1. CASE n + 1 = m
    BY <2>1
  <2>2. CASE n >= m
    <3>1. Iterate(f, x, n) = Iterate(f, x, m)
      BY <1>2, <2>2
    <3> QED BY <3>1, IterateDef
  <2> QED BY <2>1, <2>2
<1> HIDE DEF S
<1>3. Nat \subseteq S
  BY <1>1, <1>2, InductionOnSet
<1> QED BY <1>3 DEF S

Stopped(t, k, l) == Node(t, l) = Null \/ Key(t, Node(t, l)) = k
Path(t, k, n) == Iterate(FindStep(t, k), RootLink, n)

(* A step of find_node stays where the search ends, and goes to the side   *)
(* of the ID everywhere else.                                              *)
LEMMA FindStepFacts ==
  ASSUME NEW t \in Trees, NEW U \in SUBSET Addrs, NEW sub, Whole(t, U, sub), NEW k \in Nat,
         NEW l \in OwnLinks(U)
  PROVE  /\ Stopped(t, k, l) => FindStep(t, k)[l] = l
         /\ ~Stopped(t, k, l) =>
              /\ Node(t, l) \in U
              /\ \A s \in Sides : FindStep(t, k)[l] = Link(Node(t, l), s) <=> Less(s, k, Key(t, Node(t, l)))
              /\ \E s \in Sides : FindStep(t, k)[l] = Link(Node(t, l), s)
<1>1. l \in Links
  BY OwnLinksFacts
<1> DEFINE x == Node(t, l)
<1>2. FindStep(t, k)[l] =
        IF x = Null THEN l ELSE IF t.store[x].id = k THEN l ELSE Below(t, x, k)
  BY <1>1 DEF FindStep
<1>3. Stopped(t, k, l) => FindStep(t, k)[l] = l
  BY <1>2 DEF Stopped, Key
<1>4. ASSUME ~Stopped(t, k, l)
      PROVE  /\ x \in U
             /\ \A s \in Sides : FindStep(t, k)[l] = Link(x, s) <=> Less(s, k, Key(t, x))
             /\ \E s \in Sides : FindStep(t, k)[l] = Link(x, s)
  <2>1. x \in U /\ x # Null /\ Key(t, x) # k
    BY <1>4 DEF Stopped, Whole, LinkGood
  <2>2. Key(t, x) \in Nat
    BY <2>1, NodeFacts
  <2> HIDE DEF x
  <2>3. FindStep(t, k)[l] = Link(x, IF k < Key(t, x) THEN "left" ELSE "right")
    BY <1>2, <2>1 DEF Below, Key
  <2>4. CASE k < Key(t, x)
    <3>1. FindStep(t, k)[l] = Link(x, "left")
      BY <2>3, <2>4
    <3>2. \A s \in Sides : Link(x, s) = Link(x, "left") <=> s = "left"
      BY LinkFacts
    <3>3. \A s \in Sides : Less(s, k, Key(t, x)) <=> s = "left"
      BY <2>2, <2>4 DEF Less, Sides
    <3> QED BY <2>1, <3>1, <3>2, <3>3 DEF Sides
  <2>5. CASE ~(k < Key(t, x))
    <3>1. FindStep(t, k)[l] = Link(x, "right")
      BY <2>3, <2>5
    <3>2. \A s \in Sides : Link(x, s) = Link(x, "right") <=> s = "right"
      BY LinkFacts
    <3>3. \A s \in Sides : Less(s, k, Key(t, x)) <=> s = "right"
      BY <2>1, <2>2, <2>5 DEF Less, Sides
    <3> QED BY <2>1, <3>1, <3>2, <3>3 DEF Sides
  <2> QED BY <2>4, <2>5
<1> QED BY <1>3, <1>4

(* After n steps the search is at a link whose territory has the entry it  *)
(* looks for, if there is one; and which is smaller by n if it goes on.    *)
LEMMA SearchPath ==
  ASSUME NEW t \in Trees, NEW U \in SUBSET Addrs, NEW sub, Whole(t, U, sub), NEW k \in Nat
  PROVE  \A n \in Nat :
           /\ Path(t, k, n) \in OwnLinks(U)
           /\ \A y \in U : Key(t, y) = k => y \in Territory(t, U, sub, Path(t, k, n))
           /\ Stopped(t, k, Path(t, k, n)) \/ Cardinality(Territory(t, U, sub, Path(t, k, n))) <= Slots - n
<1> DEFINE P(n) == Path(t, k, n)
           Good(n) == /\ P(n) \in OwnLinks(U)
                      /\ \A y \in U : Key(t, y) = k => y \in Territory(t, U, sub, P(n))
                      /\ Stopped(t, k, P(n)) \/ Cardinality(Territory(t, U, sub, P(n))) <= Slots - n
           S == {n \in Nat : Good(n)}
<1>0. P(0) = RootLink /\ \A n \in Nat : P(n + 1) = FindStep(t, k)[P(n)]
  BY IterateDef DEF Path
<1> HIDE DEF P
<1>1. 0 \in S
  <2>1. P(0) \in OwnLinks(U) /\ Territory(t, U, sub, P(0)) = U
    BY <1>0, OwnLinksFacts, TerritoryFacts
  <2>2. Cardinality(Territory(t, U, sub, P(0))) <= Slots
    BY <2>1, TerritoryFinite
  <2>3. Slots - 0 = Slots
    BY SlotsFit
  <2> QED BY <2>1, <2>2, <2>3
<1>2. ASSUME NEW n \in Nat, n \in S PROVE n + 1 \in S
  <2>1. P(n) \in OwnLinks(U) /\ \A y \in U : Key(t, y) = k => y \in Territory(t, U, sub, P(n))
    BY <1>2
  <2>2. CASE Stopped(t, k, P(n))
    <3>1. P(n + 1) = P(n)
      BY <1>0, <2>1, <2>2, FindStepFacts
    <3> QED BY <2>1, <2>2, <3>1
  <2>3. CASE ~Stopped(t, k, P(n))
    <3> DEFINE x == Node(t, P(n))
    <3>1. x # Null /\ Key(t, x) # k /\ x \in U
      BY <2>1, <2>3, FindStepFacts DEF Stopped
    <3>2. PICK s \in Sides : P(n + 1) = Link(x, s) /\ Less(s, k, Key(t, x))
      BY <1>0, <2>1, <2>3, FindStepFacts
    <3>3. /\ P(n + 1) \in OwnLinks(U)
          /\ Territory(t, U, sub, P(n)) = sub[x]
          /\ Cardinality(Territory(t, U, sub, P(n + 1))) < Cardinality(Territory(t, U, sub, P(n)))
      BY <2>1, <3>1, <3>2, TerritoryShrinks
    <3>4. Territory(t, U, sub, P(n + 1)) = {y \in sub[x] : Less(s, Key(t, y), Key(t, x))}
      BY <3>1, <3>2, TerritoryFacts
    <3>5. \A y \in U : Key(t, y) = k => y \in Territory(t, U, sub, P(n + 1))
      BY <2>1, <3>2, <3>3, <3>4
    <3>6. Cardinality(Territory(t, U, sub, P(n))) <= Slots - n
      BY <1>2, <2>3
    <3>7. /\ Cardinality(Territory(t, U, sub, P(n))) \in Nat
          /\ Cardinality(Territory(t, U, sub, P(n + 1))) \in Nat
      BY <2>1, <3>3, TerritoryFinite
    <3>8. Cardinality(Territory(t, U, sub, P(n + 1))) <= Slots - (n + 1)
      BY <3>3, <3>6, <3>7, SlotsFit
    <3> QED BY <3>3, <3>5, <3>8
  <2> QED BY <2>2, <2>3
<1> HIDE DEF S
<1>3. Nat \subseteq S
  BY <1>1, <1>2, InductionOnSet
<1> QED BY <1>3 DEF S, P

(* The search finds the entry, or ends at a link to nothing.               *)
LEMMA FindGood ==
  ASSUME NEW t \in Trees, NEW U \in SUBSET Addrs, NEW sub, Whole(t, U, sub), NEW k \in Nat
  PROVE  /\ FindLink(t, k) \in OwnLinks(U) /\ FindNode(t, k) = Node(t, FindLink(t, k))
         /\ FindNode(t, k) # Null => FindNode(t, k) \in U /\ Key(t, FindNode(t, k)) = k
         /\ FindNode(t, k) = Null => \A y \in U : Key(t, y) # k
         /\ \A y \in U : Key(t, y) = k => FindNode(t, k) = y
         /\ \A n \in Nat : Node(t, Path(t, k, n)) = Null => Path(t, k, n) = FindLink(t, k)
<1> DEFINE l == FindLink(t, k)
<1>1. l = Path(t, k, Slots) /\ Slots \in Nat /\ Slots - Slots = 0
  BY SlotsFit DEF FindLink, Path
<1> HIDE DEF l
<1>2. /\ l \in OwnLinks(U)
      /\ \A y \in U : Key(t, y) = k => y \in Territory(t, U, sub, l)
      /\ Stopped(t, k, l) \/ Cardinality(Territory(t, U, sub, l)) <= 0
  BY <1>1, SearchPath
<1>3. Stopped(t, k, l)
  <2> SUFFICES ASSUME ~Stopped(t, k, l) PROVE FALSE
    OBVIOUS
  <2>1. Node(t, l) \in Territory(t, U, sub, l)
    BY <1>2, TerritoryShrinks DEF Stopped, Sides
  <2>2. IsFiniteSet(Territory(t, U, sub, l)) /\ Cardinality(Territory(t, U, sub, l)) \in Nat
    BY <1>2, TerritoryFinite
  <2>3. Cardinality(Territory(t, U, sub, l)) = 0
    BY <1>2, <2>2
  <2> QED BY <2>1, <2>2, <2>3, FS_EmptySet
<1>4. Node(t, l) # Null => Node(t, l) \in U /\ Key(t, Node(t, l)) = k
  BY <1>2, <1>3 DEF Stopped, Whole, LinkGood
<1>5. Node(t, l) = Null => Territory(t, U, sub, l) = {}
  BY <1>2 DEF Whole, LinkGood
<1>6. Node(t, l) = Null => \A y \in U : Key(t, y) # k
  BY <1>2, <1>5
<1>7. \A y \in U : Key(t, y) = k => Node(t, l) = y
  BY <1>4, <1>6 DEF Whole, KeysDiffer
<1>8. ASSUME NEW n \in Nat, Node(t, Path(t, k, n)) = Null PROVE Path(t, k, n) = l
  <2>1. Path(t, k, n) \in OwnLinks(U) /\ Stopped(t, k, Path(t, k, n))
    BY <1>8, SearchPath DEF Stopped
  <2>2. FindStep(t, k)[Path(t, k, n)] = Path(t, k, n) /\ FindStep(t, k)[l] = l
    BY <1>2, <1>3, <2>1, FindStepFacts
  <2>3. CASE n <= Slots
    BY <1>1, <2>2, <2>3, IterateStays DEF Path
  <2>4. CASE n >= Slots
    BY <1>1, <2>2, <2>4, IterateStays DEF Path
  <2> QED BY <1>1, <2>3, <2>4
<1> QED BY <1>2, <1>4, <1>6, <1>7, <1>8 DEF l, FindNode

-----------------------------------------------------------------------------
(* Insertion.                                                              *)

(* The links and the entries on the way of a search.                       *)
OnPath(t, k) == {Node(t, Path(t, k, n)) : n \in Nat} \ {Null}
Towards(t, k, l) ==
  l = RootLink \/ \E y \in OnPath(t, k), s \in Sides : l = Link(y, s) /\ Less(s, k, Key(t, y))

(* The search for an ID that is not there follows the links that lead to   *)
(* it, and each of them but the last one points to an entry on the way.    *)
LEMMA OnPathFacts ==
  ASSUME NEW t \in Trees, NEW U \in SUBSET Addrs, NEW sub, Whole(t, U, sub), NEW k \in Nat,
         FindNode(t, k) = Null
  PROVE  /\ OnPath(t, k) \subseteq U
         /\ Towards(t, k, FindLink(t, k))
         /\ \A l \in OwnLinks(U) : Node(t, l) # Null => (Node(t, l) \in OnPath(t, k) <=> Towards(t, k, l))
         /\ \A l \in OwnLinks(U) : Towards(t, k, l) /\ Node(t, l) = Null => l = FindLink(t, k)
<1> DEFINE P(n) == Path(t, k, n)
<1>0. P(0) = RootLink /\ \A n \in Nat : P(n + 1) = FindStep(t, k)[P(n)]
  BY IterateDef DEF Path
<1>1. \A n \in Nat : P(n) \in OwnLinks(U)
  BY SearchPath
<1>2. \A n \in Nat : Node(t, P(n)) = Null => P(n) = FindLink(t, k)
  BY FindGood
<1>3. \A y \in U : Key(t, y) # k
  BY FindGood
<1>4. \A y : y \in OnPath(t, k) <=> y # Null /\ \E n \in Nat : y = Node(t, P(n))
  BY DEF OnPath
<1>5. FindLink(t, k) = P(Slots) /\ Slots \in Nat
  BY SlotsFit DEF FindLink, Path
<1> HIDE DEF P
<1>6. \A n \in Nat : Node(t, P(n)) # Null => Node(t, P(n)) \in U
  BY <1>1 DEF Whole, LinkGood
<1>7. \A n \in Nat : Node(t, P(n)) # Null => ~Stopped(t, k, P(n))
  BY <1>3, <1>6 DEF Stopped
<1>8. ASSUME NEW y \in OnPath(t, k), NEW s \in Sides, Less(s, k, Key(t, y))
      PROVE  \E n \in Nat : P(n) = Link(y, s)
  <2>1. PICK n \in Nat : y = Node(t, P(n)) /\ y # Null
    BY <1>4
  <2>2. FindStep(t, k)[P(n)] = Link(y, s)
    BY <1>1, <1>7, <1>8, <2>1, FindStepFacts
  <2> QED BY <1>0, <2>2
<1>9. \A n \in Nat : Towards(t, k, P(n))
  <2> DEFINE S == {n \in Nat : Towards(t, k, P(n))}
  <2>1. 0 \in S
    BY <1>0 DEF Towards
  <2>2. ASSUME NEW n \in Nat, n \in S PROVE n + 1 \in S
    <3>1. CASE Node(t, P(n)) = Null
      <4>1. FindStep(t, k)[P(n)] = P(n)
        BY <1>1, <3>1, FindStepFacts DEF Stopped
      <4> QED BY <1>0, <2>2, <4>1
    <3>2. CASE Node(t, P(n)) # Null
      <4>1. PICK s \in Sides : FindStep(t, k)[P(n)] = Link(Node(t, P(n)), s)
        BY <1>1, <1>7, <3>2, FindStepFacts
      <4>2. Less(s, k, Key(t, Node(t, P(n))))
        BY <1>1, <1>7, <3>2, <4>1, FindStepFacts
      <4>3. Node(t, P(n)) \in OnPath(t, k)
        BY <1>4, <3>2
      <4>4. P(n + 1) = Link(Node(t, P(n)), s)
        BY <1>0, <4>1
      <4> QED BY <4>2, <4>3, <4>4 DEF Towards
    <3> QED BY <3>1, <3>2
  <2> HIDE DEF S
  <2>3. Nat \subseteq S
    BY <2>1, <2>2, InductionOnSet
  <2> QED BY <2>3 DEF S
<1>10. \A l : Towards(t, k, l) => \E n \in Nat : P(n) = l
  BY <1>0, <1>8 DEF Towards
<1>11. OnPath(t, k) \subseteq U
  BY <1>4, <1>6
<1>12. Towards(t, k, FindLink(t, k))
  BY <1>5, <1>9
<1>13. ASSUME NEW l \in OwnLinks(U), Node(t, l) # Null
       PROVE  Node(t, l) \in OnPath(t, k) <=> Towards(t, k, l)
  <2>1. ASSUME Node(t, l) \in OnPath(t, k) PROVE Towards(t, k, l)
    <3>1. PICK n \in Nat : Node(t, l) = Node(t, P(n))
      BY <1>4, <2>1
    <3>2. l = P(n)
      BY <1>1, <1>13, <3>1 DEF Whole, OneParent
    <3> QED BY <1>9, <3>2
  <2>2. ASSUME Towards(t, k, l) PROVE Node(t, l) \in OnPath(t, k)
    BY <1>4, <1>10, <1>13, <2>2
  <2> QED BY <2>1, <2>2
<1>14. \A l \in OwnLinks(U) : Towards(t, k, l) /\ Node(t, l) = Null => l = FindLink(t, k)
  BY <1>2, <1>10
<1> QED BY <1>11, <1>12, <1>13, <1>14

(* A new entry where the search for its ID ends.                           *)
LEMMA InsertKeeps ==
  ASSUME NEW t \in Trees, NEW U \in SUBSET Addrs, TreeOK(t, U), NEW k \in Nat, FindNode(t, k) = Null,
         NEW x \in Addrs \ U, NEW v \in Trees,
         \A m \in OwnLinks(U) : Node(v, m) = IF m = FindLink(t, k) THEN x ELSE Node(t, m),
         \A s \in Sides : Node(v, Link(x, s)) = Null,
         \A y \in U : Key(v, y) = Key(t, y), Key(v, x) = k
  PROVE  TreeOK(v, U \union {x})
<1>1. PICK sub : Whole(t, U, sub)
  BY DEF TreeOK
<1> DEFINE V == U \union {x}
           O == OnPath(t, k)
           L == FindLink(t, k)
           new == [z \in V |-> IF z = x THEN {x} ELSE IF z \in O THEN sub[z] \union {x} ELSE sub[z]]
<1>2. V \in SUBSET Addrs /\ x \in V /\ x # Null
  BY AddrsFit
<1>3. /\ O \subseteq U /\ Towards(t, k, L)
      /\ \A l \in OwnLinks(U) : Node(t, l) # Null => (Node(t, l) \in O <=> Towards(t, k, l))
      /\ \A l \in OwnLinks(U) : Towards(t, k, l) /\ Node(t, l) = Null => l = L
  BY <1>1, OnPathFacts
<1>4. L \in OwnLinks(U) /\ Node(t, L) = Null /\ \A y \in U : Key(t, y) # k
  BY <1>1, FindGood
<1>5. sub \in [U -> SUBSET U] /\ \A z \in U : z \in sub[z]
  BY <1>1 DEF Whole, Subtrees
<1>6. Subtrees(V, new)
  BY <1>5 DEF Subtrees
<1>7. KeysDiffer(v, V)
  BY <1>1, <1>4 DEF KeysDiffer, Whole
<1>8. /\ OwnLinks(U) \subseteq OwnLinks(V)
      /\ \A l \in OwnLinks(V) : l \in OwnLinks(U) \/ \E s \in Sides : l = Link(x, s)
  BY DEF OwnLinks
<1>9. \A l \in OwnLinks(U) : Node(v, l) = IF l = L THEN x ELSE Node(t, l)
  OBVIOUS
<1>10. \A l \in OwnLinks(U) : Node(t, l) # Null => Node(t, l) \in U
  BY <1>1 DEF Whole, LinkGood
<1>11. OneParent(v, V)
  <2> SUFFICES ASSUME NEW l \in OwnLinks(V), NEW m \in OwnLinks(V), Node(v, l) = Node(v, m), Node(v, l) # Null
               PROVE  l = m
    BY DEF OneParent
  <2>1. l \in OwnLinks(U) /\ m \in OwnLinks(U)
    BY <1>8
  <2>2. \A a, b \in OwnLinks(U) : Node(t, a) = Node(t, b) /\ Node(t, a) # Null => a = b
    BY <1>1 DEF Whole, OneParent
  <2> QED BY <1>9, <1>10, <2>1, <2>2
<1>12. ASSUME NEW l \in OwnLinks(U)
       PROVE  Territory(v, V, new, l) =
                IF Towards(t, k, l) THEN Territory(t, U, sub, l) \union {x} ELSE Territory(t, U, sub, l)
  <2>1. CASE l = RootLink
    BY <2>1 DEF Territory, Towards
  <2>2. CASE l # RootLink
    <3>1. PICK y \in U, s \in Sides : l = Link(y, s)
      BY <2>2, OwnLinksFacts
    <3>2. /\ Territory(v, V, new, l) = {z \in new[y] : Less(s, Key(v, z), Key(v, y))}
          /\ Territory(t, U, sub, l) = {z \in sub[y] : Less(s, Key(t, z), Key(t, y))}
      BY <2>2, <3>1, LinkFacts DEF Territory
    <3>3. Towards(t, k, l) <=> y \in O /\ Less(s, k, Key(t, y))
      BY <2>2, <3>1, LinkFacts DEF Towards
    <3>4. sub[y] \subseteq U /\ x \notin U /\ y # x
      BY <1>5
    <3>5. CASE y \in O
      <4>1. new[y] = sub[y] \union {x}
        BY <1>2, <3>4, <3>5
      <4> HIDE DEF new
      <4> QED BY <3>2, <3>3, <3>4, <3>5, <4>1
    <3>6. CASE y \notin O
      <4>1. new[y] = sub[y]
        BY <1>2, <3>4, <3>6
      <4> HIDE DEF new
      <4> QED BY <3>2, <3>3, <3>4, <3>6, <4>1
    <3> QED BY <3>5, <3>6
  <2> QED BY <2>1, <2>2
<1>13. new[x] = {x} /\ \A w \in U : new[w] = IF w \in O THEN sub[w] \union {x} ELSE sub[w]
  BY <1>2
<1> HIDE DEF new, O, V
<1>14. ASSUME NEW l \in OwnLinks(U) PROVE LinkGood(v, V, new, l)
  <2>1. CASE l = L
    <3>1. Territory(t, U, sub, l) = {}
      BY <1>1, <1>4, <2>1 DEF Whole, LinkGood
    <3>2. Node(v, l) = x /\ Territory(v, V, new, l) = {x}
      BY <1>3, <1>12, <2>1, <3>1
    <3> QED BY <1>2, <1>13, <3>2 DEF LinkGood
  <2>2. CASE l # L /\ Node(t, l) = Null
    <3>1. Territory(t, U, sub, l) = {} /\ ~Towards(t, k, l)
      BY <1>1, <1>3, <2>2 DEF Whole, LinkGood
    <3> QED BY <1>12, <2>2, <3>1 DEF LinkGood
  <2>3. CASE l # L /\ Node(t, l) # Null
    <3>1. Node(t, l) \in U /\ sub[Node(t, l)] = Territory(t, U, sub, l)
      BY <1>1, <2>3 DEF Whole, LinkGood
    <3>2. Node(t, l) \in O <=> Towards(t, k, l)
      BY <1>3, <2>3
    <3>3. new[Node(t, l)] = Territory(v, V, new, l)
      BY <1>12, <1>13, <3>1, <3>2
    <3>4. Node(t, l) \in V
      BY <3>1 DEF V
    <3> QED BY <2>3, <3>3, <3>4 DEF LinkGood
  <2> QED BY <2>1, <2>2, <2>3
<1>15. ASSUME NEW s \in Sides PROVE LinkGood(v, V, new, Link(x, s))
  <2>1. Territory(v, V, new, Link(x, s)) = {z \in new[x] : Less(s, Key(v, z), Key(v, x))}
    BY LinkFacts DEF Territory
  <2>2. ~Less(s, k, k)
    BY DEF Less
  <2> QED BY <1>13, <2>1, <2>2 DEF LinkGood
<1>16. \A l \in OwnLinks(V) : LinkGood(v, V, new, l)
  BY <1>8, <1>14, <1>15
<1> QED BY <1>6, <1>7, <1>11, <1>16 DEF Whole, TreeOK, V

-----------------------------------------------------------------------------
(* Removal.                                                                *)

(* Territories are nested, and an entry in one that is not its root has    *)
(* its parent there.                                                       *)
Nested(t, U, sub, l) ==
  \A w \in Territory(t, U, sub, l) :
    /\ sub[w] \subseteq Territory(t, U, sub, l)
    /\ w = Node(t, l) \/ \E p \in Territory(t, U, sub, l), s \in Sides : Node(t, Link(p, s)) = w

(* Whatever is below an entry of a territory is in that territory, and     *)
(* only the entry at its link has its parent elsewhere; by induction on    *)
(* the size of the territory.                                              *)
LEMMA TerritoriesNested ==
  ASSUME NEW t \in Trees, NEW U \in SUBSET Addrs, NEW sub, Whole(t, U, sub)
  PROVE  \A l \in OwnLinks(U) : Nested(t, U, sub, l)
<1> DEFINE T(l) == Territory(t, U, sub, l)
           S == {n \in Nat : \A l \in OwnLinks(U) : Cardinality(T(l)) <= n => Nested(t, U, sub, l)}
<1>1. \A l \in OwnLinks(U) : IsFiniteSet(T(l)) /\ Cardinality(T(l)) \in Nat
  BY TerritoryFinite
<1>2. \A l \in OwnLinks(U) : Node(t, l) = Null => T(l) = {}
  BY DEF Whole, LinkGood
<1>3. 0 \in S
  <2> SUFFICES ASSUME NEW l \in OwnLinks(U), Cardinality(T(l)) <= 0 PROVE Nested(t, U, sub, l)
    OBVIOUS
  <2>1. T(l) = {}
    BY <1>1, FS_EmptySet
  <2> QED BY <2>1 DEF Nested
<1>4. ASSUME NEW n \in Nat, n \in S PROVE n + 1 \in S
  <2> SUFFICES ASSUME NEW l \in OwnLinks(U), Cardinality(T(l)) <= n + 1 PROVE Nested(t, U, sub, l)
    OBVIOUS
  <2>1. CASE Node(t, l) = Null
    BY <1>2, <2>1 DEF Nested
  <2>2. CASE Node(t, l) # Null
    <3> DEFINE z == Node(t, l)
    <3>1. z \in U /\ T(l) = sub[z] /\ z \in T(l)
      BY <2>2, TerritoryShrinks DEF Sides
    <3>2. \A s \in Sides : /\ Link(z, s) \in OwnLinks(U) /\ T(Link(z, s)) \subseteq T(l)
                           /\ Cardinality(T(Link(z, s))) < Cardinality(T(l))
      BY <2>2, TerritoryShrinks
    <3>3. \A s \in Sides : Cardinality(T(Link(z, s))) <= n
      BY <1>1, <3>2
    <3>4. \A s \in Sides : Nested(t, U, sub, Link(z, s))
      BY <1>4, <3>2, <3>3
    <3>5. \A w \in T(l) : w = z \/ \E s \in Sides : w \in T(Link(z, s))
      BY <3>1, SidesOf DEF Sides
    <3> HIDE DEF z, T
    <3> SUFFICES ASSUME NEW w \in T(l)
                 PROVE  sub[w] \subseteq T(l) /\ (w = z \/ \E p \in T(l), s \in Sides : Node(t, Link(p, s)) = w)
      BY DEF Nested, T, z
    <3>6. CASE w = z
      BY <3>1, <3>6
    <3>7. CASE w # z
      <4>1. PICK s \in Sides : w \in T(Link(z, s))
        BY <3>5, <3>7
      <4>2. /\ sub[w] \subseteq T(Link(z, s))
            /\ w = Node(t, Link(z, s)) \/ \E p \in T(Link(z, s)), r \in Sides : Node(t, Link(p, r)) = w
        BY <3>4, <4>1 DEF Nested, T
      <4> QED BY <3>1, <3>2, <4>2
    <3> QED BY <3>6, <3>7
  <2> QED BY <2>1, <2>2
<1> HIDE DEF S
<1>5. Nat \subseteq S
  BY <1>3, <1>4, InductionOnSet
<1> QED BY <1>1, <1>5 DEF S

(* An entry below x has its parent at x or below.                          *)
LEMMA ParentBelow ==
  ASSUME NEW t \in Trees, NEW U \in SUBSET Addrs, NEW sub, Whole(t, U, sub), NEW x \in U,
         NEW w \in sub[x], w # x, NEW m \in OwnLinks(U), Node(t, m) = w
  PROVE  \E p \in sub[x], s \in Sides : m = Link(p, s)
<1>1. PICK s \in Sides : w \in Territory(t, U, sub, Link(x, s))
  BY SidesOf DEF Sides
<1>2. Link(x, s) \in OwnLinks(U) /\ Territory(t, U, sub, Link(x, s)) \subseteq sub[x] /\ x \in sub[x]
  BY OwnLinksFacts, TerritoryFacts DEF Whole, Subtrees
<1>3. w = Node(t, Link(x, s)) \/ \E p \in Territory(t, U, sub, Link(x, s)), r \in Sides : Node(t, Link(p, r)) = w
  BY <1>1, <1>2, TerritoriesNested DEF Nested
<1>4. \E p \in sub[x], r \in Sides : Node(t, Link(p, r)) = w
  BY <1>2, <1>3
<1>5. PICK p \in sub[x], r \in Sides : Node(t, Link(p, r)) = w
  BY <1>4
<1>6. p \in U /\ w \in U /\ w # Null
  <2>1. sub[x] \subseteq U
    BY DEF Whole, Subtrees
  <2> QED BY <2>1, AddrsFit
<1>7. Link(p, r) \in OwnLinks(U)
  BY <1>6, OwnLinksFacts
<1>8. m = Link(p, r)
  BY <1>5, <1>6, <1>7 DEF Whole, OneParent
<1> QED BY <1>8

(* The last link on one side points to the extreme entry.                  *)
Beyond(t, A, B, side) == \A z \in A \ B, w \in B : Less(side, Key(t, z), Key(t, w))

(* So find_replacement_node ends at an entry without a child on that side, *)
(* and everything else that was below lies beyond it.                      *)
LEMMA LastGood ==
  ASSUME NEW t \in Trees, NEW U \in SUBSET Addrs, NEW sub, Whole(t, U, sub),
         NEW start \in OwnLinks(U), Node(t, start) # Null, NEW s \in Sides,
         NEW l, l = Last(t, start, Opp(s)), NEW y, y = Node(t, l)
  PROVE  /\ l \in OwnLinks(U) /\ y \in U /\ Node(t, Link(y, Opp(s))) = Null
         /\ y \in Territory(t, U, sub, start)
         /\ l = start \/ \E p \in Territory(t, U, sub, start) : p # y /\ l = Link(p, Opp(s))
         /\ \A z \in Territory(t, U, sub, start) : z # y => Less(s, Key(t, z), Key(t, y))
<1> DEFINE o == Opp(s)
           T(m) == Territory(t, U, sub, m)
           P(n) == Iterate(LastStep(t, o), start, n)
           At(m) == /\ m \in OwnLinks(U) /\ Node(t, m) # Null /\ T(m) \subseteq T(start)
                    /\ Beyond(t, T(start), T(m), s)
                    /\ m = start \/ \E p \in T(start) : p \notin T(m) /\ m = Link(p, o)
           Ends(m) == Node(t, Link(Node(t, m), o)) = Null
           S == {n \in Nat : At(P(n)) /\ (Ends(P(n)) \/ Cardinality(T(P(n))) <= Slots - n)}
<1>0. /\ P(0) = start /\ \A n \in Nat : P(n + 1) = LastStep(t, o)[P(n)]
      /\ l = P(Slots) /\ Slots \in Nat /\ Slots - Slots = 0 /\ Slots - 0 = Slots
  BY IterateDef, SlotsFit DEF Last
<1>1. o \in Sides /\ o # s
  BY DEF Sides, Opp
<1>2. ASSUME NEW m \in OwnLinks(U)
      PROVE  LastStep(t, o)[m] = IF Ends(m) THEN m ELSE Link(Node(t, m), o)
  <2>1. m \in Links
    BY OwnLinksFacts
  <2> QED BY <2>1 DEF LastStep
<1>3. \A m \in OwnLinks(U) : IsFiniteSet(T(m)) /\ Cardinality(T(m)) \in Nat /\ Cardinality(T(m)) <= Slots
  BY TerritoryFinite
<1> HIDE DEF P, T, o
<1>4. 0 \in S
  BY <1>0, <1>3 DEF Beyond
<1>5. ASSUME NEW n \in Nat, n \in S PROVE n + 1 \in S
  <2>1. At(P(n))
    BY <1>5
  <2>2. CASE Ends(P(n))
    <3>1. P(n + 1) = P(n)
      BY <1>0, <1>2, <2>1, <2>2
    <3> QED BY <2>1, <2>2, <3>1
  <2>3. CASE ~Ends(P(n))
    <3> DEFINE v == Node(t, P(n))
               m == Link(v, o)
    <3>1. P(n + 1) = m /\ Node(t, m) # Null
      BY <1>0, <1>2, <2>1, <2>3
    <3>2. /\ v \in U /\ m \in OwnLinks(U) /\ v \in T(P(n)) /\ T(P(n)) = sub[v]
          /\ T(m) \subseteq T(P(n)) /\ Cardinality(T(m)) < Cardinality(T(P(n)))
      BY <1>1, <2>1, TerritoryShrinks DEF T
    <3>3. T(m) = {w \in sub[v] : Less(o, Key(t, w), Key(t, v))} /\ T(m) \subseteq sub[v] \ {v}
      BY <1>1, <3>2, TerritoryFacts DEF T
    <3> HIDE DEF m, v
    <3>4. sub[v] \subseteq U
      BY <3>2 DEF Whole, Subtrees
    <3>5. Beyond(t, T(start), T(m), s)
      <4> SUFFICES ASSUME NEW z \in T(start) \ T(m), NEW w \in T(m) PROVE Less(s, Key(t, z), Key(t, w))
        BY DEF Beyond
      <4>1. w \in T(P(n)) /\ Less(o, Key(t, w), Key(t, v)) /\ w \in U
        BY <3>2, <3>3, <3>4
      <4>2. CASE z \notin T(P(n))
        BY <2>1, <4>1, <4>2 DEF Beyond
      <4>3. CASE z \in T(P(n))
        <5>1. z \in U /\ ~Less(o, Key(t, z), Key(t, v))
          BY <3>2, <3>3, <3>4, <4>3
        <5>2. Key(t, z) \in Nat /\ Key(t, w) \in Nat /\ Key(t, v) \in Nat
          BY <3>2, <4>1, <5>1, NodeFacts
        <5> QED BY <4>1, <5>1, <5>2 DEF Less, Sides, Opp, o
      <4> QED BY <4>2, <4>3
    <3>6. At(m)
      BY <2>1, <3>1, <3>2, <3>3, <3>5 DEF m
    <3>7. Cardinality(T(P(n))) <= Slots - n
      BY <1>5, <2>3
    <3>8. Cardinality(T(m)) <= Slots - (n + 1)
      BY <1>0, <1>3, <2>1, <3>2, <3>7
    <3> QED BY <3>1, <3>6, <3>8
  <2> QED BY <2>2, <2>3
<1> HIDE DEF S
<1>6. Nat \subseteq S
  BY <1>4, <1>5, InductionOnSet
<1>7. At(l) /\ (Ends(l) \/ Cardinality(T(l)) <= 0)
  BY <1>0, <1>6 DEF S
<1>8. y \in U /\ y \in T(l) /\ T(l) = sub[y]
  BY <1>1, <1>7, TerritoryShrinks DEF T
<1>9. Ends(l)
  <2> SUFFICES ASSUME Cardinality(T(l)) <= 0 PROVE FALSE
    BY <1>7
  <2>1. Cardinality(T(l)) = 0
    BY <1>3, <1>7
  <2> QED BY <1>3, <1>7, <1>8, <2>1, FS_EmptySet
<1>10. Link(y, o) \in OwnLinks(U) /\ T(Link(y, o)) = {}
  <2>1. Link(y, o) \in OwnLinks(U)
    BY <1>1, <1>8, OwnLinksFacts
  <2> QED BY <1>9, <2>1 DEF Whole, LinkGood, T
<1>11. ASSUME NEW z \in T(start), z # y PROVE Less(s, Key(t, z), Key(t, y))
  <2>1. CASE z \notin T(l)
    BY <1>7, <1>8, <1>11, <2>1 DEF Beyond
  <2>2. CASE z \in T(l)
    <3>1. T(Link(y, o)) = {w \in sub[y] : Less(o, Key(t, w), Key(t, y))}
      BY <1>1, <1>8, TerritoryFacts DEF T
    <3>2. ~Less(o, Key(t, z), Key(t, y)) /\ z \in U
      BY <1>8, <1>10, <2>2, <3>1 DEF Whole, Subtrees
    <3>3. Key(t, z) \in Nat /\ Key(t, y) \in Nat /\ Key(t, z) # Key(t, y)
      BY <1>8, <1>11, <3>2, NodeFacts DEF Whole, KeysDiffer
    <3> QED BY <3>2, <3>3 DEF Less, Sides, Opp, o
  <2> QED BY <2>1, <2>2
<1>12. y \in T(start) /\ (l = start \/ \E p \in T(start) : p # y /\ l = Link(p, o))
  BY <1>7, <1>8
<1> QED BY <1>7, <1>8, <1>9, <1>11, <1>12 DEF T, o

(* An entry without children goes.                                         *)
LEMMA RemoveLeaf ==
  ASSUME NEW t \in Trees, NEW U \in SUBSET Addrs, NEW sub, Whole(t, U, sub), NEW x \in U,
         NEW l \in OwnLinks(U), Node(t, l) = x, \A s \in Sides : Node(t, Link(x, s)) = Null,
         NEW v \in Trees,
         \A m \in OwnLinks(U \ {x}) : Node(v, m) = IF m = l THEN Null ELSE Node(t, m),
         \A z \in U \ {x} : Key(v, z) = Key(t, z)
  PROVE  TreeOK(v, U \ {x})
<1> DEFINE W == U \ {x}
           new == [z \in W |-> sub[z] \ {x}]
<1>1. sub \in [U -> SUBSET U] /\ \A z \in U : z \in sub[z]
  BY DEF Whole, Subtrees
<1>2. Subtrees(W, new)
  BY <1>1 DEF Subtrees
<1>3. KeysDiffer(v, W)
  BY DEF Whole, KeysDiffer
<1>4. OwnLinks(W) \subseteq OwnLinks(U) /\ x # Null
  BY AddrsFit DEF OwnLinks
<1>5. \A m, n \in OwnLinks(U) : Node(t, m) = Node(t, n) /\ Node(t, m) # Null => m = n
  BY DEF Whole, OneParent
<1>6. OneParent(v, W)
  BY <1>4, <1>5 DEF OneParent
<1>7. \A s \in Sides : Link(x, s) \in OwnLinks(U)
  BY OwnLinksFacts
<1>8. sub[x] = {x}
  <2>1. \A s \in Sides : Territory(t, U, sub, Link(x, s)) = {}
    BY <1>7 DEF Whole, LinkGood
  <2>2. Territory(t, U, sub, Link(x, "left")) = {} /\ Territory(t, U, sub, Link(x, "right")) = {}
    BY <2>1 DEF Sides
  <2>3. sub[x] = {x} \union Territory(t, U, sub, Link(x, "left"))
                     \union Territory(t, U, sub, Link(x, "right"))
    BY SidesOf
  <2> QED BY <2>2, <2>3
<1>9. ASSUME NEW m \in OwnLinks(W)
      PROVE  Territory(v, W, new, m) = Territory(t, U, sub, m) \ {x}
  <2>1. CASE m = RootLink
    BY <2>1 DEF Territory
  <2>2. CASE m # RootLink
    <3>1. PICK z \in W, s \in Sides : m = Link(z, s)
      BY <2>2, OwnLinksFacts
    <3>2. /\ Territory(v, W, new, m) = {w \in new[z] : Less(s, Key(v, w), Key(v, z))}
          /\ Territory(t, U, sub, m) = {w \in sub[z] : Less(s, Key(t, w), Key(t, z))}
      BY <2>2, <3>1, LinkFacts DEF Territory
    <3>3. new[z] = sub[z] \ {x} /\ sub[z] \subseteq U
      BY <1>1
    <3> HIDE DEF new
    <3> QED BY <3>2, <3>3
  <2> QED BY <2>1, <2>2
<1>10. \A z \in W : new[z] = sub[z] \ {x}
  OBVIOUS
<1> HIDE DEF new
<1>11. ASSUME NEW m \in OwnLinks(W) PROVE LinkGood(v, W, new, m)
  <2>1. LinkGood(t, U, sub, m)
    BY <1>4 DEF Whole
  <2>2. CASE m = l
    BY <1>4, <1>8, <1>9, <2>1, <2>2 DEF LinkGood
  <2>3. CASE m # l /\ Node(t, m) = Null
    BY <1>9, <2>1, <2>3 DEF LinkGood
  <2>4. CASE m # l /\ Node(t, m) # Null
    <3>1. Node(t, m) # x
      BY <1>4, <1>5, <2>4
    <3> QED BY <1>9, <1>10, <2>1, <2>4, <3>1 DEF LinkGood
  <2> QED BY <2>2, <2>3, <2>4
<1> QED BY <1>2, <1>3, <1>6, <1>11 DEF Whole, TreeOK

(* The link to an entry is not below this entry.                           *)
LEMMA ParentAbove ==
  ASSUME NEW t \in Trees, NEW U \in SUBSET Addrs, NEW sub, Whole(t, U, sub), NEW x \in U,
         NEW l \in OwnLinks(U), Node(t, l) = x
  PROVE  \A z \in sub[x], s \in Sides : l # Link(z, s)
<1> SUFFICES ASSUME NEW z \in sub[x], NEW s \in Sides, l = Link(z, s) PROVE FALSE
  OBVIOUS
<1>1. z \in U /\ x # Null
  BY AddrsFit DEF Whole, Subtrees
<1>2. sub[x] = Territory(t, U, sub, l)
  BY <1>1 DEF Whole, LinkGood
<1>3. Territory(t, U, sub, l) \subseteq sub[z] \ {z}
  BY <1>1, TerritoryFacts
<1> QED BY <1>2, <1>3

(* An entry with a child on one side is replaced by the extreme entry y of *)
(* this side, which the link "a" points to: the link of t that a link of   *)
(* the new tree is taken from, where l is the link to x.                   *)
Origin(x, s, l, a, y, m) ==
  IF m = l THEN a
  ELSE IF m = Link(y, s) THEN IF a = Link(x, s) THEN Link(y, s) ELSE Link(x, s)
  ELSE IF m = Link(y, Opp(s)) THEN Link(x, Opp(s))
  ELSE IF m = a THEN Link(y, s) ELSE m

Rewired(t, v, U, x, s, l, a, y) ==
  /\ \A m \in OwnLinks(U \ {x}) : Node(v, m) = Node(t, Origin(x, s, l, a, y, m))
  /\ \A z \in U \ {x} : Key(v, z) = Key(t, z)

(* A node with children is replaced by the last one of a side, whose only  *)
(* child takes its place: what is left is a tree again (remove_node).      *)
LEMMA RemoveInner ==
  ASSUME NEW t \in Trees, NEW U \in SUBSET Addrs, NEW sub, Whole(t, U, sub), NEW x \in U,
         NEW l \in OwnLinks(U), Node(t, l) = x, NEW s \in Sides, Node(t, Link(x, s)) # Null,
         NEW a, a = Last(t, Link(x, s), Opp(s)), NEW y, y = Node(t, a), NEW v \in Trees,
         Rewired(t, v, U, x, s, l, a, y)
  PROVE  TreeOK(v, U \ {x})
<1>0. /\ \A m \in OwnLinks(U \ {x}) : Node(v, m) = Node(t, Origin(x, s, l, a, y, m))
      /\ \A z \in U \ {x} : Key(v, z) = Key(t, z)
  BY DEF Rewired
<1> DEFINE W == U \ {x}
           o == Opp(s)
           start == Link(x, s)
           T(m) == Territory(t, U, sub, m)
           new == [z \in W |-> IF z = y THEN sub[x] \ {x}
                               ELSE IF z \in sub[x] THEN sub[z] \ {y} ELSE sub[z] \ {x}]
           N(m) == Territory(v, W, new, m)
<1>1. o \in Sides /\ o # s /\ (\A r \in Sides : r = s \/ r = o) /\ x # Null
  BY AddrsFit DEF Sides, Opp
<1>2. \A z \in U, r \in Sides : Link(z, r) \in OwnLinks(U)
  BY OwnLinksFacts
<1>3. sub \in [U -> SUBSET U] /\ \A z \in U : z \in sub[z]
  BY DEF Whole, Subtrees
<1>4. /\ a \in OwnLinks(U) /\ y \in U /\ Node(t, Link(y, o)) = Null /\ y \in T(start)
      /\ a = start \/ \E p \in T(start) : p # y /\ a = Link(p, o)
      /\ \A z \in T(start) : z # y => Less(s, Key(t, z), Key(t, y))
  BY <1>2, LastGood
<1>5. T(start) = {z \in sub[x] : Less(s, Key(t, z), Key(t, x))} /\ T(start) \subseteq sub[x] \ {x}
  BY TerritoryFacts
<1>6. /\ T(Link(x, o)) = {z \in sub[x] : Less(o, Key(t, z), Key(t, x))}
      /\ T(Link(x, o)) \subseteq sub[x] \ {x}
  BY <1>1, TerritoryFacts
<1>7. sub[x] = {x} \union T(start) \union T(Link(x, o))
  <2>1. sub[x] = {x} \union T(Link(x, "left")) \union T(Link(x, "right"))
    BY SidesOf
  <2> HIDE DEF T
  <2> QED BY <2>1 DEF Sides, Opp
<1>8. T(start) \intersect T(Link(x, o)) = {}
  BY SidesOf
<1>9. y \in W /\ y # Null /\ y \in sub[x]
  BY <1>4, <1>5, AddrsFit
<1>10. \A m, n \in OwnLinks(U) : Node(t, m) = Node(t, n) /\ Node(t, m) # Null => m = n
  BY DEF Whole, OneParent
<1>11. \A m \in OwnLinks(U) : IF Node(t, m) = Null THEN T(m) = {}
                             ELSE Node(t, m) \in U /\ sub[Node(t, m)] = T(m)
  BY DEF Whole, LinkGood
<1>12. OwnLinks(W) \subseteq OwnLinks(U)
  BY DEF OwnLinks
<1>13. \A z \in sub[x], r \in Sides : l # Link(z, r)
  BY ParentAbove
<1>14. \A z \in U, r \in Sides, m \in OwnLinks(U) : T(Link(z, r)) \subseteq sub[z] \ {z}
  BY TerritoryFacts
<1>15. ASSUME NEW z \in sub[x] \ {x} PROVE sub[z] \subseteq sub[x] \ {x}
  <2>1. CASE z \in T(start)
    <3>1. sub[z] \subseteq T(start)
      BY <1>2, <2>1, TerritoriesNested DEF Nested
    <3> QED BY <1>5, <3>1
  <2>2. CASE z \in T(Link(x, o))
    <3>1. sub[z] \subseteq T(Link(x, o))
      BY <1>1, <1>2, <2>2, TerritoriesNested DEF Nested
    <3> QED BY <1>6, <3>1
  <2> QED BY <1>7, <2>1, <2>2
<1>16. \A w \in sub[x] \ {x}, m \in OwnLinks(U) :
         Node(t, m) = w => \E p \in sub[x], r \in Sides : m = Link(p, r)
  BY ParentBelow
<1>17. Subtrees(W, new)
  BY <1>3, <1>9, <1>15 DEF Subtrees
<1>18. KeysDiffer(v, W)
  BY <1>0 DEF Whole, KeysDiffer
<1>19. /\ \A z \in W : new[z] = IF z = y THEN sub[x] \ {x}
                                ELSE IF z \in sub[x] THEN sub[z] \ {y} ELSE sub[z] \ {x}
       /\ N(RootLink) = W
       /\ \A z \in W, r \in Sides : N(Link(z, r)) = {w \in new[z] : Less(r, Key(t, w), Key(t, z))}
  <2>1. \A z \in W, r \in Sides : N(Link(z, r)) = {w \in new[z] : Less(r, Key(v, w), Key(v, z))}
    BY LinkFacts DEF Territory
  <2>2. \A z \in W : new[z] \subseteq W
    BY <1>17 DEF Subtrees
  <2>3. N(RootLink) = W
    BY DEF Territory
  <2>4. \A z \in W : new[z] = IF z = y THEN sub[x] \ {x}
                            ELSE IF z \in sub[x] THEN sub[z] \ {y} ELSE sub[z] \ {x}
    OBVIOUS
  <2> HIDE DEF new, N
  <2>5. ASSUME NEW z \in W, NEW r \in Sides
        PROVE  N(Link(z, r)) = {w \in new[z] : Less(r, Key(t, w), Key(t, z))}
    <3>1. Key(v, z) = Key(t, z) /\ \A w \in new[z] : Key(v, w) = Key(t, w)
      BY <1>0, <2>2
    <3>2. N(Link(z, r)) = {w \in new[z] : Less(r, Key(v, w), Key(v, z))}
      BY <2>1
    <3> QED BY <3>1, <3>2
  <2> HIDE DEF W
  <2> QED BY <2>3, <2>4, <2>5
<1>20. \A z \in U, r \in Sides : T(Link(z, r)) = {w \in sub[z] : Less(r, Key(t, w), Key(t, z))}
  BY TerritoryFacts
<1>21. \A z \in U : Key(t, z) \in Nat
  BY NodeFacts
<1>22. T(RootLink) = U
  BY TerritoryFacts
<1>23. \A z, r, w, q : Link(z, r) = Link(w, q) => z = w /\ r = q
  BY LinkFacts
<1>24. \A z \in U, r \in Sides : Link(z, r) # RootLink
  BY LinkFacts
<1>25. \A m \in OwnLinks(W) : /\ m = RootLink \/ \E z \in W, r \in Sides : m = Link(z, r)
                             /\ m \in OwnLinks(U) /\ Node(v, m) = Node(t, Origin(x, s, l, a, y, m))
  BY <1>0, <1>12, OwnLinksFacts
<1>26. ~(\E r \in Sides : l = Link(x, r)) /\ l # a /\ l # Link(y, s) /\ l # Link(y, o)
  BY <1>1, <1>3, <1>4, <1>5, <1>9, <1>13
<1>27. a # Link(y, s) /\ a # Link(y, o)
  BY <1>1, <1>4, <1>9, <1>23
<1> HIDE DEF new, N, T, W
<1>28. T(l) = sub[x]
  BY <1>1, <1>11
<1>29. sub[y] = {y} \union T(Link(y, s))
  <2>1. sub[y] = {y} \union T(Link(y, "left")) \union T(Link(y, "right"))
    BY <1>4, SidesOf DEF T
  <2>2. T(Link(y, o)) = {}
    BY <1>1, <1>2, <1>4, <1>11
  <2> QED BY <2>1, <2>2 DEF Sides, Opp
<1>30. sub[y] = T(a)
  BY <1>4, <1>9, <1>11
<1>31. \A z \in W : z \in U /\ z # x
  BY DEF W
<1> DEFINE Good(m) == LinkGood(v, W, new, m)
<1>32. \A m : Good(m) <=> IF Node(v, m) = Null THEN N(m) = {}
                         ELSE Node(v, m) \in W /\ new[Node(v, m)] = N(m)
  BY DEF LinkGood, N
<1> HIDE DEF Good
<1>33. Node(v, l) = y /\ l \in OwnLinks(W) => Good(l)
  <2> SUFFICES ASSUME Node(v, l) = y, l \in OwnLinks(W) PROVE N(l) = sub[x] \ {x}
    BY <1>9, <1>19, <1>32
  <2>1. CASE l = RootLink
    BY <1>19, <1>22, <1>28, <2>1 DEF W
  <2>2. CASE l # RootLink
    <3>1. PICK z \in W, r \in Sides : l = Link(z, r)
      BY <1>25, <2>2
    <3>2. z \notin sub[x] /\ z # y
      BY <1>9, <1>13, <3>1
    <3>3. new[z] = sub[z] \ {x} /\ N(l) = {w \in new[z] : Less(r, Key(t, w), Key(t, z))}
      BY <1>19, <3>1, <3>2
    <3>4. T(l) = {w \in sub[z] : Less(r, Key(t, w), Key(t, z))}
      BY <1>20, <1>31, <3>1
    <3> QED BY <1>28, <3>3, <3>4
  <2> QED BY <2>1, <2>2
<1>34. Link(y, s) \in OwnLinks(W) => Good(Link(y, s))
  <2> SUFFICES ASSUME Link(y, s) \in OwnLinks(W) PROVE Good(Link(y, s))
    OBVIOUS
  <2>1. new[y] = sub[x] \ {x} /\ N(Link(y, s)) = {w \in new[y] : Less(s, Key(t, w), Key(t, y))}
    BY <1>9, <1>19
  <2>2. N(Link(y, s)) = T(start) \ {y}
    <3>1. Less(s, Key(t, y), Key(t, x)) /\ ~Less(s, Key(t, y), Key(t, y))
      BY <1>4, <1>5, <1>21 DEF Less
    <3>2. ASSUME NEW w \in T(Link(x, o)) PROVE ~Less(s, Key(t, w), Key(t, y))
      <4>1. w \in U /\ Less(o, Key(t, w), Key(t, x))
        BY <1>3, <1>6
      <4>2. Key(t, w) \in Nat /\ Key(t, x) \in Nat /\ Key(t, y) \in Nat
        BY <1>4, <1>21, <4>1
      <4> QED BY <3>1, <4>1, <4>2 DEF Less, Opp, Sides
    <3>3. x \notin T(start)
      BY <1>5
    <3> QED BY <1>4, <1>6, <1>7, <2>1, <3>1, <3>2, <3>3
  <2>3. CASE a = start
    <3>1. Node(v, Link(y, s)) = Node(t, Link(y, s))
      BY <1>25, <1>26, <2>3 DEF Origin
    <3>2. T(start) = {y} \union T(Link(y, s)) /\ T(Link(y, s)) \subseteq sub[y] \ {y}
      BY <1>4, <1>14, <1>29, <1>30, <2>3
    <3>3. N(Link(y, s)) = T(Link(y, s))
      BY <2>2, <3>2
    <3>4. CASE Node(t, Link(y, s)) = Null
      BY <1>2, <1>4, <1>11, <1>32, <3>1, <3>3, <3>4
    <3>5. CASE Node(t, Link(y, s)) # Null
      <4> DEFINE q == Node(t, Link(y, s))
      <4>1. q \in U /\ sub[q] = T(Link(y, s)) /\ q \in sub[q]
        BY <1>2, <1>3, <1>4, <1>11, <3>5
      <4>2. q \in sub[x] \ {x} /\ q # y
        BY <1>5, <3>2, <4>1
      <4>3. q \in W /\ new[q] = sub[q] \ {y}
        BY <1>19, <4>1, <4>2 DEF W
      <4>4. new[q] = N(Link(y, s))
        BY <3>2, <3>3, <4>1, <4>3
      <4> QED BY <1>32, <3>1, <3>5, <4>3, <4>4
    <3> QED BY <3>4, <3>5
  <2>4. CASE a # start
    <3> DEFINE q == Node(t, start)
    <3>1. Node(v, Link(y, s)) = q
      BY <1>25, <1>26, <2>4 DEF Origin
    <3>2. q \in U /\ sub[q] = T(start) /\ q \in sub[q]
      BY <1>2, <1>3, <1>11
    <3>3. q # y
      BY <1>2, <1>4, <1>9, <1>10, <2>4
    <3>4. q \in sub[x] \ {x}
      BY <1>5, <3>2
    <3>5. q \in W /\ new[q] = sub[q] \ {y}
      BY <1>19, <3>2, <3>3, <3>4 DEF W
    <3> QED BY <1>32, <2>2, <3>1, <3>2, <3>5
  <2> QED BY <2>3, <2>4
<1>35. Link(y, o) \in OwnLinks(W) => Good(Link(y, o))
  <2> SUFFICES ASSUME Link(y, o) \in OwnLinks(W) PROVE Good(Link(y, o))
    OBVIOUS
  <2>1. new[y] = sub[x] \ {x} /\ N(Link(y, o)) = {w \in new[y] : Less(o, Key(t, w), Key(t, y))}
    BY <1>1, <1>9, <1>19
  <2>2. N(Link(y, o)) = T(Link(x, o))
    <3>1. Less(s, Key(t, y), Key(t, x))
      BY <1>4, <1>5
    <3>2. ASSUME NEW w \in T(Link(x, o)) PROVE Less(o, Key(t, w), Key(t, y))
      <4>1. w \in U /\ Less(o, Key(t, w), Key(t, x))
        BY <1>3, <1>6
      <4>2. Key(t, w) \in Nat /\ Key(t, x) \in Nat /\ Key(t, y) \in Nat
        BY <1>4, <1>21, <4>1
      <4> QED BY <3>1, <4>1, <4>2 DEF Less, Opp, Sides
    <3>3. ASSUME NEW w \in T(start) PROVE ~Less(o, Key(t, w), Key(t, y))
      <4>1. w \in U
        BY <1>3, <1>5
      <4>2. Key(t, w) \in Nat /\ Key(t, y) \in Nat
        BY <1>4, <1>21, <4>1
      <4>3. w = y \/ Less(s, Key(t, w), Key(t, y))
        BY <1>4
      <4> QED BY <4>2, <4>3 DEF Less, Opp, Sides
    <3>4. T(Link(x, o)) \subseteq sub[x] \ {x}
      BY <1>6
    <3> QED BY <1>7, <2>1, <3>2, <3>3, <3>4
  <2>3. Node(v, Link(y, o)) = Node(t, Link(x, o))
    BY <1>1, <1>23, <1>25, <1>26 DEF Origin
  <2>4. CASE Node(t, Link(x, o)) = Null
    BY <1>1, <1>2, <1>11, <1>32, <2>2, <2>3, <2>4
  <2>5. CASE Node(t, Link(x, o)) # Null
    <3> DEFINE q == Node(t, Link(x, o))
    <3>1. q \in U /\ sub[q] = T(Link(x, o)) /\ q \in sub[q]
      BY <1>1, <1>2, <1>3, <1>11, <2>5
    <3>2. y \notin T(Link(x, o))
      BY <1>4, <1>8
    <3>3. q \in sub[x] \ {x} /\ q # y
      BY <1>6, <3>1, <3>2
    <3>4. q \in W /\ new[q] = sub[q] \ {y}
      BY <1>19, <3>1, <3>3 DEF W
    <3>5. new[q] = N(Link(y, o))
      BY <2>2, <3>1, <3>2, <3>4
    <3> QED BY <1>32, <2>3, <2>5, <3>4, <3>5
  <2> QED BY <2>4, <2>5
<1>36. a \in OwnLinks(W) => Good(a)
  <2> SUFFICES ASSUME a \in OwnLinks(W) PROVE Good(a)
    OBVIOUS
  <2>1. a # start
    <3>1. a = RootLink \/ \E z \in W, r \in Sides : a = Link(z, r)
      BY <1>25
    <3> QED BY <1>23, <1>24, <1>31, <3>1
  <2>2. PICK p \in T(start) : p # y /\ a = Link(p, o)
    BY <1>4, <2>1
  <2>3. p \in W /\ p \in sub[x] \ {x}
    BY <1>3, <1>5 DEF W
  <2>4. N(a) = {w \in sub[p] \ {y} : Less(o, Key(t, w), Key(t, p))}
    <3>1. new[p] = sub[p] \ {y}
      BY <1>19, <2>2, <2>3
    <3>2. N(Link(p, o)) = {w \in new[p] : Less(o, Key(t, w), Key(t, p))}
      BY <1>1, <1>19, <2>3
    <3> QED BY <2>2, <3>1, <3>2
  <2>5. T(a) = {w \in sub[p] : Less(o, Key(t, w), Key(t, p))}
    BY <1>1, <1>20, <1>31, <2>2, <2>3
  <2>6. N(a) = T(Link(y, s))
    <3>1. T(Link(y, s)) \subseteq sub[y] \ {y}
      BY <1>4, <1>14
    <3> QED BY <1>29, <1>30, <2>4, <2>5, <3>1
  <2>7. Node(v, a) = Node(t, Link(y, s))
    BY <1>25, <1>26, <1>27 DEF Origin
  <2>8. CASE Node(t, Link(y, s)) = Null
    BY <1>2, <1>4, <1>11, <1>32, <2>6, <2>7, <2>8
  <2>9. CASE Node(t, Link(y, s)) # Null
    <3> DEFINE q == Node(t, Link(y, s))
    <3>1. q \in U /\ sub[q] = T(Link(y, s)) /\ q \in sub[q]
      BY <1>2, <1>3, <1>4, <1>11, <2>9
    <3>2. T(Link(y, s)) \subseteq sub[y] \ {y} /\ sub[y] \subseteq sub[x] \ {x}
      BY <1>4, <1>9, <1>14, <1>15, <1>31
    <3>3. q \in sub[x] \ {x} /\ q # y
      BY <3>1, <3>2
    <3>4. q \in W /\ new[q] = sub[q] \ {y}
      BY <1>19, <3>1, <3>3 DEF W
    <3>5. new[q] = N(a)
      BY <2>6, <3>1, <3>2, <3>4
    <3> QED BY <1>32, <2>7, <2>9, <3>4, <3>5
  <2> QED BY <2>8, <2>9
<1>37. ASSUME NEW m \in OwnLinks(W), m \notin {l, Link(y, s), Link(y, o), a} PROVE Good(m)
  <2> DEFINE q == Node(t, m)
  <2>1. Node(v, m) = q /\ m \in OwnLinks(U)
    BY <1>25, <1>37 DEF Origin
  <2>2. Node(t, m) # Null => q \in U /\ sub[q] = T(m) /\ q \in sub[q] /\ q # x /\ q # y
    BY <1>1, <1>3, <1>4, <1>10, <1>11, <1>37, <2>1
  <2>3. Node(t, m) = Null => T(m) = {}
    BY <1>11, <2>1
  <2> HIDE DEF q
  <2>4. CASE m = RootLink \/ \E z \in W, r \in Sides : m = Link(z, r) /\ z \notin sub[x]
    <3>1. N(m) = T(m) \ {x}
      <4>1. CASE m = RootLink
        BY <1>19, <1>22, <4>1 DEF W
      <4>2. CASE m # RootLink
        <5>1. PICK z \in W, r \in Sides : m = Link(z, r) /\ z \notin sub[x]
          BY <2>4, <4>2
        <5>2. new[z] = sub[z] \ {x} /\ N(m) = {w \in new[z] : Less(r, Key(t, w), Key(t, z))}
          BY <1>9, <1>19, <5>1
        <5>3. T(m) = {w \in sub[z] : Less(r, Key(t, w), Key(t, z))}
          BY <1>20, <1>31, <5>1
        <5> QED BY <5>2, <5>3
      <4> QED BY <4>1, <4>2
    <3>2. CASE Node(t, m) = Null
      BY <1>32, <2>1, <2>3, <3>1, <3>2 DEF q
    <3>3. CASE Node(t, m) # Null
      <4>1. q \notin sub[x]
        <5> SUFFICES ASSUME q \in sub[x] PROVE FALSE
          OBVIOUS
        <5>1. PICK p \in sub[x], r \in Sides : m = Link(p, r)
          BY <1>16, <2>1, <2>2, <3>3 DEF q
        <5>2. p \in U
          BY <1>3
        <5> QED BY <1>23, <1>24, <2>4, <5>1, <5>2
      <4>2. q \in W /\ new[q] = sub[q] \ {x}
        BY <1>19, <2>2, <3>3, <4>1 DEF W
      <4> QED BY <1>32, <2>1, <2>2, <3>1, <3>3, <4>2 DEF q
    <3> QED BY <3>2, <3>3
  <2>5. CASE \E z \in W, r \in Sides : m = Link(z, r) /\ z \in sub[x]
    <3>1. PICK z \in W, r \in Sides : m = Link(z, r) /\ z \in sub[x]
      BY <2>5
    <3>2. z # y /\ z \in U /\ z # x
      BY <1>1, <1>31, <1>37, <3>1
    <3>3. new[z] = sub[z] \ {y} /\ N(m) = {w \in new[z] : Less(r, Key(t, w), Key(t, z))}
      BY <1>19, <3>1, <3>2
    <3>4. T(m) = {w \in sub[z] : Less(r, Key(t, w), Key(t, z))}
      BY <1>20, <3>1, <3>2
    <3>5. N(m) = T(m) \ {y}
      BY <3>3, <3>4
    <3>6. CASE Node(t, m) = Null
      BY <1>32, <2>1, <2>3, <3>5, <3>6 DEF q
    <3>7. CASE Node(t, m) # Null
      <4>1. T(m) \subseteq sub[x] \ {x}
        BY <1>15, <3>1, <3>2, <3>4
      <4>2. q \in U /\ q \in sub[x] \ {x} /\ q # y
        BY <2>2, <3>7, <4>1
      <4>3. q \in W /\ new[q] = sub[q] \ {y}
        BY <1>19, <4>2 DEF W
      <4> QED BY <1>32, <2>1, <2>2, <3>5, <3>7, <4>3 DEF q
    <3> QED BY <3>6, <3>7
  <2> QED BY <1>25, <2>4, <2>5
<1>38. ASSUME NEW m \in OwnLinks(W) PROVE Good(m)
  <2>1. CASE m = l
    BY <1>25, <1>33, <2>1 DEF Origin
  <2> QED BY <1>34, <1>35, <1>36, <1>37, <1>38, <2>1
<1> DEFINE O(m) == Origin(x, s, l, a, y, m)
<1>39. \A m, n \in OwnLinks(W) : O(m) = O(n) => m = n
  <2>1. \A m \in OwnLinks(W) : m # start /\ m # Link(x, o)
    BY <1>23, <1>24, <1>1, <1>25, <1>31
  <2>2. /\ Link(y, s) # Link(y, o) /\ Link(y, s) # start /\ Link(y, s) # Link(x, o)
        /\ Link(y, o) # start /\ Link(y, o) # Link(x, o) /\ start # Link(x, o)
    BY <1>1, <1>9, <1>23, <1>31
  <2>3. a # Link(x, o)
    BY <1>1, <1>4, <1>5, <1>23
  <2>4. \A m : O(m) = IF m = l THEN a
                    ELSE IF m = Link(y, s) THEN IF a = start THEN Link(y, s) ELSE start
                    ELSE IF m = Link(y, o) THEN Link(x, o) ELSE IF m = a THEN Link(y, s) ELSE m
    BY DEF Origin
  <2> HIDE DEF O, start, o
  <2>5. CASE a = start
    BY <1>26, <1>27, <2>1, <2>2, <2>3, <2>4, <2>5
  <2>6. CASE a # start
    BY <1>26, <1>27, <2>1, <2>2, <2>3, <2>4, <2>6
  <2> QED BY <2>5, <2>6
<1>40. \A m \in OwnLinks(W) : O(m) \in OwnLinks(U)
  BY <1>1, <1>2, <1>4, <1>25 DEF Origin
<1> HIDE DEF O
<1>41. OneParent(v, W)
  <2>1. \A m \in OwnLinks(W) : Node(v, m) = Node(t, O(m))
    BY <1>25 DEF O
  <2> QED BY <1>10, <1>39, <1>40, <2>1 DEF OneParent
<1>42. \A m \in OwnLinks(W) : LinkGood(v, W, new, m)
  BY <1>38 DEF Good
<1>43. Whole(v, W, new)
  BY <1>17, <1>18, <1>41, <1>42 DEF Whole
<1> QED BY <1>43 DEF TreeOK, W

(* What is not a link stays.                                               *)
Same(t, v) ==
  \A y \in Addrs : /\ Key(v, y) = Key(t, y) /\ v.store[y].par = t.store[y].par
                   /\ v.store[y].prev = t.store[y].prev /\ v.store[y].next = t.store[y].next

(* RemoveNode takes one entry out of the tree.                             *)
LEMMA RemoveKeeps ==
  ASSUME NEW t \in Trees, NEW U \in SUBSET Addrs, TreeOK(t, U), NEW x \in U
  PROVE  /\ RemoveNode(t, x) \in Trees
         /\ TreeOK(RemoveNode(t, x), U \ {x})
         /\ Same(t, RemoveNode(t, x))
<1>1. PICK sub : Whole(t, U, sub)
  BY DEF TreeOK
<1> DEFINE k == Key(t, x)
           l == FindLink(t, k)
           a == Replacement(t, x)
           y == Node(t, a)
           q == Orphan(t, y)
           v == RemoveNode(t, x)
<1>2. l \in OwnLinks(U) /\ Node(t, l) = x /\ l \in Links /\ x # Null
  <2>1. k \in Nat
    BY NodeFacts
  <2> QED BY <1>1, <2>1, FindGood, OwnLinksFacts, AddrsFit
<1>3. /\ Node(t, Link(x, "left")) = t.store[x].left
      /\ Node(t, Link(x, "right")) = t.store[x].right
  BY NodeFacts
<1>4. CASE t.store[x].left = Null /\ t.store[x].right = Null
  <2>1. v = SetLink(t, l, Null)
    BY <1>4 DEF RemoveNode, Key
  <2>2. /\ v \in Trees /\ Same(t, v)
        /\ \A m \in Links : Node(v, m) = IF m = l THEN Null ELSE Node(t, m)
    <3>1. Null \in Places
      BY DEF Places
    <3> QED BY <1>2, <2>1, <3>1, SetLinkFacts DEF Same
  <2>3. \A s \in Sides : Node(t, Link(x, s)) = Null
    BY <1>3, <1>4 DEF Sides
  <2>4. \A m \in OwnLinks(U \ {x}) : m \in Links
    BY OwnLinksFacts
  <2>5. \A z \in U \ {x} : Key(v, z) = Key(t, z)
    BY <2>2 DEF Same
  <2> HIDE DEF v, l
  <2>6. \A m \in OwnLinks(U \ {x}) : Node(v, m) = IF m = l THEN Null ELSE Node(t, m)
    BY <2>2, <2>4
  <2>7. TreeOK(v, U \ {x})
    BY <1>1, <1>2, <2>2, <2>3, <2>5, <2>6, RemoveLeaf
  <2> QED BY <2>2, <2>7 DEF v
<1>5. CASE ~(t.store[x].left = Null /\ t.store[x].right = Null)
  <2>1. PICK s \in Sides : /\ Node(t, Link(x, s)) # Null /\ a = Last(t, Link(x, s), Opp(s))
                           /\ s = "right" => Node(t, Link(x, "left")) = Null
    <3>1. CASE t.store[x].left # Null
      BY <1>3, <3>1 DEF Replacement, Sides, Opp
    <3>2. CASE t.store[x].left = Null
      BY <1>3, <1>5, <3>2 DEF Replacement, Sides, Opp
    <3> QED BY <3>1, <3>2
  <2> DEFINE o == Opp(s)
             start == Link(x, s)
  <2>2. o \in Sides /\ o # s /\ (\A r \in Sides : r = s \/ r = o) /\ start \in OwnLinks(U)
    BY OwnLinksFacts DEF Sides, Opp
  <2>3. /\ a \in OwnLinks(U) /\ y \in U /\ Node(t, Link(y, o)) = Null /\ y \in Territory(t, U, sub, start)
        /\ a = start \/ \E p \in Territory(t, U, sub, start) : p # y /\ a = Link(p, o)
    BY <1>1, <2>1, <2>2, LastGood
  <2>4. y \in sub[x] /\ y # x /\ y \in Addrs /\ x \notin Territory(t, U, sub, start)
    BY <1>1, <2>3, TerritoryFacts
  <2>5. \A r \in Sides : l # Link(y, r) /\ l # Link(x, r)
    <3>1. x \in sub[x]
      BY <1>1 DEF Whole, Subtrees
    <3> HIDE DEF l, y
    <3> QED BY <1>1, <1>2, <2>4, <3>1, ParentAbove
  <2>6. a # l
    <3>1. Node(t, a) # Node(t, l)
      BY <1>2, <2>4
    <3> QED BY <3>1
  <2>7. a # Link(x, o) /\ a \in Links
    BY <2>2, <2>3, <2>4, LinkFacts, OwnLinksFacts
  <2>8. q = Node(t, Link(y, s)) /\ q \in Places
    <3>1. /\ Node(t, Link(y, "left")) = t.store[y].left
          /\ Node(t, Link(y, "right")) = t.store[y].right
      BY <2>4, NodeFacts
    <3>2. q = IF t.store[y].left = Null THEN t.store[y].right ELSE t.store[y].left
      BY DEF Orphan
    <3> HIDE DEF y, q
    <3>3. q = Node(t, Link(y, s))
      <4>1. CASE s = "left"
        BY <2>3, <3>1, <3>2, <4>1 DEF Opp
      <4>2. CASE s = "right"
        BY <2>3, <3>1, <3>2, <4>2 DEF Opp
      <4> QED BY <4>1, <4>2 DEF Sides
    <3>4. Link(y, s) \in Links
      BY <2>4, LinkFacts
    <3> QED BY <3>3, <3>4, NodeFacts
  <2> DEFINE t1 == SetLink(t, a, q)
             u == SetLink(t1, l, y)
             u1 == SetLink(u, Link(y, "left"), u.store[x].left)
  <2>9. v = SetLink(u1, Link(y, "right"), u.store[x].right)
    BY <1>5 DEF RemoveNode, Key
  <2> HIDE DEF l, a, y, q, v, k
  <2>10. y \in Places /\ Link(y, "left") \in Links /\ Link(y, "right") \in Links
         /\ Link(x, "left") \in Links /\ Link(x, "right") \in Links
    BY <2>4, LinkFacts DEF Places, Sides
  <2>11. t1 \in Trees /\ Same(t, t1) /\ \A m \in Links : Node(t1, m) = IF m = a THEN q ELSE Node(t, m)
    BY <2>7, <2>8, SetLinkFacts DEF Same
  <2> HIDE DEF t1
  <2>12. u \in Trees /\ Same(t1, u) /\ \A m \in Links : Node(u, m) = IF m = l THEN y ELSE Node(t1, m)
    BY <1>2, <2>10, <2>11, SetLinkFacts DEF Same
  <2> HIDE DEF u
  <2>13. /\ u.store[x].left = Node(u, Link(x, "left")) /\ u.store[x].left \in Places
         /\ u.store[x].right = Node(u, Link(x, "right")) /\ u.store[x].right \in Places
    BY <2>10, <2>12, NodeFacts
  <2>14. /\ u1 \in Trees /\ Same(u, u1)
         /\ \A m \in Links : Node(u1, m) = IF m = Link(y, "left") THEN Node(u, Link(x, "left")) ELSE Node(u, m)
    <3> DEFINE z == u.store[x].left
    <3>1. z \in Places /\ z = Node(u, Link(x, "left")) /\ u1 = SetLink(u, Link(y, "left"), z)
      BY <2>13
    <3> HIDE DEF z, u1
    <3>2. Link(y, "left") \in Links /\ u \in Trees
      BY <2>10, <2>12
    <3>3. u1 \in Trees /\ \A m \in Links : Node(u1, m) = IF m = Link(y, "left") THEN z ELSE Node(u, m)
      BY <3>1, <3>2, SetLinkFacts
    <3>4. Same(u, u1)
      BY <3>1, <3>2, SetLinkFacts DEF Same
    <3> QED BY <3>1, <3>3, <3>4
  <2> HIDE DEF u1
  <2>15. /\ v \in Trees /\ Same(u1, v)
         /\ \A m \in Links : Node(v, m) = IF m = Link(y, "right") THEN Node(u, Link(x, "right")) ELSE Node(u1, m)
    <3> DEFINE z == u.store[x].right
    <3>1. z \in Places /\ z = Node(u, Link(x, "right")) /\ v = SetLink(u1, Link(y, "right"), z)
      BY <2>9, <2>13
    <3> HIDE DEF z
    <3>2. Link(y, "right") \in Links /\ u1 \in Trees
      BY <2>10, <2>14
    <3>3. v \in Trees /\ \A m \in Links : Node(v, m) = IF m = Link(y, "right") THEN z ELSE Node(u1, m)
      BY <3>1, <3>2, SetLinkFacts
    <3>4. Same(u1, v)
      BY <3>1, <3>2, SetLinkFacts DEF Same
    <3> QED BY <3>1, <3>3, <3>4
  <2>16. Same(t, v)
    BY <2>11, <2>12, <2>14, <2>15 DEF Same
  <2>17. ASSUME NEW m \in Links
         PROVE  Node(v, m) = IF m = Link(y, s) THEN Node(u, Link(x, s))
                             ELSE IF m = Link(y, o) THEN Node(u, Link(x, o)) ELSE Node(u, m)
    <3>1. Link(y, "left") # Link(y, "right")
      BY LinkFacts
    <3>2. CASE s = "left"
      BY <2>14, <2>15, <3>1, <3>2 DEF Opp
    <3>3. CASE s = "right"
      BY <2>14, <2>15, <3>1, <3>3 DEF Opp
    <3> QED BY <3>2, <3>3 DEF Sides
  <2>18. /\ Node(u, Link(x, s)) = IF a = start THEN q ELSE Node(t, start)
         /\ Node(u, Link(x, o)) = Node(t, Link(x, o))
    <3>1. Link(x, s) \in Links /\ Link(x, o) \in Links
      BY <2>2, LinkFacts
    <3> QED BY <2>2, <2>5, <2>7, <2>11, <2>12, <3>1
  <2>19. \A m \in Links : Node(u, m) = IF m = l THEN y ELSE IF m = a THEN q ELSE Node(t, m)
    BY <2>11, <2>12
  <2>20. y = Node(t, a)
    BY DEF y
  <2>21. ASSUME NEW m \in OwnLinks(U \ {x}) PROVE Node(v, m) = Node(t, Origin(x, s, l, a, y, m))
    <3>1. m \in Links
      BY OwnLinksFacts
    <3>2. l # Link(y, s) /\ l # Link(y, o)
      BY <2>2, <2>5
    <3>3. Link(y, s) # Link(y, o)
      BY <2>2, LinkFacts
    <3>4. CASE m = l
      BY <2>17, <2>19, <2>20, <3>1, <3>2, <3>4 DEF Origin
    <3>5. CASE m = Link(y, s)
      <4>1. Node(v, m) = IF a = start THEN q ELSE Node(t, start)
        BY <2>17, <2>18, <3>1, <3>5
      <4>2. Origin(x, s, l, a, y, m) = IF a = start THEN Link(y, s) ELSE start
        BY <3>2, <3>5 DEF Origin
      <4> QED BY <2>8, <4>1, <4>2
    <3>6. CASE m = Link(y, o)
      <4>1. Node(v, m) = Node(t, Link(x, o))
        BY <2>17, <2>18, <3>1, <3>3, <3>6
      <4>2. Origin(x, s, l, a, y, m) = Link(x, o)
        BY <3>2, <3>3, <3>6 DEF Origin
      <4> QED BY <4>1, <4>2
    <3>7. CASE m \notin {l, Link(y, s), Link(y, o)}
      <4>1. Node(v, m) = IF m = a THEN q ELSE Node(t, m)
        BY <2>17, <2>19, <3>1, <3>7
      <4>2. Origin(x, s, l, a, y, m) = IF m = a THEN Link(y, s) ELSE m
        BY <3>7 DEF Origin
      <4> QED BY <2>8, <4>1, <4>2
    <3> QED BY <3>4, <3>5, <3>6, <3>7
  <2>22. \A z \in U \ {x} : Key(v, z) = Key(t, z)
    BY <2>16 DEF Same
  <2>23. TreeOK(v, U \ {x})
    <3>1. /\ l \in OwnLinks(U) /\ Node(t, l) = x /\ Node(t, Link(x, s)) # Null
          /\ a = Last(t, Link(x, s), Opp(s))
      BY <1>2, <2>1
    <3>2. v \in Trees
      BY <2>15
    <3>3. Rewired(t, v, U, x, s, l, a, y)
      BY <2>21, <2>22 DEF Rewired
    <3> HIDE DEF start, o
    <3> QED BY <1>1, <2>20, <3>1, <3>2, <3>3, RemoveInner
  <2> QED BY <2>15, <2>16, <2>23 DEF v
<1> QED BY <1>4, <1>5

(* Nothing but the links and the keys of the entries matters.              *)
SameTree(t, v, U) ==
  /\ v.root = t.root
  /\ \A y \in U : /\ v.store[y].id = t.store[y].id /\ v.store[y].left = t.store[y].left
                  /\ v.store[y].right = t.store[y].right

(* A tree stays one when nothing else changes.                             *)
LEMMA TreeOnlyLinks ==
  ASSUME NEW t \in Trees, NEW U \in SUBSET Addrs, TreeOK(t, U), NEW v \in Trees, SameTree(t, v, U)
  PROVE  TreeOK(v, U)
<1>0. /\ v.root = t.root
      /\ \A y \in U : /\ v.store[y].id = t.store[y].id /\ v.store[y].left = t.store[y].left
                      /\ v.store[y].right = t.store[y].right
  BY DEF SameTree
<1>1. PICK sub : Whole(t, U, sub)
  BY DEF TreeOK
<1>2. \A y \in U : Key(v, y) = Key(t, y)
  BY <1>0 DEF Key
<1>3. ASSUME NEW l \in OwnLinks(U) PROVE Node(v, l) = Node(t, l)
  <2>1. CASE l = RootLink
    BY <1>0, <2>1, NodeFacts
  <2>2. CASE l # RootLink
    <3>1. PICK y \in U, s \in Sides : l = Link(y, s)
      BY <2>2, OwnLinksFacts
    <3> QED BY <1>0, <3>1, NodeFacts DEF Sides
  <2> QED BY <2>1, <2>2
<1>4. ASSUME NEW l \in OwnLinks(U) PROVE Territory(v, U, sub, l) = Territory(t, U, sub, l)
  <2>1. CASE l = RootLink
    BY <2>1 DEF Territory
  <2>2. CASE l # RootLink
    <3>1. PICK y \in U, s \in Sides : l = Link(y, s)
      BY <2>2, OwnLinksFacts
    <3>2. /\ Territory(v, U, sub, l) = {z \in sub[y] : Less(s, Key(v, z), Key(v, y))}
          /\ Territory(t, U, sub, l) = {z \in sub[y] : Less(s, Key(t, z), Key(t, y))}
      BY <2>2, <3>1, LinkFacts DEF Territory
    <3>3. sub[y] \subseteq U
      BY <1>1 DEF Whole, Subtrees
    <3> QED BY <1>2, <3>2, <3>3
  <2> QED BY <2>1, <2>2
<1>5. \A l \in OwnLinks(U) : LinkGood(v, U, sub, l)
  BY <1>1, <1>3, <1>4 DEF LinkGood, Whole
<1>6. OneParent(v, U) /\ KeysDiffer(v, U) /\ Subtrees(U, sub)
  BY <1>1, <1>2, <1>3 DEF Whole, OneParent, KeysDiffer
<1> QED BY <1>5, <1>6 DEF Whole, TreeOK

-----------------------------------------------------------------------------
(* The list.                                                               *)

(* o is the order of the entries U that the list in s from h to e gives.   *)
IsList(o, s, h, e, U) ==
  /\ o \in Seq(Addrs)
  /\ \A i \in 1 .. Len(o) : o[i] \in U
  /\ \A i, j \in 1 .. Len(o) : o[i] = o[j] => i = j
  /\ \A x \in U : \E i \in 1 .. Len(o) : x = o[i]
  /\ h = IF Len(o) = 0 THEN Null ELSE o[1]
  /\ e = IF Len(o) = 0 THEN Null ELSE o[Len(o)]
  /\ \A i \in 1 .. Len(o) : /\ s[o[i]].prev = IF i = 1 THEN Null ELSE o[i - 1]
                            /\ s[o[i]].next = IF i = Len(o) THEN Null ELSE o[i + 1]

(* Longer, as a function of the state.                                     *)
LongerIn(s, h) ==
  [o \in Seq(Addrs) |->
     LET x == IF o = <<>> THEN h ELSE s[o[Len(o)]].next
     IN  IF x = Null THEN o ELSE Append(o, x)]
Front(o, n) == [i \in 1 .. n |-> o[i]]

(* From the head along next one visits the entries in this order.          *)
LEMMA OrderFound ==
  ASSUME NEW o, NEW s, NEW h, NEW e, NEW U \in SUBSET Addrs, IsList(o, s, h, e, U), Len(o) <= Slots
  PROVE  Iterate(LongerIn(s, h), <<>>, Slots + 1) = o
<1> DEFINE f == LongerIn(s, h)
           It(n) == Iterate(f, <<>>, n)
           S == {n \in Nat : n <= Len(o) => It(n) = Front(o, n)}
<1>1. o \in Seq(Addrs) /\ Len(o) \in Nat /\ o = Front(o, Len(o)) /\ Front(o, 0) = <<>>
  BY DEF IsList, Front
<1>2. It(0) = <<>> /\ \A n \in Nat : It(n + 1) = f[It(n)]
  BY IterateDef
<1>3. \A i \in 1 .. Len(o) : o[i] \in Addrs /\ o[i] # Null
  BY <1>1, AddrsFit
<1>4. \A n \in 0 .. Len(o) : Front(o, n) \in Seq(Addrs) /\ Len(Front(o, n)) = n
  BY <1>1, <1>3 DEF Front
<1>5. \A r \in Seq(Addrs) : f[r] = LET x == IF r = <<>> THEN h ELSE s[r[Len(r)]].next
                                 IN  IF x = Null THEN r ELSE Append(r, x)
  BY DEF LongerIn
<1> HIDE DEF It, f
<1>6. 0 \in S
  BY <1>1, <1>2
<1>7. ASSUME NEW n \in Nat, n \in S PROVE n + 1 \in S
  <2> SUFFICES ASSUME n + 1 <= Len(o) PROVE It(n + 1) = Front(o, n + 1)
    OBVIOUS
  <2>1. It(n) = Front(o, n) /\ n \in 0 .. Len(o) /\ n + 1 \in 1 .. Len(o)
    BY <1>1, <1>7
  <2>2. Append(Front(o, n), o[n + 1]) = Front(o, n + 1)
    BY <1>3, <1>4, <2>1 DEF Front
  <2>3. f[Front(o, n)] = Append(Front(o, n), o[n + 1])
    <3>1. CASE n = 0
      <4>1. Front(o, n) = <<>> /\ h = o[1]
        BY <1>1, <2>1, <3>1 DEF IsList
      <4>2. <<>> \in Seq(Addrs) /\ h # Null /\ o[n + 1] = h
        BY <1>3, <2>1, <3>1, <4>1
      <4>3. f[<<>>] = Append(<<>>, h)
        BY <1>5, <4>2
      <4> QED BY <4>1, <4>2, <4>3
    <3>2. CASE n # 0
      <4>1. n \in 1 .. Len(o) /\ n # Len(o)
        BY <2>1, <3>2
      <4>2. s[o[n]].next = o[n + 1]
        BY <4>1 DEF IsList
      <4>3. Front(o, n) # <<>> /\ Front(o, n)[Len(Front(o, n))] = o[n]
        BY <1>4, <2>1, <4>1 DEF Front
      <4> QED BY <1>3, <1>4, <1>5, <2>1, <4>2, <4>3
    <3> QED BY <3>1, <3>2
  <2> QED BY <1>2, <2>1, <2>2, <2>3
<1> HIDE DEF S
<1>8. It(Len(o)) = o
  <2>1. Nat \subseteq S
    BY <1>6, <1>7, InductionOnSet
  <2> QED BY <1>1, <2>1 DEF S
<1>9. f[o] = o
  <2>1. CASE Len(o) = 0
    <3>1. o = <<>> /\ h = Null
      BY <1>1, <2>1 DEF IsList
    <3> QED BY <1>1, <1>5, <3>1
  <2>2. CASE Len(o) # 0
    <3>1. o # <<>> /\ s[o[Len(o)]].next = Null
      BY <1>1, <2>2 DEF IsList
    <3> QED BY <1>1, <1>5, <3>1
  <2> QED BY <2>1, <2>2
<1>10. Slots + 1 \in Nat /\ Slots + 1 >= Len(o)
  BY <1>1, SlotsFit
<1> QED BY <1>1, <1>8, <1>9, <1>10, IterateStays DEF It, f

(* The number of entries is the length of the list.                        *)
LEMMA ListLength ==
  ASSUME NEW o, NEW s, NEW h, NEW e, NEW U \in SUBSET Addrs, IsList(o, s, h, e, U)
  PROVE  Cardinality(U) = Len(o)
<1>1. Len(o) \in Nat /\ o \in [1 .. Len(o) -> U]
  BY DEF IsList
<1>2. o \in Injection(1 .. Len(o), U)
  BY <1>1 DEF IsList, Injection, IsInjective
<1>3. o \in Surjection(1 .. Len(o), U)
  BY <1>1 DEF IsList, Surjection
<1>4. o \in Bijection(1 .. Len(o), U)
  BY <1>2, <1>3 DEF Bijection
<1>5. IsFiniteSet(1 .. Len(o)) /\ Cardinality(1 .. Len(o)) = Len(o)
  <2>1. 1 \in Int /\ Len(o) \in Int /\ ~(1 > Len(o) /\ Len(o) # 0) /\ (Len(o) - 1) + 1 = Len(o)
    BY <1>1
  <2> QED BY <2>1, FS_Interval
<1> QED BY <1>4, <1>5, FS_Bijection DEF ExistsBijection

(* The entries of the list, and where they are.                            *)
LEMMA ListFacts ==
  ASSUME NEW o, NEW s, NEW h, NEW e, NEW U \in SUBSET Addrs, IsList(o, s, h, e, U)
  PROVE  /\ o \in Seq(Addrs) /\ Len(o) \in Nat /\ DOMAIN o = 1 .. Len(o)
         /\ \A i \in 1 .. Len(o) : o[i] \in U /\ o[i] \in Addrs /\ o[i] # Null
         /\ \A i, j \in 1 .. Len(o) : o[i] = o[j] => i = j
         /\ \A x \in U : \E i \in 1 .. Len(o) : x = o[i]
         /\ (h = Null <=> Len(o) = 0) /\ (Len(o) # 0 => h = o[1] /\ e = o[Len(o)])
<1>1. o \in Seq(Addrs) /\ Len(o) \in Nat /\ DOMAIN o = 1 .. Len(o)
  BY DEF IsList
<1>2. \A i \in 1 .. Len(o) : o[i] \in U /\ o[i] \in Addrs /\ o[i] # Null
  BY <1>1, AddrsFit DEF IsList
<1>3. Len(o) = 0 => h = Null
  BY DEF IsList
<1>4. Len(o) # 0 => h = o[1] /\ e = o[Len(o)] /\ 1 \in 1 .. Len(o)
  <2>1. /\ h = IF Len(o) = 0 THEN Null ELSE o[1]
        /\ e = IF Len(o) = 0 THEN Null ELSE o[Len(o)]
    BY DEF IsList
  <2> QED BY <1>1, <2>1
<1>5. Len(o) # 0 => h # Null
  BY <1>2, <1>4
<1> QED BY <1>1, <1>2, <1>3, <1>4, <1>5 DEF IsList

(* Fields that do not belong to the list do not matter.                    *)
SameList(s, r, U) == \A y \in U : r[y].prev = s[y].prev /\ r[y].next = s[y].next

(* A list stays one when other fields change.                              *)
LEMMA ListOnlyItsLinks ==
  ASSUME NEW o, NEW s, NEW h, NEW e, NEW U \in SUBSET Addrs, IsList(o, s, h, e, U), NEW r,
         SameList(s, r, U)
  PROVE  IsList(o, r, h, e, U)
BY DEF IsList, SameList

(* An entry enters at the head.                                            *)
Push(x, o) == [j \in 1 .. Len(o) + 1 |-> IF j = 1 THEN x ELSE o[j - 1]]
Pushed(s, r, U, h, x) ==
  /\ r[x].prev = Null /\ r[x].next = h
  /\ \A y \in U : r[y].next = s[y].next /\ r[y].prev = IF y = h THEN x ELSE s[y].prev

(* The new entry is the first one of the list (lru_save).                  *)
LEMMA ListPush ==
  ASSUME NEW o, NEW s, NEW h, NEW e, NEW U \in SUBSET Addrs, IsList(o, s, h, e, U),
         NEW x \in Addrs \ U, NEW r, Pushed(s, r, U, h, x)
  PROVE  /\ IsList(Push(x, o), r, x, IF h = Null THEN x ELSE e, U \union {x})
         /\ Len(Push(x, o)) = Len(o) + 1
<1> DEFINE n == Len(o)
           p == Push(x, o)
           V == U \union {x}
<1>0. /\ r[x].prev = Null /\ r[x].next = h
      /\ \A y \in U : r[y].next = s[y].next /\ r[y].prev = IF y = h THEN x ELSE s[y].prev
  BY DEF Pushed
<1>1. /\ n \in Nat /\ \A i \in 1 .. n : o[i] \in U /\ o[i] \in Addrs
      /\ \A i, j \in 1 .. n : o[i] = o[j] => i = j
      /\ \A y \in U : \E i \in 1 .. n : y = o[i]
      /\ (h = Null <=> n = 0) /\ (n # 0 => h = o[1] /\ e = o[n])
  BY ListFacts
<1>2. \A i \in 1 .. n : /\ s[o[i]].prev = IF i = 1 THEN Null ELSE o[i - 1]
                        /\ s[o[i]].next = IF i = n THEN Null ELSE o[i + 1]
  BY DEF IsList
<1>3. p \in Seq(Addrs) /\ Len(p) = n + 1 /\ \A j \in 1 .. n + 1 : p[j] = IF j = 1 THEN x ELSE o[j - 1]
  BY <1>1 DEF Push
<1> HIDE DEF p, n
<1>4. ASSUME NEW j \in 1 .. n + 1, j # 1 PROVE j - 1 \in 1 .. n /\ p[j] \in U
  <2>1. j - 1 \in 1 .. n
    BY <1>1, <1>4
  <2> QED BY <1>1, <1>3, <1>4, <2>1
<1>5. \A j \in 1 .. n + 1 : p[j] \in V
  BY <1>3, <1>4
<1>6. ASSUME NEW i \in 1 .. n + 1, NEW j \in 1 .. n + 1, p[i] = p[j] PROVE i = j
  <2>1. CASE i = 1 \/ j = 1
    <3>1. \A k \in 1 .. n + 1 : p[k] = x => k = 1
      BY <1>4
    <3>2. p[1] = x
      BY <1>1, <1>3
    <3> QED BY <1>6, <2>1, <3>1, <3>2
  <2>2. CASE i # 1 /\ j # 1
    <3>1. p[i] = o[i - 1] /\ p[j] = o[j - 1]
      BY <1>3, <2>2
    <3>2. i - 1 = j - 1
      BY <1>1, <1>4, <1>6, <2>2, <3>1
    <3> QED BY <3>2
  <2> QED BY <2>1, <2>2
<1>7. ASSUME NEW y \in V PROVE \E j \in 1 .. n + 1 : y = p[j]
  <2>1. CASE y = x
    BY <1>1, <1>3, <2>1
  <2>2. CASE y \in U
    <3>1. PICK i \in 1 .. n : y = o[i]
      BY <1>1, <2>2
    <3>2. i + 1 \in 1 .. n + 1 /\ i + 1 # 1 /\ (i + 1) - 1 = i
      BY <1>1
    <3> QED BY <1>3, <3>1, <3>2
  <2> QED BY <2>1, <2>2
<1>8. p[1] = x /\ p[n + 1] = IF h = Null THEN x ELSE e
  <2>1. n = 0 => p[n + 1] = x
    BY <1>3
  <2>2. n # 0 => p[n + 1] = o[n]
    <3>1. n + 1 \in 1 .. n + 1 /\ (n + 1) - 1 = n /\ (n # 0 => n + 1 # 1)
      BY <1>1
    <3> QED BY <1>3, <3>1
  <2> QED BY <1>1, <1>3, <2>1, <2>2
<1>9. ASSUME NEW j \in 1 .. n + 1
      PROVE  /\ r[p[j]].prev = IF j = 1 THEN Null ELSE p[j - 1]
             /\ r[p[j]].next = IF j = n + 1 THEN Null ELSE p[j + 1]
  <2>1. CASE j = 1
    BY <1>0, <1>1, <1>3, <2>1
  <2>2. CASE j # 1
    <3> DEFINE i == j - 1
    <3>1. i \in 1 .. n /\ p[j] = o[i] /\ o[i] \in U
      BY <1>3, <1>4, <2>2
    <3>2. r[o[i]].next = s[o[i]].next /\ r[o[i]].prev = IF i = 1 THEN x ELSE s[o[i]].prev
      BY <1>0, <1>1, <3>1
    <3>3. i # 1 => p[j - 1] = o[i - 1]
      BY <1>1, <1>3, <3>1
    <3>4. i # n => p[j + 1] = o[i + 1]
      BY <1>1, <1>3, <3>1
    <3> QED BY <1>1, <1>2, <1>3, <2>2, <3>1, <3>2, <3>3, <3>4
  <2> QED BY <2>1, <2>2
<1> QED BY <1>1, <1>3, <1>5, <1>6, <1>7, <1>8, <1>9 DEF IsList, p, n

(* The last entry leaves.                                                  *)
Dropped(s, r, U, e, last) ==
  \A y \in U \ {e} : r[y].prev = s[y].prev /\ r[y].next = IF y = last THEN Null ELSE s[y].next
ListDropped(o, r, g, last, U, e) ==
  /\ IsList(Front(o, Len(o) - 1), r, g, last, U \ {e})
  /\ Len(Front(o, Len(o) - 1)) = Len(o) - 1
  /\ last \in (U \ {e}) \union {Null} /\ e \in U

(* Without its last entry the list ends at the one before it.              *)
LEMMA ListDrop ==
  ASSUME NEW o, NEW s, NEW h, NEW e, NEW U \in SUBSET Addrs, IsList(o, s, h, e, U), Len(o) # 0,
         NEW last, last = s[e].prev, NEW r, Dropped(s, r, U, e, last),
         NEW g, g = IF last = Null THEN Null ELSE h
  PROVE  ListDropped(o, r, g, last, U, e)
<1> DEFINE n == Len(o)
           p == Front(o, n - 1)
           V == U \ {e}
<1>0. \A y \in U \ {e} :
        r[y].prev = s[y].prev /\ r[y].next = IF y = last THEN Null ELSE s[y].next
  BY DEF Dropped
<1>1. /\ n \in Nat /\ n # 0 /\ \A i \in 1 .. n : o[i] \in U /\ o[i] \in Addrs /\ o[i] # Null
      /\ \A i, j \in 1 .. n : o[i] = o[j] => i = j
      /\ \A y \in U : \E i \in 1 .. n : y = o[i]
      /\ h = o[1] /\ e = o[n]
  BY ListFacts
<1>2. \A i \in 1 .. n : /\ s[o[i]].prev = IF i = 1 THEN Null ELSE o[i - 1]
                        /\ s[o[i]].next = IF i = n THEN Null ELSE o[i + 1]
  BY DEF IsList
<1>3. p \in Seq(Addrs) /\ Len(p) = n - 1 /\ \A j \in 1 .. n - 1 : p[j] = o[j] /\ j \in 1 .. n
  BY <1>1 DEF Front
<1> HIDE DEF p, n
<1>4. last = IF n = 1 THEN Null ELSE o[n - 1]
  BY <1>1, <1>2
<1>5. \A j \in 1 .. n - 1 : p[j] \in V
  BY <1>1, <1>3
<1>6. \A i, j \in 1 .. n - 1 : p[i] = p[j] => i = j
  BY <1>1, <1>3
<1>7. \A y \in V : \E j \in 1 .. n - 1 : y = p[j]
  BY <1>1, <1>3
<1>8. n # 1 => n - 1 \in 1 .. n - 1 /\ 1 \in 1 .. n - 1 /\ n - 1 \in 1 .. n /\ last # Null
  BY <1>1, <1>4
<1>9. ASSUME NEW j \in 1 .. n - 1
      PROVE  /\ r[p[j]].prev = IF j = 1 THEN Null ELSE p[j - 1]
             /\ r[p[j]].next = IF j = n - 1 THEN Null ELSE p[j + 1]
  <2>1. j \in 1 .. n /\ p[j] = o[j] /\ o[j] \in V
    BY <1>3, <1>5
  <2>2. r[o[j]].prev = s[o[j]].prev /\ r[o[j]].next = IF j = n - 1 THEN Null ELSE s[o[j]].next
    BY <1>0, <1>1, <1>4, <1>8, <2>1
  <2>3. j # 1 => p[j - 1] = o[j - 1]
    BY <1>1, <1>3
  <2>4. j # n - 1 => p[j + 1] = o[j + 1] /\ j # n
    BY <1>1, <1>3
  <2> QED BY <1>2, <2>1, <2>2, <2>3, <2>4
<1>10. /\ (IF last = Null THEN Null ELSE h) = IF n - 1 = 0 THEN Null ELSE p[1]
       /\ last = IF n - 1 = 0 THEN Null ELSE p[n - 1]
  BY <1>1, <1>3, <1>4, <1>8
<1>11. last \in V \union {Null} /\ e \in U
  BY <1>1, <1>3, <1>4, <1>5, <1>8
<1> HIDE DEF V
<1>12. IsList(p, r, g, last, V)
  BY <1>3, <1>5, <1>6, <1>7, <1>9, <1>10 DEF IsList
<1> QED BY <1>3, <1>11, <1>12 DEF p, n, V, ListDropped

(* An entry moves to the head.                                             *)
Fronted(o, i) == [j \in 1 .. Len(o) |-> IF j = 1 THEN o[i] ELSE IF j <= i THEN o[j - 1] ELSE o[j]]
MovedUp(s, r, U, h, x) ==
  \A y \in U :
    /\ r[y].next = IF y = x THEN h ELSE IF y = s[x].prev THEN s[x].next ELSE s[y].next
    /\ r[y].prev = IF y = x THEN Null ELSE IF y = h THEN x
                   ELSE IF y = s[x].next THEN s[x].prev ELSE s[y].prev

(* When the links around it are joined, and it is linked before the head,  *)
(* the i-th entry is the first one of the list (lru_load).                 *)
LEMMA ListToHead ==
  ASSUME NEW o, NEW s, NEW h, NEW e, NEW U \in SUBSET Addrs, IsList(o, s, h, e, U),
         NEW i \in 1 .. Len(o), i # 1, NEW x, x = o[i], NEW r, MovedUp(s, r, U, h, x),
         NEW last, last = IF s[x].next = Null THEN s[x].prev ELSE e
  PROVE  IsList(Fronted(o, i), r, x, last, U) /\ Len(Fronted(o, i)) = Len(o)
<1> DEFINE n == Len(o)
           p == Fronted(o, i)
<1>1. /\ n \in Nat /\ \A j \in 1 .. n : o[j] \in U /\ o[j] \in Addrs /\ o[j] # Null
      /\ \A j, k \in 1 .. n : o[j] = o[k] => j = k
      /\ \A y \in U : \E j \in 1 .. n : y = o[j]
      /\ h = o[1] /\ e = o[n] /\ i \in 2 .. n /\ 1 \in 1 .. n /\ n \in 1 .. n /\ i - 1 \in 1 .. n
  <2>1. n \in Nat /\ i \in 2 .. n
    BY ListFacts
  <2> QED BY <2>1, ListFacts
<1>2. \A j \in 1 .. n : /\ s[o[j]].prev = IF j = 1 THEN Null ELSE o[j - 1]
                        /\ s[o[j]].next = IF j = n THEN Null ELSE o[j + 1]
  BY DEF IsList
<1>3. \A j \in 1 .. n : p[j] = IF j = 1 THEN o[i] ELSE IF j <= i THEN o[j - 1] ELSE o[j]
  BY DEF Fronted
<1>4. ASSUME NEW j \in 1 .. n, j # 1 PROVE j - 1 \in 1 .. n
  BY <1>1, <1>4
<1>5. \A j \in 1 .. n : p[j] \in Addrs /\ p[j] \in U
  BY <1>1, <1>3, <1>4
<1>6. p \in Seq(Addrs) /\ Len(p) = n
  BY <1>1, <1>5 DEF Fronted
<1> HIDE DEF p, n
<1>7. ASSUME NEW j \in 1 .. n, NEW k \in 1 .. n, p[j] = p[k] PROVE j = k
  <2> DEFINE at(m) == IF m = 1 THEN i ELSE IF m <= i THEN m - 1 ELSE m
  <2>1. \A m \in 1 .. n : at(m) \in 1 .. n /\ p[m] = o[at(m)]
    BY <1>1, <1>3, <1>4
  <2>2. at(j) = at(k)
    <3> HIDE DEF at
    <3>1. at(j) \in 1 .. n /\ at(k) \in 1 .. n /\ o[at(j)] = o[at(k)]
      BY <1>7, <2>1
    <3> QED BY <1>1, <3>1
  <2>3. \A a, b \in 1 .. n : at(a) = at(b) => a = b
    BY <1>1
  <2> QED BY <2>2, <2>3
<1>8. ASSUME NEW y \in U PROVE \E j \in 1 .. n : y = p[j]
  <2>1. PICK k \in 1 .. n : y = o[k]
    BY <1>1
  <2>2. CASE k = i
    BY <1>1, <1>3, <2>1, <2>2
  <2>3. CASE k < i
    <3>1. k + 1 \in 1 .. n /\ k + 1 # 1 /\ k + 1 <= i /\ (k + 1) - 1 = k
      BY <1>1, <2>3
    <3> QED BY <1>3, <2>1, <3>1
  <2>4. CASE k > i
    <3>1. k # 1 /\ ~(k <= i)
      BY <1>1, <2>4
    <3> QED BY <1>3, <2>1, <3>1
  <2> QED BY <1>1, <2>2, <2>3, <2>4
<1>9. s[x].prev = o[i - 1] /\ s[x].next = IF i = n THEN Null ELSE o[i + 1]
  BY <1>1, <1>2
<1>10. p[1] = x /\ p[n] = IF s[x].next = Null THEN s[x].prev ELSE e
  <2>1. i = n => p[n] = o[i - 1] /\ s[x].next = Null
    BY <1>1, <1>3, <1>9
  <2>2. i # n => p[n] = o[n] /\ s[x].next = o[i + 1] /\ i + 1 \in 1 .. n
    BY <1>1, <1>3, <1>9
  <2> QED BY <1>1, <1>3, <1>9, <2>1, <2>2
<1>11. \A j \in 1 .. n :
         /\ r[o[j]].next = IF j = i THEN o[1] ELSE IF j = i - 1 THEN s[x].next ELSE s[o[j]].next
         /\ r[o[j]].prev = IF j = i THEN Null ELSE IF j = 1 THEN x
                           ELSE IF j = i + 1 THEN o[i - 1] ELSE s[o[j]].prev
  <2> SUFFICES ASSUME NEW j \in 1 .. n
               PROVE  /\ r[o[j]].next = IF j = i THEN o[1] ELSE IF j = i - 1 THEN s[x].next ELSE s[o[j]].next
                      /\ r[o[j]].prev = IF j = i THEN Null ELSE IF j = 1 THEN x
                                        ELSE IF j = i + 1 THEN o[i - 1] ELSE s[o[j]].prev
    OBVIOUS
  <2>1. /\ (o[j] = x <=> j = i) /\ (o[j] = o[i - 1] <=> j = i - 1) /\ (o[j] = h <=> j = 1) /\ o[j] \in U
    BY <1>1
  <2>2. o[j] = s[x].next <=> j = i + 1
    <3>1. CASE i = n
      BY <1>1, <1>9, <3>1
    <3>2. CASE i # n
      <4>1. i + 1 \in 1 .. n
        BY <1>1, <3>2
      <4> QED BY <1>1, <1>9, <3>2, <4>1
    <3> QED BY <3>1, <3>2
  <2>3. r[o[j]].next = IF o[j] = x THEN h ELSE IF o[j] = o[i - 1] THEN s[x].next ELSE s[o[j]].next
    BY <1>9, <2>1 DEF MovedUp
  <2>4. r[o[j]].prev = IF o[j] = x THEN Null ELSE IF o[j] = h THEN x
                       ELSE IF o[j] = s[x].next THEN o[i - 1] ELSE s[o[j]].prev
    BY <1>9, <2>1 DEF MovedUp
  <2>5. h = o[1]
    BY <1>1
  <2> QED BY <2>1, <2>2, <2>3, <2>4, <2>5
<1>12. ASSUME NEW j \in 1 .. n
       PROVE  /\ r[p[j]].prev = IF j = 1 THEN Null ELSE p[j - 1]
              /\ r[p[j]].next = IF j = n THEN Null ELSE p[j + 1]
  <2>1. CASE j = 1
    <3>1. p[j] = o[i] /\ 2 \in 1 .. n /\ p[2] = o[1] /\ j # n
      BY <1>1, <1>3, <2>1
    <3> QED BY <1>1, <1>11, <2>1, <3>1
  <2>2. CASE j # 1 /\ j <= i
    <3> DEFINE k == j - 1
    <3>1. k \in 1 .. n /\ p[j] = o[k] /\ k # i /\ k # i + 1 /\ k < n
      BY <1>1, <1>3, <2>2
    <3>2. r[o[k]].prev = IF k = 1 THEN x ELSE o[k - 1]
      BY <1>1, <1>2, <1>11, <3>1
    <3>3. p[j - 1] = IF k = 1 THEN x ELSE o[k - 1]
      BY <1>1, <1>3, <2>2, <3>1
    <3>4. CASE j = i
      <4>1. r[o[k]].next = IF i = n THEN Null ELSE o[i + 1]
        BY <1>9, <1>11, <3>1, <3>4
      <4>2. i # n => i + 1 \in 1 .. n /\ i + 1 # 1 /\ ~(i + 1 <= i)
        BY <1>1
      <4>3. i # n => p[i + 1] = o[i + 1]
        BY <1>3, <4>2
      <4> QED BY <2>2, <3>1, <3>2, <3>3, <3>4, <4>1, <4>3
    <3>5. CASE j # i
      <4>0. k + 1 = j /\ k # i - 1 /\ k # n
        BY <1>1, <3>1, <3>5
      <4>1. r[o[k]].next = o[k + 1] /\ k + 1 = j
        BY <1>2, <1>11, <3>1, <4>0
      <4>2. j # n /\ j + 1 \in 1 .. n /\ j + 1 # 1 /\ j + 1 <= i /\ (j + 1) - 1 = j
        BY <1>1, <2>2, <3>5
      <4>3. p[j + 1] = o[j]
        BY <1>3, <4>2
      <4> QED BY <2>2, <3>1, <3>2, <3>3, <4>1, <4>2, <4>3
    <3> QED BY <3>4, <3>5
  <2>3. CASE j > i
    <3>1. p[j] = o[j] /\ j # 1 /\ j # i /\ j # i - 1 /\ j - 1 \in 1 .. n
      BY <1>1, <1>3, <2>3
    <3>2. r[o[j]].next = IF j = n THEN Null ELSE o[j + 1]
      BY <1>2, <1>11, <3>1
    <3>3. j # n => j + 1 \in 1 .. n /\ j + 1 # 1 /\ ~(j + 1 <= i)
      BY <1>1, <2>3
    <3>4. j # n => p[j + 1] = o[j + 1]
      BY <1>3, <3>3
    <3>5. r[o[j]].prev = p[j - 1]
      <4>1. CASE j = i + 1
        <5>1. j - 1 = i /\ p[i] = o[i - 1]
          BY <1>1, <1>3, <4>1
        <5> QED BY <1>11, <3>1, <4>1, <5>1
      <4>2. CASE j # i + 1
        <5>1. j - 1 # 1 /\ ~(j - 1 <= i)
          BY <1>1, <2>3, <4>2
        <5>2. p[j - 1] = o[j - 1]
          BY <1>3, <3>1, <5>1
        <5> QED BY <1>2, <1>11, <3>1, <4>2, <5>2
      <4> QED BY <4>1, <4>2
    <3> QED BY <3>1, <3>2, <3>4, <3>5
  <2> QED BY <1>1, <2>1, <2>2, <2>3
<1>13. h = o[1] /\ (IF s[x].next = Null THEN s[x].prev ELSE e) = p[n] /\ n # 0
  BY <1>1, <1>10
<1>14. IsList(p, r, x, last, U)
  BY <1>5, <1>6, <1>7, <1>8, <1>10, <1>12, <1>13 DEF IsList
<1> QED BY <1>6, <1>14 DEF p, n

-----------------------------------------------------------------------------
(* The operations.                                                         *)

(* Fill, as a function of the tree.                                        *)
Filled(t, x, id, par, h) ==
  LET u == InsertNode(t, id, x)
      e == [id |-> id, par |-> par, prev |-> Null, next |-> h,
            left |-> Null, right |-> Null]
      s == [u.store EXCEPT ![x] = e]
  IN  [root |-> u.root, store |-> IF h = Null THEN s ELSE [s EXCEPT ![h].prev = x]]

(* The new entry is in the tree and before the old head.                   *)
NoKey(t, U, k) == \A y \in U : t.store[y].id # k
Entered(t, v, U, x, k, par, h) ==
  /\ v.store[x].id = k /\ v.store[x].par = par /\ v.store[x].prev = Null /\ v.store[x].next = h
  /\ \A y \in U : /\ v.store[y].id = t.store[y].id /\ v.store[y].par = t.store[y].par
                  /\ v.store[y].next = t.store[y].next
                  /\ v.store[y].prev = IF y = h THEN x ELSE t.store[y].prev

(* The search ends at nothing for a new ID, so the entry enters the tree   *)
(* there and all the others keep their fields, but for the prev of the old *)
(* head (lru_save).                                                        *)
LEMMA FilledFacts ==
  ASSUME NEW t \in Trees, NEW U \in SUBSET Addrs, TreeOK(t, U), NEW x \in Addrs \ U, NEW k \in Nat,
         NEW par \in Params, NoKey(t, U, k), NEW h \in U \union {Null},
         NEW v, v = Filled(t, x, k, par, h)
  PROVE  v \in Trees /\ TreeOK(v, U \union {x}) /\ Entered(t, v, U, x, k, par, h)
<1> DEFINE L == FindLink(t, k)
           u == SetLink(t, L, x)
           e == [id |-> k, par |-> par, prev |-> Null, next |-> h, left |-> Null, right |-> Null]
           s == [u.store EXCEPT ![x] = e]
<1>1. PICK sub : Whole(t, U, sub)
  BY DEF TreeOK
<1>2. L \in Links /\ FindNode(t, k) = Null /\ L \in OwnLinks(U) /\ x # Null /\ x \in Places
  <2>1. L \in OwnLinks(U) /\ FindNode(t, k) = Null
    BY <1>1, FindGood DEF Key, NoKey
  <2> QED BY <2>1, OwnLinksFacts, AddrsFit DEF Places
<1>3. /\ u \in Trees /\ \A m \in Links : Node(u, m) = IF m = L THEN x ELSE Node(t, m)
      /\ \A y \in Addrs : /\ u.store[y].id = t.store[y].id /\ u.store[y].par = t.store[y].par
                          /\ u.store[y].prev = t.store[y].prev /\ u.store[y].next = t.store[y].next
  BY <1>2, SetLinkFacts DEF Key
<1>4. v = [root |-> u.root, store |-> IF h = Null THEN s ELSE [s EXCEPT ![h].prev = x]]
  BY DEF Filled, InsertNode
<1> HIDE DEF u, L
<1>5. h \in Places /\ (h # Null => h \in U /\ h \in Addrs /\ h # x)
  BY DEF Places
<1>6. e \in EntryRecords
  BY <1>5 DEF EntryRecords, Places
<1>7. u.root \in Places /\ u.store \in [Addrs -> EntryRecords]
  BY <1>3 DEF Trees
<1>8. s \in [Addrs -> EntryRecords] /\ \A y \in Addrs : s[y] = IF y = x THEN e ELSE u.store[y]
  <2> HIDE DEF e
  <2> QED BY <1>6, <1>7
<1> DEFINE g == [s[h] EXCEPT !.prev = x]
<1> HIDE DEF s
<1>9. h # Null => /\ g \in EntryRecords /\ g.prev = x /\ g.id = s[h].id /\ g.par = s[h].par
                  /\ g.next = s[h].next /\ g.left = s[h].left /\ g.right = s[h].right
  <2> SUFFICES ASSUME h # Null
               PROVE  /\ g \in EntryRecords /\ g.prev = x /\ g.id = s[h].id /\ g.par = s[h].par
                      /\ g.next = s[h].next /\ g.left = s[h].left /\ g.right = s[h].right
    OBVIOUS
  <2>1. s[h] \in EntryRecords
    BY <1>5, <1>8
  <2> QED BY <1>2, <2>1 DEF EntryRecords
<1>10. /\ v.root = u.root /\ v.store \in [Addrs -> EntryRecords] /\ v = [root |-> v.root, store |-> v.store]
       /\ \A y \in Addrs : v.store[y] = IF y = h /\ h # Null THEN g ELSE s[y]
  <2>1. CASE h = Null
    BY <1>4, <1>8, <2>1
  <2>2. CASE h # Null
    <3>1. v.store = [s EXCEPT ![h] = g] /\ v.root = u.root /\ v = [root |-> v.root, store |-> v.store]
      BY <1>4, <1>5, <1>8, <2>2
    <3> HIDE DEF g
    <3> QED BY <1>5, <1>8, <1>9, <2>2, <3>1
  <2> QED BY <2>1, <2>2
<1> HIDE DEF g
<1>11. v \in Trees
  BY <1>7, <1>10 DEF Trees
<1>12. /\ v.store[x].id = k /\ v.store[x].par = par /\ v.store[x].prev = Null /\ v.store[x].next = h
       /\ v.store[x].left = Null /\ v.store[x].right = Null
  BY <1>5, <1>8, <1>10
<1> HIDE DEF e
<1>13. ASSUME NEW y \in U
       PROVE  /\ v.store[y].id = t.store[y].id /\ v.store[y].par = t.store[y].par
              /\ v.store[y].next = t.store[y].next
              /\ v.store[y].prev = IF y = h THEN x ELSE t.store[y].prev
              /\ v.store[y].left = u.store[y].left /\ v.store[y].right = u.store[y].right
  <2>1. y \in Addrs /\ y # x /\ y # Null
    BY AddrsFit
  <2>2. s[y] = u.store[y]
    BY <1>8, <2>1
  <2>3. CASE y = h
    BY <1>3, <1>9, <1>10, <2>1, <2>2, <2>3
  <2>4. CASE y # h
    BY <1>3, <1>10, <2>1, <2>2, <2>4
  <2> QED BY <2>3, <2>4
<1>14. ASSUME NEW m \in OwnLinks(U) PROVE Node(v, m) = IF m = L THEN x ELSE Node(t, m)
  <2>1. m \in Links
    BY OwnLinksFacts
  <2>2. Node(v, m) = Node(u, m)
    <3>1. CASE m = RootLink
      BY <1>3, <1>10, <1>11, <3>1, NodeFacts
    <3>2. CASE m # RootLink
      <4>1. PICK y \in U, r \in Sides : m = Link(y, r)
        BY <3>2, OwnLinksFacts
      <4>2. /\ Node(v, Link(y, "left")) = v.store[y].left /\ Node(v, Link(y, "right")) = v.store[y].right
            /\ Node(u, Link(y, "left")) = u.store[y].left /\ Node(u, Link(y, "right")) = u.store[y].right
        BY <1>3, <1>11, NodeFacts
      <4> QED BY <1>13, <4>1, <4>2 DEF Sides
    <3> QED BY <3>1, <3>2
  <2> QED BY <1>3, <2>1, <2>2
<1>15. \A r \in Sides : Node(v, Link(x, r)) = Null
  BY <1>11, <1>12, NodeFacts DEF Sides
<1>16. (\A y \in U : Key(v, y) = Key(t, y)) /\ Key(v, x) = k
  BY <1>12, <1>13 DEF Key
<1>17. TreeOK(v, U \union {x})
  BY <1>2, <1>11, <1>14, <1>15, <1>16, InsertKeeps DEF L
<1> QED BY <1>11, <1>12, <1>13, <1>17 DEF Entered

-----------------------------------------------------------------------------
(* The invariant.                                                          *)
UpTo(p) == {x \in Addrs : x < p}

(* A sound block: the entries below p are in the list in the order o and   *)
(* in the tree, and their IDs are masked ones.                             *)
Sound(s, h, e, r, p, m, d, o) ==
  /\ s \in [Addrs -> EntryRecords] /\ r \in Places /\ m \in Masks /\ d \in BOOLEAN
  /\ Len(o) <= Slots /\ p = EntryLen * Len(o) /\ (~d => Len(o) = 0)
  /\ IsList(o, s, h, e, UpTo(p))
  /\ TreeOK([root |-> r, store |-> s], UpTo(p))
  /\ \A x \in UpTo(p) : \E id \in Ids : s[x].id = m[id]

IInv == /\ Sound(store, head, tail, root, storePtr, mask, initDone, Order)
        /\ view = Contents

(* Contents, as a function of the state.                                   *)
Unmasked(m, k) == CHOOSE id \in Ids : m[id] = k
EntryIn(m, s, x) == [id |-> Unmasked(m, s[x].id), par |-> s[x].par]
ContentsIn(m, s, o) == [i \in DOMAIN o |-> EntryIn(m, s, o[i])]

(* The session of an entry.                                                *)
LEMMA EntryFacts ==
  ASSUME NEW s, NEW h, NEW e, NEW r, NEW p, NEW m, NEW d, NEW o, Sound(s, h, e, r, p, m, d, o)
  PROVE  /\ \A x \in UpTo(p) : /\ EntryIn(m, s, x).id \in Ids
                               /\ \A id \in Ids : s[x].id = m[id] <=> EntryIn(m, s, x).id = id
         /\ \A x : EntryIn(m, s, x).par = s[x].par
         /\ \A x, y, s2 : s2[y].id = s[x].id /\ s2[y].par = s[x].par => EntryIn(m, s2, y) = EntryIn(m, s, x)
<1>1. \A i, j \in Ids : m[i] = m[j] => i = j
  <2>1. m \in Masks
    BY DEF Sound
  <2> QED BY <2>1, LruAssumption
<1>2. ASSUME NEW x \in UpTo(p)
      PROVE  /\ EntryIn(m, s, x).id \in Ids
             /\ \A id \in Ids : s[x].id = m[id] <=> EntryIn(m, s, x).id = id
  <2>1. \E id \in Ids : m[id] = s[x].id
    BY DEF Sound
  <2> DEFINE c == Unmasked(m, s[x].id)
  <2>2. c \in Ids /\ m[c] = s[x].id
    BY <2>1 DEF Unmasked
  <2>3. EntryIn(m, s, x).id = c
    BY DEF EntryIn
  <2> HIDE DEF c
  <2> QED BY <1>1, <2>2, <2>3
<1> QED BY <1>2 DEF EntryIn

(* The search finds an entry with this ID, if there is one, and the        *)
(* sessions of the block hold the ID exactly then.                         *)
Sought(s, o, p, m, id, x) ==
  /\ x # Null => \E i \in DOMAIN o : /\ o[i] = x /\ x \in UpTo(p)
                                    /\ \A j \in DOMAIN o : EntryIn(m, s, o[j]).id = id <=> j = i
  /\ x = Null => \A i \in DOMAIN o : EntryIn(m, s, o[i]).id # id
  /\ x = Null => \A y \in UpTo(p) : s[y].id # m[id]

(* So it is with the search of find_node.                                  *)
LEMMA FoundFacts ==
  ASSUME NEW s, NEW h, NEW e, NEW r, NEW p, NEW m, NEW d, NEW o, Sound(s, h, e, r, p, m, d, o),
         NEW id \in Ids, NEW x, x = FindNode([root |-> r, store |-> s], m[id])
  PROVE  Sought(s, o, p, m, id, x)
<1> DEFINE t == [root |-> r, store |-> s]
           U == UpTo(p)
<1>1. t \in Trees /\ U \in SUBSET Addrs /\ IsList(o, s, h, e, U) /\ m[id] \in Nat
  BY LruAssumption DEF Sound, Trees, UpTo
<1>2. PICK sub : Whole(t, U, sub)
  BY DEF TreeOK, Sound
<1>3. \A y : Key(t, y) = s[y].id
  BY DEF Key
<1> HIDE DEF t, U
<1>4. /\ x # Null => x \in U /\ s[x].id = m[id]
      /\ x = Null => \A y \in U : s[y].id # m[id]
      /\ \A y \in U : s[y].id = m[id] => x = y
  BY <1>1, <1>2, <1>3, FindGood DEF t
<1>5. /\ DOMAIN o = 1 .. Len(o) /\ \A i \in 1 .. Len(o) : o[i] \in U
      /\ \A i, j \in 1 .. Len(o) : o[i] = o[j] => i = j
      /\ \A y \in U : \E i \in 1 .. Len(o) : y = o[i]
  BY <1>1, ListFacts
<1>6. \A y \in U : s[y].id = m[id] <=> EntryIn(m, s, y).id = id
  BY EntryFacts DEF U
<1>7. x = Null => \A i \in DOMAIN o : EntryIn(m, s, o[i]).id # id
  BY <1>4, <1>5, <1>6
<1>8. ASSUME x # Null
      PROVE  \E i \in DOMAIN o : /\ o[i] = x /\ x \in U
                                 /\ \A j \in DOMAIN o : EntryIn(m, s, o[j]).id = id <=> j = i
  <2>1. PICK i \in DOMAIN o : o[i] = x
    BY <1>4, <1>5, <1>8
  <2>2. \A j \in DOMAIN o : EntryIn(m, s, o[j]).id = id <=> j = i
    BY <1>4, <1>5, <1>6, <1>8, <2>1
  <2> QED BY <1>4, <1>8, <2>1, <2>2
<1> QED BY <1>4, <1>7, <1>8 DEF U, Sought

(* A session enters at the head.                                           *)
KeysKnown(t, U, m) == \A y \in U : \E i \in Ids : t.store[y].id = m[i]
Headed(session, c, n) == [j \in 1 .. n |-> IF j = 1 THEN session ELSE c[j - 1]]
AfterPush(t, v, x, id, par, m, o, h, e) ==
  /\ Sound(v.store, x, IF h = Null THEN x ELSE e, v.root, EntryLen * (Len(o) + 1), m, TRUE, Push(x, o))
  /\ ContentsIn(m, v.store, Push(x, o)) =
       Headed([id |-> id, par |-> par], ContentsIn(m, t.store, o), Len(o) + 1)

(* The block stays sound with the new entry, and its session is the first. *)
LEMMA PushSound ==
  ASSUME NEW t \in Trees, NEW U \in SUBSET Addrs, TreeOK(t, U), NEW o, NEW h, NEW e,
         IsList(o, t.store, h, e, U), Len(o) < Slots, NEW x \in Addrs \ U,
         U \union {x} = UpTo(EntryLen * (Len(o) + 1)), NEW m \in Masks, NEW id \in Ids, NEW par \in Params,
         NoKey(t, U, m[id]), KeysKnown(t, U, m), NEW v, v = Filled(t, x, m[id], par, h)
  PROVE  AfterPush(t, v, x, id, par, m, o, h, e)
<1> DEFINE n == Len(o)
           q == Push(x, o)
           p == EntryLen * (n + 1)
<1>1. m[id] \in Nat /\ n \in Nat
  BY LruAssumption, ListFacts
<1>2. h \in U \union {Null}
  BY ListFacts
<1>3. /\ v \in Trees /\ TreeOK(v, U \union {x})
      /\ v.store[x].id = m[id] /\ v.store[x].par = par
      /\ v.store[x].prev = Null /\ v.store[x].next = h
      /\ \A y \in U : /\ v.store[y].id = t.store[y].id /\ v.store[y].par = t.store[y].par
                      /\ v.store[y].next = t.store[y].next
                      /\ v.store[y].prev = IF y = h THEN x ELSE t.store[y].prev
  <2> DEFINE k == m[id]
  <2>1. k \in Nat /\ v = Filled(t, x, k, par, h) /\ NoKey(t, U, k)
    BY <1>1
  <2>2. k = m[id]
    OBVIOUS
  <2> HIDE DEF k
  <2>3. v \in Trees /\ TreeOK(v, U \union {x}) /\ Entered(t, v, U, x, k, par, h)
    BY <1>2, <2>1, FilledFacts
  <2> QED BY <2>2, <2>3 DEF Entered
<1>4. IsList(q, v.store, x, IF h = Null THEN x ELSE e, U \union {x}) /\ Len(q) = n + 1
  <2> DEFINE s == t.store
             r == v.store
  <2>1. Pushed(s, r, U, h, x)
    BY <1>3 DEF Pushed
  <2>2. IsList(o, s, h, e, U)
    OBVIOUS
  <2> HIDE DEF s, r
  <2>3. IsList(q, r, x, IF h = Null THEN x ELSE e, U \union {x}) /\ Len(q) = n + 1
    BY <2>1, <2>2, ListPush
  <2> QED BY <2>3 DEF r
<1>5. n + 1 <= Slots
  BY <1>1, SlotsFit
<1>6. v.store \in [Addrs -> EntryRecords] /\ v.root \in Places /\ v = [root |-> v.root, store |-> v.store]
  BY <1>3 DEF Trees
<1>7. \A y \in UpTo(p) : \E i \in Ids : v.store[y].id = m[i]
  BY <1>3 DEF KeysKnown
<1>8. Sound(v.store, x, IF h = Null THEN x ELSE e, v.root, p, m, TRUE, q)
  BY <1>1, <1>3, <1>4, <1>5, <1>6, <1>7 DEF Sound
<1>9. ASSUME NEW j \in 1 .. n + 1
      PROVE  EntryIn(m, v.store, q[j]) =
               IF j = 1 THEN [id |-> id, par |-> par] ELSE ContentsIn(m, t.store, o)[j - 1]
  <2>1. CASE j = 1
    <3>1. q[j] = x /\ x \in UpTo(p)
      BY <2>1 DEF Push
    <3>2. EntryIn(m, v.store, x).id = id
      <4> DEFINE s == v.store
                 e2 == IF h = Null THEN x ELSE e
                 d == TRUE
                 r == v.root
      <4>1. Sound(s, x, e2, r, p, m, d, q) /\ s[x].id = m[id]
        BY <1>3, <1>8
      <4> HIDE DEF s, p, q, e2, d, r
      <4>2. EntryIn(m, s, x).id = id
        BY <3>1, <4>1, EntryFacts
      <4> QED BY <4>2 DEF s
    <3> QED BY <1>3, <2>1, <3>1, <3>2 DEF EntryIn
  <2>2. CASE j # 1
    <3>1. q[j] = o[j - 1] /\ j - 1 \in 1 .. n
      BY <1>1, <2>2 DEF Push
    <3>2. o[j - 1] \in U /\ j - 1 \in DOMAIN o
      BY <3>1, ListFacts
    <3>3. v.store[q[j]].id = t.store[o[j - 1]].id /\ v.store[q[j]].par = t.store[o[j - 1]].par
      BY <1>3, <3>1, <3>2
    <3>4. EntryIn(m, v.store, q[j]) = EntryIn(m, t.store, o[j - 1])
      BY <3>3 DEF EntryIn
    <3> QED BY <2>2, <3>2, <3>4 DEF ContentsIn
  <2> QED BY <2>1, <2>2
<1>10. DOMAIN q = 1 .. n + 1
  BY DEF Push
<1> QED BY <1>8, <1>9, <1>10 DEF ContentsIn, Headed, AfterPush

(* The last entry and the one before it.                                   *)
LEMMA LastTwo ==
  ASSUME NEW o, NEW s, NEW h, NEW e, NEW U \in SUBSET Addrs, IsList(o, s, h, e, U), Len(o) # 0
  PROVE  e \in U /\ s[e].prev \in (U \ {e}) \union {Null} /\ h # Null
<1> DEFINE last == s[e].prev
           r == [y \in U |-> [prev |-> s[y].prev, next |-> IF y = last THEN Null ELSE s[y].next]]
           g == IF last = Null THEN Null ELSE h
<1>1. Dropped(s, r, U, e, last) /\ last = s[e].prev /\ g = IF last = Null THEN Null ELSE h
  BY DEF Dropped
<1> HIDE DEF r, g, last
<1>2. ListDropped(o, r, g, last, U, e)
  BY <1>1, ListDrop
<1>3. h # Null
  BY ListFacts
<1> QED BY <1>2, <1>3 DEF last, ListDropped

(* The tail makes room.                                                    *)
Unlinked(r, s, last) ==
  [root |-> r, store |-> IF last = Null THEN s ELSE [s EXCEPT ![last].next = Null]]
Evicted(r, s, e, k, par, h) ==
  LET last == s[e].prev
  IN  Filled(RemoveNode(Unlinked(r, s, last), e), e, k, par, IF last = Null THEN Null ELSE h)
AfterEvict(v, s, e, p, m, o, id, par) ==
  /\ Sound(v.store, e, IF s[e].prev = Null THEN e ELSE s[e].prev, v.root, p, m, TRUE,
           Push(e, Front(o, Len(o) - 1)))
  /\ ContentsIn(m, v.store, Push(e, Front(o, Len(o) - 1))) =
       Headed([id |-> id, par |-> par], ContentsIn(m, s, o), Slots)

(* The tail is taken out of the list and the tree, and enters again with   *)
(* the new session: the least recently used session is gone.               *)
LEMMA EvictSound ==
  ASSUME NEW s, NEW h, NEW e, NEW r, NEW p, NEW m, NEW d, NEW o, Sound(s, h, e, r, p, m, d, o),
         Len(o) = Slots, Len(o) # 0, NEW id \in Ids, NEW par \in Params,
         NoKey([root |-> r, store |-> s], UpTo(p), m[id]),
         NEW v, v = Evicted(r, s, e, m[id], par, h)
  PROVE  AfterEvict(v, s, e, p, m, o, id, par)
<1> DEFINE last == s[e].prev
           w == RemoveNode(Unlinked(r, s, last), e)
           t0 == [root |-> r, store |-> s]
           t == Unlinked(r, s, last)
           U == UpTo(p)
           W == U \ {e}
           n == Len(o)
           q == Front(o, n - 1)
           h1 == IF last = Null THEN Null ELSE h
<1>1. /\ t0 \in Trees /\ TreeOK(t0, U) /\ IsList(o, s, h, e, U) /\ U \in SUBSET Addrs
      /\ p = EntryLen * n /\ m \in Masks /\ s \in [Addrs -> EntryRecords] /\ r \in Places
  BY DEF Sound, Trees, UpTo
<1>2. n \in Nat /\ n # 0 /\ DOMAIN o = 1 .. n /\ \A i \in 1 .. n : o[i] \in U
  BY <1>1, ListFacts
<1>3. e \in U /\ last \in W \union {Null} /\ h # Null
  BY <1>1, <1>2, LastTwo
<1>4. e \in Addrs /\ (last # Null => last \in Addrs /\ last # e)
  BY <1>1, <1>3
<1>0. v = Filled(w, e, m[id], par, h1) /\ last = s[e].prev
  BY DEF Evicted
<1> HIDE DEF t0, U, n, last, w
<1>5. /\ t \in Trees /\ t.root = r
      /\ \A y \in Addrs : /\ t.store[y].id = s[y].id /\ t.store[y].par = s[y].par
                          /\ t.store[y].left = s[y].left /\ t.store[y].right = s[y].right
                          /\ t.store[y].prev = s[y].prev
                          /\ t.store[y].next = IF y = last THEN Null ELSE s[y].next
  <2>1. CASE last = Null
    <3>1. t = [root |-> r, store |-> s]
      BY <2>1 DEF Unlinked
    <3>2. \A y \in Addrs : y # last
      BY <2>1, AddrsFit
    <3> QED BY <1>1, <3>1, <3>2 DEF Trees
  <2>2. CASE last # Null
    <3> DEFINE g == [s[last] EXCEPT !.next = Null]
    <3>1. s[last] \in EntryRecords
      BY <1>1, <1>4, <2>2
    <3>2. /\ g \in EntryRecords /\ g.next = Null /\ g.id = s[last].id /\ g.par = s[last].par
          /\ g.prev = s[last].prev /\ g.left = s[last].left /\ g.right = s[last].right
      BY <3>1 DEF EntryRecords, Places
    <3>3. t = [root |-> r, store |-> [s EXCEPT ![last] = g]]
      BY <2>2 DEF Unlinked
    <3> HIDE DEF g
    <3>4. t.store \in [Addrs -> EntryRecords] /\ t.root = r /\ t \in Trees
      BY <1>1, <1>4, <2>2, <3>2, <3>3 DEF Trees
    <3>5. \A y \in Addrs : t.store[y] = IF y = last THEN g ELSE s[y]
      BY <1>1, <3>3
    <3> QED BY <3>2, <3>4, <3>5
  <2> QED BY <2>1, <2>2
<1> HIDE DEF t
<1>6. TreeOK(t, U)
  <2>1. SameTree(t0, t, U)
    BY <1>1, <1>5 DEF SameTree, t0
  <2> QED BY <1>1, <1>5, <2>1, TreeOnlyLinks
<1>7. w \in Trees /\ TreeOK(w, W) /\ Same(t, w)
  BY <1>1, <1>3, <1>5, <1>6, RemoveKeeps DEF t, w
<1>8. \A y \in Addrs : /\ w.store[y].id = s[y].id /\ w.store[y].par = s[y].par
                       /\ w.store[y].prev = s[y].prev
                       /\ w.store[y].next = IF y = last THEN Null ELSE s[y].next
  BY <1>5, <1>7 DEF Same, Key
<1>9. IsList(q, w.store, h1, last, W) /\ Len(q) = n - 1
  <2> DEFINE s2 == w.store
  <2>1. Dropped(s, s2, U, e, last)
    BY <1>1, <1>8 DEF Dropped
  <2> HIDE DEF s2
  <2>2. IsList(o, s, h, e, U) /\ Len(o) # 0 /\ U \in SUBSET Addrs /\ last = s[e].prev
    BY <1>0, <1>1, <1>2 DEF n
  <2> DEFINE g == h1
  <2>3. g = IF last = Null THEN Null ELSE h
    OBVIOUS
  <2> HIDE DEF g
  <2> HIDE DEF q, h1, W
  <2>4. ListDropped(o, s2, g, last, U, e)
    BY <2>1, <2>2, <2>3, ListDrop
  <2>5. IsList(q, s2, h1, last, W) /\ Len(q) = n - 1
    BY <2>4 DEF n, g, q, W, h1, ListDropped
  <2> QED BY <2>5 DEF s2
<1>10. W \in SUBSET Addrs /\ e \in Addrs \ W /\ W \union {e} = U /\ Len(q) < Slots
       /\ EntryLen * (Len(q) + 1) = p /\ Len(q) + 1 = n /\ n = Slots
  BY <1>1, <1>2, <1>3, <1>9, SlotsFit DEF n
<1>11. NoKey(w, W, m[id])
  BY <1>1, <1>8 DEF NoKey, U
<1>12. KeysKnown(w, W, m)
  <2>1. \A y \in U : \E i \in Ids : s[y].id = m[i]
    BY DEF Sound, U
  <2> QED BY <1>1, <1>8, <2>1 DEF KeysKnown
<1> HIDE DEF q, W, h1
<1>13. v = Filled(w, e, m[id], par, h1)
  BY <1>0 DEF h1
<1>14. W \union {e} = UpTo(EntryLen * (Len(q) + 1))
  BY <1>10 DEF U
<1>15. /\ Sound(v.store, e, IF h1 = Null THEN e ELSE last, v.root, EntryLen * (Len(q) + 1), m, TRUE, Push(e, q))
       /\ ContentsIn(m, v.store, Push(e, q)) =
            Headed([id |-> id, par |-> par], ContentsIn(m, w.store, q), Len(q) + 1)
  <2>1. AfterPush(w, v, e, id, par, m, q, h1, last)
    BY <1>1, <1>7, <1>9, <1>10, <1>11, <1>12, <1>13, <1>14, PushSound
  <2> QED BY <2>1 DEF AfterPush
<1>16. ASSUME NEW j \in 1 .. n, j # 1 PROVE ContentsIn(m, w.store, q)[j - 1] = ContentsIn(m, s, o)[j - 1]
  <2>1. j - 1 \in 1 .. n - 1 /\ j - 1 \in 1 .. n
    BY <1>2, <1>16
  <2>2. q[j - 1] = o[j - 1] /\ DOMAIN q = 1 .. n - 1
    BY <2>1 DEF q, Front
  <2>3. EntryIn(m, w.store, q[j - 1]) = EntryIn(m, s, o[j - 1])
    BY <1>1, <1>2, <1>8, <2>1, <2>2 DEF EntryIn
  <2> QED BY <1>2, <2>1, <2>2, <2>3 DEF ContentsIn
<1>17. Headed([id |-> id, par |-> par], ContentsIn(m, w.store, q), Len(q) + 1) =
         Headed([id |-> id, par |-> par], ContentsIn(m, s, o), Slots)
  BY <1>10, <1>16 DEF Headed
<1>18. (IF h1 = Null THEN e ELSE last) = IF last = Null THEN e ELSE last
  BY <1>3 DEF h1
<1> QED BY <1>0, <1>10, <1>15, <1>17, <1>18 DEF q, n, AfterEvict

(* One field of one entry changes.                                         *)
SameRest(s, r) ==
  /\ r \in [Addrs -> EntryRecords]
  /\ \A y \in Addrs : /\ r[y].id = s[y].id /\ r[y].par = s[y].par
                      /\ r[y].left = s[y].left /\ r[y].right = s[y].right
WithNext(s, a, b) == [s EXCEPT ![a].next = b]
NextOnly(s, r, a, b) ==
  /\ SameRest(s, r) /\ r \in [Addrs -> EntryRecords]
  /\ \A y \in Addrs : r[y].prev = s[y].prev /\ r[y].next = IF y = a THEN b ELSE s[y].next

(* Setting a next link.                                                    *)
LEMMA NextSet ==
  ASSUME NEW s \in [Addrs -> EntryRecords], NEW a \in Addrs, NEW b \in Places
  PROVE  NextOnly(s, WithNext(s, a, b), a, b)
<1> DEFINE r == WithNext(s, a, b)
           g == [s[a] EXCEPT !.next = b]
<1>1. s[a] \in EntryRecords /\ \A y \in Addrs : s[y] \in EntryRecords
  OBVIOUS
<1>2. /\ g \in EntryRecords /\ g.next = b /\ g.prev = s[a].prev /\ g.id = s[a].id
      /\ g.par = s[a].par /\ g.left = s[a].left /\ g.right = s[a].right
  BY <1>1 DEF EntryRecords
<1>3. r = [s EXCEPT ![a] = g]
  BY DEF WithNext
<1> HIDE DEF g, r
<1>4. r \in [Addrs -> EntryRecords] /\ \A y \in Addrs : r[y] = IF y = a THEN g ELSE s[y]
  BY <1>2, <1>3
<1>5. NextOnly(s, r, a, b)
  BY <1>2, <1>4 DEF NextOnly, SameRest
<1> QED BY <1>5 DEF r

WithPrev(s, a, b) == [s EXCEPT ![a].prev = b]
PrevOnly(s, r, a, b) ==
  /\ SameRest(s, r) /\ r \in [Addrs -> EntryRecords]
  /\ \A y \in Addrs : r[y].next = s[y].next /\ r[y].prev = IF y = a THEN b ELSE s[y].prev

(* Setting a prev link.                                                    *)
LEMMA PrevSet ==
  ASSUME NEW s \in [Addrs -> EntryRecords], NEW a \in Addrs, NEW b \in Places
  PROVE  PrevOnly(s, WithPrev(s, a, b), a, b)
<1> DEFINE r == WithPrev(s, a, b)
           g == [s[a] EXCEPT !.prev = b]
<1>1. s[a] \in EntryRecords /\ \A y \in Addrs : s[y] \in EntryRecords
  OBVIOUS
<1>2. /\ g \in EntryRecords /\ g.prev = b /\ g.next = s[a].next /\ g.id = s[a].id
      /\ g.par = s[a].par /\ g.left = s[a].left /\ g.right = s[a].right
  BY <1>1 DEF EntryRecords
<1>3. r = [s EXCEPT ![a] = g]
  BY DEF WithPrev
<1> HIDE DEF g, r
<1>4. r \in [Addrs -> EntryRecords] /\ \A y \in Addrs : r[y] = IF y = a THEN g ELSE s[y]
  BY <1>2, <1>3
<1>5. PrevOnly(s, r, a, b)
  BY <1>2, <1>4 DEF PrevOnly, SameRest
<1> QED BY <1>5 DEF r

(* An entry that is not at the head moves there.                           *)
Relinked(s, h, x) ==
  LET e == s[x]
      a == [s EXCEPT ![e.prev].next = e.next]
      b == IF e.next = Null THEN a ELSE [a EXCEPT ![e.next].prev = e.prev]
  IN  [b EXCEPT ![h].prev = x, ![x].next = h, ![x].prev = Null]
FrontedSessions(c, i) ==
  [j \in DOMAIN c |-> IF j = 1 THEN c[i] ELSE IF j <= i THEN c[j - 1] ELSE c[j]]
AfterMove(s, h, e, r, p, m, d, o, i, x) ==
  /\ Sound(Relinked(s, h, x), x, IF s[x].next = Null THEN s[x].prev ELSE e, r, p, m, d, Fronted(o, i))
  /\ ContentsIn(m, Relinked(s, h, x), Fronted(o, i)) = FrontedSessions(ContentsIn(m, s, o), i)

(* The block stays sound, its session is the first, and the others keep    *)
(* their order.                                                            *)
LEMMA MoveSound ==
  ASSUME NEW s, NEW h, NEW e, NEW r, NEW p, NEW m, NEW d, NEW o, Sound(s, h, e, r, p, m, d, o),
         NEW i \in DOMAIN o, i # 1, NEW x, x = o[i]
  PROVE  AfterMove(s, h, e, r, p, m, d, o, i, x)
<1> DEFINE U == UpTo(p)
           n == Len(o)
           before == s[x].prev
           after == s[x].next
           a == [s EXCEPT ![before].next = after]
           b == IF after = Null THEN a ELSE [a EXCEPT ![after].prev = before]
           b1 == [b EXCEPT ![h].prev = x]
           b2 == [b1 EXCEPT ![x].next = h]
           v == Relinked(s, h, x)
<1>1. /\ IsList(o, s, h, e, U) /\ U \in SUBSET Addrs /\ m \in Masks /\ d \in BOOLEAN
      /\ s \in [Addrs -> EntryRecords] /\ r \in Places /\ TreeOK([root |-> r, store |-> s], U)
      /\ Len(o) <= Slots /\ p = EntryLen * Len(o) /\ (~d => Len(o) = 0)
      /\ \A y \in U : \E id \in Ids : s[y].id = m[id]
  BY DEF Sound, UpTo
<1> HIDE DEF U
<1>2. /\ n \in Nat /\ DOMAIN o = 1 .. n /\ \A j \in 1 .. n : o[j] \in U /\ o[j] \in Addrs /\ o[j] # Null
      /\ \A j, k \in 1 .. n : o[j] = o[k] => j = k
      /\ (n # 0 => h = o[1])
  BY <1>1, ListFacts
<1>3. i \in 1 .. n /\ 1 \in 1 .. n /\ n # 0 /\ i - 1 \in 1 .. n /\ (i # n => i + 1 \in 1 .. n)
  BY <1>2
<1>4. /\ before = o[i - 1] /\ after = IF i = n THEN Null ELSE o[i + 1]
  BY <1>1, <1>3 DEF IsList
<1>5. /\ x \in Addrs /\ h \in Addrs /\ before \in Addrs /\ (after # Null => after \in Addrs)
      /\ x # h /\ x # before /\ x # after /\ h # after
      /\ x \in Places /\ h \in Places /\ before \in Places /\ after \in Places /\ Null \in Places
  <2>1. i = n => after = Null
    BY <1>4
  <2>2. i # n => after = o[i + 1] /\ i + 1 # i /\ i + 1 # 1
    BY <1>2, <1>3, <1>4
  <2>3. i - 1 # i
    BY <1>2, <1>3
  <2>4. before = o[i - 1] /\ h = o[1]
    BY <1>2, <1>3, <1>4
  <2> HIDE DEF before, after, n
  <2> QED BY <1>2, <1>3, <2>1, <2>2, <2>3, <2>4 DEF Places
<1>6. v = [b2 EXCEPT ![x].prev = Null]
  BY DEF Relinked
<1> HIDE DEF before, after, v, n
<1>7. /\ SameRest(s, a) /\ a \in [Addrs -> EntryRecords]
      /\ \A y \in Addrs : a[y].prev = s[y].prev /\ a[y].next = IF y = before THEN after ELSE s[y].next
  <2>1. a = WithNext(s, before, after)
    BY DEF WithNext
  <2> HIDE DEF a
  <2> QED BY <1>1, <1>5, <2>1, NextSet DEF NextOnly
<1> HIDE DEF a
<1>8. /\ SameRest(a, b) /\ b \in [Addrs -> EntryRecords]
      /\ \A y \in Addrs : b[y].next = a[y].next /\ b[y].prev = IF y = after THEN before ELSE a[y].prev
  <2>1. CASE after = Null
    BY <1>7, <2>1, AddrsFit DEF SameRest
  <2>2. CASE after # Null
    <3>1. b = WithPrev(a, after, before)
      BY <2>2 DEF WithPrev
    <3> HIDE DEF b
    <3> QED BY <1>5, <1>7, <2>2, <3>1, PrevSet DEF PrevOnly
  <2> QED BY <2>1, <2>2
<1> HIDE DEF b
<1>9. /\ SameRest(b, b1) /\ b1 \in [Addrs -> EntryRecords]
      /\ \A y \in Addrs : b1[y].next = b[y].next /\ b1[y].prev = IF y = h THEN x ELSE b[y].prev
  <2>1. b1 = WithPrev(b, h, x)
    BY DEF WithPrev
  <2> HIDE DEF b1
  <2> QED BY <1>5, <1>8, <2>1, PrevSet DEF PrevOnly
<1> HIDE DEF b1
<1>10. /\ SameRest(b1, b2) /\ b2 \in [Addrs -> EntryRecords]
       /\ \A y \in Addrs : b2[y].prev = b1[y].prev /\ b2[y].next = IF y = x THEN h ELSE b1[y].next
  <2>1. b2 = WithNext(b1, x, h)
    BY DEF WithNext
  <2> HIDE DEF b2
  <2> QED BY <1>5, <1>9, <2>1, NextSet DEF NextOnly
<1> HIDE DEF b2
<1>11. /\ SameRest(b2, v) /\ v \in [Addrs -> EntryRecords]
       /\ \A y \in Addrs : v[y].next = b2[y].next /\ v[y].prev = IF y = x THEN Null ELSE b2[y].prev
  <2>1. v = WithPrev(b2, x, Null)
    BY <1>6 DEF WithPrev
  <2> QED BY <1>5, <1>10, <2>1, PrevSet DEF PrevOnly
<1>12. SameRest(s, v)
  BY <1>7, <1>8, <1>9, <1>10, <1>11 DEF SameRest
<1>13. MovedUp(s, v, U, h, x)
  <2> SUFFICES ASSUME NEW y \in U
               PROVE  /\ v[y].next = IF y = x THEN h ELSE IF y = before THEN after ELSE s[y].next
                      /\ v[y].prev = IF y = x THEN Null ELSE IF y = h THEN x
                                     ELSE IF y = after THEN before ELSE s[y].prev
    BY DEF MovedUp, before, after
  <2>1. y \in Addrs
    BY <1>1
  <2> QED BY <1>5, <1>7, <1>8, <1>9, <1>10, <1>11, <2>1
<1> DEFINE q == Fronted(o, i)
           e2 == IF after = Null THEN before ELSE e
<1>14. IsList(q, v, x, e2, U) /\ Len(q) = n
  <2>1. i \in 1 .. Len(o)
    BY <1>3 DEF n
  <2>2. Len(q) = Len(o)
    BY <1>2 DEF Fronted, n
  <2>3. e2 = IF s[x].next = Null THEN s[x].prev ELSE e
    BY DEF before, after
  <2> HIDE DEF e2
  <2>4. IsList(q, v, x, e2, U)
    BY <1>1, <1>13, <2>1, <2>3, ListToHead
  <2> QED BY <2>2, <2>4 DEF n
<1>15. TreeOK([root |-> r, store |-> v], U)
  <2> DEFINE t == [root |-> r, store |-> s]
             w == [root |-> r, store |-> v]
  <2>1. t \in Trees /\ w \in Trees
    BY <1>1, <1>11 DEF Trees
  <2>2. SameTree(t, w, U)
    BY <1>1, <1>12 DEF SameTree, SameRest
  <2>3. TreeOK(t, U)
    BY <1>1
  <2> HIDE DEF t, w
  <2>4. TreeOK(w, U)
    BY <1>1, <2>1, <2>2, <2>3, TreeOnlyLinks
  <2> QED BY <2>4 DEF w
<1>16. \A y \in U : \E id \in Ids : v[y].id = m[id]
  BY <1>1, <1>12 DEF SameRest
<1>17. Sound(v, x, e2, r, p, m, d, q)
  <2> HIDE DEF q, e2
  <2> QED BY <1>1, <1>11, <1>14, <1>15, <1>16 DEF Sound, U, n
<1>18. ContentsIn(m, v, q) = FrontedSessions(ContentsIn(m, s, o), i)
  <2>1. \A y \in U : EntryIn(m, v, y) = EntryIn(m, s, y)
    BY <1>1, <1>12 DEF SameRest, EntryIn
  <2>2. \A j \in 1 .. n : q[j] = IF j = 1 THEN o[i] ELSE IF j <= i THEN o[j - 1] ELSE o[j]
    BY DEF Fronted, n
  <2>3. DOMAIN q = 1 .. n /\ DOMAIN ContentsIn(m, s, o) = 1 .. n
    BY <1>2 DEF Fronted, ContentsIn, n
  <2>4. \A j \in 1 .. n : ContentsIn(m, s, o)[j] = EntryIn(m, s, o[j])
    BY <1>2 DEF ContentsIn
  <2> HIDE DEF q
  <2>5. ASSUME NEW j \in 1 .. n
        PROVE  EntryIn(m, v, q[j]) = IF j = 1 THEN ContentsIn(m, s, o)[i]
                                     ELSE IF j <= i THEN ContentsIn(m, s, o)[j - 1] ELSE ContentsIn(m, s, o)[j]
    <3>1. j # 1 => j - 1 \in 1 .. n
      BY <1>2
    <3> QED BY <1>2, <1>3, <2>1, <2>2, <2>4, <3>1
  <2>6. ContentsIn(m, v, q) = [j \in 1 .. n |-> EntryIn(m, v, q[j])]
    BY <2>3 DEF ContentsIn
  <2> QED BY <2>3, <2>5, <2>6 DEF FrontedSessions
<1> QED BY <1>17, <1>18 DEF AfterMove, v, before, after

(* A session is forgotten.                                                 *)
ForgottenSessions(c, id) ==
  [i \in DOMAIN c |-> IF c[i].id = id THEN [id |-> id, par |-> Disabled] ELSE c[i]]
WithoutPar(s, x) == [s EXCEPT ![x].par = Disabled]
AfterForget(s, h, e, r, p, m, d, o, x, id) ==
  /\ Sound(WithoutPar(s, x), h, e, r, p, m, d, o)
  /\ ContentsIn(m, WithoutPar(s, x), o) = ForgottenSessions(ContentsIn(m, s, o), id)

(* The block stays sound, and only that session is disabled.               *)
LEMMA ForgetSound ==
  ASSUME NEW s, NEW h, NEW e, NEW r, NEW p, NEW m, NEW d, NEW o, Sound(s, h, e, r, p, m, d, o),
         NEW id \in Ids, NEW x, x = FindNode([root |-> r, store |-> s], m[id]), x # Null
  PROVE  AfterForget(s, h, e, r, p, m, d, o, x, id)
<1> DEFINE U == UpTo(p)
           v == WithoutPar(s, x)
           g == [s[x] EXCEPT !.par = Disabled]
<1>1. /\ IsList(o, s, h, e, U) /\ U \in SUBSET Addrs /\ m \in Masks /\ d \in BOOLEAN
      /\ s \in [Addrs -> EntryRecords] /\ r \in Places /\ TreeOK([root |-> r, store |-> s], U)
      /\ Len(o) <= Slots /\ p = EntryLen * Len(o) /\ (~d => Len(o) = 0)
      /\ \A y \in U : \E i \in Ids : s[y].id = m[i]
  BY DEF Sound, UpTo
<1>2. PICK i \in DOMAIN o : o[i] = x /\ x \in U /\ \A j \in DOMAIN o : EntryIn(m, s, o[j]).id = id <=> j = i
  BY FoundFacts DEF Sought
<1> HIDE DEF U
<1>3. x \in Addrs /\ s[x] \in EntryRecords
  BY <1>1, <1>2
<1>4. /\ g \in EntryRecords /\ g.par = Disabled /\ g.next = s[x].next /\ g.prev = s[x].prev
      /\ g.id = s[x].id /\ g.left = s[x].left /\ g.right = s[x].right
  BY <1>3 DEF EntryRecords
<1>5. v = [s EXCEPT ![x] = g]
  BY DEF WithoutPar
<1> HIDE DEF g, v
<1>6. v \in [Addrs -> EntryRecords] /\ \A y \in Addrs : v[y] = IF y = x THEN g ELSE s[y]
  BY <1>1, <1>4, <1>5
<1>7. \A y \in Addrs : /\ v[y].next = s[y].next /\ v[y].prev = s[y].prev /\ v[y].id = s[y].id
                       /\ v[y].left = s[y].left /\ v[y].right = s[y].right
                       /\ v[y].par = IF y = x THEN Disabled ELSE s[y].par
  BY <1>4, <1>6
<1>8. IsList(o, v, h, e, U)
  <2>1. SameList(s, v, U)
    BY <1>1, <1>7 DEF SameList
  <2> QED BY <1>1, <2>1, ListOnlyItsLinks
<1>9. TreeOK([root |-> r, store |-> v], U)
  <2> DEFINE t == [root |-> r, store |-> s]
             w == [root |-> r, store |-> v]
  <2>1. t \in Trees /\ w \in Trees
    BY <1>1, <1>6 DEF Trees
  <2>2. SameTree(t, w, U)
    BY <1>1, <1>7 DEF SameTree
  <2>3. TreeOK(t, U)
    BY <1>1
  <2> HIDE DEF t, w
  <2>4. TreeOK(w, U)
    BY <1>1, <2>1, <2>2, <2>3, TreeOnlyLinks
  <2> QED BY <2>4 DEF w
<1>10. \A y \in U : \E j \in Ids : v[y].id = m[j]
  BY <1>1, <1>7
<1>11. Sound(v, h, e, r, p, m, d, o)
  BY <1>1, <1>6, <1>8, <1>9, <1>10 DEF Sound, U
<1>12. /\ DOMAIN o = 1 .. Len(o) /\ \A j \in 1 .. Len(o) : o[j] \in U /\ o[j] \in Addrs
       /\ \A j, k \in 1 .. Len(o) : o[j] = o[k] => j = k
  BY <1>1, ListFacts
<1>13. ContentsIn(m, v, o) = ForgottenSessions(ContentsIn(m, s, o), id)
  <2> SUFFICES ASSUME NEW j \in DOMAIN o
               PROVE  EntryIn(m, v, o[j]) = IF EntryIn(m, s, o[j]).id = id THEN [id |-> id, par |-> Disabled]
                                            ELSE EntryIn(m, s, o[j])
    BY DEF ContentsIn, ForgottenSessions
  <2>1. CASE j = i
    <3>1. EntryIn(m, s, x).id = id
      BY <1>2
    <3>2. Unmasked(m, s[x].id) = id
      BY <3>1 DEF EntryIn
    <3>3. EntryIn(m, v, x) = [id |-> id, par |-> Disabled]
      BY <1>3, <1>7, <3>2 DEF EntryIn
    <3> QED BY <1>2, <2>1, <3>1, <3>3
  <2>2. CASE j # i
    <3>1. o[j] # x /\ o[j] \in Addrs
      BY <1>2, <1>12, <2>2
    <3>2. EntryIn(m, v, o[j]) = EntryIn(m, s, o[j])
      BY <1>7, <3>1 DEF EntryIn
    <3> QED BY <1>2, <2>2, <3>2
  <2> QED BY <2>1, <2>2
<1> QED BY <1>11, <1>13 DEF AfterForget, v

-----------------------------------------------------------------------------
(* The steps.                                                              *)

(* The invariant, and what the view is, in this and in the next state.     *)
LEMMA ViewOf ==
  IInv => view = ContentsIn(mask, store, Order) /\ Order \in Seq(Addrs)
<1> SUFFICES ASSUME IInv PROVE view = ContentsIn(mask, store, Order) /\ Order \in Seq(Addrs)
  OBVIOUS
<1>1. Order \in Seq(Addrs)
  BY DEF IInv, Sound, IsList
<1>2. view = [i \in DOMAIN Order |-> Entry(Order[i])]
  BY <1>1 DEF IInv, Contents, Entries
<1> QED BY <1>1, <1>2 DEF ContentsIn, EntryIn, Unmasked, Entry

(* It is enough to find some order in which the next state is sound.       *)
LEMMA NextSound ==
  ASSUME NEW o, Sound(store', head', tail', root', storePtr', mask', initDone', o), view' = Contents'
  PROVE  IInv' /\ view' = ContentsIn(mask', store', o)
<1>1. Order' = Iterate(LongerIn(store', head'), <<>>, Slots + 1)
  BY DEF Order, Longer, LongerIn
<1>2. IsList(o, store', head', tail', UpTo(storePtr')) /\ Len(o) <= Slots /\ o \in Seq(Addrs)
  BY DEF Sound, IsList
<1>3. UpTo(storePtr') \in SUBSET Addrs
  BY DEF UpTo
<1>4. Order' = o
  BY <1>1, <1>2, <1>3, OrderFound
<1>5. IInv'
  BY <1>4 DEF IInv
<1>6. view' = [i \in DOMAIN o |-> Entry(o[i])']
  BY <1>2, <1>4 DEF Contents, Entries
<1>7. view' = ContentsIn(mask', store', o)
  BY <1>6 DEF ContentsIn, EntryIn, Unmasked, Entry
<1> QED BY <1>5, <1>7

(* The state, as a sound block.                                            *)
SoundNow == Sound(store, head, tail, root, storePtr, mask, initDone, Order)

(* What the invariant says of the current state.                           *)
LEMMA StateFacts ==
  ASSUME IInv
  PROVE  /\ SoundNow /\ view = ContentsIn(mask, store, Order)
         /\ Tree \in Trees /\ TreeOK(Tree, UpTo(storePtr)) /\ UpTo(storePtr) \in SUBSET Addrs
         /\ IsList(Order, store, head, tail, UpTo(storePtr)) /\ mask \in Masks
         /\ Len(Order) \in Nat /\ Len(Order) <= Slots /\ storePtr = EntryLen * Len(Order)
         /\ DOMAIN view = 1 .. Len(Order) /\ Len(view) = Len(Order)
         /\ \A i \in 1 .. Len(Order) : view[i] = EntryIn(mask, store, Order[i])
         /\ (~initDone => Len(Order) = 0) /\ initDone \in BOOLEAN
         /\ store \in [Addrs -> EntryRecords]
<1>1. SoundNow /\ view = ContentsIn(mask, store, Order) /\ Order \in Seq(Addrs)
  BY ViewOf DEF IInv, SoundNow
<1>2. /\ Tree \in Trees /\ TreeOK(Tree, UpTo(storePtr)) /\ UpTo(storePtr) \in SUBSET Addrs
      /\ IsList(Order, store, head, tail, UpTo(storePtr)) /\ mask \in Masks
      /\ Len(Order) <= Slots /\ storePtr = EntryLen * Len(Order)
      /\ (~initDone => Len(Order) = 0) /\ initDone \in BOOLEAN
      /\ store \in [Addrs -> EntryRecords]
  BY <1>1 DEF SoundNow, Sound, Tree, Trees, UpTo
<1>3. Len(Order) \in Nat /\ DOMAIN Order = 1 .. Len(Order)
  BY <1>1
<1>4. DOMAIN view = 1 .. Len(Order) /\ \A i \in 1 .. Len(Order) : view[i] = EntryIn(mask, store, Order[i])
  BY <1>1, <1>3 DEF ContentsIn
<1>5. Len(view) = Len(Order)
  <2>1. view = [i \in 1 .. Len(Order) |-> EntryIn(mask, store, Order[i])]
    BY <1>1, <1>3 DEF ContentsIn
  <2> QED BY <1>3, <2>1
<1> QED BY <1>1, <1>2, <1>3, <1>4, <1>5

(* A session that is not there is saved as the abstract cache says.        *)
LEMMA AbstractSaved ==
  ASSUME IInv, NEW id \in Ids, NEW par \in Params, Slots # 0,
         \A i \in DOMAIN view : view[i].id # id,
         NEW n, n = (IF Len(Order) < Slots THEN Len(Order) + 1 ELSE Slots),
         view' = Headed([id |-> id, par |-> par], view, n), answer' = None
  PROVE  Abstract!Save(id, par)
<1>1. Len(view) = Len(Order)
  BY StateFacts
<1> QED BY <1>1 DEF Abstract!Save, Abstract!Saved, Abstract!Holds, Abstract!None, None, Headed

(* lru_save is the Save of the abstract cache.                             *)
LEMMA SaveStep ==
  ASSUME IInv, NEW id \in Ids, NEW par \in Params, Save(id, par), view' = Contents'
  PROVE  IInv' /\ Abstract!Save(id, par)
<1> DEFINE n == Len(Order)
           U == UpTo(storePtr)
           x == FindNode(Tree, mask[id])
<1>1. /\ SoundNow /\ view = ContentsIn(mask, store, Order) /\ Tree \in Trees /\ TreeOK(Tree, U)
      /\ U \in SUBSET Addrs /\ IsList(Order, store, head, tail, U) /\ mask \in Masks
      /\ n \in Nat /\ n <= Slots /\ storePtr = EntryLen * n /\ DOMAIN view = 1 .. n
      /\ \A i \in 1 .. n : view[i] = EntryIn(mask, store, Order[i])
      /\ (~initDone => n = 0) /\ initDone \in BOOLEAN
  BY StateFacts
<1>2. /\ DOMAIN Order = 1 .. n
      /\ x # Null => \E i \in 1 .. n : view[i].id = id
      /\ x = Null => \A i \in 1 .. n : view[i].id # id
      /\ x = Null => NoKey(Tree, U, mask[id])
  <2>1. DOMAIN Order = 1 .. n
    BY <1>1, ListFacts
  <2>2. /\ x # Null => \E i \in DOMAIN Order : EntryIn(mask, store, Order[i]).id = id
        /\ x = Null => \A i \in DOMAIN Order : EntryIn(mask, store, Order[i]).id # id
        /\ x = Null => \A y \in U : store[y].id # mask[id]
    <3>1. x = FindNode([root |-> root, store |-> store], mask[id])
      BY DEF Tree
    <3>2. Sound(store, head, tail, root, storePtr, mask, initDone, Order)
      BY <1>1 DEF SoundNow
    <3> HIDE DEF x
    <3>3. Sought(store, Order, storePtr, mask, id, x)
      BY <3>1, <3>2, FoundFacts
    <3> QED BY <3>3 DEF Sought
  <2> HIDE DEF x
  <2>3. x # Null => \E i \in 1 .. n : view[i].id = id
    BY <1>1, <2>1, <2>2
  <2>4. x = Null => \A i \in 1 .. n : view[i].id # id
    BY <1>1, <2>1, <2>2
  <2> QED BY <2>1, <2>2, <2>3, <2>4 DEF NoKey, Tree
<1> HIDE DEF x
<1>3. answer' = None /\ mask' = mask /\ initDone' = (initDone \/ StoreLen >= EntryLen)
  BY DEF Save
<1>4. Slots \in Nat /\ EntryLen = 100 /\ EntryLen * Slots <= StoreLen /\ StoreLen < EntryLen * Slots + EntryLen
      /\ StoreLen \in Nat
  BY SlotsFit, LruAssumption
<1>5. CASE StoreLen < EntryLen \/ x # Null
  <2>1. UNCHANGED <<store, head, tail, root, storePtr>>
    BY <1>5 DEF Save, x
  <2>2. Sound(store', head', tail', root', storePtr', mask', initDone', Order)
    <3>1. initDone' \in BOOLEAN /\ (~initDone' => n = 0)
      BY <1>1, <1>3
    <3> QED BY <1>1, <1>3, <2>1, <3>1 DEF SoundNow, Sound
  <2>3. IInv' /\ view' = view
    BY <1>1, <1>3, <2>1, <2>2, NextSound
  <2>4. Slots = 0 \/ \E i \in DOMAIN view : view[i].id = id
    BY <1>1, <1>2, <1>4, <1>5
  <2> QED BY <1>3, <2>3, <2>4 DEF Abstract!Save, Abstract!Saved, Abstract!Holds, Abstract!None, None
<1>6. CASE ~(StoreLen < EntryLen \/ x # Null)
  <2>1. Slots # 0 /\ x = Null /\ initDone' = TRUE
    <3>1. StoreLen >= EntryLen /\ x = Null
      BY <1>4, <1>6
    <3>2. Slots # 0
      BY <1>4, <3>1
    <3> QED BY <1>3, <3>1, <3>2
  <2>2. KeysKnown(Tree, U, mask)
    BY <1>1 DEF KeysKnown, SoundNow, Sound, Tree
  <2>3. CASE ~Full
    <3>1. SaveFresh(mask[id], par)
      BY <1>6, <2>3 DEF Save, x
    <3> DEFINE v == Filled(Tree, storePtr, mask[id], par, head)
    <3>2. /\ root' = v.root /\ store' = v.store /\ head' = storePtr
          /\ storePtr' = storePtr + EntryLen /\ tail' = IF head = Null THEN storePtr ELSE tail
      BY <3>1 DEF SaveFresh, Fill, Filled
    <3> HIDE DEF v
    <3>3. n < Slots
      BY <1>1, <1>4, <2>3 DEF Full
    <3>4. storePtr \in Addrs \ U /\ U \union {storePtr} = UpTo(EntryLen * (n + 1))
      <4>1. storePtr \in Addrs
        BY <1>1, <1>4, <3>3 DEF Addrs
      <4>2. \A k \in Nat : EntryLen * k < EntryLen * (n + 1) <=> (EntryLen * k < EntryLen * n \/ k = n)
        BY <1>1, <1>4
      <4>3. \A y \in Addrs : y < EntryLen * (n + 1) <=> (y < storePtr \/ y = storePtr)
        <5> SUFFICES ASSUME NEW y \in Addrs PROVE y < EntryLen * (n + 1) <=> (y < storePtr \/ y = storePtr)
          OBVIOUS
        <5>1. PICK k \in 0 .. Slots - 1 : y = EntryLen * k
          BY DEF Addrs
        <5>2. k \in Nat /\ (EntryLen * k = EntryLen * n <=> k = n)
          BY <1>1, <1>4
        <5> QED BY <1>1, <4>2, <5>1, <5>2
      <4>4. ~(storePtr < storePtr) /\ storePtr \in Int
        BY <1>1, <1>4
      <4> QED BY <4>1, <4>3, <4>4 DEF UpTo
    <3>5. Tree.store = store
      BY DEF Tree
    <3>6. AfterPush(Tree, v, storePtr, id, par, mask, Order, head, tail)
      <4>1. v = Filled(Tree, storePtr, mask[id], par, head)
        BY DEF v
      <4> QED BY <1>1, <1>2, <2>1, <2>2, <3>3, <3>4, <3>5, <4>1, PushSound
    <3> DEFINE o == Push(storePtr, Order)
    <3>7. Sound(store', head', tail', root', storePtr', mask', initDone', o)
      <4>1. storePtr' = EntryLen * (n + 1)
        BY <1>1, <1>4, <3>2
      <4> QED BY <1>3, <2>1, <3>2, <3>6, <4>1 DEF AfterPush
    <3>8. ContentsIn(mask', store', o) = Headed([id |-> id, par |-> par], view, n + 1)
      BY <1>1, <1>3, <3>2, <3>5, <3>6 DEF AfterPush
    <3> HIDE DEF o
    <3>9. IInv' /\ view' = Headed([id |-> id, par |-> par], view, n + 1)
      BY <3>7, <3>8, NextSound
    <3>10. n + 1 = IF n < Slots THEN n + 1 ELSE Slots
      BY <3>3
    <3>11. Abstract!Save(id, par)
      BY <1>1, <1>2, <1>3, <2>1, <3>9, <3>10, AbstractSaved
    <3> QED BY <3>9, <3>11
  <2>4. CASE Full
    <3>1. SaveEvicting(mask[id], par)
      BY <1>6, <2>4 DEF Save, x
    <3>2. n = Slots
      BY <1>1, <1>4, <2>4 DEF Full
    <3> DEFINE last == store[tail].prev
               v == Evicted(root, store, tail, mask[id], par, head)
    <3>3. (IF last = Null THEN Tree ELSE [Tree EXCEPT !.store[last].next = Null]) = Unlinked(root, store, last)
      BY DEF Tree, Unlinked
    <3>4. /\ root' = v.root /\ store' = v.store /\ head' = tail
          /\ storePtr' = storePtr /\ tail' = IF last = Null THEN tail ELSE last
      BY <3>1, <3>3 DEF SaveEvicting, Fill, Filled, Evicted
    <3> DEFINE o == Push(tail, Front(Order, Len(Order) - 1))
    <3> HIDE DEF v
    <3>5. AfterEvict(v, store, tail, storePtr, mask, Order, id, par)
      <4>1. v = Evicted(root, store, tail, mask[id], par, head)
        BY DEF v
      <4>2. Sound(store, head, tail, root, storePtr, mask, initDone, Order)
        BY <1>1 DEF SoundNow
      <4>3. NoKey([root |-> root, store |-> store], UpTo(storePtr), mask[id])
        BY <1>2, <2>1 DEF Tree
      <4>4. Len(Order) = Slots /\ Len(Order) # 0
        BY <2>1, <3>2
      <4> QED BY <4>1, <4>2, <4>3, <4>4, EvictSound
    <3>6. Sound(store', head', tail', root', storePtr', mask', initDone', o)
      BY <1>3, <2>1, <3>4, <3>5 DEF AfterEvict
    <3>7. ContentsIn(mask', store', o) = Headed([id |-> id, par |-> par], view, Slots)
      BY <1>1, <1>3, <3>4, <3>5 DEF AfterEvict
    <3> HIDE DEF o, last
    <3>8. IInv' /\ view' = Headed([id |-> id, par |-> par], view, Slots)
      BY <3>6, <3>7, NextSound
    <3>9. Slots = IF n < Slots THEN n + 1 ELSE Slots
      BY <1>4, <3>2
    <3>10. Abstract!Save(id, par)
      BY <1>1, <1>2, <1>3, <2>1, <3>8, <3>9, AbstractSaved
    <3> QED BY <3>8, <3>10
  <2> QED BY <2>3, <2>4
<1> QED BY <1>5, <1>6

(* A session that is loaded moves to the front of the view.                *)
LEMMA AbstractHit ==
  ASSUME NEW id \in Ids, NEW i \in DOMAIN view, view[i].id = id, view[i].par # Disabled,
         view' = FrontedSessions(view, i), answer' = Found(view[i].par)
  PROVE  Abstract!LoadHit(id)
<1>1. i \in Abstract!Live(view, id)
  BY DEF Abstract!Live
<1>2. view' = Abstract!ToFront(view, i) /\ answer' = Abstract!Found(view[i].par)
  BY DEF Abstract!ToFront, FrontedSessions, Abstract!Found, Found
<1> QED BY <1>1, <1>2 DEF Abstract!LoadHit

(* lru_load finds the session, and moves it to the front, or misses it, as *)
(* the abstract cache does.                                                *)
LEMMA LoadStep ==
  ASSUME IInv, NEW id \in Ids, Load(id), view' = Contents'
  PROVE  IInv' /\ (Abstract!LoadHit(id) \/ Abstract!LoadMiss(id))
<1> DEFINE n == Len(Order)
           x == FindNode(Tree, mask[id])
<1>1. /\ SoundNow /\ view = ContentsIn(mask, store, Order)
      /\ IsList(Order, store, head, tail, UpTo(storePtr)) /\ UpTo(storePtr) \in SUBSET Addrs
      /\ n \in Nat /\ DOMAIN view = 1 .. n
      /\ \A i \in 1 .. n : view[i] = EntryIn(mask, store, Order[i])
      /\ (~initDone => n = 0)
  BY StateFacts
<1>2. /\ DOMAIN Order = 1 .. n /\ (n # 0 => head = Order[1])
      /\ \A i, j \in 1 .. n : Order[i] = Order[j] => i = j
  BY <1>1, ListFacts
<1>3. Sought(store, Order, storePtr, mask, id, x)
  <2>1. x = FindNode([root |-> root, store |-> store], mask[id])
    BY DEF Tree
  <2>2. Sound(store, head, tail, root, storePtr, mask, initDone, Order)
    BY <1>1 DEF SoundNow
  <2> HIDE DEF x
  <2> QED BY <2>1, <2>2, FoundFacts
<1> HIDE DEF x, n
<1>4. mask' = mask /\ root' = root /\ storePtr' = storePtr /\ initDone' = initDone
  BY DEF Load
<1>5. \A y : EntryIn(mask, store, y).par = store[y].par
  BY DEF EntryIn
<1>6. CASE initDone /\ x # Null /\ store[x].par # Disabled
  <2>1. PICK i \in 1 .. n : /\ Order[i] = x
                            /\ \A j \in 1 .. n : EntryIn(mask, store, Order[j]).id = id <=> j = i
    BY <1>2, <1>3, <1>6 DEF Sought
  <2>2. view[i].id = id /\ view[i].par = store[x].par /\ i \in DOMAIN view
    BY <1>1, <1>5, <2>1
  <2>3. /\ answer' = Found(store[x].par) /\ head' = x
        /\ IF x = head THEN UNCHANGED <<store, tail>> ELSE ToHead(x)
    BY <1>6 DEF Load, x
  <2>4. IInv' /\ view' = FrontedSessions(view, i)
    <3>1. CASE x = head
      <4>1. i = 1
        BY <1>1, <1>2, <2>1, <3>1
      <4>2. Sound(store', head', tail', root', storePtr', mask', initDone', Order)
        BY <1>1, <1>4, <2>3, <3>1 DEF SoundNow
      <4>3. IInv' /\ view' = view
        BY <1>1, <1>4, <2>3, <3>1, <4>2, NextSound
      <4>4. \A j \in 1 .. n : (IF j = 1 THEN view[i] ELSE IF j <= i THEN view[j - 1] ELSE view[j]) = view[j]
        BY <1>1, <4>1
      <4>5. FrontedSessions(view, i) = [j \in 1 .. n |-> view[j]]
        BY <1>1, <4>4 DEF FrontedSessions
      <4>6. view = [j \in 1 .. n |-> view[j]]
        BY <1>1, <1>2 DEF ContentsIn
      <4> QED BY <4>3, <4>5, <4>6
    <3>2. CASE x # head
      <4>1. i # 1
        BY <1>1, <1>2, <2>1, <3>2
      <4>2. /\ store' = Relinked(store, head, x)
            /\ tail' = IF store[x].next = Null THEN store[x].prev ELSE tail
        BY <2>3, <3>2 DEF ToHead, Relinked
      <4>3. AfterMove(store, head, tail, root, storePtr, mask, initDone, Order, i, x)
        BY <1>1, <1>2, <2>1, <4>1, MoveSound DEF SoundNow
      <4> DEFINE o == Fronted(Order, i)
      <4>4. Sound(store', head', tail', root', storePtr', mask', initDone', o)
        BY <1>4, <2>3, <4>2, <4>3 DEF AfterMove
      <4>5. ContentsIn(mask', store', o) = FrontedSessions(view, i)
        BY <1>1, <1>4, <4>2, <4>3 DEF AfterMove
      <4> HIDE DEF o
      <4> QED BY <4>4, <4>5, NextSound
    <3> QED BY <3>1, <3>2
  <2> QED BY <1>6, <2>2, <2>3, <2>4, AbstractHit
<1>7. CASE ~(initDone /\ x # Null /\ store[x].par # Disabled)
  <2>1. answer' = None /\ UNCHANGED <<store, head, tail>>
    BY <1>7 DEF Load, x
  <2>2. Sound(store', head', tail', root', storePtr', mask', initDone', Order)
    BY <1>1, <1>4, <2>1 DEF SoundNow
  <2>3. IInv' /\ view' = view
    BY <1>1, <1>4, <2>1, <2>2, NextSound
  <2>4. ASSUME NEW i \in 1 .. n, view[i].id = id PROVE view[i].par = Disabled
    <3>1. initDone /\ x # Null
      BY <1>1, <1>2, <1>3, <2>4 DEF Sought
    <3>2. store[x].par = Disabled
      BY <1>7, <3>1
    <3>3. Order[i] = x
      BY <1>1, <1>2, <1>3, <2>4, <3>1 DEF Sought
    <3> QED BY <1>1, <1>5, <3>2, <3>3
  <2>5. Abstract!Live(view, id) = {}
    BY <1>1, <2>4 DEF Abstract!Live
  <2>6. Abstract!LoadMiss(id)
    BY <2>1, <2>3, <2>5 DEF Abstract!LoadMiss, Abstract!None, None
  <2> QED BY <2>3, <2>6
<1> QED BY <1>6, <1>7

(* br_ssl_session_cache_lru_forget is the Forget of the abstract cache.    *)
LEMMA ForgetStep ==
  ASSUME IInv, NEW id \in Ids, Forget(id), view' = Contents'
  PROVE  IInv' /\ Abstract!Forget(id)
<1> DEFINE n == Len(Order)
           x == FindNode(Tree, mask[id])
<1>1. /\ SoundNow /\ view = ContentsIn(mask, store, Order) /\ n \in Nat /\ DOMAIN view = 1 .. n
      /\ \A i \in 1 .. n : view[i] = EntryIn(mask, store, Order[i])
      /\ (~initDone => n = 0) /\ DOMAIN Order = 1 .. n
  BY StateFacts, ViewOf
<1>2. x = FindNode([root |-> root, store |-> store], mask[id])
  BY DEF Tree
<1>3. Sound(store, head, tail, root, storePtr, mask, initDone, Order)
  BY <1>1 DEF SoundNow
<1> HIDE DEF x, n
<1>4. Sought(store, Order, storePtr, mask, id, x)
  BY <1>2, <1>3, FoundFacts
<1>5. UNCHANGED <<head, tail, root, storePtr, mask, initDone>> /\ answer' = None
  BY DEF Forget
<1>6. IInv' /\ view' = ForgottenSessions(view, id)
  <2>1. CASE initDone /\ x # Null
    <3>1. store' = WithoutPar(store, x)
      BY <2>1 DEF Forget, x, WithoutPar
    <3>2. AfterForget(store, head, tail, root, storePtr, mask, initDone, Order, x, id)
      BY <1>2, <1>3, <2>1, ForgetSound
    <3>3. Sound(store', head', tail', root', storePtr', mask', initDone', Order)
      BY <1>5, <3>1, <3>2 DEF AfterForget
    <3>4. ContentsIn(mask', store', Order) = ForgottenSessions(view, id)
      BY <1>1, <1>5, <3>1, <3>2 DEF AfterForget
    <3> QED BY <3>3, <3>4, NextSound
  <2>2. CASE ~(initDone /\ x # Null)
    <3>1. store' = store
      BY <2>2 DEF Forget, x
    <3>2. Sound(store', head', tail', root', storePtr', mask', initDone', Order)
      BY <1>3, <1>5, <3>1
    <3>3. IInv' /\ view' = view
      BY <1>1, <1>5, <3>1, <3>2, NextSound
    <3>4. \A i \in 1 .. n : view[i].id # id
      BY <1>1, <1>4, <2>2 DEF Sought
    <3>5. ForgottenSessions(view, id) = [i \in 1 .. n |-> view[i]]
      BY <1>1, <3>4 DEF ForgottenSessions
    <3>6. view = [i \in 1 .. n |-> view[i]]
      BY <1>1 DEF ContentsIn
    <3> QED BY <3>3, <3>5, <3>6
  <2> QED BY <2>1, <2>2
<1> QED BY <1>5, <1>6 DEF Abstract!Forget, Abstract!Forgotten, ForgottenSessions, Abstract!None, None

(* At the beginning the block is empty.                                    *)
LEMMA InitStep ==
  ASSUME UseInit
  PROVE  IInv /\ Abstract!Init
<1> DEFINE o == <<>>
           t == [root |-> root, store |-> store]
           U == UpTo(storePtr)
<1>1. /\ store = [x \in Addrs |-> Blank] /\ head = Null /\ tail = Null /\ root = Null
      /\ storePtr = 0 /\ mask \in Masks /\ initDone = FALSE /\ answer = None /\ view = Contents
  BY DEF UseInit, Init
<1>2. U = {}
  <2>1. \A x \in Addrs : x \in Nat /\ ~(x < 0)
    BY AddrsFit
  <2> QED BY <1>1, <2>1 DEF UpTo
<1>3. o \in Seq(Addrs) /\ Len(o) = 0 /\ Len(o) <= Slots /\ storePtr = EntryLen * Len(o)
  BY <1>1, SlotsFit
<1>4. IsList(o, store, head, tail, U)
  BY <1>1, <1>2, <1>3 DEF IsList
<1>5. store \in [Addrs -> EntryRecords] /\ root \in Places
  BY <1>1 DEF Blank, EntryRecords, Places
<1>6. TreeOK(t, U)
  <2> DEFINE sub == [x \in {} |-> {}]
  <2>1. OwnLinks({}) = {RootLink}
    BY DEF OwnLinks
  <2>2. Subtrees({}, sub)
    BY DEF Subtrees
  <2>3. Node(t, RootLink) = Null
    BY <1>1 DEF Node
  <2> HIDE DEF sub, t
  <2>4. KeysDiffer(t, {}) /\ OneParent(t, {})
    BY <2>1 DEF KeysDiffer, OneParent
  <2>5. LinkGood(t, {}, sub, RootLink)
    BY <2>3 DEF LinkGood, Territory
  <2>6. Whole(t, {}, sub)
    BY <2>1, <2>2, <2>4, <2>5 DEF Whole
  <2> QED BY <1>2, <2>6 DEF TreeOK
<1>7. Sound(store, head, tail, root, storePtr, mask, initDone, o)
  BY <1>1, <1>2, <1>3, <1>4, <1>5, <1>6 DEF Sound
<1>8. Order = o
  <2>1. Order = Iterate(LongerIn(store, head), <<>>, Slots + 1)
    BY DEF Order, Longer, LongerIn
  <2>2. U \in SUBSET Addrs
    BY <1>2
  <2> HIDE DEF o, U
  <2> QED BY <1>3, <1>4, <2>1, <2>2, OrderFound
<1>9. IInv
  BY <1>1, <1>7, <1>8 DEF IInv
<1>10. view = <<>>
  BY <1>8, <1>9, ViewOf DEF ContentsIn
<1> QED BY <1>1, <1>9, <1>10 DEF Abstract!Init, Abstract!None, None

(* A step that changes nothing keeps the invariant.                        *)
LEMMA StutterStep ==
  ASSUME IInv, UNCHANGED <<vars, view>>
  PROVE  IInv'
<1>1. UNCHANGED <<store, head, tail, root, storePtr, mask, initDone, view>>
  BY DEF vars
<1>2. Order' = Order
  BY <1>1 DEF Order, Longer
<1>3. Contents' = Contents
  BY <1>1, <1>2 DEF Contents, Entries, Entry
<1>4. Sound(store', head', tail', root', storePtr', mask', initDone', Order')
  BY <1>1, <1>2 DEF IInv
<1> QED BY <1>1, <1>3, <1>4 DEF IInv

(* Every step maps to a step of the abstract cache, or to a stutter.       *)
LEMMA UseStep ==
  ASSUME IInv, [UseNext]_<<vars, view>>
  PROVE  IInv' /\ [Abstract!Next]_<<view, answer>>
<1>1. CASE UNCHANGED <<vars, view>>
  BY <1>1, StutterStep DEF vars
<1>2. ASSUME NEW s \in Sessions, Save(s[1], s[2]), view' = Contents'
      PROVE  IInv' /\ Abstract!Next
  <2>1. s[1] \in Ids /\ s[2] \in Params
    BY UseAssumption
  <2> QED BY <1>2, <2>1, SaveStep DEF Abstract!Next
<1>3. ASSUME NEW id \in Ids, Load(id), view' = Contents'
      PROVE  IInv' /\ Abstract!Next
  BY <1>3, LoadStep DEF Abstract!Next
<1>4. ASSUME NEW id \in Forgets, Forget(id), view' = Contents'
      PROVE  IInv' /\ Abstract!Next
  BY <1>4, ForgetStep, UseAssumption DEF Abstract!Next
<1> QED BY <1>1, <1>2, <1>3, <1>4 DEF UseNext

(* The invariant says what StoreSound says.                                *)
LEMMA SoundStore == IInv => StoreSound
<1> SUFFICES ASSUME IInv PROVE StoreSound
  OBVIOUS
<1> DEFINE n == Len(Order)
           U == UpTo(storePtr)
<1>1. /\ SoundNow /\ IsList(Order, store, head, tail, U) /\ U \in SUBSET Addrs /\ Tree \in Trees
      /\ TreeOK(Tree, U)
  BY StateFacts
<1>2. U = Used
  BY DEF UpTo, Used
<1> HIDE DEF U
<1>3. TreeFindsAll
  <2>1. PICK sub : Whole(Tree, U, sub)
    BY <1>1 DEF TreeOK
  <2>2. \A y : Key(Tree, y) = store[y].id
    BY DEF Key, Tree
  <2> SUFFICES ASSUME NEW id \in Ids
               PROVE  LET x == FindNode(Tree, mask[id])
                          here == {y \in Used : store[y].id = mask[id]}
                      IN  IF here = {} THEN x = Null ELSE here = {x}
    BY DEF TreeFindsAll
  <2> DEFINE x == FindNode(Tree, mask[id])
  <2>3. mask[id] \in Nat
    BY StateFacts, LruAssumption
  <2>4. /\ x # Null => x \in U /\ store[x].id = mask[id]
        /\ x = Null => \A y \in U : store[y].id # mask[id]
        /\ \A y \in U : store[y].id = mask[id] => x = y
    BY <1>1, <2>1, <2>2, <2>3, FindGood
  <2> HIDE DEF x
  <2>5. IF {y \in Used : store[y].id = mask[id]} = {} THEN x = Null
        ELSE {y \in Used : store[y].id = mask[id]} = {x}
    BY <1>2, <2>4
  <2> QED BY <2>5 DEF x
<1>4. ListBothWays
  <2>1. n = Cardinality(Used)
    BY <1>1, <1>2, ListLength
  <2>2. {Order[i] : i \in 1 .. n} = Used
    BY <1>1, <1>2, ListFacts
  <2>3. \A i \in 1 .. n : store[Order[i]].prev = IF i = 1 THEN Null ELSE Order[i - 1]
    BY <1>1 DEF IsList
  <2>4. tail = IF Order = <<>> THEN Null ELSE Order[n]
    <3>1. Order = <<>> <=> n = 0
      BY <1>1 DEF IsList
    <3> QED BY <1>1, <3>1 DEF IsList
  <2> QED BY <2>1, <2>2, <2>3, <2>4 DEF ListBothWays
<1> QED BY <1>3, <1>4 DEF StoreSound

-----------------------------------------------------------------------------
(* Tree and list stay whole and hold the same entries, after any sequence  *)
(* of saves, loads, evictions and forgets (ssl_lru.c).                     *)
THEOREM StoreIsSound == UseSpec => []StoreSound
<1>1. UseInit => IInv
  BY InitStep
<1>2. IInv /\ [UseNext]_<<vars, view>> => IInv'
  BY UseStep
<1>3. IInv => StoreSound
  BY SoundStore
<1> QED BY <1>1, <1>2, <1>3, PTL DEF UseSpec

(* The block of bytes implements the abstract cache: every save, load and  *)
(* forget is one of its steps, with the same answer.                       *)
THEOREM CacheRefined == UseSpec => RefinesCache
<1>1. UseInit => IInv /\ Abstract!Init
  BY InitStep
<1>2. IInv /\ [UseNext]_<<vars, view>> => IInv' /\ [Abstract!Next]_<<view, answer>>
  BY UseStep
<1> QED BY <1>1, <1>2, PTL DEF UseSpec, RefinesCache, Abstract!Spec
=============================================================================
