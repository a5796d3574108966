------------------------------ MODULE LRUCache ------------------------------
(***************************************************************************)
(* internal/cache/cache.go at the level of its pointers: the doubly linked *)
(* list between two sentinels, the map from uid to node, and the           *)
(* OrdersInCache gauge kept beside them.  Every method holds Cache.mu from *)
(* its first to its last statement, so each is one action.  Get of a uid   *)
(* that is not there and Size change none of this and have no action.      *)
(***************************************************************************)
EXTENDS OrderData, Integers, FiniteSets

CONSTANTS
  Nodes,       \* the cacheNodes that can be allocated at once (a bound)
  head, tail,  \* the sentinels
  Nil,         \* the nil pointer
  Capacity,    \* CACHE_CAPACITY, which config.Load wants above 0
  Deletable,   \* uids Delete is called with
  MaxDrift     \* how far below 0 the gauge is followed (a bound)

ASSUME CapacityAssumption == Capacity \in Nat \ {0}

ASSUME PointersAssumption ==
  /\ IsFiniteSet(Nodes)
  /\ head \notin Nodes /\ tail \notin Nodes /\ Nil \notin Nodes
  /\ head # tail /\ head # Nil /\ tail # Nil

VARIABLES
  links,       \* the next and prev field of every linked node
  value,       \* node -> its order, NoOrder when unallocated or collected
  elems,       \* uid -> node
  gauge,       \* metrics.OrdersInCache
  phase,       \* Populate runs before anyone else can reach the cache
  loadCount    \* Populate's local

vars == <<links, value, elems, gauge, phase, loadCount>>

Pointers == Nodes \cup {head, tail}

Live == {uid \in Uids : elems[uid] # Nil}

(* The steps a reader of the list takes from head, stopping at tail; they  *)
(* are cut off after as many as there are pointers, should the list loop.  *)
Path ==
  LET step[i \in 0..Cardinality(Nodes) + 1] ==
        IF i = 0 THEN head
        ELSE IF step[i - 1] \in {tail, Nil} THEN step[i - 1]
        ELSE links.next[step[i - 1]]
  IN  step

Linked == {Path[i] : i \in DOMAIN Path} \cap Nodes

Chain == [i \in 1..Cardinality(Linked) |-> value[Path[i]]]

-----------------------------------------------------------------------------
(* The list helpers: each takes the links and returns the new ones.        *)

(* Mutant: head.next is written before it is read.                         *)
AddNodeSwapped(l, n) ==
  [next |-> [l.next EXCEPT ![n] = n, ![head] = n],
   prev |-> [l.prev EXCEPT ![n] = n]]

AddNode(l, n) ==
  LET first == l.next[head]
  IN  [next |-> [l.next EXCEPT ![n] = first, ![head] = n],
       prev |-> [l.prev EXCEPT ![n] = head,  ![first] = n]]

RemoveNode(l, n) ==
  [next |-> [l.next EXCEPT ![l.prev[n]] = l.next[n]],
   prev |-> [l.prev EXCEPT ![l.next[n]] = l.prev[n]]]

MoveToHead(l, n) == AddNode(RemoveNode(l, n), n)

(* popTail hands out the node; nothing keeps it, and it is collected.      *)
PopTail(l) ==
  LET n == l.prev[tail]
      r == RemoveNode(l, n)
  IN  [next |-> [r.next EXCEPT ![n] = Nil], prev |-> [r.prev EXCEPT ![n] = Nil]]

-----------------------------------------------------------------------------
Init ==
  /\ links = [next |-> [p \in Pointers |-> IF p = head THEN tail ELSE Nil],
              prev |-> [p \in Pointers |-> IF p = tail THEN head ELSE Nil]]
  /\ value = [n \in Nodes |-> NoOrder]
  /\ elems = [uid \in Uids |-> Nil]
  /\ gauge = 0
  /\ phase = "loading"
  /\ loadCount = 0

(* Mutant: a replaced order keeps its place.                               *)
SetExistingInPlace(o) ==
  /\ elems[o.uid] # Nil
  /\ value' = [value EXCEPT ![elems[o.uid]] = o]
  /\ UNCHANGED <<links, elems, gauge>>

SetExisting(o) ==
  /\ elems[o.uid] # Nil
  /\ value' = [value EXCEPT ![elems[o.uid]] = o]
  /\ links' = MoveToHead(links, elems[o.uid])
  /\ UNCHANGED <<elems, gauge>>

(* Mutant: room is made one order late.                                    *)
OverCapacity == Cardinality(Live) > Capacity

(* The uid about to be added does not fit beside those in the map.         *)
AtCapacity == Cardinality(Live) >= Capacity

Allocate(n, o) ==
  /\ elems[o.uid] = Nil
  /\ value[n] = NoOrder

SetNew(o) ==
  /\ ~AtCapacity
  /\ \E n \in Nodes :
       /\ Allocate(n, o)
       /\ value' = [value EXCEPT ![n] = o]
       /\ elems' = [elems EXCEPT ![o.uid] = n]
       /\ links' = AddNode(links, n)
       /\ gauge' = gauge + 1

(* Mutant: the gauge is not taken down for the order that leaves.          *)
SetEvictUncounted(o) ==
  /\ AtCapacity
  /\ \E n \in Nodes :
       LET last == links.prev[tail]
       IN  /\ Allocate(n, o)
           /\ value' = [value EXCEPT ![n] = o, ![last] = NoOrder]
           /\ elems' = [elems EXCEPT ![o.uid] = n, ![value[last].uid] = Nil]
           /\ links' = PopTail(AddNode(links, n))
           /\ gauge' = gauge + 1

(* The map entry that goes is the popped node's key's, whatever node it    *)
(* points to by then; the gauge goes up and down.                          *)
SetEvict(o) ==
  /\ AtCapacity
  /\ \E n \in Nodes :
       LET last == links.prev[tail]
       IN  /\ Allocate(n, o)
           /\ value' = [value EXCEPT ![n] = o, ![last] = NoOrder]
           /\ elems' = [elems EXCEPT ![o.uid] = n, ![value[last].uid] = Nil]
           /\ links' = PopTail(AddNode(links, n))
           /\ UNCHANGED gauge

Set(o) == SetExisting(o) \/ SetNew(o) \/ SetEvict(o)

Serve(o) ==
  /\ phase = "serving"
  /\ Set(o)
  /\ UNCHANGED <<phase, loadCount>>

Get(uid) ==
  /\ phase = "serving"
  /\ elems[uid] # Nil
  /\ links' = MoveToHead(links, elems[uid])
  /\ UNCHANGED <<value, elems, gauge, phase, loadCount>>

(* Delete unindexes the node and leaves it in the list.                    *)
Delete(uid) ==
  /\ phase = "serving"
  /\ gauge > -MaxDrift
  /\ elems' = [elems EXCEPT ![uid] = Nil]
  /\ gauge' = gauge - 1
  /\ UNCHANGED <<links, value, phase, loadCount>>

(* Mutant: GetRecentOrdersUID is called without its LIMIT.                 *)
PopulateUnlimited(o) ==
  /\ phase = "loading"
  /\ elems[o.uid] = Nil
  /\ Set(o)
  /\ loadCount' = loadCount + 1
  /\ UNCHANGED phase

(* One round of Populate's loop: GetRecentOrdersUID returned at most       *)
(* Capacity uids, each once; one whose row cannot be read is skipped.      *)
PopulateOne(o) ==
  /\ phase = "loading"
  /\ loadCount < Capacity
  /\ elems[o.uid] = Nil
  /\ Set(o)
  /\ loadCount' = loadCount + 1
  /\ UNCHANGED phase

PopulateDone ==
  /\ phase = "loading"
  /\ phase' = "serving"
  /\ gauge' = loadCount
  /\ UNCHANGED <<links, value, elems, loadCount>>

Next ==
  \/ \E o \in Rows : PopulateOne(o)
  \/ PopulateDone
  \/ \E o \in Entries : Serve(o)
  \/ \E uid \in Uids : Get(uid)

Spec == Init /\ [][Next]_vars

(* The same with Delete, which the program itself never calls.             *)
DeletingSpec == Init /\ [][Next \/ \E uid \in Deletable : Delete(uid)]_vars

-----------------------------------------------------------------------------
TypeOK ==
  /\ links \in [next : [Pointers -> Pointers \cup {Nil}],
                prev : [Pointers -> Pointers \cup {Nil}]]
  /\ value \in [Nodes -> Entries \cup {NoOrder}]
  /\ elems \in [Uids -> Nodes \cup {Nil}]
  /\ gauge \in Int
  /\ phase \in {"loading", "serving"}
  /\ loadCount \in 0..Capacity

(* addNode and removeNode keep one chain from head to tail, walked the     *)
(* same backwards, through every node that is still held; and the map only *)
(* points into it, to a node that carries the key.                         *)
ListIsSound ==
  /\ \A p \in Linked \cup {head} : links.prev[links.next[p]] = p
  /\ Path[Cardinality(Linked) + 1] = tail
  /\ Linked = {n \in Nodes : value[n] # NoOrder}
  /\ \A uid \in Live : elems[uid] \in Linked /\ value[elems[uid]].uid = uid

(* NewCache gives the cache "the given maximum capacity".                  *)
WithinCapacity == Cardinality(Live) <= Capacity

(* OrdersInCache is the "gauge of orders in cache": what Size would return. *)
GaugeIsSize == gauge = Cardinality(Live)

(* Set, Get and Populate are the operations of an LRU cache: the list read *)
(* from the head is the orders by last use.                                *)
Abstract == INSTANCE LRU WITH lru <- Chain
ImplementsLRU == Abstract!Spec
=============================================================================
