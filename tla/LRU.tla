--------------------------------- MODULE LRU ---------------------------------
(***************************************************************************)
(* What internal/cache promises: at most Capacity orders, one per uid,     *)
(* kept in the order of their last use, the least recently used one        *)
(* leaving when a new one needs its place.                                 *)
(***************************************************************************)
EXTENDS Naturals, SequencesExt

CONSTANTS Entries,   \* the orders that may be cached
          Capacity   \* CACHE_CAPACITY

VARIABLE lru         \* the cached orders, most recently used first

Cached(uid) == \E i \in DOMAIN lru : lru[i].uid = uid

Init == lru = <<>>

(* Set of a uid that is there: the new value, moved to the front. *)
Replace(o) ==
  \E i \in DOMAIN lru :
    /\ lru[i].uid = o.uid
    /\ lru' = <<o>> \o RemoveAt(lru, i)

(* Set of a new uid while there is room. *)
Insert(o) ==
  /\ ~Cached(o.uid)
  /\ Len(lru) < Capacity
  /\ lru' = <<o>> \o lru

(* Set of a new uid at capacity. *)
Evict(o) ==
  /\ ~Cached(o.uid)
  /\ Len(lru) >= Capacity
  /\ lru' = <<o>> \o Front(lru)

Set(o) == Replace(o) \/ Insert(o) \/ Evict(o)

(* Get of a uid that is there: the i-th order moves to the front. *)
Hit(i) == lru' = <<lru[i]>> \o RemoveAt(lru, i)

Next ==
  \/ \E o \in Entries : Set(o)
  \/ \E i \in DOMAIN lru : Hit(i)

Spec == Init /\ [][Next]_lru
==============================================================================
