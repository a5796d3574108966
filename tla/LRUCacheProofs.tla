--------------------------- MODULE LRUCacheProofs ---------------------------
(***************************************************************************)
(* Proofs about LRUCache as the program uses it, for any orders, any       *)
(* capacity and any number of nodes: the pointers stay one list, and the   *)
(* list is the LRU cache of module LRU.                                    *)
(***************************************************************************)
EXTENDS LRUCache, FiniteSetTheorems, SequenceTheorems, WellFoundedInduction, TLAPS

-----------------------------------------------------------------------------
(***************************************************************************)
(* Walks.  A walk of n nodes starts at the head, follows next to the tail, *)
(* and prev leads back along it.                                           *)

Links == [next : [Pointers -> Pointers \cup {Nil}], prev : [Pointers -> Pointers \cup {Nil}]]

Walk(n, p, l) ==
  /\ l \in Links
  /\ n \in Nat /\ p \in [0..n + 1 -> Pointers]
  /\ p[0] = head /\ p[n + 1] = tail
  /\ \A i \in 1..n : p[i] \in Nodes
  /\ \A i, j \in 1..n : p[i] = p[j] => i = j
  /\ \A i \in 0..n : l.next[p[i]] = p[i + 1] /\ l.prev[p[i + 1]] = p[i]

(* The walk without its j-th node, and with one more at its start.         *)
Cut(n, p, j) == [i \in 0..n |-> IF i < j THEN p[i] ELSE p[i + 1]]
Put(n, p, x) == [i \in 0..n + 2 |-> IF i = 0 THEN head ELSE IF i = 1 THEN x ELSE p[i - 1]]

LEMMA WalkTypes ==
  ASSUME NEW n, NEW p, NEW l, Walk(n, p, l)
  PROVE  /\ n \in Nat
         /\ l.next \in [Pointers -> Pointers \cup {Nil}]
         /\ l.prev \in [Pointers -> Pointers \cup {Nil}]
         /\ l = [next |-> l.next, prev |-> l.prev]
         /\ \A i \in 0..n + 1 : p[i] \in Pointers
BY DEF Walk, Links

(* The two sentinels are no nodes: a walk meets every pointer once.        *)
LEMMA WalkInjective ==
  ASSUME NEW n, NEW p, NEW l, Walk(n, p, l), NEW i \in 0..n + 1, NEW j \in 0..n + 1,
         p[i] = p[j]
  PROVE  i = j
<1>1. \A k \in 0..n + 1 : k = 0 \/ k = n + 1 \/ k \in 1..n
  BY DEF Walk
<1>2. p[0] = head /\ p[n + 1] = tail /\ \A k \in 1..n : p[k] # head /\ p[k] # tail
  BY PointersAssumption DEF Walk
<1> QED BY <1>1, <1>2, PointersAssumption DEF Walk

LEMMA Removed ==
  ASSUME NEW n, NEW p, NEW l, Walk(n, p, l), NEW j \in 1..n
  PROVE  Walk(n - 1, Cut(n, p, j), RemoveNode(l, p[j]))
<1> DEFINE c == Cut(n, p, j)
           r == RemoveNode(l, p[j])
           m == n - 1
<1>1. n \in Nat /\ m \in Nat /\ m + 1 = n /\ j - 1 \in 0..n /\ j + 1 \in 0..n + 1
  BY WalkTypes
<1>2. l.next[p[j]] = p[j + 1] /\ l.prev[p[j]] = p[j - 1]
  BY <1>1 DEF Walk
<1>3. r = [next |-> [l.next EXCEPT ![p[j - 1]] = p[j + 1]],
           prev |-> [l.prev EXCEPT ![p[j + 1]] = p[j - 1]]]
  BY <1>2 DEF RemoveNode
<1>4. p[j - 1] \in Pointers /\ p[j + 1] \in Pointers
  BY <1>1, WalkTypes
<1>5. r \in Links
  BY <1>3, <1>4, WalkTypes DEF Links
<1>6. /\ \A q \in Pointers : r.next[q] = IF q = p[j - 1] THEN p[j + 1] ELSE l.next[q]
      /\ \A q \in Pointers : r.prev[q] = IF q = p[j + 1] THEN p[j - 1] ELSE l.prev[q]
  BY <1>3, <1>4, WalkTypes
<1>7. /\ \A i \in 0..n : i < j => c[i] = p[i]
      /\ \A i \in 0..n : i >= j => c[i] = p[i + 1]
      /\ c \in [0..n -> Pointers]
  BY <1>1, WalkTypes DEF Cut
<1>8. c[0] = head /\ c[m + 1] = tail
  BY <1>1, <1>7 DEF Walk
<1>9. \A i \in 1..m : c[i] \in Nodes
  BY <1>1, <1>7 DEF Walk
<1>10. ASSUME NEW i \in 1..m, NEW k \in 1..m, c[i] = c[k] PROVE i = k
  <2>1. i \in 0..n + 1 /\ k \in 0..n + 1 /\ i + 1 \in 0..n + 1 /\ k + 1 \in 0..n + 1
    BY <1>1
  <2>2. PICK a \in {i, i + 1}, b \in {k, k + 1} :
          /\ p[a] = p[b]
          /\ a = i <=> i < j
          /\ b = k <=> k < j
    BY <1>1, <1>7, <1>10
  <2>3. a = b
    BY <2>1, <2>2, WalkInjective
  <2> QED BY <1>1, <2>1, <2>2, <2>3
<1>11. ASSUME NEW i \in 0..m PROVE r.next[c[i]] = c[i + 1] /\ r.prev[c[i + 1]] = c[i]
  <2>1. i \in 0..n /\ i + 1 \in 0..n /\ i \in 0..n + 1 /\ i + 1 \in 0..n + 1 /\ i + 2 \in 0..n + 1
    BY <1>1
  <2>2. CASE i < j - 1
    <3>1. c[i] = p[i] /\ c[i + 1] = p[i + 1]
      BY <1>1, <1>7, <2>1, <2>2
    <3>2. p[i] # p[j - 1] /\ p[i + 1] # p[j + 1]
      BY <1>1, <2>1, <2>2, WalkInjective
    <3>3. l.next[p[i]] = p[i + 1] /\ l.prev[p[i + 1]] = p[i]
      BY <2>1 DEF Walk
    <3>4. p[i] \in Pointers /\ p[i + 1] \in Pointers
      BY <2>1, WalkTypes
    <3> QED BY <1>6, <3>1, <3>2, <3>3, <3>4
  <2>3. CASE i = j - 1
    <3>1. c[i] = p[j - 1] /\ c[i + 1] = p[j + 1]
      BY <1>1, <1>7, <2>1, <2>3
    <3> QED BY <1>4, <1>6, <3>1
  <2>4. CASE i > j - 1
    <3>1. c[i] = p[i + 1] /\ c[i + 1] = p[i + 2]
      BY <1>1, <1>7, <2>1, <2>4
    <3>2. p[i + 1] # p[j - 1] /\ p[i + 2] # p[j + 1]
      BY <1>1, <2>1, <2>4, WalkInjective
    <3>3. l.next[p[i + 1]] = p[i + 2] /\ l.prev[p[i + 2]] = p[i + 1]
      <4>1. i + 1 \in 0..n /\ (i + 1) + 1 = i + 2
        BY <1>1
      <4> QED BY <4>1 DEF Walk
    <3>4. p[i + 1] \in Pointers /\ p[i + 2] \in Pointers
      BY <2>1, WalkTypes
    <3> QED BY <1>6, <3>1, <3>2, <3>3, <3>4
  <2> QED BY <1>1, <2>2, <2>3, <2>4
<1> HIDE DEF c, r, m
<1>12. c \in [0..m + 1 -> Pointers]
  BY <1>1, <1>7
<1>13. Walk(m, c, r)
  BY <1>1, <1>5, <1>8, <1>9, <1>10, <1>11, <1>12 DEF Walk
<1> QED BY <1>13 DEF c, r, m

LEMMA Added ==
  ASSUME NEW n, NEW p, NEW l, Walk(n, p, l), NEW x \in Nodes, \A i \in 1..n : p[i] # x
  PROVE  Walk(n + 1, Put(n, p, x), AddNode(l, x))
<1> DEFINE c == Put(n, p, x)
           r == AddNode(l, x)
           m == n + 1
<1>1. n \in Nat /\ m \in Nat /\ m + 1 = n + 2
  BY WalkTypes
<1>2. p[0] = head /\ l.next[head] = p[1] /\ p[1] \in Pointers /\ x \in Pointers /\ head \in Pointers
  BY <1>1, WalkTypes DEF Walk, Pointers
<1>3. /\ x # head /\ p[1] # head /\ p[1] # x
      /\ \A i \in 0..n + 1 : p[i] # x
  <2>1. \A i \in 0..n + 1 : i = 0 \/ i = n + 1 \/ i \in 1..n
    BY <1>1
  <2>2. x # head /\ x # tail
    BY PointersAssumption
  <2>3. \A i \in 0..n + 1 : p[i] # x
    BY <2>1, <2>2 DEF Walk
  <2>4. p[1] # p[0]
    BY <1>1, WalkInjective
  <2> QED BY <1>1, <1>2, <2>2, <2>3, <2>4
<1>4. r = [next |-> [l.next EXCEPT ![x] = p[1], ![head] = x],
           prev |-> [l.prev EXCEPT ![x] = head, ![p[1]] = x]]
  BY <1>2 DEF AddNode
<1>5. r \in Links
  BY <1>2, <1>4, WalkTypes DEF Links
<1>6. /\ r.next[head] = x /\ r.next[x] = p[1]
      /\ r.prev[x] = head /\ r.prev[p[1]] = x
      /\ \A q \in Pointers : q # head /\ q # x => r.next[q] = l.next[q]
      /\ \A q \in Pointers : q # p[1] /\ q # x => r.prev[q] = l.prev[q]
  BY <1>2, <1>3, <1>4, WalkTypes
<1>7. /\ c[0] = head /\ c[1] = x
      /\ \A i \in 2..n + 2 : c[i] = p[i - 1]
      /\ c \in [0..n + 2 -> Pointers]
  BY <1>1, <1>2, WalkTypes DEF Put
<1>8. c[m + 1] = tail
  BY <1>1, <1>7 DEF Walk
<1>9. \A i \in 1..m : c[i] \in Nodes
  <2>1. \A i \in 1..m : i = 1 \/ (i \in 2..n + 2 /\ i - 1 \in 1..n)
    BY <1>1
  <2> QED BY <1>7, <2>1 DEF Walk
<1>10. ASSUME NEW i \in 1..m, NEW k \in 1..m, c[i] = c[k] PROVE i = k
  <2>1. \A a \in 1..m : a = 1 \/ (a \in 2..n + 2 /\ a - 1 \in 1..n)
    BY <1>1
  <2>2. CASE i = 1 \/ k = 1
    BY <1>7, <1>10, <2>1, <2>2
  <2>3. CASE i # 1 /\ k # 1
    <3>1. p[i - 1] = p[k - 1] /\ i - 1 \in 1..n /\ k - 1 \in 1..n
      BY <1>7, <1>10, <2>1, <2>3
    <3>2. i - 1 = k - 1
      BY <3>1 DEF Walk
    <3> QED BY <3>2
  <2> QED BY <2>2, <2>3
<1>11. ASSUME NEW i \in 0..m PROVE r.next[c[i]] = c[i + 1] /\ r.prev[c[i + 1]] = c[i]
  <2>1. CASE i = 0
    BY <1>6, <1>7, <2>1
  <2>2. CASE i = 1
    <3>1. c[i] = x /\ c[i + 1] = p[1]
      BY <1>1, <1>7, <2>2
    <3> QED BY <1>6, <3>1
  <2>3. CASE i > 1
    <3>1. /\ i - 1 \in 0..n /\ i - 1 \in 0..n + 1 /\ i \in 0..n + 1
          /\ i \in 2..n + 2 /\ i + 1 \in 2..n + 2
      BY <1>1, <2>3
    <3>2. c[i] = p[i - 1] /\ c[i + 1] = p[i]
      BY <1>7, <3>1
    <3>3. l.next[p[i - 1]] = p[i] /\ l.prev[p[i]] = p[i - 1]
      <4>1. (i - 1) + 1 = i
        OBVIOUS
      <4> QED BY <3>1, <4>1 DEF Walk
    <3>4. p[i - 1] # p[0] /\ p[i] # p[1]
      <4>1. 0 \in 0..n + 1 /\ 1 \in 0..n + 1
        BY <1>1
      <4> QED BY <2>3, <3>1, <4>1, WalkInjective
    <3>5. p[i - 1] \in Pointers /\ p[i] \in Pointers
      BY <3>1, WalkTypes
    <3> QED BY <1>2, <1>3, <1>6, <3>1, <3>2, <3>3, <3>4, <3>5
  <2> QED BY <2>1, <2>2, <2>3
<1> HIDE DEF c, r, m
<1>12. c \in [0..m + 1 -> Pointers]
  BY <1>1, <1>7
<1>13. Walk(m, c, r)
  BY <1>1, <1>5, <1>7, <1>8, <1>9, <1>10, <1>11, <1>12 DEF Walk
<1> QED BY <1>13 DEF c, r, m

(* A node that is off the walk may be written without disturbing it.       *)
LEMMA Unlinked ==
  ASSUME NEW n, NEW p, NEW l, Walk(n, p, l), NEW x \in Nodes, \A i \in 1..n : p[i] # x
  PROVE  Walk(n, p, [next |-> [l.next EXCEPT ![x] = Nil], prev |-> [l.prev EXCEPT ![x] = Nil]])
<1> DEFINE r == [next |-> [l.next EXCEPT ![x] = Nil], prev |-> [l.prev EXCEPT ![x] = Nil]]
<1>1. n \in Nat /\ x # head /\ x # tail
  BY PointersAssumption, WalkTypes
<1>2. r \in Links
  BY WalkTypes DEF Links
<1>3. \A i \in 0..n + 1 : p[i] \in Pointers /\ p[i] # x
  <2>1. \A i \in 0..n + 1 : i = 0 \/ i = n + 1 \/ i \in 1..n
    BY <1>1
  <2> QED BY <1>1, <2>1, WalkTypes DEF Walk
<1>4. \A q \in Pointers : q # x => r.next[q] = l.next[q] /\ r.prev[q] = l.prev[q]
  BY WalkTypes
<1>5. ASSUME NEW i \in 0..n
      PROVE  r.next[p[i]] = p[i + 1] /\ r.prev[p[i + 1]] = p[i]
  <2>1. i \in 0..n + 1 /\ i + 1 \in 0..n + 1
    BY <1>1
  <2>2. l.next[p[i]] = p[i + 1] /\ l.prev[p[i + 1]] = p[i]
    BY DEF Walk
  <2> QED BY <1>3, <1>4, <2>1, <2>2
<1> HIDE DEF r
<1>6. Walk(n, p, r)
  BY <1>2, <1>5 DEF Walk
<1> QED BY <1>6 DEF r

(* popTail takes the last node off the walk.                               *)
LEMMA Popped ==
  ASSUME NEW n, NEW p, NEW l, Walk(n, p, l), n > 0
  PROVE  Walk(n - 1, Cut(n, p, n), PopTail(l))
<1>1. n \in Nat /\ n \in 1..n /\ n \in 0..n
  BY WalkTypes
<1>2. l.prev[tail] = p[n] /\ p[n] \in Nodes
  BY <1>1 DEF Walk
<1> DEFINE c == Cut(n, p, n)
           r == RemoveNode(l, p[n])
           m == n - 1
           x == p[n]
<1>3. Walk(m, c, r) /\ x \in Nodes
  BY <1>1, <1>2, Removed
<1>4. ASSUME NEW i \in 1..m PROVE c[i] # x
  <2>1. c[i] = p[i] /\ i \in 0..n + 1 /\ n \in 0..n + 1 /\ i # n
    BY <1>1 DEF Cut
  <2> QED BY <2>1, WalkInjective
<1>5. PopTail(l) = [next |-> [r.next EXCEPT ![x] = Nil], prev |-> [r.prev EXCEPT ![x] = Nil]]
  BY <1>2 DEF PopTail
<1> HIDE DEF c, r, m, x
<1>6. Walk(m, c, PopTail(l))
  BY <1>3, <1>4, <1>5, Unlinked
<1> QED BY <1>6 DEF c, m

(* moveToHead: the j-th node becomes the first.                            *)
Moved(n, p, j) == Put(n - 1, Cut(n, p, j), p[j])

LEMMA MovedWalk ==
  ASSUME NEW n, NEW p, NEW l, Walk(n, p, l), NEW j \in 1..n
  PROVE  /\ Walk(n, Moved(n, p, j), MoveToHead(l, p[j]))
         /\ \A i \in 1..n : Moved(n, p, j)[i] =
              IF i = 1 THEN p[j] ELSE IF i <= j THEN p[i - 1] ELSE p[i]
<1> DEFINE c == Cut(n, p, j)
           r == RemoveNode(l, p[j])
           x == p[j]
           m == n - 1
<1>1. n \in Nat /\ m \in Nat /\ m + 1 = n /\ m + 2 = n + 1 /\ x \in Nodes
  BY WalkTypes DEF Walk
<1>2. Walk(m, c, r)
  BY Removed
<1>3. ASSUME NEW i \in 1..m PROVE c[i] # x
  <2>1. i \in 0..n + 1 /\ i + 1 \in 0..n + 1 /\ j \in 0..n + 1 /\ i \in 0..n
    BY <1>1
  <2>2. (c[i] = p[i] /\ i < j) \/ (c[i] = p[i + 1] /\ i >= j)
    BY <1>1, <2>1 DEF Cut
  <2> QED BY <2>1, <2>2, WalkInjective
<1>4. ASSUME NEW i \in 1..n
      PROVE  Moved(n, p, j)[i] = IF i = 1 THEN p[j] ELSE IF i <= j THEN p[i - 1] ELSE p[i]
  <2>1. i \in 0..m + 2 /\ i - 1 \in 0..n /\ (i - 1) + 1 = i /\ i # 0
    BY <1>1
  <2>2. Moved(n, p, j)[i] = IF i = 1 THEN p[j] ELSE c[i - 1]
    BY <2>1 DEF Moved, Put
  <2>3. c[i - 1] = IF i - 1 < j THEN p[i - 1] ELSE p[i]
    BY <2>1 DEF Cut
  <2>4. i - 1 < j <=> i <= j
    OBVIOUS
  <2> QED BY <2>2, <2>3, <2>4
<1>5. Moved(n, p, j) = Put(m, c, x) /\ MoveToHead(l, p[j]) = AddNode(r, x)
  BY DEF Moved, MoveToHead
<1> HIDE DEF c, r, x, m
<1>6. Walk(m + 1, Put(m, c, x), AddNode(r, x))
  BY <1>1, <1>2, <1>3, Added
<1> QED BY <1>1, <1>4, <1>5, <1>6

(* A walk is no longer than there are nodes.                               *)
LEMMA WalkLength ==
  ASSUME NEW n, NEW p, NEW l, Walk(n, p, l)
  PROVE  /\ Cardinality(Nodes) \in Nat
         /\ n <= Cardinality(Nodes)
         /\ IsFiniteSet({p[i] : i \in 1..n})
         /\ Cardinality({p[i] : i \in 1..n}) = n
<1> DEFINE f == [i \in 1..n |-> p[i]]
           T == {p[i] : i \in 1..n}
<1>1. n \in Nat /\ IsFiniteSet(1..n) /\ Cardinality(1..n) = n
  <2>1. n \in Nat
    BY WalkTypes
  <2> QED BY <2>1, FS_Interval
<1>2. T \in SUBSET Nodes /\ IsFiniteSet(Nodes)
  BY PointersAssumption DEF Walk
<1>3. f \in [1..n -> T] /\ IsInjective(f) /\ \A x \in T : \E i \in 1..n : f[i] = x
  BY DEF Walk, IsInjective
<1>4. f \in Bijection(1..n, T)
  BY <1>3 DEF Bijection, Injection, Surjection
<1>5. ExistsBijection(1..n, T)
  BY <1>4 DEF ExistsBijection
<1> HIDE DEF T, f
<1>6. IsFiniteSet(T) /\ Cardinality(T) = n
  BY <1>1, <1>5, FS_Bijection
<1>7. Cardinality(T) <= Cardinality(Nodes) /\ Cardinality(Nodes) \in Nat
  BY <1>2, FS_Subset, FS_CardinalityType
<1> QED BY <1>6, <1>7 DEF T

-----------------------------------------------------------------------------
(***************************************************************************)
(* What a reader of the list sees.  Path is a recursive function: it is    *)
(* what its definition says because the walk, followed by the tail for     *)
(* ever, satisfies the definition; and it is the walk because there is no  *)
(* least step at which the two part.                                       *)

LEMMA LeastNatural ==
  ASSUME NEW T \in SUBSET Nat, T # {}
  PROVE  \E m \in T : \A k \in T : m <= k
<1> DEFINE R == {ss \in Nat \X Nat : ss[1] < ss[2]}
<1>1. IsWellFoundedOn(R, Nat)
  BY NatLessThanWellFounded DEF OpToRel
<1>2. PICK m \in T : \A k \in T : ~(<<k, m>> \in R)
  <2> HIDE DEF R
  <2> QED BY <1>1, WFMin
<1>3. ASSUME NEW k \in T, k < m PROVE FALSE
  <2>1. <<k, m>> \in Nat \X Nat
    OBVIOUS
  <2>2. <<k, m>>[1] < <<k, m>>[2]
    BY <1>3
  <2> QED BY <1>2, <2>1, <2>2
<1>4. \A k \in T : m <= k
  BY <1>3
<1> QED BY <1>4

Following(s) ==
  [i \in 0..Cardinality(Nodes) + 1 |->
     IF i = 0 THEN head
     ELSE IF s[i - 1] \in {tail, Nil} THEN s[i - 1]
     ELSE links.next[s[i - 1]]]

WalkThenTail(n, p) ==
  [i \in 0..Cardinality(Nodes) + 1 |-> IF i <= n + 1 THEN p[i] ELSE tail]

LEMMA WalkFollows ==
  ASSUME NEW n, NEW p, Walk(n, p, links)
  PROVE  WalkThenTail(n, p) = Following(WalkThenTail(n, p))
<1> DEFINE N == Cardinality(Nodes)
           q == WalkThenTail(n, p)
<1>1. n \in Nat /\ N \in Nat /\ n <= N
  BY WalkLength, WalkTypes
<1>2. ASSUME NEW i \in 0..N + 1 PROVE q[i] = Following(q)[i]
  <2>1. CASE i = 0
    BY <1>1, <2>1 DEF WalkThenTail, Following, Walk
  <2>2. CASE i > 0
    <3>1. /\ i - 1 \in 0..N + 1 /\ (i - 1) + 1 = i
          /\ i - 1 <= n + 1 => i - 1 \in 0..n + 1
          /\ i - 1 <= n <=> i <= n + 1
      BY <1>1, <2>2
    <3>2. Following(q)[i] = IF q[i - 1] \in {tail, Nil} THEN q[i - 1] ELSE links.next[q[i - 1]]
      BY <2>2 DEF Following
    <3>3. CASE i <= n + 1
      <4>1. i - 1 \in 0..n + 1 /\ i - 1 \in 0..n /\ n + 1 \in 0..n + 1 /\ i - 1 # n + 1
        BY <1>1, <3>1, <3>3
      <4>2. q[i - 1] = p[i - 1] /\ q[i] = p[i]
        BY <3>1, <3>3, <4>1 DEF WalkThenTail
      <4>3. p[i - 1] # tail
        <5>1. p[i - 1] # p[n + 1]
          BY <4>1, WalkInjective
        <5> QED BY <5>1 DEF Walk
      <4>4. p[i - 1] # Nil
        BY <4>1, WalkTypes, PointersAssumption DEF Pointers
      <4>5. links.next[p[i - 1]] = p[i]
        BY <3>1, <4>1 DEF Walk
      <4> QED BY <3>2, <4>2, <4>3, <4>4, <4>5
    <3>4. CASE i > n + 1
      <4>1. q[i] = tail
        BY <1>1, <3>4 DEF WalkThenTail
      <4>2. q[i - 1] = tail
        <5>1. CASE i - 1 = n + 1
          BY <3>1, <5>1 DEF WalkThenTail, Walk
        <5>2. CASE i - 1 > n + 1
          BY <1>1, <3>1, <5>2 DEF WalkThenTail
        <5> QED BY <1>1, <3>4, <5>1, <5>2
      <4> QED BY <3>2, <4>1, <4>2
    <3> QED BY <1>1, <3>3, <3>4
  <2> QED BY <1>1, <2>1, <2>2
<1>3. DOMAIN q = 0..N + 1 /\ DOMAIN Following(q) = 0..N + 1
  BY DEF WalkThenTail, Following
<1>4. q = [i \in 0..N + 1 |-> q[i]]
  BY DEF WalkThenTail
<1>5. Following(q) = [i \in 0..N + 1 |-> Following(q)[i]]
  BY DEF Following
<1> HIDE DEF q
<1>6. q = Following(q)
  BY <1>2, <1>4, <1>5
<1> QED BY <1>6 DEF q

LEMMA PathIs ==
  ASSUME NEW n, NEW p, Walk(n, p, links)
  PROVE  Path = WalkThenTail(n, p)
<1> DEFINE N == Cardinality(Nodes)
           q == WalkThenTail(n, p)
<1>1. n \in Nat /\ N \in Nat /\ n <= N
  BY WalkLength, WalkTypes
<1>2. Path = CHOOSE s : s = Following(s)
  BY Zenon DEF Path, Following
<1>3. q = Following(q)
  BY WalkFollows
<1>4. Path = Following(Path)
  <2> HIDE DEF q
  <2>1. \E s : s = Following(s)
    BY <1>3
  <2> QED BY <1>2, <2>1
<1> DEFINE Parted == {i \in 0..N + 1 : Path[i] # q[i]}
<1>5. ASSUME Parted # {} PROVE FALSE
  <2>1. Parted \in SUBSET Nat
    OBVIOUS
  <2>2. PICK m \in Parted : \A k \in Parted : m <= k
    <3> HIDE DEF Parted
    <3> QED BY <1>5, <2>1, LeastNatural
  <2>3. m \in 0..N + 1 /\ Path[m] # q[m]
    OBVIOUS
  <2>4. CASE m = 0
    <3>1. \A s : Following(s)[0] = head
      BY <1>1 DEF Following
    <3> HIDE DEF q
    <3> QED BY <1>3, <1>4, <2>3, <2>4, <3>1
  <2>5. CASE m > 0
    <3>1. m - 1 \in 0..N + 1 /\ m - 1 < m
      BY <1>1, <2>3, <2>5
    <3>2. m - 1 \notin Parted
      BY <2>2, <3>1
    <3>3. Path[m - 1] = q[m - 1]
      BY <3>1, <3>2
    <3>4. \A s : Following(s)[m] =
            IF s[m - 1] \in {tail, Nil} THEN s[m - 1] ELSE links.next[s[m - 1]]
      BY <2>3, <2>5 DEF Following
    <3> HIDE DEF q
    <3> QED BY <1>3, <1>4, <2>3, <3>3, <3>4
  <2> QED BY <1>1, <2>3, <2>4, <2>5
<1>6. \A i \in 0..N + 1 : Path[i] = q[i]
  BY <1>5
<1>7. \A s : Following(s) = [i \in 0..N + 1 |-> Following(s)[i]]
  BY DEF Following
<1>8. Path = [i \in 0..N + 1 |-> Path[i]] /\ q = [i \in 0..N + 1 |-> q[i]]
  <2> HIDE DEF q
  <2> QED BY <1>3, <1>4, <1>7
<1> HIDE DEF q
<1>9. Path = q
  BY <1>6, <1>8
<1> QED BY <1>9 DEF q

Listed(n, p) == [i \in 1..n |-> value[p[i]]]

ReadAlong ==
  \A n, p : Walk(n, p, links) =>
    /\ Linked = {p[i] : i \in 1..n}
    /\ Cardinality(Linked) = n
    /\ Path[n + 1] = tail
    /\ Chain = Listed(n, p)

LEMMA ChainIs == ReadAlong
<1> SUFFICES ASSUME NEW n, NEW p, Walk(n, p, links)
             PROVE  /\ Linked = {p[i] : i \in 1..n}
                    /\ Cardinality(Linked) = n
                    /\ Path[n + 1] = tail
                    /\ Chain = Listed(n, p)
  BY DEF ReadAlong
<1> DEFINE N == Cardinality(Nodes)
<1>1. n \in Nat /\ N \in Nat /\ n <= N
  BY WalkLength, WalkTypes
<1>2. /\ DOMAIN Path = 0..N + 1
      /\ \A i \in 0..N + 1 : Path[i] = IF i <= n + 1 THEN p[i] ELSE tail
  BY PathIs DEF WalkThenTail
<1>3. /\ p[0] = head /\ p[n + 1] = tail /\ head \notin Nodes /\ tail \notin Nodes
      /\ \A i \in 1..n : p[i] \in Nodes
  BY PointersAssumption DEF Walk
<1>4. Linked = {p[i] : i \in 1..n}
  <2>1. ASSUME NEW x \in Linked PROVE x \in {p[i] : i \in 1..n}
    <3>1. PICK i \in 0..N + 1 : x = Path[i] /\ x \in Nodes
      BY <1>2, <2>1 DEF Linked
    <3>2. i \in 1..n /\ x = p[i]
      BY <1>1, <1>2, <1>3, <3>1
    <3> QED BY <3>2
  <2>2. ASSUME NEW i \in 1..n PROVE p[i] \in Linked
    <3>1. i \in 0..N + 1 /\ i <= n + 1
      BY <1>1
    <3> QED BY <1>2, <1>3, <3>1 DEF Linked
  <2> QED BY <2>1, <2>2
<1>5. Cardinality(Linked) = n
  BY <1>4, WalkLength
<1>6. Path[n + 1] = tail
  BY <1>1, <1>2, <1>3
<1>7. \A i \in 1..n : Path[i] = p[i]
  BY <1>1, <1>2
<1>8. Chain = Listed(n, p)
  BY <1>5, <1>7 DEF Chain, Listed
<1> QED BY <1>4, <1>5, <1>6, <1>8

LEMMA ChainNext ==
  \A n, p : Walk(n, p, links') => Chain' = [i \in 1..n |-> value'[p[i]]]
<1>1. ReadAlong'
  BY ChainIs, PTL
<1> QED BY <1>1 DEF ReadAlong, Listed

-----------------------------------------------------------------------------
(* The abstract cache's sequences, element by element.                     *)

LEMMA ConsIs ==
  ASSUME NEW S, NEW s \in Seq(S), NEW e \in S
  PROVE  /\ <<e>> \o s \in Seq(S)
         /\ Len(<<e>> \o s) = Len(s) + 1
         /\ \A k \in 1..Len(s) + 1 : (<<e>> \o s)[k] = IF k = 1 THEN e ELSE s[k - 1]
<1> DEFINE t == <<e>> \o s
<1>1. <<e>> \in Seq(S) /\ Len(<<e>>) = 1 /\ <<e>>[1] = e /\ Len(s) \in Nat
  BY LenProperties
<1>2. /\ t \in Seq(S) /\ Len(t) = 1 + Len(s)
      /\ \A k \in 1..(1 + Len(s)) : t[k] = IF k <= 1 THEN <<e>>[k] ELSE s[k - 1]
  BY <1>1, ConcatProperties
<1>3. Len(t) = Len(s) + 1
  BY <1>1, <1>2
<1>4. \A k \in 1..Len(s) + 1 : t[k] = IF k = 1 THEN e ELSE s[k - 1]
  BY <1>1, <1>2
<1> QED BY <1>2, <1>3, <1>4

LEMMA FrontIs ==
  ASSUME NEW S, NEW s \in Seq(S), NEW e \in S, Len(s) > 0
  PROVE  /\ <<e>> \o Abstract!Front(s) \in Seq(S)
         /\ Len(<<e>> \o Abstract!Front(s)) = Len(s)
         /\ \A k \in 1..Len(s) :
              (<<e>> \o Abstract!Front(s))[k] = IF k = 1 THEN e ELSE s[k - 1]
<1> DEFINE f == Abstract!Front(s)
<1>1. Len(s) \in Nat /\ \A k \in 1..Len(s) : s[k] \in S
  BY LenProperties, ElementOfSeq
<1>2. f = SubSeq(s, 1, Len(s) - 1)
  BY DEF Abstract!Front
<1> HIDE DEF f
<1>3. /\ f \in Seq(S) /\ Len(f) = Len(s) - 1
      /\ \A k \in 1..(Len(s) - 1) : f[k] = s[k]
  <2> DEFINE m == Len(s) - 1
  <2>1. m \in Int /\ m >= 0 /\ \A k \in 1..m : s[k] \in S
    BY <1>1
  <2> HIDE DEF m
  <2>2. /\ f \in Seq(S) /\ Len(f) = IF 1 <= m THEN m - 1 + 1 ELSE 0
        /\ \A k \in 1..(m - 1 + 1) : f[k] = s[1 + k - 1]
    <3>1. f = SubSeq(s, 1, m)
      BY <1>2 DEF m
    <3> QED BY <2>1, <3>1, SubSeqProperties
  <2>3. f \in Seq(S) /\ Len(f) = m /\ \A k \in 1..m : f[k] = s[k]
    BY <2>1, <2>2
  <2> QED BY <2>3 DEF m
<1>4. /\ <<e>> \o f \in Seq(S) /\ Len(<<e>> \o f) = Len(f) + 1
      /\ \A k \in 1..Len(f) + 1 : (<<e>> \o f)[k] = IF k = 1 THEN e ELSE f[k - 1]
  BY <1>3, ConsIs
<1>5. \A k \in 1..Len(s) : k # 1 => f[k - 1] = s[k - 1]
  BY <1>1, <1>3
<1>6. Len(f) + 1 = Len(s)
  BY <1>1, <1>3
<1>7. /\ <<e>> \o f \in Seq(S) /\ Len(<<e>> \o f) = Len(s)
      /\ \A k \in 1..Len(s) : (<<e>> \o f)[k] = IF k = 1 THEN e ELSE s[k - 1]
  BY <1>4, <1>5, <1>6
<1> QED BY <1>7 DEF f

LEMMA ToFrontIs ==
  ASSUME NEW S, NEW s \in Seq(S), NEW e \in S, NEW i \in 1..Len(s)
  PROVE  /\ <<e>> \o Abstract!RemoveAt(s, i) \in Seq(S)
         /\ Len(<<e>> \o Abstract!RemoveAt(s, i)) = Len(s)
         /\ \A k \in 1..Len(s) : (<<e>> \o Abstract!RemoveAt(s, i))[k] =
              IF k = 1 THEN e ELSE IF k <= i THEN s[k - 1] ELSE s[k]
<1> DEFINE left  == SubSeq(s, 1, i - 1)
           right == SubSeq(s, i + 1, Len(s))
           f     == Abstract!RemoveAt(s, i)
<1>1. Len(s) \in Nat /\ \A k \in 1..Len(s) : s[k] \in S
  BY LenProperties, ElementOfSeq
<1>2. /\ left \in Seq(S) /\ Len(left) = i - 1
      /\ \A k \in 1..(i - 1) : left[k] = s[k]
  BY <1>1, SubSeqProperties
<1>3. /\ right \in Seq(S) /\ Len(right) = Len(s) - i
      /\ \A k \in 1..(Len(s) - i) : right[k] = s[i + k]
  <2>1. \A k \in i + 1 .. Len(s) : s[k] \in S
    BY <1>1
  <2>2. /\ right \in Seq(S)
        /\ Len(right) = IF i + 1 <= Len(s) THEN Len(s) - (i + 1) + 1 ELSE 0
        /\ \A k \in 1..(Len(s) - (i + 1) + 1) : right[k] = s[i + 1 + k - 1]
    BY <1>1, <2>1, SubSeqProperties
  <2> QED BY <1>1, <2>2
<1>4. f = left \o right
  BY DEF Abstract!RemoveAt
<1> HIDE DEF left, right, f
<1>5. /\ f \in Seq(S) /\ Len(f) = Len(s) - 1
      /\ \A k \in 1..(Len(s) - 1) : f[k] = IF k <= i - 1 THEN left[k] ELSE right[k - (i - 1)]
  <2>1. Len(left) + Len(right) = Len(s) - 1
    BY <1>1, <1>2, <1>3
  <2>2. /\ f \in Seq(S) /\ Len(f) = Len(left) + Len(right)
        /\ \A k \in 1..Len(left) + Len(right) :
             f[k] = IF k <= Len(left) THEN left[k] ELSE right[k - Len(left)]
    BY <1>2, <1>3, <1>4, ConcatProperties
  <2> QED BY <1>2, <2>1, <2>2
<1>6. \A k \in 1..(Len(s) - 1) : f[k] = IF k < i THEN s[k] ELSE s[k + 1]
  <2> SUFFICES ASSUME NEW k \in 1..(Len(s) - 1)
               PROVE  f[k] = IF k < i THEN s[k] ELSE s[k + 1]
    OBVIOUS
  <2>1. CASE k < i
    BY <1>1, <1>2, <1>5, <2>1
  <2>2. CASE k >= i
    <3>1. k - (i - 1) \in 1..(Len(s) - i) /\ i + (k - (i - 1)) = k + 1 /\ ~(k <= i - 1)
      BY <1>1, <2>2
    <3> QED BY <1>3, <1>5, <2>2, <3>1
  <2> QED BY <1>1, <2>1, <2>2
<1>7. /\ <<e>> \o f \in Seq(S) /\ Len(<<e>> \o f) = Len(f) + 1
      /\ \A k \in 1..Len(f) + 1 : (<<e>> \o f)[k] = IF k = 1 THEN e ELSE f[k - 1]
  BY <1>5, ConsIs
<1>8. \A k \in 1..Len(s) : k # 1 => f[k - 1] = IF k <= i THEN s[k - 1] ELSE s[k]
  <2> SUFFICES ASSUME NEW k \in 1..Len(s), k # 1
               PROVE  f[k - 1] = IF k <= i THEN s[k - 1] ELSE s[k]
    OBVIOUS
  <2>1. k - 1 \in 1..(Len(s) - 1) /\ (k - 1) + 1 = k /\ (k - 1 < i <=> k <= i)
    BY <1>1
  <2> QED BY <1>6, <2>1
<1>9. Len(f) + 1 = Len(s)
  BY <1>1, <1>5
<1>10. /\ <<e>> \o f \in Seq(S) /\ Len(<<e>> \o f) = Len(s)
       /\ \A k \in 1..Len(s) : (<<e>> \o f)[k] =
            IF k = 1 THEN e ELSE IF k <= i THEN s[k - 1] ELSE s[k]
  BY <1>7, <1>8, <1>9
<1> QED BY <1>10 DEF f

-----------------------------------------------------------------------------
(***************************************************************************)
(* The inductive invariant: some walk goes through exactly the nodes that  *)
(* are held, the map and the nodes point at each other, and the gauge is   *)
(* the walk's length.                                                      *)

Content(n, p) ==
  /\ Walk(n, p, links)
  /\ value \in [Nodes -> Entries \cup {NoOrder}]
  /\ elems \in [Uids -> Nodes \cup {Nil}]
  /\ \A x \in Nodes : value[x] # NoOrder <=> \E i \in 1..n : p[i] = x
  /\ \A x \in Nodes : value[x] # NoOrder => elems[value[x].uid] = x
  /\ \A uid \in Live : value[elems[uid]] # NoOrder /\ value[elems[uid]].uid = uid

Counts(n) ==
  /\ n <= Capacity /\ gauge = n
  /\ phase \in {"loading", "serving"} /\ loadCount \in 0..Capacity
  /\ phase = "loading" => loadCount = n

Inv == \E n \in Nat : \E p \in [0..n + 1 -> Pointers] : Content(n, p) /\ Counts(n)

LEMMA EntryUid ==
  ASSUME NEW o \in Entries
  PROVE  o.uid \in Uids /\ o # NoOrder
<1>1. \A r \in Orders : r.uid \in Uids /\ RowOf(r).uid = r.uid
  BY OrdersAssumption DEF RowOf
<1> QED BY <1>1, NoOrderAssumption DEF Entries, Rows

(* What a walk's nodes hold.                                               *)
LEMMA HeldOrders ==
  ASSUME NEW n, NEW p, Content(n, p)
  PROVE  /\ n \in Nat
         /\ \A i \in 1..n : /\ p[i] \in Nodes
                            /\ value[p[i]] \in Entries
                            /\ value[p[i]].uid \in Live
                            /\ elems[value[p[i]].uid] = p[i]
         /\ \A uid \in Live : \E i \in 1..n : elems[uid] = p[i] /\ value[p[i]].uid = uid
         /\ Listed(n, p) \in Seq(Entries)
         /\ Len(Listed(n, p)) = n
         /\ \A i \in 1..n : Listed(n, p)[i] = value[p[i]]
<1>1. n \in Nat
  BY WalkTypes DEF Content
<1>2. ASSUME NEW i \in 1..n
      PROVE  /\ p[i] \in Nodes /\ value[p[i]] \in Entries
             /\ value[p[i]].uid \in Live /\ elems[value[p[i]].uid] = p[i]
  <2>1. p[i] \in Nodes /\ p[i] # Nil
    BY PointersAssumption DEF Content, Walk
  <2>2. value[p[i]] # NoOrder
    BY <2>1 DEF Content
  <2>3. value[p[i]] \in Entries
    BY <2>1, <2>2 DEF Content
  <2>4. value[p[i]].uid \in Uids
    BY <2>3, EntryUid
  <2>5. elems[value[p[i]].uid] = p[i]
    BY <2>1, <2>2 DEF Content
  <2> QED BY <2>1, <2>3, <2>4, <2>5 DEF Live
<1>3. ASSUME NEW uid \in Live
      PROVE  \E i \in 1..n : elems[uid] = p[i] /\ value[p[i]].uid = uid
  <2>1. elems[uid] \in Nodes
    BY DEF Content, Live
  <2>2. value[elems[uid]] # NoOrder /\ value[elems[uid]].uid = uid
    BY DEF Content
  <2>3. \E i \in 1..n : p[i] = elems[uid]
    BY <2>1, <2>2 DEF Content
  <2> QED BY <2>2, <2>3
<1>4. /\ Listed(n, p) \in [1..n -> Entries]
      /\ \A i \in 1..n : Listed(n, p)[i] = value[p[i]]
  BY <1>2 DEF Listed
<1>5. Listed(n, p) \in Seq(Entries)
  BY <1>1, <1>4, SeqDef
<1>6. Len(Listed(n, p)) = n
  BY <1>1, <1>4, <1>5, LenProperties
<1> QED BY <1>1, <1>2, <1>3, <1>4, <1>5, <1>6

(* The map has as many entries as the walk has nodes.                      *)
LEMMA LiveCount ==
  ASSUME NEW n, NEW p, Content(n, p)
  PROVE  IsFiniteSet(Live) /\ Cardinality(Live) = n
<1> DEFINE f == [i \in 1..n |-> value[p[i]].uid]
<1>1. n \in Nat /\ IsFiniteSet(1..n) /\ Cardinality(1..n) = n
  <2>1. n \in Nat
    BY HeldOrders
  <2> QED BY <2>1, FS_Interval
<1>2. f \in [1..n -> Live]
  BY HeldOrders
<1>3. ASSUME NEW i \in 1..n, NEW k \in 1..n, f[i] = f[k] PROVE i = k
  <2>1. p[i] = p[k]
    BY <1>3, HeldOrders
  <2> QED BY <2>1 DEF Content, Walk
<1>4. ASSUME NEW uid \in Live PROVE \E i \in 1..n : f[i] = uid
  BY HeldOrders
<1> HIDE DEF f
<1>5. f \in Bijection(1..n, Live)
  BY <1>2, <1>3, <1>4 DEF Bijection, Injection, Surjection, IsInjective
<1>6. ExistsBijection(1..n, Live)
  BY <1>5 DEF ExistsBijection
<1> QED BY <1>1, <1>6, FS_Bijection

-----------------------------------------------------------------------------
(* The steps.                                                              *)

(* A node moves to the head, with its order or a new one of the same uid.  *)
LEMMA MoveKeeps ==
  ASSUME NEW n, NEW p, Content(n, p), NEW j \in 1..n, NEW o \in Entries,
         o.uid = value[p[j]].uid,
         links' = MoveToHead(links, p[j]),
         value' = [value EXCEPT ![p[j]] = o],
         UNCHANGED elems
  PROVE  /\ Content(n, Moved(n, p, j))'
         /\ Chain' = <<o>> \o Abstract!RemoveAt(Listed(n, p), j)
<1> DEFINE q == Moved(n, p, j)
<1>1. /\ n \in Nat /\ p[j] \in Nodes
      /\ value \in [Nodes -> Entries \cup {NoOrder}]
  BY HeldOrders DEF Content
<1>2. /\ Walk(n, q, links')
      /\ \A i \in 1..n : q[i] = IF i = 1 THEN p[j] ELSE IF i <= j THEN p[i - 1] ELSE p[i]
  BY MovedWalk DEF Content
<1> HIDE DEF q
<1>3. \A x \in Nodes : (\E i \in 1..n : q[i] = x) <=> (\E i \in 1..n : p[i] = x)
  <2> SUFFICES ASSUME NEW x \in Nodes
               PROVE  (\E i \in 1..n : q[i] = x) <=> (\E i \in 1..n : p[i] = x)
    OBVIOUS
  <2>1. ASSUME NEW i \in 1..n, q[i] = x PROVE \E k \in 1..n : p[k] = x
    <3>1. i # 1 => i - 1 \in 1..n
      BY <1>1
    <3> QED BY <1>2, <2>1, <3>1
  <2>2. ASSUME NEW i \in 1..n, p[i] = x PROVE \E k \in 1..n : q[k] = x
    <3>1. CASE i = j
      <4>1. 1 \in 1..n /\ q[1] = p[j]
        BY <1>1, <1>2
      <4> QED BY <2>2, <3>1, <4>1
    <3>2. CASE i < j
      <4>1. i + 1 \in 1..n /\ i + 1 # 1 /\ i + 1 <= j /\ (i + 1) - 1 = i
        BY <1>1, <3>2
      <4>2. q[i + 1] = p[(i + 1) - 1]
        BY <1>2, <4>1
      <4> QED BY <2>2, <4>1, <4>2
    <3>3. CASE i > j
      BY <1>1, <1>2, <2>2, <3>3
    <3> QED BY <1>1, <3>1, <3>2, <3>3
  <2> QED BY <2>1, <2>2
<1>4. /\ value' \in [Nodes -> Entries \cup {NoOrder}]
      /\ \A x \in Nodes : value'[x] = IF x = p[j] THEN o ELSE value[x]
  BY <1>1
<1>5. /\ o # NoOrder /\ value[p[j]] # NoOrder
      /\ \A x \in Nodes : value'[x] # NoOrder <=> value[x] # NoOrder
      /\ \A x \in Nodes : value'[x].uid = value[x].uid
  <2>1. o # NoOrder /\ value[p[j]] # NoOrder
    BY EntryUid, HeldOrders
  <2> QED BY <1>4, <2>1
<1>6. Live' = Live
  BY DEF Live
<1>7. Content(n, q)'
  <2>1. \A x \in Nodes : value'[x] # NoOrder <=> \E i \in 1..n : q[i] = x
    BY <1>3, <1>5 DEF Content
  <2>2. \A x \in Nodes : value'[x] # NoOrder => elems'[value'[x].uid] = x
    BY <1>5 DEF Content
  <2>3. \A uid \in Live' : value'[elems'[uid]] # NoOrder /\ value'[elems'[uid]].uid = uid
    <3>1. \A uid \in Live : elems[uid] \in Nodes
      BY DEF Live, Content
    <3> QED BY <1>5, <1>6, <3>1 DEF Content
  <2> QED BY <1>2, <1>4, <2>1, <2>2, <2>3 DEF Content
<1>8. Chain' = <<o>> \o Abstract!RemoveAt(Listed(n, p), j)
  <2>1. PICK s \in Seq(Entries) :
          s = Listed(n, p) /\ Len(s) = n /\ \A i \in 1..n : s[i] = value[p[i]]
    BY HeldOrders
  <2> DEFINE t == <<o>> \o Abstract!RemoveAt(s, j)
  <2>2. /\ t \in Seq(Entries) /\ Len(t) = n
        /\ \A k \in 1..n : t[k] = IF k = 1 THEN o ELSE IF k <= j THEN s[k - 1] ELSE s[k]
    <3>1. j \in 1..Len(s)
      BY <2>1
    <3>2. /\ t \in Seq(Entries) /\ Len(t) = Len(s)
          /\ \A k \in 1..Len(s) : t[k] = IF k = 1 THEN o ELSE IF k <= j THEN s[k - 1] ELSE s[k]
      BY <3>1, ToFrontIs
    <3> HIDE DEF t
    <3> QED BY <2>1, <3>2
  <2>3. Chain' = [i \in 1..n |-> value'[q[i]]]
    BY <1>2, ChainNext
  <2>4. ASSUME NEW k \in 1..n
        PROVE  value'[q[k]] = IF k = 1 THEN o ELSE IF k <= j THEN s[k - 1] ELSE s[k]
    <3>1. CASE k = 1
      BY <1>1, <1>2, <1>4, <3>1
    <3>2. CASE k # 1 /\ k <= j
      <4>1. k - 1 \in 1..n /\ k - 1 # j
        BY <1>1, <3>2
      <4>2. q[k] = p[k - 1] /\ p[k - 1] \in Nodes /\ p[k - 1] # p[j]
        BY <1>2, <3>2, <4>1 DEF Content, Walk
      <4> QED BY <1>4, <2>1, <3>2, <4>1, <4>2
    <3>3. CASE k # 1 /\ k > j
      <4>1. q[k] = p[k] /\ p[k] \in Nodes /\ p[k] # p[j]
        <5>1. k # j /\ ~(k <= j)
          BY <1>1, <3>3
        <5> QED BY <1>2, <3>3, <5>1 DEF Content, Walk
      <4>2. ~(k <= j)
        BY <1>1, <3>3
      <4> QED BY <1>4, <2>1, <3>3, <4>1, <4>2
    <3> QED BY <1>1, <3>1, <3>2, <3>3
  <2> HIDE DEF t
  <2>5. t \in [1..n -> Entries]
    BY <2>2, LenProperties
  <2>6. Chain' = t
    BY <2>2, <2>3, <2>4, <2>5
  <2> QED BY <2>1, <2>6 DEF t
<1> QED BY <1>7, <1>8 DEF q

(* A new order takes a free node, while there is room.                     *)
LEMMA NewKeeps ==
  ASSUME NEW n, NEW p, Content(n, p), NEW o \in Entries, NEW x \in Nodes, Allocate(x, o),
         value' = [value EXCEPT ![x] = o],
         elems' = [elems EXCEPT ![o.uid] = x],
         links' = AddNode(links, x)
  PROVE  /\ Content(n + 1, Put(n, p, x))'
         /\ Chain' = <<o>> \o Listed(n, p)
<1> DEFINE q == Put(n, p, x)
           m == n + 1
<1>1. /\ n \in Nat /\ m \in Nat /\ o.uid \in Uids /\ o # NoOrder /\ x # Nil
      /\ value \in [Nodes -> Entries \cup {NoOrder}]
      /\ elems \in [Uids -> Nodes \cup {Nil}]
      /\ value[x] = NoOrder /\ elems[o.uid] = Nil
  BY HeldOrders, EntryUid, PointersAssumption DEF Content, Allocate
<1>2. \A i \in 1..n : p[i] # x
  BY <1>1 DEF Content
<1>3. Walk(m, q, links')
  BY <1>2, Added DEF Content
<1>4. q[1] = x /\ \A i \in 1..m : i # 1 => i - 1 \in 1..n /\ q[i] = p[i - 1]
  BY <1>1 DEF Put
<1> HIDE DEF q
<1>5. /\ value' \in [Nodes -> Entries \cup {NoOrder}]
      /\ \A y \in Nodes : value'[y] = IF y = x THEN o ELSE value[y]
      /\ elems' \in [Uids -> Nodes \cup {Nil}]
      /\ \A u \in Uids : elems'[u] = IF u = o.uid THEN x ELSE elems[u]
  BY <1>1
<1>6. \A y \in Nodes : value'[y] # NoOrder <=> \E i \in 1..m : q[i] = y
  <2> SUFFICES ASSUME NEW y \in Nodes
               PROVE  value'[y] # NoOrder <=> \E i \in 1..m : q[i] = y
    OBVIOUS
  <2>1. CASE y = x
    <3>1. 1 \in 1..m
      BY <1>1
    <3> QED BY <1>1, <1>4, <1>5, <2>1, <3>1
  <2>2. CASE y # x
    <3>1. ASSUME NEW i \in 1..m, q[i] = y PROVE \E k \in 1..n : p[k] = y
      BY <1>4, <2>2, <3>1
    <3>2. ASSUME NEW k \in 1..n, p[k] = y PROVE \E i \in 1..m : q[i] = y
      <4>1. k + 1 \in 1..m /\ k + 1 # 1 /\ (k + 1) - 1 = k
        BY <1>1
      <4>2. q[k + 1] = p[(k + 1) - 1]
        BY <1>4, <4>1
      <4> QED BY <3>2, <4>1, <4>2
    <3> QED BY <1>5, <2>2, <3>1, <3>2 DEF Content
  <2> QED BY <2>1, <2>2
<1>7. \A y \in Nodes : value'[y] # NoOrder => elems'[value'[y].uid] = y
  <2> SUFFICES ASSUME NEW y \in Nodes, value'[y] # NoOrder
               PROVE  elems'[value'[y].uid] = y
    OBVIOUS
  <2>1. CASE y = x
    BY <1>1, <1>5, <2>1
  <2>2. CASE y # x
    <3>1. value'[y] = value[y] /\ elems[value[y].uid] = y
      BY <1>5, <2>2 DEF Content
    <3>2. value[y] \in Entries
      BY <1>1, <3>1
    <3>3. value[y].uid \in Uids /\ y # Nil
      BY <3>2, EntryUid, PointersAssumption
    <3> QED BY <1>1, <1>5, <3>1, <3>3
  <2> QED BY <2>1, <2>2
<1>8. \A uid \in Live' : value'[elems'[uid]] # NoOrder /\ value'[elems'[uid]].uid = uid
  <2> SUFFICES ASSUME NEW uid \in Live'
               PROVE  value'[elems'[uid]] # NoOrder /\ value'[elems'[uid]].uid = uid
    OBVIOUS
  <2>1. uid \in Uids /\ elems'[uid] # Nil
    BY DEF Live
  <2>2. CASE uid = o.uid
    BY <1>1, <1>5, <2>2
  <2>3. CASE uid # o.uid
    <3>1. elems'[uid] = elems[uid] /\ uid \in Live /\ elems[uid] \in Nodes
      BY <1>1, <1>5, <2>1, <2>3 DEF Live
    <3>2. value[elems[uid]] # NoOrder /\ value[elems[uid]].uid = uid
      BY <3>1 DEF Content
    <3>3. value'[elems[uid]] = value[elems[uid]]
      BY <1>1, <1>5, <3>1, <3>2
    <3> QED BY <3>1, <3>2, <3>3
  <2> QED BY <2>2, <2>3
<1>9. Content(m, q)'
  BY <1>3, <1>5, <1>6, <1>7, <1>8 DEF Content
<1>10. Chain' = <<o>> \o Listed(n, p)
  <2>1. PICK s \in Seq(Entries) :
          s = Listed(n, p) /\ Len(s) = n /\ \A i \in 1..n : s[i] = value[p[i]]
    BY HeldOrders
  <2> DEFINE t == <<o>> \o s
  <2>2. /\ t \in Seq(Entries) /\ Len(t) = Len(s) + 1
        /\ \A k \in 1..Len(s) + 1 : t[k] = IF k = 1 THEN o ELSE s[k - 1]
    BY ConsIs
  <2>3. Chain' = [i \in 1..m |-> value'[q[i]]]
    BY <1>3, ChainNext
  <2> HIDE DEF t
  <2>4. ASSUME NEW k \in 1..m
        PROVE  value'[q[k]] = IF k = 1 THEN o ELSE s[k - 1]
    <3>1. CASE k = 1
      BY <1>4, <1>5, <3>1
    <3>2. CASE k # 1
      <4>1. k - 1 \in 1..n /\ q[k] = p[k - 1]
        BY <1>4, <3>2
      <4>2. p[k - 1] \in Nodes /\ p[k - 1] # x
        BY <1>2, <4>1 DEF Content, Walk
      <4> QED BY <1>5, <2>1, <3>2, <4>1, <4>2
    <3> QED BY <3>1, <3>2
  <2>5. t \in [1..m -> Entries] /\ \A k \in 1..m : t[k] = IF k = 1 THEN o ELSE s[k - 1]
    <3>1. Len(t) = m
      BY <2>1, <2>2
    <3> QED BY <2>1, <2>2, <3>1, LenProperties
  <2>6. Chain' = t
    BY <2>3, <2>4, <2>5
  <2> QED BY <2>1, <2>6 DEF t
<1> QED BY <1>9, <1>10 DEF q

(* A new order takes a free node, and the last one of the list leaves.     *)
LEMMA EvictKeeps ==
  ASSUME NEW n, NEW p, Content(n, p), n > 0,
         NEW o \in Entries, NEW x \in Nodes, Allocate(x, o),
         value' = [value EXCEPT ![x] = o, ![p[n]] = NoOrder],
         elems' = [elems EXCEPT ![o.uid] = x, ![value[p[n]].uid] = Nil],
         links' = PopTail(AddNode(links, x))
  PROVE  /\ Content(n, Cut(n + 1, Put(n, p, x), n + 1))'
         /\ Chain' = <<o>> \o Abstract!Front(Listed(n, p))
<1> DEFINE w    == Put(n, p, x)
           m    == n + 1
           q    == Cut(m, w, m)
           last == p[n]
           gone == value[p[n]].uid
<1>1. /\ n \in Nat /\ m \in Nat /\ m - 1 = n /\ m > 0 /\ n \in 1..n
      /\ o.uid \in Uids /\ o # NoOrder /\ x # Nil
      /\ value \in [Nodes -> Entries \cup {NoOrder}]
      /\ elems \in [Uids -> Nodes \cup {Nil}]
      /\ value[x] = NoOrder /\ elems[o.uid] = Nil
  BY HeldOrders, EntryUid, PointersAssumption DEF Content, Allocate
<1>2. /\ last \in Nodes /\ last # x /\ last # Nil
      /\ gone \in Uids /\ gone # o.uid /\ elems[gone] = last
      /\ value[last] # NoOrder /\ value[last].uid = gone
  <2>1. last \in Nodes /\ value[last] \in Entries /\ gone \in Uids /\ elems[gone] = last
    BY <1>1, HeldOrders DEF Live
  <2>2. value[last] # NoOrder /\ last # Nil
    BY <2>1, NoOrderAssumption, PointersAssumption
  <2> QED BY <1>1, <2>1, <2>2
<1>3. \A i \in 1..n : p[i] # x
  BY <1>1 DEF Content
<1>4. Walk(n, q, links')
  <2>1. Walk(m, w, AddNode(links, x))
    BY <1>3, Added DEF Content
  <2> HIDE DEF w, m
  <2>2. Walk(m - 1, q, links')
    BY <1>1, <2>1, Popped
  <2> QED BY <1>1, <2>2
<1>5. q[1] = x /\ \A i \in 1..n : i # 1 => i - 1 \in 1..(n - 1) /\ q[i] = p[i - 1]
  <2>1. \A i \in 1..n : q[i] = w[i]
    BY <1>1 DEF Cut
  <2>2. w[1] = x /\ \A i \in 1..n : i # 1 => w[i] = p[i - 1]
    BY <1>1 DEF Put
  <2>3. 1 \in 1..n /\ \A i \in 1..n : i # 1 => i - 1 \in 1..(n - 1)
    BY <1>1
  <2> QED BY <2>1, <2>2, <2>3
<1> HIDE DEF q, last, gone
<1>6. /\ value' \in [Nodes -> Entries \cup {NoOrder}]
      /\ \A y \in Nodes : value'[y] = IF y = last THEN NoOrder ELSE IF y = x THEN o ELSE value[y]
  <2>1. value' = [value EXCEPT ![x] = o, ![last] = NoOrder]
    BY DEF last
  <2> QED BY <1>1, <1>2, <2>1
<1>7. /\ elems' \in [Uids -> Nodes \cup {Nil}]
      /\ \A u \in Uids : elems'[u] = IF u = gone THEN Nil ELSE IF u = o.uid THEN x ELSE elems[u]
  <2>1. elems' = [elems EXCEPT ![o.uid] = x, ![gone] = Nil]
    BY DEF gone
  <2> QED BY <1>1, <1>2, <2>1
<1>8. \A k \in 1..n : p[k] \in Nodes /\ (p[k] = last <=> k = n)
  BY <1>1 DEF last, Content, Walk
<1>9. \A y \in Nodes : value'[y] # NoOrder <=> \E i \in 1..n : q[i] = y
  <2> SUFFICES ASSUME NEW y \in Nodes
               PROVE  value'[y] # NoOrder <=> \E i \in 1..n : q[i] = y
    OBVIOUS
  <2>1. CASE y = x
    <3>1. 1 \in 1..n
      BY <1>1
    <3> QED BY <1>1, <1>2, <1>5, <1>6, <2>1, <3>1
  <2>2. CASE y # x
    <3>1. ASSUME NEW i \in 1..n, q[i] = y PROVE y # last /\ \E k \in 1..n : p[k] = y
      <4>1. i # 1
        BY <1>5, <2>2, <3>1
      <4>2. i - 1 \in 1..n /\ i - 1 # n /\ p[i - 1] = y
        BY <1>1, <1>5, <3>1, <4>1
      <4> QED BY <1>8, <4>2
    <3>2. ASSUME NEW k \in 1..n, p[k] = y, y # last PROVE \E i \in 1..n : q[i] = y
      <4>1. k # n
        BY <1>8, <3>2
      <4>2. k + 1 \in 1..n /\ k + 1 # 1 /\ (k + 1) - 1 = k
        BY <1>1, <4>1
      <4>3. q[k + 1] = p[(k + 1) - 1]
        BY <1>5, <4>2
      <4> QED BY <3>2, <4>2, <4>3
    <3>3. value[y] # NoOrder <=> \E k \in 1..n : p[k] = y
      BY DEF Content
    <3> QED BY <1>6, <2>2, <3>1, <3>2, <3>3
  <2> QED BY <2>1, <2>2
<1>10. \A y \in Nodes : value'[y] # NoOrder => elems'[value'[y].uid] = y
  <2> SUFFICES ASSUME NEW y \in Nodes, value'[y] # NoOrder
               PROVE  elems'[value'[y].uid] = y
    OBVIOUS
  <2>1. y # last
    BY <1>6
  <2>2. CASE y = x
    BY <1>1, <1>2, <1>6, <1>7, <2>1, <2>2
  <2>3. CASE y # x
    <3>1. value'[y] = value[y]
      BY <1>6, <2>1, <2>3
    <3>2. value[y] \in Entries /\ elems[value[y].uid] = y /\ y # Nil
      BY <1>1, <3>1, PointersAssumption DEF Content
    <3>3. value[y].uid \in Uids /\ value[y].uid # gone /\ value[y].uid # o.uid
      BY <1>1, <1>2, <2>1, <3>2, EntryUid
    <3> QED BY <1>7, <3>1, <3>2, <3>3
  <2> QED BY <2>2, <2>3
<1>11. \A uid \in Live' : value'[elems'[uid]] # NoOrder /\ value'[elems'[uid]].uid = uid
  <2> SUFFICES ASSUME NEW uid \in Live'
               PROVE  value'[elems'[uid]] # NoOrder /\ value'[elems'[uid]].uid = uid
    OBVIOUS
  <2>1. uid \in Uids /\ elems'[uid] # Nil
    BY DEF Live
  <2>2. uid # gone
    BY <1>7, <2>1
  <2>3. CASE uid = o.uid
    BY <1>1, <1>2, <1>6, <1>7, <2>2, <2>3
  <2>4. CASE uid # o.uid
    <3>1. elems'[uid] = elems[uid] /\ uid \in Live /\ elems[uid] \in Nodes
      BY <1>1, <1>7, <2>1, <2>2, <2>4 DEF Live
    <3>2. value[elems[uid]] # NoOrder /\ value[elems[uid]].uid = uid
      BY <3>1 DEF Content
    <3>3. elems[uid] # last /\ elems[uid] # x
      BY <1>1, <1>2, <2>2, <3>2
    <3>4. value'[elems[uid]] = value[elems[uid]]
      BY <1>6, <3>1, <3>3
    <3> QED BY <3>1, <3>2, <3>4
  <2> QED BY <2>3, <2>4
<1>12. Content(n, q)'
  BY <1>4, <1>6, <1>7, <1>9, <1>10, <1>11 DEF Content
<1>13. Chain' = <<o>> \o Abstract!Front(Listed(n, p))
  <2>1. PICK s \in Seq(Entries) :
          s = Listed(n, p) /\ Len(s) = n /\ \A i \in 1..n : s[i] = value[p[i]]
    BY HeldOrders
  <2> DEFINE t == <<o>> \o Abstract!Front(s)
  <2>2. /\ t \in Seq(Entries) /\ Len(t) = Len(s)
        /\ \A k \in 1..Len(s) : t[k] = IF k = 1 THEN o ELSE s[k - 1]
    <3>1. Len(s) > 0
      BY <2>1
    <3> QED BY <3>1, FrontIs
  <2>3. Chain' = [i \in 1..n |-> value'[q[i]]]
    <3>1. \A y, z : Walk(y, z, links') => Chain' = [i \in 1..y |-> value'[z[i]]]
      BY ChainNext
    <3> QED BY ONLY <1>4, <3>1
  <2> HIDE DEF t
  <2>4. ASSUME NEW k \in 1..n
        PROVE  value'[q[k]] = IF k = 1 THEN o ELSE s[k - 1]
    <3>1. CASE k = 1
      BY <1>2, <1>5, <1>6, <3>1
    <3>2. CASE k # 1
      <4>1. k - 1 \in 1..n /\ k - 1 # n /\ q[k] = p[k - 1]
        BY <1>1, <1>5, <3>2
      <4>2. p[k - 1] \in Nodes /\ p[k - 1] # last /\ p[k - 1] # x
        BY <1>3, <1>8, <4>1
      <4> QED BY <1>6, <2>1, <3>2, <4>1, <4>2
    <3> QED BY <3>1, <3>2
  <2>5. t \in [1..n -> Entries] /\ \A k \in 1..n : t[k] = IF k = 1 THEN o ELSE s[k - 1]
    <3>1. Len(t) = n
      BY <2>1, <2>2
    <3> QED BY <2>1, <2>2, <3>1, LenProperties
  <2>6. Chain' = t
    <3>1. \A k \in 1..n : value'[q[k]] = t[k]
      BY <2>4, <2>5
    <3>2. Chain' = [k \in 1..n |-> t[k]]
      BY <2>3, <3>1
    <3> QED BY <2>5, <3>2
  <2> QED BY <2>1, <2>6 DEF t
<1> QED BY <1>12, <1>13 DEF q

(* The list the abstract cache has, for a walk of n nodes.                 *)
LEMMA ChainHolds ==
  ASSUME NEW n, NEW p, Content(n, p)
  PROVE  /\ Chain = Listed(n, p) /\ Chain \in Seq(Entries)
         /\ Len(Chain) = n /\ DOMAIN Chain = 1..n
         /\ \A i \in 1..n : Chain[i] = value[p[i]]
         /\ \A uid \in Uids : Abstract!Cached(uid) <=> elems[uid] # Nil
<1>1. Chain = Listed(n, p)
  BY ChainIs DEF ReadAlong, Content
<1>2. /\ Chain \in Seq(Entries) /\ Len(Chain) = n
      /\ \A i \in 1..n : Chain[i] = value[p[i]]
  BY <1>1, HeldOrders
<1>3. DOMAIN Chain = 1..n
  BY <1>1 DEF Listed
<1>4. ASSUME NEW uid \in Uids PROVE Abstract!Cached(uid) <=> elems[uid] # Nil
  <2>1. ASSUME elems[uid] # Nil PROVE \E i \in 1..n : value[p[i]].uid = uid
    BY <2>1, HeldOrders DEF Live
  <2>2. ASSUME NEW i \in 1..n, value[p[i]].uid = uid PROVE elems[uid] # Nil
    BY <2>2, HeldOrders DEF Live
  <2>3. Abstract!Cached(uid) <=> \E i \in 1..n : value[p[i]].uid = uid
    BY <1>2, <1>3 DEF Abstract!Cached
  <2> QED BY <2>1, <2>2, <2>3
<1> QED BY <1>1, <1>2, <1>3, <1>4

(* Set is the abstract cache's Set, and leaves a walk of no more than the  *)
(* capacity; the gauge follows it.                                         *)
LEMMA SetStep ==
  ASSUME NEW n, NEW p, Content(n, p), n <= Capacity, gauge = n,
         NEW o \in Entries, Set(o)
  PROVE  /\ Abstract!Set(o)
         /\ \E m, q : /\ m \in Nat /\ Content(m, q)'
                      /\ m <= Capacity /\ gauge' = m
                      /\ elems[o.uid] = Nil /\ n < Capacity => m = n + 1
<1>1. n \in Nat /\ Capacity \in Nat \ {0} /\ o.uid \in Uids
  BY HeldOrders, EntryUid, CapacityAssumption
<1>2. /\ Chain = Listed(n, p) /\ Len(Chain) = n /\ DOMAIN Chain = 1..n
      /\ \A i \in 1..n : Chain[i] = value[p[i]]
      /\ Abstract!Cached(o.uid) <=> elems[o.uid] # Nil
  BY <1>1, ChainHolds
<1>3. AtCapacity <=> n = Capacity
  BY <1>1, LiveCount DEF AtCapacity
<1>4. CASE SetExisting(o)
  <2>1. elems[o.uid] # Nil /\ o.uid \in Live
    BY <1>1, <1>4 DEF SetExisting, Live
  <2>2. PICK j \in 1..n : elems[o.uid] = p[j] /\ value[p[j]].uid = o.uid
    BY <2>1, HeldOrders
  <2>3. /\ links' = MoveToHead(links, p[j])
        /\ value' = [value EXCEPT ![p[j]] = o]
        /\ UNCHANGED elems /\ gauge' = gauge
    BY <1>4, <2>2 DEF SetExisting
  <2>4. /\ Content(n, Moved(n, p, j))'
        /\ Chain' = <<o>> \o Abstract!RemoveAt(Listed(n, p), j)
    BY <2>2, <2>3, MoveKeeps
  <2>5. Chain' = <<o>> \o Abstract!RemoveAt(Chain, j) /\ Chain[j].uid = o.uid
    BY <1>2, <2>2, <2>4
  <2>6. Abstract!Replace(o)
    BY <1>2, <2>5 DEF Abstract!Replace
  <2>7. Abstract!Set(o)
    BY <2>6 DEF Abstract!Set
  <2> QED BY <1>1, <2>1, <2>3, <2>4, <2>7
<1>5. CASE SetNew(o)
  <2>1. n < Capacity
    BY <1>1, <1>3, <1>5 DEF SetNew
  <2>2. PICK x \in Nodes :
          /\ Allocate(x, o)
          /\ value' = [value EXCEPT ![x] = o]
          /\ elems' = [elems EXCEPT ![o.uid] = x]
          /\ links' = AddNode(links, x)
          /\ gauge' = gauge + 1
    BY <1>5 DEF SetNew
  <2>3. Content(n + 1, Put(n, p, x))' /\ Chain' = <<o>> \o Listed(n, p)
    BY <2>2, NewKeeps
  <2>4. ~Abstract!Cached(o.uid)
    BY <1>2, <2>2 DEF Allocate
  <2>5. Abstract!Set(o)
    BY <1>2, <2>1, <2>3, <2>4 DEF Abstract!Set, Abstract!Insert
  <2>6. n + 1 \in Nat /\ n + 1 <= Capacity /\ gauge' = n + 1
    BY <1>1, <2>1, <2>2
  <2> QED BY <2>3, <2>5, <2>6
<1>6. CASE SetEvict(o)
  <2>1. n = Capacity /\ n > 0 /\ n \in 0..n
    BY <1>1, <1>3, <1>6 DEF SetEvict
  <2>2. links.prev[tail] = p[n]
    BY <2>1 DEF Content, Walk
  <2>3. PICK x \in Nodes :
          /\ Allocate(x, o)
          /\ value' = [value EXCEPT ![x] = o, ![p[n]] = NoOrder]
          /\ elems' = [elems EXCEPT ![o.uid] = x, ![value[p[n]].uid] = Nil]
          /\ links' = PopTail(AddNode(links, x))
          /\ gauge' = gauge
    BY <1>6, <2>2 DEF SetEvict
  <2>4. /\ Content(n, Cut(n + 1, Put(n, p, x), n + 1))'
        /\ Chain' = <<o>> \o Abstract!Front(Listed(n, p))
    BY <2>1, <2>3, EvictKeeps
  <2>5. ~Abstract!Cached(o.uid)
    BY <1>2, <2>3 DEF Allocate
  <2>6. Len(Chain) >= Capacity
    BY <1>1, <1>2, <2>1
  <2>7. Abstract!Set(o)
    BY <1>2, <2>4, <2>5, <2>6 DEF Abstract!Set, Abstract!Evict
  <2>8. ~(n < Capacity) /\ gauge' = n
    BY <1>1, <2>1, <2>3
  <2> QED BY <1>1, <2>4, <2>7, <2>8
<1> QED BY <1>4, <1>5, <1>6 DEF Set

(* A step keeps the invariant, and is a step of the abstract cache or none. *)
LEMMA Step ==
  ASSUME Inv, [Next]_vars
  PROVE  Inv' /\ [Abstract!Next]_Chain
<1>1. PICK n, p : n \in Nat /\ Content(n, p) /\ Counts(n)
  BY DEF Inv
<1> DEFINE Kept == \E m, q : m \in Nat /\ Content(m, q)' /\ Counts(m)'
<1>2. ASSUME Kept PROVE Inv'
  <2>1. PICK m, q : m \in Nat /\ Content(m, q)' /\ Counts(m)'
    BY <1>2
  <2>2. q \in [0..m + 1 -> Pointers]
    BY <2>1 DEF Content, Walk
  <2> QED BY <2>1, <2>2 DEF Inv
<1>3. /\ n <= Capacity /\ gauge = n /\ Capacity \in Nat
      /\ phase \in {"loading", "serving"} /\ loadCount \in 0..Capacity
      /\ phase = "loading" => loadCount = n
  BY <1>1, CapacityAssumption DEF Counts
<1>4. ASSUME NEW o \in Rows, PopulateOne(o) PROVE Kept /\ Abstract!Next
  <2>1. /\ phase = "loading" /\ loadCount < Capacity /\ elems[o.uid] = Nil
        /\ Set(o) /\ loadCount' = loadCount + 1 /\ phase' = phase /\ o \in Entries
    BY <1>4 DEF PopulateOne, Entries
  <2>2. PICK m, q :
          m \in Nat /\ Content(m, q)' /\ m <= Capacity /\ gauge' = m /\ m = n + 1
    BY <1>1, <1>3, <2>1, SetStep
  <2>3. Counts(m)'
    BY <1>3, <2>1, <2>2 DEF Counts
  <2>4. Abstract!Set(o)
    BY <1>1, <1>3, <2>1, SetStep
  <2> QED BY <2>1, <2>2, <2>3, <2>4 DEF Abstract!Next
<1>5. ASSUME PopulateDone PROVE Kept /\ Chain' = Chain
  <2>1. /\ phase' = "serving" /\ gauge' = n /\ loadCount' = loadCount
        /\ UNCHANGED <<links, value, elems>>
    BY <1>3, <1>5 DEF PopulateDone
  <2>2. Counts(n)'
    BY <1>3, <2>1 DEF Counts
  <2>3. Content(n, p)'
    BY <1>1, <2>1 DEF Content, Live
  <2>4. Chain = [i \in 1..n |-> value[p[i]]] /\ Chain' = [i \in 1..n |-> value'[p[i]]]
    BY <1>1, <2>3, ChainHolds, ChainNext DEF Content, Listed
  <2> QED BY <1>1, <2>1, <2>2, <2>3, <2>4
<1>6. ASSUME NEW o \in Entries, Serve(o) PROVE Kept /\ Abstract!Next
  <2>1. phase = "serving" /\ Set(o) /\ phase' = phase /\ loadCount' = loadCount
    BY <1>6 DEF Serve
  <2>2. PICK m, q : m \in Nat /\ Content(m, q)' /\ m <= Capacity /\ gauge' = m
    BY <1>1, <1>3, <2>1, SetStep
  <2>3. Counts(m)'
    BY <1>3, <2>1, <2>2 DEF Counts
  <2>4. Abstract!Set(o)
    BY <1>1, <1>3, <2>1, SetStep
  <2> QED BY <2>2, <2>3, <2>4 DEF Abstract!Next
<1>7. ASSUME NEW uid \in Uids, Get(uid) PROVE Kept /\ Abstract!Next
  <2>1. /\ uid \in Live /\ links' = MoveToHead(links, elems[uid])
        /\ UNCHANGED <<value, elems, gauge, phase, loadCount>>
    BY <1>7 DEF Get, Live
  <2>2. PICK j \in 1..n : elems[uid] = p[j] /\ value[p[j]].uid = uid
    BY <1>1, <2>1, HeldOrders
  <2>3. PICK o \in Entries : o = value[p[j]]
    BY <1>1, HeldOrders
  <2>4. value' = [value EXCEPT ![p[j]] = o]
    <3>1. value \in [Nodes -> Entries \cup {NoOrder}] /\ p[j] \in Nodes
      BY <1>1, HeldOrders DEF Content
    <3> QED BY <2>1, <2>3, <3>1
  <2>5. /\ Content(n, Moved(n, p, j))'
        /\ Chain' = <<o>> \o Abstract!RemoveAt(Listed(n, p), j)
    BY <1>1, <2>1, <2>2, <2>3, <2>4, MoveKeeps
  <2>6. Chain = Listed(n, p) /\ DOMAIN Chain = 1..n /\ Chain[j] = o
    BY <1>1, <2>3, ChainHolds
  <2>7. Abstract!Hit(j) /\ j \in DOMAIN Chain
    BY <2>5, <2>6 DEF Abstract!Hit
  <2>8. Counts(n)'
    BY <1>3, <2>1 DEF Counts
  <2> QED BY <1>1, <2>5, <2>7, <2>8 DEF Abstract!Next
<1>8. ASSUME UNCHANGED vars PROVE Kept /\ Chain' = Chain
  <2>1. UNCHANGED <<links, value, elems, gauge, phase, loadCount>>
    BY <1>8 DEF vars
  <2>2. Counts(n)'
    BY <1>3, <2>1 DEF Counts
  <2>3. Content(n, p)'
    BY <1>1, <2>1 DEF Content, Live
  <2>4. Chain = [i \in 1..n |-> value[p[i]]] /\ Chain' = [i \in 1..n |-> value'[p[i]]]
    BY <1>1, <2>3, ChainHolds, ChainNext DEF Content, Listed
  <2> QED BY <1>1, <2>1, <2>2, <2>3, <2>4
<1> HIDE DEF Kept
<1> QED BY <1>2, <1>4, <1>5, <1>6, <1>7, <1>8 DEF Next

LEMMA Start ==
  ASSUME Init
  PROVE  Inv /\ Abstract!Init
<1> DEFINE p == [i \in 0..1 |-> IF i = 0 THEN head ELSE tail]
<1>1. p \in [0..0 + 1 -> Pointers] /\ p[0] = head /\ p[0 + 1] = tail
  BY DEF Pointers
<1>2. links \in Links /\ links.next[head] = tail /\ links.prev[tail] = head
  BY PointersAssumption DEF Init, Links, Pointers
<1>3. \A i \in 0..0 : i = 0
  OBVIOUS
<1>4. 1..0 = {}
  OBVIOUS
<1> HIDE DEF p
<1>5. Walk(0, p, links)
  BY <1>1, <1>2, <1>3, <1>4 DEF Walk
<1>6. Live = {}
  BY DEF Init, Live
<1>7. Content(0, p)
  BY <1>4, <1>5, <1>6 DEF Content, Init
<1>8. Counts(0)
  BY CapacityAssumption DEF Counts, Init
<1>9. Inv
  BY <1>1, <1>7, <1>8 DEF Inv
<1>10. Chain = <<>>
  <2>1. Chain \in Seq(Entries) /\ Len(Chain) = 0
    BY <1>7, ChainHolds
  <2> QED BY <2>1, EmptySeq
<1> QED BY <1>9, <1>10 DEF Abstract!Init

-----------------------------------------------------------------------------
(***************************************************************************)
(* The theorems.                                                           *)

(* The pointers, the map and the gauge are always those of one list: what  *)
(* addNode, removeNode, moveToHead and popTail keep between them.          *)
THEOREM Invariance == Spec => []Inv
<1>1. Init => Inv
  BY Start
<1>2. Inv /\ [Next]_vars => Inv'
  BY Step
<1> QED BY <1>1, <1>2, PTL DEF Spec

(* Every field of the cache keeps its type.                                *)
THEOREM TypeCorrect == Spec => []TypeOK
<1>1. Inv => TypeOK
  BY DEF Inv, Content, Counts, Walk, Links, TypeOK
<1> QED BY <1>1, Invariance, PTL

(* The list stays one chain from head to tail, the same backwards, through *)
(* the nodes that are held, and the map points into it.                    *)
THEOREM ListSound == Spec => []ListIsSound
<1>1. Inv => ListIsSound
  <2> SUFFICES ASSUME NEW n \in Nat, NEW p, Content(n, p)
               PROVE  ListIsSound
    BY DEF Inv
  <2>1. /\ Linked = {p[i] : i \in 1..n}
        /\ Cardinality(Linked) = n /\ Path[n + 1] = tail
    BY ChainIs DEF ReadAlong, Content
  <2>2. ASSUME NEW x \in Linked \cup {head} PROVE links.prev[links.next[x]] = x
    <3>1. PICK i \in 0..n : x = p[i]
      <4>1. p[0] = head /\ 0 \in 0..n /\ \A i \in 1..n : i \in 0..n
        BY DEF Content, Walk
      <4> QED BY <2>1, <2>2, <4>1
    <3> QED BY <3>1 DEF Content, Walk
  <2>3. Linked = {x \in Nodes : value[x] # NoOrder}
    <3>1. \A i \in 1..n : p[i] \in Nodes
      BY DEF Content, Walk
    <3> QED BY <2>1, <3>1 DEF Content
  <2>4. \A uid \in Live : elems[uid] \in Linked /\ value[elems[uid]].uid = uid
    BY <2>1, HeldOrders
  <2> QED BY <2>1, <2>2, <2>3, <2>4 DEF ListIsSound
<1> QED BY <1>1, Invariance, PTL

(* The cache never holds more than CACHE_CAPACITY orders.                  *)
THEOREM CapacityKept == Spec => []WithinCapacity
<1>1. Inv => WithinCapacity
  BY LiveCount DEF Inv, Counts, WithinCapacity
<1> QED BY <1>1, Invariance, PTL

(* OrdersInCache is always what Size would return.                         *)
THEOREM GaugeTrue == Spec => []GaugeIsSize
<1>1. Inv => GaugeIsSize
  BY LiveCount DEF Inv, Counts, GaugeIsSize
<1> QED BY <1>1, Invariance, PTL

(* The pointers implement the LRU cache: what the list reads from the head *)
(* is the orders by last use, and the one that leaves is the last of them. *)
THEOREM Refinement == Spec => ImplementsLRU
<1>1. Init => Abstract!Init
  BY Start
<1>2. Inv /\ [Next]_vars => [Abstract!Next]_Chain
  BY Step
<1> QED BY <1>1, <1>2, Invariance, PTL DEF Spec, ImplementsLRU, Abstract!Spec

(* No order is in the list twice: what Populate, the consumer and the      *)
(* handlers set under one uid takes the place of what was there.           *)
THEOREM OnePerUid ==
  Spec => [](\A i, j \in DOMAIN Chain : Chain[i].uid = Chain[j].uid => i = j)
<1>1. ASSUME NEW n, NEW p, Content(n, p)
      PROVE  \A i, j \in DOMAIN Chain : Chain[i].uid = Chain[j].uid => i = j
  <2>1. Chain = Listed(n, p)
    BY <1>1, ChainIs DEF ReadAlong, Content
  <2>2. DOMAIN Chain = 1..n /\ \A i \in 1..n : Chain[i] = value[p[i]]
    BY <2>1 DEF Listed
  <2>3. \A i \in 1..n : elems[value[p[i]].uid] = p[i]
    BY <1>1, HeldOrders
  <2>4. \A i, j \in 1..n : p[i] = p[j] => i = j
    BY <1>1 DEF Content, Walk
  <2> QED BY <2>2, <2>3, <2>4
<1>2. Inv => \A i, j \in DOMAIN Chain : Chain[i].uid = Chain[j].uid => i = j
  BY <1>1, Zenon DEF Inv
<1> QED BY <1>2, Invariance, PTL

(* The bound of the model cuts nothing off: with a node more than the      *)
(* capacity there is always one for Set to allocate.                       *)
THEOREM NodesSuffice ==
  ASSUME Cardinality(Nodes) > Capacity
  PROVE  Spec => [](\E x \in Nodes : value[x] = NoOrder)
<1>1. Inv => \E x \in Nodes : value[x] = NoOrder
  <2> SUFFICES ASSUME NEW n, NEW p, Content(n, p), n <= Capacity,
                      \A x \in Nodes : value[x] # NoOrder
               PROVE  FALSE
    BY DEF Inv, Counts
  <2>1. Walk(n, p, links) /\ \A i \in 1..n : p[i] \in Nodes
    BY HeldOrders DEF Content
  <2>2. Nodes = {p[i] : i \in 1..n}
    BY <2>1 DEF Content
  <2>3. Cardinality({p[i] : i \in 1..n}) = n
    BY <2>1, WalkLength, Zenon
  <2>4. Cardinality(Nodes) = n
    BY <2>2, <2>3, Zenon
  <2>5. n \in Nat
    BY <2>1, WalkTypes
  <2> QED BY <2>4, <2>5, CapacityAssumption
<1> QED BY <1>1, Invariance, PTL
=============================================================================
