------------------------- MODULE OrderServiceProofs -------------------------
(***************************************************************************)
(* Proofs about OrderService, for any orders, clients, cache capacity and  *)
(* bounds.                                                                 *)
(***************************************************************************)
EXTENDS OrderService, FiniteSetTheorems, SequenceTheorems, TLAPS

-----------------------------------------------------------------------------
(* Orders and rows.                                                        *)

(* A row keeps the fields the handlers and the cache look at.              *)
LEMMA RowFields ==
  ASSUME NEW o \in Orders
  PROVE  /\ RowOf(o) \in Rows
         /\ RowOf(o).uid = o.uid
         /\ RowOf(o).customer = o.customer
         /\ o.uid \in Uids
         /\ o.customer \in Customers
BY OrdersAssumption DEF RowOf, Rows

LEMMA EntryFields ==
  ASSUME NEW o \in Entries
  PROVE  o.uid \in Uids /\ o.customer \in Customers /\ o # NoOrder
BY RowFields, NoOrderAssumption DEF Entries, Rows

-----------------------------------------------------------------------------
(* The cache's sequence.                                                   *)

LEMMA RemoveAtShape ==
  ASSUME NEW S, NEW s \in Seq(S), NEW i \in DOMAIN s
  PROVE  /\ Cache!RemoveAt(s, i) \in Seq(S)
         /\ Len(Cache!RemoveAt(s, i)) = Len(s) - 1
         /\ \A j \in DOMAIN Cache!RemoveAt(s, i) :
              \E k \in DOMAIN s : Cache!RemoveAt(s, i)[j] = s[k]
<1> DEFINE left  == SubSeq(s, 1, i - 1)
           right == SubSeq(s, i + 1, Len(s))
<1>1. /\ Len(s) \in Nat /\ i \in 1..Len(s)
      /\ \A k \in 1..Len(s) : s[k] \in S
  BY LenProperties, ElementOfSeq
<1>2. /\ left \in Seq(S) /\ Len(left) = i - 1
      /\ \A k \in 1..(i - 1) : left[k] = s[k]
  BY <1>1, SubSeqProperties
<1>3. /\ right \in Seq(S) /\ Len(right) = Len(s) - i
      /\ \A k \in 1..(Len(s) - i) : right[k] = s[i + k]
  <2>1. \A k \in i + 1 .. Len(s) : s[k] \in S
    BY <1>1
  <2>2. /\ right \in Seq(S)
        /\ Len(right) = IF i + 1 <= Len(s) THEN Len(s) - (i + 1) + 1 ELSE 0
        /\ \A k \in 1..(Len(s) - (i + 1) + 1) : right[k] = s[i + 1 + k - 1]
    BY <1>1, <2>1, SubSeqProperties
  <2> QED BY <1>1, <2>2
<1> HIDE DEF left, right
<1>4. /\ left \o right \in Seq(S)
      /\ Len(left \o right) = Len(s) - 1
      /\ \A j \in 1..(Len(s) - 1) :
           (left \o right)[j] = IF j <= i - 1 THEN left[j] ELSE right[j - (i - 1)]
  <2>1. /\ left \o right \in Seq(S)
        /\ Len(left \o right) = Len(left) + Len(right)
        /\ \A j \in 1..(Len(left) + Len(right)) :
             (left \o right)[j] = IF j <= Len(left) THEN left[j] ELSE right[j - Len(left)]
    BY <1>2, <1>3, ConcatProperties
  <2>2. Len(left) = i - 1 /\ Len(left) + Len(right) = Len(s) - 1
    BY <1>1, <1>2, <1>3
  <2> QED BY <2>1, <2>2
<1>5. DOMAIN (left \o right) = 1..(Len(s) - 1)
  BY <1>4, LenProperties
<1>6. ASSUME NEW j \in 1..(Len(s) - 1)
      PROVE  \E k \in 1..Len(s) : (left \o right)[j] = s[k]
  <2>1. CASE j <= i - 1
    BY <1>1, <1>2, <1>4, <2>1
  <2>2. CASE ~(j <= i - 1)
    <3>1. (left \o right)[j] = right[j - (i - 1)]
      BY <1>1, <1>4, <2>2
    <3>2. j - (i - 1) \in 1..(Len(s) - i)
      BY <1>1, <2>2
    <3>3. right[j - (i - 1)] = s[i + (j - (i - 1))] /\ i + (j - (i - 1)) \in 1..Len(s)
      BY <1>1, <1>3, <3>2
    <3> QED BY <3>1, <3>3
  <2> QED BY <2>1, <2>2
<1>7. Cache!RemoveAt(s, i) = left \o right
  BY DEF Cache!RemoveAt, left, right
<1> QED BY <1>1, <1>4, <1>5, <1>6, <1>7, LenProperties

LEMMA FrontShape ==
  ASSUME NEW S, NEW s \in Seq(S), Len(s) # 0
  PROVE  /\ Cache!Front(s) \in Seq(S)
         /\ Len(Cache!Front(s)) = Len(s) - 1
         /\ \A j \in DOMAIN Cache!Front(s) :
              \E k \in DOMAIN s : Cache!Front(s)[j] = s[k]
<1>1. Len(s) \in Nat \ {0} /\ DOMAIN s = 1..Len(s) /\ \A k \in 1..Len(s) : s[k] \in S
  BY LenProperties, ElementOfSeq
<1>2. /\ Cache!Front(s) \in Seq(S)
      /\ Len(Cache!Front(s)) = Len(s) - 1
      /\ \A j \in 1..(Len(s) - 1) : Cache!Front(s)[j] = s[j]
  BY <1>1, SubSeqProperties DEF Cache!Front
<1>3. DOMAIN Cache!Front(s) = 1..(Len(s) - 1)
  BY <1>2, LenProperties
<1> QED BY <1>1, <1>2, <1>3

LEMMA ConsShape ==
  ASSUME NEW S, NEW s \in Seq(S), NEW e \in S
  PROVE  /\ <<e>> \o s \in Seq(S)
         /\ Len(<<e>> \o s) = Len(s) + 1
         /\ \A j \in DOMAIN (<<e>> \o s) :
              \/ (<<e>> \o s)[j] = e
              \/ \E k \in DOMAIN s : (<<e>> \o s)[j] = s[k]
<1>1. <<e>> \in Seq(S) /\ Len(<<e>>) = 1 /\ <<e>>[1] = e
  OBVIOUS
<1>2. Len(s) \in Nat /\ DOMAIN s = 1..Len(s)
  BY LenProperties
<1>3. /\ <<e>> \o s \in Seq(S)
      /\ Len(<<e>> \o s) = Len(s) + 1
      /\ \A j \in 1..(1 + Len(s)) : (<<e>> \o s)[j] = IF j <= 1 THEN <<e>>[j] ELSE s[j - 1]
  BY <1>1, <1>2, ConcatProperties
<1>4. DOMAIN (<<e>> \o s) = 1..(1 + Len(s))
  BY <1>2, <1>3, LenProperties
<1> QED BY <1>1, <1>2, <1>3, <1>4

(* What Set and Get leave in the cache was there or is the order set; and  *)
(* it is no more than the capacity.                                        *)
LEMMA CacheSetShape ==
  ASSUME lru \in Seq(Entries), Len(lru) <= Capacity,
         NEW o \in Entries, Cache!Set(o)
  PROVE  /\ lru' \in Seq(Entries) /\ Len(lru') <= Capacity
         /\ \A j \in DOMAIN lru' :
              lru'[j] = o \/ \E k \in DOMAIN lru : lru'[j] = lru[k]
<1> USE ServiceAssumption
<1>0. Len(lru) \in Nat
  BY LenProperties
<1>1. CASE Cache!Replace(o)
  <2>1. PICK i \in DOMAIN lru : lru' = <<o>> \o Cache!RemoveAt(lru, i)
    BY <1>1 DEF Cache!Replace
  <2> QED BY <1>0, <2>1, RemoveAtShape, ConsShape
<1>2. CASE Cache!Insert(o)
  BY <1>0, <1>2, ConsShape DEF Cache!Insert
<1>3. CASE Cache!Evict(o)
  <2>1. Len(lru) = Capacity /\ Len(lru) # 0 /\ lru' = <<o>> \o Cache!Front(lru)
    BY <1>0, <1>3 DEF Cache!Evict
  <2>2. Cache!Front(lru) \in Seq(Entries) /\ Len(Cache!Front(lru)) = Len(lru) - 1
    BY <2>1, FrontShape
  <2>3. \A j \in DOMAIN Cache!Front(lru) :
          \E k \in DOMAIN lru : Cache!Front(lru)[j] = lru[k]
    BY <2>1, FrontShape
  <2> QED BY <1>0, <2>1, <2>2, <2>3, ConsShape
<1> QED BY <1>1, <1>2, <1>3 DEF Cache!Set

LEMMA CacheHitShape ==
  ASSUME lru \in Seq(Entries), Len(lru) <= Capacity,
         NEW i \in DOMAIN lru, Cache!Hit(i)
  PROVE  /\ lru' \in Seq(Entries) /\ Len(lru') <= Capacity
         /\ \A j \in DOMAIN lru' : \E k \in DOMAIN lru : lru'[j] = lru[k]
<1>1. Len(lru) \in Nat /\ lru[i] \in Entries
  BY LenProperties, ElementOfSeq
<1>2. /\ Cache!RemoveAt(lru, i) \in Seq(Entries)
      /\ Len(Cache!RemoveAt(lru, i)) = Len(lru) - 1
      /\ \A j \in DOMAIN Cache!RemoveAt(lru, i) :
           \E k \in DOMAIN lru : Cache!RemoveAt(lru, i)[j] = lru[k]
  BY RemoveAtShape
<1>3. lru' = <<lru[i]>> \o Cache!RemoveAt(lru, i)
  BY DEF Cache!Hit
<1> DEFINE rest == Cache!RemoveAt(lru, i)
           first == lru[i]
<1>4. first = lru[i] /\ first \in Entries /\ rest \in Seq(Entries) /\ Len(rest) + 1 <= Capacity
  BY <1>1, <1>2
<1>5. \A j \in DOMAIN rest : \E k \in DOMAIN lru : rest[j] = lru[k]
  BY <1>2
<1>6. lru' = <<first>> \o rest
  BY <1>3
<1> HIDE DEF rest, first
<1>7. /\ lru' \in Seq(Entries) /\ Len(lru') = Len(rest) + 1
      /\ \A j \in DOMAIN lru' : lru'[j] = first \/ \E k \in DOMAIN rest : lru'[j] = rest[k]
  BY <1>4, <1>6, ConsShape
<1>8. \A j \in DOMAIN lru' : \E k \in DOMAIN lru : lru'[j] = lru[k]
  BY <1>4, <1>5, <1>7
<1> QED BY <1>4, <1>7, <1>8

-----------------------------------------------------------------------------
(* Type correctness.                                                       *)

StoreTypeOK ==
  /\ rows \in [Uids -> Rows \cup {NoOrder}]
  /\ call \in [Clients -> Calls]

LEMMA CallTypes ==
  /\ Idle \in Calls
  /\ \A o \in Orders : AddCall(o, "pending") \in Calls
  /\ \A target \in SUBSET Uids, owner \in Customers \cup {Anyone} :
       SelectCall(target, owner, "pending", {}) \in Calls
  /\ \A x \in Calls, status \in {"pending", "ok", "failed"} :
       x # Idle => [x EXCEPT !.status = status] \in Calls
  /\ \A x \in Calls, found \in SUBSET Rows :
       x.op = "select" => [x EXCEPT !.status = "ok", !.found = found] \in Calls
BY DEF Calls, Idle, AddCall, SelectCall

LEMMA PendingIsNotIdle ==
  \A x \in Calls : x.op \in {"add", "select"} => x # Idle
BY DEF Idle

LEMMA AddCallFields ==
  ASSUME NEW x \in Calls, x.op = "add"
  PROVE  x.order \in Orders /\ x.status \in {"pending", "ok", "failed"}
BY DEF Calls, Idle

LEMMA SelectCallFields ==
  ASSUME NEW x \in Calls, x.op = "select"
  PROVE  /\ x.target \in SUBSET Uids
         /\ x.owner \in Customers \cup {Anyone}
         /\ x.status \in {"pending", "ok", "failed"}
         /\ x.found \in SUBSET Rows
BY DEF Calls, Idle

LEMMA FinishType ==
  ASSUME StoreTypeOK, NEW c \in Clients, call[c] # Idle,
         NEW status \in {"ok", "failed"}, Finish(c, status)
  PROVE  call' \in [Clients -> Calls]
BY CallTypes DEF StoreTypeOK, Finish

LEMMA CommitType ==
  ASSUME StoreTypeOK, NEW c \in Clients,
         NEW status \in {"ok", "failed"}, Commit(c, status)
  PROVE  StoreTypeOK'
<1>1. call[c] \in Calls /\ call[c].op = "add"
  BY DEF StoreTypeOK, Commit, Pending
<1>2. call[c].order \in Orders /\ call[c] # Idle
  BY <1>1, AddCallFields, PendingIsNotIdle
<1>3. RowOf(call[c].order) \in Rows
  BY <1>2, RowFields
<1>4. call' \in [Clients -> Calls]
  BY <1>2, FinishType DEF Commit
<1>5. rows' = [rows EXCEPT ![call[c].order.uid] = RowOf(call[c].order)]
  BY DEF Commit
<1> QED BY <1>3, <1>4, <1>5 DEF StoreTypeOK

LEMMA FoundType ==
  ASSUME StoreTypeOK, NEW target, NEW owner
  PROVE  Found(target, owner) \in SUBSET Rows
BY DEF StoreTypeOK, Found, Stored

LEMMA SelectType ==
  ASSUME StoreTypeOK, NEW c \in Clients, Select(c)
  PROVE  StoreTypeOK'
<1>1. call[c] \in Calls /\ call[c].op = "select"
  BY DEF StoreTypeOK, Select, Pending
<1>2. call' = [call EXCEPT ![c] = [call[c] EXCEPT !.status = "ok",
                   !.found = Found(call[c].target, call[c].owner)]]
  BY DEF Select
<1>3. Found(call[c].target, call[c].owner) \in SUBSET Rows
  BY FoundType
<1>4. [call[c] EXCEPT !.status = "ok", !.found = Found(call[c].target, call[c].owner)] \in Calls
  BY <1>1, <1>3, CallTypes
<1> QED BY <1>2, <1>4 DEF StoreTypeOK, Select

LEMMA StoreStepType ==
  ASSUME StoreTypeOK, NEW c \in Clients,
         Insert(c) \/ InsertUnreported(c) \/ Refuse(c) \/ Select(c) \/ Fail(c)
  PROVE  StoreTypeOK'
<1>1. CASE Insert(c) \/ InsertUnreported(c)
  BY <1>1, CommitType DEF Insert, InsertUnreported
<1>2. CASE Refuse(c)
  <2>1. call[c] # Idle
    BY <1>2, PendingIsNotIdle DEF Refuse, Pending, StoreTypeOK
  <2> QED BY <1>2, <2>1, FinishType DEF Refuse, StoreTypeOK
<1>3. CASE Select(c)
  BY <1>3, SelectType
<1>4. CASE Fail(c)
  BY <1>4, FinishType DEF Fail, StoreTypeOK
<1> QED BY <1>1, <1>2, <1>3, <1>4

LEMMA RequestType ==
  /\ \A route \in Routes, user \in Customers, target \in SUBSET Uids,
        known \in SUBSET Uids, status \in Statuses, body \in SUBSET Entries :
       Request(route, user, target, known, status, body) \in Asked
  /\ \A a \in {Free} \cup Asked : a.status = "waiting" => a \in Asked
  /\ \A a \in Asked, status \in Statuses, body \in SUBSET Entries :
       [a EXCEPT !.status = status, !.body = body] \in Asked
<1>1. \A route \in Routes, user \in Customers, target \in SUBSET Uids,
         known \in SUBSET Uids, status \in Statuses, body \in SUBSET Entries :
        Request(route, user, target, known, status, body) \in Asked
  BY DEF Request, Asked
<1>2. \A a \in {Free} \cup Asked : a.status = "waiting" => a \in Asked
  BY DEF Free
<1>3. \A a \in Asked, status \in Statuses, body \in SUBSET Entries :
        [a EXCEPT !.status = status, !.body = body] \in Asked
  BY DEF Asked
<1> QED BY <1>1, <1>2, <1>3

LEMMA PopulatedType ==
  ASSUME StoreTypeOK, NEW s \in Populated
  PROVE  s \in Seq(Entries) /\ Len(s) <= Capacity /\
         \A i \in DOMAIN s : s[i] \in StoredRows
<1>1. PICK n \in 0..Capacity : s \in [1..n -> StoredRows]
  BY DEF Populated
<1>2. StoredRows \subseteq Entries
  BY DEF StoreTypeOK, StoredRows, Stored, Entries
<1>3. n \in Nat /\ n <= Capacity
  BY ServiceAssumption
<1>4. s \in [1..n -> Entries]
  BY <1>1, <1>2
<1>5. s \in Seq(Entries) /\ Len(s) = n
  BY <1>3, <1>4
<1> QED BY <1>1, <1>3, <1>5

LEMMA RespondType ==
  ASSUME TypeOK, NEW r \in Requests, req[r].status = "waiting",
         NEW status \in Statuses, NEW body \in SUBSET Entries,
         Respond(r, status, body)
  PROVE  /\ req' \in [Requests -> {Free} \cup Asked]
         /\ StoreTypeOK'
<1>1. req[r] \in Asked
  BY RequestType DEF TypeOK
<1>2. req' = [req EXCEPT ![r] = [req[r] EXCEPT !.status = status, !.body = body]]
  BY DEF Respond
<1>3. [req[r] EXCEPT !.status = status, !.body = body] \in Asked
  BY <1>1, RequestType
<1>4. StoreTypeOK'
  BY CallTypes DEF Respond, Return, TypeOK, StoreTypeOK
<1> QED BY <1>2, <1>3, <1>4 DEF TypeOK

LEMMA RowsAreEntries == Rows \subseteq Entries /\ Orders \subseteq Entries
BY DEF Entries

LEMMA TypeInit == Init => TypeOK
<1> SUFFICES ASSUME Init PROVE TypeOK
  OBVIOUS
<1>1. topic \in Seq(Orders \cup {Bad}) /\ Len(topic) = 0
  BY DEF Init
<1>2. lru \in Seq(Entries) /\ Len(lru) <= Capacity
  BY ServiceAssumption DEF Init, Cache!Init
<1>3. rows \in [Uids -> Rows \cup {NoOrder}] /\ call \in [Clients -> Calls]
  BY CallTypes DEF Init, StoreInit
<1>4. offset \in 0..Len(topic)
  BY <1>1 DEF Init
<1>5. faults \in 0..MaxFaults /\ exits \in 0..MaxExits
  BY ServiceAssumption DEF Init
<1>6. req \in [Requests -> {Free} \cup Asked]
  BY DEF Init
<1>7. /\ phase \in {"down", "up", "stopping", "draining"}
      /\ consumer \in {"reading", "adding", "stopped"}
      /\ processed \in Nat /\ atBoot \in SUBSET Uids
  BY DEF Init
<1> QED BY <1>1, <1>2, <1>3, <1>4, <1>5, <1>6, <1>7 DEF TypeOK

LEMMA TypeStep == TypeOK /\ BoundKept /\ WaitersMatchCalls /\ [Next]_vars => TypeOK'
<1> SUFFICES ASSUME TypeOK, BoundKept, WaitersMatchCalls, [Next]_vars PROVE TypeOK'
  OBVIOUS
<1> USE DEF processVars, consumerVars, storeVars
<1>0. StoreTypeOK
  BY DEF TypeOK, StoreTypeOK
<1>1. ASSUME NEW m \in Orders \cup {Bad}, Produce(m) PROVE TypeOK'
  <2>1. topic' \in Seq(Orders \cup {Bad}) /\ Len(topic') = Len(topic) + 1
    BY <1>1, AppendProperties DEF Produce, TypeOK
  <2>2. Len(topic) \in Nat /\ offset \in 0..Len(topic')
    BY <2>1, LenProperties DEF TypeOK
  <2> QED BY <1>1, <2>1, <2>2 DEF Produce, TypeOK
<1>2. ASSUME Receive PROVE TypeOK'
  <2>1. Message \in Orders /\ call' \in [Clients -> Calls]
    BY <1>2, CallTypes DEF Receive, InvokeAdd, TypeOK
  <2>2. Len(topic) \in Nat /\ offset + 1 \in 0..Len(topic)
    BY <1>2, LenProperties DEF Receive, Readable, TypeOK
  <2> QED BY <1>2, <2>1, <2>2 DEF Receive, InvokeAdd, TypeOK
<1>3. ASSUME Skip PROVE TypeOK'
  <2>1. Len(topic) \in Nat /\ offset + 1 \in 0..Len(topic)
    BY <1>3, LenProperties DEF Skip, Readable, TypeOK
  <2> QED BY <1>3, <2>1 DEF Skip, TypeOK
<1>4. CASE \E c \in Clients : StoreStep(c) \/ Fault(c)
  <2> PICK c \in Clients : StoreStep(c) \/ Fault(c)
    BY <1>4
  <2>1. StoreTypeOK'
    BY <1>0, StoreStepType DEF StoreStep, Fault
  <2>2. CASE StoreStep(c)
    BY <2>1, <2>2 DEF StoreStep, TypeOK, StoreTypeOK
  <2>3. CASE Fault(c)
    <3>1. faults' \in 0..MaxFaults
      BY <2>3, ServiceAssumption DEF Fault, TypeOK
    <3> QED BY <2>1, <2>3, <3>1 DEF Fault, TypeOK, StoreTypeOK
  <2> QED BY <2>2, <2>3
<1>5. ASSUME AddOk PROVE TypeOK'
  <2>1. call[Consumer].op = "add" /\ call[Consumer] \in Calls
    BY <1>5, ClientsAssumption DEF AddOk, WaitersMatchCalls, TypeOK
  <2>2. call[Consumer].order \in Entries
    BY <2>1, AddCallFields, RowsAreEntries
  <2>3. lru' \in Seq(Entries) /\ Len(lru') <= Capacity
    BY <1>5, <2>2, CacheSetShape DEF AddOk, TypeOK
  <2>4. call' \in [Clients -> Calls]
    BY <1>5, CallTypes DEF AddOk, Return, TypeOK
  <2> QED BY <1>5, <2>3, <2>4 DEF AddOk, Return, TypeOK
<1>6. ASSUME AddFailed PROVE TypeOK'
  BY <1>6, CallTypes DEF AddFailed, Return, TypeOK
<1>7. ASSUME StopConsuming PROVE TypeOK'
  BY <1>7 DEF StopConsuming, TypeOK
<1>8. ASSUME Cancelled PROVE TypeOK'
  <2>1. StoreTypeOK'
    BY <1>0, <1>8, StoreStepType, ClientsAssumption DEF Cancelled
  <2> QED BY <1>8, <2>1 DEF Cancelled, TypeOK, StoreTypeOK
<1>9. ASSUME NEW r \in Requests, Serve(r) PROVE TypeOK'
  <2>1. ASSUME NEW user \in Customers, NEW route \in OrderRoutes, NEW uid \in Uids,
               ServeHit(r, route, user, uid)
        PROVE  TypeOK'
    <3>1. PICK i \in DOMAIN lru :
            /\ Cache!Hit(i)
            /\ \/ req' = [req EXCEPT ![r] = Request(route, user, {uid}, Stored, "200", {lru[i]})]
               \/ req' = [req EXCEPT ![r] = Request(route, user, {uid}, Stored, "404", {})]
      BY <2>1 DEF ServeHit
    <3>2. lru' \in Seq(Entries) /\ Len(lru') <= Capacity /\ lru[i] \in Entries
      BY <3>1, CacheHitShape, ElementOfSeq, LenProperties DEF TypeOK
    <3>3. /\ {uid} \in SUBSET Uids /\ Stored \in SUBSET Uids
          /\ {lru[i]} \in SUBSET Entries /\ {} \in SUBSET Entries
          /\ route \in Routes /\ "200" \in Statuses /\ "404" \in Statuses
      BY <3>2 DEF Stored, Routes, Statuses
    <3>4. /\ Request(route, user, {uid}, Stored, "200", {lru[i]}) \in Asked
          /\ Request(route, user, {uid}, Stored, "404", {}) \in Asked
      BY <3>3, RequestType
    <3>5. req' \in [Requests -> {Free} \cup Asked]
      BY <3>1, <3>4 DEF TypeOK
    <3> QED BY <2>1, <3>2, <3>5 DEF ServeHit, TypeOK
  <2>2. ASSUME NEW user \in Customers, NEW route \in Routes, NEW target \in SUBSET Uids,
               Query(r, route, user, target)
        PROVE  TypeOK'
    <3>1. OwnerOf(route, user) \in Customers \cup {Anyone}
      BY DEF OwnerOf
    <3>2. call' \in [Clients -> Calls]
      BY <2>2, <3>1, CallTypes DEF Query, InvokeSelect, TypeOK
    <3>3. Request(route, user, target, Stored, "waiting", {}) \in Asked
      BY RequestType DEF Statuses, Stored
    <3>4. req' \in [Requests -> {Free} \cup Asked]
      BY <2>2, <3>3 DEF Query, TypeOK
    <3> QED BY <2>2, <3>2, <3>4 DEF Query, InvokeSelect, TypeOK
  <2>3. ASSUME NEW user \in Customers, NEW route \in OrderRoutes, NEW uid \in Uids,
               ServeMiss(r, route, user, uid)
        PROVE  TypeOK'
    BY <2>2, <2>3 DEF ServeMiss, Routes
  <2>4. ASSUME NEW user \in Customers, NEW route \in ListRoutes, ServeList(r, route, user)
        PROVE  TypeOK'
    BY <2>2, <2>4 DEF ServeList, Routes
  <2>5. ASSUME req[r].status = "waiting"
        PROVE  call[r].found \in SUBSET Rows
    <3>1. call[r].op = "select" /\ call[r] \in Calls
      BY <2>5, ClientsAssumption DEF WaitersMatchCalls, TypeOK
    <3> QED BY <3>1, SelectCallFields
  <2>6. CASE RespondFound(r)
    <3>1. PICK o \in call[r].found : Cache!Set(o) /\ Respond(r, "200", {o})
      BY <2>6 DEF RespondFound
    <3>2. req[r].status = "waiting" /\ o \in Entries
      BY <2>5, <2>6, RowsAreEntries DEF RespondFound, Answered
    <3>3. lru' \in Seq(Entries) /\ Len(lru') <= Capacity
      BY <3>1, <3>2, CacheSetShape DEF TypeOK
    <3>4. req' \in [Requests -> {Free} \cup Asked] /\ StoreTypeOK'
      BY <3>1, <3>2, RespondType DEF Statuses
    <3> QED BY <2>6, <3>3, <3>4 DEF RespondFound, StoreTypeOK, TypeOK
  <2>7. CASE RespondAbsent(r) \/ RespondList(r) \/ RespondError(r)
    <3>1. PICK status \in Statuses, body \in SUBSET Entries : Respond(r, status, body)
      BY <2>5, <2>7, RowsAreEntries
         DEF RespondAbsent, RespondList, RespondError, Answered, Statuses
    <3>2. req[r].status = "waiting"
      BY <2>7 DEF RespondAbsent, RespondList, RespondError, Answered
    <3>3. req' \in [Requests -> {Free} \cup Asked] /\ StoreTypeOK'
      BY <3>1, <3>2, RespondType
    <3> QED BY <2>7, <3>3 DEF RespondAbsent, RespondList, RespondError, StoreTypeOK, TypeOK
  <2>8. CASE Finished(r)
    BY <2>8 DEF Finished, TypeOK
  <2> QED BY <1>9, <2>1, <2>3, <2>4, <2>6, <2>7, <2>8 DEF Serve
<1>10. ASSUME Signal \/ Shutdown PROVE TypeOK'
  BY <1>10 DEF Signal, Shutdown, TypeOK
<1>11. ASSUME End, exits < MaxExits PROVE TypeOK'
  <2>1. lru' \in Seq(Entries) /\ Len(lru') = 0
    BY <1>11, EmptySeq DEF End
  <2>2. Len(topic) \in Nat /\ exits' \in 0..MaxExits /\ Len(lru') <= Capacity
    BY <1>11, <2>1, LenProperties, ServiceAssumption DEF End, TypeOK
  <2>3. req' \in [Requests -> {Free} \cup Asked] /\ call' \in [Clients -> Calls]
    BY <1>11, CallTypes DEF End, Abandon
  <2> QED BY <1>11, <2>1, <2>2, <2>3 DEF End, Abandon, TypeOK
<1>12. ASSUME Boot PROVE TypeOK'
  <2>1. lru' \in Seq(Entries) /\ Len(lru') <= Capacity
    BY <1>0, <1>12, PopulatedType DEF Boot
  <2> QED BY <1>12, <2>1 DEF Boot, TypeOK, Stored
<1>13. CASE UNCHANGED vars
  BY <1>13 DEF vars, TypeOK
<1>14. ASSUME Exit \/ Crash PROVE TypeOK'
  BY <1>11, <1>14 DEF Exit, Crash, BoundKept
<1> QED
  BY <1>1, <1>2, <1>3, <1>4, <1>5, <1>6, <1>7, <1>8, <1>9, <1>10, <1>12, <1>13, <1>14
     DEF Next, Consume

-----------------------------------------------------------------------------
(* Which steps touch the rows and the calls, and how.                      *)

RowsKept == \A uid \in Uids : rows[uid] # NoOrder => rows'[uid] = rows[uid]

LEMMA RowIsNotNoOrder ==
  \A o \in Orders : RowOf(o) # NoOrder
BY RowFields, NoOrderAssumption, RowsAreEntries

LEMMA CommitKeepsRows ==
  ASSUME StoreTypeOK, NEW c \in Clients, NEW status, Commit(c, status)
  PROVE  RowsKept
BY DEF StoreTypeOK, Commit, Insertable, RowsKept

LEMMA StoreStepKeepsRows ==
  ASSUME StoreTypeOK, NEW c \in Clients,
         Insert(c) \/ InsertUnreported(c) \/ Refuse(c) \/ Select(c) \/ Fail(c)
  PROVE  RowsKept
<1>1. CASE Insert(c) \/ InsertUnreported(c)
  BY <1>1, CommitKeepsRows DEF Insert, InsertUnreported
<1>2. CASE Refuse(c) \/ Select(c) \/ Fail(c)
  BY <1>2 DEF Refuse, Select, Fail, RowsKept
<1> QED BY <1>1, <1>2

(* A step of the store leaves the rows or fills in one that was not there. *)
LEMMA StoreStepRows ==
  ASSUME StoreTypeOK, NEW c \in Clients,
         Insert(c) \/ InsertUnreported(c) \/ Refuse(c) \/ Select(c) \/ Fail(c)
  PROVE  \/ rows' = rows
         \/ \E o \in Orders : rows' = [rows EXCEPT ![o.uid] = RowOf(o)]
<1>1. CASE Insert(c) \/ InsertUnreported(c)
  <2>1. call[c] \in Calls /\ call[c].op = "add"
    BY <1>1 DEF Insert, InsertUnreported, Commit, Pending, StoreTypeOK
  <2>2. call[c].order \in Orders
    BY <2>1, AddCallFields
  <2> QED BY <1>1, <2>2 DEF Insert, InsertUnreported, Commit
<1>2. CASE Refuse(c) \/ Select(c) \/ Fail(c)
  BY <1>2 DEF Refuse, Select, Fail
<1> QED BY <1>1, <1>2

(* Every other step leaves them.                                           *)
LEMMA RowsChange ==
  ASSUME TypeOK, [Next]_vars
  PROVE  \/ rows' = rows
         \/ \E c \in Clients :
              Insert(c) \/ InsertUnreported(c) \/ Refuse(c) \/ Select(c) \/ Fail(c)
<1>1. ASSUME NEW c \in Clients, StoreStep(c) \/ Fault(c)
      PROVE  Insert(c) \/ InsertUnreported(c) \/ Refuse(c) \/ Select(c) \/ Fail(c)
  BY <1>1 DEF StoreStep, Fault
<1>2. CASE Cancelled
  BY <1>2, ClientsAssumption DEF Cancelled
<1>3. ASSUME NEW r \in Requests, Serve(r) PROVE rows' = rows
  BY <1>3 DEF Serve, ServeHit, ServeMiss, ServeList, Query, InvokeSelect, RespondFound,
              RespondAbsent, RespondList, RespondError, Respond, Return, Finished, storeVars
<1>4. ASSUME NEW m \in Orders \cup {Bad}, Produce(m) PROVE rows' = rows
  BY <1>4 DEF Produce, storeVars
<1>5. ASSUME Consume \/ StopConsuming PROVE rows' = rows
  BY <1>5 DEF Consume, Receive, Skip, AddOk, AddFailed, StopConsuming, InvokeAdd, Return, storeVars
<1>6. ASSUME Signal \/ Shutdown \/ Exit \/ Crash \/ Boot PROVE rows' = rows
  BY <1>6 DEF Signal, Shutdown, Exit, Crash, Boot, End, Abandon, storeVars
<1>7. CASE UNCHANGED vars
  BY <1>7 DEF vars
<1> QED BY <1>1, <1>2, <1>3, <1>4, <1>5, <1>6, <1>7 DEF Next

LEMMA RowsStep == TypeOK /\ [Next]_vars => RowsKept
<1>1. TypeOK => StoreTypeOK
  BY DEF TypeOK, StoreTypeOK
<1> QED BY <1>1, RowsChange, StoreStepKeepsRows DEF RowsKept

(* A step of the store changes a call's outcome, never its question.       *)
LEMMA StoreStepKeepsQuestions ==
  ASSUME StoreTypeOK, NEW c \in Clients,
         Insert(c) \/ InsertUnreported(c) \/ Refuse(c) \/ Select(c) \/ Fail(c),
         NEW d \in Clients
  PROVE  /\ call'[d].op = call[d].op
         /\ call[d].op = "add" => call'[d].order = call[d].order
         /\ call[d].op = "select" =>
              call'[d].target = call[d].target /\ call'[d].owner = call[d].owner
<1>1. CASE Select(c)
  BY <1>1, SelectCallFields DEF Select, Pending, StoreTypeOK, Calls, Idle
<1>2. CASE \E status \in {"ok", "failed"} : Finish(c, status)
  BY <1>2 DEF Finish, StoreTypeOK, Calls, Idle
<1> QED BY <1>1, <1>2 DEF Insert, InsertUnreported, Commit, Refuse, Fail

(* Only Insert and Select leave a call with the outcome ok.                *)
LEMMA StoreStepOutcome ==
  ASSUME StoreTypeOK, NEW c \in Clients,
         Insert(c) \/ InsertUnreported(c) \/ Refuse(c) \/ Select(c) \/ Fail(c),
         NEW d \in Clients, call'[d].op \in {"add", "select"}, call'[d].status = "ok"
  PROVE  call'[d] = call[d] \/ (d = c /\ (Insert(c) \/ Select(c)))
<1>1. CASE d # c
  BY <1>1 DEF Insert, InsertUnreported, Commit, Refuse, Select, Fail, Finish, StoreTypeOK
<1>2. CASE d = c /\ ~Insert(c) /\ ~Select(c)
  <2>1. Finish(c, "failed") /\ call[c] \in Calls /\ call[c] # Idle
    BY <1>2, PendingIsNotIdle
       DEF InsertUnreported, Commit, Pending, Refuse, Fail, StoreTypeOK
  <2>2. call'[c].status = "failed"
    BY <2>1 DEF Finish, StoreTypeOK, Calls
  <2> QED BY <1>2, <2>2
<1> QED BY <1>1, <1>2

-----------------------------------------------------------------------------
(* The parts of the invariant, one at a time.                              *)

LEMMA BoundStep == TypeOK /\ BoundKept /\ [Next]_vars => BoundKept'
<1> SUFFICES ASSUME TypeOK, BoundKept, [Next]_vars PROVE BoundKept'
  OBVIOUS
<1>1. CASE UNCHANGED <<phase, exits>>
  BY <1>1 DEF BoundKept
<1>2. ASSUME NEW r \in Requests, Serve(r) PROVE UNCHANGED <<phase, exits>>
  BY <1>2 DEF Serve, ServeHit, ServeMiss, ServeList, Query, RespondFound, RespondAbsent,
              RespondList, RespondError, Finished, processVars
<1>3. ASSUME Consume \/ StopConsuming \/ Cancelled PROVE UNCHANGED <<phase, exits>>
  BY <1>3 DEF Consume, Receive, Skip, AddOk, AddFailed, StopConsuming, Cancelled, processVars
<1>4. ASSUME NEW c \in Clients, StoreStep(c) \/ Fault(c) PROVE UNCHANGED <<phase, exits>>
  BY <1>4 DEF StoreStep, Fault, processVars
<1>5. ASSUME NEW m \in Orders \cup {Bad}, Produce(m) PROVE UNCHANGED <<phase, exits>>
  BY <1>5 DEF Produce, processVars
<1>6. ASSUME Signal \/ Shutdown \/ Exit \/ Crash \/ Boot PROVE BoundKept'
  BY <1>6 DEF Signal, Shutdown, Exit, Crash, Boot, End, BoundKept
<1>7. CASE UNCHANGED vars
  BY <1>1, <1>7 DEF vars
<1> QED BY <1>1, <1>2, <1>3, <1>4, <1>5, <1>6, <1>7 DEF Next

LEMMA WaitersStep == TypeOK /\ WaitersMatchCalls /\ [Next]_vars => WaitersMatchCalls'
<1> SUFFICES ASSUME TypeOK, WaitersMatchCalls, [Next]_vars PROVE WaitersMatchCalls'
  OBVIOUS
<1> USE DEF processVars, consumerVars, storeVars
<1>0. StoreTypeOK
  BY DEF TypeOK, StoreTypeOK
<1>1. CASE UNCHANGED <<call, req>> /\ consumer' \in {consumer, "reading", "stopped"}
  BY <1>1 DEF WaitersMatchCalls
<1>2. CASE Receive
  <2>1. call' = [call EXCEPT ![Consumer] = AddCall(Message, "pending")]
    BY <1>2 DEF Receive, InvokeAdd
  <2>2. call'[Consumer].op = "add" /\ \A r \in Requests : call'[r] = call[r]
    BY <2>1, ClientsAssumption DEF AddCall, TypeOK
  <2> QED BY <1>2, <2>2 DEF Receive, WaitersMatchCalls
<1>3. CASE AddOk \/ AddFailed
  <2>1. \A r \in Requests : call'[r] = call[r]
    BY <1>3, ClientsAssumption DEF AddOk, AddFailed, Return, TypeOK
  <2> QED BY <1>3, <2>1 DEF AddOk, AddFailed, WaitersMatchCalls
<1>4. ASSUME NEW c \in Clients, UNCHANGED <<consumer, req>>,
             Insert(c) \/ InsertUnreported(c) \/ Refuse(c) \/ Select(c) \/ Fail(c)
      PROVE  WaitersMatchCalls'
  BY <1>0, <1>4, StoreStepKeepsQuestions, ClientsAssumption DEF WaitersMatchCalls
<1>5. ASSUME NEW r \in Requests, Serve(r) PROVE WaitersMatchCalls'
  <2>1. ASSUME NEW user \in Customers, NEW route, NEW target, Query(r, route, user, target)
        PROVE  WaitersMatchCalls'
    <3>1. /\ call' = [call EXCEPT ![r] = SelectCall(target, OwnerOf(route, user), "pending", {})]
          /\ req' = [req EXCEPT ![r] = Request(route, user, target, Stored, "waiting", {})]
          /\ Allowed(route, user) /\ consumer' = consumer
      BY <2>1 DEF Query, InvokeSelect
    <3>2. /\ call'[r].op = "select" /\ call'[r].target = target
          /\ call'[r].owner = OwnerOf(route, user)
          /\ req'[r].target = target /\ req'[r].route = route /\ req'[r].user = user
      BY <3>1, ClientsAssumption DEF SelectCall, Request, TypeOK
    <3>3. /\ call'[Consumer] = call[Consumer]
          /\ \A q \in Requests \ {r} : call'[q] = call[q] /\ req'[q] = req[q]
      BY <3>1, ClientsAssumption DEF TypeOK
    <3> QED BY <3>1, <3>2, <3>3 DEF WaitersMatchCalls
  <2>2. ASSUME req'[r].status # "waiting", UNCHANGED consumer,
               \A d \in Clients \ {r} : call'[d] = call[d],
               \A q \in Requests \ {r} : req'[q] = req[q]
        PROVE  WaitersMatchCalls'
    BY <2>2, ClientsAssumption DEF WaitersMatchCalls
  <2>3. ASSUME NEW user \in Customers, NEW route \in OrderRoutes, NEW uid \in Uids,
               ServeHit(r, route, user, uid)
        PROVE  WaitersMatchCalls'
    <3>1. req'[r].status # "waiting"
      BY <2>3 DEF ServeHit, Request, TypeOK
    <3> QED BY <2>2, <2>3, <3>1 DEF ServeHit, TypeOK
  <2>4. ASSUME NEW status \in Statuses \ {"waiting"}, NEW body, Respond(r, status, body),
               req[r].status = "waiting", UNCHANGED consumer
        PROVE  WaitersMatchCalls'
    <3>1. req[r] \in Asked
      BY <2>4, RequestType DEF TypeOK
    <3>2. req'[r].status = status
      BY <2>4, <3>1 DEF Respond, TypeOK, Asked
    <3> QED BY <2>2, <2>4, <3>2 DEF Respond, Return, TypeOK
  <2>5. CASE RespondFound(r) \/ RespondAbsent(r) \/ RespondList(r) \/ RespondError(r)
    <3>1. \E status \in Statuses \ {"waiting"} : \E body : Respond(r, status, body)
      BY <2>5 DEF RespondFound, RespondAbsent, RespondList, RespondError, Statuses
    <3> QED BY <2>4, <2>5, <3>1
         DEF RespondFound, RespondAbsent, RespondList, RespondError, Answered
  <2>6. CASE Finished(r)
    <3>1. req'[r].status # "waiting"
      BY <2>6 DEF Finished, Free, TypeOK
    <3> QED BY <2>2, <2>6, <3>1 DEF Finished, TypeOK
  <2> QED BY <1>5, <2>1, <2>3, <2>5, <2>6 DEF Serve, ServeMiss, ServeList
<1>6. CASE End
  BY <1>6 DEF End, Free, WaitersMatchCalls
<1>7. ASSUME NEW m \in Orders \cup {Bad}, Produce(m) PROVE WaitersMatchCalls'
  BY <1>1, <1>7 DEF Produce
<1>8. CASE Skip \/ StopConsuming \/ Signal \/ Shutdown \/ Boot \/ UNCHANGED vars
  BY <1>1, <1>8 DEF Skip, StopConsuming, Signal, Shutdown, Boot, vars
<1>9. ASSUME NEW c \in Clients, StoreStep(c) \/ Fault(c) PROVE WaitersMatchCalls'
  BY <1>4, <1>9 DEF StoreStep, Fault
<1>10. CASE Cancelled
  BY <1>4, <1>10, ClientsAssumption DEF Cancelled
<1>11. CASE Exit \/ Crash
  BY <1>6, <1>11 DEF Exit, Crash
<1> QED BY <1>2, <1>3, <1>5, <1>7, <1>8, <1>9, <1>10, <1>11 DEF Next, Consume

(* An outcome ok is new only with the step that stored or read the rows.   *)
LEMMA OutcomeStep ==
  ASSUME TypeOK, [Next]_vars, NEW c \in Clients,
         call'[c].op \in {"add", "select"}, call'[c].status = "ok"
  PROVE  call'[c] = call[c] \/ Insert(c) \/ Select(c)
<1> USE DEF processVars, consumerVars, storeVars
<1>0. StoreTypeOK
  BY DEF TypeOK, StoreTypeOK
<1>1. ASSUME NEW d \in Clients, NEW x, call' = [call EXCEPT ![d] = x],
             x.op \notin {"add", "select"} \/ x.status # "ok"
      PROVE  call'[c] = call[c]
  BY <1>1 DEF TypeOK
<1>2. ASSUME NEW d \in Clients,
             Insert(d) \/ InsertUnreported(d) \/ Refuse(d) \/ Select(d) \/ Fail(d)
      PROVE  call'[c] = call[c] \/ Insert(c) \/ Select(c)
  BY <1>0, <1>2, StoreStepOutcome
<1>3. ASSUME NEW d \in Clients, Return(d) PROVE call'[c] = call[c]
  BY <1>1, <1>3 DEF Return, Idle
<1>4. ASSUME NEW r \in Requests, Serve(r) PROVE call'[c] = call[c]
  <2>1. ASSUME NEW target, NEW owner, InvokeSelect(r, target, owner) PROVE call'[c] = call[c]
    BY <1>1, <2>1, ClientsAssumption DEF InvokeSelect, SelectCall
  <2>2. CASE Return(r) \/ UNCHANGED call
    BY <1>3, <2>2, ClientsAssumption
  <2> QED BY <1>4, <2>1, <2>2
       DEF Serve, ServeHit, ServeMiss, ServeList, Query, RespondFound, RespondAbsent,
           RespondList, RespondError, Respond, Finished
<1>5. ASSUME Consume \/ StopConsuming PROVE call'[c] = call[c]
  <2>1. CASE Receive
    BY <1>1, <2>1, ClientsAssumption DEF Receive, InvokeAdd, AddCall
  <2>2. CASE AddOk \/ AddFailed
    BY <1>3, <2>2, ClientsAssumption DEF AddOk, AddFailed
  <2> QED BY <1>5, <2>1, <2>2 DEF Consume, Skip, StopConsuming
<1>6. CASE Exit \/ Crash
  BY <1>6 DEF Exit, Crash, End, Abandon, Idle
<1>7. CASE Signal \/ Shutdown \/ Boot \/ UNCHANGED vars
  BY <1>7 DEF Signal, Shutdown, Boot, vars
<1>8. ASSUME NEW m \in Orders \cup {Bad}, Produce(m) PROVE call'[c] = call[c]
  BY <1>8 DEF Produce
<1>9. ASSUME NEW d \in Clients, StoreStep(d) \/ Fault(d)
      PROVE  call'[c] = call[c] \/ Insert(c) \/ Select(c)
  BY <1>2, <1>9 DEF StoreStep, Fault
<1>10. CASE Cancelled
  BY <1>2, <1>10, ClientsAssumption DEF Cancelled
<1> QED BY <1>4, <1>5, <1>6, <1>7, <1>8, <1>9, <1>10 DEF Next

LEMMA UidStep == TypeOK /\ RowsUnderUid /\ [Next]_vars => RowsUnderUid'
<1> SUFFICES ASSUME TypeOK, RowsUnderUid, [Next]_vars PROVE RowsUnderUid'
  OBVIOUS
<1>1. CASE rows' = rows
  BY <1>1 DEF RowsUnderUid, Stored
<1>2. ASSUME NEW o \in Orders, rows' = [rows EXCEPT ![o.uid] = RowOf(o)]
      PROVE  RowsUnderUid'
  BY <1>2, RowFields DEF RowsUnderUid, Stored, TypeOK
<1>3. StoreTypeOK
  BY DEF TypeOK, StoreTypeOK
<1> QED BY <1>1, <1>2, <1>3, RowsChange, StoreStepRows

LEMMA CallsStep == TypeOK /\ RowsUnderUid /\ CallsMatchRows /\ [Next]_vars => CallsMatchRows'
<1> SUFFICES ASSUME TypeOK, RowsUnderUid, CallsMatchRows, [Next]_vars,
                    NEW c \in Clients, call'[c].status = "ok"
             PROVE  /\ call'[c].op = "add" =>
                         rows'[call'[c].order.uid] = RowOf(call'[c].order)
                    /\ call'[c].op = "select" =>
                         \A row \in call'[c].found :
                           /\ row.uid \in call'[c].target
                           /\ rows'[row.uid] = row
                           /\ Visible(row, call'[c].owner)
  BY DEF CallsMatchRows
<1>1. RowsKept /\ StoreTypeOK /\ call[c] \in Calls
  BY RowsStep DEF TypeOK, StoreTypeOK
<1>2. CASE call'[c] = call[c]
  <2>1. ASSUME call[c].op = "add" PROVE rows'[call[c].order.uid] = RowOf(call[c].order)
    <3>1. call[c].order \in Orders /\ rows[call[c].order.uid] = RowOf(call[c].order)
      BY <1>1, <1>2, <2>1, AddCallFields DEF CallsMatchRows
    <3> QED BY <1>1, <3>1, RowFields, RowIsNotNoOrder DEF RowsKept
  <2>2. ASSUME call[c].op = "select", NEW row \in call[c].found PROVE rows'[row.uid] = row
    <3>1. row \in Entries /\ rows[row.uid] = row
      BY <1>1, <1>2, <2>2, SelectCallFields, RowsAreEntries DEF CallsMatchRows
    <3> QED BY <1>1, <3>1, EntryFields DEF RowsKept
  <2> QED BY <1>2, <2>1, <2>2 DEF CallsMatchRows
<1>3. CASE Insert(c)
  <2>1. call[c].op = "add" /\ call[c].order \in Orders
    BY <1>1, <1>3, AddCallFields DEF Insert, Commit, Pending
  <2>2. call'[c].op = "add" /\ call'[c].order = call[c].order
    BY <1>1, <1>3, <2>1, StoreStepKeepsQuestions
  <2>3. rows'[call[c].order.uid] = RowOf(call[c].order)
    BY <1>3, <2>1, RowFields DEF Insert, Commit, TypeOK
  <2> QED BY <2>2, <2>3
<1>4. CASE Select(c)
  <2>1. /\ call[c].op = "select" /\ rows' = rows
        /\ call' = [call EXCEPT ![c] = [call[c] EXCEPT !.status = "ok",
                          !.found = Found(call[c].target, call[c].owner)]]
    BY <1>4 DEF Select, Pending
  <2>2. /\ call'[c].op = "select"
        /\ call'[c].target = call[c].target /\ call'[c].owner = call[c].owner
    BY <1>1, <1>4, <2>1, StoreStepKeepsQuestions
  <2>3. call'[c].found = Found(call[c].target, call[c].owner)
    BY <1>1, <2>1 DEF TypeOK, Calls, Idle
  <2>4. ASSUME NEW row \in Found(call[c].target, call[c].owner)
        PROVE  row.uid \in call[c].target /\ rows[row.uid] = row /\ Visible(row, call[c].owner)
    <3>1. PICK uid \in call[c].target \cap Stored :
                 row = rows[uid] /\ Visible(row, call[c].owner)
      BY DEF Found
    <3> QED BY <3>1 DEF RowsUnderUid
  <2> QED BY <2>1, <2>2, <2>3, <2>4
<1>5. CASE call'[c].op \notin {"add", "select"}
  BY <1>5
<1> QED BY <1>2, <1>3, <1>4, <1>5, OutcomeStep

(* The order o agrees with the rows r of a store.                          *)
Matches(o, r) == r[o.uid] # NoOrder /\ Represents(o, r[o.uid])

LEMMA MatchesKept ==
  ASSUME TypeOK, [Next]_vars, NEW o \in Entries, Matches(o, rows)
  PROVE  Matches(o, rows')
BY RowsStep, EntryFields DEF RowsKept, Matches

LEMMA RowMatches ==
  ASSUME NEW row \in Rows, rows[row.uid] = row
  PROVE  Matches(row, rows)
BY EntryFields, RowsAreEntries DEF Matches, Represents

(* What a waiting handler finds in its call's outcome agrees with the      *)
(* store, was asked for, and may be shown to the asker.                    *)
LEMMA FoundMatches ==
  ASSUME TypeOK, WaitersMatchCalls, CallsMatchRows,
         NEW r \in Requests, Answered(r, "ok"), NEW o \in call[r].found
  PROVE  /\ o \in Entries /\ Matches(o, rows)
         /\ o.uid \in req[r].target
         /\ req[r].user \in Admins \/ o.customer = req[r].user
<1>1. /\ call[r] \in Calls /\ call[r].op = "select" /\ call[r].status = "ok"
      /\ call[r].target = req[r].target
      /\ call[r].owner = OwnerOf(req[r].route, req[r].user)
      /\ Allowed(req[r].route, req[r].user)
  BY ClientsAssumption DEF Answered, WaitersMatchCalls, TypeOK
<1>2. /\ o.uid \in call[r].target /\ rows[o.uid] = o /\ Visible(o, call[r].owner)
  BY <1>1, ClientsAssumption DEF CallsMatchRows
<1>3. o \in Rows
  BY <1>1, SelectCallFields
<1>4. req[r].user \in Admins \/ o.customer = req[r].user
  <2>1. req[r] \in Asked
    BY RequestType DEF Answered, TypeOK
  <2>2. req[r].user # Anyone
    BY <2>1, ServiceAssumption DEF Asked
  <2> QED BY <1>1, <1>2, <2>2 DEF Visible, OwnerOf, Allowed
<1>5. o \in Entries /\ Matches(o, rows)
  BY <1>2, <1>3, RowMatches, RowsAreEntries
<1> QED BY <1>1, <1>2, <1>4, <1>5

LEMMA CacheStep ==
  /\ TypeOK /\ WaitersMatchCalls /\ RowsUnderUid /\ CallsMatchRows /\ CacheMatchesRows
  /\ [Next]_vars
  => CacheMatchesRows'
<1> SUFFICES ASSUME TypeOK, WaitersMatchCalls, RowsUnderUid, CallsMatchRows,
                    CacheMatchesRows, [Next]_vars
             PROVE  CacheMatchesRows'
  OBVIOUS
<1> USE DEF processVars, consumerVars, storeVars
<1>1. \A k \in DOMAIN lru : lru[k] \in Entries /\ Matches(lru[k], rows')
  <2>1. \A k \in DOMAIN lru : lru[k] \in Entries
    BY ElementOfSeq, LenProperties DEF TypeOK
  <2>2. \A k \in DOMAIN lru : Matches(lru[k], rows)
    BY DEF CacheMatchesRows, Matches
  <2> QED BY <2>1, <2>2, MatchesKept
<1>2. ASSUME \A j \in DOMAIN lru' : \E k \in DOMAIN lru : lru'[j] = lru[k]
      PROVE  CacheMatchesRows'
  BY <1>1, <1>2 DEF CacheMatchesRows, Matches
<1>3. ASSUME NEW o \in Entries, Matches(o, rows), Cache!Set(o)
      PROVE  CacheMatchesRows'
  <2>1. \A j \in DOMAIN lru' : lru'[j] = o \/ \E k \in DOMAIN lru : lru'[j] = lru[k]
    BY <1>3, CacheSetShape DEF TypeOK
  <2>2. Matches(o, rows')
    BY <1>3, MatchesKept
  <2> QED BY <1>1, <2>1, <2>2 DEF CacheMatchesRows, Matches
<1>4. CASE UNCHANGED lru
  BY <1>2, <1>4
<1>5. CASE AddOk
  <2>1. /\ call[Consumer].op = "add" /\ call[Consumer].status = "ok"
        /\ call[Consumer] \in Calls /\ Cache!Set(call[Consumer].order)
    BY <1>5, ClientsAssumption DEF AddOk, WaitersMatchCalls, TypeOK
  <2>2. call[Consumer].order \in Orders
    BY <2>1, AddCallFields
  <2>3. rows[call[Consumer].order.uid] = RowOf(call[Consumer].order)
    BY <2>1, ClientsAssumption DEF CallsMatchRows
  <2>4. Matches(call[Consumer].order, rows)
    BY <2>2, <2>3, RowIsNotNoOrder DEF Matches, Represents
  <2> QED BY <1>3, <2>1, <2>2, <2>4, RowsAreEntries
<1>6. ASSUME NEW r \in Requests, Serve(r) PROVE CacheMatchesRows'
  <2>1. CASE RespondFound(r)
    <3>1. PICK o \in call[r].found : Cache!Set(o)
      BY <2>1 DEF RespondFound
    <3> QED BY <1>3, <2>1, <3>1, FoundMatches DEF RespondFound
  <2>2. ASSUME NEW user, NEW route, NEW uid, ServeHit(r, route, user, uid)
        PROVE  CacheMatchesRows'
    <3>1. PICK i \in DOMAIN lru : Cache!Hit(i)
      BY <2>2 DEF ServeHit
    <3> QED BY <1>2, <3>1, CacheHitShape DEF TypeOK
  <2> QED BY <1>4, <1>6, <2>1, <2>2
       DEF Serve, ServeMiss, ServeList, Query, RespondAbsent, RespondList, RespondError, Finished
<1>7. CASE Exit \/ Crash
  BY <1>7 DEF Exit, Crash, End, CacheMatchesRows
<1>8. CASE Boot
  <2>1. \A i \in DOMAIN lru' : lru'[i] \in StoredRows
    BY <1>8, PopulatedType DEF Boot, TypeOK, StoreTypeOK
  <2>2. ASSUME NEW row \in StoredRows PROVE rows'[row.uid] # NoOrder /\ rows'[row.uid] = row
    BY <1>8, <2>2 DEF Boot, StoredRows, Stored, RowsUnderUid
  <2> QED BY <2>1, <2>2 DEF CacheMatchesRows, Represents
<1>9. ASSUME NEW m \in Orders \cup {Bad}, Produce(m) PROVE UNCHANGED lru
  BY <1>9 DEF Produce
<1>10. ASSUME NEW c \in Clients, StoreStep(c) \/ Fault(c) PROVE UNCHANGED lru
  BY <1>10 DEF StoreStep, Fault
<1>11. CASE Receive \/ Skip \/ AddFailed \/ StopConsuming \/ Cancelled \/ Signal \/ Shutdown
  BY <1>4, <1>11 DEF Receive, Skip, AddFailed, StopConsuming, Cancelled, Signal, Shutdown
<1>12. CASE UNCHANGED vars
  BY <1>4, <1>12 DEF vars
<1> QED BY <1>4, <1>5, <1>6, <1>7, <1>8, <1>9, <1>10, <1>11, <1>12 DEF Next, Consume

(* The order o may stand in the answer a.                                  *)
Shows(a, o, r) ==
  /\ o \in Entries /\ Matches(o, r)
  /\ o.uid \in a.target
  /\ a.user \in Admins \/ o.customer = a.user

LEMMA AnswersStep ==
  /\ TypeOK /\ WaitersMatchCalls /\ CallsMatchRows /\ CacheMatchesRows /\ AnswerSound
  /\ [Next]_vars
  => AnswerSound'
<1> SUFFICES ASSUME TypeOK, WaitersMatchCalls, CallsMatchRows, CacheMatchesRows,
                    AnswerSound, [Next]_vars,
                    NEW q \in Requests, req'[q].status = "200",
                    NEW o \in req'[q].body
             PROVE  Shows(req'[q], o, rows')
  BY DEF AnswerSound, Shows, Matches
<1> USE DEF processVars, consumerVars, storeVars
<1>1. ASSUME req'[q] = req[q] PROVE Shows(req'[q], o, rows')
  <2>1. o \in Entries
    BY <1>1 DEF TypeOK, Asked, Free
  <2>2. Shows(req[q], o, rows)
    BY <1>1, <2>1 DEF AnswerSound, Shows, Matches
  <2> QED BY <1>1, <2>1, <2>2, MatchesKept DEF Shows
<1>2. ASSUME NEW r \in Requests, Serve(r) PROVE Shows(req'[q], o, rows')
  <2>1. ASSUME \A p \in Requests \ {r} : req'[p] = req[p], q # r
        PROVE  Shows(req'[q], o, rows')
    BY <1>1, <2>1
  <2>2. ASSUME NEW user \in Customers, NEW route, NEW uid, ServeHit(r, route, user, uid), q = r
        PROVE  Shows(req'[q], o, rows')
    <3>1. PICK i \in DOMAIN lru :
            /\ lru[i].uid = uid
            /\ req' = [req EXCEPT ![r] =
                 IF ShownFromCache(route, user, lru[i])
                 THEN Request(route, user, {uid}, Stored, "200", {lru[i]})
                 ELSE Request(route, user, {uid}, Stored, "404", {})]
            /\ Allowed(route, user)
      BY <2>2 DEF ServeHit
    <3>2. /\ ShownFromCache(route, user, lru[i])
          /\ o = lru[i] /\ req'[q].target = {uid} /\ req'[q].user = user
      BY <2>2, <3>1 DEF Request, TypeOK
    <3>3. o \in Entries /\ Matches(o, rows)
      BY <3>2, ElementOfSeq, LenProperties DEF CacheMatchesRows, Matches, TypeOK
    <3>4. user \in Admins \/ o.customer = user
      BY <3>1, <3>2 DEF ShownFromCache, Allowed
    <3> QED BY <3>1, <3>2, <3>3, <3>4, MatchesKept DEF Shows
  <2>3. ASSUME NEW status, NEW body, Respond(r, status, body), Answered(r, "ok"),
               body \subseteq call[r].found, q = r
        PROVE  Shows(req'[q], o, rows')
    <3>1. req[r] \in Asked
      BY <2>3, RequestType DEF Answered, TypeOK
    <3>2. /\ req'[q].body = body
          /\ req'[q].target = req[r].target /\ req'[q].user = req[r].user
      BY <2>3, <3>1 DEF Respond, TypeOK, Asked
    <3>3. /\ o \in Entries /\ Matches(o, rows) /\ o.uid \in req[r].target
          /\ req[r].user \in Admins \/ o.customer = req[r].user
      BY <2>3, <3>2, FoundMatches
    <3> QED BY <3>2, <3>3, MatchesKept DEF Shows
  <2>4. CASE RespondFound(r) \/ RespondAbsent(r) \/ RespondList(r)
    <3>1. PICK status, body : /\ Respond(r, status, body) /\ Answered(r, "ok")
                              /\ body \subseteq call[r].found
      BY <2>4 DEF RespondFound, RespondAbsent, RespondList
    <3>2. \A p \in Requests \ {r} : req'[p] = req[p]
      BY <3>1 DEF Respond, TypeOK
    <3> QED BY <2>1, <2>3, <3>1, <3>2
  <2>5. CASE RespondError(r)
    <3>1. req[r] \in Asked
      BY <2>5, RequestType DEF RespondError, Answered, TypeOK
    <3>2. q # r
      BY <2>5, <3>1 DEF RespondError, Respond, TypeOK, Asked
    <3> QED BY <2>1, <2>5, <3>2 DEF RespondError, Respond, TypeOK
  <2>6. ASSUME NEW user, NEW route, NEW target, Query(r, route, user, target)
        PROVE  Shows(req'[q], o, rows')
    <3>1. q # r
      BY <2>6 DEF Query, Request, TypeOK
    <3> QED BY <2>1, <2>6, <3>1 DEF Query, TypeOK
  <2>7. CASE Finished(r)
    <3>1. q # r
      BY <2>7 DEF Finished, Free, TypeOK
    <3> QED BY <2>1, <2>7, <3>1 DEF Finished, TypeOK
  <2>8. ASSUME NEW user \in Customers, NEW route, NEW uid, ServeHit(r, route, user, uid), q # r
        PROVE  Shows(req'[q], o, rows')
    BY <2>1, <2>8 DEF ServeHit, TypeOK
  <2> QED BY <1>2, <2>2, <2>4, <2>5, <2>6, <2>7, <2>8 DEF Serve, ServeMiss, ServeList
<1>3. CASE Exit \/ Crash
  BY <1>3 DEF Exit, Crash, End, Free
<1>4. ASSUME NEW m \in Orders \cup {Bad}, Produce(m) PROVE UNCHANGED req
  BY <1>4 DEF Produce
<1>5. ASSUME NEW c \in Clients, StoreStep(c) \/ Fault(c) PROVE UNCHANGED req
  BY <1>5 DEF StoreStep, Fault
<1>6. CASE \/ Consume \/ StopConsuming \/ Cancelled \/ Signal \/ Shutdown \/ Boot
           \/ UNCHANGED vars
  BY <1>1, <1>6 DEF Consume, Receive, Skip, AddOk, AddFailed, StopConsuming, Cancelled,
                    Signal, Shutdown, Boot, vars
<1> QED BY <1>1, <1>2, <1>3, <1>4, <1>5, <1>6 DEF Next

-----------------------------------------------------------------------------
(* The theorems.                                                           *)

LEMMA InvInit == Init => Inv
<1> SUFFICES ASSUME Init PROVE Inv
  OBVIOUS
<1>1. TypeOK
  BY TypeInit
<1>2. Stored = {} /\ \A c \in Clients : call[c] = Idle
  BY DEF Init, StoreInit, Stored
<1>3. BoundKept /\ RowsUnderUid
  BY <1>2 DEF Init, BoundKept, RowsUnderUid
<1>4. CallsMatchRows
  BY <1>2 DEF CallsMatchRows, Idle
<1>5. WaitersMatchCalls /\ AnswerSound
  BY DEF Init, WaitersMatchCalls, AnswerSound, Free
<1>6. CacheMatchesRows
  BY DEF Init, Cache!Init, CacheMatchesRows
<1> QED BY <1>1, <1>3, <1>4, <1>5, <1>6 DEF Inv

(* The invariant holds of every state the service can reach.               *)
THEOREM Invariance == Spec => []Inv
<1>1. Inv /\ [Next]_vars => Inv'
  BY TypeStep, BoundStep, WaitersStep, UidStep, CallsStep, CacheStep, AnswersStep DEF Inv
<1> QED BY <1>1, InvInit, PTL DEF Spec

(* Every variable keeps its type; the cache keeps within its capacity.     *)
THEOREM TypeCorrect == Spec => []TypeOK
<1>1. Inv => TypeOK
  BY DEF Inv
<1> QED BY <1>1, Invariance, PTL

(* Whatever consumer, handlers, faults and restarts do, the cache holds no *)
(* order but what the store has of it.                                     *)
THEOREM CacheCoherent == Spec => []CacheMatchesRows
<1>1. Inv => CacheMatchesRows
  BY DEF Inv
<1> QED BY <1>1, Invariance, PTL

(* An answer shows stored orders only, and a user only the user's own.     *)
THEOREM AnswersSound == Spec => []AnswerSound
<1>1. Inv => AnswerSound
  BY DEF Inv
<1> QED BY <1>1, Invariance, PTL

-----------------------------------------------------------------------------
(***************************************************************************)
(* Complete answers.                                                       *)

(* A request knows only of orders that are stored, and an order's route    *)
(* asks for one.                                                           *)
AskedAt(r) ==
  req[r] # Free =>
    /\ req[r].known \subseteq Stored
    /\ req[r].route \in OrderRoutes => \E uid \in Uids : req[r].target = {uid}

(* The store's answer to a request leaves out nothing it knew of.          *)
FoundAt(r) ==
  req[r] # Free /\ req[r].status = "waiting" /\ call[r].status = "ok" =>
    \A uid \in req[r].target \cap req[r].known :
      Visible(rows[uid], call[r].owner) => rows[uid] \in call[r].found

CompleteAt(r) ==
  req[r] # Free =>
    Complete(req[r]) \/ (req[r].route = "page" /\ req[r].user \in Admins)

AnswersInv ==
  /\ Inv
  /\ \A r \in Requests : AskedAt(r) /\ FoundAt(r) /\ CompleteAt(r)

(***************************************************************************)
(* The consumer.                                                           *)

OnlyConsumerAdds == \A r \in Requests : call[r].op # "add"

(* A process that is down has nothing under way.                           *)
DownIsEmpty == phase = "down" => processed = 0 /\ call[Consumer] = Idle

(* The order that is stored and not counted yet.                           *)
Uncounted ==
  IF call[Consumer].op = "add" /\ call[Consumer].status = "ok" THEN 1 ELSE 0

CountInv ==
  /\ Inv
  /\ OnlyConsumerAdds /\ DownIsEmpty
  /\ IsFiniteSet(Stored)
  /\ atBoot \subseteq Stored
  /\ processed + Uncounted <= Cardinality(Stored \ atBoot)

(* The consumer is where the process lets it be, and is adding the message *)
(* it read last.                                                           *)
ConsumerAt ==
  /\ phase \in {"down", "draining"} => consumer = "stopped"
  /\ phase = "down" => offset = 0
  /\ call[Consumer].op \in {"idle", "add"}
  /\ consumer = "adding" <=> call[Consumer].op = "add"
  /\ consumer = "adding" => offset > 0 /\ call[Consumer].order = topic[offset]

(* The first order of a uid is the one that is stored.                     *)
FirstIsStored ==
  \A uid \in Stored : \E i \in Storables(Len(topic)) :
    /\ rows[uid] = RowOf(topic[i])
    /\ \A j \in Storables(i - 1) : topic[j].uid # uid

(* Nothing behind the consumer is missing.                                 *)
NothingPassed ==
  /\ phase = "up" => \A i \in Storables(offset) :
       topic[i].uid \in Stored \/ (i = offset /\ consumer = "adding")
  /\ consumer = "adding" => \A i \in Storables(offset - 1) : topic[i].uid \in Stored
  /\ phase = "up" /\ consumer = "adding" /\ call[Consumer].status = "failed" =>
       ~Storable(topic[offset]) \/ topic[offset].uid \in Stored

OrderInv ==
  /\ Inv
  /\ OnlyConsumerAdds
  /\ ConsumerAt
  /\ faults = 0 => FirstIsStored /\ NothingPassed

-----------------------------------------------------------------------------
(* What a step does to the rows and to the requests.                       *)

LEMMA StoredGrows ==
  ASSUME TypeOK, [Next]_vars
  PROVE  /\ Stored \subseteq Stored'
         /\ \A uid \in Stored : rows'[uid] = rows[uid]
BY RowsStep DEF RowsKept, Stored

LEMMA RequestChange ==
  ASSUME TypeOK, [Next]_vars, NEW q \in Requests
  PROVE  req'[q] = req[q] \/ Serve(q) \/ req'[q] = Free
<1>1. ASSUME NEW r \in Requests, Serve(r) PROVE req'[q] = req[q] \/ Serve(q)
  <2>1. CASE r = q
    BY <1>1, <2>1
  <2>2. CASE r # q
    <3>1. CASE \E user \in Customers, route \in OrderRoutes, uid \in Uids :
                 ServeHit(r, route, user, uid)
      BY <2>2, <3>1 DEF ServeHit, TypeOK
    <3>2. CASE \E user \in Customers : \E route, target : Query(r, route, user, target)
      BY <2>2, <3>2 DEF Query, TypeOK
    <3>3. CASE \E status, body : Respond(r, status, body)
      BY <2>2, <3>3 DEF Respond, TypeOK
    <3>4. CASE Finished(r)
      BY <2>2, <3>4 DEF Finished, TypeOK
    <3>5. CASE RespondFound(r) \/ RespondAbsent(r) \/ RespondList(r) \/ RespondError(r)
      BY <3>3, <3>5 DEF RespondFound, RespondAbsent, RespondList, RespondError
    <3>6. CASE \E user \in Customers :
                 \/ \E route \in OrderRoutes, uid \in Uids : ServeMiss(r, route, user, uid)
                 \/ \E route \in ListRoutes : ServeList(r, route, user)
      BY <3>2, <3>6 DEF ServeMiss, ServeList
    <3> QED BY <1>1, <3>1, <3>4, <3>5, <3>6 DEF Serve
  <2> QED BY <2>1, <2>2
<1>2. CASE Exit \/ Crash
  BY <1>2 DEF Exit, Crash, End
<1>3. ASSUME NEW m \in Orders \cup {Bad}, Produce(m) PROVE UNCHANGED req
  BY <1>3 DEF Produce
<1>4. ASSUME NEW c \in Clients, StoreStep(c) \/ Fault(c) PROVE UNCHANGED req
  BY <1>4 DEF StoreStep, Fault
<1>5. CASE Consume \/ StopConsuming \/ Cancelled \/ Signal \/ Shutdown \/ Boot \/ UNCHANGED vars
  BY <1>5 DEF Consume, Receive, Skip, AddOk, AddFailed, StopConsuming, Cancelled,
              Signal, Shutdown, Boot, vars
<1> QED BY <1>1, <1>2, <1>3, <1>4, <1>5 DEF Next

(* A handler that answers changes the answer, not the question.            *)
LEMMA RespondKeeps ==
  ASSUME TypeOK, NEW r \in Requests, req[r].status = "waiting",
         NEW status, NEW body, Respond(r, status, body)
  PROVE  /\ req[r] \in Asked
         /\ req'[r].status = status /\ req'[r].body = body
         /\ req'[r].route = req[r].route /\ req'[r].user = req[r].user
         /\ req'[r].target = req[r].target /\ req'[r].known = req[r].known
<1>1. req[r] \in Asked
  BY RequestType DEF TypeOK
<1> QED BY <1>1 DEF Respond, TypeOK, Asked

(* What the asker may see is what the query looks at.                      *)
LEMMA OwnerSees ==
  ASSUME NEW route \in Routes, NEW user \in Customers, NEW row \in Rows,
         Allowed(route, user), user \in Admins \/ row.customer = user
  PROVE  Visible(row, OwnerOf(route, user))
BY DEF Allowed, OwnerOf, Visible, Routes, OrderRoutes, ListRoutes

LEMMA AskedStep ==
  ASSUME Inv, [Next]_vars, NEW q \in Requests, AskedAt(q)
  PROVE  AskedAt(q)'
<1>0. TypeOK /\ Stored \subseteq Stored'
  BY StoredGrows DEF Inv
<1>1. CASE req'[q] = req[q]
  BY <1>0, <1>1 DEF AskedAt
<1>2. CASE req'[q] = Free
  BY <1>2 DEF AskedAt
<1>3. CASE Serve(q)
  <2>1. ASSUME NEW user \in Customers, NEW route \in OrderRoutes, NEW uid \in Uids,
               ServeHit(q, route, user, uid)
        PROVE  AskedAt(q)'
    <3>1. req'[q].known = Stored /\ req'[q].target = {uid}
      BY <1>0, <2>1 DEF ServeHit, Request, TypeOK
    <3> QED BY <1>0, <3>1 DEF AskedAt
  <2>2. ASSUME NEW user \in Customers, NEW route \in Routes, NEW target \in SUBSET Uids,
               Query(q, route, user, target),
               route \in OrderRoutes => \E uid \in Uids : target = {uid}
        PROVE  AskedAt(q)'
    <3>1. req'[q].known = Stored /\ req'[q].target = target /\ req'[q].route = route
      BY <1>0, <2>2 DEF Query, Request, TypeOK
    <3> QED BY <1>0, <2>2, <3>1 DEF AskedAt
  <2>3. ASSUME NEW status, NEW body, Respond(q, status, body), req[q].status = "waiting"
        PROVE  AskedAt(q)'
    <3>1. /\ req'[q].known = req[q].known /\ req'[q].target = req[q].target
          /\ req'[q].route = req[q].route /\ req[q] # Free
      BY <1>0, <2>3, RespondKeeps DEF Free
    <3> QED BY <1>0, <3>1 DEF AskedAt
  <2>4. CASE Finished(q)
    BY <1>0, <1>2, <2>4 DEF Finished, TypeOK
  <2>5. ASSUME NEW user \in Customers, NEW route \in OrderRoutes, NEW uid \in Uids,
               ServeMiss(q, route, user, uid)
        PROVE  AskedAt(q)'
    <3>1. {uid} \in SUBSET Uids /\ route \in Routes
      BY DEF Routes
    <3> QED BY <2>2, <2>5, <3>1 DEF ServeMiss
  <2>6. ASSUME NEW user \in Customers, NEW route \in ListRoutes, ServeList(q, route, user)
        PROVE  AskedAt(q)'
    <3>1. Uids \in SUBSET Uids /\ route \in Routes /\ route \notin OrderRoutes
      BY DEF Routes, OrderRoutes, ListRoutes
    <3> QED BY <2>2, <2>6, <3>1 DEF ServeList
  <2> QED BY <1>3, <2>1, <2>3, <2>4, <2>5, <2>6
       DEF Serve, RespondFound, RespondAbsent, RespondList, RespondError, Answered
<1> QED BY <1>0, <1>1, <1>2, <1>3, RequestChange

LEMMA FoundStep ==
  ASSUME Inv, Inv', [Next]_vars, NEW q \in Requests, AskedAt(q), FoundAt(q)
  PROVE  FoundAt(q)'
<1> SUFFICES ASSUME req'[q] # Free, req'[q].status = "waiting", call'[q].status = "ok",
                    NEW uid \in req'[q].target \cap req'[q].known,
                    Visible(rows'[uid], call'[q].owner)
             PROVE  rows'[uid] \in call'[q].found
  BY DEF FoundAt
<1>0. /\ TypeOK /\ StoreTypeOK /\ q \in Clients
      /\ Stored \subseteq Stored' /\ \A u \in Stored : rows'[u] = rows[u]
  BY StoredGrows, ClientsAssumption DEF Inv, TypeOK, StoreTypeOK
<1>1. call'[q].op = "select"
  BY DEF Inv, WaitersMatchCalls
<1>2. CASE req'[q] = req[q]
  <2>1. uid \in Stored /\ rows'[uid] = rows[uid]
    BY <1>0, <1>2 DEF AskedAt
  <2>2. CASE call'[q] = call[q]
    BY <1>2, <2>1, <2>2 DEF FoundAt
  <2>3. CASE Insert(q)
    <3>1. call[q].op = "add"
      BY <2>3 DEF Insert, Commit, Pending
    <3>2. call'[q].op = "add"
      BY <1>0, <2>3, <3>1, StoreStepKeepsQuestions
    <3> QED BY <1>1, <3>2
  <2>4. CASE Select(q)
    <3>1. /\ call[q].op = "select" /\ call[q] \in Calls
          /\ call' = [call EXCEPT ![q] = [call[q] EXCEPT !.status = "ok",
                            !.found = Found(call[q].target, call[q].owner)]]
      BY <1>0, <2>4 DEF Select, Pending, StoreTypeOK
    <3>2. call'[q].target = call[q].target /\ call'[q].owner = call[q].owner
      BY <1>0, <2>4, <3>1, StoreStepKeepsQuestions
    <3>3. call'[q].found = Found(call[q].target, call[q].owner)
      BY <1>0, <3>1 DEF StoreTypeOK, Calls, Idle
    <3>4. call[q].target = req[q].target
      BY <1>2 DEF Inv, WaitersMatchCalls
    <3>5. rows[uid] \in Found(call[q].target, call[q].owner)
      BY <1>2, <2>1, <3>2, <3>4 DEF Found
    <3> QED BY <2>1, <3>3, <3>5
  <2> QED BY <1>0, <1>1, <2>2, <2>3, <2>4, OutcomeStep
<1>3. CASE Serve(q)
  <2>1. ASSUME NEW user, NEW route, NEW u, ServeHit(q, route, user, u) PROVE FALSE
    <3>1. req'[q].status \in {"200", "404"}
      BY <1>0, <2>1 DEF ServeHit, Request, TypeOK
    <3> QED BY <3>1
  <2>2. ASSUME NEW user, NEW route, NEW target, Query(q, route, user, target) PROVE FALSE
    <3>1. call'[q].status = "pending"
      BY <1>0, <2>2 DEF Query, InvokeSelect, SelectCall, TypeOK
    <3> QED BY <3>1
  <2>3. ASSUME NEW status, NEW body, Respond(q, status, body), req[q].status = "waiting",
               status # "waiting"
        PROVE  FALSE
    BY <1>0, <2>3, RespondKeeps
  <2>4. CASE Finished(q)
    BY <1>0, <2>4 DEF Finished, TypeOK
  <2> QED BY <1>3, <2>1, <2>2, <2>3, <2>4
       DEF Serve, ServeMiss, ServeList, RespondFound, RespondAbsent, RespondList,
           RespondError, Answered
<1> QED BY <1>0, <1>2, <1>3, RequestChange

LEMMA CompleteStep ==
  ASSUME Inv, [Next]_vars, NEW q \in Requests, AskedAt(q), FoundAt(q), CompleteAt(q)
  PROVE  CompleteAt(q)'
<1>0. /\ TypeOK /\ q \in Clients
      /\ Stored \subseteq Stored' /\ \A u \in Stored : rows'[u] = rows[u]
      /\ \A u \in Stored : u \in Uids /\ rows[u] \in Rows /\ rows[u].uid = u
  BY StoredGrows, ClientsAssumption DEF Inv, TypeOK, RowsUnderUid, Stored
<1>1. CASE req'[q] = req[q]
  <2>1. req[q] # Free => \A u \in req[q].known : rows'[u] = rows[u]
    BY <1>0 DEF AskedAt
  <2> QED BY <1>1, <2>1 DEF CompleteAt, Complete
<1>2. CASE req'[q] = Free
  BY <1>2 DEF CompleteAt
<1>3. ASSUME NEW user \in Customers, NEW route \in OrderRoutes, NEW uid \in Uids,
             ServeHit(q, route, user, uid)
      PROVE  CompleteAt(q)'
  <2>1. PICK i \in DOMAIN lru :
          /\ lru[i].uid = uid /\ Allowed(route, user)
          /\ req' = [req EXCEPT ![q] =
               IF ShownFromCache(route, user, lru[i])
               THEN Request(route, user, {uid}, Stored, "200", {lru[i]})
               ELSE Request(route, user, {uid}, Stored, "404", {})]
    BY <1>3 DEF ServeHit
  <2>2. /\ req'[q].target = {uid} /\ req'[q].user = user /\ req'[q].route = route
        /\ req'[q].known = Stored
        /\ ShownFromCache(route, user, lru[i]) => req'[q].body = {lru[i]}
    BY <1>0, <2>1 DEF Request, TypeOK
  <2>3. CASE ShownFromCache(route, user, lru[i])
    BY <2>1, <2>2, <2>3 DEF CompleteAt, Complete
  <2>4. CASE ~ShownFromCache(route, user, lru[i]) /\ user \in Admins
    BY <2>1, <2>2, <2>4 DEF CompleteAt, ShownFromCache, Allowed, OrderRoutes
  <2>5. CASE ~ShownFromCache(route, user, lru[i]) /\ user \notin Admins
    <3>1. lru[i].customer = rows[uid].customer /\ uid \in Stored
      <4>1. rows[uid] # NoOrder /\ (lru[i] = rows[uid] \/ RowOf(lru[i]) = rows[uid])
        BY <2>1 DEF Inv, CacheMatchesRows, Represents
      <4>2. lru[i] \in Entries
        BY <1>0, <2>1, ElementOfSeq, LenProperties DEF TypeOK
      <4>3. RowOf(lru[i]).customer = lru[i].customer
        BY <4>2, RowFields, OrdersAssumption DEF Entries, Rows, RowOf
      <4> QED BY <4>1, <4>3 DEF Stored
    <3>2. rows'[uid].customer # user
      BY <1>0, <2>5, <3>1 DEF ShownFromCache
    <3> QED BY <2>2, <2>5, <3>2 DEF CompleteAt, Complete
  <2> QED BY <2>3, <2>4, <2>5
<1>4. ASSUME NEW user, NEW route, NEW target, Query(q, route, user, target)
      PROVE  CompleteAt(q)'
  <2>1. req'[q].status = "waiting"
    BY <1>0, <1>4 DEF Query, Request, TypeOK
  <2> QED BY <2>1 DEF CompleteAt, Complete
<1>5. ASSUME NEW status, NEW body, Respond(q, status, body), Answered(q, "ok"),
             \A row \in call[q].found : \E o \in body : o.uid = row.uid
      PROVE  CompleteAt(q)'
  <2>1. /\ req[q] \in Asked /\ req'[q].body = body
        /\ req'[q].user = req[q].user /\ req'[q].target = req[q].target
        /\ req'[q].known = req[q].known
    BY <1>0, <1>5, RespondKeeps DEF Answered
  <2>2. /\ call[q].owner = OwnerOf(req[q].route, req[q].user)
        /\ Allowed(req[q].route, req[q].user) /\ req[q] # Free
        /\ req[q].route \in Routes /\ req[q].user \in Customers
    BY <1>5, <2>1 DEF Answered, Inv, WaitersMatchCalls, Asked, Free
  <2>3. ASSUME NEW uid \in req[q].target \cap req[q].known,
               req[q].user \in Admins \/ rows'[uid].customer = req[q].user
        PROVE  \E o \in body : o.uid = uid
    <3>1. uid \in Stored /\ rows'[uid] = rows[uid] /\ rows[uid] \in Rows /\ rows[uid].uid = uid
      BY <1>0, <2>2 DEF AskedAt
    <3>2. Visible(rows[uid], call[q].owner)
      BY <2>2, <2>3, <3>1, OwnerSees
    <3>3. rows[uid] \in call[q].found
      BY <1>5, <2>2, <2>3, <3>2 DEF FoundAt, Answered
    <3> QED BY <1>5, <3>1, <3>3
  <2> QED BY <2>1, <2>3 DEF CompleteAt, Complete
<1>6. CASE RespondFound(q)
  <2>1. PICK o \in call[q].found : Respond(q, "200", {o})
    BY <1>6 DEF RespondFound
  <2>2. Answered(q, "ok") /\ req[q].route \in OrderRoutes
    BY <1>6 DEF RespondFound
  <2>3. \A row \in call[q].found : row.uid \in req[q].target
    BY <1>0, <2>2, FoundMatches DEF Inv
  <2>4. PICK uid \in Uids : req[q].target = {uid}
    BY <1>0, <2>2 DEF AskedAt, Answered, Free
  <2>5. \A row \in call[q].found : row.uid = o.uid
    BY <2>3, <2>4
  <2> QED BY <1>5, <2>1, <2>2, <2>5
<1>7. CASE RespondAbsent(q) \/ RespondList(q)
  BY <1>5, <1>7 DEF RespondAbsent, RespondList
<1>8. CASE RespondError(q)
  <2>1. req'[q].status = "500"
    BY <1>0, <1>8, RespondKeeps DEF RespondError, Answered
  <2> QED BY <2>1 DEF CompleteAt, Complete
<1>9. CASE Finished(q)
  BY <1>0, <1>2, <1>9 DEF Finished, TypeOK
<1> QED BY <1>0, <1>1, <1>2, <1>3, <1>4, <1>6, <1>7, <1>8, <1>9, RequestChange
     DEF Serve, ServeMiss, ServeList

LEMMA AnswersInit == Init => AnswersInv
BY InvInit DEF Init, AnswersInv, AskedAt, FoundAt, CompleteAt

LEMMA AnswersNext == AnswersInv /\ Inv' /\ [Next]_vars => AnswersInv'
BY AskedStep, FoundStep, CompleteStep DEF AnswersInv

(* A 200 or 404 leaves out no order that the asker may see and that was    *)
(* stored when the handler first looked, an administrator's page apart.    *)
THEOREM AnswersComplete == Spec => []AnswerComplete
<1>1. AnswersInv => AnswerComplete
  BY DEF AnswersInv, CompleteAt, AnswerComplete
<1> QED BY <1>1, AnswersInit, AnswersNext, Invariance, PTL DEF Spec

-----------------------------------------------------------------------------
(* Steps of the store, from wherever they come.                            *)

StoreMoves(c) ==
  Insert(c) \/ InsertUnreported(c) \/ Refuse(c) \/ Select(c) \/ Fail(c)

(* The store moves on its own: with a fault counted, with none, or under a *)
(* consumer that is being stopped.                                         *)
LEMMA StoreMoveStep ==
  ASSUME NEW c \in Clients, StoreStep(c) \/ Fault(c)
  PROVE  /\ StoreMoves(c)
         /\ UNCHANGED <<processVars, consumerVars, topic, lru, req>>
         /\ StoreStep(c) => UNCHANGED faults
BY DEF StoreStep, Fault, StoreMoves

LEMMA CancelledStep ==
  ASSUME Cancelled
  PROVE  /\ StoreMoves(Consumer) /\ phase = "stopping" /\ Consumer \in Clients
         /\ UNCHANGED <<processVars, consumerVars, topic, lru, req, faults>>
BY ClientsAssumption DEF Cancelled, StoreMoves

(* A handler leaves the consumer alone, and adds nothing.                  *)
LEMMA ServeStep ==
  ASSUME TypeOK, NEW r \in Requests, Serve(r)
  PROVE  /\ UNCHANGED <<rows, topic, faults, processVars, consumerVars>>
         /\ \A c \in Clients \ {r} : call'[c] = call[c]
         /\ call'[r] = call[r] \/ call'[r].op # "add"
<1> USE DEF processVars, consumerVars, storeVars
<1>1. r \in Clients
  BY ClientsAssumption
<1>2. ASSUME NEW target, NEW owner, InvokeSelect(r, target, owner)
      PROVE  /\ UNCHANGED rows /\ call'[r].op # "add"
             /\ \A c \in Clients \ {r} : call'[c] = call[c]
  BY <1>1, <1>2 DEF InvokeSelect, SelectCall, TypeOK
<1>3. ASSUME Return(r)
      PROVE  /\ UNCHANGED rows /\ call'[r].op # "add"
             /\ \A c \in Clients \ {r} : call'[c] = call[c]
  BY <1>1, <1>3 DEF Return, Idle, TypeOK
<1>4. ASSUME NEW user, NEW route, NEW target, Query(r, route, user, target)
      PROVE  /\ UNCHANGED <<rows, topic, faults, processVars, consumerVars>>
             /\ \A c \in Clients \ {r} : call'[c] = call[c]
             /\ call'[r].op # "add"
  BY <1>2, <1>4 DEF Query
<1>5. CASE RespondFound(r) \/ RespondAbsent(r) \/ RespondList(r) \/ RespondError(r)
  <2>1. Return(r) /\ UNCHANGED <<topic, faults, processVars, consumerVars>>
    BY <1>5 DEF RespondFound, RespondAbsent, RespondList, RespondError, Respond
  <2> QED BY <1>3, <2>1
<1>6. CASE UNCHANGED <<storeVars, topic, faults, processVars, consumerVars>>
  BY <1>6
<1>7. CASE Finished(r) \/ \E user, route, uid : ServeHit(r, route, user, uid)
  BY <1>6, <1>7 DEF Finished, ServeHit
<1> QED BY <1>4, <1>5, <1>7 DEF Serve, ServeMiss, ServeList

(* The consumer's own steps, and what they do to its call.                 *)
LEMMA ConsumeStep ==
  ASSUME TypeOK, Consume \/ StopConsuming
  PROVE  /\ UNCHANGED <<rows, topic, faults, processVars>>
         /\ \A r \in Requests : call'[r] = call[r]
         /\ \/ UNCHANGED <<call, processed>>
            \/ /\ Receive /\ call'[Consumer] = AddCall(Message, "pending")
               /\ UNCHANGED processed
            \/ AddOk /\ call'[Consumer] = Idle
            \/ AddFailed /\ call'[Consumer] = Idle /\ UNCHANGED processed
<1> USE DEF processVars, consumerVars, storeVars
<1>1. Consumer \in Clients /\ \A r \in Requests : r \in Clients /\ r # Consumer
  BY ClientsAssumption
<1>2. CASE Receive
  BY <1>1, <1>2 DEF Receive, InvokeAdd, TypeOK
<1>3. CASE AddOk
  BY <1>1, <1>3 DEF AddOk, Return, TypeOK
<1>4. CASE AddFailed
  BY <1>1, <1>4 DEF AddFailed, Return, TypeOK
<1>5. CASE Skip \/ StopConsuming
  BY <1>5 DEF Skip, StopConsuming
<1> QED BY <1>2, <1>3, <1>4, <1>5 DEF Consume

-----------------------------------------------------------------------------
(* Orders are counted once.                                                *)

LEMMA AddersStep ==
  ASSUME TypeOK, OnlyConsumerAdds, [Next]_vars
  PROVE  OnlyConsumerAdds'
<1> SUFFICES ASSUME NEW r \in Requests PROVE call'[r].op # "add"
  BY DEF OnlyConsumerAdds
<1>1. r \in Clients /\ r # Consumer /\ call[r].op # "add" /\ StoreTypeOK
  BY ClientsAssumption DEF OnlyConsumerAdds, TypeOK, StoreTypeOK
<1>2. ASSUME NEW c \in Clients, StoreMoves(c) PROVE call'[r].op # "add"
  BY <1>1, <1>2, StoreStepKeepsQuestions DEF StoreMoves
<1>3. ASSUME NEW q \in Requests, Serve(q) PROVE call'[r].op # "add"
  BY <1>1, <1>3, ServeStep
<1>4. CASE Consume \/ StopConsuming
  BY <1>1, <1>4, ConsumeStep
<1>5. CASE Exit \/ Crash
  BY <1>1, <1>5 DEF Exit, Crash, End, Abandon, Idle
<1>6. ASSUME NEW m \in Orders \cup {Bad}, Produce(m) PROVE UNCHANGED call
  BY <1>6 DEF Produce, storeVars
<1>7. CASE Signal \/ Shutdown \/ Boot \/ UNCHANGED vars
  BY <1>1, <1>7 DEF Signal, Shutdown, Boot, vars, storeVars
<1> QED BY <1>1, <1>2, <1>3, <1>4, <1>5, <1>6, <1>7, StoreMoveStep, CancelledStep DEF Next

LEMMA DownStep ==
  ASSUME Inv, DownIsEmpty, [Next]_vars
  PROVE  DownIsEmpty'
<1> SUFFICES ASSUME phase' = "down" PROVE processed' = 0 /\ call'[Consumer] = Idle
  BY DEF DownIsEmpty
<1> USE DEF processVars, consumerVars, storeVars
<1>0. TypeOK /\ StoreTypeOK /\ Consumer \in Clients
  BY ClientsAssumption DEF Inv, TypeOK, StoreTypeOK
<1>1. CASE Exit \/ Crash
  BY <1>0, <1>1 DEF Exit, Crash, End, Abandon
<1>2. CASE phase = "down"
  <2>1. processed = 0 /\ call[Consumer] = Idle /\ call[Consumer].op = "idle"
    BY <1>2 DEF DownIsEmpty, Idle
  <2>2. consumer # "adding"
    BY <2>1 DEF Inv, WaitersMatchCalls
  <2>3. ASSUME NEW c \in Clients, StoreMoves(c), UNCHANGED processed
        PROVE  processed' = 0 /\ call'[Consumer] = Idle
    <3>1. c # Consumer
      BY <2>1, <2>3 DEF StoreMoves, Insert, InsertUnreported, Commit, Refuse, Select, Fail, Pending
    <3> QED BY <1>0, <2>1, <2>3, <3>1
         DEF StoreMoves, Insert, InsertUnreported, Commit, Refuse, Select, Fail, Finish, StoreTypeOK
  <2>4. ASSUME NEW r \in Requests, Serve(r) PROVE processed' = 0 /\ call'[Consumer] = Idle
    BY <1>0, <2>1, <2>4, ServeStep, ClientsAssumption
  <2>5. CASE Consume \/ StopConsuming
    BY <1>2, <2>1, <2>2, <2>5
       DEF Consume, StopConsuming, Receive, Skip, AddOk, AddFailed
  <2>6. ASSUME NEW m \in Orders \cup {Bad}, Produce(m)
        PROVE  UNCHANGED <<processed, call>>
    BY <2>6 DEF Produce
  <2>7. CASE Signal \/ Shutdown \/ Boot \/ UNCHANGED vars
    BY <2>1, <2>7 DEF Signal, Shutdown, Boot, vars
  <2> QED BY <1>0, <1>1, <2>1, <2>3, <2>4, <2>5, <2>6, <2>7, StoreMoveStep, CancelledStep DEF Next
<1>3. CASE phase # "down" /\ ~(Exit \/ Crash)
  <2>1. UNCHANGED phase => FALSE
    BY <1>3
  <2>2. ASSUME NEW r \in Requests, Serve(r) PROVE UNCHANGED phase
    BY <1>0, <2>2, ServeStep
  <2>3. CASE Consume \/ StopConsuming
    BY <1>0, <2>1, <2>3, ConsumeStep
  <2>4. ASSUME NEW m \in Orders \cup {Bad}, Produce(m) PROVE UNCHANGED phase
    BY <2>4 DEF Produce
  <2>5. CASE Signal \/ Shutdown \/ Boot \/ UNCHANGED vars
    BY <1>3, <2>5 DEF Signal, Shutdown, Boot, vars
  <2> QED BY <1>3, <2>1, <2>2, <2>3, <2>4, <2>5, StoreMoveStep, CancelledStep DEF Next
<1> QED BY <1>1, <1>2, <1>3

LEMMA CommitStored ==
  ASSUME StoreTypeOK, NEW c \in Clients, NEW status, Commit(c, status)
  PROVE  \E uid \in Uids : uid \notin Stored /\ Stored' = Stored \cup {uid}
<1>1. call[c] \in Calls /\ call[c].op = "add"
  BY DEF StoreTypeOK, Commit, Pending
<1>2. call[c].order \in Orders
  BY <1>1, AddCallFields
<1> DEFINE uid == call[c].order.uid
<1>3. uid \in Uids /\ RowOf(call[c].order) # NoOrder
  BY <1>2, RowFields, RowIsNotNoOrder
<1>4. rows[uid] = NoOrder /\ rows' = [rows EXCEPT ![uid] = RowOf(call[c].order)]
  BY DEF Commit, Insertable
<1>5. uid \notin Stored
  BY <1>4 DEF Stored
<1> HIDE DEF uid
<1>6. \A u \in Uids : rows'[u] # NoOrder <=> rows[u] # NoOrder \/ u = uid
  BY <1>3, <1>4 DEF StoreTypeOK
<1>7. Stored' = Stored \cup {uid}
  BY <1>3, <1>6 DEF Stored
<1> QED BY <1>3, <1>5, <1>7

LEMMA UncountedStep ==
  ASSUME Inv, OnlyConsumerAdds, NEW c \in Clients, StoreMoves(c)
  PROVE  \/ Insert(Consumer) /\ c = Consumer /\ Uncounted = 0
         \/ Uncounted' = 0 \/ Uncounted' = Uncounted
<1>0. StoreTypeOK /\ Consumer \in Clients
  BY ClientsAssumption DEF Inv, TypeOK, StoreTypeOK
<1>1. CASE call'[Consumer].op = "add" /\ call'[Consumer].status = "ok"
  <2>1. call'[Consumer] = call[Consumer] \/ (Consumer = c /\ (Insert(c) \/ Select(c)))
    BY <1>0, <1>1, StoreStepOutcome DEF StoreMoves
  <2>2. CASE call'[Consumer] = call[Consumer]
    BY <2>2 DEF Uncounted
  <2>3. CASE c = Consumer /\ Insert(c)
    BY <2>3 DEF Insert, Commit, Pending, Uncounted
  <2>4. CASE c = Consumer /\ Select(c)
    <3>1. call[Consumer].op = "select"
      BY <2>4 DEF Select, Pending
    <3>2. call'[Consumer].op = "select"
      BY <1>0, <2>4, <3>1, StoreStepKeepsQuestions
    <3> QED BY <1>1, <3>2
  <2> QED BY <2>1, <2>2, <2>3, <2>4
<1>2. CASE ~(call'[Consumer].op = "add" /\ call'[Consumer].status = "ok")
  BY <1>2 DEF Uncounted
<1> QED BY <1>1, <1>2

(* The count, the order under way, and the new rows before and after.      *)
LEMMA KeepsUp ==
  ASSUME NEW p \in Nat, NEW u \in {0, 1}, NEW n \in Nat, p + u <= n,
         NEW p2 \in Nat, NEW u2 \in {0, 1}, NEW n2 \in Nat
  PROVE  /\ p2 + u2 <= p + u /\ n2 = n => p2 + u2 <= n2
         /\ p2 = p /\ n2 = n + 1 => p2 + u2 <= n2
         /\ p2 = p /\ n2 = n /\ (u2 = 0 \/ u2 = u) => p2 + u2 <= n2
OBVIOUS

LEMMA CountStep ==
  ASSUME CountInv, [Next]_vars
  PROVE  /\ IsFiniteSet(Stored)' /\ (atBoot \subseteq Stored)'
         /\ (processed + Uncounted <= Cardinality(Stored \ atBoot))'
<1> USE DEF processVars, consumerVars, storeVars
<1> DEFINE New == Stored \ atBoot
<1>0. /\ TypeOK /\ StoreTypeOK /\ Consumer \in Clients
      /\ IsFiniteSet(Stored) /\ atBoot \subseteq Stored /\ processed \in Nat
      /\ Uncounted \in {0, 1} /\ processed + Uncounted <= Cardinality(New)
      /\ IsFiniteSet(New) /\ Cardinality(New) \in Nat
  <2>1. IsFiniteSet(New)
    BY FS_Difference DEF CountInv
  <2>2. Cardinality(New) \in Nat
    BY <2>1, FS_CardinalityType
  <2>3. Uncounted \in {0, 1}
    BY DEF Uncounted
  <2> HIDE DEF New
  <2>4. processed + Uncounted <= Cardinality(New)
    BY DEF CountInv, New
  <2> QED BY <2>1, <2>2, <2>3, <2>4, ClientsAssumption DEF CountInv, Inv, TypeOK, StoreTypeOK
<1>1. ASSUME rows' = rows, atBoot' = atBoot, processed' \in Nat,
             processed' + Uncounted' <= processed + Uncounted
      PROVE  /\ IsFiniteSet(Stored') /\ atBoot' \subseteq Stored'
             /\ processed' + Uncounted' <= Cardinality(Stored' \ atBoot')
  <2>1. Stored' = Stored /\ Uncounted' \in {0, 1}
    BY <1>1 DEF Stored, Uncounted
  <2>2. Stored' \ atBoot' = New
    BY <1>1, <2>1
  <2>3. Cardinality(Stored' \ atBoot') = Cardinality(New)
    BY <2>2
  <2>4. IsFiniteSet(Stored') /\ atBoot' \subseteq Stored'
    BY <1>0, <1>1, <2>1
  <2> HIDE DEF New
  <2>5. processed' + Uncounted' <= Cardinality(Stored' \ atBoot')
    BY <1>0, <1>1, <2>1, <2>3, KeepsUp
  <2> QED BY <2>4, <2>5
<1>2. ASSUME NEW c \in Clients, StoreMoves(c), UNCHANGED <<atBoot, processed>>
      PROVE  /\ IsFiniteSet(Stored') /\ atBoot' \subseteq Stored'
             /\ processed' + Uncounted' <= Cardinality(Stored' \ atBoot')
  <2>0. Uncounted' \in {0, 1}
    BY DEF Uncounted
  <2>1. \/ Insert(Consumer) /\ c = Consumer /\ Uncounted = 0
        \/ Uncounted' = 0 \/ Uncounted' = Uncounted
    BY <1>2, UncountedStep DEF CountInv
  <2>2. CASE Refuse(c) \/ Select(c) \/ Fail(c)
    <3>1. rows' = rows
      BY <2>2 DEF Refuse, Select, Fail
    <3>2. Uncounted' = 0 \/ Uncounted' = Uncounted
      <4>1. Insert(Consumer) => rows' # rows
        <5>1. Insert(Consumer) => \E uid : uid \notin Stored /\ Stored' = Stored \cup {uid}
          BY <1>0, CommitStored DEF Insert
        <5> QED BY <5>1 DEF Stored
      <4> QED BY <2>1, <3>1, <4>1
    <3>3. Stored' = Stored /\ Stored' \ atBoot' = New
      BY <1>2, <3>1 DEF Stored
    <3>4. Cardinality(Stored' \ atBoot') = Cardinality(New)
      BY <3>3
    <3>5. IsFiniteSet(Stored') /\ atBoot' \subseteq Stored'
      BY <1>0, <1>2, <3>3
    <3> HIDE DEF New
    <3>6. processed' + Uncounted' <= Cardinality(Stored' \ atBoot')
      BY <1>0, <1>2, <2>0, <3>2, <3>4, KeepsUp
    <3> QED BY <3>5, <3>6
  <2>3. CASE Insert(c) \/ InsertUnreported(c)
    <3>1. PICK uid \in Uids : uid \notin Stored /\ Stored' = Stored \cup {uid}
      BY <1>0, <2>3, CommitStored DEF Insert, InsertUnreported
    <3>2. IsFiniteSet(Stored') /\ atBoot' \subseteq Stored'
      BY <1>0, <1>2, <3>1, FS_AddElement
    <3>3. Stored' \ atBoot' = New \cup {uid} /\ uid \notin New
      BY <1>0, <1>2, <3>1
    <3> HIDE DEF New
    <3>4. Cardinality(Stored' \ atBoot') = Cardinality(New) + 1
      BY <1>0, <3>3, FS_AddElement
    <3>5. processed' + Uncounted' <= Cardinality(Stored' \ atBoot')
      BY <1>0, <1>2, <2>0, <3>4, KeepsUp
    <3> QED BY <3>2, <3>5
  <2> QED BY <1>2, <2>2, <2>3 DEF StoreMoves
<1>3. ASSUME NEW r \in Requests, Serve(r)
      PROVE  rows' = rows /\ atBoot' = atBoot /\ processed' = processed /\ Uncounted' = Uncounted
  BY <1>0, <1>3, ServeStep, ClientsAssumption DEF Uncounted
<1>4. CASE Consume \/ StopConsuming
  <2>1. /\ UNCHANGED <<rows, atBoot>>
        /\ \/ UNCHANGED <<call, processed>>
           \/ /\ Receive /\ call'[Consumer] = AddCall(Message, "pending")
              /\ UNCHANGED processed
           \/ AddOk /\ call'[Consumer] = Idle
           \/ AddFailed /\ call'[Consumer] = Idle /\ UNCHANGED processed
    BY <1>0, <1>4, ConsumeStep
  <2>2. CASE UNCHANGED <<call, processed>>
    BY <1>0, <1>1, <2>1, <2>2 DEF Uncounted
  <2>3. CASE UNCHANGED processed /\ (call'[Consumer] = AddCall(Message, "pending") \/ call'[Consumer] = Idle)
    <3>1. Uncounted' = 0
      BY <2>3 DEF Uncounted, AddCall, Idle
    <3> QED BY <1>0, <1>1, <2>1, <2>3, <3>1
  <2>4. CASE AddOk /\ call'[Consumer] = Idle
    <3>1. Uncounted' = 0
      BY <2>4 DEF Uncounted, Idle
    <3>2. Uncounted = 1 /\ processed' = processed + 1
      BY <2>4 DEF AddOk, Uncounted, CountInv, Inv, WaitersMatchCalls
    <3> QED BY <1>0, <1>1, <2>1, <3>1, <3>2
  <2> QED BY <2>1, <2>2, <2>3, <2>4
<1>5. ASSUME rows' = rows, processed' = 0, Uncounted' = 0, atBoot' \in {atBoot, Stored}
      PROVE  /\ IsFiniteSet(Stored') /\ atBoot' \subseteq Stored'
             /\ processed' + Uncounted' <= Cardinality(Stored' \ atBoot')
  <2>1. Stored' = Stored
    BY <1>5 DEF Stored
  <2>2. IsFiniteSet(Stored' \ atBoot')
    BY <1>0, <2>1, FS_Difference
  <2>3. Cardinality(Stored' \ atBoot') \in Nat
    BY <2>2, FS_CardinalityType
  <2> QED BY <1>0, <1>5, <2>1, <2>3
<1>6. CASE Exit \/ Crash
  <2>1. rows' = rows /\ processed' = 0 /\ atBoot' = atBoot /\ call'[Consumer] = Idle
    BY <1>0, <1>6 DEF Exit, Crash, End, Abandon
  <2>2. Uncounted' = 0
    BY <2>1 DEF Uncounted, Idle
  <2> QED BY <1>5, <2>1, <2>2
<1>7. CASE Boot
  <2>1. /\ rows' = rows /\ call' = call /\ atBoot' = Stored /\ processed' = processed
        /\ processed = 0 /\ call[Consumer] = Idle
    BY <1>7 DEF Boot, CountInv, DownIsEmpty
  <2>2. Uncounted' = 0
    BY <2>1 DEF Uncounted, Idle
  <2> QED BY <1>5, <2>1, <2>2
<1>8. CASE UNCHANGED <<rows, atBoot, processed, call>>
  BY <1>0, <1>1, <1>8 DEF Uncounted
<1>9. ASSUME NEW m \in Orders \cup {Bad}, Produce(m)
      PROVE  UNCHANGED <<rows, atBoot, processed, call>>
  BY <1>9 DEF Produce
<1>10. CASE Signal \/ Shutdown \/ UNCHANGED vars
  BY <1>8, <1>10 DEF Signal, Shutdown, vars
<1>11. ASSUME NEW c \in Clients, StoreStep(c) \/ Fault(c)
       PROVE  StoreMoves(c) /\ UNCHANGED <<atBoot, processed>>
  BY <1>11, StoreMoveStep
<1>12. CASE Cancelled
  BY <1>2, <1>12, CancelledStep
<1> QED BY <1>0, <1>1, <1>2, <1>3, <1>4, <1>6, <1>7, <1>8, <1>9, <1>10, <1>11, <1>12 DEF Next

LEMMA CountInit == Init => CountInv
<1> SUFFICES ASSUME Init PROVE CountInv
  OBVIOUS
<1>1. Stored = {} /\ \A c \in Clients : call[c] = Idle
  BY DEF Init, StoreInit, Stored
<1>2. call[Consumer] = Idle /\ OnlyConsumerAdds
  BY <1>1, ClientsAssumption DEF OnlyConsumerAdds, Idle
<1>3. DownIsEmpty /\ processed = 0 /\ atBoot = {} /\ Uncounted = 0
  BY <1>2 DEF Init, DownIsEmpty, Uncounted, Idle
<1>4. IsFiniteSet(Stored) /\ Cardinality(Stored \ atBoot) = 0
  BY <1>1, <1>3, FS_EmptySet
<1> QED BY <1>1, <1>2, <1>3, <1>4, InvInit DEF CountInv

LEMMA CountNext == CountInv /\ Inv' /\ [Next]_vars => CountInv'
<1> SUFFICES ASSUME CountInv, Inv', [Next]_vars PROVE CountInv'
  OBVIOUS
<1>1. OnlyConsumerAdds' /\ DownIsEmpty'
  BY AddersStep, DownStep DEF CountInv, Inv
<1> QED BY <1>1, CountStep DEF CountInv

(* However often an order is delivered, retried and redelivered after a    *)
(* restart, OrdersProcessed counts no more than was stored since the start.*)
THEOREM CountedOnce == Spec => []ProcessedOnce
<1>1. CountInv => ProcessedOnce
  <2> SUFFICES ASSUME CountInv PROVE ProcessedOnce
    OBVIOUS
  <2>1. IsFiniteSet(Stored \ atBoot)
    BY FS_Difference DEF CountInv
  <2>2. Cardinality(Stored \ atBoot) \in Nat /\ processed \in Nat /\ Uncounted \in {0, 1}
    BY <2>1, FS_CardinalityType DEF CountInv, Inv, TypeOK, Uncounted
  <2>3. processed + Uncounted <= Cardinality(Stored \ atBoot)
    BY DEF CountInv
  <2> QED BY <2>2, <2>3 DEF ProcessedOnce
<1> QED BY <1>1, CountInit, CountNext, Invariance, PTL DEF Spec

-----------------------------------------------------------------------------
(* The first message of a uid is stored, and none is passed over.          *)

(* The topic only grows, so what stands at a position stays.               *)
LEMMA TopicGrows ==
  ASSUME TypeOK, [Next]_vars
  PROVE  /\ Len(topic) \in Nat /\ Len(topic') \in Nat /\ Len(topic) <= Len(topic')
         /\ \A i \in 1..Len(topic) : topic'[i] = topic[i]
         /\ \A n \in 0..Len(topic) : Storables(n)' = Storables(n)
<1>0. topic \in Seq(Orders \cup {Bad})
  BY DEF TypeOK
<1>1. topic' = topic \/ \E m \in Orders \cup {Bad} : topic' = Append(topic, m)
  <2>1. ASSUME NEW r \in Requests, Serve(r) PROVE UNCHANGED topic
    BY <2>1, ServeStep
  <2>2. CASE Consume \/ StopConsuming
    BY <2>2, ConsumeStep
  <2>3. CASE Exit \/ Crash \/ Signal \/ Shutdown \/ Boot \/ UNCHANGED vars
    BY <2>3 DEF Exit, Crash, End, Signal, Shutdown, Boot, vars
  <2>4. ASSUME NEW m \in Orders \cup {Bad}, Produce(m) PROVE topic' = Append(topic, m)
    BY <2>4 DEF Produce
  <2> QED BY <2>1, <2>2, <2>3, <2>4, StoreMoveStep, CancelledStep DEF Next
<1>2. /\ Len(topic) \in Nat /\ Len(topic') \in Nat /\ Len(topic) <= Len(topic')
      /\ \A i \in 1..Len(topic) : topic'[i] = topic[i]
  BY <1>0, <1>1
<1>3. ASSUME NEW n \in 0..Len(topic) PROVE Storables(n)' = Storables(n)
  <2>1. \A i \in 1..n : i \in 1..Len(topic)
    BY <1>2
  <2> QED BY <1>2, <2>1 DEF Storables
<1> QED BY <1>2, <1>3

LEMMA FaultsStep ==
  ASSUME TypeOK, [Next]_vars, faults' = 0
  PROVE  /\ faults = 0
         /\ \A c \in Clients : ~Fault(c)
<1> USE DEF processVars, consumerVars, storeVars
<1>0. faults \in Nat
  BY ServiceAssumption DEF TypeOK
<1>1. \A c \in Clients : ~Fault(c)
  BY <1>0 DEF Fault
<1>2. ASSUME NEW r \in Requests, Serve(r) PROVE UNCHANGED faults
  BY <1>2, ServeStep
<1>3. CASE Consume \/ StopConsuming
  BY <1>1, <1>3, ConsumeStep
<1>4. CASE Exit \/ Crash \/ Signal \/ Shutdown \/ Boot \/ UNCHANGED vars
  BY <1>1, <1>4 DEF Exit, Crash, End, Signal, Shutdown, Boot, vars
<1>5. ASSUME NEW m \in Orders \cup {Bad}, Produce(m) PROVE UNCHANGED faults
  BY <1>5 DEF Produce
<1> QED BY <1>1, <1>2, <1>3, <1>4, <1>5, StoreMoveStep, CancelledStep DEF Next

LEMMA ConsumerAtStep ==
  ASSUME Inv, OnlyConsumerAdds, ConsumerAt, [Next]_vars
  PROVE  ConsumerAt'
<1> USE DEF processVars, consumerVars, storeVars
<1>0. /\ TypeOK /\ StoreTypeOK /\ Consumer \in Clients
      /\ offset \in 0..Len(topic) /\ Len(topic) \in Nat
      /\ \A i \in 1..Len(topic) : topic'[i] = topic[i]
  BY TopicGrows, ClientsAssumption DEF Inv, TypeOK, StoreTypeOK
<1>1. CASE /\ UNCHANGED <<phase, offset, consumer>>
           /\ call'[Consumer].op = call[Consumer].op
           /\ call[Consumer].op = "add" => call'[Consumer].order = call[Consumer].order
  <2>1. consumer = "adding" => topic'[offset] = topic[offset]
    BY <1>0 DEF ConsumerAt
  <2> QED BY <1>1, <2>1 DEF ConsumerAt
<1>2. ASSUME NEW c \in Clients, StoreMoves(c), UNCHANGED <<phase, offset, consumer>>
      PROVE  ConsumerAt'
  BY <1>0, <1>1, <1>2, StoreStepKeepsQuestions DEF StoreMoves
<1>3. ASSUME NEW r \in Requests, Serve(r) PROVE ConsumerAt'
  BY <1>0, <1>1, <1>3, ServeStep, ClientsAssumption
<1>4. CASE Receive
  <2>1. Message = topic[offset + 1] /\ offset + 1 > 0
    BY <1>0 DEF Message
  <2>2. call'[Consumer].op = "add" /\ call'[Consumer].order = Message
    BY <1>0, <1>4 DEF Receive, InvokeAdd, AddCall, StoreTypeOK
  <2>3. topic' = topic /\ offset' = offset + 1 /\ consumer' = "adding" /\ phase' = "up"
    BY <1>4 DEF Receive
  <2> QED BY <2>1, <2>2, <2>3 DEF ConsumerAt
<1>5. CASE Skip
  <2>1. consumer = "reading" /\ phase \notin {"down", "draining"}
    BY <1>5 DEF Skip, Readable, ConsumerAt
  <2> QED BY <1>5, <2>1 DEF Skip, ConsumerAt
<1>6. CASE AddOk \/ AddFailed
  <2>1. consumer = "adding" /\ consumer' = "reading" /\ phase' = phase
        /\ offset' = offset /\ call'[Consumer] = Idle
    BY <1>0, <1>6, ConsumeStep DEF AddOk, AddFailed, Return, StoreTypeOK
  <2>2. phase' \notin {"down", "draining"}
    BY <2>1 DEF ConsumerAt
  <2> QED BY <2>1, <2>2 DEF ConsumerAt, Idle
<1>7. CASE StopConsuming
  BY <1>7 DEF StopConsuming, ConsumerAt
<1>8. CASE Exit \/ Crash
  <2>1. phase' = "down" /\ offset' = 0 /\ consumer' = "stopped" /\ call'[Consumer] = Idle
    BY <1>0, <1>8 DEF Exit, Crash, End, Abandon
  <2> QED BY <2>1 DEF ConsumerAt, Idle
<1>9. CASE Signal \/ Shutdown \/ Boot
  BY <1>9 DEF Signal, Shutdown, Boot, ConsumerAt
<1>10. ASSUME NEW m \in Orders \cup {Bad}, Produce(m)
       PROVE  UNCHANGED <<phase, offset, consumer, call>>
  BY <1>10 DEF Produce
<1>11. CASE UNCHANGED vars
  BY <1>11, <1>1 DEF vars
<1> QED BY <1>1, <1>2, <1>3, <1>4, <1>5, <1>6, <1>7, <1>8, <1>9, <1>10, <1>11,
           StoreMoveStep, CancelledStep DEF Next, Consume

(* A row comes from the message that the consumer is adding.               *)
LEMMA RowsByConsumer ==
  ASSUME Inv, OnlyConsumerAdds, ConsumerAt, [Next]_vars, rows' # rows
  PROVE  /\ consumer = "adding" /\ offset \in 1..Len(topic) /\ topic' = topic
         /\ topic[offset] \in Orders
         /\ Insertable(topic[offset])
         /\ rows' = [rows EXCEPT ![topic[offset].uid] = RowOf(topic[offset])]
<1> USE DEF processVars, consumerVars, storeVars
<1>0. /\ TypeOK /\ StoreTypeOK /\ Consumer \in Clients
      /\ offset \in 0..Len(topic) /\ Len(topic) \in Nat
  BY TopicGrows, ClientsAssumption DEF Inv, TypeOK, StoreTypeOK
<1>1. ASSUME NEW c \in Clients, StoreMoves(c), topic' = topic
      PROVE  /\ consumer = "adding" /\ offset \in 1..Len(topic) /\ topic' = topic
             /\ topic[offset] \in Orders
             /\ Insertable(topic[offset])
             /\ rows' = [rows EXCEPT ![topic[offset].uid] = RowOf(topic[offset])]
  <2>1. Insert(c) \/ InsertUnreported(c)
    BY <1>1 DEF StoreMoves, Refuse, Select, Fail
  <2>2. /\ call[c].op = "add" /\ Insertable(call[c].order)
        /\ rows' = [rows EXCEPT ![call[c].order.uid] = RowOf(call[c].order)]
    BY <2>1 DEF Insert, InsertUnreported, Commit, Pending
  <2>3. c = Consumer
    BY <1>0, <2>2, ClientsAssumption DEF OnlyConsumerAdds
  <2>4. consumer = "adding" /\ offset > 0 /\ call[Consumer].order = topic[offset]
    BY <2>2, <2>3 DEF ConsumerAt
  <2>5. topic[offset] \in Orders
    BY <1>0, <2>2, <2>3, <2>4, AddCallFields DEF StoreTypeOK
  <2> QED BY <1>0, <1>1, <2>2, <2>3, <2>4, <2>5
<1>2. ASSUME NEW r \in Requests, Serve(r) PROVE FALSE
  BY <1>0, <1>2, ServeStep
<1>3. CASE Consume \/ StopConsuming
  BY <1>0, <1>3, ConsumeStep
<1>4. CASE Exit \/ Crash \/ Signal \/ Shutdown \/ Boot \/ UNCHANGED vars
  BY <1>4 DEF Exit, Crash, End, Abandon, Signal, Shutdown, Boot, vars
<1>5. ASSUME NEW m \in Orders \cup {Bad}, Produce(m) PROVE FALSE
  BY <1>5 DEF Produce
<1> QED BY <1>1, <1>2, <1>3, <1>4, <1>5, StoreMoveStep, CancelledStep DEF Next

LEMMA FirstStep ==
  ASSUME OrderInv, [Next]_vars, faults = 0
  PROVE  FirstIsStored'
<1> SUFFICES ASSUME NEW uid \in Stored'
             PROVE  \E i \in Storables(Len(topic))' :
                      /\ rows'[uid] = RowOf(topic'[i])
                      /\ \A j \in Storables(i - 1)' : topic'[j].uid # uid
  BY DEF FirstIsStored
<1>0. /\ TypeOK /\ Stored \subseteq Stored' /\ \A u \in Stored : rows'[u] = rows[u]
      /\ Len(topic) \in Nat /\ Len(topic') \in Nat /\ Len(topic) <= Len(topic')
      /\ \A i \in 1..Len(topic) : topic'[i] = topic[i]
      /\ \A n \in 0..Len(topic) : Storables(n)' = Storables(n)
  BY TopicGrows, StoredGrows DEF OrderInv, Inv
<1>1. ASSUME NEW i \in Storables(Len(topic)), rows'[uid] = RowOf(topic[i]),
             \A j \in Storables(i - 1) : topic[j].uid # uid
      PROVE  /\ i \in Storables(Len(topic))' /\ rows'[uid] = RowOf(topic'[i])
             /\ \A j \in Storables(i - 1)' : topic'[j].uid # uid
  <2>1. i \in 1..Len(topic) /\ topic'[i] = topic[i]
    BY <1>0, <1>1 DEF Storables
  <2>2. i \in Storables(Len(topic))'
    BY <1>0, <1>1, <2>1 DEF Storables
  <2>3. i - 1 \in 0..Len(topic)
    BY <1>0, <2>1
  <2>4. Storables(i - 1)' = Storables(i - 1)
    BY <1>0, <2>3, <2>1 DEF Storables
  <2>5. ASSUME NEW j \in Storables(i - 1) PROVE topic'[j] = topic[j]
    BY <1>0, <2>1, <2>5 DEF Storables
  <2> QED BY <1>1, <2>1, <2>2, <2>4, <2>5
<1>2. CASE uid \in Stored
  <2>1. PICK i \in Storables(Len(topic)) :
          /\ rows[uid] = RowOf(topic[i])
          /\ \A j \in Storables(i - 1) : topic[j].uid # uid
    BY <1>2 DEF OrderInv, FirstIsStored
  <2>2. rows'[uid] = RowOf(topic[i])
    BY <1>0, <1>2, <2>1
  <2> QED BY <1>1, <2>1, <2>2
<1>3. CASE uid \notin Stored
  <2>1. rows' # rows
    BY <1>3 DEF Stored
  <2>2. /\ consumer = "adding" /\ offset \in 1..Len(topic)
        /\ topic[offset] \in Orders /\ Insertable(topic[offset])
        /\ rows' = [rows EXCEPT ![topic[offset].uid] = RowOf(topic[offset])]
    BY <2>1, RowsByConsumer DEF OrderInv
  <2>3. uid \in Uids /\ rows[uid] = NoOrder /\ rows'[uid] # NoOrder
    BY <1>3 DEF Stored
  <2>4. uid = topic[offset].uid /\ rows'[uid] = RowOf(topic[offset])
    BY <2>2, <2>3, <1>0 DEF TypeOK
  <2>5. offset \in Storables(Len(topic))
    BY <2>2 DEF Storables, Insertable
  <2>6. \A j \in Storables(offset - 1) : topic[j].uid # uid
    BY <1>3, <2>2 DEF OrderInv, NothingPassed
  <2> QED BY <1>1, <2>4, <2>5, <2>6
<1> QED BY <1>2, <1>3

(* What the consumer waits for failed: its message cannot be stored, or    *)
(* its uid is taken, unless the failure was a fault or the signal's.       *)
LEMMA FailureStep ==
  ASSUME Inv, ConsumerAt, NEW c \in Clients,
         StoreStep(c) \/ (Cancelled /\ c = Consumer),
         phase' = "up", consumer = "adding", topic[offset] \in Orders,
         call'[Consumer].status = "failed"
  PROVE  \/ call[Consumer].status = "failed"
         \/ ~Storable(topic[offset]) \/ topic[offset].uid \in Stored
<1>0. StoreTypeOK /\ Consumer \in Clients
  BY ClientsAssumption DEF Inv, TypeOK, StoreTypeOK
<1>1. StoreStep(c)
  BY DEF Cancelled, processVars
<1>2. call[Consumer].op = "add" /\ call[Consumer].order = topic[offset]
  BY DEF ConsumerAt
<1>3. CASE c # Consumer
  BY <1>0, <1>1, <1>3 DEF StoreStep, Insert, Commit, Refuse, Select, Finish, StoreTypeOK
<1>4. CASE c = Consumer
  <2>1. ~Select(Consumer)
    BY <1>2 DEF Select, Pending
  <2>2. ~Insert(Consumer)
    <3>1. call[Consumer] \in Calls
      BY <1>0 DEF StoreTypeOK
    <3>2. Insert(Consumer) => call'[Consumer].status = "ok"
      BY <1>0, <1>2, <3>1 DEF Insert, Commit, Finish, StoreTypeOK, Calls, Idle
    <3> QED BY <3>2
  <2>3. ~Insertable(topic[offset])
    BY <1>1, <1>2, <1>4, <2>1, <2>2 DEF StoreStep, Refuse
  <2>4. topic[offset].uid \in Uids
    BY RowFields
  <2> QED BY <2>3, <2>4 DEF Insertable, Stored
<1> QED BY <1>3, <1>4

LEMMA PassedStep ==
  ASSUME OrderInv, [Next]_vars, faults = 0, faults' = 0
  PROVE  NothingPassed'
<1> USE DEF processVars, consumerVars, storeVars
<1>0. /\ Inv /\ TypeOK /\ StoreTypeOK /\ Consumer \in Clients /\ ConsumerAt
      /\ OnlyConsumerAdds /\ NothingPassed /\ Stored \subseteq Stored'
  BY StoredGrows, ClientsAssumption DEF OrderInv, Inv, TypeOK, StoreTypeOK
<1>1. /\ offset \in 0..Len(topic) /\ Len(topic) \in Nat
      /\ \A i \in 1..Len(topic) : topic'[i] = topic[i]
      /\ \A n \in 0..Len(topic) : Storables(n)' = Storables(n)
  BY <1>0, TopicGrows DEF TypeOK
<1>2. ASSUME NEW n \in 0..Len(topic), NEW i \in Storables(n)'
      PROVE  i \in Storables(n) /\ topic'[i] = topic[i]
  BY <1>1, <1>2 DEF Storables
<1>3. Storables(0)' = {}
  BY DEF Storables
(* The consumer and the process stay where they are.                       *)
<1>4. ASSUME UNCHANGED <<offset, consumer>>, phase' = "up" => phase = "up",
             phase' = "up" /\ consumer = "adding" /\ call'[Consumer].status = "failed" =>
               ~Storable(topic[offset]) \/ topic[offset].uid \in Stored
      PROVE  NothingPassed'
  <2>1. consumer = "adding" => topic'[offset] = topic[offset] /\ offset - 1 \in 0..Len(topic)
    BY <1>0, <1>1 DEF ConsumerAt
  <2>2. ASSUME phase' = "up", NEW i \in Storables(offset)'
        PROVE  topic'[i].uid \in Stored' \/ (i = offset' /\ consumer' = "adding")
    BY <1>0, <1>1, <1>2, <1>4, <2>2 DEF NothingPassed
  <2>3. ASSUME consumer = "adding", NEW i \in Storables(offset - 1)'
        PROVE  topic'[i].uid \in Stored'
    <3>1. i \in Storables(offset - 1) /\ topic'[i] = topic[i]
      BY <1>1, <1>4, <2>1, <2>3 DEF Storables
    <3> QED BY <1>0, <2>3, <3>1 DEF NothingPassed
  <2> QED BY <1>0, <1>4, <2>1, <2>2, <2>3 DEF NothingPassed
<1>5. ASSUME NEW c \in Clients, StoreMoves(c), UNCHANGED <<phase, offset, consumer>>,
             StoreStep(c) \/ (Cancelled /\ c = Consumer)
      PROVE  NothingPassed'
  <2> SUFFICES ASSUME phase' = "up", consumer = "adding", call'[Consumer].status = "failed"
               PROVE  ~Storable(topic[offset]) \/ topic[offset].uid \in Stored
    BY <1>4, <1>5
  <2>1. topic[offset] \in Orders
    BY <1>0, AddCallFields DEF ConsumerAt, StoreTypeOK
  <2> QED BY <1>0, <1>5, <2>1, FailureStep DEF NothingPassed
<1>6. ASSUME NEW r \in Requests, Serve(r) PROVE NothingPassed'
  <2>1. UNCHANGED <<phase, offset, consumer>> /\ call'[Consumer] = call[Consumer]
    BY <1>0, <1>6, ServeStep, ClientsAssumption
  <2> QED BY <1>0, <1>4, <2>1 DEF NothingPassed
<1>7. CASE Receive
  <2>1. /\ phase = "up" /\ consumer = "reading" /\ topic' = topic
        /\ offset' = offset + 1 /\ consumer' = "adding"
    BY <1>7 DEF Receive, Readable
  <2>2. call'[Consumer].status = "pending"
    BY <1>0, <1>7 DEF Receive, InvokeAdd, AddCall, StoreTypeOK
  <2>3. \A i \in Storables(offset) : topic[i].uid \in Stored'
    BY <1>0, <2>1 DEF NothingPassed
  <2>4. offset' - 1 = offset
    BY <1>1, <2>1
  <2>5. \A i \in Storables(offset') : i \in Storables(offset) \/ i = offset'
    BY <1>1, <2>1 DEF Storables
  <2>6. Storables(offset)' = Storables(offset') /\ Storables(offset - 1)' = Storables(offset' - 1)
    BY <2>1 DEF Storables
  <2>7. Storables(offset' - 1) = Storables(offset)
    BY <2>4
  <2> QED BY <2>1, <2>2, <2>3, <2>5, <2>6, <2>7 DEF NothingPassed
<1>8. CASE Skip
  <2>1. /\ consumer = "reading" /\ consumer' = "reading" /\ topic' = topic
        /\ offset' = offset + 1 /\ phase' = phase
    BY <1>8 DEF Skip, Readable
  <2>2. phase = "up" => topic[offset'] = Bad
    BY <1>8, <2>1 DEF Skip, Message
  <2>3. phase = "up" => \A i \in Storables(offset') : i \in Storables(offset)
    BY <1>1, <2>1, <2>2, ServiceAssumption DEF Storables
  <2>4. Storables(offset)' = Storables(offset')
    BY <2>1 DEF Storables
  <2> QED BY <1>0, <2>1, <2>3, <2>4 DEF NothingPassed
<1>9. CASE AddOk \/ AddFailed
  <2>1. /\ consumer = "adding" /\ consumer' = "reading"
        /\ UNCHANGED <<topic, phase, offset, rows>>
    BY <1>9 DEF AddOk, AddFailed, Return
  <2>2. Stored' = Stored /\ Storables(offset)' = Storables(offset)
    BY <2>1 DEF Stored, Storables
  <2>3. call[Consumer].op = "add" /\ call[Consumer].order = topic[offset]
    BY <1>0, <2>1 DEF ConsumerAt
  <2>4. topic[offset] \in Orders
    BY <1>0, <2>3, AddCallFields DEF StoreTypeOK
  <2>5. AddOk => topic[offset].uid \in Stored
    <3>1. AddOk => rows[topic[offset].uid] = RowOf(topic[offset])
      BY <1>0, <2>3 DEF AddOk, Inv, CallsMatchRows
    <3> QED BY <2>4, <3>1, RowFields, RowIsNotNoOrder DEF Stored
  <2>6. phase = "up" /\ AddFailed => ~Storable(topic[offset]) \/ topic[offset].uid \in Stored
    BY <1>0, <2>1 DEF AddFailed, NothingPassed
  <2>7. \A i \in Storables(offset) : Storable(topic[i])
    BY DEF Storables
  <2> QED BY <1>0, <1>9, <2>1, <2>2, <2>5, <2>6, <2>7 DEF NothingPassed
<1>10. CASE StopConsuming
  <2>1. /\ consumer = "reading" /\ consumer' = "stopped"
        /\ UNCHANGED <<topic, phase, offset, rows>>
    BY <1>10 DEF StopConsuming
  <2>2. Stored' = Stored /\ Storables(offset)' = Storables(offset)
    BY <2>1 DEF Stored, Storables
  <2> QED BY <1>0, <2>1, <2>2 DEF NothingPassed
<1>11. CASE Signal \/ Shutdown
  <2>1. phase' # "up" /\ UNCHANGED <<offset, consumer>>
    BY <1>11 DEF Signal, Shutdown
  <2> QED BY <1>4, <2>1
<1>12. CASE Exit \/ Crash
  <2>1. phase' = "down" /\ consumer' = "stopped"
    BY <1>12 DEF Exit, Crash, End
  <2> QED BY <2>1 DEF NothingPassed
<1>13. CASE Boot
  <2>1. offset = 0 /\ offset' = 0 /\ consumer' = "reading"
    BY <1>0, <1>13 DEF Boot, ConsumerAt
  <2>2. Storables(offset)' = {}
    BY <2>1 DEF Storables
  <2> QED BY <2>1, <2>2 DEF NothingPassed
<1>14. CASE UNCHANGED <<phase, offset, consumer, call>>
  BY <1>0, <1>4, <1>14 DEF NothingPassed
<1>15. ASSUME NEW m \in Orders \cup {Bad}, Produce(m)
       PROVE  UNCHANGED <<phase, offset, consumer, call>>
  BY <1>15 DEF Produce
<1>16. CASE UNCHANGED vars
  BY <1>14, <1>16 DEF vars
<1>17. \A c \in Clients : ~Fault(c)
  BY <1>0, FaultsStep
<1> QED BY <1>0, <1>5, <1>6, <1>7, <1>8, <1>9, <1>10, <1>11, <1>12, <1>13, <1>14, <1>15, <1>16,
           <1>17, StoreMoveStep, CancelledStep DEF Next, Consume

LEMMA OrderInit == Init => OrderInv
<1> SUFFICES ASSUME Init PROVE OrderInv
  OBVIOUS
<1>1. call[Consumer] = Idle /\ Stored = {} /\ \A c \in Clients : call[c] = Idle
  BY ClientsAssumption DEF Init, StoreInit, Stored
<1>2. OnlyConsumerAdds /\ ConsumerAt
  BY <1>1, ClientsAssumption DEF Init, OnlyConsumerAdds, ConsumerAt, Idle
<1>3. FirstIsStored /\ NothingPassed
  BY <1>1 DEF Init, FirstIsStored, NothingPassed
<1> QED BY <1>2, <1>3, InvInit DEF OrderInv

LEMMA OrderNext == OrderInv /\ Inv' /\ [Next]_vars => OrderInv'
<1> SUFFICES ASSUME OrderInv, Inv', [Next]_vars PROVE OrderInv'
  OBVIOUS
<1>1. OnlyConsumerAdds' /\ ConsumerAt'
  BY AddersStep, ConsumerAtStep DEF OrderInv, Inv
<1>2. ASSUME faults' = 0 PROVE FirstIsStored' /\ NothingPassed'
  BY <1>2, FaultsStep, FirstStep, PassedStep DEF OrderInv, Inv
<1> QED BY <1>1, <1>2 DEF OrderInv

(* Of several orders with one uid the first in the topic is stored, and    *)
(* once it is read it is stored or being added, while the store is sound.  *)
THEOREM FirstWins == Spec => []FirstMessageWins
<1>1. OrderInv => FirstMessageWins
  BY DEF OrderInv, FirstIsStored, NothingPassed, FirstMessageWins
<1> QED BY <1>1, OrderInit, OrderNext, Invariance, PTL DEF Spec

-----------------------------------------------------------------------------
(* The service is a client of the store, and of the cache while it is up.  *)

(* A request asks for a customer's orders or for everyone's.               *)
LEMMA ServeCalls ==
  ASSUME NEW r \in Requests, Serve(r)
  PROVE  StoreNext \/ UNCHANGED storeVars
<1>1. r \in Clients
  BY ClientsAssumption
<1>2. ASSUME NEW user \in Customers, NEW route, NEW target \in SUBSET Uids,
             Query(r, route, user, target)
      PROVE  StoreNext
  <2>1. OwnerOf(route, user) \in Customers \cup {Anyone}
    BY DEF OwnerOf
  <2>2. InvokeSelect(r, target, OwnerOf(route, user))
    BY <1>2 DEF Query
  <2> QED BY <1>1, <2>1, <2>2 DEF StoreNext
<1>3. ASSUME NEW user \in Customers, NEW route \in OrderRoutes, NEW uid \in Uids,
             ServeMiss(r, route, user, uid)
      PROVE  StoreNext
  BY <1>2, <1>3 DEF ServeMiss
<1>4. ASSUME NEW user \in Customers, NEW route \in ListRoutes, ServeList(r, route, user)
      PROVE  StoreNext
  BY <1>2, <1>4 DEF ServeList
<1>5. ASSUME NEW user \in Customers, NEW route \in OrderRoutes, NEW uid \in Uids,
             ServeHit(r, route, user, uid)
      PROVE  UNCHANGED storeVars
  BY <1>5 DEF ServeHit
<1>6. ASSUME RespondFound(r) \/ RespondAbsent(r) \/ RespondList(r) \/ RespondError(r)
      PROVE  StoreNext
  <2>1. Return(r)
    BY <1>6 DEF RespondFound, RespondAbsent, RespondList, RespondError, Respond
  <2> QED BY <1>1, <2>1 DEF StoreNext
<1>7. ASSUME Finished(r) PROVE UNCHANGED storeVars
  BY <1>7 DEF Finished
<1> QED BY <1>3, <1>4, <1>5, <1>6, <1>7 DEF Serve

(* A step of the service is one of the store or leaves it alone.           *)
LEMMA StepCalls == [Next]_vars => [StoreNext]_storeVars
<1> SUFFICES ASSUME [Next]_vars PROVE StoreNext \/ UNCHANGED storeVars
  OBVIOUS
<1>1. Consumer \in Clients
  BY ClientsAssumption
<1>2. CASE Receive
  BY <1>1, <1>2 DEF Receive, StoreNext
<1>3. CASE AddOk \/ AddFailed
  <2>1. Return(Consumer)
    BY <1>3 DEF AddOk, AddFailed
  <2> QED BY <1>1, <2>1 DEF StoreNext
<1>4. ASSUME NEW c \in Clients, StoreStep(c) \/ Fault(c)
      PROVE  StoreNext
  BY <1>4 DEF StoreStep, Fault, StoreNext
<1>5. CASE Cancelled
  BY <1>1, <1>5 DEF Cancelled, StoreNext
<1>6. CASE Exit \/ Crash
  BY <1>6 DEF Exit, Crash, End, StoreNext
<1>7. CASE Skip \/ StopConsuming \/ Signal \/ Shutdown \/ Boot \/ UNCHANGED vars
  BY <1>7 DEF Skip, StopConsuming, Signal, Shutdown, Boot, vars, storeVars
<1>8. CASE \E m \in Orders \cup {Bad} : Produce(m)
  BY <1>8 DEF Produce
<1> QED BY <1>2, <1>3, <1>4, <1>5, <1>6, <1>7, <1>8, ServeCalls DEF Next, Consume

(* What runs against OrderStore runs against Repository: every step of the *)
(* service, whether of the consumer, a handler, a fault or the end of the  *)
(* process, is a call, an answer or an effect of the store, or none.       *)
THEOREM StoreUsedAsPromised == Spec => StoreSpec
<1>1. Init => StoreInit
  BY DEF Init
<1> QED BY <1>1, StepCalls, PTL DEF Spec, StoreSpec

(* What is set in the cache is an order or a row, what is hit is in it.    *)
LEMMA StepCaches ==
  ASSUME Inv, Next, phase # "down", phase' # "down"
  PROVE  Cache!Next \/ UNCHANGED lru
<1>1. ASSUME NEW r \in Requests, Serve(r)
      PROVE  Cache!Next \/ UNCHANGED lru
  <2>1. CASE RespondFound(r)
    <3>1. PICK o \in call[r].found : Cache!Set(o)
      BY <2>1 DEF RespondFound
    <3>2. r \in Clients /\ call[r].op = "select"
      BY <2>1, ClientsAssumption DEF RespondFound, Answered, Inv, WaitersMatchCalls
    <3>3. call[r].found \subseteq Rows
      BY <3>2 DEF Inv, TypeOK, Calls, Idle
    <3> QED BY <3>1, <3>3 DEF Entries, Cache!Next
  <2>2. ASSUME NEW user \in Customers, NEW route \in OrderRoutes, NEW uid \in Uids,
               ServeHit(r, route, user, uid)
        PROVE  Cache!Next
    BY <2>2 DEF ServeHit, Cache!Next
  <2>3. CASE \E user \in Customers :
               \/ \E route \in OrderRoutes, uid \in Uids : ServeMiss(r, route, user, uid)
               \/ \E route \in ListRoutes : ServeList(r, route, user)
    BY <2>3 DEF ServeMiss, ServeList, Query
  <2>4. CASE RespondAbsent(r) \/ RespondList(r) \/ RespondError(r) \/ Finished(r)
    BY <2>4 DEF RespondAbsent, RespondList, RespondError, Finished
  <2> QED BY <1>1, <2>1, <2>2, <2>3, <2>4 DEF Serve
<1>2. CASE AddOk
  <2>1. Cache!Set(call[Consumer].order) /\ call[Consumer].op = "add" /\ Consumer \in Clients
    BY <1>2, ClientsAssumption DEF AddOk, Inv, WaitersMatchCalls
  <2>2. call[Consumer].order \in Orders
    BY <2>1 DEF Inv, TypeOK, Calls, Idle
  <2> QED BY <2>1, <2>2 DEF Entries, Cache!Next
<1>3. CASE Receive \/ Skip \/ AddFailed \/ StopConsuming \/ Signal \/ Shutdown \/ Cancelled
  BY <1>3 DEF Receive, Skip, AddFailed, StopConsuming, Signal, Shutdown, Cancelled
<1>4. ASSUME NEW c \in Clients, StoreStep(c) \/ Fault(c)
      PROVE  UNCHANGED lru
  BY <1>4 DEF StoreStep, Fault
<1>5. CASE \E m \in Orders \cup {Bad} : Produce(m)
  BY <1>5 DEF Produce
<1>6. ~Exit /\ ~Crash /\ ~Boot
  BY DEF Exit, Crash, End, Boot
<1> QED BY <1>1, <1>2, <1>3, <1>4, <1>5, <1>6 DEF Next, Consume

(* Between one start of the process and its end the cache is changed only  *)
(* by Set of an order and by Get of one that is there, as module LRU (and  *)
(* so LRUCache) has it, whoever of consumer and handlers comes first.      *)
THEOREM CacheUsedAsPromised ==
  Spec => [][phase # "down" /\ phase' # "down" => Cache!Next \/ UNCHANGED lru]_vars
<1>1. Inv /\ [Next]_vars =>
        [phase # "down" /\ phase' # "down" => Cache!Next \/ UNCHANGED lru]_vars
  BY StepCaches
<1> QED BY <1>1, Invariance, PTL DEF Spec

-----------------------------------------------------------------------------
(* Whose call it is.                                                       *)

(* A call is under way exactly while the consumer or the request that made *)
(* it waits for its answer.                                                *)
CallsBelong ==
  /\ consumer = "adding" <=> call[Consumer] # Idle
  /\ \A r \in Requests : req[r].status = "waiting" <=> call[r] # Idle

AskersWait == \A r \in Requests : call[r].op # "idle" => req[r].status = "waiting"

LEMMA IdleByOp == \A x \in Calls : x = Idle <=> x.op = "idle"
BY DEF Calls, Idle

LEMMA AskersStep ==
  ASSUME TypeOK, AskersWait, [Next]_vars
  PROVE  AskersWait'
<1> SUFFICES ASSUME NEW r \in Requests
             PROVE  call'[r].op # "idle" => req'[r].status = "waiting"
  BY DEF AskersWait
<1> USE DEF processVars, consumerVars, storeVars
<1>1. /\ r \in Clients /\ r # Consumer /\ StoreTypeOK
      /\ call[r].op # "idle" => req[r].status = "waiting"
  BY ClientsAssumption DEF AskersWait, TypeOK, StoreTypeOK
<1>2. CASE call'[r].op = call[r].op /\ req'[r] = req[r]
  BY <1>1, <1>2
<1>3. ASSUME NEW c \in Clients, StoreMoves(c), UNCHANGED req
      PROVE  call'[r].op # "idle" => req'[r].status = "waiting"
  BY <1>1, <1>2, <1>3, StoreStepKeepsQuestions DEF StoreMoves
<1>4. ASSUME Serve(r)
      PROVE  call'[r].op # "idle" => req'[r].status = "waiting"
  <2>1. ASSUME NEW user, NEW route, NEW target, Query(r, route, user, target)
        PROVE  req'[r].status = "waiting"
    BY <2>1 DEF Query, Request, TypeOK
  <2>2. ASSUME NEW user, NEW route, NEW uid, ServeHit(r, route, user, uid)
        PROVE  call'[r].op = "idle"
    BY <1>1, <2>2 DEF ServeHit, Free
  <2>3. CASE RespondFound(r) \/ RespondAbsent(r) \/ RespondList(r) \/ RespondError(r)
    <3>1. Return(r)
      BY <2>3 DEF RespondFound, RespondAbsent, RespondList, RespondError, Respond
    <3> QED BY <1>1, <3>1 DEF Return, Idle, TypeOK
  <2>4. CASE Finished(r)
    BY <1>1, <2>4 DEF Finished
  <2> QED BY <1>4, <2>1, <2>2, <2>3, <2>4 DEF Serve, ServeMiss, ServeList
<1>5. ASSUME NEW q \in Requests, q # r, Serve(q)
      PROVE  call'[r] = call[r] /\ req'[r] = req[r]
  <2>1. call'[r] = call[r]
    BY <1>1, <1>5, ServeStep
  <2>2. \E x : req' = [req EXCEPT ![q] = x]
    <3>1. ASSUME NEW user, NEW route, NEW uid, ServeHit(q, route, user, uid)
          PROVE  \E x : req' = [req EXCEPT ![q] = x]
      BY <3>1 DEF ServeHit
    <3>2. ASSUME NEW user, NEW route, NEW target, Query(q, route, user, target)
          PROVE  \E x : req' = [req EXCEPT ![q] = x]
      BY <3>2 DEF Query
    <3>3. ASSUME NEW status, NEW body, Respond(q, status, body)
          PROVE  \E x : req' = [req EXCEPT ![q] = x]
      BY <3>3 DEF Respond
    <3>4. CASE RespondFound(q) \/ RespondAbsent(q) \/ RespondList(q) \/ RespondError(q)
      BY <3>3, <3>4 DEF RespondFound, RespondAbsent, RespondList, RespondError
    <3>5. CASE Finished(q)
      BY <3>5 DEF Finished
    <3> QED BY <1>5, <3>1, <3>2, <3>4, <3>5 DEF Serve, ServeMiss, ServeList
  <2> QED BY <1>5, <2>1, <2>2 DEF TypeOK
<1>6. CASE Consume \/ StopConsuming
  <2>1. req' = req
    BY <1>6 DEF Consume, Receive, Skip, AddOk, AddFailed, StopConsuming
  <2> QED BY <1>2, <1>6, <2>1, ConsumeStep
<1>7. CASE Exit \/ Crash
  BY <1>1, <1>7 DEF Exit, Crash, End, Abandon, Idle
<1>8. ASSUME NEW m \in Orders \cup {Bad}, Produce(m)
      PROVE  UNCHANGED <<call, req>>
  BY <1>8 DEF Produce
<1>9. CASE Signal \/ Shutdown \/ Boot \/ UNCHANGED vars
  BY <1>2, <1>9 DEF Signal, Shutdown, Boot, vars
<1> QED BY <1>2, <1>3, <1>4, <1>5, <1>6, <1>7, <1>8, <1>9, StoreMoveStep, CancelledStep DEF Next

(* No answer of the store is left over for the next message or request:    *)
(* not after an error, a shutdown, a crash or a restart.                   *)
THEOREM OwnAnswers == Spec => []CallsBelong
<1>1. Init => AskersWait
  BY ClientsAssumption DEF Init, StoreInit, Idle, AskersWait
<1>2. OrderInv /\ AskersWait => CallsBelong
  <2> SUFFICES ASSUME OrderInv, AskersWait PROVE CallsBelong
    OBVIOUS
  <2>1. /\ \A c \in Clients : call[c] \in Calls
        /\ Consumer \in Clients /\ \A r \in Requests : r \in Clients
    BY ClientsAssumption DEF OrderInv, Inv, TypeOK
  <2>2. consumer = "adding" <=> call[Consumer] # Idle
    BY <2>1, IdleByOp DEF OrderInv, ConsumerAt
  <2>3. ASSUME NEW r \in Requests PROVE req[r].status = "waiting" <=> call[r] # Idle
    BY <2>1, IdleByOp DEF OrderInv, Inv, WaitersMatchCalls, AskersWait
  <2> QED BY <2>2, <2>3 DEF CallsBelong
<1>3. OrderInv /\ AskersWait /\ [Next]_vars => AskersWait'
  BY AskersStep DEF OrderInv, Inv
<1> QED BY <1>1, <1>2, <1>3, OrderInit, OrderNext, Invariance, PTL DEF Spec
=============================================================================
