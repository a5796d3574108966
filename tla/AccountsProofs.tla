--------------------------- MODULE AccountsProofs ---------------------------
(***************************************************************************)
(* Proofs about Accounts, for any names, passwords and requests, any       *)
(* lifetimes of the tokens and any bounds.                                 *)
(***************************************************************************)
EXTENDS Accounts, TLAPS

-----------------------------------------------------------------------------
(* What the states of a request are made of.                               *)

LEMMA TTLIsNat ==
  ASSUME NEW kind \in Kinds
  PROVE  TTL(kind) \in Nat
BY AccountsAssumption DEF TTL

LEMMA NoneIsNoToken == None \notin Tokens
<1> SUFFICES ASSUME None \in Tokens PROVE FALSE
  OBVIOUS
<1>1. DOMAIN None = {"name", "role", "kind", "exp"}
  BY DEF Tokens
<1>2. DOMAIN None = {"none"}
  BY DEF None
<1> QED BY <1>1, <1>2

LEMMA NoneIsNoRow == None \notin Rows
<1> SUFFICES ASSUME None \in Rows PROVE FALSE
  OBVIOUS
<1>1. DOMAIN None = {"password", "role"}
  BY DEF Rows
<1>2. DOMAIN None = {"none"}
  BY DEF None
<1> QED BY <1>1, <1>2

LEMMA NoneIsNoCookie ==
  ASSUME NEW S, NEW T
  PROVE  None \notin [token : S, until : T] /\ None \notin [Kinds -> S]
<1>1. DOMAIN None = {"none"}
  BY DEF None
<1>2. ASSUME None \in [token : S, until : T] PROVE FALSE
  BY <1>1, <1>2
<1>3. ASSUME None \in [Kinds -> S] PROVE FALSE
  BY <1>1, <1>3 DEF Kinds
<1> QED BY <1>2, <1>3

LEMMA PairShape ==
  ASSUME now \in Nat, NEW name \in Names, NEW role \in Roles
  PROVE  /\ \A kind \in Kinds : Token(name, role, kind) \in Tokens
         /\ Pair(name, role) \in [Kinds -> {Token(name, role, kind) : kind \in Kinds}]
         /\ \A kind \in Kinds : Pair(name, role)[kind] = Token(name, role, kind)
BY TTLIsNat DEF Token, Tokens, Pair

LEMMA RequestFields ==
  ASSUME NEW r \in Requests
  PROVE  /\ r.op \in {"login", "register", "refresh", "page", "logout", "malformed"}
         /\ r.op \in {"login", "register"} =>
              r.name \in Names /\ r.password \in Passwords /\ r.known \in BOOLEAN
         /\ r.op \in {"refresh", "page"} => r.token \in issued \cup {None}
BY DEF Requests

LEMMA StateFields ==
  ASSUME NEW s \in CallStates
  PROVE  /\ s = Idle \/ s.req \in Requests
         /\ s.at \in {"idle", "sent", "hashed", "read", "answered"}
         /\ s = Idle <=> s.at = "idle"
         /\ s.at = "read" => s.row \in Rows
         /\ s.at = "answered" =>
              /\ s.status \in {200, 201, 400, 401, 409, 500}
              /\ s.cookies \in Cookies /\ s.failed \in BOOLEAN
BY DEF CallStates, Idle

(* More tokens, more states: nothing a request held is lost.               *)
LEMMA StatesGrow ==
  ASSUME issued \subseteq issued'
  PROVE  Requests \subseteq Requests' /\ Cookies \subseteq Cookies' /\ CallStates \subseteq CallStates'
<1>1. Requests \subseteq Requests'
  BY DEF Requests
<1>2. Cookies \subseteq Cookies'
  BY DEF Cookies
<1>3. CallStates \subseteq CallStates'
  BY <1>1, <1>2 DEF CallStates
<1> QED BY <1>1, <1>2, <1>3

-----------------------------------------------------------------------------
(* Types.                                                                  *)

LEMMA CallsGrow ==
  ASSUME TypeOK, issued \subseteq issued'
  PROVE  call \in [Calls -> CallStates'] /\ \A c \in Calls : call[c].at # "idle" =>
           call[c].req \in Requests /\ call[c].req \in Requests'
BY StatesGrow, StateFields DEF TypeOK

LEMMA JarKept ==
  ASSUME TypeOK, issued \subseteq issued', jar' = jar
  PROVE  jar' \in [Kinds -> {None} \cup [token : issued', until : Nat]]
BY DEF TypeOK

(* A step that leaves all but the requests alone.                          *)
LEMMA OnlyCall ==
  ASSUME TypeOK, NEW c \in Calls, NEW s \in CallStates, call' = [call EXCEPT ![c] = s],
         UNCHANGED <<now, users, jar, issued, created, faults>>
  PROVE  TypeOK'
<1>1. CallStates' = CallStates
  BY DEF CallStates, Requests, Cookies
<1>2. call' \in [Calls -> CallStates']
  BY <1>1, CallsGrow
<1> QED BY <1>2 DEF TypeOK, Taken

LEMMA SendType ==
  ASSUME TypeOK, NEW c \in Calls, NEW r \in Requests, Send(c, r)
  PROVE  TypeOK'
<1>1. [at |-> "sent", req |-> r] \in CallStates
  BY DEF CallStates
<1> QED BY <1>1, OnlyCall DEF Send

LEMMA SendsType ==
  ASSUME TypeOK, NEW c \in Calls,
         SendCredentials(c) \/ SendToken(c) \/ SendCookie(c) \/ SendLogout(c) \/ SendMalformed(c)
  PROVE  \E r \in Requests : Send(c, r)
<1>1. CASE SendCredentials(c)
  <2>1. PICK op \in {"login", "register"}, name \in Names, password \in Passwords :
          Send(c, [op |-> op, name |-> name, password |-> password,
                   known |-> Right(name, password)])
    BY <1>1 DEF SendCredentials
  <2>2. Right(name, password) \in BOOLEAN
    BY DEF Right
  <2>3. [op |-> op, name |-> name, password |-> password,
         known |-> Right(name, password)] \in Requests
    BY <2>2 DEF Requests
  <2> QED BY <2>1, <2>3
<1>2. CASE SendToken(c)
  <2>1. PICK op \in {"refresh", "page"}, t \in issued \cup {None} :
          Send(c, [op |-> op, token |-> t])
    BY <1>2 DEF SendToken
  <2>2. [op |-> op, token |-> t] \in Requests
    BY DEF Requests
  <2> QED BY <2>1, <2>2
<1>3. CASE SendCookie(c)
  <2> DEFINE cookie == jar["access"]
             t == IF cookie # None /\ now < cookie.until THEN cookie.token ELSE None
  <2>1. Send(c, [op |-> "page", token |-> t])
    BY <1>3 DEF SendCookie
  <2>2. t \in issued \cup {None}
    BY DEF TypeOK, Kinds
  <2>3. [op |-> "page", token |-> t] \in Requests
    BY <2>2 DEF Requests
  <2> QED BY <2>1, <2>3
<1>4. CASE SendLogout(c)
  <2>1. [op |-> "logout"] \in Requests
    BY DEF Requests
  <2> QED BY <1>4, <2>1 DEF SendLogout
<1>5. CASE SendMalformed(c)
  <2>1. [op |-> "malformed"] \in Requests
    BY DEF Requests
  <2> QED BY <1>5, <2>1 DEF SendMalformed
<1> QED BY <1>1, <1>2, <1>3, <1>4, <1>5

LEMMA RefuseType ==
  ASSUME TypeOK, NEW c \in Calls, call[c].at # "idle",
         NEW status \in {200, 201, 400, 401, 409, 500}, Refuse(c, status)
  PROVE  issued' = issued /\ call' \in [Calls -> CallStates']
<1>1. issued' = issued
  BY DEF Refuse
<1>2. call[c].req \in Requests'
  BY <1>1, CallsGrow
<1>3. None \in Cookies'
  BY DEF Cookies
<1> DEFINE s == [at |-> "answered", req |-> call[c].req, status |-> status,
                 cookies |-> None, failed |-> FALSE]
<1>4. s \in CallStates'
  BY <1>2, <1>3 DEF CallStates
<1>5. call' = [call EXCEPT ![c] = s]
  BY DEF Refuse, Answer
<1> HIDE DEF s
<1>6. issued \subseteq issued'
  BY <1>1
<1>7. call' \in [Calls -> CallStates']
  BY <1>4, <1>5, <1>6, CallsGrow
<1> QED BY <1>1, <1>7

LEMMA GrantType ==
  ASSUME TypeOK, NEW c \in Calls, call[c].at # "idle",
         NEW name \in Names, NEW role \in Roles, Grant(c, name, role)
  PROVE  /\ issued \subseteq issued' /\ issued' \subseteq Tokens
         /\ call' \in [Calls -> CallStates']
<1>1. /\ issued' = issued \cup {Token(name, role, kind) : kind \in Kinds}
      /\ \A kind \in Kinds : Token(name, role, kind) \in Tokens
      /\ Pair(name, role) \in [Kinds -> {Token(name, role, kind) : kind \in Kinds}]
  BY PairShape DEF Grant, TypeOK
<1>2. issued \subseteq issued' /\ issued' \subseteq Tokens
  BY <1>1 DEF TypeOK
<1>3. call[c].req \in Requests'
  BY <1>2, CallsGrow
<1>4. Pair(name, role) \in Cookies'
  BY <1>1 DEF Cookies
<1> DEFINE s == [at |-> "answered", req |-> call[c].req, status |-> 200,
                 cookies |-> Pair(name, role), failed |-> FALSE]
<1>5. s \in CallStates'
  BY <1>3, <1>4 DEF CallStates
<1>6. call' = [call EXCEPT ![c] = s]
  BY DEF Grant, Answer
<1> HIDE DEF s
<1> QED BY <1>2, <1>5, <1>6, CallsGrow

LEMMA InitType == Init => TypeOK
<1> SUFFICES ASSUME Init PROVE TypeOK
  OBVIOUS
<1>1. call \in [Calls -> CallStates]
  BY DEF Init, CallStates
<1>2. jar \in [Kinds -> {None} \cup [token : issued, until : Nat]]
  BY DEF Init, Cleared
<1> QED BY <1>1, <1>2, AccountsAssumption DEF Init, TypeOK, Taken

(* A handler that refuses, or grants, and touches nothing else.            *)
LEMMA RefusedType ==
  ASSUME TypeOK, NEW c \in Calls, call[c].at # "idle",
         NEW status \in {200, 201, 400, 401, 409, 500}, Refuse(c, status),
         UNCHANGED <<now, users, jar, created, faults>>
  PROVE  TypeOK'
BY RefuseType, JarKept DEF TypeOK, Taken

LEMMA GrantedType ==
  ASSUME TypeOK, NEW c \in Calls, call[c].at # "idle",
         NEW name \in Names, NEW role \in Roles, Grant(c, name, role),
         UNCHANGED <<now, users, jar, created, faults>>
  PROVE  TypeOK'
BY GrantType, JarKept DEF TypeOK, Taken

(* CreateUser leaves the users there were, and adds one.                   *)
LEMMA NewUserType ==
  ASSUME TypeOK, NEW req \in Requests, req.op = "register",
         req.password \notin LongPasswords, Insertable(req.name), NewUser(req)
  PROVE  /\ Taken' = Taken \cup {req.name}
         /\ Taken' \subseteq Names \ LongNames /\ \A n \in Taken' : users'[n] \in Rows
         /\ \A n \in Taken : users'[n] = users[n]
         /\ users'[req.name] = [password |-> req.password, role |-> "user"]
<1>1. req.name \in Names /\ req.password \in Passwords
  BY RequestFields
<1>2. Taken' = Taken \cup {req.name}
  BY DEF NewUser, Taken
<1>3. /\ \A n \in Taken : users'[n] = users[n]
      /\ users'[req.name] = [password |-> req.password, role |-> "user"]
  BY DEF NewUser, Insertable
<1>4. [password |-> req.password, role |-> "user"] \in Rows
  BY <1>1 DEF Rows, Roles
<1> QED BY <1>1, <1>2, <1>3, <1>4 DEF TypeOK, Insertable

-----------------------------------------------------------------------------
(* The invariant.                                                          *)

(* A hashed password is one that bcrypt took.                              *)
HashedFits(c) ==
  call[c].at = "hashed" =>
    call[c].req.op = "register" /\ call[c].req.password \notin LongPasswords

(* The row a login has read is still the user's when it is compared.       *)
ReadAgrees(c) ==
  call[c].at = "read" =>
    /\ call[c].req.op = "login" /\ call[c].req.name \in Taken
    /\ users[call[c].req.name] = call[c].row

(* Credentials that were right stay right.                                 *)
KnownIsRight(c) ==
  call[c].at # "idle" /\ call[c].req.op = "login" /\ call[c].req.known =>
    Right(call[c].req.name, call[c].req.password)

SameUser(access, refresh) == access.name = refresh.name /\ access.role = refresh.role

OfKind(k) == k["access"].kind = "access" /\ k["refresh"].kind = "refresh"

(* An answer sets both cookies, for one user, or clears both, or neither.  *)
CookiesPaired(c) ==
  call[c].at = "answered" /\ call[c].cookies \notin {None, Cleared} =>
    /\ call[c].cookies \in [Kinds -> issued] /\ OfKind(call[c].cookies)
    /\ SameUser(call[c].cookies["access"], call[c].cookies["refresh"])

(* CredentialsDecide, of one request.                                      *)
Decided(c) ==
  Answered(c, "login") =>
    /\ call[c].status = 200 => Right(call[c].req.name, call[c].req.password)
    /\ call[c].status = 401 => ~call[c].req.known \/ call[c].failed

CallInv(c) ==
  /\ HashedFits(c) /\ ReadAgrees(c) /\ KnownIsRight(c) /\ CookiesPaired(c)
  /\ Decided(c)

(* The browser has both cookies or none, and the access cookie goes first. *)
JarPaired ==
  \/ jar = Cleared
  \/ /\ jar \in [Kinds -> [token : issued, until : Nat]]
     /\ SameUser(jar["access"].token, jar["refresh"].token)
     /\ jar["access"].until <= jar["refresh"].until

Inv ==
  /\ TypeOK
  /\ \A c \in Calls : CallInv(c)
  /\ JarPaired /\ OneOwner /\ TokensMatchUsers

LEMMA InsertType ==
  ASSUME Inv, NEW c \in Calls, Insert(c)
  PROVE  TypeOK'
<1> DEFINE req == call[c].req
<1>1. req \in Requests /\ req.op = "register" /\ req.password \notin LongPasswords
  BY StateFields DEF Inv, TypeOK, CallInv, HashedFits, Insert
<1>2. req.name \in Names /\ req.password \in Passwords
  BY <1>1, RequestFields
<1>3. issued' = issued /\ jar' = jar /\ now' = now /\ faults' = faults
  BY DEF Insert
<1>4. req \in Requests' /\ None \in Cookies'
  BY <1>1, <1>3, StatesGrow DEF Cookies
<1>5. ASSUME NEW status \in {201, 409}, Answer(c, status, None, FALSE)
      PROVE  call' \in [Calls -> CallStates']
  <2> DEFINE s == [at |-> "answered", req |-> req, status |-> status,
                   cookies |-> None, failed |-> FALSE]
  <2>1. s \in CallStates'
    BY <1>4 DEF CallStates
  <2>2. call' = [call EXCEPT ![c] = s]
    BY <1>5 DEF Answer
  <2>3. call \in [Calls -> CallStates']
    BY <1>3, CallsGrow DEF Inv
  <2> HIDE DEF s
  <2> QED BY <2>1, <2>2, <2>3
<1>6. jar' \in [Kinds -> {None} \cup [token : issued', until : Nat]]
  BY <1>3, JarKept DEF Inv
<1>7. CASE Insertable(req.name)
  <2>1. NewUser(req) /\ Answer(c, 201, None, FALSE)
        /\ created' = created \cup {[name |-> req.name, password |-> req.password]}
    BY <1>7 DEF Insert
  <2>2. Taken' \subseteq Names \ LongNames /\ \A n \in Taken' : users'[n] \in Rows
    BY <1>1, <1>7, <2>1, NewUserType DEF Inv
  <2>3. created' \subseteq [name : Names, password : Passwords]
    BY <1>2, <2>1 DEF Inv, TypeOK
  <2> QED BY <1>3, <1>5, <1>6, <2>1, <2>2, <2>3 DEF Inv, TypeOK
<1>8. CASE ~Insertable(req.name)
  <2>1. Answer(c, 409, None, FALSE) /\ users' = users /\ created' = created
    BY <1>8 DEF Insert
  <2> QED BY <1>3, <1>5, <1>6, <2>1 DEF Inv, TypeOK, Taken
<1> QED BY <1>7, <1>8

LEMMA FailType ==
  ASSUME Inv, NEW c \in Calls, Fail(c)
  PROVE  TypeOK'
<1> DEFINE req == call[c].req
<1>1. req \in Requests
  <2>1. call[c].at \in {"sent", "hashed"}
    BY DEF Fail, Sent
  <2> QED BY <2>1, StateFields DEF Inv, TypeOK
<1>2. /\ issued' = issued /\ jar' = jar /\ now' = now /\ created' = created
      /\ faults' \in 0..MaxFaults
  BY AccountsAssumption DEF Fail, Inv, TypeOK
<1>3. req \in Requests' /\ None \in Cookies'
  BY <1>1, <1>2, StatesGrow DEF Cookies
<1>4. PICK status \in {401, 409} : Answer(c, status, None, TRUE)
  <2>1. Answer(c, 401, None, TRUE) \/ Answer(c, 409, None, TRUE)
    BY Zenon DEF Fail
  <2>2. CASE Answer(c, 401, None, TRUE)
    BY <2>2, Zenon
  <2>3. CASE Answer(c, 409, None, TRUE)
    BY <2>3, Zenon
  <2> QED BY <2>1, <2>2, <2>3
<1> DEFINE s == [at |-> "answered", req |-> req, status |-> status,
                 cookies |-> None, failed |-> TRUE]
<1>5. s \in CallStates' /\ call' = [call EXCEPT ![c] = s] /\ call \in [Calls -> CallStates']
  <2>1. s \in CallStates'
    BY <1>3 DEF CallStates
  <2>2. call' = [call EXCEPT ![c] = s]
    BY <1>4 DEF Answer
  <2>3. call \in [Calls -> CallStates']
    BY <1>2, CallsGrow DEF Inv
  <2> QED BY <2>1, <2>2, <2>3
<1>6. call' \in [Calls -> CallStates']
  <2> HIDE DEF s
  <2> QED BY <1>5
<1>7. jar' \in [Kinds -> {None} \cup [token : issued', until : Nat]]
  BY <1>2, JarKept DEF Inv
<1>8. Taken' \subseteq Names \ LongNames /\ \A n \in Taken' : users'[n] \in Rows
  <2>1. CASE users' = users
    BY <2>1 DEF Inv, TypeOK, Taken
  <2>2. CASE call[c].at = "hashed" /\ Insertable(req.name) /\ NewUser(req)
    <3>1. req.op = "register" /\ req.password \notin LongPasswords
      BY <2>2 DEF Inv, CallInv, HashedFits
    <3> QED BY <1>1, <2>2, <3>1, NewUserType DEF Inv
  <2>3. \/ users' = users
        \/ call[c].at = "hashed" /\ Insertable(req.name) /\ NewUser(req)
    BY Zenon DEF Fail
  <2> QED BY <2>1, <2>2, <2>3
<1> QED BY <1>2, <1>6, <1>7, <1>8 DEF Inv, TypeOK

LEMMA ReceiveType ==
  ASSUME TypeOK, NEW c \in Calls, Receive(c)
  PROVE  TypeOK'
<1> DEFINE k == call[c].cookies
<1>1. k \in {None} \cup [Kinds -> issued \cup {None}]
  BY StateFields DEF TypeOK, Receive, Cookies
<1>2. UNCHANGED <<now, users, issued, created, faults>>
  BY DEF Receive
<1>3. jar' \in [Kinds -> {None} \cup [token : issued', until : Nat]]
  <2>1. CASE k = None
    BY <1>2, <2>1, JarKept DEF Receive
  <2>2. CASE k # None
    <3>1. jar' = [kind \in Kinds |-> CookieOf(k[kind])] /\ k \in [Kinds -> issued \cup {None}]
      BY <1>1, <2>2 DEF Receive
    <3>2. ASSUME NEW t \in issued \cup {None}
          PROVE  CookieOf(t) \in {None} \cup [token : issued, until : Nat]
      BY TTLIsNat DEF CookieOf, TypeOK, Tokens
    <3> QED BY <1>2, <3>1, <3>2
  <2> QED BY <2>1, <2>2
<1>4. call' \in [Calls -> CallStates']
  <2>1. Idle \in CallStates' /\ call' = [call EXCEPT ![c] = Idle]
    BY DEF CallStates, Receive
  <2>2. call \in [Calls -> CallStates']
    BY <1>2, CallsGrow
  <2> QED BY <2>1, <2>2
<1> QED BY <1>2, <1>3, <1>4 DEF TypeOK, Taken

LEMMA CompareType ==
  ASSUME Inv, NEW c \in Calls, Compare(c)
  PROVE  TypeOK'
<1> DEFINE req == call[c].req
<1>1. /\ req \in Requests /\ req.op = "login" /\ call[c].row \in Rows
  BY StateFields DEF Inv, TypeOK, Compare, CallInv, ReadAgrees
<1>2. req.name \in Names /\ call[c].row.role \in Roles
  BY <1>1, RequestFields DEF Rows
<1>3. call[c].at # "idle" /\ UNCHANGED <<now, users, jar, created, faults>>
  BY DEF Compare
<1>4. CASE Matches(call[c].row, req.password)
  BY <1>2, <1>3, <1>4, GrantedType DEF Compare, Inv
<1>5. CASE ~Matches(call[c].row, req.password)
  BY <1>3, <1>5, RefusedType DEF Compare, Inv
<1> QED BY <1>4, <1>5

LEMMA RefreshType ==
  ASSUME TypeOK, NEW c \in Calls, Refresh(c)
  PROVE  TypeOK'
<1> DEFINE t == call[c].req.token
<1>1. t \in issued \cup {None}
  BY StateFields, RequestFields DEF TypeOK, Refresh, Sent
<1>2. call[c].at # "idle" /\ UNCHANGED <<now, users, jar, created, faults>>
  BY DEF Refresh, Sent
<1>3. CASE Valid(t)
  <2>1. t.name \in Names /\ t.role \in Roles
    BY <1>1, <1>3 DEF TypeOK, Tokens, Valid
  <2> QED BY <1>2, <1>3, <2>1, GrantedType DEF Refresh
<1>4. CASE ~Valid(t)
  BY <1>2, <1>4, RefusedType DEF Refresh
<1> QED BY <1>3, <1>4

LEMMA LoginType ==
  ASSUME TypeOK, NEW c \in Calls, Login(c)
  PROVE  TypeOK'
<1> DEFINE req == call[c].req
           row == Row(req.name)
<1>1. call[c].at = "sent" /\ UNCHANGED <<now, users, jar, created, faults>>
  BY DEF Login, Sent
<1>2. CASE row = None
  BY <1>1, <1>2, RefusedType DEF Login
<1>3. CASE row # None
  <2>1. req \in Requests
    BY <1>1, StateFields DEF TypeOK
  <2>2. row \in Rows
    BY <1>3 DEF Row, TypeOK
  <2> DEFINE s == [at |-> "read", req |-> req, row |-> row]
  <2>3. s \in CallStates
    BY <2>1, <2>2 DEF CallStates
  <2>4. call' = [call EXCEPT ![c] = s] /\ issued' = issued
    BY <1>3 DEF Login
  <2> HIDE DEF s
  <2> QED BY <1>1, <2>3, <2>4, OnlyCall
<1> QED BY <1>2, <1>3

LEMMA HashType ==
  ASSUME TypeOK, NEW c \in Calls, Hash(c)
  PROVE  TypeOK'
<1>1. call[c].at = "sent" /\ UNCHANGED <<now, users, jar, created, faults>>
  BY DEF Hash, Sent
<1>2. CASE call[c].req.password \in LongPasswords
  BY <1>1, <1>2, RefusedType DEF Hash
<1>3. CASE call[c].req.password \notin LongPasswords
  <2>1. call[c].req \in Requests
    BY <1>1, StateFields DEF TypeOK
  <2> DEFINE s == [at |-> "hashed", req |-> call[c].req]
  <2>2. s \in CallStates
    BY <2>1 DEF CallStates
  <2>3. call' = [call EXCEPT ![c] = s] /\ issued' = issued
    BY <1>3 DEF Hash
  <2> HIDE DEF s
  <2> QED BY <1>1, <2>2, <2>3, OnlyCall
<1> QED BY <1>2, <1>3

LEMMA LogoutType ==
  ASSUME TypeOK, NEW c \in Calls, Logout(c)
  PROVE  TypeOK'
<1>1. call[c].req \in Requests
  BY StateFields DEF TypeOK, Logout, Sent
<1>2. Cleared \in Cookies
  BY DEF Cleared, Cookies
<1> DEFINE s == [at |-> "answered", req |-> call[c].req, status |-> 200,
                 cookies |-> Cleared, failed |-> FALSE]
<1>3. s \in CallStates
  BY <1>1, <1>2 DEF CallStates
<1>4. /\ call' = [call EXCEPT ![c] = s]
      /\ UNCHANGED <<now, users, jar, issued, created, faults>>
  BY DEF Logout, Answer
<1> HIDE DEF s
<1> QED BY <1>3, <1>4, OnlyCall

LEMMA TypeStep ==
  ASSUME Inv, [Next]_vars
  PROVE  TypeOK'
<1>1. TypeOK
  BY DEF Inv
<1>2. CASE Tick
  BY <1>1, <1>2, StatesGrow, AccountsAssumption DEF Tick, TypeOK, Taken
<1>3. CASE UNCHANGED vars
  BY <1>1, <1>3, StatesGrow DEF vars, TypeOK, Taken
<1>4. ASSUME NEW c \in Calls,
             SendCredentials(c) \/ SendToken(c) \/ SendCookie(c) \/ SendLogout(c) \/ SendMalformed(c)
      PROVE  TypeOK'
  BY <1>1, <1>4, SendsType, SendType
<1>5. ASSUME NEW c \in Calls, Reject(c)
      PROVE  TypeOK'
  BY <1>1, <1>5, RefusedType DEF Reject, Sent
<1>6. ASSUME NEW c \in Calls, Authenticate(c)
      PROVE  TypeOK'
  BY <1>1, <1>6, RefusedType DEF Authenticate, Sent
<1> QED
  BY <1>1, <1>2, <1>3, <1>4, <1>5, <1>6, LoginType, CompareType, HashType, InsertType, FailType,
     RefreshType, LogoutType, ReceiveType DEF Next

-----------------------------------------------------------------------------
(* The steps of the other parts.                                           *)

UsersKept == Taken \subseteq Taken' /\ \A n \in Taken : users'[n] = users[n]

(* No step takes a user away or changes a row, and tokens are not recalled. *)
LEMMA UsersStep ==
  ASSUME Inv, [Next]_vars
  PROVE  UsersKept /\ issued \subseteq issued'
<1>1. ASSUME NEW c \in Calls, call[c].at = "hashed", NewUser(call[c].req),
             Insertable(call[c].req.name)
      PROVE  UsersKept
  <2>1. /\ call[c].req \in Requests /\ call[c].req.op = "register"
        /\ call[c].req.password \notin LongPasswords
    BY <1>1, StateFields DEF Inv, TypeOK, CallInv, HashedFits
  <2> QED BY <1>1, <2>1, NewUserType DEF Inv, UsersKept
<1>2. ASSUME UNCHANGED users
      PROVE  UsersKept
  BY <1>2 DEF UsersKept, Taken
<1>3. ASSUME NEW c \in Calls, Insert(c)
      PROVE  UsersKept /\ issued' = issued
  BY <1>1, <1>2, <1>3 DEF Insert
<1>4. ASSUME NEW c \in Calls, Fail(c)
      PROVE  UsersKept /\ issued' = issued
  BY <1>1, <1>2, <1>4 DEF Fail
<1>5. ASSUME NEW c \in Calls,
             \/ SendCredentials(c) \/ SendToken(c) \/ SendCookie(c) \/ SendLogout(c)
             \/ SendMalformed(c) \/ Reject(c) \/ Login(c) \/ Compare(c) \/ Hash(c)
             \/ Refresh(c) \/ Authenticate(c) \/ Logout(c) \/ Receive(c)
      PROVE  users' = users /\ issued \subseteq issued'
  BY <1>5 DEF SendCredentials, SendToken, SendCookie, SendLogout, SendMalformed, Send, Reject,
     Login, Compare, Hash, Refresh, Authenticate, Logout, Receive, Refuse, Grant
<1> QED BY <1>2, <1>3, <1>4, <1>5 DEF Next, Tick, vars

LEMMA RightKept ==
  ASSUME UsersKept, NEW n, NEW p, Right(n, p)
  PROVE  Right(n, p)'
BY DEF UsersKept, Right

(* A request that a step does not touch.                                   *)
LEMMA CallKept ==
  ASSUME Inv, UsersKept, issued \subseteq issued', NEW c \in Calls, call'[c] = call[c]
  PROVE  CallInv(c)'
<1>1. HashedFits(c)' /\ ReadAgrees(c)'
  BY DEF Inv, CallInv, HashedFits, ReadAgrees, UsersKept
<1>2. KnownIsRight(c)'
  BY RightKept DEF Inv, CallInv, KnownIsRight
<1>3. CookiesPaired(c)'
  BY DEF Inv, CallInv, CookiesPaired, Cleared, None, OfKind, SameUser
<1>4. Decided(c)'
  BY RightKept DEF Inv, CallInv, Decided, Answered
<1> QED BY <1>1, <1>2, <1>3, <1>4 DEF CallInv

LEMMA SendCall ==
  ASSUME Inv, NEW c \in Calls,
         SendCredentials(c) \/ SendToken(c) \/ SendCookie(c) \/ SendLogout(c) \/ SendMalformed(c)
  PROVE  CallInv(c)'
<1>1. PICK r \in Requests : Send(c, r)
  BY SendsType DEF Inv
<1>2. call'[c] = [at |-> "sent", req |-> r] /\ users' = users
  BY <1>1 DEF Send, Inv, TypeOK
<1>3. call'[c].req.op = "login" =>
        call'[c].req.known = Right(call'[c].req.name, call'[c].req.password)
  <2>1. CASE SendCredentials(c)
    BY <2>1 DEF SendCredentials, Send, Inv, TypeOK
  <2>2. CASE SendToken(c) \/ SendCookie(c) \/ SendLogout(c) \/ SendMalformed(c)
    BY <2>2 DEF SendToken, SendCookie, SendLogout, SendMalformed, Send, Inv, TypeOK
  <2> QED BY <2>1, <2>2
<1>4. KnownIsRight(c)'
  BY <1>2, <1>3 DEF KnownIsRight, Right, Taken
<1> QED
  BY <1>2, <1>4 DEF CallInv, HashedFits, ReadAgrees, CookiesPaired, Decided, Answered

(* An answer, once what it says has been looked at.                        *)
LEMMA AnswerCall ==
  ASSUME Inv, UsersKept, NEW c \in Calls, call[c].at # "idle",
         call'[c].at = "answered", call'[c].req = call[c].req,
         CookiesPaired(c)', Decided(c)'
  PROVE  CallInv(c)'
<1>1. KnownIsRight(c)'
  BY RightKept DEF Inv, CallInv, KnownIsRight
<1> QED BY <1>1 DEF CallInv, HashedFits, ReadAgrees

LEMMA GrantCall ==
  ASSUME Inv, UsersKept, NEW c \in Calls, call[c].at # "idle", call[c].req.op # "register",
         NEW name \in Names, NEW role \in Roles, Grant(c, name, role),
         call[c].req.op = "login" => Right(call[c].req.name, call[c].req.password)
  PROVE  CallInv(c)'
<1> DEFINE k == Pair(name, role)
<1>1. /\ k \in [Kinds -> issued']
      /\ \A kind \in Kinds : k[kind] = Token(name, role, kind)
  BY PairShape DEF Grant, Inv, TypeOK
<1>2. OfKind(k) /\ SameUser(k["access"], k["refresh"])
  BY <1>1 DEF OfKind, SameUser, Token, Kinds
<1>3. /\ call'[c].at = "answered" /\ call'[c].req = call[c].req
      /\ call'[c].status = 200 /\ call'[c].cookies = k
  BY DEF Grant, Answer, Inv, TypeOK
<1> HIDE DEF k
<1>4. CookiesPaired(c)'
  BY <1>1, <1>2, <1>3 DEF CookiesPaired, OfKind, SameUser
<1>5. Decided(c)'
  BY <1>3, RightKept DEF Decided, Answered
<1> QED BY <1>3, <1>4, <1>5, AnswerCall

LEMMA RefuseCall ==
  ASSUME Inv, UsersKept, NEW c \in Calls, call[c].at # "idle", NEW status, Refuse(c, status),
         call[c].req.op = "login" => status = 401 /\ ~call[c].req.known
  PROVE  CallInv(c)'
<1>1. /\ call'[c].at = "answered" /\ call'[c].req = call[c].req
      /\ call'[c].status = status /\ call'[c].cookies = None
  BY DEF Refuse, Answer, Inv, TypeOK
<1>2. CookiesPaired(c)'
  BY <1>1 DEF CookiesPaired, None
<1>3. Decided(c)'
  BY <1>1 DEF Decided, Answered
<1> QED BY <1>1, <1>2, <1>3, AnswerCall

LEMMA LoginCall ==
  ASSUME Inv, UsersKept, NEW c \in Calls, Login(c)
  PROVE  CallInv(c)'
<1> DEFINE req == call[c].req
           row == Row(req.name)
<1>1. call[c].at # "idle" /\ req.op = "login" /\ users' = users
  BY DEF Login, Sent
<1>2. req.known => Right(req.name, req.password)
  BY <1>1 DEF Inv, CallInv, KnownIsRight
<1>3. CASE row = None
  <2>1. req.name \notin Taken
    BY <1>3, NoneIsNoRow DEF Row, Inv, TypeOK
  <2>2. ~req.known
    BY <1>2, <2>1 DEF Right
  <2>3. Refuse(c, 401)
    BY <1>3 DEF Login
  <2> QED BY <1>1, <2>2, <2>3, RefuseCall
<1>4. CASE row # None
  <2>1. req.name \in Taken /\ row = users[req.name]
    BY <1>4 DEF Row
  <2>2. call'[c] = [at |-> "read", req |-> req, row |-> row]
    BY <1>4 DEF Login, Inv, TypeOK
  <2>3. ReadAgrees(c)' /\ KnownIsRight(c)'
    BY <1>1, <1>2, <2>1, <2>2, RightKept DEF ReadAgrees, KnownIsRight, Taken
  <2> QED BY <2>2, <2>3 DEF CallInv, HashedFits, CookiesPaired, Decided, Answered
<1> QED BY <1>3, <1>4

LEMMA CompareCall ==
  ASSUME Inv, UsersKept, NEW c \in Calls, Compare(c)
  PROVE  CallInv(c)'
<1> DEFINE req == call[c].req
           row == call[c].row
<1>1. /\ call[c].at # "idle" /\ req \in Requests /\ row \in Rows /\ req.op = "login"
      /\ req.name \in Taken /\ users[req.name] = row
  BY StateFields DEF Inv, TypeOK, CallInv, ReadAgrees, Compare
<1>2. req.known => Right(req.name, req.password)
  BY <1>1 DEF Inv, CallInv, KnownIsRight
<1>3. Matches(row, req.password) <=> Right(req.name, req.password)
  BY <1>1, NoneIsNoRow DEF Matches, Right
<1>4. CASE Matches(row, req.password)
  <2>1. req.name \in Names /\ row.role \in Roles /\ Grant(c, req.name, row.role)
    BY <1>1, <1>4, RequestFields DEF Rows, Compare
  <2> QED BY <1>1, <1>3, <1>4, <2>1, GrantCall
<1>5. CASE ~Matches(row, req.password)
  <2>1. Refuse(c, 401)
    BY <1>5 DEF Compare
  <2> QED BY <1>1, <1>2, <1>3, <1>5, <2>1, RefuseCall
<1> QED BY <1>4, <1>5

LEMMA HashCall ==
  ASSUME Inv, UsersKept, NEW c \in Calls, Hash(c)
  PROVE  CallInv(c)'
<1>1. call[c].at # "idle" /\ call[c].req.op = "register"
  BY DEF Hash, Sent
<1>2. CASE call[c].req.password \in LongPasswords
  BY <1>1, <1>2, RefuseCall DEF Hash
<1>3. CASE call[c].req.password \notin LongPasswords
  <2>1. call'[c] = [at |-> "hashed", req |-> call[c].req]
    BY <1>3 DEF Hash, Inv, TypeOK
  <2> QED
    BY <1>1, <1>3, <2>1
    DEF CallInv, HashedFits, ReadAgrees, KnownIsRight, CookiesPaired, Decided, Answered
<1> QED BY <1>2, <1>3

LEMMA InsertCall ==
  ASSUME Inv, UsersKept, NEW c \in Calls, Insert(c)
  PROVE  CallInv(c)'
<1>1. call[c].at # "idle" /\ call[c].req.op = "register"
  BY DEF Insert, Inv, CallInv, HashedFits
<1>2. /\ call'[c].at = "answered" /\ call'[c].req = call[c].req /\ call'[c].cookies = None
  BY DEF Insert, Answer, Inv, TypeOK
<1>3. CookiesPaired(c)'
  BY <1>2 DEF CookiesPaired, None
<1>4. Decided(c)'
  BY <1>1, <1>2 DEF Decided, Answered
<1> QED BY <1>1, <1>2, <1>3, <1>4, AnswerCall

LEMMA FailCall ==
  ASSUME Inv, UsersKept, NEW c \in Calls, Fail(c)
  PROVE  CallInv(c)'
<1>1. call[c].at # "idle"
  BY DEF Fail, Sent
<1>2. /\ call'[c].at = "answered" /\ call'[c].req = call[c].req /\ call'[c].cookies = None
      /\ call'[c].status # 200 /\ call'[c].failed
  BY DEF Fail, Answer, Inv, TypeOK
<1>3. CookiesPaired(c)'
  BY <1>2 DEF CookiesPaired, None
<1>4. Decided(c)'
  BY <1>2 DEF Decided, Answered
<1> QED BY <1>1, <1>2, <1>3, <1>4, AnswerCall

LEMMA RefreshCall ==
  ASSUME Inv, UsersKept, NEW c \in Calls, Refresh(c)
  PROVE  CallInv(c)'
<1> DEFINE t == call[c].req.token
<1>1. call[c].at # "idle" /\ call[c].req.op = "refresh" /\ t \in issued \cup {None}
  BY StateFields, RequestFields DEF Inv, TypeOK, Refresh, Sent
<1>2. CASE Valid(t)
  <2>1. t.name \in Names /\ t.role \in Roles /\ Grant(c, t.name, t.role)
    BY <1>1, <1>2 DEF Inv, TypeOK, Tokens, Valid, Refresh
  <2> QED BY <1>1, <2>1, GrantCall
<1>3. CASE ~Valid(t)
  BY <1>1, <1>3, RefuseCall DEF Refresh
<1> QED BY <1>2, <1>3

LEMMA LogoutCall ==
  ASSUME Inv, UsersKept, NEW c \in Calls, Logout(c)
  PROVE  CallInv(c)'
<1>1. call[c].at # "idle" /\ call[c].req.op = "logout"
  BY DEF Logout, Sent
<1>2. call'[c].at = "answered" /\ call'[c].req = call[c].req /\ call'[c].cookies = Cleared
  BY DEF Logout, Answer, Inv, TypeOK
<1>3. CookiesPaired(c)'
  BY <1>2 DEF CookiesPaired, Cleared, None
<1>4. Decided(c)'
  BY <1>1, <1>2 DEF Decided, Answered
<1> QED BY <1>1, <1>2, <1>3, <1>4, AnswerCall

LEMMA CallsStep ==
  ASSUME Inv, [Next]_vars
  PROVE  \A d \in Calls : CallInv(d)'
<1>1. UsersKept /\ issued \subseteq issued'
  BY UsersStep
<1>2. ASSUME NEW d \in Calls, call'[d] = call[d]
      PROVE  CallInv(d)'
  BY <1>1, <1>2, CallKept
<1>3. CASE call' = call
  BY <1>2, <1>3
<1>4. ASSUME NEW c \in Calls, \A d \in Calls \ {c} : call'[d] = call[d], CallInv(c)'
      PROVE  \A d \in Calls : CallInv(d)'
  BY <1>2, <1>4
<1>5. ASSUME NEW c \in Calls,
             \/ SendCredentials(c) \/ SendToken(c) \/ SendCookie(c) \/ SendLogout(c)
             \/ SendMalformed(c)
      PROVE  \A d \in Calls : CallInv(d)'
  <2>1. \A d \in Calls \ {c} : call'[d] = call[d]
    BY <1>5 DEF SendCredentials, SendToken, SendCookie, SendLogout, SendMalformed, Send, Inv, TypeOK
  <2> QED BY <1>4, <1>5, <2>1, SendCall
<1>6. ASSUME NEW c \in Calls,
             \/ Login(c) \/ Compare(c) \/ Hash(c) \/ Insert(c) \/ Fail(c) \/ Refresh(c) \/ Logout(c)
      PROVE  \A d \in Calls : CallInv(d)'
  <2>1. \A d \in Calls \ {c} : call'[d] = call[d]
    BY <1>6 DEF Login, Compare, Hash, Insert, Fail, Refresh, Logout, Refuse, Grant, Answer, Inv, TypeOK
  <2>2. CallInv(c)'
    BY <1>1, <1>6, LoginCall, CompareCall, HashCall, InsertCall, FailCall, RefreshCall, LogoutCall
  <2> QED BY <1>4, <2>1, <2>2
<1>7. ASSUME NEW c \in Calls, Reject(c) \/ Authenticate(c)
      PROVE  \A d \in Calls : CallInv(d)'
  <2>1. PICK status \in {200, 400, 401} : Refuse(c, status)
    BY <1>7 DEF Reject, Authenticate
  <2>2. call[c].at # "idle" /\ call[c].req.op \in {"malformed", "page"}
    BY <1>7 DEF Reject, Authenticate, Sent
  <2>3. CallInv(c)'
    BY <1>1, <2>1, <2>2, RefuseCall
  <2>4. \A d \in Calls \ {c} : call'[d] = call[d]
    BY <2>1 DEF Refuse, Answer, Inv, TypeOK
  <2> QED BY <1>4, <2>3, <2>4
<1>8. ASSUME NEW c \in Calls, Receive(c)
      PROVE  \A d \in Calls : CallInv(d)'
  <2>1. call' = [call EXCEPT ![c] = Idle]
    BY <1>8 DEF Receive
  <2>2. call'[c] = Idle /\ \A d \in Calls \ {c} : call'[d] = call[d]
    BY <2>1 DEF Inv, TypeOK
  <2>3. CallInv(c)'
    BY <2>2 DEF Idle, CallInv, HashedFits, ReadAgrees, KnownIsRight, CookiesPaired,
       Decided, Answered
  <2> QED BY <1>4, <2>2, <2>3
<1> QED BY <1>3, <1>5, <1>6, <1>7, <1>8 DEF Next, Tick, vars

LEMMA ReceiveJar ==
  ASSUME Inv, NEW c \in Calls, Receive(c)
  PROVE  JarPaired'
<1> DEFINE k == call[c].cookies
<1>1. k \in Cookies /\ CookiesPaired(c) /\ call[c].at = "answered" /\ issued' = issued
  BY StateFields DEF Inv, TypeOK, CallInv, Receive
<1>2. CASE k = None
  BY <1>1, <1>2 DEF Receive, Inv, JarPaired, Cleared, None
<1>3. CASE k = Cleared
  <2>1. jar' = [kind \in Kinds |-> CookieOf(Cleared[kind])]
    <3>1. Cleared # None
      BY DEF Cleared, None, Kinds
    <3> QED BY <1>3, <3>1 DEF Receive
  <2>2. \A kind \in Kinds : CookieOf(Cleared[kind]) = None
    BY DEF Cleared, CookieOf
  <2> QED BY <2>1, <2>2 DEF JarPaired, Cleared, None
<1>4. CASE k \notin {None, Cleared}
  <2>1. /\ k \in [Kinds -> issued] /\ OfKind(k) /\ SameUser(k["access"], k["refresh"])
        /\ issued \subseteq Tokens /\ now \in Nat
    BY <1>1, <1>4 DEF CookiesPaired, Inv, TypeOK, OfKind, SameUser
  <2>2. jar' = [kind \in Kinds |-> CookieOf(k[kind])]
    BY <1>4 DEF Receive
  <2>3. ASSUME NEW t \in issued
        PROVE  CookieOf(t) = [token |-> t, until |-> now + TTL(t.kind)] /\ TTL(t.kind) \in Nat
    BY <2>1, NoneIsNoToken, TTLIsNat DEF CookieOf, Tokens
  <2>4. /\ jar' \in [Kinds -> [token : issued', until : Nat]]
        /\ jar'["access"] = [token |-> k["access"], until |-> now + AccessTTL]
        /\ jar'["refresh"] = [token |-> k["refresh"], until |-> now + RefreshTTL]
    BY <1>1, <2>1, <2>2, <2>3 DEF Kinds, OfKind, TTL
  <2>5. now + AccessTTL <= now + RefreshTTL
    BY <2>1, AccountsAssumption
  <2> QED BY <2>1, <2>4, <2>5 DEF JarPaired, SameUser
<1> QED BY <1>2, <1>3, <1>4

LEMMA JarStep ==
  ASSUME Inv, [Next]_vars
  PROVE  JarPaired'
<1>1. issued \subseteq issued'
  BY UsersStep
<1>2. CASE jar' = jar
  BY <1>1, <1>2 DEF Inv, JarPaired, Cleared, None, SameUser
<1>3. ASSUME NEW c \in Calls, ~Receive(c),
             \/ SendCredentials(c) \/ SendToken(c) \/ SendCookie(c) \/ SendLogout(c)
             \/ SendMalformed(c) \/ Reject(c) \/ Login(c) \/ Compare(c) \/ Hash(c) \/ Insert(c)
             \/ Fail(c) \/ Refresh(c) \/ Authenticate(c) \/ Logout(c)
      PROVE  jar' = jar
  BY <1>3 DEF SendCredentials, SendToken, SendCookie, SendLogout, SendMalformed, Send, Reject,
     Login, Compare, Hash, Insert, Fail, Refresh, Authenticate, Logout
<1> QED BY <1>2, <1>3, ReceiveJar DEF Next, Tick, vars

(* Only an insert answers 201, and it inserts what it was sent.            *)
LEMMA OwnerStep ==
  ASSUME Inv, [Next]_vars
  PROVE  OneOwner'
<1>1. UsersKept
  BY UsersStep
<1>2. \A n \in DOMAIN Seeds : Row(n)' = Seeds[n]
  <2>1. \A n \in DOMAIN Seeds : n \in Taken /\ users[n] = Seeds[n]
    BY AccountsAssumption, NoneIsNoRow DEF Inv, OneOwner, Row
  <2> QED BY <1>1, <2>1 DEF UsersKept, Row
<1>3. ASSUME NEW r \in created
      PROVE  Row(r.name)' = [password |-> r.password, role |-> "user"]
  <2>1. Row(r.name) = [password |-> r.password, role |-> "user"]
    BY DEF Inv, OneOwner
  <2>2. r.name \in Taken
    <3>1. DOMAIN Row(r.name) = {"password", "role"}
      BY <2>1
    <3>2. DOMAIN None = {"none"}
      BY DEF None
    <3>3. Row(r.name) # None
      BY <3>1, <3>2
    <3> QED BY <3>3 DEF Row
  <2> QED BY <1>1, <2>1, <2>2 DEF UsersKept, Row
<1>4. ASSUME NEW c \in Calls, Insert(c)
      PROVE  \A r \in created' : Row(r.name)' = [password |-> r.password, role |-> "user"]
  <2>1. PICK req \in Requests : /\ req = call[c].req /\ req.op = "register"
                                /\ req.password \notin LongPasswords
    BY <1>4, StateFields DEF Inv, TypeOK, CallInv, HashedFits, Insert
  <2>2. CASE Insertable(req.name)
    <3>1. /\ NewUser(req)
          /\ created' = created \cup {[name |-> req.name, password |-> req.password]}
      BY <1>4, <2>1, <2>2 DEF Insert
    <3>2. req.name \in Taken' /\ users'[req.name] = [password |-> req.password, role |-> "user"]
      BY <2>1, <2>2, <3>1, NewUserType DEF Inv
    <3>3. ASSUME NEW r \in created', r \notin created
          PROVE  Row(r.name)' = [password |-> r.password, role |-> "user"]
      <4>1. r.name = req.name /\ r.password = req.password
        BY <3>1, <3>3
      <4> QED BY <3>2, <4>1 DEF Row, Taken
    <3> QED BY <1>3, <3>3
  <2>3. CASE ~Insertable(req.name)
    BY <1>3, <1>4, <2>1, <2>3 DEF Insert
  <2> QED BY <2>2, <2>3
<1>5. CASE created' = created
  BY <1>2, <1>3, <1>5 DEF OneOwner
<1>6. ASSUME NEW c \in Calls,
             \/ SendCredentials(c) \/ SendToken(c) \/ SendCookie(c) \/ SendLogout(c)
             \/ SendMalformed(c) \/ Reject(c) \/ Login(c) \/ Compare(c) \/ Hash(c)
             \/ Fail(c) \/ Refresh(c) \/ Authenticate(c) \/ Logout(c) \/ Receive(c)
      PROVE  created' = created
  BY <1>6 DEF SendCredentials, SendToken, SendCookie, SendLogout, SendMalformed, Send, Reject,
     Login, Compare, Hash, Fail, Refresh, Authenticate, Logout, Receive
<1>7. ASSUME NEW c \in Calls, Insert(c)
      PROVE  OneOwner'
  BY <1>2, <1>4, <1>7 DEF OneOwner
<1> QED BY <1>5, <1>6, <1>7 DEF Next, Tick, vars

(* A token is given out for a row that was read, or for another token.     *)
LEMMA TokensStep ==
  ASSUME Inv, [Next]_vars
  PROVE  TokensMatchUsers'
<1>1. UsersKept
  BY UsersStep
<1>2. ASSUME NEW t \in issued
      PROVE  t.name \in Taken' /\ users'[t.name].role = t.role
  BY <1>1 DEF Inv, TokensMatchUsers, UsersKept
<1>3. CASE issued' = issued
  BY <1>2, <1>3 DEF TokensMatchUsers
<1>4. ASSUME NEW c \in Calls, NEW name \in Taken, Grant(c, name, users[name].role)
      PROVE  TokensMatchUsers'
  <2>1. ASSUME NEW kind \in Kinds, NEW t, t = Token(name, users[name].role, kind)
        PROVE  t.name \in Taken' /\ users'[t.name].role = t.role
    BY <1>1, <2>1 DEF Token, UsersKept
  <2> QED BY <1>2, <1>4, <2>1 DEF Grant, TokensMatchUsers
<1>5. ASSUME NEW c \in Calls, Compare(c)
      PROVE  TokensMatchUsers'
  <2>1. call[c].req.name \in Taken /\ users[call[c].req.name] = call[c].row
    BY <1>5 DEF Inv, CallInv, ReadAgrees, Compare
  <2> QED BY <1>3, <1>4, <1>5, <2>1 DEF Compare, Refuse
<1>6. ASSUME NEW c \in Calls, Refresh(c)
      PROVE  TokensMatchUsers'
  <2> DEFINE t == call[c].req.token
  <2>1. t \in issued \cup {None}
    BY <1>6, StateFields, RequestFields DEF Inv, TypeOK, Refresh, Sent
  <2>2. CASE Valid(t)
    <3>1. t.name \in Taken /\ users[t.name].role = t.role
      BY <2>1, <2>2 DEF Valid, Inv, TokensMatchUsers
    <3> QED BY <1>4, <1>6, <2>2, <3>1 DEF Refresh
  <2>3. CASE ~Valid(t)
    BY <1>3, <1>6, <2>3 DEF Refresh, Refuse
  <2> QED BY <2>2, <2>3
<1>7. ASSUME NEW c \in Calls,
             \/ SendCredentials(c) \/ SendToken(c) \/ SendCookie(c) \/ SendLogout(c)
             \/ SendMalformed(c) \/ Reject(c) \/ Login(c) \/ Hash(c) \/ Insert(c)
             \/ Fail(c) \/ Authenticate(c) \/ Logout(c) \/ Receive(c)
      PROVE  issued' = issued
  BY <1>7 DEF SendCredentials, SendToken, SendCookie, SendLogout, SendMalformed, Send, Reject,
     Login, Hash, Insert, Fail, Authenticate, Logout, Receive, Refuse
<1> QED BY <1>3, <1>5, <1>6, <1>7 DEF Next, Tick, vars

-----------------------------------------------------------------------------
(* The theorems.                                                           *)

LEMMA InitInv == Init => Inv
<1> SUFFICES ASSUME Init PROVE Inv
  OBVIOUS
<1>1. TypeOK
  BY InitType
<1>2. \A c \in Calls : CallInv(c)
  BY DEF Init, Idle, CallInv, HashedFits, ReadAgrees, KnownIsRight, CookiesPaired,
     Decided, Answered
<1>3. OneOwner
  BY DEF Init, OneOwner, Row, Taken
<1>4. JarPaired /\ TokensMatchUsers
  BY DEF Init, JarPaired, TokensMatchUsers
<1> QED BY <1>1, <1>2, <1>3, <1>4 DEF Inv

LEMMA NextInv == Inv /\ [Next]_vars => Inv'
BY TypeStep, CallsStep, JarStep, OwnerStep, TokensStep DEF Inv

(* The invariant holds in every state of the accounts, whatever tabs,      *)
(* failures and the clock do.                                              *)
THEOREM Invariance == Spec => []Inv
BY InitInv, NextInv, PTL DEF Spec

(* Requests, rows, tokens and cookies are what they are taken for; every   *)
(* user row fits the schema.                                               *)
THEOREM TypeCorrect == Spec => []TypeOK
<1>1. Inv => TypeOK
  BY DEF Inv
<1> QED BY <1>1, Invariance, PTL

(* A name stays with whom RegisterHandle answered 201.                     *)
THEOREM NamesOwned == Spec => []OneOwner
<1>1. Inv => OneOwner
  BY DEF Inv
<1> QED BY <1>1, Invariance, PTL

(* LoginHandle grants and refuses on what bcrypt reads of the passwords.   *)
THEOREM LoginsDecided == Spec => []CredentialsDecide
<1>1. Inv => CredentialsDecide
  BY DEF Inv, CallInv, Decided, CredentialsDecide
<1> QED BY <1>1, Invariance, PTL

(* However often RefreshHandle renews a token, its claims are the row's.   *)
THEOREM TokensTrue == Spec => []TokensMatchUsers
<1>1. Inv => TokensMatchUsers
  BY DEF Inv
<1> QED BY <1>1, Invariance, PTL

(* In whatever order answers arrive, the two cookies are of one answer.    *)
THEOREM JarOneSession == Spec => []JarIsOneSession
<1>1. Inv => JarIsOneSession
  <2> SUFFICES ASSUME Inv, jar["access"] # None, now < jar["access"].until
               PROVE  /\ jar["refresh"] # None /\ now < jar["refresh"].until
                      /\ SameUser(jar["access"].token, jar["refresh"].token)
    BY DEF JarIsOneSession, SameUser
  <2>1. jar # Cleared
    BY DEF Cleared, Kinds
  <2>2. /\ jar \in [Kinds -> [token : issued, until : Nat]]
        /\ SameUser(jar["access"].token, jar["refresh"].token)
        /\ jar["access"].until <= jar["refresh"].until
    BY <2>1 DEF Inv, JarPaired
  <2>3. /\ jar["refresh"] \in [token : issued, until : Nat]
        /\ jar["access"] \in [token : issued, until : Nat] /\ now \in Nat
    BY <2>2 DEF Kinds, Inv, TypeOK
  <2>4. now < jar["refresh"].until
    BY <2>2, <2>3
  <2> QED BY <2>2, <2>3, <2>4, NoneIsNoCookie
<1> QED BY <1>1, Invariance, PTL
=============================================================================
