------------------------------ MODULE Accounts ------------------------------
(***************************************************************************)
(* login.go, the users table and the tokens in a browser's cookie jar:     *)
(* several tabs of one browser register, log in, refresh, log out and open *)
(* pages at once, statements fail or lose their reply, and answers reach   *)
(* the jar in any order.                                                   *)
(***************************************************************************)
EXTENDS Naturals

CONSTANTS
  Calls,        \* requests that may be under way at once
  Names, Passwords,
  LongNames,    \* names of more than 50 characters, which users refuses
  LongPasswords,\* passwords of more than 72 bytes, which bcrypt hashes none of
  Reads,        \* password -> the 72 bytes that bcrypt makes of it
  Seeds,        \* name -> row, for the users of migration 000002
  AccessTTL, RefreshTTL, MaxTime,  \* ticks; the last is a bound
  MaxFaults     \* statements that fail (a bound)

Roles == {"admin", "user"}
Rows  == [password : Passwords \ LongPasswords, role : Roles]

ASSUME AccountsAssumption ==
  /\ LongNames \subseteq Names /\ LongPasswords \subseteq Passwords
  /\ DOMAIN Reads = Passwords
  /\ DOMAIN Seeds \subseteq Names \ LongNames
  /\ \A n \in DOMAIN Seeds : Seeds[n] \in Rows
  /\ AccessTTL \in Nat \ {0} /\ RefreshTTL \in Nat /\ AccessTTL <= RefreshTTL
  /\ MaxTime \in Nat /\ MaxFaults \in Nat

VARIABLES
  now,     \* the clock
  users,   \* name -> row, for the names that are taken
  call,    \* the requests under way
  jar,     \* the browser's cookies
  issued,  \* every token given out
  created, \* history: the registrations that were answered 201
  faults   \* statements that failed so far

vars == <<now, users, call, jar, issued, created, faults>>

None == [none |-> TRUE]   \* no row, no token, no cookie
Idle == [at |-> "idle"]

Kinds  == {"access", "refresh"}
Tokens == [name : Names, role : Roles, kind : Kinds, exp : Nat]

(* Mutant: the lifetimes change places.                                    *)
TTLSwapped(kind) == IF kind = "refresh" THEN AccessTTL ELSE RefreshTTL

TTL(kind) == IF kind = "access" THEN AccessTTL ELSE RefreshTTL

(* createToken, and the two cookies of an answer.                          *)
Token(name, role, kind) == [name |-> name, role |-> role, kind |-> kind, exp |-> now + TTL(kind)]
Pair(name, role) == [kind \in Kinds |-> Token(name, role, kind)]
Cleared == [kind \in Kinds |-> None]

(* jwt.Parse; a token that is forged or malformed is None.                 *)
Valid(t) == t # None /\ now < t.exp

Init ==
  /\ now = 0
  /\ users = Seeds
  /\ call = [c \in Calls |-> Idle]
  /\ jar = Cleared
  /\ issued = {}
  /\ created = {}
  /\ faults = 0

Taken == DOMAIN users
Row(name) == IF name \in Taken THEN users[name] ELSE None

(* Mutant: the user's existence is enough.                                 *)
MatchesAny(row, password) == row # None

(* bcrypt.CompareHashAndPassword refuses no length, and reads no more than *)
(* the first 72 bytes: a longer password may match.                        *)
Matches(row, password) == row # None /\ Reads[row.password] = Reads[password]

Send(c, request) ==
  /\ call[c] = Idle
  /\ call' = [call EXCEPT ![c] = [at |-> "sent", req |-> request]]
  /\ UNCHANGED <<now, users, jar, issued, created, faults>>

(* History: are these the credentials of a user now, as bcrypt reads them? *)
Right(name, password) == name \in Taken /\ Reads[users[name].password] = Reads[password]

(* known: the credentials were right when the request came.                *)
SendCredentials(c) ==
  \E op \in {"login", "register"}, name \in Names, password \in Passwords :
    Send(c, [op |-> op, name |-> name, password |-> password,
             known |-> Right(name, password)])

(* A refresh carries a token in its body, a page one in its header.        *)
SendToken(c) ==
  \E op \in {"refresh", "page"}, t \in issued \cup {None} :
    Send(c, [op |-> op, token |-> t])

(* The browser sends the access cookie while it keeps it.                  *)
SendCookie(c) ==
  LET cookie == jar["access"]
  IN  Send(c, [op |-> "page",
               token |-> IF cookie # None /\ now < cookie.until THEN cookie.token ELSE None])

SendLogout(c) == Send(c, [op |-> "logout"])

(* A body that ShouldBindJSON does not take.                               *)
SendMalformed(c) == Send(c, [op |-> "malformed"])

(* A handler's answer; its cookies are set when it reaches the browser.    *)
Answer(c, status, cookies, failed) ==
  call' = [call EXCEPT ![c] = [at |-> "answered", req |-> @.req, status |-> status,
                               cookies |-> cookies, failed |-> failed]]

Refuse(c, status) == Answer(c, status, None, FALSE) /\ UNCHANGED issued

(* 200, with both tokens.                                                  *)
Grant(c, name, role) ==
  /\ Answer(c, 200, Pair(name, role), FALSE)
  /\ issued' = issued \cup {Token(name, role, kind) : kind \in Kinds}

Sent(c, op) == call[c].at = "sent" /\ call[c].req.op = op

Reject(c) ==
  /\ Sent(c, "malformed")
  /\ Refuse(c, 400)
  /\ UNCHANGED <<now, users, jar, created, faults>>

(* LoginHandle: GetUser, then bcrypt on the row it read.                   *)
Login(c) ==
  LET row == Row(call[c].req.name)
  IN  /\ Sent(c, "login")
      /\ IF row = None
         THEN Refuse(c, 401)
         ELSE /\ call' = [call EXCEPT ![c] = [at |-> "read", req |-> @.req, row |-> row]]
              /\ UNCHANGED issued
      /\ UNCHANGED <<now, users, jar, created, faults>>

Compare(c) ==
  LET req == call[c].req
  IN  /\ call[c].at = "read"
      /\ IF Matches(call[c].row, req.password)
         THEN Grant(c, req.name, call[c].row.role)
         ELSE Refuse(c, 401)
      /\ UNCHANGED <<now, users, jar, created, faults>>

(* Mutant: bcrypt is believed to take any password.                        *)
HashUnchecked(c) ==
  /\ Sent(c, "register")
  /\ call' = [call EXCEPT ![c] = [at |-> "hashed", req |-> @.req]]
  /\ UNCHANGED <<now, users, jar, issued, created, faults>>

(* RegisterHandle: bcrypt first, which takes a tenth of a second.          *)
Hash(c) ==
  /\ Sent(c, "register")
  /\ IF call[c].req.password \in LongPasswords
     THEN Refuse(c, 500)
     ELSE /\ call' = [call EXCEPT ![c] = [at |-> "hashed", req |-> @.req]]
          /\ UNCHANGED issued
  /\ UNCHANGED <<now, users, jar, created, faults>>

(* Mutant: without the UNIQUE constraint.                                  *)
InsertableAnyway(name) == name \notin LongNames

(* The schema takes a new user of this name.                               *)
Insertable(name) == name \notin Taken /\ name \notin LongNames

NewUser(req) ==
  users' = [n \in Taken \cup {req.name} |->
              IF n = req.name THEN [password |-> req.password, role |-> "user"] ELSE users[n]]

(* CreateUser: whatever the error was, the answer is 409.                  *)
Insert(c) ==
  LET req == call[c].req
  IN  /\ call[c].at = "hashed"
      /\ IF Insertable(req.name)
         THEN /\ NewUser(req)
              /\ Answer(c, 201, None, FALSE)
              /\ created' = created \cup {[name |-> req.name, password |-> req.password]}
         ELSE /\ Answer(c, 409, None, FALSE)
              /\ UNCHANGED <<users, created>>
      /\ UNCHANGED <<now, jar, issued, faults>>

(* A statement fails, or an insert's reply is lost after it was done.      *)
Fail(c) ==
  /\ faults < MaxFaults
  /\ faults' = faults + 1
  /\ \/ Sent(c, "login") /\ Answer(c, 401, None, TRUE) /\ UNCHANGED users
     \/ call[c].at = "hashed" /\ Answer(c, 409, None, TRUE) /\ UNCHANGED users
     \/ /\ call[c].at = "hashed" /\ Insertable(call[c].req.name)
        /\ Answer(c, 409, None, TRUE) /\ NewUser(call[c].req)
  /\ UNCHANGED <<now, jar, issued, created>>

(* Mutant: a refreshed pair has the default role.                          *)
RefreshAsUser(c) ==
  LET t == call[c].req.token
  IN  /\ Sent(c, "refresh")
      /\ IF Valid(t) THEN Grant(c, t.name, "user") ELSE Refuse(c, 401)
      /\ UNCHANGED <<now, users, jar, created, faults>>

(* RefreshHandle looks at the token alone: a new pair of the same claims.  *)
Refresh(c) ==
  LET t == call[c].req.token
  IN  /\ Sent(c, "refresh")
      /\ IF Valid(t) THEN Grant(c, t.name, t.role) ELSE Refuse(c, 401)
      /\ UNCHANGED <<now, users, jar, created, faults>>

(* JWTAuth                                                                 *)
Authenticate(c) ==
  /\ Sent(c, "page")
  /\ Refuse(c, IF Valid(call[c].req.token) THEN 200 ELSE 401)
  /\ UNCHANGED <<now, users, jar, created, faults>>

Logout(c) ==
  /\ Sent(c, "logout")
  /\ Answer(c, 200, Cleared, FALSE)
  /\ UNCHANGED <<now, users, jar, issued, created, faults>>

(* A cookie's Max-Age counts from its arrival.                             *)
CookieOf(t) == IF t = None THEN None ELSE [token |-> t, until |-> now + TTL(t.kind)]

(* The answer reaches the browser, in whatever order.                      *)
Receive(c) ==
  /\ call[c].at = "answered"
  /\ jar' = IF call[c].cookies = None THEN jar
            ELSE [kind \in Kinds |-> CookieOf(call[c].cookies[kind])]
  /\ call' = [call EXCEPT ![c] = Idle]
  /\ UNCHANGED <<now, users, issued, created, faults>>

Tick ==
  /\ now < MaxTime
  /\ now' = now + 1
  /\ UNCHANGED <<users, call, jar, issued, created, faults>>

Next ==
  \/ Tick
  \/ \E c \in Calls :
       \/ SendCredentials(c) \/ SendToken(c) \/ SendCookie(c) \/ SendLogout(c)
       \/ SendMalformed(c) \/ Reject(c)
       \/ Login(c) \/ Compare(c) \/ Hash(c) \/ Insert(c) \/ Fail(c)
       \/ Refresh(c) \/ Authenticate(c) \/ Logout(c) \/ Receive(c)

Spec == Init /\ [][Next]_vars

-----------------------------------------------------------------------------
Requests ==
  [op : {"login", "register"}, name : Names, password : Passwords, known : BOOLEAN]
    \cup [op : {"refresh", "page"}, token : issued \cup {None}]
    \cup [op : {"logout", "malformed"}]

Cookies == {None} \cup [Kinds -> issued \cup {None}]

CallStates ==
  {Idle}
    \cup [at : {"sent", "hashed"}, req : Requests]
    \cup [at : {"read"}, req : Requests, row : Rows]
    \cup [at : {"answered"}, req : Requests, status : {200, 201, 400, 401, 409, 500},
          cookies : Cookies, failed : BOOLEAN]

TypeOK ==
  /\ now \in Nat /\ now <= MaxTime
  /\ Taken \subseteq Names \ LongNames /\ \A n \in Taken : users[n] \in Rows
  /\ issued \subseteq Tokens
  /\ call \in [Calls -> CallStates]
  /\ jar \in [Kinds -> {None} \cup [token : issued, until : Nat]]
  /\ created \subseteq [name : Names, password : Passwords]
  /\ faults \in 0..MaxFaults

Answered(c, op) == call[c].at = "answered" /\ call[c].req.op = op

(* A name belongs to whoever was answered 201 for it, with the password    *)
(* that was sent and the role "user"; nobody takes it over, two racing      *)
(* registrations and lost replies included.                                *)
OneOwner ==
  /\ \A r \in created : Row(r.name) = [password |-> r.password, role |-> "user"]
  /\ \A n \in DOMAIN Seeds : Row(n) = Seeds[n]

(* Every token that was given out, at a login or by refreshing another,    *)
(* names a user and carries the role of the user's row.                    *)
TokensMatchUsers ==
  \A t \in issued : t.name \in Taken /\ users[t.name].role = t.role

(* A login is answered 200 only if bcrypt reads its password as it reads   *)
(* the user's, whatever is registered meanwhile; and 401 without a failure *)
(* only if they were wrong when it was sent.  Who was told 409 for a lost  *)
(* reply is let in.                                                        *)
CredentialsDecide ==
  \A c \in Calls : Answered(c, "login") =>
    /\ call[c].status = 200 => Right(call[c].req.name, call[c].req.password)
    /\ call[c].status = 401 => ~call[c].req.known \/ call[c].failed

(* The browser's cookies come from one answer: while it sends an access    *)
(* cookie it keeps the refresh cookie of the same user and role.           *)
JarIsOneSession ==
  jar["access"] # None /\ now < jar["access"].until =>
    /\ jar["refresh"] # None /\ now < jar["refresh"].until
    /\ jar["refresh"].token.name = jar["access"].token.name
    /\ jar["refresh"].token.role = jar["access"].token.role
=============================================================================
