------------------------------- MODULE Router -------------------------------
(***************************************************************************)
(* createRouter and internal/middleware: every route is a chain of         *)
(* functions that gin runs one after the other until one of them aborts;   *)
(* requests interleave between any two of them, and requests of one        *)
(* address meet in the limiter's counter.                                  *)
(***************************************************************************)
EXTENDS Naturals, Sequences, FiniteSets

CONSTANTS
  Requests,     \* goroutines that serve requests
  Addresses,    \* ClientIP values
  Limit,        \* requests per Period, of RATE_LIMIT
  Period,       \* ticks in a period
  MaxTime,      \* ticks in all (a bound)
  Tried,        \* the routes that are asked for (a bound)
  MaxArrivals   \* requests in all (a bound)

ASSUME LimitAssumption ==
  /\ Limit \in Nat \ {0} /\ Period \in Nat \ {0}
  /\ MaxTime \in Nat /\ MaxArrivals \in Nat

VARIABLES
  now,      \* the clock
  counter,  \* address -> its count in the limiter's store, and when it expires
  req,      \* request -> where it is in its chain
  arrived,  \* requests so far
  limited   \* history: address -> what the limiter did to it, and when

vars == <<now, counter, req, arrived, limited>>

Public == {"public"}                         \* every route without middleware
Pages  == {"page"}                           \* GET / and GET /:uid
Routes == {"login", "refresh", "register", "registerPage", "adminApi", "userApi"}
            \cup Public \cup Pages

ASSUME RoutesAssumption == Tried \subseteq Routes

(* The role claim of a request's token, or none: no token, or a bad one.   *)
Roles       == {"admin", "user"}
Credentials == Roles \cup {"none"}

(* Mutant: a group of routes forgets its RequireRole.                      *)
ChainUnguarded(route) ==
  CASE route \in {"login", "refresh"}             -> <<"limit", "handler">>
    [] route = "registerPage"                     -> <<"handler", "limit">>
    [] route \in {"register"} \cup Public         -> <<"handler">>
    [] route \in {"adminApi", "userApi"} \cup Pages -> <<"auth", "handler">>

Chain(route) ==
  CASE route \in {"login", "refresh"}             -> <<"limit", "handler">>
    [] route = "registerPage"                     -> <<"handler", "limit">>
    [] route \in {"register"} \cup Public         -> <<"handler">>
    [] route \in {"adminApi", "userApi"} \cup Pages -> <<"auth", "role", "handler">>

RequiredRoles(route) ==
  CASE route = "adminApi" -> {"admin"}
    [] route = "userApi"  -> {"user"}
    [] OTHER              -> Roles

Free == [status |-> "free"]

(* pos is gin's index; answers are the statuses written, in order.         *)
Request(route, ip, credential) ==
  [status |-> "running", route |-> route, ip |-> ip, credential |-> credential,
   pos |-> 1, answers |-> <<>>]

Init ==
  /\ now = 0
  /\ counter = [ip \in Addresses |-> [count |-> 0, expires |-> 0]]
  /\ req = [r \in Requests |-> Free]
  /\ arrived = 0
  /\ limited = [ip \in Addresses |-> <<>>]

Running(r, step) ==
  /\ req[r].status = "running"
  /\ req[r].pos <= Len(Chain(req[r].route))
  /\ Chain(req[r].route)[req[r].pos] = step

(* c.Next, or the return of a function that called neither it nor Abort.   *)
Pass(r) == req' = [req EXCEPT ![r].pos = @ + 1]

(* Mutant: the answer is written, and c.Abort forgotten.                   *)
AbortForgotten(r, answer) ==
  req' = [req EXCEPT ![r].pos = @ + 1, ![r].answers = Append(@, answer)]

(* Mutant: c.Abort, and c.Next after it.                                   *)
AbortAndNext(r, answer) ==
  req' = [req EXCEPT ![r].pos = Len(Chain(req[r].route)) + 2,
                     ![r].answers = Append(@, answer)]

(* c.JSON and c.Abort: gin's index jumps past the chain.                   *)
Abort(r, answer) ==
  req' = [req EXCEPT ![r].pos = Len(Chain(req[r].route)) + 1,
                     ![r].answers = Append(@, answer)]

(* Only JWTAuth and RequireRole look at the credential.                    *)
Arrive(r) ==
  /\ req[r] = Free
  /\ arrived < MaxArrivals
  /\ arrived' = arrived + 1
  /\ \E route \in Tried, ip \in Addresses :
       \E credential \in IF Chain(route)[1] = "auth" THEN Credentials ELSE {"none"} :
         req' = [req EXCEPT ![r] = Request(route, ip, credential)]
  /\ UNCHANGED <<now, counter, limited>>

(* The limiter's memory store: one more in the window that is open, or the *)
(* first of a new one.                                                     *)
Counted(c) ==
  IF c.count = 0 \/ now >= c.expires
  THEN [count |-> 1, expires |-> now + Period]
  ELSE [c EXCEPT !.count = @ + 1]

Reached(c) == c.count > Limit

(* Mutant: a request is judged by the count before its own.                *)
RateLimitLate(r) ==
  LET c == Counted(counter[req[r].ip])
      late == Reached([c EXCEPT !.count = @ - 1])
      ip == req[r].ip
  IN  /\ Running(r, "limit")
      /\ counter' = [counter EXCEPT ![ip] = c]
      /\ IF late THEN Abort(r, "429") ELSE Pass(r)
      /\ limited' = [limited EXCEPT ![ip] = Append(@, [at |-> now, passed |-> ~late])]
      /\ UNCHANGED <<now, arrived>>

(* Mutant: every address has the same key.                                 *)
RateLimitShared(r) ==
  LET key == CHOOSE ip \in Addresses : TRUE
      c == Counted(counter[key])
      ip == req[r].ip
  IN  /\ Running(r, "limit")
      /\ counter' = [counter EXCEPT ![key] = c]
      /\ IF Reached(c) THEN Abort(r, "429") ELSE Pass(r)
      /\ limited' = [limited EXCEPT ![ip] = Append(@, [at |-> now, passed |-> ~Reached(c)])]
      /\ UNCHANGED <<now, arrived>>

RateLimit(r) ==
  LET c == Counted(counter[req[r].ip])
      ip == req[r].ip
  IN  /\ Running(r, "limit")
      /\ counter' = [counter EXCEPT ![ip] = c]
      /\ IF Reached(c) THEN Abort(r, "429") ELSE Pass(r)
      /\ limited' = [limited EXCEPT ![ip] = Append(@, [at |-> now, passed |-> ~Reached(c)])]
      /\ UNCHANGED <<now, arrived>>

(* A page's request without a good token is redirected, any other is 401.  *)
JWTAuth(r) ==
  /\ Running(r, "auth")
  /\ IF req[r].credential \in Roles
     THEN Pass(r)
     ELSE \E answer \in {"302", "401"} : Abort(r, answer)
  /\ UNCHANGED <<now, counter, arrived, limited>>

RequireRole(r) ==
  /\ Running(r, "role")
  /\ IF req[r].credential \in RequiredRoles(req[r].route)
     THEN Pass(r) ELSE Abort(r, "403")
  /\ UNCHANGED <<now, counter, arrived, limited>>

(* The handler's own answer is "served", whatever its status.              *)
Handle(r) ==
  /\ Running(r, "handler")
  /\ req' = [req EXCEPT ![r].pos = @ + 1, ![r].answers = Append(@, "served")]
  /\ UNCHANGED <<now, counter, arrived, limited>>

Finish(r) ==
  /\ req[r].status = "running"
  /\ req[r].pos > Len(Chain(req[r].route))
  /\ req' = [req EXCEPT ![r] = Free]
  /\ UNCHANGED <<now, counter, arrived, limited>>

Tick ==
  /\ now < MaxTime
  /\ now' = now + 1
  /\ UNCHANGED <<counter, req, arrived, limited>>

Next ==
  \/ Tick
  \/ \E r \in Requests : \/ Arrive(r) \/ RateLimit(r) \/ JWTAuth(r)
                         \/ RequireRole(r) \/ Handle(r) \/ Finish(r)

Spec == Init /\ [][Next]_vars

-----------------------------------------------------------------------------
TypeOK ==
  /\ now \in 0..MaxTime
  /\ counter \in [Addresses -> [count : Nat, expires : 0..(MaxTime + Period)]]
  /\ \A r \in Requests :
       \/ req[r] = Free
       \/ /\ req[r].route \in Routes /\ req[r].ip \in Addresses
          /\ req[r].credential \in Credentials
          /\ req[r].pos \in 1..(Len(Chain(req[r].route)) + 1)
          /\ req[r].answers \in Seq({"served", "302", "401", "403", "429"})
  /\ arrived \in 0..MaxArrivals
  /\ limited \in [Addresses -> Seq([at : 0..MaxTime, passed : BOOLEAN])]

(* A time lies in the period that starts at another.                       *)
Within(at, start) == start <= at /\ at < start + Period

(* RateLimitMiddleware "blocks requests exceeding the configured rate      *)
(* limit".  The store's windows start at a request, so a stretch of one     *)
(* period that meets two of them misses the first request of the first.    *)
BudgetKept ==
  \A ip \in Addresses, t \in 0..MaxTime :
    Cardinality({i \in DOMAIN limited[ip] :
                   limited[ip][i].passed /\ Within(limited[ip][i].at, t)}) <= 2 * Limit - 1

(* An address is refused only if it came more than Limit times in a period *)
(* that holds the refusal, and never on account of another address.        *)
NoFalseRefusal ==
  \A ip \in Addresses : \A i \in DOMAIN limited[ip] :
    \/ limited[ip][i].passed
    \/ \E t \in 0..limited[ip][i].at :
         /\ Within(limited[ip][i].at, t)
         /\ Cardinality({j \in 1..i : Within(limited[ip][j].at, t)}) > Limit

(* A request gets one answer, and one that a middleware refused is not     *)
(* served: ratelimit.go "blocks requests exceeding the configured rate     *)
(* limit".  The registration page is apart: its limiter is behind its      *)
(* handler, and a refusal is appended to the page.                         *)
AnsweredOnce ==
  \A r \in Requests : req[r] # Free /\ req[r].route # "registerPage" =>
    /\ Len(req[r].answers) <= 1
    /\ req[r].pos > Len(Chain(req[r].route)) => Len(req[r].answers) = 1

(* The README's lists of endpoints.                                        *)
DocumentedRoles(route) ==
  CASE route = "adminApi"                -> {"admin"}
    [] route \in {"userApi"} \cup Pages  -> Roles
    [] OTHER                             -> Credentials

Served(r) == \E i \in DOMAIN req[r].answers : req[r].answers[i] = "served"

Over(r) ==
  /\ req[r] # Free
  /\ req[r].pos > Len(Chain(req[r].route))
  /\ "429" \notin {req[r].answers[i] : i \in DOMAIN req[r].answers}

(* Whoever a route is documented for is served, and nobody else; the user  *)
(* API is apart, which turns administrators away.                          *)
AccessAsDocumented ==
  \A r \in Requests : Over(r) =>
    \/ Served(r) <=> req[r].credential \in DocumentedRoles(req[r].route)
    \/ req[r].route = "userApi" /\ req[r].credential = "admin"
=============================================================================
