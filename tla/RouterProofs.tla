---------------------------- MODULE RouterProofs ----------------------------
(***************************************************************************)
(* The router's chains and the rate limiter, for any addresses, any limit, *)
(* any period and any number of requests.                                  *)
(***************************************************************************)
EXTENDS Router, FiniteSetTheorems, TLAPS

LimitedRoutes == {"login", "refresh"}
OpenRoutes    == {"register"} \cup Public
GuardedRoutes == {"adminApi", "userApi"} \cup Pages

-----------------------------------------------------------------------------
(***************************************************************************)
(* The chains.  A request in the middle of its chain has no answer yet,    *)
(* and what it passed let it pass; the end of the chain was reached by one *)
(* answer.  The registration page answers first and is limited afterwards. *)

InLimited(q) ==
  \/ q.pos \in {1, 2} /\ q.answers = <<>>
  \/ q.pos = 3 /\ q.answers \in {<<"served">>, <<"429">>}

InOpen(q) ==
  \/ q.pos = 1 /\ q.answers = <<>>
  \/ q.pos = 2 /\ q.answers = <<"served">>

InPage(q) ==
  \/ q.pos = 1 /\ q.answers = <<>>
  \/ q.pos = 2 /\ q.answers = <<"served">>
  \/ q.pos = 3 /\ q.answers \in {<<"served">>, Append(<<"served">>, "429")}

InGuarded(q) ==
  \/ q.pos = 1 /\ q.answers = <<>>
  \/ q.pos = 2 /\ q.answers = <<>> /\ q.credential \in Roles
  \/ q.pos = 3 /\ q.answers = <<>> /\ q.credential \in RequiredRoles(q.route)
  \/ q.pos = 4 /\ q.answers = <<"served">> /\ q.credential \in RequiredRoles(q.route)
  \/ q.pos = 4 /\ q.answers \in {<<"302">>, <<"401">>} /\ q.credential \notin Roles
  \/ q.pos = 4 /\ q.answers = <<"403">> /\ q.credential \notin RequiredRoles(q.route)

Answers == {"served", "302", "401", "403", "429"}

Taken == [status : {"running"}, route : Routes, ip : Addresses, credential : Credentials,
          pos : 1..4, answers : Seq(Answers)]

OnItsWay(q) ==
  /\ q \in Taken
  /\ q.route \in LimitedRoutes  => InLimited(q)
  /\ q.route \in OpenRoutes     => InOpen(q)
  /\ q.route = "registerPage"   => InPage(q)
  /\ q.route \in GuardedRoutes  => InGuarded(q)

RequestsInv ==
  /\ req \in [Requests -> {Free} \cup Taken]
  /\ \A r \in Requests : req[r] = Free \/ OnItsWay(req[r])

LEMMA Chains ==
  /\ \A route \in LimitedRoutes : Chain(route) = <<"limit", "handler">>
  /\ \A route \in OpenRoutes : Chain(route) = <<"handler">>
  /\ \A route \in GuardedRoutes : Chain(route) = <<"auth", "role", "handler">>
  /\ Chain("registerPage") = <<"handler", "limit">>
  /\ \A route \in LimitedRoutes : Len(Chain(route)) = 2
  /\ \A route \in OpenRoutes : Len(Chain(route)) = 1
  /\ \A route \in GuardedRoutes : Len(Chain(route)) = 3
  /\ Len(Chain("registerPage")) = 2
BY DEF Chain, LimitedRoutes, OpenRoutes, GuardedRoutes, Public, Pages

LEMMA Kinds ==
  /\ Routes = LimitedRoutes \cup OpenRoutes \cup GuardedRoutes \cup {"registerPage"}
  /\ \A route \in Routes :
       /\ route \in LimitedRoutes => route \notin OpenRoutes \cup GuardedRoutes \cup {"registerPage"}
       /\ route \in OpenRoutes => route \notin GuardedRoutes \cup {"registerPage"}
       /\ route \in GuardedRoutes => route # "registerPage"
  /\ "registerPage" \notin LimitedRoutes \cup OpenRoutes \cup GuardedRoutes
BY DEF Routes, LimitedRoutes, OpenRoutes, GuardedRoutes, Public, Pages

(* Where a request is when a function of its chain runs.                   *)
LEMMA Positions ==
  ASSUME NEW r \in Requests, RequestsInv, NEW step, Running(r, step)
  PROVE  /\ OnItsWay(req[r])
         /\ step = "limit" =>
              \/ req[r].route \in LimitedRoutes /\ req[r].pos = 1 /\ req[r].answers = <<>>
              \/ /\ req[r].route = "registerPage" /\ req[r].pos = 2
                 /\ req[r].answers = <<"served">>
         /\ step = "auth" => req[r].route \in GuardedRoutes /\ req[r].pos = 1
         /\ step = "role" => req[r].route \in GuardedRoutes /\ req[r].pos = 2
         /\ step = "handler" => req[r].answers = <<>> /\
             (\/ req[r].route \in LimitedRoutes /\ req[r].pos = 2
              \/ req[r].route \in OpenRoutes \cup {"registerPage"} /\ req[r].pos = 1
              \/ req[r].route \in GuardedRoutes /\ req[r].pos = 3)
<1>1. OnItsWay(req[r])
  BY DEF Running, RequestsInv, Free
<1>2. req[r].route \in Routes /\ req[r].pos \in 1..4
  BY <1>1 DEF OnItsWay, Taken
<1>3. Chain(req[r].route)[req[r].pos] = step /\ req[r].pos <= Len(Chain(req[r].route))
  BY DEF Running
<1>4. CASE req[r].route \in LimitedRoutes
  BY <1>1, <1>2, <1>3, <1>4, Kinds, Chains DEF OnItsWay, InLimited
<1>5. CASE req[r].route \in OpenRoutes
  BY <1>1, <1>2, <1>3, <1>5, Kinds, Chains DEF OnItsWay, InOpen
<1>6. CASE req[r].route \in GuardedRoutes
  BY <1>1, <1>2, <1>3, <1>6, Kinds, Chains DEF OnItsWay, InGuarded
<1>7. CASE req[r].route = "registerPage"
  BY <1>1, <1>2, <1>3, <1>7, Kinds, Chains DEF OnItsWay, InPage
<1> QED BY <1>2, <1>4, <1>5, <1>6, <1>7, Kinds

LEMMA TakenMoved ==
  ASSUME NEW q \in Taken, NEW n \in 1..4, NEW answers \in Seq(Answers)
  PROVE  [q EXCEPT !.pos = n, !.answers = answers] \in Taken
BY DEF Taken

(* A function that moves a request on, and answers it or does not.         *)
LEMMA Moved ==
  ASSUME RequestsInv, NEW r \in Requests, req[r] \in Taken, NEW n \in 1..4,
         NEW answers \in Seq(Answers),
         req' = [req EXCEPT ![r].pos = n, ![r].answers = answers]
  PROVE  /\ req'[r] \in Taken /\ req'[r].route = req[r].route
         /\ req'[r].credential = req[r].credential
         /\ req'[r].pos = n /\ req'[r].answers = answers
         /\ req' \in [Requests -> {Free} \cup Taken]
         /\ \A q \in Requests \ {r} : req'[q] = req[q]
<1>1. req'[r] = [req[r] EXCEPT !.pos = n, !.answers = answers]
  BY DEF RequestsInv
<1> DEFINE moved == [req[r] EXCEPT !.pos = n, !.answers = answers]
<1>2. moved \in Taken
  BY TakenMoved
<1>3. req'[r] = moved
  BY <1>1
<1>4. /\ moved.route = req[r].route /\ moved.credential = req[r].credential
      /\ moved.pos = n /\ moved.answers = answers
  BY DEF Taken
<1> HIDE DEF moved
<1> QED BY <1>2, <1>3, <1>4 DEF RequestsInv, Taken

LEMMA Passed ==
  ASSUME RequestsInv, NEW r \in Requests, req[r] \in Taken, req[r].pos \in 1..3, Pass(r)
  PROVE  /\ req'[r] \in Taken /\ req'[r].route = req[r].route
         /\ req'[r].credential = req[r].credential
         /\ req'[r].pos = req[r].pos + 1 /\ req'[r].answers = req[r].answers
         /\ req' \in [Requests -> {Free} \cup Taken]
         /\ \A q \in Requests \ {r} : req'[q] = req[q]
<1> DEFINE n == req[r].pos + 1
<1>1. n \in 1..4
  OBVIOUS
<1>2. req'[r] = [req[r] EXCEPT !.pos = n]
  BY DEF Pass, RequestsInv
<1> HIDE DEF n
<1>3. req'[r] \in Taken
  BY <1>1, <1>2 DEF Taken
<1> QED BY <1>2, <1>3 DEF RequestsInv, Taken, Pass, n

LEMMA Aborted ==
  ASSUME RequestsInv, NEW r \in Requests, req[r] \in Taken, NEW answer \in Answers,
         NEW k \in 1..3, Len(Chain(req[r].route)) = k, Abort(r, answer)
  PROVE  /\ req'[r] \in Taken /\ req'[r].route = req[r].route
         /\ req'[r].credential = req[r].credential
         /\ req'[r].pos = k + 1
         /\ req'[r].answers = Append(req[r].answers, answer)
         /\ req' \in [Requests -> {Free} \cup Taken]
         /\ \A q \in Requests \ {r} : req'[q] = req[q]
<1> DEFINE n == k + 1
           answers == Append(req[r].answers, answer)
<1>1. n \in 1..4
  OBVIOUS
<1>2. answers \in Seq(Answers)
  BY DEF Taken
<1>3. req' = [req EXCEPT ![r].pos = n, ![r].answers = answers]
  BY DEF Abort, RequestsInv
<1> HIDE DEF n, answers
<1>4. /\ req'[r] \in Taken /\ req'[r].route = req[r].route
      /\ req'[r].credential = req[r].credential
      /\ req'[r].pos = n /\ req'[r].answers = answers
      /\ req' \in [Requests -> {Free} \cup Taken]
      /\ \A q \in Requests \ {r} : req'[q] = req[q]
  BY <1>1, <1>2, <1>3, Moved
<1> QED BY <1>4 DEF n, answers

LEMMA RateLimitStep ==
  ASSUME RequestsInv, NEW r \in Requests, RateLimit(r)
  PROVE  RequestsInv'
<1>1. /\ OnItsWay(req[r])
      /\ \/ req[r].route \in LimitedRoutes /\ req[r].pos = 1 /\ req[r].answers = <<>>
         \/ /\ req[r].route = "registerPage" /\ req[r].pos = 2
            /\ req[r].answers = <<"served">>
  BY Positions DEF RateLimit
<1>2. req[r] \in Taken
  BY <1>1 DEF OnItsWay
<1>3. Len(Chain(req[r].route)) = 2
  BY <1>1, Chains
<1>4. Pass(r) \/ Abort(r, "429")
  BY DEF RateLimit
<1>5. CASE Pass(r)
  <2>1. /\ req'[r] \in Taken /\ req'[r].route = req[r].route
        /\ req'[r].pos = req[r].pos + 1 /\ req'[r].answers = req[r].answers
        /\ req' \in [Requests -> {Free} \cup Taken]
        /\ \A q \in Requests \ {r} : req'[q] = req[q]
    BY <1>1, <1>2, <1>5, Passed
  <2>2. CASE req[r].route \in LimitedRoutes
    <3>1. InLimited(req'[r])
      BY <1>1, <2>1, <2>2, Kinds DEF InLimited
    <3> QED BY <1>1, <2>1, <2>2, <3>1, Kinds DEF OnItsWay, Taken, RequestsInv
  <2>3. CASE req[r].route = "registerPage"
    <3>0. req[r].pos = 2 /\ req[r].answers = <<"served">>
      BY <1>1, <2>3, Kinds
    <3>1. InPage(req'[r])
      BY <2>1, <3>0 DEF InPage
    <3> QED BY <1>1, <2>1, <2>3, <3>1, Kinds DEF OnItsWay, Taken, RequestsInv
  <2> QED BY <1>1, <2>2, <2>3
<1>6. CASE Abort(r, "429")
  <2>1. "429" \in Answers
    BY DEF Answers
  <2>2. /\ req'[r] \in Taken /\ req'[r].route = req[r].route
        /\ req'[r].pos = 3 /\ req'[r].answers = Append(req[r].answers, "429")
        /\ req' \in [Requests -> {Free} \cup Taken]
        /\ \A q \in Requests \ {r} : req'[q] = req[q]
    BY <1>2, <1>3, <1>6, <2>1, Aborted
  <2>3. CASE req[r].route \in LimitedRoutes
    <3>1. req'[r].answers = <<"429">>
      <4>1. req[r].answers = <<>>
        BY <1>1, <2>3, Kinds
      <4> QED BY <2>2, <4>1
    <3>2. InLimited(req'[r])
      BY <2>2, <3>1 DEF InLimited
    <3> QED BY <1>1, <2>2, <2>3, <3>2, Kinds DEF OnItsWay, Taken, RequestsInv
  <2>4. CASE req[r].route = "registerPage"
    <3>1. req[r].answers = <<"served">>
      BY <1>1, <2>4, Kinds
    <3>2. req'[r].answers = Append(<<"served">>, "429")
      BY <2>2, <3>1
    <3>3. InPage(req'[r])
      BY <2>2, <3>2 DEF InPage
    <3>4. OnItsWay(req'[r])
      BY <2>2, <2>4, <3>3, Kinds DEF OnItsWay
    <3> QED BY <2>2, <3>4 DEF RequestsInv
  <2> QED BY <1>1, <2>3, <2>4
<1> QED BY <1>4, <1>5, <1>6

LEMMA GuardStep ==
  ASSUME RequestsInv, NEW r \in Requests, JWTAuth(r) \/ RequireRole(r)
  PROVE  RequestsInv'
<1>1. /\ OnItsWay(req[r]) /\ req[r].route \in GuardedRoutes
      /\ JWTAuth(r) => req[r].pos = 1
      /\ RequireRole(r) => req[r].pos = 2
  BY Positions DEF JWTAuth, RequireRole
<1>2. req[r] \in Taken /\ req[r].pos \in {1, 2} /\ req[r].answers = <<>>
  BY <1>1 DEF OnItsWay, InGuarded
<1>3. Len(Chain(req[r].route)) = 3
  BY <1>1, Chains
<1>4. RequiredRoles(req[r].route) \subseteq Roles /\ req[r].credential \in Credentials
  BY <1>2 DEF RequiredRoles, Roles, Taken
<1>5. CASE Pass(r)
  <2>1. /\ req'[r] \in Taken /\ req'[r].route = req[r].route
        /\ req'[r].credential = req[r].credential
        /\ req'[r].pos = req[r].pos + 1 /\ req'[r].answers = <<>>
        /\ req' \in [Requests -> {Free} \cup Taken]
        /\ \A q \in Requests \ {r} : req'[q] = req[q]
    BY <1>2, <1>5, Passed
  <2>2. \/ req'[r].pos = 2 /\ req[r].credential \in Roles
        \/ req'[r].pos = 3 /\ req[r].credential \in RequiredRoles(req[r].route)
    <3>1. CASE JWTAuth(r) /\ req[r].credential \in Roles
      BY <1>1, <2>1, <3>1
    <3>2. CASE JWTAuth(r) /\ req[r].credential \notin Roles
      <4>1. PICK answer : Abort(r, answer)
        BY <3>2 DEF JWTAuth
      <4>2. req'[r].pos = 4
        BY <1>2, <1>3, <4>1 DEF Abort, RequestsInv, Taken
      <4> QED BY <1>1, <2>1, <3>2, <4>2
    <3>3. CASE RequireRole(r) /\ req[r].credential \in RequiredRoles(req[r].route)
      BY <1>1, <2>1, <3>3
    <3>4. CASE RequireRole(r) /\ req[r].credential \notin RequiredRoles(req[r].route)
      <4>1. Abort(r, "403")
        BY <3>4 DEF RequireRole
      <4>2. req'[r].pos = 4
        BY <1>2, <1>3, <4>1 DEF Abort, RequestsInv, Taken
      <4> QED BY <1>1, <2>1, <3>4, <4>2
    <3> QED BY <3>1, <3>2, <3>3, <3>4
  <2>3. OnItsWay(req'[r])
    BY <1>1, <1>2, <2>1, <2>2, Kinds DEF OnItsWay, InGuarded
  <2> QED BY <2>1, <2>3 DEF RequestsInv
<1>6. ASSUME NEW answer \in {"302", "401", "403"}, Abort(r, answer),
             IF answer = "403" THEN req[r].credential \notin RequiredRoles(req[r].route)
                               ELSE req[r].credential \notin Roles
      PROVE  RequestsInv'
  <2>1. answer \in Answers
    BY DEF Answers
  <2>2. /\ req'[r] \in Taken /\ req'[r].route = req[r].route
        /\ req'[r].credential = req[r].credential
        /\ req'[r].pos = 4 /\ req'[r].answers = Append(<<>>, answer)
        /\ req' \in [Requests -> {Free} \cup Taken]
        /\ \A q \in Requests \ {r} : req'[q] = req[q]
    BY <1>2, <1>3, <1>6, <2>1, Aborted
  <2>3. Append(<<>>, answer) = <<answer>>
    OBVIOUS
  <2>4. OnItsWay(req'[r])
    BY <1>1, <1>2, <1>6, <2>2, <2>3, Kinds DEF OnItsWay, InGuarded
  <2> QED BY <2>2, <2>4 DEF RequestsInv
<1>7. CASE JWTAuth(r)
  BY <1>5, <1>6, <1>7 DEF JWTAuth
<1>8. CASE RequireRole(r)
  BY <1>5, <1>6, <1>8 DEF RequireRole
<1> QED BY <1>7, <1>8

LEMMA HandleStep ==
  ASSUME RequestsInv, NEW r \in Requests, Handle(r)
  PROVE  RequestsInv'
<1>1. /\ OnItsWay(req[r]) /\ req[r].answers = <<>>
      /\ \/ req[r].route \in LimitedRoutes /\ req[r].pos = 2
         \/ req[r].route \in OpenRoutes \cup {"registerPage"} /\ req[r].pos = 1
         \/ req[r].route \in GuardedRoutes /\ req[r].pos = 3
  BY Positions DEF Handle
<1>2. req[r] \in Taken /\ req[r].pos \in 1..3
  BY <1>1 DEF OnItsWay
<1> DEFINE n == req[r].pos + 1
           answers == Append(req[r].answers, "served")
<1>3. n \in 1..4 /\ answers = <<"served">>
  BY <1>1, <1>2
<1>8. answers \in Seq(Answers)
  BY <1>1 DEF Answers
<1>4. req' = [req EXCEPT ![r].pos = n, ![r].answers = answers]
  BY DEF Handle, RequestsInv
<1>5. n = req[r].pos + 1
  OBVIOUS
<1> HIDE DEF n, answers
<1>6. /\ req'[r] \in Taken /\ req'[r].route = req[r].route
      /\ req'[r].credential = req[r].credential
      /\ req'[r].pos = n /\ req'[r].answers = answers
      /\ req' \in [Requests -> {Free} \cup Taken]
      /\ \A q \in Requests \ {r} : req'[q] = req[q]
  <2>1. n \in 1..4
    BY <1>3
  <2> QED BY <1>2, <1>4, <1>8, <2>1, Moved
<1>7. OnItsWay(req'[r])
  BY <1>1, <1>3, <1>5, <1>6, Kinds DEF OnItsWay, InLimited, InOpen, InPage, InGuarded
<1> QED BY <1>6, <1>7 DEF RequestsInv

LEMMA RequestsStep == RequestsInv /\ [Next]_vars => RequestsInv'
<1> SUFFICES ASSUME RequestsInv, [Next]_vars PROVE RequestsInv'
  OBVIOUS
<1>1. ASSUME NEW r \in Requests, Arrive(r) PROVE RequestsInv'
  <2>1. PICK route \in Routes, ip \in Addresses, credential \in Credentials :
          req' = [req EXCEPT ![r] = Request(route, ip, credential)]
    BY <1>1, RoutesAssumption DEF Arrive, Credentials
  <2>2. Request(route, ip, credential) \in Taken
    BY DEF Request, Taken
  <2>3. OnItsWay(Request(route, ip, credential))
    BY <2>2 DEF Request, OnItsWay, InLimited, InOpen, InPage, InGuarded
  <2> QED BY <2>1, <2>2, <2>3 DEF RequestsInv
<1>2. ASSUME NEW r \in Requests, Finish(r) PROVE RequestsInv'
  BY <1>2 DEF Finish, RequestsInv
<1>3. CASE UNCHANGED req
  BY <1>3 DEF RequestsInv
<1> QED BY <1>1, <1>2, <1>3, RateLimitStep, GuardStep, HandleStep DEF Next, Tick, vars

LEMMA RequestsInit == Init => RequestsInv
BY DEF Init, RequestsInv

-----------------------------------------------------------------------------
THEOREM ChainsKept == Spec => []RequestsInv
BY RequestsInit, RequestsStep, PTL DEF Spec

(* A request is answered once, by the first function that decides it, for  *)
(* any number of interleaved requests; the registration page apart.        *)
THEOREM OneAnswer == Spec => []AnsweredOnce
<1>1. RequestsInv => AnsweredOnce
  <2> SUFFICES ASSUME RequestsInv, NEW r \in Requests,
                      req[r] # Free, req[r].route # "registerPage"
               PROVE  /\ Len(req[r].answers) <= 1
                      /\ req[r].pos > Len(Chain(req[r].route)) => Len(req[r].answers) = 1
    BY DEF AnsweredOnce
  <2>1. OnItsWay(req[r]) /\ req[r].route \in Routes
    BY DEF RequestsInv, OnItsWay, Taken
  <2>2. CASE req[r].route \in LimitedRoutes
    <3>1. \/ req[r].pos \in {1, 2} /\ req[r].answers = <<>>
          \/ req[r].pos = 3 /\ req[r].answers \in {<<"served">>, <<"429">>}
      BY <2>1, <2>2 DEF OnItsWay, InLimited
    <3>2. /\ Len(req[r].answers) <= 1
          /\ req[r].pos = 3 => Len(req[r].answers) = 1
      <4>1. CASE req[r].pos # 3
        BY <3>1, <4>1
      <4>2. CASE req[r].pos = 3
        <5>1. Len(req[r].answers) = 1
          BY <3>1, <4>2
        <5> QED BY <5>1
      <4> QED BY <4>1, <4>2
    <3>3. req[r].pos > 2 => req[r].pos = 3
      BY <3>1
    <3> QED BY <2>2, <3>2, <3>3, Chains
  <2>3. CASE req[r].route \in OpenRoutes
    <3>1. \/ req[r].pos = 1 /\ req[r].answers = <<>>
          \/ req[r].pos = 2 /\ req[r].answers = <<"served">>
      BY <2>1, <2>3 DEF OnItsWay, InOpen
    <3>2. /\ Len(req[r].answers) <= 1
          /\ req[r].pos = 2 => Len(req[r].answers) = 1
      <4>1. CASE req[r].pos # 2
        BY <3>1, <4>1
      <4>2. CASE req[r].pos = 2
        <5>1. Len(req[r].answers) = 1
          BY <3>1, <4>2
        <5> QED BY <5>1
      <4> QED BY <4>1, <4>2
    <3>3. req[r].pos > 1 => req[r].pos = 2
      BY <3>1
    <3> QED BY <2>3, <3>2, <3>3, Chains
  <2>4. CASE req[r].route \in GuardedRoutes
    <3>1. \/ req[r].pos \in {1, 2, 3} /\ req[r].answers = <<>>
          \/ req[r].pos = 4 /\ req[r].answers \in {<<"served">>, <<"302">>, <<"401">>, <<"403">>}
      BY <2>1, <2>4 DEF OnItsWay, InGuarded
    <3>2. /\ Len(req[r].answers) <= 1
          /\ req[r].pos = 4 => Len(req[r].answers) = 1
      <4>1. CASE req[r].pos # 4
        BY <3>1, <4>1
      <4>2. CASE req[r].pos = 4
        <5>1. Len(req[r].answers) = 1
          BY <3>1, <4>2
        <5> QED BY <5>1
      <4> QED BY <4>1, <4>2
    <3>3. req[r].pos > 3 => req[r].pos = 4
      BY <3>1
    <3> QED BY <2>4, <3>2, <3>3, Chains
  <2> QED BY <2>1, <2>2, <2>3, <2>4, Kinds
<1> QED BY <1>1, ChainsKept, PTL

(* The registration page was served even if a refusal is appended to it.   *)
LEMMA PageServed ==
  ASSUME NEW s, s = <<"served">> \/ s = Append(<<"served">>, "429")
  PROVE  \E i \in DOMAIN s : s[i] = "served"
<1>1. CASE s = <<"served">>
  <2>1. 1 \in DOMAIN s /\ s[1] = "served"
    BY <1>1
  <2> QED BY <2>1
<1>2. CASE s = Append(<<"served">>, "429")
  <2> DEFINE page == <<"served">>
  <2>1. page \in Seq(Answers) /\ Len(page) = 1 /\ page[1] = "served" /\ "429" \in Answers
    BY DEF Answers
  <2> HIDE DEF page
  <2>2. 1 \in DOMAIN Append(page, "429") /\ Append(page, "429")[1] = "served"
    BY <2>1
  <2> QED BY <1>2, <2>2 DEF page
<1> QED BY <1>1, <1>2

(* Whoever a route is documented for is served, and nobody else, but for   *)
(* administrators at the user API.                                         *)
THEOREM AccessKept == Spec => []AccessAsDocumented
<1>1. RequestsInv => AccessAsDocumented
  <2> SUFFICES ASSUME RequestsInv, NEW r \in Requests, Over(r)
               PROVE  \/ Served(r) <=> req[r].credential \in DocumentedRoles(req[r].route)
                      \/ req[r].route = "userApi" /\ req[r].credential = "admin"
    BY DEF AccessAsDocumented
  <2>1. /\ OnItsWay(req[r]) /\ req[r].route \in Routes /\ req[r].credential \in Credentials
        /\ req[r].pos > Len(Chain(req[r].route))
        /\ req[r].answers # <<"429">>
    BY DEF RequestsInv, OnItsWay, Taken, Over
  <2>2. CASE req[r].route \in LimitedRoutes
    <3>1. req[r].answers = <<"served">>
      <4>1. \/ req[r].pos \in {1, 2}
            \/ req[r].answers \in {<<"served">>, <<"429">>}
        BY <2>1, <2>2 DEF OnItsWay, InLimited
      <4>2. Len(Chain(req[r].route)) = 2
        BY <2>2, Chains
      <4>3. req[r].pos \notin {1, 2}
        BY <2>1, <4>2
      <4> QED BY <2>1, <4>1, <4>3
    <3> QED BY <2>1, <2>2, <3>1 DEF Served, DocumentedRoles, LimitedRoutes, Pages
  <2>3. CASE req[r].route \in OpenRoutes
    <3>1. req[r].answers = <<"served">>
      <4>1. \/ req[r].pos = 1 /\ req[r].answers = <<>>
            \/ req[r].pos = 2 /\ req[r].answers = <<"served">>
        BY <2>1, <2>3 DEF OnItsWay, InOpen
      <4>2. Len(Chain(req[r].route)) = 1
        BY <2>3, Chains
      <4>3. req[r].pos # 1
        BY <2>1, <4>2
      <4> QED BY <4>1, <4>3
    <3> QED BY <2>1, <2>3, <3>1 DEF Served, DocumentedRoles, OpenRoutes, Public, Pages
  <2>4. CASE req[r].route = "registerPage"
    <3>1. req[r].answers \in {<<"served">>, Append(<<"served">>, "429")}
      BY <2>1, <2>4, Chains DEF OnItsWay, InPage
    <3>2. \E i \in DOMAIN req[r].answers : req[r].answers[i] = "served"
      BY <3>1, PageServed
    <3>3. Served(r)
      BY <3>2 DEF Served
    <3> QED BY <2>1, <2>4, <3>3 DEF DocumentedRoles, Pages
  <2>5. CASE req[r].route \in GuardedRoutes
    <3>1. \/ req[r].answers = <<"served">> /\ req[r].credential \in RequiredRoles(req[r].route)
          \/ req[r].answers \in {<<"302">>, <<"401">>} /\ req[r].credential \notin Roles
          \/ req[r].answers = <<"403">> /\ req[r].credential \notin RequiredRoles(req[r].route)
      BY <2>1, <2>5, Chains DEF OnItsWay, InGuarded
    <3>2. /\ Served(r) <=> req[r].answers = <<"served">>
          /\ RequiredRoles(req[r].route) \subseteq Roles
      BY <3>1 DEF Served, RequiredRoles, Roles
    <3>3. Served(r) <=> req[r].credential \in RequiredRoles(req[r].route)
      BY <3>1, <3>2
    <3>4. \/ RequiredRoles(req[r].route) = DocumentedRoles(req[r].route)
          \/ req[r].route = "userApi" /\ DocumentedRoles(req[r].route) = Roles
      BY <2>5 DEF GuardedRoutes, Pages, RequiredRoles, DocumentedRoles
    <3>5. CASE req[r].route = "userApi"
      BY <2>1, <3>3, <3>5 DEF RequiredRoles, DocumentedRoles, Roles, Credentials, Pages
    <3> QED BY <3>3, <3>4, <3>5
  <2> QED BY <2>1, <2>2, <2>3, <2>4, <2>5, Kinds
<1> QED BY <1>1, ChainsKept, PTL

-----------------------------------------------------------------------------
(***************************************************************************)
(* The limiter.  What it did to an address is a log: when a request came,  *)
(* and whether it passed.                                                  *)

Entry == [at : 0..MaxTime, passed : BOOLEAN]
Logs  == Seq(Entry)

(* What passed from a until b.                                             *)
LetIn(L, a, b) == {i \in DOMAIN L : L[i].passed /\ a <= L[i].at /\ L[i].at < b}

CameSince(L, s) == {i \in DOMAIN L : s <= L[i].at}

(* The window that was opened at s by a request that passed: it holds      *)
(* everything since, `count` in all, of which Limit passed at most; and    *)
(* what passed before, in a stretch that reaches into it, lacks the first  *)
(* request of the window before.                                           *)
Window(L, count, s, time) ==
  /\ \A i \in DOMAIN L : L[i].at <= time /\ L[i].at < s + Period
  /\ \E i \in DOMAIN L : L[i].passed /\ L[i].at = s
  /\ count = Cardinality(CameSince(L, s))
  /\ Cardinality(LetIn(L, s, s + Period)) <= Limit
  /\ \A t \in 0..MaxTime : t < s /\ s < t + Period =>
       Cardinality(LetIn(L, t, s)) <= Limit - 1

Budget(L) ==
  \A t \in 0..MaxTime : Cardinality(LetIn(L, t, t + Period)) <= 2 * Limit - 1

Refusals(L) ==
  \A i \in DOMAIN L :
    \/ L[i].passed
    \/ \E t \in 0..L[i].at :
         /\ Within(L[i].at, t)
         /\ Cardinality({j \in 1..i : Within(L[j].at, t)}) > Limit

WindowOf(L, c, time) ==
  /\ c.count = 0 => L = <<>>
  /\ c.count > 0 => \E s \in 0..time : c.expires = s + Period /\ Window(L, c.count, s, time)

LimiterInv ==
  /\ now \in 0..MaxTime
  /\ counter \in [Addresses -> [count : Nat, expires : 0..(MaxTime + Period)]]
  /\ limited \in [Addresses -> Logs]
  /\ \A ip \in Addresses : /\ WindowOf(limited[ip], counter[ip], now)
                           /\ Budget(limited[ip]) /\ Refusals(limited[ip])

LEMMA EntryFields ==
  ASSUME NEW L \in Logs
  PROVE  \A i \in DOMAIN L : L[i].at \in 0..MaxTime /\ L[i].at \in Nat /\ L[i].passed \in BOOLEAN
<1>1. \A i \in DOMAIN L : L[i] \in Entry
  BY DEF Logs
<1>2. \A e \in Entry : e.at \in 0..MaxTime /\ e.at \in Nat /\ e.passed \in BOOLEAN
  BY LimitAssumption DEF Entry
<1> QED BY <1>1, <1>2

LEMMA SubsetsOfALog ==
  ASSUME NEW L \in Logs, NEW S \in SUBSET DOMAIN L
  PROVE  IsFiniteSet(S) /\ Cardinality(S) \in Nat
<1>1. DOMAIN L = 1..Len(L) /\ Len(L) \in Nat
  BY DEF Logs
<1>2. IsFiniteSet(1..Len(L))
  BY <1>1, FS_Interval
<1>3. IsFiniteSet(S)
  BY <1>1, <1>2, FS_Subset
<1> QED BY <1>3, FS_CardinalityType

LEMMA Counts ==
  ASSUME NEW L \in Logs
  PROVE  /\ \A a, b \in Nat : LetIn(L, a, b) \subseteq DOMAIN L
         /\ \A a, b \in Nat : IsFiniteSet(LetIn(L, a, b)) /\ Cardinality(LetIn(L, a, b)) \in Nat
         /\ \A s \in Nat : IsFiniteSet(CameSince(L, s)) /\ Cardinality(CameSince(L, s)) \in Nat
<1>1. \A a, b \in Nat : LetIn(L, a, b) \in SUBSET DOMAIN L
  BY DEF LetIn
<1>2. \A s \in Nat : CameSince(L, s) \in SUBSET DOMAIN L
  BY DEF CameSince
<1> QED BY <1>1, <1>2, SubsetsOfALog

(* One more entry.                                                         *)
LEMMA Extended ==
  ASSUME NEW L \in Logs, NEW e \in Entry
  PROVE  /\ Append(L, e) \in Logs
         /\ DOMAIN Append(L, e) = 1..(Len(L) + 1) /\ DOMAIN L = 1..Len(L) /\ Len(L) \in Nat
         /\ \A i \in 1..Len(L) : Append(L, e)[i] = L[i]
         /\ Append(L, e)[Len(L) + 1] = e
BY DEF Logs

LEMMA ExtendedCount ==
  ASSUME NEW L \in Logs, NEW e \in Entry, NEW a \in Nat, NEW b \in Nat
  PROVE  LET K == Append(L, e)
         IN  /\ ~(e.passed /\ a <= e.at /\ e.at < b) => LetIn(K, a, b) = LetIn(L, a, b)
             /\ Cardinality(LetIn(K, a, b)) <= Cardinality(LetIn(L, a, b)) + 1
             /\ a <= e.at =>
                  Cardinality(CameSince(K, a)) = Cardinality(CameSince(L, a)) + 1
<1> DEFINE K == Append(L, e)
           n == Len(L) + 1
<1>1. /\ K \in Logs /\ DOMAIN K = 1..n /\ DOMAIN L = 1..Len(L) /\ Len(L) \in Nat /\ n = Len(L) + 1
      /\ \A i \in 1..Len(L) : K[i] = L[i]
      /\ K[n] = e
  BY Extended
<1> HIDE DEF K, n
<1>2. \A i \in 1..n : i \in 1..Len(L) \/ i = n
  BY <1>1
<1>3. \A i \in 1..Len(L) : i \in 1..n /\ i # n
  BY <1>1
<1>4. ~(e.passed /\ a <= e.at /\ e.at < b) => LetIn(K, a, b) = LetIn(L, a, b)
  BY <1>1, <1>2, <1>3 DEF LetIn
<1>5. e.passed /\ a <= e.at /\ e.at < b => LetIn(K, a, b) = LetIn(L, a, b) \cup {n}
  BY <1>1, <1>2, <1>3 DEF LetIn
<1>6. n \notin LetIn(L, a, b) /\ n \notin CameSince(L, a)
  BY <1>1, <1>3 DEF LetIn, CameSince
<1>7. /\ IsFiniteSet(LetIn(L, a, b)) /\ Cardinality(LetIn(L, a, b)) \in Nat
      /\ IsFiniteSet(CameSince(L, a))
  BY Counts
<1>8. Cardinality(LetIn(L, a, b) \cup {n}) = Cardinality(LetIn(L, a, b)) + 1
  BY <1>6, <1>7, FS_AddElement
<1>9. Cardinality(LetIn(K, a, b)) <= Cardinality(LetIn(L, a, b)) + 1
  <2>1. LetIn(K, a, b) = LetIn(L, a, b) \/ LetIn(K, a, b) = LetIn(L, a, b) \cup {n}
    BY <1>4, <1>5
  <2>2. CASE LetIn(K, a, b) = LetIn(L, a, b)
    BY <1>7, <2>2
  <2>3. CASE LetIn(K, a, b) = LetIn(L, a, b) \cup {n}
    BY <1>7, <1>8, <2>3
  <2> QED BY <2>1, <2>2, <2>3
<1>10. ASSUME a <= e.at
       PROVE  Cardinality(CameSince(K, a)) = Cardinality(CameSince(L, a)) + 1
  <2>1. CameSince(K, a) = CameSince(L, a) \cup {n}
    BY <1>1, <1>2, <1>3, <1>10 DEF CameSince
  <2> QED BY <1>6, <1>7, <2>1, FS_AddElement
<1> QED BY <1>4, <1>9, <1>10 DEF K

(* A stretch is no more than its two parts.                                *)
LEMMA Parts ==
  ASSUME NEW L \in Logs, NEW a \in Nat, NEW b \in Nat, NEW c \in Nat, NEW d \in Nat, c <= d
  PROVE  Cardinality(LetIn(L, a, c)) <= Cardinality(LetIn(L, a, b)) + Cardinality(LetIn(L, b, d))
<1> DEFINE S == LetIn(L, a, b)
           T == LetIn(L, b, d)
<1>1. /\ IsFiniteSet(S) /\ IsFiniteSet(T)
      /\ Cardinality(S) \in Nat /\ Cardinality(T) \in Nat
      /\ Cardinality(LetIn(L, a, c)) \in Nat
  BY Counts
<1>2. \A i \in DOMAIN L : L[i].at \in Nat
  BY EntryFields
<1>3. LetIn(L, a, c) \subseteq S \cup T
  BY <1>2 DEF LetIn
<1> HIDE DEF S, T
<1>4. /\ IsFiniteSet(S \cup T)
      /\ Cardinality(S \cup T) = Cardinality(S) + Cardinality(T) - Cardinality(S \cap T)
  BY <1>1, FS_Union
<1>5. Cardinality(S \cap T) \in Nat
  <2>1. IsFiniteSet(S \cap T)
    BY <1>1, FS_Intersection
  <2> QED BY <2>1, FS_CardinalityType
<1>6. Cardinality(LetIn(L, a, c)) <= Cardinality(S \cup T)
  BY <1>3, <1>4, FS_Subset
<1>7. Cardinality(LetIn(L, a, c)) <= Cardinality(S) + Cardinality(T)
  BY <1>1, <1>4, <1>5, <1>6
<1> QED BY <1>7 DEF S, T

(* The first request of a window passed, so that a stretch that starts     *)
(* inside the window lacks one of its Limit.                               *)
LEMMA WithoutTheFirst ==
  ASSUME NEW L \in Logs, NEW s \in Nat, NEW count, NEW time,
         Window(L, count, s, time), NEW t \in Nat, s < t, NEW b \in Nat
  PROVE  Cardinality(LetIn(L, t, b)) <= Limit - 1
<1> DEFINE W == LetIn(L, s, s + Period)
<1>1. PICK i \in DOMAIN L : L[i].passed /\ L[i].at = s
  BY DEF Window
<1>2. \A j \in DOMAIN L : L[j].at \in Nat /\ L[j].at < s + Period
  BY EntryFields DEF Window
<1>3. s + Period \in Nat /\ s < s + Period
  BY LimitAssumption
<1>4. IsFiniteSet(W) /\ Cardinality(W) \in Nat /\ Cardinality(LetIn(L, t, b)) \in Nat
  BY <1>3, Counts
<1>5. i \in W /\ LetIn(L, t, b) \subseteq W \ {i}
  BY <1>1, <1>2, <1>3 DEF LetIn
<1>6. Cardinality(W) <= Limit
  BY DEF Window
<1> HIDE DEF W
<1>7. IsFiniteSet(W \ {i}) /\ Cardinality(W \ {i}) = Cardinality(W) - 1
  BY <1>4, <1>5, FS_RemoveElement
<1>8. Cardinality(LetIn(L, t, b)) <= Cardinality(W \ {i})
  BY <1>5, <1>7, FS_Subset
<1> QED BY <1>4, <1>6, <1>7, <1>8, LimitAssumption

(* A stretch that reaches into the open window has its budget.             *)
LEMMA Stretch ==
  ASSUME NEW L \in Logs, NEW s \in Nat, NEW count, NEW time,
         Window(L, count, s, time), NEW t \in 0..MaxTime, s < t + Period
  PROVE  Cardinality(LetIn(L, t, t + Period)) <= 2 * Limit - 1
<1>0. t \in Nat /\ t + Period \in Nat /\ s + Period \in Nat /\ Limit \in Nat \ {0}
  BY LimitAssumption
<1>1. Cardinality(LetIn(L, s, s + Period)) <= Limit
  BY DEF Window
<1>2. /\ Cardinality(LetIn(L, t, t + Period)) \in Nat
      /\ Cardinality(LetIn(L, s, s + Period)) \in Nat
      /\ Cardinality(LetIn(L, t, s)) \in Nat
  BY <1>0, Counts
<1>3. CASE t < s
  <2>1. Cardinality(LetIn(L, t, s)) <= Limit - 1
    BY <1>3 DEF Window
  <2>2. t + Period <= s + Period
    BY <1>0, <1>3, LimitAssumption
  <2>3. Cardinality(LetIn(L, t, t + Period))
          <= Cardinality(LetIn(L, t, s)) + Cardinality(LetIn(L, s, s + Period))
    BY <1>0, <2>2, Parts
  <2> QED BY <1>0, <1>1, <1>2, <2>1, <2>3
<1>4. CASE t = s
  BY <1>0, <1>1, <1>2, <1>4
<1>5. CASE s < t
  <2>1. Cardinality(LetIn(L, t, t + Period)) <= Limit - 1
    BY <1>0, <1>5, WithoutTheFirst
  <2> QED BY <1>0, <1>2, <2>1
<1> QED BY <1>0, <1>3, <1>4, <1>5

LEMMA BudgetStep ==
  ASSUME NEW L \in Logs, Budget(L), NEW e \in Entry, NEW s \in Nat, NEW count, s <= e.at,
         Window(Append(L, e), count, s, e.at)
  PROVE  Budget(Append(L, e))
<1> SUFFICES ASSUME NEW t \in 0..MaxTime
             PROVE  Cardinality(LetIn(Append(L, e), t, t + Period)) <= 2 * Limit - 1
  BY DEF Budget
<1>0. /\ t \in Nat /\ t + Period \in Nat /\ e.at \in Nat
      /\ Append(L, e) \in Logs
  BY Extended, LimitAssumption DEF Entry
<1>1. CASE s < t + Period
  BY <1>0, <1>1, Stretch
<1>2. CASE t + Period <= s
  <2>1. ~(e.at < t + Period)
    BY <1>0, <1>2
  <2>2. LetIn(Append(L, e), t, t + Period) = LetIn(L, t, t + Period)
    BY <1>0, <2>1, ExtendedCount
  <2> QED BY <2>2 DEF Budget
<1> QED BY <1>0, <1>1, <1>2

(* The first request of a new window.                                      *)
LEMMA NewWindow ==
  ASSUME NEW L \in Logs, NEW time \in 0..MaxTime,
         \/ L = <<>>
         \/ \E s \in Nat, count \in Nat, before \in Nat :
              Window(L, count, s, before) /\ s + Period <= time,
         NEW e \in Entry, e.at = time, e.passed
  PROVE  Window(Append(L, e), 1, time, time)
<1> DEFINE K == Append(L, e)
           n == Len(L) + 1
<1>0. /\ time \in Nat /\ Period \in Nat \ {0} /\ Limit \in Nat \ {0}
      /\ time < time + Period /\ time + Period \in Nat
  BY LimitAssumption
<1>1. /\ K \in Logs /\ DOMAIN K = 1..n /\ DOMAIN L = 1..Len(L) /\ Len(L) \in Nat
      /\ n = Len(L) + 1 /\ n \in DOMAIN K
      /\ \A i \in 1..Len(L) : K[i] = L[i]
      /\ K[n] = e
  BY Extended
<1>2. \A i \in DOMAIN L : L[i].at < time /\ L[i].at \in Nat
  <2>1. CASE L = <<>>
    BY <2>1
  <2>2. CASE L # <<>>
    <3>1. PICK s \in Nat, count \in Nat, before \in Nat :
            Window(L, count, s, before) /\ s + Period <= time
      BY <2>2
    <3>2. \A i \in DOMAIN L : L[i].at < s + Period /\ L[i].at \in Nat
      BY <3>1, EntryFields DEF Window
    <3> QED BY <1>0, <3>1, <3>2
  <2> QED BY <2>1, <2>2
<1>3. CameSince(L, time) = {} /\ LetIn(L, time, time + Period) = {}
  BY <1>0, <1>2 DEF CameSince, LetIn
<1>4. Cardinality(CameSince(K, time)) = 1 /\ Cardinality(LetIn(K, time, time + Period)) <= 1
  <2>1. /\ Cardinality(CameSince(K, time)) = Cardinality(CameSince(L, time)) + 1
        /\ Cardinality(LetIn(K, time, time + Period))
             <= Cardinality(LetIn(L, time, time + Period)) + 1
    BY <1>0, ExtendedCount
  <2>2. /\ Cardinality(CameSince(L, time)) = 0
        /\ Cardinality(LetIn(L, time, time + Period)) = 0
    BY <1>3, FS_EmptySet
  <2> HIDE DEF K
  <2> QED BY <2>1, <2>2
<1> HIDE DEF n
<1>5. ASSUME NEW t \in 0..MaxTime, t < time, time < t + Period
      PROVE  Cardinality(LetIn(K, t, time)) <= Limit - 1
  <2>0. t \in Nat
    OBVIOUS
  <2>1. LetIn(K, t, time) = LetIn(L, t, time)
    BY <1>0, <2>0, ExtendedCount
  <2>2. CASE L = <<>>
    <3>1. LetIn(L, t, time) = {}
      BY <2>2 DEF LetIn
    <3> QED BY <1>0, <2>1, <3>1, FS_EmptySet
  <2>3. CASE L # <<>>
    <3>1. PICK s \in Nat, count \in Nat, before \in Nat :
            Window(L, count, s, before) /\ s + Period <= time
      BY <2>3
    <3>2. s < t
      BY <1>0, <1>5, <2>0, <3>1
    <3>3. Cardinality(LetIn(L, t, time)) <= Limit - 1
      BY <1>0, <2>0, <3>1, <3>2, WithoutTheFirst
    <3> QED BY <2>1, <3>3
  <2> QED BY <2>2, <2>3
<1>6. \A i \in DOMAIN K : K[i].at <= time /\ K[i].at < time + Period
  <2>1. \A i \in DOMAIN K : i \in 1..Len(L) \/ i = n
    BY <1>1
  <2> QED BY <1>0, <1>1, <1>2, <2>1
<1>7. \E i \in DOMAIN K : K[i].passed /\ K[i].at = time
  BY <1>1
<1> HIDE DEF K
<1>8. Cardinality(LetIn(K, time, time + Period)) <= Limit
  <2>1. Cardinality(LetIn(K, time, time + Period)) \in Nat
    BY <1>0, <1>1, Counts
  <2> QED BY <1>0, <1>4, <2>1
<1>9. Window(K, 1, time, time)
  BY <1>4, <1>5, <1>6, <1>7, <1>8 DEF Window
<1> QED BY <1>9 DEF K

(* One more request in the window that is open.                            *)
LEMMA SameWindow ==
  ASSUME NEW L \in Logs, NEW time \in 0..MaxTime, NEW s \in Nat, NEW count \in Nat, NEW before \in Nat,
         Window(L, count, s, before), before <= time, s <= time, time < s + Period,
         NEW e \in Entry, e.at = time, e.passed => count + 1 <= Limit
  PROVE  Window(Append(L, e), count + 1, s, time)
<1> DEFINE K == Append(L, e)
           n == Len(L) + 1
<1>0. /\ time \in Nat /\ Period \in Nat \ {0} /\ Limit \in Nat \ {0} /\ s + Period \in Nat
  BY LimitAssumption
<1>1. /\ K \in Logs /\ DOMAIN K = 1..n /\ DOMAIN L = 1..Len(L) /\ Len(L) \in Nat
      /\ n = Len(L) + 1
      /\ \A i \in 1..Len(L) : K[i] = L[i]
      /\ K[n] = e
  BY Extended
<1>2. Cardinality(CameSince(K, s)) = count + 1
  <2>1. Cardinality(CameSince(K, s)) = Cardinality(CameSince(L, s)) + 1
    BY ExtendedCount
  <2> QED BY <2>1 DEF Window
<1>3. ASSUME NEW t \in 0..MaxTime, t < s, s < t + Period
      PROVE  Cardinality(LetIn(K, t, s)) <= Limit - 1
  <2>1. t \in Nat /\ ~(e.at < s)
    BY <1>0
  <2>2. LetIn(K, t, s) = LetIn(L, t, s)
    BY <2>1, ExtendedCount
  <2>3. Cardinality(LetIn(L, t, s)) <= Limit - 1
    BY <1>3 DEF Window
  <2> QED BY <2>2, <2>3
<1>4. /\ Cardinality(LetIn(L, s, s + Period)) \in Nat
      /\ Cardinality(LetIn(K, s, s + Period)) \in Nat
      /\ Cardinality(LetIn(L, s, s + Period)) <= Limit
      /\ Cardinality(LetIn(L, s, s + Period)) <= count
  <2>1. LetIn(L, s, s + Period) \subseteq CameSince(L, s) /\ IsFiniteSet(CameSince(L, s))
    BY Counts DEF LetIn, CameSince
  <2>2. Cardinality(LetIn(L, s, s + Period)) <= Cardinality(CameSince(L, s))
    BY <2>1, FS_Subset
  <2> QED BY <1>0, <1>1, <2>2, Counts DEF Window
<1>5. Cardinality(LetIn(K, s, s + Period)) <= Limit
  <2>1. CASE e.passed
    <3>1. Cardinality(LetIn(K, s, s + Period)) <= Cardinality(LetIn(L, s, s + Period)) + 1
      BY <1>0, ExtendedCount
    <3>2. count + 1 <= Limit
      BY <2>1
    <3> QED BY <1>0, <1>4, <3>1, <3>2
  <2>2. CASE ~e.passed
    <3>1. LetIn(K, s, s + Period) = LetIn(L, s, s + Period)
      BY <1>0, <2>2, ExtendedCount
    <3> QED BY <1>4, <3>1
  <2> QED BY <2>1, <2>2
<1> HIDE DEF n
<1>6. \A i \in DOMAIN K : K[i].at <= time /\ K[i].at < s + Period
  <2>1. \A i \in DOMAIN K : i \in 1..Len(L) \/ i = n
    BY <1>1
  <2>2. \A i \in DOMAIN L : L[i].at <= before /\ L[i].at < s + Period /\ L[i].at \in Nat
    BY EntryFields DEF Window
  <2> QED BY <1>0, <1>1, <2>1, <2>2
<1>7. \E i \in DOMAIN K : K[i].passed /\ K[i].at = s
  <2>1. PICK i \in DOMAIN L : L[i].passed /\ L[i].at = s
    BY DEF Window
  <2>2. i \in DOMAIN K /\ K[i] = L[i]
    BY <1>1, <2>1
  <2> QED BY <2>1, <2>2
<1> HIDE DEF K
<1>8. Window(K, count + 1, s, time)
  BY <1>2, <1>3, <1>5, <1>6, <1>7 DEF Window
<1> QED BY <1>8 DEF K

(* Who is refused came after Limit others of the same window.              *)
LEMMA RefusalsStep ==
  ASSUME NEW L \in Logs, Refusals(L), NEW e \in Entry, NEW s \in 0..e.at, NEW count \in Nat,
         Window(Append(L, e), count, s, e.at), e.passed \/ count > Limit
  PROVE  Refusals(Append(L, e))
<1> DEFINE K == Append(L, e)
           n == Len(L) + 1
           Came(M, i, t) == {j \in 1..i : Within(M[j].at, t)}
<1>0. /\ e.at \in Nat /\ s \in Nat
      /\ K \in Logs /\ DOMAIN K = 1..n /\ DOMAIN L = 1..Len(L) /\ Len(L) \in Nat
      /\ n = Len(L) + 1
      /\ \A i \in 1..Len(L) : K[i] = L[i]
      /\ K[n] = e
  BY Extended, EntryFields, LimitAssumption DEF Entry
<1> HIDE DEF n
<1>1. ASSUME NEW i \in 1..Len(L)
      PROVE  \/ K[i].passed
             \/ \E t \in 0..K[i].at : Within(K[i].at, t) /\ Cardinality(Came(K, i, t)) > Limit
  <2>1. \A j \in 1..i : j \in 1..Len(L)
    BY <1>0, <1>1
  <2>2. \A t : Came(K, i, t) = Came(L, i, t)
    BY <1>0, <2>1
  <2>3. \/ L[i].passed
        \/ \E t \in 0..L[i].at : Within(L[i].at, t) /\ Cardinality(Came(L, i, t)) > Limit
    BY <1>0, <1>1 DEF Refusals
  <2> HIDE DEF Came, K
  <2> QED BY <1>0, <2>2, <2>3
<1>2. ASSUME ~e.passed
      PROVE  Within(e.at, s) /\ Cardinality(Came(K, n, s)) > Limit
  <2>1. \A i \in DOMAIN K : K[i].at < s + Period /\ K[i].at \in Nat
    BY <1>0, EntryFields DEF Window
  <2>2. n \in DOMAIN K
    BY <1>0
  <2>3. Within(e.at, s)
    BY <1>0, <2>1, <2>2 DEF Within
  <2>4. Came(K, n, s) = CameSince(K, s)
    BY <1>0, <2>1 DEF CameSince, Within
  <2>5. Cardinality(CameSince(K, s)) = count
    BY DEF Window
  <2> QED BY <1>2, <2>3, <2>4, <2>5
<1>3. \A i \in DOMAIN K : i \in 1..Len(L) \/ i = n
  BY <1>0
<1>4. ASSUME NEW i \in DOMAIN K
      PROVE  \/ K[i].passed
             \/ \E t \in 0..K[i].at : Within(K[i].at, t) /\ Cardinality(Came(K, i, t)) > Limit
  <2>1. CASE i \in 1..Len(L)
    BY <1>1, <2>1
  <2>2. CASE i = n
    BY <1>0, <1>2, <2>2
  <2> QED BY <1>3, <2>1, <2>2
<1> QED BY <1>4 DEF Refusals

(* What the limiter does to the counter and the log of an address.         *)
LEMMA AddressStep ==
  ASSUME NEW L \in Logs, NEW c \in [count : Nat, expires : 0..(MaxTime + Period)],
         now \in 0..MaxTime, WindowOf(L, c, now), Budget(L), Refusals(L)
  PROVE  LET d == Counted(c)
             K == Append(L, [at |-> now, passed |-> ~Reached(d)])
         IN  /\ d \in [count : Nat, expires : 0..(MaxTime + Period)]
             /\ K \in Logs /\ WindowOf(K, d, now) /\ Budget(K) /\ Refusals(K)
<1> DEFINE d == Counted(c)
           e == [at |-> now, passed |-> ~Reached(d)]
<1>0. /\ now \in Nat /\ Period \in Nat \ {0} /\ Limit \in Nat \ {0} /\ MaxTime \in Nat
      /\ c.count \in Nat /\ c.expires \in Nat
  BY LimitAssumption
<1>1. e \in Entry /\ e.at = now /\ (e.passed <=> ~Reached(d))
  BY DEF Entry
<1>2. d \in [count : Nat, expires : 0..(MaxTime + Period)]
  BY <1>0 DEF Counted
<1>3. Append(L, e) \in Logs
  BY <1>1, Extended
<1>4. ASSUME NEW s \in 0..now, d.expires = s + Period, d.count > 0,
             Window(Append(L, e), d.count, s, now)
      PROVE  WindowOf(Append(L, e), d, now) /\ Budget(Append(L, e)) /\ Refusals(Append(L, e))
  <2>1. d.count \in Nat /\ s \in Nat /\ s <= now /\ (e.passed \/ d.count > Limit)
    BY <1>0, <1>1, <1>2 DEF Reached
  <2> HIDE DEF d, e
  <2>2. Budget(Append(L, e))
    BY <1>1, <1>4, <2>1, BudgetStep
  <2>3. Refusals(Append(L, e))
    BY <1>1, <1>4, <2>1, RefusalsStep
  <2>4. WindowOf(Append(L, e), d, now)
    BY <1>4, <2>1 DEF WindowOf
  <2> QED BY <2>2, <2>3, <2>4
<1>5. CASE c.count = 0 \/ now >= c.expires
  <2>1. d = [count |-> 1, expires |-> now + Period]
    BY <1>5 DEF Counted
  <2>2. e.passed
    BY <1>0, <1>1, <2>1 DEF Reached
  <2>3. \/ L = <<>>
        \/ \E s \in Nat, count \in Nat, before \in Nat :
             Window(L, count, s, before) /\ s + Period <= now
    <3>1. CASE c.count = 0
      BY <3>1 DEF WindowOf
    <3>2. CASE c.count > 0
      <4>1. PICK s \in 0..now : c.expires = s + Period /\ Window(L, c.count, s, now)
        BY <3>2 DEF WindowOf
      <4> QED BY <1>0, <1>5, <3>2, <4>1
    <3> QED BY <1>0, <3>1, <3>2
  <2>4. d.count = 1 /\ d.expires = now + Period
    BY <2>1
  <2> HIDE DEF d, e
  <2>5. Window(Append(L, e), 1, now, now)
    BY <1>1, <2>2, <2>3, NewWindow
  <2> QED BY <1>0, <1>2, <1>3, <1>4, <2>4, <2>5 DEF d, e
<1>6. CASE c.count > 0 /\ now < c.expires
  <2>1. PICK s \in 0..now : c.expires = s + Period /\ Window(L, c.count, s, now)
    BY <1>6 DEF WindowOf
  <2>2. d = [c EXCEPT !.count = @ + 1]
    BY <1>0, <1>6 DEF Counted
  <2>3. d.count = c.count + 1 /\ d.expires = c.expires
    BY <2>2
  <2>4. e.passed => c.count + 1 <= Limit
    BY <1>0, <1>1, <2>3 DEF Reached
  <2> HIDE DEF d, e
  <2>5. Window(Append(L, e), c.count + 1, s, now)
    <3>1. s \in Nat /\ s <= now /\ now < s + Period
      BY <1>0, <1>6, <2>1
    <3> QED BY <1>0, <1>1, <2>1, <2>4, <3>1, SameWindow
  <2> QED BY <1>0, <1>2, <1>3, <1>4, <2>1, <2>3, <2>5 DEF d, e
<1> QED BY <1>0, <1>5, <1>6

(* The clock goes on under a window.                                       *)
LEMMA TickStep ==
  ASSUME NEW L \in Logs, NEW c \in [count : Nat, expires : 0..(MaxTime + Period)],
         NEW time \in Nat, NEW later \in Nat, time <= later, WindowOf(L, c, time)
  PROVE  WindowOf(L, c, later)
<1>1. CASE c.count > 0
  <2>1. PICK s \in 0..time : c.expires = s + Period /\ Window(L, c.count, s, time)
    BY <1>1 DEF WindowOf
  <2>2. \A i \in DOMAIN L : L[i].at \in Nat
    BY EntryFields
  <2>3. \A i \in DOMAIN L : L[i].at <= time => L[i].at <= later
    BY <2>2
  <2>4. Window(L, c.count, s, later)
    BY <2>1, <2>3 DEF Window
  <2>5. s \in 0..later
    OBVIOUS
  <2> QED BY <1>1, <2>1, <2>4, <2>5 DEF WindowOf
<1>2. CASE ~(c.count > 0)
  BY <1>2 DEF WindowOf
<1> QED BY <1>1, <1>2

LEMMA LimiterStep == RequestsInv /\ LimiterInv /\ [Next]_vars => LimiterInv'
<1> SUFFICES ASSUME RequestsInv, LimiterInv, [Next]_vars PROVE LimiterInv'
  OBVIOUS
<1>0. now \in Nat /\ MaxTime \in Nat
  BY LimitAssumption DEF LimiterInv
<1>1. ASSUME NEW r \in Requests, RateLimit(r) PROVE LimiterInv'
  <2> DEFINE ip == req[r].ip
             d == Counted(counter[ip])
             K == Append(limited[ip], [at |-> now, passed |-> ~Reached(d)])
  <2>1. ip \in Addresses
    <3>1. OnItsWay(req[r])
      BY <1>1, Positions DEF RateLimit
    <3> QED BY <3>1 DEF OnItsWay, Taken
  <2>2. counter' = [counter EXCEPT ![ip] = d] /\ limited' = [limited EXCEPT ![ip] = K] /\ now' = now
    BY <1>1 DEF RateLimit
  <2> HIDE DEF ip
  <2>3. /\ d \in [count : Nat, expires : 0..(MaxTime + Period)]
        /\ K \in Logs /\ WindowOf(K, d, now) /\ Budget(K) /\ Refusals(K)
    <3>1. /\ limited[ip] \in Logs /\ now \in 0..MaxTime
          /\ counter[ip] \in [count : Nat, expires : 0..(MaxTime + Period)]
          /\ WindowOf(limited[ip], counter[ip], now)
          /\ Budget(limited[ip]) /\ Refusals(limited[ip])
      BY <2>1 DEF LimiterInv
    <3> QED BY <3>1, AddressStep
  <2> HIDE DEF d, K
  <2>4. /\ counter' \in [Addresses -> [count : Nat, expires : 0..(MaxTime + Period)]]
        /\ limited' \in [Addresses -> Logs]
    BY <2>1, <2>2, <2>3 DEF LimiterInv
  <2>5. ASSUME NEW a \in Addresses
        PROVE  WindowOf(limited'[a], counter'[a], now') /\ Budget(limited'[a]) /\ Refusals(limited'[a])
    <3>1. CASE a = ip
      BY <2>1, <2>2, <2>3, <3>1 DEF LimiterInv
    <3>2. CASE a # ip
      BY <2>2, <3>2 DEF LimiterInv
    <3> QED BY <3>1, <3>2
  <2> QED BY <2>2, <2>4, <2>5 DEF LimiterInv
<1>2. CASE Tick
  <2>1. now' \in 0..MaxTime /\ now' \in Nat /\ now <= now' /\ UNCHANGED <<counter, limited>>
    BY <1>0, <1>2 DEF Tick, LimiterInv
  <2>2. ASSUME NEW a \in Addresses
        PROVE  WindowOf(limited[a], counter[a], now')
    <3>1. /\ limited[a] \in Logs /\ WindowOf(limited[a], counter[a], now)
          /\ counter[a] \in [count : Nat, expires : 0..(MaxTime + Period)]
      BY DEF LimiterInv
    <3> QED BY <1>0, <2>1, <3>1, TickStep
  <2> QED BY <2>1, <2>2 DEF LimiterInv
<1>3. CASE UNCHANGED <<now, counter, limited>>
  BY <1>3 DEF LimiterInv
<1> QED BY <1>1, <1>2, <1>3 DEF Next, Arrive, JWTAuth, RequireRole, Handle, Finish, vars

LEMMA LimiterInit == Init => LimiterInv
<1> SUFFICES ASSUME Init PROVE LimiterInv
  OBVIOUS
<1>1. <<>> \in Logs /\ Refusals(<<>>)
  BY DEF Logs, Refusals
<1>2. Budget(<<>>)
  <2>1. \A t : LetIn(<<>>, t, t + Period) = {}
    BY DEF LetIn
  <2> QED BY <2>1, FS_EmptySet, LimitAssumption DEF Budget
<1>3. 0 \in 0..MaxTime /\ 0 \in 0..(MaxTime + Period)
  BY LimitAssumption
<1> QED BY <1>1, <1>2, <1>3 DEF Init, LimiterInv, WindowOf

THEOREM LimiterKept == Spec => []LimiterInv
BY LimiterInit, LimiterStep, ChainsKept, PTL DEF Spec

(* In no stretch of one period do more than 2 * Limit - 1 requests of one  *)
(* address pass, for any limit and any period.                             *)
THEOREM WithinBudget == Spec => []BudgetKept
<1>1. LimiterInv => BudgetKept
  <2> SUFFICES ASSUME LimiterInv, NEW ip \in Addresses, NEW t \in 0..MaxTime
               PROVE  Cardinality({i \in DOMAIN limited[ip] :
                        limited[ip][i].passed /\ Within(limited[ip][i].at, t)}) <= 2 * Limit - 1
    BY DEF BudgetKept
  <2>1. LetIn(limited[ip], t, t + Period) =
          {i \in DOMAIN limited[ip] : limited[ip][i].passed /\ Within(limited[ip][i].at, t)}
    BY DEF LetIn, Within
  <2>2. Cardinality(LetIn(limited[ip], t, t + Period)) <= 2 * Limit - 1
    BY DEF LimiterInv, Budget
  <2> QED BY <2>1, <2>2
<1> QED BY <1>1, LimiterKept, PTL

(* Nobody is refused but on account of his own requests in one period.     *)
THEOREM RefusalsDue == Spec => []NoFalseRefusal
<1>1. LimiterInv => NoFalseRefusal
  BY DEF LimiterInv, Refusals, NoFalseRefusal
<1> QED BY <1>1, LimiterKept, PTL

(* Every variable of the router keeps its type.                            *)
THEOREM TypeCorrect == Spec => []TypeOK
<1> DEFINE ArrivedOK == arrived \in 0..MaxArrivals
<1>1. Init => ArrivedOK
  BY LimitAssumption DEF Init
<1>2. ArrivedOK /\ [Next]_vars => ArrivedOK'
  <2> SUFFICES ASSUME ArrivedOK, [Next]_vars PROVE ArrivedOK'
    OBVIOUS
  <2>1. ASSUME NEW r \in Requests, Arrive(r) PROVE ArrivedOK'
    BY <2>1, LimitAssumption DEF Arrive
  <2>2. CASE UNCHANGED arrived
    BY <2>2
  <2> HIDE DEF ArrivedOK
  <2> QED BY <2>1, <2>2
       DEF Next, Tick, RateLimit, JWTAuth, RequireRole, Handle, Finish, vars
<1>3. RequestsInv /\ LimiterInv /\ ArrivedOK => TypeOK
  <2> SUFFICES ASSUME RequestsInv, LimiterInv, ArrivedOK PROVE TypeOK
    OBVIOUS
  <2>1. ASSUME NEW r \in Requests, req[r] # Free
        PROVE  /\ req[r].route \in Routes /\ req[r].ip \in Addresses
               /\ req[r].credential \in Credentials
               /\ req[r].pos \in 1..(Len(Chain(req[r].route)) + 1)
               /\ req[r].answers \in Seq({"served", "302", "401", "403", "429"})
    <3>1. OnItsWay(req[r]) /\ req[r] \in Taken
      BY <2>1 DEF RequestsInv, OnItsWay
    <3>2. req[r].pos \in 1..(Len(Chain(req[r].route)) + 1)
      <4>1. CASE req[r].route \in LimitedRoutes
        BY <3>1, <4>1, Chains DEF OnItsWay, InLimited
      <4>2. CASE req[r].route \in OpenRoutes
        <5>1. req[r].pos \in {1, 2}
          BY <3>1, <4>2 DEF OnItsWay, InOpen
        <5> QED BY <4>2, <5>1, Chains
      <4>3. CASE req[r].route \in GuardedRoutes
        <5>1. req[r].pos \in 1..4
          BY <3>1 DEF Taken
        <5> QED BY <4>3, <5>1, Chains
      <4>4. CASE req[r].route = "registerPage"
        BY <3>1, <4>4, Chains DEF OnItsWay, InPage
      <4> QED BY <3>1, <4>1, <4>2, <4>3, <4>4, Kinds DEF Taken
    <3> QED BY <3>1, <3>2 DEF Taken, Answers
  <2>2. limited \in [Addresses -> Seq([at : 0..MaxTime, passed : BOOLEAN])]
    BY DEF LimiterInv, Logs, Entry
  <2> QED BY <2>1, <2>2 DEF TypeOK, LimiterInv
<1> QED BY <1>1, <1>2, <1>3, ChainsKept, LimiterKept, PTL DEF Spec
=============================================================================
