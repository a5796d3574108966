---------------------------- MODULE MCLifecycle ----------------------------
(* Instances of Lifecycle and of Config.  Every value in MCTried is wrong  *)
(* for its variable, or Empty; the ports are on both sides of both limits. *)
EXTENDS Lifecycle, TLC

MCNumberOf ==
  [n \in {"-1", "0", "1", "1023", "1024", "5432", "8080", "65535", "65536"} |->
     CASE n = "-1" -> -1      [] n = "0" -> 0        [] n = "1" -> 1
       [] n = "1023" -> 1023  [] n = "1024" -> 1024  [] n = "5432" -> 5432
       [] n = "8080" -> 8080  [] n = "65535" -> 65535 [] n = "65536" -> 65536]

MCWrong ==
  [v \in Variables |-> CASE v = "CACHE_CAPACITY" -> {"many", "-1", "0"}
                         [] v \in Ports          -> {"http", "1023", "65536"}
                         [] v = "LOG_FORMAT"     -> {"xml"}
                         [] OTHER                -> {}]

Good ==
  [v \in Variables |-> CASE v = "CACHE_CAPACITY" -> "1"   [] v = "HTTP_PORT" -> "1024"
                         [] v = "DB_PORT" -> "65535"      [] v = "LOG_FORMAT" -> "json"
                         [] OTHER -> "given"]

Nothing  == [v \in {} |-> Empty]
Tried(v) == MCWrong[v] \cup {Empty}

(* One whose file does not parse, one with a limit nobody can read, which Load   *)
(* takes, and one that is good because RATE_LIMIT has a default.           *)
GoodRates == [Good EXCEPT !["RATE_LIMIT"] = "5-S", !["RATE_LIMIT_REGISTER"] = "3-M"]
MCStarts ==
  {[parses |-> FALSE, file |-> Nothing, env |-> GoodRates],
   [parses |-> TRUE, file |-> Nothing, env |-> [GoodRates EXCEPT !["RATE_LIMIT"] = "often"]],
   [parses |-> TRUE, file |-> Nothing, env |-> [GoodRates EXCEPT !["RATE_LIMIT"] = Empty]]}

(* Up to two variables are off, in the environment or in the file.         *)
MCInputs ==
  UNION {{[parses |-> TRUE, file |-> f, env |-> [Good EXCEPT ![a] = x, ![b] = y]] :
            f \in {Nothing} \cup UNION {{[v \in {w} |-> z] : z \in Tried(w) \cup {Good[w]}} :
                                          w \in {a, b}},
            x \in Tried(a), y \in Tried(b)} : a, b \in Variables} \cup MCStarts
=============================================================================
