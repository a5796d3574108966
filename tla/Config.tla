------------------------------- MODULE Config -------------------------------
(***************************************************************************)
(* config.Load as a function: a .env file laid over the environment,       *)
(* defaults for what is empty, then the checks; held against the README's  *)
(* table of variables.                                                     *)
(***************************************************************************)
EXTENDS Integers

CONSTANTS
  NumberOf, \* the values that strconv.Atoi takes, each with its number
  Wrong     \* variable -> values that are out of its range

Empty == ""

Required  == {"JWT_SECRET", "DB_HOST", "DB_USER", "DB_PASSWORD", "DB_NAME",
              "KAFKA_BROKERS", "KAFKA_TOPIC"}
Ports     == {"HTTP_PORT", "DB_PORT"}
Optional  == Ports \cup {"LOG_FORMAT", "DB_SSL_MODE", "MIGRATION_DIR", "RATE_LIMIT",
                         "RATE_LIMIT_REGISTER"}
Variables == Required \cup Optional \cup {"CACHE_CAPACITY"}

ASSUME ConfigAssumption ==
  /\ Empty \notin DOMAIN NumberOf /\ \A n \in DOMAIN NumberOf : NumberOf[n] \in Int
  /\ {"8080", "5432"} \subseteq DOMAIN NumberOf
  /\ NumberOf["8080"] = 8080 /\ NumberOf["5432"] = 5432
  /\ DOMAIN Wrong = Variables

(* The constants of package config.                                        *)
Default ==
  [v \in Optional |-> CASE v = "HTTP_PORT"     -> "8080"       [] v = "DB_PORT"     -> "5432"
                        [] v = "LOG_FORMAT"    -> "text"       [] v = "DB_SSL_MODE" -> "disable"
                        [] v = "MIGRATION_DIR" -> "migrations" [] v = "RATE_LIMIT"  -> "5-S"
                        [] v = "RATE_LIMIT_REGISTER" -> "3-M"]

(* godotenv.Overload: the file wins over the environment; a file that is   *)
(* not there sets nothing.                                                 *)
Overload(in) ==
  [v \in Variables |-> IF v \in DOMAIN in.file THEN in.file[v] ELSE in.env[v]]

(* Mutant: the ports have no default.                                      *)
ApplyDefaultsNotPorts(e) ==
  [v \in Variables |-> IF v \in Optional \ Ports /\ e[v] = Empty THEN Default[v] ELSE e[v]]

ApplyDefaults(e) ==
  [v \in Variables |-> IF v \in Optional /\ e[v] = Empty THEN Default[v] ELSE e[v]]

IsNumber(value) == value \in DOMAIN NumberOf

(* Mutant: a cache of no order is let through.                             *)
ValidCapacityZero(e) == IsNumber(e["CACHE_CAPACITY"]) /\ NumberOf[e["CACHE_CAPACITY"]] >= 0

ValidCapacity(e) == IsNumber(e["CACHE_CAPACITY"]) /\ NumberOf[e["CACHE_CAPACITY"]] > 0

ValidateConfigs(e) ==
  /\ e["LOG_FORMAT"] \in {"text", "json"}
  /\ \A v \in Required : e[v] # Empty
  /\ \A v \in Ports : IsNumber(e[v]) /\ NumberOf[e[v]] >= 1024 /\ NumberOf[e[v]] <= 65535

(* The configuration that is built, and whether Load returns it: not if    *)
(* there is a file that cannot be read or parsed.                          *)
Loaded(in) == ApplyDefaults(Overload(in))
Loads(in)  == in.parses /\ ValidCapacity(Overload(in)) /\ ValidateConfigs(Loaded(in))

-----------------------------------------------------------------------------
(* Of the input of a process: what the other modules take for granted and  *)
(* what the README's table says.                                           *)
Usable(in) ==
  /\ \A v \in Variables : Loaded(in)[v] # Empty
  /\ NumberOf[Loaded(in)["CACHE_CAPACITY"]] \in Nat \ {0}
  /\ \A v \in Ports : 1024 <= NumberOf[Loaded(in)[v]] /\ NumberOf[Loaded(in)[v]] <= 65535

Given(in, v) == IF v \in DOMAIN in.file THEN in.file[v] ELSE in.env[v]

(* The ranges its comments and Load's messages name.                       *)
InRange(v, value) ==
  /\ v = "CACHE_CAPACITY" => IsNumber(value) /\ NumberOf[value] \in Nat \ {0}
  /\ v \in Ports => IsNumber(value) /\ 1024 <= NumberOf[value] /\ NumberOf[value] <= 65535
  /\ v = "LOG_FORMAT" => value \in {"text", "json"}

AsDocumented(in) ==
  IF Loads(in)
  THEN \A v \in Variables :
         Loaded(in)[v] = IF Given(in, v) = Empty /\ v \in Optional
                         THEN Default[v] ELSE Given(in, v)
  ELSE \/ ~in.parses
       \/ \E v \in Variables \ Optional : Given(in, v) = Empty
       \/ \E v \in Variables : Given(in, v) \in Wrong[v]
=============================================================================
