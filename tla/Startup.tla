------------------------------ MODULE Startup -------------------------------
(***************************************************************************)
(* How the process comes up and goes down (cmd, config, persistence/db):   *)
(* main reads the configuration, builds the clients, waits for the         *)
(* database and builds the services; the later phases belong to            *)
(* ContractMembers, MirrorFeed and ValidatorProcess.  log.Fatal anywhere,  *)
(* in main or in a goroutine, is the end of the process; a supervisor      *)
(* starts it again.                                                        *)
(***************************************************************************)
EXTENDS Integers, Sequences, FiniteSets, TLC, Functions

CONSTANTS
  DefaultFile,    \* config/application.yml: a function from keys to values
  MainFile,       \* application.yml
  Environment,    \* variables VALIDATOR_...
  MaxErrors       \* bound: failed calls, broken connections and deaths

(* Config: the keys that steer the start, and the zero values of the       *)
(* fields.                                                                 *)
ZeroConfig ==
  [network_type |-> "", block_confirmations |-> 0, fee_percentage |-> 0,
   start_timestamp |-> 0, rest_api_only |-> FALSE]

(* LoadConfig: the environment goes before the main file, and that before  *)
(* the defaults; a key the structs do not have is ignored.                 *)
LoadConfig ==
  Restrict(Environment @@ MainFile @@ DefaultFile @@ ZeroConfig,
           DOMAIN ZeroConfig)

RestApiOnly    == LoadConfig.rest_api_only
StartTimestamp == LoadConfig.start_timestamp

ASSUME StartupAssumption ==
  /\ RestApiOnly \in BOOLEAN
  /\ StartTimestamp \in Nat
  /\ MaxErrors \in Nat

VARIABLES
  phase,      \* what main is doing, or "down"
  errors      \* failures so far

startupVars == <<phase, errors>>

Phases == {"down", "clients", "database", "services", "members", "intervals",
           "transfers", "messages", "unfinished", "pairs", "serving"}

TypeOKStartup == phase \in Phases /\ errors \in 0..MaxErrors

InitStartup == phase = "down" /\ errors = 0

Up == phase # "down"

Ok    == UNCHANGED errors
Fault == errors < MaxErrors /\ errors' = errors + 1

Goto(next) == phase' = next
Fatal      == phase' = "down"

(* NewNodeClient, ethereum.NewClient and calculator.New end the process on *)
(* a value they cannot use.                                                *)
NodeClientConfigured ==
  LoadConfig.network_type \in {"mainnet", "testnet", "previewnet"}
EthereumConfigured ==
  LoadConfig.block_confirmations >= 1
ServicesConfigured ==
  LoadConfig.fee_percentage \in 0..100000

-----------------------------------------------------------------------------
(* A call that fails in one of these phases is log.Fatal, and so are a     *)
(* failed call of recovery, of a database write and of the listener of the *)
(* member list: the action Die of ValidatorProcess.                        *)
LoadAndInit ==
  /\ phase = "down"
  /\ Goto("clients")
  /\ Ok

(* PrepareClients: the Ethereum client dials its node and asks for the     *)
(* chain id.                                                               *)
PrepareClients ==
  /\ phase = "clients"
  /\ IF NodeClientConfigured /\ EthereumConfigured
     THEN Goto(IF RestApiOnly THEN "services" ELSE "database") ELSE Fatal
  /\ Ok

(* Fault: a database that is not there at once is given up.                *)
DatabaseOrNothing ==
  /\ phase = "database"
  /\ errors = 0
  /\ Ok /\ Goto("services")

(* NewDatabase and PrepareRepositories: the connection is tried until it   *)
(* stands; only a migration that fails is the end.                         *)
NewDatabase ==
  /\ phase = "database"
  /\ \/ Ok /\ Goto("services")
     \/ Fault /\ UNCHANGED phase

(* PrepareServices up to updateMembers: the contract has to have code;     *)
(* PrepareApiOnlyServices builds the contracts service alone.              *)
ValidateContract ==
  /\ phase = "services"
  /\ IF RestApiOnly \/ ServicesConfigured THEN Goto("members") ELSE Fatal
  /\ Ok
=============================================================================
