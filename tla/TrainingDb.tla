----------------------------- MODULE TrainingDb -----------------------------
(***************************************************************************)
(* sqldb.rs and main.rs of trainingsplan: how a server process prepares    *)
(* the database file before it serves requests.                            *)
(*                                                                         *)
(* open() asks whether the file exists, connects (which creates the file), *)
(* and fills the file statement by statement if it did not exist when it   *)
(* asked.  There is no transaction around the statements and no mark that  *)
(* the filling was finished.  Several processes may be started at once;    *)
(* only one of them can bind the port, but that comes after preparing.     *)
(***************************************************************************)
EXTENDS Naturals, FiniteSets

CONSTANTS Procs,      \* server processes
          Templates,  \* the exercises of excercises.rs
          MaxCrashes  \* bound on killed processes

ASSUME CrashAssumption == MaxCrashes \in Nat

VARIABLES runtime,    \* does the directory ./runtime exist
          file,       \* does main.sqlite3 exist in it
          tables,     \* the tables it holds
          rows,       \* how often each template was inserted
          state,      \* what each process is doing
          filled,     \* the templates a process has inserted
          crashes

dbVars == <<runtime, file, tables, rows, state, filled, crashes>>

Filling == {"create_template", "create_log", "insert"}
States  == {"down", "open", "create_db", "query", "bind", "serving"} \union Filling

Serving == {p \in Procs : state[p] = "serving"}

(* Every table is there and every template was inserted. *)
Prepared == tables = {"excercise_template", "excercise_log"} /\ \A t \in Templates : rows[t] > 0
-----------------------------------------------------------------------------
DbInit ==
    /\ runtime \in BOOLEAN
    /\ file = FALSE
    /\ tables = {}
    /\ rows = [t \in Templates |-> 0]
    /\ state = [p \in Procs |-> "down"]
    /\ filled = [p \in Procs |-> {}]
    /\ crashes = 0

Goto(p, s) == state' = [state EXCEPT ![p] = s]

(* The operator makes the directory, which is not part of the repository.  *)
MakeRuntime ==
    /\ ~runtime
    /\ runtime' = TRUE
    /\ UNCHANGED <<file, tables, rows, state, filled, crashes>>

(* Mutant: open() fills a file that holds no table yet. *)
StartOnEmpty(p) ==
    /\ state[p] = "down"
    /\ Goto(p, IF ~runtime THEN "down" ELSE IF tables # {} THEN "open" ELSE "create_db")
    /\ filled' = [filled EXCEPT ![p] = {}]
    /\ UNCHANGED <<runtime, file, tables, rows, crashes>>

(* create_db() starts; canonicalize("./runtime").unwrap() panics without    *)
(* the directory (create_dir_all comes after it), or open() asks           *)
(* dbfile.is_file().                                                       *)
Start(p) ==
    /\ state[p] = "down"
    /\ Goto(p, IF ~runtime THEN "down" ELSE IF file THEN "open" ELSE "create_db")
    /\ filled' = [filled EXCEPT ![p] = {}]
    /\ UNCHANGED <<runtime, file, tables, rows, crashes>>

(* Mutant: the answer of is_file() is forgotten. *)
ConnectAndFill(p) ==
    /\ state[p] \in {"open", "create_db"}
    /\ file' = TRUE
    /\ Goto(p, "create_template")
    /\ UNCHANGED <<runtime, tables, rows, filled, crashes>>

(* open_with_flags(.., CREATE | READ_WRITE): from now on the file exists. *)
Connect(p) ==
    /\ state[p] \in {"open", "create_db"}
    /\ file' = TRUE
    /\ Goto(p, IF state[p] = "create_db" THEN "create_template" ELSE "query")
    /\ UNCHANGED <<runtime, tables, rows, filled, crashes>>

(* Mutant: CREATE TABLE IF NOT EXISTS. *)
CreateTableIfMissing(p, here, table, next) ==
    /\ state[p] = here
    /\ Goto(p, next)
    /\ tables' = tables \union {table}
    /\ UNCHANGED <<runtime, file, rows, filled, crashes>>

(* CREATE TABLE fails when the table exists, and unwrap() ends the process. *)
CreateTable(p, here, table, next) ==
    /\ state[p] = here
    /\ Goto(p, IF table \in tables THEN "down" ELSE next)
    /\ tables' = tables \union {table}
    /\ UNCHANGED <<runtime, file, rows, filled, crashes>>

CreateTables(p) ==
    \/ CreateTable(p, "create_template", "excercise_template", "create_log")
    \/ CreateTable(p, "create_log", "excercise_log", "insert")

(* "fill db with value", one INSERT per exercise in the order of a HashMap. *)
InsertTemplate(p, t) ==
    /\ state[p] = "insert"
    /\ t \notin filled[p]
    /\ rows' = [rows EXCEPT ![t] = @ + 1]
    /\ filled' = [filled EXCEPT ![p] = @ \union {t}]
    /\ UNCHANGED <<runtime, file, tables, state, crashes>>

FillingDone(p) ==
    /\ state[p] = "insert"
    /\ filled[p] = Templates
    /\ Goto(p, "query")
    /\ UNCHANGED <<runtime, file, tables, rows, filled, crashes>>

(* get_excercise_template() opens the file again, which exists by now; its *)
(* SELECT panics when there is no such table.                              *)
Query(p) ==
    /\ state[p] = "query"
    /\ Goto(p, IF "excercise_template" \in tables THEN "bind" ELSE "down")
    /\ UNCHANGED <<runtime, file, tables, rows, filled, crashes>>

(* .bind("127.0.0.1:8080")?: an error when another process serves there. *)
Bind(p) ==
    /\ state[p] = "bind"
    /\ Goto(p, IF Serving = {} THEN "serving" ELSE "down")
    /\ UNCHANGED <<runtime, file, tables, rows, filled, crashes>>

(* The process is killed; what its statements wrote stays. *)
Crash(p) ==
    /\ state[p] # "down"
    /\ crashes < MaxCrashes
    /\ crashes' = crashes + 1
    /\ Goto(p, "down")
    /\ UNCHANGED <<runtime, file, tables, rows, filled>>

Prepare(p) ==
    \/ Start(p) \/ Connect(p) \/ CreateTables(p)
    \/ (\E t \in Templates : InsertTemplate(p, t))
    \/ FillingDone(p) \/ Query(p) \/ Bind(p)

DbNext == MakeRuntime \/ \E p \in Procs : Prepare(p) \/ Crash(p)

DbSpec == DbInit /\ [][DbNext]_dbVars
DbFairness == \A p \in Procs : WF_dbVars(Prepare(p))
FairDbSpec == DbSpec /\ DbFairness
-----------------------------------------------------------------------------
(* Types of the database file and of the processes. *)
DbTypeOK ==
    /\ runtime \in BOOLEAN /\ file \in BOOLEAN
    /\ tables \subseteq {"excercise_template", "excercise_log"}
    /\ rows \in [Templates -> Nat]
    /\ state \in [Procs -> States]
    /\ filled \in [Procs -> SUBSET Templates]
    /\ crashes \in 0..MaxCrashes

(* Although open() checks and creates in separate steps, only one process  *)
(* ever fills the file: CREATE TABLE decides the race, the loser panics.   *)
OneFiller ==
    \A p, q \in Procs :
        state[p] \in {"create_log", "insert"} /\ state[q] \in {"create_log", "insert"} => p = q

(* No start, restart or race inserts an exercise twice; the menu of the    *)
(* page would show one of the two ids at random.                           *)
TemplatesOnce == \A t \in Templates : rows[t] <= 1

(* Whoever fills the file fills it alone and once. *)
FilledOnce == OneFiller /\ TemplatesOnce

(* A file that was left half filled stays half filled: nobody takes the    *)
(* work up again.                                                          *)
HalfFilledForever ==
    [][file /\ (\A p \in Procs : state[p] \notin Filling \union {"create_db"})
         => /\ UNCHANGED <<tables, rows>>
            /\ \A p \in Procs : state'[p] \notin Filling \union {"create_db"}]_dbVars

(* A file was left half filled: some process was killed, nobody fills it.  *)
LeftHalfFilled ==
    /\ file /\ ~Prepared /\ crashes > 0
    /\ \A p \in Procs : state[p] \notin Filling \union {"create_db"}

(* Once the directory is there, some process again and again gets to serve *)
(* a database that is completely filled, however many processes race for   *)
(* it and are killed, unless a kill has left the file half filled.         *)
FinallyServes == runtime ~> ((Serving # {} /\ Prepared) \/ LeftHalfFilled)

(* main.rs: "prepare db", sqldb.rs: "fill db with value": a server that    *)
(* answers requests has a filled database.                                 *)
ServesPrepared == Serving # {} => Prepared
=============================================================================
