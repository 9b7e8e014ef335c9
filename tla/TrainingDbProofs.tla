-------------------------- MODULE TrainingDbProofs --------------------------
(* Proofs about TrainingDb, for any set of processes and exercises. *)
EXTENDS TrainingDb, TLAPS

-----------------------------------------------------------------------------
LEMMA DbTypeInit == DbInit => DbTypeOK
<1> SUFFICES ASSUME DbInit PROVE DbTypeOK
  OBVIOUS
<1>1. rows \in [Templates -> Nat] /\ filled \in [Procs -> SUBSET Templates]
  BY DEF DbInit
<1>2. state \in [Procs -> States]
  BY DEF DbInit, States
<1>3. runtime \in BOOLEAN /\ file \in BOOLEAN /\ tables \subseteq {"excercise_template", "excercise_log"}
  BY DEF DbInit
<1>4. crashes \in 0..MaxCrashes
  BY CrashAssumption DEF CrashAssumption, DbInit
<1> QED
  BY <1>1, <1>2, <1>3, <1>4 DEF DbTypeOK

LEMMA DbTypeStep == DbTypeOK /\ [DbNext]_dbVars => DbTypeOK'
<1> SUFFICES ASSUME DbTypeOK, [DbNext]_dbVars PROVE DbTypeOK'
  OBVIOUS
<1> USE CrashAssumption DEF CrashAssumption, DbTypeOK, States, Filling, Goto
<1>1. ASSUME NEW p \in Procs, Start(p) PROVE DbTypeOK'
  BY <1>1 DEF Start
<1>2. ASSUME NEW p \in Procs, Connect(p) PROVE DbTypeOK'
  BY <1>2 DEF Connect
<1>3. ASSUME NEW p \in Procs, CreateTables(p) PROVE DbTypeOK'
  BY <1>3 DEF CreateTables, CreateTable
<1>4. ASSUME NEW p \in Procs, NEW t \in Templates, InsertTemplate(p, t) PROVE DbTypeOK'
  BY <1>4 DEF InsertTemplate
<1>5. ASSUME NEW p \in Procs, FillingDone(p) PROVE DbTypeOK'
  BY <1>5 DEF FillingDone
<1>6. ASSUME NEW p \in Procs, Query(p) PROVE DbTypeOK'
  BY <1>6 DEF Query
<1>7. ASSUME NEW p \in Procs, Bind(p) PROVE DbTypeOK'
  BY <1>7 DEF Bind
<1>8. ASSUME NEW p \in Procs, Crash(p) PROVE DbTypeOK'
  BY <1>8 DEF Crash
<1>9. ASSUME MakeRuntime \/ UNCHANGED dbVars PROVE DbTypeOK'
  BY <1>9 DEF MakeRuntime, dbVars
<1> QED
  BY <1>1, <1>2, <1>3, <1>4, <1>5, <1>6, <1>7, <1>8, <1>9 DEF DbNext, Prepare

(* The file, its tables and rows and the processes are well typed in every *)
(* reachable state.                                                        *)
THEOREM DbTypeCorrect == DbSpec => []DbTypeOK
BY DbTypeInit, DbTypeStep, PTL DEF DbSpec
-----------------------------------------------------------------------------
(* Holding the template table is what makes a process the filler: before   *)
(* the table exists nothing is inserted, and its filler knows exactly what *)
(* was inserted.                                                           *)
Filler(p) == state[p] \in {"create_log", "insert"}

FillInv ==
    /\ DbTypeOK
    /\ OneFiller
    /\ TemplatesOnce
    /\ \A p \in Procs : Filler(p) => "excercise_template" \in tables
    /\ "excercise_template" \notin tables => \A t \in Templates : rows[t] = 0
    /\ \A p \in Procs : Filler(p) => \A t \in Templates : rows[t] > 0 => t \in filled[p]
    /\ \A p \in Procs : state[p] \in {"create_db", "create_template"} => filled[p] = {}

LEMMA FillInit == DbInit => FillInv
BY DbTypeInit DEF DbInit, FillInv, Filler, OneFiller, TemplatesOnce

LEMMA FillStep == FillInv /\ [DbNext]_dbVars => FillInv'
<1> SUFFICES ASSUME FillInv, [DbNext]_dbVars PROVE FillInv'
  OBVIOUS
<1>0. DbTypeOK /\ DbTypeOK'
  BY DbTypeStep DEF FillInv
<1> USE <1>0 DEF FillInv, Filler, OneFiller, TemplatesOnce, Goto
<1>1. ASSUME NEW p \in Procs, Start(p) PROVE FillInv'
  BY <1>1 DEF Start, DbTypeOK
<1>2. ASSUME NEW p \in Procs, Connect(p) PROVE FillInv'
  BY <1>2 DEF Connect, DbTypeOK
<1>3. ASSUME NEW p \in Procs, CreateTables(p) PROVE FillInv'
  <2>1. CASE CreateTable(p, "create_template", "excercise_template", "create_log")
    BY <2>1 DEF CreateTable, DbTypeOK
  <2>2. CASE CreateTable(p, "create_log", "excercise_log", "insert")
    BY <2>2 DEF CreateTable, DbTypeOK
  <2> QED
    BY <1>3, <2>1, <2>2 DEF CreateTables
<1>4. ASSUME NEW p \in Procs, NEW t \in Templates, InsertTemplate(p, t) PROVE FillInv'
  <2>1. rows[t] = 0
    BY <1>4 DEF InsertTemplate, DbTypeOK
  <2>2. \A u \in Templates : rows'[u] = IF u = t THEN 1 ELSE rows[u]
    BY <1>4, <2>1 DEF InsertTemplate, DbTypeOK
  <2> QED
    BY <1>4, <2>2 DEF InsertTemplate, DbTypeOK
<1>5. ASSUME NEW p \in Procs, FillingDone(p) PROVE FillInv'
  BY <1>5 DEF FillingDone, DbTypeOK
<1>6. ASSUME NEW p \in Procs, Query(p) \/ Bind(p) \/ Crash(p) PROVE FillInv'
  BY <1>6 DEF Query, Bind, Crash, DbTypeOK
<1>7. ASSUME MakeRuntime \/ UNCHANGED dbVars PROVE FillInv'
  BY <1>7 DEF MakeRuntime, dbVars
<1> QED
  BY <1>1, <1>2, <1>3, <1>4, <1>5, <1>6, <1>7 DEF DbNext, Prepare

(* However many servers are started on a missing file, and wherever they   *)
(* are killed: one of them fills it, and no exercise is inserted twice.    *)
THEOREM OneFillerOnly == DbSpec => []FilledOnce
<1>1. FillInv => FilledOnce
  BY DEF FillInv, FilledOnce
<1> QED
  BY <1>1, FillInit, FillStep, PTL DEF DbSpec

(* A half filled file is never completed. *)
THEOREM HalfFilledStays == DbSpec => HalfFilledForever
<1>2. DbTypeOK /\ [DbNext]_dbVars =>
        [file /\ (\A p \in Procs : state[p] \notin Filling \union {"create_db"})
         => /\ UNCHANGED <<tables, rows>>
            /\ \A p \in Procs : state'[p] \notin Filling \union {"create_db"}]_dbVars
  <2> SUFFICES ASSUME DbTypeOK, [DbNext]_dbVars, file,
                      \A p \in Procs : state[p] \notin Filling \union {"create_db"}
               PROVE  /\ UNCHANGED <<tables, rows>>
                      /\ \A p \in Procs : state'[p] \notin Filling \union {"create_db"}
    OBVIOUS
  <2> USE DEF DbTypeOK, Filling, Goto
  <2>1. ASSUME NEW p \in Procs, Prepare(p)
        PROVE  /\ UNCHANGED <<tables, rows>>
               /\ \A q \in Procs : state'[q] \notin Filling \union {"create_db"}
    BY <2>1 DEF Prepare, Start, Connect, CreateTables, CreateTable, InsertTemplate,
                FillingDone, Query, Bind
  <2>2. ASSUME NEW p \in Procs, Crash(p)
        PROVE  /\ UNCHANGED <<tables, rows>>
               /\ \A q \in Procs : state'[q] \notin Filling \union {"create_db"}
    BY <2>2 DEF Crash
  <2> QED
    BY <2>1, <2>2 DEF DbNext, MakeRuntime, dbVars
<1> QED
  BY <1>2, DbTypeCorrect, PTL DEF DbSpec, HalfFilledForever
=============================================================================
