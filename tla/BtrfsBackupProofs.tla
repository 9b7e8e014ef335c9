------------------------- MODULE BtrfsBackupProofs -------------------------
(* Proofs about BtrfsBackup, for any finite set of snapshots, any number   *)
(* of concurrent runs and any number of faults.                            *)
EXTENDS BtrfsBackup, FiniteSetTheorems, TLAPS

-----------------------------------------------------------------------------
(* What os.listdir returns: every present snapshot at most once. *)
LEMMA ListingLemma ==
    ASSUME TypeOK, NEW l \in SetToSeqs(InSource)
    PROVE  /\ l \in Seq(Snaps)
           /\ \A i \in 1..Len(l) : source[l[i]] = "present"
           /\ \A i, j \in 1..Len(l) : l[i] = l[j] => i = j
<1>1. IsFiniteSet(InSource)
  BY SnapsAssumption, FS_Subset DEF InSource
<1>2. Cardinality(InSource) \in Nat
  BY <1>1, FS_CardinalityType
<1>3. l \in [1..Cardinality(InSource) -> InSource]
  BY DEF SetToSeqs
<1>4. Len(l) = Cardinality(InSource) /\ l \in Seq(Snaps)
  <2> DEFINE n == Cardinality(InSource)
  <2>1. n \in Nat /\ l \in [1..n -> Snaps]
    BY <1>2, <1>3 DEF InSource
  <2> HIDE DEF n
  <2>2. Len(l) = n /\ l \in Seq(Snaps)
    BY <2>1
  <2> QED
    BY <2>2 DEF n
<1>5. \A i, j \in 1..Len(l) : l[i] = l[j] => i = j
  BY <1>4 DEF SetToSeqs
<1> QED
  BY <1>3, <1>4, <1>5 DEF InSource

(* The entry the planning loop appends is an entry. *)
LEMMA NewEntryType ==
    ASSUME TypeOK, NEW r \in Runs, NEW i \in 1..Len(listing[r])
    PROVE  NewEntry(listing[r], i) \in Entry
<1>1. listing[r] \in Seq(Snaps)
  BY DEF TypeOK
<1>2. listing[r][i] \in Snaps /\ (i # 1 => listing[r][i - 1] \in Snaps)
  BY <1>1
<1> QED
  BY <1>2 DEF NewEntry, Entry, TypeOK

(* Updating a function keeps its type. *)
LEMMA ExceptType ==
    ASSUME NEW S, NEW T, NEW f \in [S -> T], NEW x, NEW v \in T
    PROVE  [f EXCEPT ![x] = v] \in [S -> T]
OBVIOUS

LEMMA ConstantFunctionType ==
    ASSUME NEW S, NEW T, NEW v \in T
    PROVE  [x \in S |-> v] \in [S -> T]
OBVIOUS

LEMMA EmptySequences == <<>> \in Seq(Snaps) /\ <<>> \in Seq(Entry)
OBVIOUS

LEMMA TypeInit == Init => TypeOK
<1> SUFFICES ASSUME Init PROVE TypeOK
  OBVIOUS
<1>1. listing \in [Runs -> Seq(Snaps)]
  BY EmptySequences, ConstantFunctionType DEF Init
<1>2. plan \in [Runs -> Seq(Entry)]
  BY EmptySequences, ConstantFunctionType DEF Init
<1>3. source \in [Snaps -> {"absent", "present", "pruned"}]
  BY DEF Init
<1>4. dest \in [Snaps -> {"absent", "partial", "complete"}]
  BY DEF Init
<1>5. base \in [Snaps -> Snaps \union {NoSnap}]
  BY DEF Init
<1>6. pc \in [Runs -> {"idle"} \union Active]
  BY DEF Init
<1>7. choice \in [Runs -> {"unasked", "y", "n", "dry"}]
  BY DEF Init
<1>8. idx \in [Runs -> Nat \ {0}] /\ undisturbed \in [Runs -> BOOLEAN]
  BY DEF Init
<1>9. snapDir \in BOOLEAN /\ destDir \in BOOLEAN
  BY DEF Init
<1>10. faults \in 0..MaxFaults /\ invoked \in 0..MaxInvocations
  BY BoundAssumption DEF BoundAssumption, Init
<1> QED
  BY <1>1, <1>2, <1>3, <1>4, <1>5, <1>6, <1>7, <1>8, <1>9, <1>10 DEF TypeOK

LEMMA TypeStep == TypeOK /\ [Next]_vars => TypeOK'
<1> SUFFICES ASSUME TypeOK, [Next]_vars PROVE TypeOK'
  OBVIOUS
<1> USE BoundAssumption DEF BoundAssumption, TypeOK
<1>1. ASSUME NEW s \in Snaps, TakeSnapshot(s) PROVE TypeOK'
  BY <1>1 DEF TakeSnapshot, runVars
<1>2. ASSUME NEW s \in Snaps, Prune(s) PROVE TypeOK'
  BY <1>2 DEF Prune, runVars
<1>3. ASSUME NEW s \in Snaps, CleanUp(s) PROVE TypeOK'
  BY <1>3 DEF CleanUp, runVars
<1>4. ASSUME NEW r \in Runs, Invoke(r) PROVE TypeOK'
  BY <1>4 DEF Invoke, fsVars, Active, Planning
<1>5. ASSUME NEW r \in Runs, NEW yes \in BOOLEAN, AnswerMkdir(r, yes) PROVE TypeOK'
  BY <1>5 DEF AnswerMkdir, Active, Planning
<1>6. ASSUME NEW r \in Runs, List(r) PROVE TypeOK'
  <2>1. CASE ~snapDir
    BY <1>6, <2>1 DEF List, fsVars
  <2>2. CASE snapDir
    <3>1. PICK l \in SetToSeqs(InSource) : listing' = [listing EXCEPT ![r] = l]
      BY <1>6, <2>2 DEF List
    <3>2. l \in Seq(Snaps)
      BY ListingLemma
    <3>3. listing' \in [Runs -> Seq(Snaps)]
      BY <3>1, <3>2, ExceptType
    <3>4. plan' \in [Runs -> Seq(Entry)]
      BY <1>6, <2>2, EmptySequences, ExceptType DEF List
    <3>5. pc' \in [Runs -> {"idle"} \union Active]
      <4>1. pc' = [pc EXCEPT ![r] = "scan"]
        BY <1>6, <2>2 DEF List
      <4> QED
        BY <4>1 DEF Active, Planning
    <3>6. choice' \in [Runs -> {"unasked", "y", "n", "dry"}]
      BY <1>6, <2>2, ExceptType DEF List
    <3>7. idx' \in [Runs -> Nat \ {0}] /\ undisturbed' \in [Runs -> BOOLEAN]
      <4>1. idx' = [idx EXCEPT ![r] = 1]
        BY <1>6, <2>2 DEF List
      <4>2. undisturbed' = [undisturbed EXCEPT ![r] = \A s \in Snaps : dest[s] # "partial"]
        BY <1>6, <2>2 DEF List
      <4> QED
        BY <4>1, <4>2
    <3>8. UNCHANGED <<fsVars, faults, invoked>>
      BY <1>6 DEF List
    <3> QED
      BY <3>3, <3>4, <3>5, <3>6, <3>7, <3>8 DEF fsVars
  <2> QED
    BY <2>1, <2>2
<1>7. ASSUME NEW r \in Runs, PlanEntry(r) PROVE TypeOK'
  <2>1. CASE Len(plan[r]) + 1 <= Len(listing[r])
    <3>1. Len(plan[r]) + 1 \in 1..Len(listing[r])
      BY <2>1
    <3>2. NewEntry(listing[r], Len(plan[r]) + 1) \in Entry
      BY <3>1, NewEntryType
    <3>3. Append(plan[r], NewEntry(listing[r], Len(plan[r]) + 1)) \in Seq(Entry)
      BY <3>2
    <3>4. plan' = [plan EXCEPT ![r] = Append(plan[r], NewEntry(listing[r], Len(plan[r]) + 1))]
      BY <1>7, <2>1 DEF PlanEntry
    <3>5. plan' \in [Runs -> Seq(Entry)]
      BY <3>3, <3>4, ExceptType
    <3> QED
      BY <1>7, <2>1, <3>5 DEF PlanEntry, fsVars
  <2>2. CASE ~(Len(plan[r]) + 1 <= Len(listing[r]))
    BY <1>7, <2>2 DEF PlanEntry, fsVars, Active, Planning
  <2> QED
    BY <2>1, <2>2
<1>8. ASSUME NEW r \in Runs, NEW answer \in {"y", "n", "dry"}, Confirm(r, answer) PROVE TypeOK'
  BY <1>8 DEF Confirm, fsVars, Active, Executing
<1>9. ASSUME NEW r \in Runs, SkipEntry(r) PROVE TypeOK'
  BY <1>9 DEF SkipEntry, fsVars
<1>10. ASSUME NEW r \in Runs, CommandFails(r) PROVE TypeOK'
  BY <1>10 DEF CommandFails, fsVars
<1>11. ASSUME NEW r \in Runs, ReceiveBegins(r) PROVE TypeOK'
  <2>1. Current(r) \in Entry
    BY <1>11 DEF ReceiveBegins, RunsCommand, AtCommand, Current
  <2> QED
    BY <1>11, <2>1 DEF ReceiveBegins, Entry, Active, Executing
<1>12. ASSUME NEW r \in Runs, ReceiveEnds(r) PROVE TypeOK'
  <2>1. dest' \in [Snaps -> {"absent", "partial", "complete"}]
    BY <1>12, ExceptType DEF ReceiveEnds
  <2> QED
    BY <1>12, <2>1 DEF ReceiveEnds, Active, Executing
<1>13. ASSUME NEW r \in Runs, ReceiveInterrupted(r) PROVE TypeOK'
  BY <1>13 DEF ReceiveInterrupted, fsVars, Active, Executing
<1>14. ASSUME NEW r \in Runs, Kill(r) PROVE TypeOK'
  BY <1>14 DEF Kill, fsVars
<1>15. ASSUME NEW r \in Runs, Finish(r) PROVE TypeOK'
  BY <1>15 DEF Finish, fsVars
<1>16. CASE UNCHANGED vars
  BY <1>16 DEF vars, fsVars, runVars
<1> QED
  BY <1>1, <1>2, <1>3, <1>4, <1>5, <1>6, <1>7, <1>8, <1>9, <1>10, <1>11, <1>12,
     <1>13, <1>14, <1>15, <1>16 DEF Next, RunStep, Execute

(* Every state the backup tool and its environment reach is well typed. *)
THEOREM TypeCorrect == Spec => []TypeOK
BY TypeInit, TypeStep, PTL DEF Spec
-----------------------------------------------------------------------------
(* The strengthening of the safety invariants.  A plan follows its listing *)
(* entry by entry; a run in a receive owns a partial subvolume, and owns   *)
(* it alone; everything in the backup was taken before.                    *)
PlanOK(r) ==
    /\ Len(plan[r]) <= Len(listing[r])
    /\ \A i \in 1..Len(plan[r]) :
          /\ plan[r][i].name = listing[r][i]
          /\ plan[r][i].parent = (IF i = 1 THEN NoSnap ELSE listing[r][i - 1])
          /\ plan[r][i].action = "full" <=> (i = 1 /\ plan[r][i].action # "none")
    /\ \A i, j \in 1..Len(listing[r]) : listing[r][i] = listing[r][j] => i = j
    /\ pc[r] \in {"confirm"} \union Executing => Len(plan[r]) = Len(listing[r])

PlansOK == \A r \in Runs : PlanOK(r)

ReceivesOwn ==
    \A r \in Runs : pc[r] = "receive" =>
        /\ idx[r] <= Len(plan[r])
        /\ dest[Current(r).name] = "partial"
        /\ base[Current(r).name] = Current(r).parent

TakenFirst ==
    /\ \A s \in Snaps : dest[s] # "absent" => source[s] # "absent"
    /\ \A r \in Runs : \A i \in 1..Len(listing[r]) : source[listing[r][i]] # "absent"

SafetyInv == TypeOK /\ PlansOK /\ ReceivesOwn /\ TakenFirst /\ ExclusiveReceive /\ LineageOK

(* A step other than listing and planning keeps listing and plan, and does *)
(* not make an unfinished plan executable.                                 *)
KeepsPlans ==
    /\ UNCHANGED <<listing, plan>>
    /\ \A r \in Runs : pc'[r] \in {"confirm"} \union Executing
                          => pc[r] \in {"confirm"} \union Executing

LEMMA PlanStepKinds ==
    ASSUME TypeOK, [Next]_vars
    PROVE  KeepsPlans \/ \E r \in Runs : List(r) \/ PlanEntry(r)
<1> USE DEF KeepsPlans, TypeOK
<1>1. ASSUME NEW s \in Snaps, TakeSnapshot(s) \/ Prune(s) \/ CleanUp(s) PROVE KeepsPlans
  BY <1>1 DEF TakeSnapshot, Prune, CleanUp, runVars
<1>2. ASSUME NEW r \in Runs, Invoke(r) PROVE KeepsPlans
  BY <1>2 DEF Invoke, Executing
<1>3. ASSUME NEW r \in Runs, NEW yes \in BOOLEAN, AnswerMkdir(r, yes) PROVE KeepsPlans
  BY <1>3 DEF AnswerMkdir, Executing
<1>4. ASSUME NEW r \in Runs, NEW answer \in {"y", "n", "dry"}, Confirm(r, answer) PROVE KeepsPlans
  BY <1>4 DEF Confirm, Executing
<1>5. ASSUME NEW r \in Runs, SkipEntry(r) \/ CommandFails(r) PROVE KeepsPlans
  BY <1>5 DEF SkipEntry, CommandFails
<1>6. ASSUME NEW r \in Runs, ReceiveBegins(r) PROVE KeepsPlans
  BY <1>6 DEF ReceiveBegins, RunsCommand, AtCommand, Executing
<1>7. ASSUME NEW r \in Runs, ReceiveEnds(r) \/ ReceiveInterrupted(r) PROVE KeepsPlans
  BY <1>7 DEF ReceiveEnds, ReceiveInterrupted, Executing
<1>8. ASSUME NEW r \in Runs, Kill(r) \/ Finish(r) PROVE KeepsPlans
  BY <1>8 DEF Kill, Finish, Executing
<1>9. CASE UNCHANGED vars
  BY <1>9 DEF vars, runVars
<1> QED
  BY <1>1, <1>2, <1>3, <1>4, <1>5, <1>6, <1>7, <1>8, <1>9 DEF Next, RunStep, Execute

LEMMA PlansStep == TypeOK /\ PlansOK /\ [Next]_vars => PlansOK'
<1> SUFFICES ASSUME TypeOK, PlansOK, [Next]_vars, NEW q \in Runs PROVE PlanOK(q)'
  BY DEF PlansOK
<1>0. PlanOK(q) /\ listing[q] \in Seq(Snaps) /\ plan[q] \in Seq(Entry)
  BY DEF PlansOK, TypeOK
<1>1. CASE KeepsPlans
  BY <1>0, <1>1 DEF KeepsPlans, PlanOK
<1>2. ASSUME NEW r \in Runs, List(r) PROVE PlanOK(q)'
  <2>1. CASE q = r /\ snapDir
    <3>1. plan' = [plan EXCEPT ![r] = <<>>] /\ pc' = [pc EXCEPT ![r] = "scan"]
      BY <1>2, <2>1 DEF List
    <3>2. plan'[q] = <<>> /\ pc'[q] = "scan"
      BY <2>1, <3>1 DEF TypeOK
    <3>3. PICK l \in SetToSeqs(InSource) : listing' = [listing EXCEPT ![r] = l]
      BY <1>2, <2>1 DEF List
    <3>4. listing'[q] = l
      BY <2>1, <3>3 DEF TypeOK
    <3>5. l \in Seq(Snaps) /\ \A i, j \in 1..Len(l) : l[i] = l[j] => i = j
      BY ListingLemma
    <3> QED
      BY <3>2, <3>4, <3>5 DEF PlanOK, Executing
  <2>2. CASE ~(q = r /\ snapDir)
    <3>1. /\ plan'[q] = plan[q]
          /\ listing'[q] = listing[q]
          /\ pc'[q] \in {"confirm"} \union Executing => pc[q] \in {"confirm"} \union Executing
      <4>1. CASE q # r
        BY <1>2, <4>1 DEF List, TypeOK
      <4>2. CASE q = r /\ ~snapDir
        BY <1>2, <4>2 DEF List, TypeOK, Executing
      <4> QED
        BY <2>2, <4>1, <4>2
    <3> QED
      BY <1>0, <3>1 DEF PlanOK
  <2> QED
    BY <2>1, <2>2
<1>3. ASSUME NEW r \in Runs, PlanEntry(r) PROVE PlanOK(q)'
  <2>1. listing' = listing
    BY <1>3 DEF PlanEntry
  <2>2. CASE q = r /\ Len(plan[r]) + 1 <= Len(listing[r])
    <3> DEFINE e == NewEntry(listing[q], Len(plan[q]) + 1)
    <3>1. plan' = [plan EXCEPT ![r] = Append(plan[r], NewEntry(listing[r], Len(plan[r]) + 1))]
            /\ pc' = pc /\ pc[q] = "scan"
      BY <1>3, <2>2 DEF PlanEntry
    <3>2. plan'[q] = Append(plan[q], e)
      BY <2>2, <3>1 DEF TypeOK
    <3>3. e \in Entry
      BY <1>0, <2>2, NewEntryType
    <3>4. /\ e.name = listing[q][Len(plan[q]) + 1]
          /\ e.parent = (IF Len(plan[q]) + 1 = 1 THEN NoSnap ELSE listing[q][Len(plan[q]) + 1 - 1])
          /\ e.action = "full" <=> (Len(plan[q]) + 1 = 1 /\ e.action # "none")
      BY <1>0 DEF NewEntry
    <3> HIDE DEF e
    <3>5. Len(plan'[q]) = Len(plan[q]) + 1 /\ plan'[q][Len(plan[q]) + 1] = e
            /\ \A i \in 1..Len(plan[q]) : plan'[q][i] = plan[q][i]
      BY <1>0, <3>2, <3>3
    <3>6. \A i \in 1..Len(plan'[q]) : i = Len(plan[q]) + 1 \/ i \in 1..Len(plan[q])
      BY <1>0, <3>5
    <3> QED
      BY <1>0, <2>1, <2>2, <3>1, <3>4, <3>5, <3>6 DEF PlanOK, Executing
  <2>3. CASE q = r /\ ~(Len(plan[r]) + 1 <= Len(listing[r]))
    BY <1>0, <1>3, <2>1, <2>3 DEF PlanEntry, PlanOK, TypeOK
  <2>4. CASE q # r
    <3>1. plan'[q] = plan[q] /\ pc'[q] = pc[q]
      BY <1>3, <2>4 DEF PlanEntry, TypeOK
    <3> QED
      BY <1>0, <2>1, <3>1 DEF PlanOK
  <2> QED
    BY <2>2, <2>3, <2>4
<1> QED
  BY <1>1, <1>2, <1>3, PlanStepKinds

-----------------------------------------------------------------------------
LEMMA CurrentType ==
    ASSUME TypeOK, NEW r \in Runs, idx[r] <= Len(plan[r])
    PROVE  Current(r) \in Entry
BY DEF TypeOK, Current

(* Whoever is receiving after a step either was receiving the same entry   *)
(* before, or has just begun.                                              *)
StillReceiving ==
    \A q \in Runs : pc'[q] = "receive" =>
        pc[q] = "receive" /\ idx'[q] = idx[q] /\ plan'[q] = plan[q]

KeepsBackup == UNCHANGED <<dest, base>> /\ StillReceiving

LEMMA BackupStepKinds ==
    ASSUME TypeOK, [Next]_vars
    PROVE  \/ KeepsBackup
           \/ \E s \in Snaps : CleanUp(s) /\ StillReceiving
           \/ \E r \in Runs : ReceiveBegins(r)
           \/ \E r \in Runs : ReceiveEnds(r) /\ StillReceiving
<1> USE DEF KeepsBackup, StillReceiving, TypeOK
<1>1. ASSUME NEW s \in Snaps, TakeSnapshot(s) \/ Prune(s) PROVE KeepsBackup
  BY <1>1 DEF TakeSnapshot, Prune, runVars
<1>2. ASSUME NEW s \in Snaps, CleanUp(s) PROVE StillReceiving
  BY <1>2 DEF CleanUp, runVars
<1>3. ASSUME NEW r \in Runs, Invoke(r) PROVE KeepsBackup
  BY <1>3 DEF Invoke, fsVars
<1>4. ASSUME NEW r \in Runs, NEW yes \in BOOLEAN, AnswerMkdir(r, yes) PROVE KeepsBackup
  BY <1>4 DEF AnswerMkdir
<1>5. ASSUME NEW r \in Runs, List(r) PROVE KeepsBackup
  <2>1. pc' = [pc EXCEPT ![r] = "idle"] \/ pc' = [pc EXCEPT ![r] = "scan"]
    BY <1>5 DEF List
  <2>2. \A q \in Runs : q # r => idx'[q] = idx[q] /\ plan'[q] = plan[q]
    BY <1>5 DEF List
  <2>3. UNCHANGED <<dest, base>>
    BY <1>5 DEF List, fsVars
  <2> QED
    BY <2>1, <2>2, <2>3
<1>6. ASSUME NEW r \in Runs, PlanEntry(r) PROVE KeepsBackup
  <2>1. \A q \in Runs : q # r => plan'[q] = plan[q] /\ pc'[q] = pc[q]
    BY <1>6 DEF PlanEntry
  <2>2. pc'[r] # "receive" /\ UNCHANGED <<dest, base, idx>>
    BY <1>6 DEF PlanEntry, fsVars
  <2> QED
    BY <2>1, <2>2
<1>7. ASSUME NEW r \in Runs, NEW answer \in {"y", "n", "dry"}, Confirm(r, answer) PROVE KeepsBackup
  BY <1>7 DEF Confirm, fsVars
<1>8. ASSUME NEW r \in Runs, SkipEntry(r) \/ CommandFails(r) PROVE KeepsBackup
  BY <1>8 DEF SkipEntry, CommandFails, RunsCommand, AtCommand, fsVars
<1>9. ASSUME NEW r \in Runs, ReceiveEnds(r) PROVE StillReceiving
  BY <1>9 DEF ReceiveEnds
<1>10. ASSUME NEW r \in Runs, ReceiveInterrupted(r) PROVE KeepsBackup
  BY <1>10 DEF ReceiveInterrupted, fsVars
<1>11. ASSUME NEW r \in Runs, Kill(r) \/ Finish(r) PROVE KeepsBackup
  BY <1>11 DEF Kill, Finish, fsVars
<1>12. CASE UNCHANGED vars
  BY <1>12 DEF vars, fsVars, runVars
<1> QED
  BY <1>1, <1>2, <1>3, <1>4, <1>5, <1>6, <1>7, <1>8, <1>9, <1>10, <1>11, <1>12
     DEF Next, RunStep, Execute

(* A snapshot that was taken stays taken. *)
LEMMA TakenStays ==
    ASSUME TypeOK, [Next]_vars, NEW s \in Snaps, source[s] # "absent"
    PROVE  source'[s] # "absent"
<1>1. \/ UNCHANGED source
      \/ \E t \in Snaps : source' = [source EXCEPT ![t] = "present"]
      \/ \E t \in Snaps : source' = [source EXCEPT ![t] = "pruned"]
  BY DEF Next, RunStep, Execute, TakeSnapshot, Prune, CleanUp, Invoke, AnswerMkdir, List,
         PlanEntry, Confirm, SkipEntry, CommandFails, ReceiveBegins, ReceiveEnds,
         ReceiveInterrupted, Kill, Finish, vars, fsVars
<1> QED
  BY <1>1 DEF TypeOK

LEMMA TakenStep ==
    TypeOK /\ PlansOK /\ ReceivesOwn /\ TakenFirst /\ [Next]_vars => TakenFirst'
<1> SUFFICES ASSUME TypeOK, PlansOK, ReceivesOwn, TakenFirst, [Next]_vars PROVE TakenFirst'
  OBVIOUS
<1>1. ASSUME NEW s \in Snaps, dest'[s] # "absent" PROVE source[s] # "absent"
  <2>1. CASE UNCHANGED dest
    BY <1>1, <2>1 DEF TakenFirst
  <2>2. ASSUME NEW t \in Snaps, CleanUp(t) PROVE source[s] # "absent"
    BY <1>1, <2>2 DEF CleanUp, TakenFirst, TypeOK
  <2>3. ASSUME NEW r \in Runs, ReceiveBegins(r) PROVE source[s] # "absent"
    <3>1. CASE s = Current(r).name
      BY <2>3, <3>1 DEF ReceiveBegins, Receivable
    <3>2. CASE s # Current(r).name
      <4>1. dest'[s] = dest[s]
        BY <2>3, <3>2 DEF ReceiveBegins, TypeOK
      <4> QED
        BY <1>1, <4>1 DEF TakenFirst
    <3> QED
      BY <3>1, <3>2
  <2>4. ASSUME NEW r \in Runs, ReceiveEnds(r) PROVE source[s] # "absent"
    <3>1. dest[Current(r).name] = "partial" /\ dest' = [dest EXCEPT ![Current(r).name] = "complete"]
      BY <2>4 DEF ReceiveEnds, ReceivesOwn
    <3>2. dest[s] # "absent"
      BY <1>1, <3>1 DEF TypeOK
    <3> QED
      BY <3>2 DEF TakenFirst
  <2> QED
    BY <2>1, <2>2, <2>3, <2>4, BackupStepKinds DEF KeepsBackup
<1>2. ASSUME NEW r \in Runs, NEW i \in 1..Len(listing'[r]) PROVE source[listing'[r][i]] # "absent"
  <2>1. CASE listing'[r] = listing[r]
    BY <1>2, <2>1 DEF TakenFirst
  <2>2. CASE List(r) /\ snapDir
    <3>1. PICK l \in SetToSeqs(InSource) : listing' = [listing EXCEPT ![r] = l]
      BY <2>2 DEF List
    <3>2. listing'[r] = l
      BY <3>1 DEF TypeOK
    <3>3. \A j \in 1..Len(l) : source[l[j]] = "present"
      BY ListingLemma
    <3> QED
      BY <1>2, <3>2, <3>3
  <2>3. listing'[r] = listing[r] \/ (List(r) /\ snapDir)
    <3>1. ASSUME NEW q \in Runs, List(q) PROVE listing'[r] = listing[r] \/ (q = r /\ snapDir)
      BY <3>1 DEF List, TypeOK
    <3>2. ASSUME NEW q \in Runs, PlanEntry(q) PROVE listing'[r] = listing[r]
      BY <3>2 DEF PlanEntry
    <3> QED
      BY <3>1, <3>2, PlanStepKinds DEF KeepsPlans
  <2> QED
    BY <2>1, <2>2, <2>3
<1>3. ASSUME NEW r \in Runs, NEW i \in 1..Len(listing'[r]) PROVE listing'[r][i] \in Snaps
  BY <1>3, TypeStep DEF TypeOK
<1> QED
  BY <1>1, <1>2, <1>3, TakenStays DEF TakenFirst

(* A receive that begins finds its name absent and its parent complete. *)
LEMMA BeginFacts ==
    ASSUME TypeOK, PlansOK, NEW r \in Runs, ReceiveBegins(r)
    PROVE  LET e == Current(r) IN
             /\ e.name \in Snaps /\ dest[e.name] = "absent"
             /\ dest' = [dest EXCEPT ![e.name] = "partial"]
             /\ base' = [base EXCEPT ![e.name] = e.parent]
             /\ e.parent # NoSnap => e.parent \in Snaps /\ dest[e.parent] = "complete"
             /\ pc' = [pc EXCEPT ![r] = "receive"]
             /\ idx[r] <= Len(plan[r])
             /\ UNCHANGED <<plan, idx>>
<1> DEFINE e == Current(r)
<1>1. idx[r] <= Len(plan[r]) /\ pc[r] = "execute" /\ e.action # "none" /\ Receivable(e)
  BY DEF ReceiveBegins, RunsCommand, AtCommand
<1>2. e \in Entry
  BY <1>1, CurrentType
<1>3. idx[r] \in 1..Len(plan[r])
  BY <1>1 DEF TypeOK
<1>4. /\ e.parent = (IF idx[r] = 1 THEN NoSnap ELSE listing[r][idx[r] - 1])
      /\ e.action = "full" <=> idx[r] = 1
  BY <1>1, <1>3 DEF PlansOK, PlanOK, Current
<1>5. (IF e.action = "full" THEN NoSnap ELSE e.parent) = e.parent
  BY <1>4
<1>6. e.parent # NoSnap => e.parent \in Snaps /\ dest[e.parent] = "complete"
  BY <1>1, <1>2, <1>4 DEF Entry, Receivable, InSource
<1> QED
  BY <1>1, <1>2, <1>5, <1>6 DEF ReceiveBegins, Receivable, Entry

LEMMA OwnStep ==
    TypeOK /\ PlansOK /\ ReceivesOwn /\ ExclusiveReceive /\ LineageOK /\ [Next]_vars
        => ReceivesOwn' /\ ExclusiveReceive' /\ LineageOK'
<1> SUFFICES ASSUME TypeOK, PlansOK, ReceivesOwn, ExclusiveReceive, LineageOK, [Next]_vars
             PROVE  ReceivesOwn' /\ ExclusiveReceive' /\ LineageOK'
  OBVIOUS
<1>1. CASE KeepsBackup
  BY <1>1 DEF KeepsBackup, StillReceiving, ReceivesOwn, ExclusiveReceive, LineageOK,
              Receiving, Current
<1>2. ASSUME NEW s \in Snaps, CleanUp(s), StillReceiving
      PROVE  ReceivesOwn' /\ ExclusiveReceive' /\ LineageOK'
  <2>1. ReceivesOwn' /\ ExclusiveReceive'
    BY <1>2 DEF CleanUp, StillReceiving, ReceivesOwn, ExclusiveReceive, Receiving, Current, TypeOK
  <2>2. LineageOK'
    BY <1>2, SnapsAssumption DEF CleanUp, LineageOK, TypeOK
  <2> QED
    BY <2>1, <2>2
<1>3. ASSUME NEW r \in Runs, ReceiveBegins(r)
      PROVE  ReceivesOwn' /\ ExclusiveReceive' /\ LineageOK'
  <2> DEFINE e == Current(r)
  <2>1. /\ e.name \in Snaps /\ dest[e.name] = "absent"
        /\ dest' = [dest EXCEPT ![e.name] = "partial"]
        /\ base' = [base EXCEPT ![e.name] = e.parent]
        /\ e.parent # NoSnap => e.parent \in Snaps /\ dest[e.parent] = "complete"
        /\ pc' = [pc EXCEPT ![r] = "receive"]
        /\ idx[r] <= Len(plan[r])
        /\ UNCHANGED <<plan, idx>>
    BY <1>3, BeginFacts
  <2>2. \A q \in Runs : Current(q)' = Current(q)
    BY <2>1 DEF Current
  <2>3. \A q \in Runs : pc[q] = "receive" => Current(q).name # e.name
    BY <2>1 DEF ReceivesOwn
  <2>4. ASSUME NEW q \in Runs, pc'[q] = "receive"
        PROVE  /\ idx'[q] <= Len(plan'[q])
               /\ dest'[Current(q).name] = "partial"
               /\ base'[Current(q).name] = Current(q).parent
    <3>1. CASE q = r
      BY <2>1, <3>1 DEF TypeOK
    <3>2. CASE q # r
      <4>1. pc[q] = "receive"
        BY <2>1, <2>4, <3>2 DEF TypeOK
      <4>2. idx[q] <= Len(plan[q])
        BY <4>1 DEF ReceivesOwn
      <4>3. Current(q).name \in Snaps
        BY <4>2, CurrentType DEF Entry
      <4> QED
        BY <2>1, <2>3, <4>1, <4>3 DEF ReceivesOwn, TypeOK
    <3> QED
      BY <3>1, <3>2
  <2>5. ReceivesOwn'
    BY <2>2, <2>4 DEF ReceivesOwn
  <2>6. ExclusiveReceive'
    BY <2>1, <2>2, <2>3 DEF ExclusiveReceive, Receiving, TypeOK
  <2>7. LineageOK'
    BY <2>1, SnapsAssumption DEF LineageOK, TypeOK
  <2> QED
    BY <2>5, <2>6, <2>7
<1>4. ASSUME NEW r \in Runs, ReceiveEnds(r), StillReceiving
      PROVE  ReceivesOwn' /\ ExclusiveReceive' /\ LineageOK'
  <2>1. /\ pc[r] = "receive" /\ pc'[r] # "receive"
        /\ dest' = [dest EXCEPT ![Current(r).name] = "complete"]
        /\ UNCHANGED <<base, plan>>
    BY <1>4 DEF ReceiveEnds, TypeOK
  <2>2. dest[Current(r).name] = "partial" /\ Current(r).name \in Snaps
    BY <2>1, CurrentType DEF ReceivesOwn, Entry
  <2>3. \A q \in Runs : pc'[q] = "receive" =>
            pc[q] = "receive" /\ Current(q)' = Current(q) /\ idx'[q] = idx[q] /\ q # r
    BY <1>4, <2>1 DEF StillReceiving, Current
  <2>4. \A q \in Runs : pc'[q] = "receive" => Current(q).name # Current(r).name
    BY <2>1, <2>2, <2>3 DEF ExclusiveReceive, Receiving
  <2>5. ReceivesOwn'
    BY <2>1, <2>2, <2>3, <2>4 DEF ReceivesOwn, TypeOK
  <2>6. ExclusiveReceive'
    BY <2>3 DEF ExclusiveReceive, Receiving
  <2>7. LineageOK'
    BY <2>1, <2>2, SnapsAssumption DEF LineageOK, TypeOK
  <2> QED
    BY <2>5, <2>6, <2>7
<1> QED
  BY <1>1, <1>2, <1>3, <1>4, BackupStepKinds

LEMMA SafetyInit == Init => SafetyInv
<1> SUFFICES ASSUME Init PROVE SafetyInv
  OBVIOUS
<1>1. TypeOK
  BY TypeInit
<1>2. \A r \in Runs : listing[r] = <<>> /\ plan[r] = <<>> /\ pc[r] = "idle"
  BY DEF Init
<1>3. PlansOK
  BY <1>2 DEF PlansOK, PlanOK, Executing
<1>4. ReceivesOwn /\ ExclusiveReceive
  BY <1>2 DEF ReceivesOwn, ExclusiveReceive, Receiving
<1>5. TakenFirst /\ LineageOK
  BY <1>2 DEF Init, TakenFirst, LineageOK
<1> QED
  BY <1>1, <1>3, <1>4, <1>5 DEF SafetyInv

LEMMA SafetyStep == SafetyInv /\ [Next]_vars => SafetyInv'
BY TypeStep, PlansStep, TakenStep, OwnStep DEF SafetyInv

LEMMA SafetyAlways == Spec => []SafetyInv
BY SafetyInit, SafetyStep, PTL DEF Spec

(* Concurrent and stale runs never write the same subvolume: for any       *)
(* number of runs, snapshots and faults.                                   *)
THEOREM ReceiveAlwaysExclusive == Spec => []ExclusiveReceive
<1>1. SafetyInv => ExclusiveReceive
  BY DEF SafetyInv
<1> QED
  BY <1>1, SafetyAlways, PTL

(* Every copy is derived from a finished one, whatever fails.              *)
THEOREM LineageAlwaysOK == Spec => []LineageOK
<1>1. SafetyInv => LineageOK
  BY DEF SafetyInv
<1> QED
  BY <1>1, SafetyAlways, PTL

-----------------------------------------------------------------------------
(* What an undisturbed run can rely on: its snapshots are still there,     *)
(* nothing but its own receive is unfinished, its plan is not stale, and,  *)
(* once confirmed, everything it has passed is copied.                     *)
FreshPlan(r) ==
    \A i \in 1..Len(plan[r]) :
        /\ plan[r][i].action = "none" => dest[plan[r][i].name] = "complete"
        /\ plan[r][i].action # "none" /\ idx[r] <= i /\ ~(pc[r] = "receive" /\ i = idx[r])
              => dest[plan[r][i].name] = "absent"

CopiedSoFar(r) ==
    pc[r] \in Executing /\ choice[r] = "y" =>
        \A i \in 1..Len(plan[r]) : i < idx[r] => dest[plan[r][i].name] = "complete"

Undisturbed(r) ==
    undisturbed[r] /\ pc[r] \in {"scan", "confirm"} \union Executing =>
        /\ pc[r] \in {"scan", "confirm"} => idx[r] = 1
        /\ \A i \in 1..Len(listing[r]) : source[listing[r][i]] = "present"
        /\ \A s \in Snaps : dest[s] = "partial" => Receiving(r, s)
        /\ FreshPlan(r)
        /\ CopiedSoFar(r)

UndisturbedInv == SafetyInv /\ \A r \in Runs : Undisturbed(r)
(* A step that leaves the run q and the finished state of the directories  *)
(* alone does not disturb it.                                              *)
LeavesAlone(q) ==
    /\ pc'[q] = pc[q] /\ listing'[q] = listing[q] /\ plan'[q] = plan[q]
    /\ choice'[q] = choice[q] /\ idx'[q] = idx[q]
    /\ undisturbed'[q] => undisturbed[q]
    /\ dest' = dest
    /\ undisturbed'[q] => \A s \in Snaps : source[s] = "present" => source'[s] = "present"

LEMMA LeftAlone ==
    ASSUME TypeOK, TypeOK', NEW q \in Runs, Undisturbed(q), LeavesAlone(q)
    PROVE  Undisturbed(q)'
<1>1. \A i \in 1..Len(listing[q]) : listing[q][i] \in Snaps
  BY DEF TypeOK
<1>2. FreshPlan(q) => FreshPlan(q)'
  BY DEF FreshPlan, LeavesAlone
<1>3. CopiedSoFar(q) => CopiedSoFar(q)'
  BY DEF CopiedSoFar, LeavesAlone
<1>4. \A s \in Snaps : Receiving(q, s) => Receiving(q, s)'
  BY DEF Receiving, Current, LeavesAlone
<1> QED
  BY <1>1, <1>2, <1>3, <1>4 DEF Undisturbed, LeavesAlone

LEMMA ForeignStep ==
    ASSUME SafetyInv, NEW q \in Runs, Undisturbed(q), NEW r \in Runs, r # q, RunStep(r)
    PROVE  ~undisturbed'[q] \/ LeavesAlone(q) \/ ~(pc'[q] \in {"scan", "confirm"} \union Executing)
<1> USE DEF LeavesAlone
<1>0. TypeOK
  BY DEF SafetyInv
<1>1. ASSUME Invoke(r) PROVE LeavesAlone(q)
  BY <1>0, <1>1 DEF Invoke, fsVars, TypeOK
<1>2. ASSUME NEW yes \in BOOLEAN, AnswerMkdir(r, yes) PROVE LeavesAlone(q)
  BY <1>0, <1>2 DEF AnswerMkdir, TypeOK
<1>3. ASSUME List(r) PROVE LeavesAlone(q)
  BY <1>0, <1>3 DEF List, fsVars, TypeOK
<1>4. ASSUME PlanEntry(r) PROVE LeavesAlone(q)
  BY <1>0, <1>4 DEF PlanEntry, fsVars, TypeOK
<1>5. ASSUME NEW answer \in {"y", "n", "dry"}, Confirm(r, answer) PROVE LeavesAlone(q)
  BY <1>0, <1>5 DEF Confirm, fsVars, TypeOK
<1>6. ASSUME SkipEntry(r) \/ CommandFails(r) PROVE LeavesAlone(q)
  BY <1>0, <1>6 DEF SkipEntry, CommandFails, fsVars, TypeOK
<1>7. ASSUME ReceiveBegins(r) PROVE ~undisturbed'[q]
  BY <1>7 DEF ReceiveBegins
<1>8. ASSUME ReceiveEnds(r)
      PROVE  ~undisturbed'[q] \/ ~(pc'[q] \in {"scan", "confirm"} \union Executing)
  <2>1. dest[Current(r).name] = "partial" /\ Current(r).name \in Snaps /\ pc[r] = "receive"
    BY <1>0, <1>8, CurrentType DEF ReceiveEnds, SafetyInv, ReceivesOwn, Entry
  <2>2. ~Receiving(q, Current(r).name)
    BY <2>1 DEF SafetyInv, ExclusiveReceive, Receiving
  <2>3. ~(undisturbed[q] /\ pc[q] \in {"scan", "confirm"} \union Executing)
    BY <2>1, <2>2 DEF Undisturbed
  <2>4. undisturbed'[q] = undisturbed[q] /\ pc'[q] = pc[q]
    BY <1>0, <1>8 DEF ReceiveEnds, TypeOK
  <2> QED
    BY <2>3, <2>4
<1>9. ASSUME ReceiveInterrupted(r) \/ Kill(r) \/ Finish(r) PROVE LeavesAlone(q)
  BY <1>0, <1>9 DEF ReceiveInterrupted, Kill, Finish, fsVars, TypeOK
<1> QED
  BY <1>1, <1>2, <1>3, <1>4, <1>5, <1>6, <1>7, <1>8, <1>9 DEF RunStep, Execute

LEMMA EnvironmentStep ==
    ASSUME SafetyInv, NEW q \in Runs, Undisturbed(q), NEW s \in Snaps,
           TakeSnapshot(s) \/ Prune(s) \/ CleanUp(s)
    PROVE  ~undisturbed'[q] \/ LeavesAlone(q) \/ ~(pc'[q] \in {"scan", "confirm"} \union Executing)
<1>0. TypeOK
  BY DEF SafetyInv
<1>1. CASE TakeSnapshot(s)
  BY <1>0, <1>1 DEF TakeSnapshot, LeavesAlone, runVars, TypeOK
<1>2. CASE Prune(s)
  BY <1>2 DEF Prune
<1>3. CASE CleanUp(s)
  <2>1. dest[s] = "partial" /\ ~Receiving(q, s) /\ UNCHANGED <<pc, undisturbed>>
    BY <1>3 DEF CleanUp, runVars
  <2> QED
    BY <2>1 DEF Undisturbed
<1> QED
  BY <1>1, <1>2, <1>3

(* An undisturbed, confirmed run's next command cannot fail. *)
LEMMA NextIsReceivable ==
    ASSUME SafetyInv, NEW q \in Runs, Undisturbed(q), undisturbed[q], RunsCommand(q)
    PROVE  Receivable(Current(q))
<1> DEFINE e == Current(q)
           i == idx[q]
<1>1. /\ pc[q] = "execute" /\ choice[q] = "y" /\ e.action # "none"
      /\ i \in 1..Len(plan[q]) /\ TypeOK /\ e = plan[q][i]
  BY DEF RunsCommand, AtCommand, SafetyInv, TypeOK, Current
<1>2. /\ \A j \in 1..Len(listing[q]) : source[listing[q][j]] = "present"
      /\ FreshPlan(q) /\ CopiedSoFar(q)
  BY <1>1 DEF Undisturbed, Executing
<1>3. /\ Len(plan[q]) = Len(listing[q]) /\ e.name = listing[q][i]
      /\ e.parent = (IF i = 1 THEN NoSnap ELSE listing[q][i - 1])
      /\ e.action = "full" <=> i = 1
      /\ i > 1 => plan[q][i - 1].name = listing[q][i - 1]
  BY <1>1 DEF SafetyInv, PlansOK, PlanOK, Executing
<1>4. source[e.name] = "present" /\ dest[e.name] = "absent"
  BY <1>1, <1>2, <1>3 DEF FreshPlan
<1>5. ASSUME i > 1 PROVE e.parent \in InSource /\ dest[e.parent] = "complete"
  <2>1. i - 1 \in 1..Len(plan[q]) /\ i - 1 < i
    BY <1>1, <1>5
  <2>2. dest[plan[q][i - 1].name] = "complete"
    BY <1>1, <1>2, <2>1 DEF CopiedSoFar, Executing
  <2>3. e.parent = listing[q][i - 1] /\ e.parent \in Snaps /\ source[e.parent] = "present"
    BY <1>1, <1>2, <1>3, <1>5, <2>1 DEF TypeOK
  <2> QED
    BY <1>3, <1>5, <2>2, <2>3 DEF InSource
<1>6. e.action = "incremental" => i > 1
  BY <1>1, <1>3
<1> QED
  BY <1>4, <1>5, <1>6 DEF Receivable

LEMMA PlanNames ==
    ASSUME TypeOK, NEW r \in Runs, NEW i \in 1..Len(plan[r])
    PROVE  plan[r][i] \in Entry /\ plan[r][i].name \in Snaps
<1>1. plan[r] \in Seq(Entry)
  BY DEF TypeOK
<1>2. plan[r][i] \in Entry
  BY <1>1
<1> QED
  BY <1>2 DEF Entry

LEMMA UndisturbedOwnStep ==
    ASSUME SafetyInv, SafetyInv', NEW q \in Runs, Undisturbed(q), RunStep(q)
    PROVE  Undisturbed(q)'
<1>0. TypeOK /\ TypeOK' /\ PlanOK(q) /\ PlanOK(q)'
  BY DEF SafetyInv, PlansOK
<1>1. ASSUME Invoke(q) \/ (\E yes \in BOOLEAN : AnswerMkdir(q, yes)) \/ ReceiveInterrupted(q)
             \/ Kill(q) \/ Finish(q)
      PROVE  Undisturbed(q)'
  <2>1. pc'[q] \notin {"scan", "confirm"} \union Executing \/ ~undisturbed'[q]
    BY <1>0, <1>1 DEF Invoke, AnswerMkdir, ReceiveInterrupted, Kill, Finish, TypeOK, Executing
  <2> QED
    BY <2>1 DEF Undisturbed
<1>2. ASSUME List(q) PROVE Undisturbed(q)'
  <2>1. CASE ~snapDir
    BY <1>0, <1>2, <2>1 DEF List, Undisturbed, TypeOK, Executing
  <2>2. CASE snapDir
    <3>1. PICK l \in SetToSeqs(InSource) : listing' = [listing EXCEPT ![q] = l]
      BY <1>2, <2>2 DEF List
    <3>2. \A i \in 1..Len(l) : source[l[i]] = "present"
      BY <1>0, ListingLemma
    <3>3. listing'[q] = l /\ source' = source /\ dest' = dest
      BY <1>0, <1>2, <3>1 DEF List, TypeOK, fsVars
    <3>4. plan' = [plan EXCEPT ![q] = <<>>] /\ idx' = [idx EXCEPT ![q] = 1]
            /\ pc' = [pc EXCEPT ![q] = "scan"]
            /\ undisturbed' = [undisturbed EXCEPT ![q] = \A s \in Snaps : dest[s] # "partial"]
      BY <1>2, <2>2 DEF List
    <3>5. plan'[q] = <<>> /\ idx'[q] = 1 /\ pc'[q] = "scan"
            /\ (undisturbed'[q] => \A s \in Snaps : dest[s] # "partial")
      BY <1>0, <3>4 DEF TypeOK
    <3>6. FreshPlan(q)' /\ CopiedSoFar(q)'
      BY <3>5 DEF FreshPlan, CopiedSoFar, Executing
    <3> QED
      BY <3>2, <3>3, <3>5, <3>6 DEF Undisturbed
  <2> QED
    BY <2>1, <2>2
<1>3. ASSUME PlanEntry(q) PROVE Undisturbed(q)'
  <2>1. pc[q] = "scan" /\ UNCHANGED <<source, dest, listing, idx, undisturbed, choice>>
    BY <1>3 DEF PlanEntry, fsVars
  <2>2. CASE Len(plan[q]) + 1 <= Len(listing[q])
    <3> DEFINE n == Len(plan[q]) + 1
               e == NewEntry(listing[q], n)
    <3>1. plan' = [plan EXCEPT ![q] = Append(plan[q], e)] /\ pc' = pc
      BY <1>3, <2>2 DEF PlanEntry
    <3>2. e \in Entry /\ plan[q] \in Seq(Entry) /\ plan'[q] = Append(plan[q], e)
      BY <1>0, <2>2, <3>1, NewEntryType DEF TypeOK
    <3>3. /\ e.action = "none" => dest[e.name] # "absent"
          /\ e.action # "none" => dest[e.name] = "absent"
      BY DEF NewEntry
    <3> HIDE DEF e
    <3>4. Len(plan'[q]) = n /\ plan'[q][n] = e /\ \A i \in 1..n : i = n \/
             (i \in 1..Len(plan[q]) /\ plan'[q][i] = plan[q][i])
      BY <3>2
    <3>5. ASSUME undisturbed[q] PROVE FreshPlan(q)'
      <4>1. FreshPlan(q) /\ (\A s \in Snaps : dest[s] = "partial" => Receiving(q, s))
        BY <2>1, <3>5 DEF Undisturbed
      <4>2. \A s \in Snaps : dest[s] # "partial"
        BY <2>1, <4>1 DEF Receiving
      <4>3. e.action = "none" => dest[e.name] = "complete"
        BY <1>0, <3>2, <3>3, <4>2 DEF Entry, TypeOK
      <4> QED
        BY <2>1, <3>1, <3>3, <3>4, <4>1, <4>3 DEF FreshPlan
    <3>6. CopiedSoFar(q)'
      BY <2>1, <3>1 DEF CopiedSoFar, Executing
    <3>7. \A s \in Snaps : Receiving(q, s) => Receiving(q, s)'
      BY <2>1 DEF Receiving
    <3> QED
      BY <2>1, <3>1, <3>5, <3>6, <3>7 DEF Undisturbed
  <2>3. CASE ~(Len(plan[q]) + 1 <= Len(listing[q]))
    <3>1. pc' = [pc EXCEPT ![q] = "confirm"] /\ plan' = plan
      BY <1>3, <2>3 DEF PlanEntry
    <3>2. pc'[q] = "confirm"
      BY <1>0, <3>1 DEF TypeOK
    <3>3. CopiedSoFar(q)'
      BY <3>2 DEF CopiedSoFar, Executing
    <3>4. \A s \in Snaps : Receiving(q, s) => Receiving(q, s)'
      BY <2>1 DEF Receiving
    <3>5. FreshPlan(q) => FreshPlan(q)'
      BY <2>1, <3>1, <3>2 DEF FreshPlan
    <3> QED
      BY <2>1, <3>1, <3>2, <3>3, <3>4, <3>5 DEF Undisturbed
  <2> QED
    BY <2>2, <2>3
<1>4. ASSUME NEW answer \in {"y", "n", "dry"}, Confirm(q, answer) PROVE Undisturbed(q)'
  <2>1. pc[q] = "confirm" /\ UNCHANGED <<source, dest, listing, plan, idx, undisturbed>>
          /\ pc'[q] \in {"idle", "execute"}
    BY <1>0, <1>4 DEF Confirm, fsVars, TypeOK
  <2>2. ASSUME undisturbed[q] PROVE CopiedSoFar(q)'
    <3>1. idx[q] = 1
      BY <2>1, <2>2 DEF Undisturbed
    <3> QED
      BY <2>1, <3>1 DEF CopiedSoFar
  <2>3. FreshPlan(q) => FreshPlan(q)'
    BY <2>1 DEF FreshPlan
  <2>4. \A s \in Snaps : Receiving(q, s) => Receiving(q, s)'
    BY <2>1 DEF Receiving
  <2> QED
    BY <2>1, <2>2, <2>3, <2>4 DEF Undisturbed, Executing
<1>5. ASSUME SkipEntry(q) PROVE Undisturbed(q)'
  <2>1. /\ pc[q] = "execute" /\ UNCHANGED <<source, dest, listing, plan, pc, choice, undisturbed>>
        /\ idx[q] \in 1..Len(plan[q]) /\ idx'[q] = idx[q] + 1
        /\ Current(q).action = "none" \/ choice[q] = "dry"
    BY <1>0, <1>5 DEF SkipEntry, AtCommand, fsVars, TypeOK
  <2>2. FreshPlan(q) => FreshPlan(q)'
    BY <2>1 DEF FreshPlan
  <2>3. FreshPlan(q) /\ CopiedSoFar(q) => CopiedSoFar(q)'
    BY <2>1 DEF FreshPlan, CopiedSoFar, Current
  <2>4. \A s \in Snaps : Receiving(q, s) => Receiving(q, s)'
    BY <2>1 DEF Receiving
  <2> QED
    BY <2>1, <2>2, <2>3, <2>4 DEF Undisturbed, Executing
<1>6. ASSUME CommandFails(q) PROVE Undisturbed(q)'
  <2>1. ~undisturbed[q]
    BY <1>6, NextIsReceivable DEF CommandFails
  <2>2. ~undisturbed'[q]
    BY <1>6, <2>1 DEF CommandFails
  <2> QED
    BY <2>2 DEF Undisturbed
<1>7. ASSUME ReceiveBegins(q) PROVE Undisturbed(q)'
  <2> DEFINE e == Current(q)
  <2>1. /\ e.name \in Snaps /\ dest[e.name] = "absent"
        /\ dest' = [dest EXCEPT ![e.name] = "partial"]
        /\ pc' = [pc EXCEPT ![q] = "receive"]
        /\ UNCHANGED <<plan, idx>>
    BY <1>0, <1>7, BeginFacts DEF SafetyInv
  <2>2. /\ pc[q] = "execute" /\ idx[q] \in 1..Len(plan[q]) /\ undisturbed'[q] = undisturbed[q]
        /\ UNCHANGED <<source, listing, choice>> /\ pc'[q] = "receive"
    BY <1>0, <1>7, <2>1 DEF ReceiveBegins, RunsCommand, AtCommand, TypeOK
  <2>3. \A i \in 1..Len(plan[q]) : plan[q][i].name = e.name => i = idx[q]
    BY <1>0, <2>2 DEF PlanOK, Executing, Current
  <2>4. \A i \in 1..Len(plan[q]) : plan[q][i].name \in Snaps /\
            (i # idx[q] => dest'[plan[q][i].name] = dest[plan[q][i].name])
    BY <1>0, <2>1, <2>3, PlanNames DEF TypeOK
  <2>5. FreshPlan(q) => FreshPlan(q)'
    BY <2>1, <2>2, <2>4 DEF FreshPlan, Current
  <2>6. CopiedSoFar(q) => CopiedSoFar(q)'
    BY <2>1, <2>2, <2>4 DEF CopiedSoFar, Executing
  <2>7. ASSUME undisturbed[q] PROVE \A s \in Snaps : dest'[s] = "partial" => Receiving(q, s)'
    <3>1. \A s \in Snaps : dest[s] # "partial"
      BY <2>2, <2>7 DEF Undisturbed, Receiving, Executing
    <3> QED
      BY <1>0, <2>1, <2>2, <3>1 DEF Receiving, Current, TypeOK
  <2> QED
    BY <2>2, <2>5, <2>6, <2>7 DEF Undisturbed, Executing
<1>8. ASSUME ReceiveEnds(q) PROVE Undisturbed(q)'
  <2> DEFINE e == Current(q)
  <2>1. /\ pc[q] = "receive" /\ pc'[q] = "execute" /\ idx'[q] = idx[q] + 1
        /\ dest' = [dest EXCEPT ![e.name] = "complete"]
        /\ UNCHANGED <<source, listing, plan, choice, undisturbed>>
    BY <1>0, <1>8 DEF ReceiveEnds, TypeOK
  <2>2. idx[q] \in 1..Len(plan[q]) /\ dest[e.name] = "partial"
    BY <1>0, <2>1 DEF SafetyInv, ReceivesOwn, TypeOK
  <2>3. e.name \in Snaps
    BY <1>0, <2>2, CurrentType DEF Entry
  <2>4. \A i \in 1..Len(plan[q]) : plan[q][i].name = e.name => i = idx[q]
    BY <1>0, <2>1, <2>2 DEF PlanOK, Executing, Current
  <2>5. \A i \in 1..Len(plan[q]) : plan[q][i].name \in Snaps /\
            (i # idx[q] => dest'[plan[q][i].name] = dest[plan[q][i].name])
    BY <1>0, <2>1, <2>4, PlanNames DEF TypeOK
  <2>6. dest'[plan[q][idx[q]].name] = "complete"
    BY <1>0, <2>1, <2>3 DEF Current, TypeOK
  <2>7. ASSUME FreshPlan(q) PROVE FreshPlan(q)'
    <3> SUFFICES ASSUME NEW i \in 1..Len(plan[q])
                 PROVE  /\ plan[q][i].action = "none" => dest'[plan[q][i].name] = "complete"
                        /\ plan[q][i].action # "none" /\ idx[q] + 1 <= i
                              => dest'[plan[q][i].name] = "absent"
      BY <2>1 DEF FreshPlan
    <3>1. CASE i = idx[q]
      BY <2>2, <2>6, <3>1
    <3>2. CASE i # idx[q]
      BY <2>2, <2>5, <2>7, <3>2 DEF FreshPlan
    <3> QED
      BY <3>1, <3>2
  <2>8. ASSUME CopiedSoFar(q) PROVE CopiedSoFar(q)'
    <3> SUFFICES ASSUME choice[q] = "y", NEW i \in 1..Len(plan[q]), i < idx[q] + 1
                 PROVE  dest'[plan[q][i].name] = "complete"
      BY <2>1 DEF CopiedSoFar
    <3>1. CASE i = idx[q]
      BY <2>6, <3>1
    <3>2. CASE i # idx[q]
      BY <2>1, <2>2, <2>5, <2>8, <3>2 DEF CopiedSoFar, Executing
    <3> QED
      BY <3>1, <3>2
  <2>9. ASSUME undisturbed[q] PROVE \A s \in Snaps : dest'[s] # "partial"
    <3>1. \A s \in Snaps : dest[s] = "partial" => s = e.name
      BY <2>1, <2>9 DEF Undisturbed, Receiving, Executing
    <3> QED
      BY <1>0, <2>1, <2>3, <3>1 DEF TypeOK
  <2> QED
    BY <2>1, <2>7, <2>8, <2>9 DEF Undisturbed, Executing
<1> QED
  BY <1>1, <1>2, <1>3, <1>4, <1>5, <1>6, <1>7, <1>8 DEF RunStep, Execute

LEMMA UndisturbedInit == Init => UndisturbedInv
<1> SUFFICES ASSUME Init PROVE UndisturbedInv
  OBVIOUS
<1>1. \A r \in Runs : ~undisturbed[r]
  BY DEF Init
<1> QED
  BY <1>1, SafetyInit DEF UndisturbedInv, Undisturbed

LEMMA UndisturbedStep == UndisturbedInv /\ [Next]_vars => UndisturbedInv'
<1> SUFFICES ASSUME UndisturbedInv, [Next]_vars PROVE UndisturbedInv'
  OBVIOUS
<1>1. SafetyInv /\ SafetyInv' /\ TypeOK /\ TypeOK'
  BY SafetyStep DEF UndisturbedInv, SafetyInv
<1>2. ASSUME NEW q \in Runs PROVE Undisturbed(q)'
  <2>1. Undisturbed(q)
    BY DEF UndisturbedInv
  <2>2. CASE RunStep(q)
    BY <1>1, <2>1, <2>2, UndisturbedOwnStep
  <2>3. ASSUME ~undisturbed'[q] \/ LeavesAlone(q)
               \/ ~(pc'[q] \in {"scan", "confirm"} \union Executing)
        PROVE  Undisturbed(q)'
    BY <1>1, <2>1, <2>3, LeftAlone DEF Undisturbed
  <2>4. ASSUME NEW r \in Runs, r # q, RunStep(r) PROVE Undisturbed(q)'
    BY <1>1, <2>1, <2>3, <2>4, ForeignStep
  <2>5. ASSUME NEW s \in Snaps, TakeSnapshot(s) \/ Prune(s) \/ CleanUp(s) PROVE Undisturbed(q)'
    BY <1>1, <2>1, <2>3, <2>5, EnvironmentStep
  <2>6. CASE UNCHANGED vars
    BY <2>3, <2>6 DEF vars, fsVars, runVars, LeavesAlone
  <2> QED
    BY <2>2, <2>4, <2>5, <2>6 DEF Next
<1> QED
  BY <1>1, <1>2 DEF UndisturbedInv

(* A confirmed run that starts without debris and that nothing interferes  *)
(* with copies every snapshot it passes: in any listing order, for any     *)
(* number of snapshots, with any other runs standing by.                   *)
THEOREM UndisturbedRunsCopy == Spec => []UndisturbedRunCopies
<1>1. Spec => []UndisturbedInv
  BY UndisturbedInit, UndisturbedStep, PTL DEF Spec
<1>2. UndisturbedInv => UndisturbedRunCopies
  BY DEF UndisturbedInv, Undisturbed, CopiedSoFar, UndisturbedRunCopies
<1> QED
  BY <1>1, <1>2, PTL

-----------------------------------------------------------------------------
(* A leftover is only removed by the operator. *)
LEMMA DebrisStep ==
    ASSUME SafetyInv, [Next]_vars, NEW s \in Snaps,
           dest[s] = "partial", \A r \in Runs : ~Receiving(r, s)
    PROVE  dest'[s] = "partial" \/ (dest'[s] = "absent" /\ UNCHANGED runVars)
<1>0. TypeOK /\ PlansOK
  BY DEF SafetyInv
<1>1. CASE KeepsBackup
  BY <1>1 DEF KeepsBackup
<1>2. ASSUME NEW t \in Snaps, CleanUp(t)
      PROVE  dest'[s] = "partial" \/ (dest'[s] = "absent" /\ UNCHANGED runVars)
  BY <1>0, <1>2 DEF CleanUp, runVars, TypeOK
<1>3. ASSUME NEW r \in Runs, ReceiveBegins(r) PROVE dest'[s] = "partial"
  <2>1. dest[Current(r).name] = "absent"
          /\ dest' = [dest EXCEPT ![Current(r).name] = "partial"]
    BY <1>0, <1>3, BeginFacts
  <2> QED
    BY <1>0, <2>1 DEF TypeOK
<1>4. ASSUME NEW r \in Runs, ReceiveEnds(r) PROVE dest'[s] = "partial"
  <2>1. pc[r] = "receive" /\ dest' = [dest EXCEPT ![Current(r).name] = "complete"]
    BY <1>4 DEF ReceiveEnds
  <2>2. Current(r).name # s
    BY <2>1 DEF Receiving
  <2> QED
    BY <1>0, <2>1, <2>2 DEF TypeOK
<1> QED
  BY <1>0, <1>1, <1>2, <1>3, <1>4, BackupStepKinds

(* No run ever repairs or replaces what an interrupted receive left. *)
THEOREM DebrisStays == Spec => DebrisNeedsOperator
<1>1. Spec => []SafetyInv
  BY SafetyInit, SafetyStep, PTL DEF Spec
<1>2. SafetyInv /\ [Next]_vars =>
        [\A s \in Snaps :
           dest[s] = "partial" /\ (\A r \in Runs : ~Receiving(r, s)) =>
              \/ dest'[s] = "partial"
              \/ dest'[s] = "absent" /\ UNCHANGED runVars]_vars
  BY DebrisStep
<1> QED
  BY <1>1, <1>2, PTL DEF Spec, DebrisNeedsOperator
-----------------------------------------------------------------------------
(* The refinement of BackupStore. *)
LEMMA StoreInit == Init => Store!Init
<1> SUFFICES ASSUME Init PROVE Store!Init
  OBVIOUS
<1>1. {s \in Snaps : source[s] # "absent"} = {}
  BY DEF Init
<1>2. Stored = {}
  BY DEF Init, Stored
<1>3. [s \in Stored |-> base[s]] = [s \in {} |-> NoSnap]
  BY <1>2
<1> QED
  BY <1>1, <1>3 DEF Store!Init

LEMMA TakenStepKinds ==
    ASSUME TypeOK, [Next]_vars
    PROVE  \/ \E s \in Snaps : TakeSnapshot(s)
           \/ {s \in Snaps : source'[s] # "absent"} = {s \in Snaps : source[s] # "absent"}
<1>1. \/ UNCHANGED source
      \/ \E t \in Snaps : TakeSnapshot(t)
      \/ \E t \in Snaps : Prune(t)
  BY DEF Next, RunStep, Execute, CleanUp, Invoke, AnswerMkdir, List,
         PlanEntry, Confirm, SkipEntry, CommandFails, ReceiveBegins, ReceiveEnds,
         ReceiveInterrupted, Kill, Finish, vars, fsVars
<1>2. ASSUME NEW t \in Snaps, Prune(t)
      PROVE  {s \in Snaps : source'[s] # "absent"} = {s \in Snaps : source[s] # "absent"}
  BY <1>2 DEF Prune, TypeOK
<1> QED
  BY <1>1, <1>2

LEMMA StoreStep ==
    ASSUME SafetyInv, SafetyInv', [Next]_vars
    PROVE  [Store!Next]_(Store!vars)
<1> DEFINE T == {s \in Snaps : source[s] # "absent"}
           L == [s \in Stored |-> base[s]]
<1>0. TypeOK /\ TypeOK' /\ PlansOK /\ DOMAIN L = Stored
  BY DEF SafetyInv
<1>1. ASSUME NEW s \in Snaps, TakeSnapshot(s) PROVE Store!Take(s)
  <2>1. s \notin T /\ T' = T \union {s}
    BY <1>0, <1>1 DEF TakeSnapshot, TypeOK
  <2>2. L' = L
    BY <1>1 DEF TakeSnapshot, Stored
  <2> QED
    BY <2>1, <2>2 DEF Store!Take
<1>2. ASSUME NEW r \in Runs, ReceiveEnds(r)
      PROVE  \E s \in Snaps : \E b \in Snaps \union {NoSnap} : Store!Store(s, b)
  <2> DEFINE n == Current(r).name
  <2>1. /\ pc[r] = "receive" /\ dest' = [dest EXCEPT ![n] = "complete"]
        /\ UNCHANGED <<source, base>>
    BY <1>2 DEF ReceiveEnds
  <2>2. n \in Snaps /\ dest[n] = "partial"
    BY <1>0, <2>1, CurrentType DEF SafetyInv, ReceivesOwn, Entry
  <2>3. Stored' = Stored \union {n} /\ n \notin Stored
    BY <1>0, <2>1, <2>2 DEF Stored, TypeOK
  <2>4. n \in T
    BY <2>2 DEF SafetyInv, TakenFirst
  <2>5. base[n] \in Stored \union {NoSnap}
    BY <1>0, <2>2 DEF SafetyInv, LineageOK, Stored, TypeOK
  <2>6. T' = T
    BY <2>1
  <2>7. L' = [t \in Stored \union {n} |-> IF t = n THEN base[n] ELSE L[t]]
    BY <2>1, <2>3
  <2>8. base[n] \in Snaps \union {NoSnap}
    BY <1>0, <2>2 DEF TypeOK
  <2>9. \E b \in Snaps \union {NoSnap} :
          /\ n \in T \ Stored
          /\ b \in Stored \union {NoSnap}
          /\ L' = [t \in Stored \union {n} |-> IF t = n THEN b ELSE L[t]]
          /\ T' = T
    BY <2>3, <2>4, <2>5, <2>6, <2>7, <2>8
  <2> QED
    BY <1>0, <2>2, <2>9 DEF Store!Store, Store!stored
<1>3. ASSUME ~(\E r \in Runs : ReceiveEnds(r)) PROVE L' = L
  <2>1. ASSUME Stored' = Stored, \A s \in Stored : base'[s] = base[s] PROVE L' = L
    BY <2>1
  <2>2. CASE KeepsBackup
    BY <2>2 DEF KeepsBackup, Stored
  <2>3. ASSUME NEW s \in Snaps, CleanUp(s) PROVE L' = L
    <3>1. Stored' = Stored /\ \A t \in Stored : base'[t] = base[t]
      BY <1>0, <2>3 DEF CleanUp, Stored, TypeOK
    <3> QED
      BY <2>1, <3>1
  <2>4. ASSUME NEW r \in Runs, ReceiveBegins(r) PROVE L' = L
    <3>1. \E n \in Snaps : /\ dest[n] = "absent" /\ dest' = [dest EXCEPT ![n] = "partial"]
                           /\ base' = [base EXCEPT ![n] = Current(r).parent]
      BY <1>0, <2>4, BeginFacts
    <3>2. Stored' = Stored /\ \A t \in Stored : base'[t] = base[t]
      BY <1>0, <3>1 DEF Stored, TypeOK
    <3> QED
      BY <2>1, <3>2
  <2> QED
    BY <1>0, <1>3, <2>2, <2>3, <2>4, BackupStepKinds
<1>4. ASSUME ~(\E s \in Snaps : TakeSnapshot(s)) PROVE T' = T
  BY <1>0, <1>4, TakenStepKinds
<1> QED
  BY <1>1, <1>2, <1>3, <1>4 DEF Store!Next, Store!vars

(* The backup tool implements the abstract store: finished copies stay as  *)
(* they are and form a forest, whatever interleaving, fault or stale plan. *)
THEOREM ImplementsStore == Spec => StoreSpec
<1>1. Spec => []SafetyInv
  BY SafetyInit, SafetyStep, PTL DEF Spec
<1>2. SafetyInv /\ SafetyInv' /\ [Next]_vars => [Store!Next]_(Store!vars)
  BY StoreStep
<1> QED
  BY <1>1, <1>2, StoreInit, PTL DEF Spec, StoreSpec, Store!Spec
=============================================================================
