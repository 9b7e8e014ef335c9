---------------------------- MODULE BtrfsBackup ----------------------------
(***************************************************************************)
(* btrfs_backup.py: copy the snapshots of a subvolume to a backup          *)
(* directory with btrfs send | btrfs receive.                              *)
(*                                                                         *)
(* A run of the program lists the snapshot directory, plans one action per *)
(* entry by looking at the backup directory, asks the operator, and then   *)
(* executes the plan it made before the question.  Several runs may be in  *)
(* progress at the same time (another terminal, a run left at its prompt). *)
(* Snapshots appear while runs are in progress, and the operator may       *)
(* delete old ones and clean up what an interrupted run left behind.       *)
(*                                                                         *)
(* A subvolume in the backup directory is "partial" from the moment btrfs  *)
(* receive creates it until the stream has ended; a receive that dies      *)
(* leaves it "partial".  Only a finished copy can be the parent of another.*)
(***************************************************************************)
EXTENDS Naturals, Sequences, FiniteSets, SequencesExt

CONSTANTS Snaps,          \* names of snapshots (btrfs_snap: the time they were taken)
          NoSnap,         \* the parent of the first entry of a plan
          Runs,           \* invocations of btrfs_backup.py
          MaxFaults,      \* bound on interrupted receives and killed runs
          MaxInvocations  \* bound on the times the operator starts the program

ASSUME SnapsAssumption  == IsFiniteSet(Snaps) /\ NoSnap \notin Snaps
ASSUME BoundAssumption  == MaxFaults \in Nat /\ MaxInvocations \in Nat

VARIABLES source,      \* src_snaps: "absent" (not taken yet), "present", "pruned"
          dest,        \* dest: "absent", "partial", "complete"
          base,        \* the copy a subvolume in dest was derived from
          snapDir,     \* does the directory src_snaps exist
          destDir,     \* does the directory dest exist
          pc,          \* where each run is
          listing,     \* what os.listdir(src_snaps) returned to the run
          plan,        \* the list "snapshots" of the run
          choice,      \* the operator's answer to "Are you sure    y/n/dry"
          idx,         \* the entry of the plan being executed
          faults, invoked,   \* counters for the two bounds
          undisturbed  \* history: nothing interfered with the run since it listed

fsVars   == <<source, dest, base, snapDir, destDir>>
runVars  == <<pc, listing, plan, choice, idx>>
vars     == <<fsVars, runVars, faults, invoked, undisturbed>>

Entry == [name : Snaps, action : {"none", "full", "incremental"},
          parent : Snaps \union {NoSnap}]

Planning  == {"list", "scan", "confirm"}
Executing == {"execute", "receive"}
Active    == {"askmkdir"} \union Planning \union Executing

InSource  == {s \in Snaps : source[s] = "present"}
Current(r) == plan[r][idx[r]]

(* The run whose btrfs receive is writing the subvolume s. *)
Receiving(r, s) == pc[r] = "receive" /\ Current(r).name = s
-----------------------------------------------------------------------------
Init ==
    /\ source = [s \in Snaps |-> "absent"]
    /\ dest = [s \in Snaps |-> "absent"]
    /\ base = [s \in Snaps |-> NoSnap]
    /\ snapDir = FALSE
    /\ destDir = FALSE
    /\ pc = [r \in Runs |-> "idle"]
    /\ listing = [r \in Runs |-> <<>>]
    /\ plan = [r \in Runs |-> <<>>]
    /\ choice = [r \in Runs |-> "unasked"]
    /\ idx = [r \in Runs |-> 1]
    /\ faults = 0
    /\ invoked = 0
    /\ undisturbed = [r \in Runs |-> FALSE]

(* btrfs_snap.sh: mkdir -p the snapshot directory, then take the snapshot. *)
TakeSnapshot(s) ==
    /\ source[s] = "absent"
    /\ source' = [source EXCEPT ![s] = "present"]
    /\ snapDir' = TRUE
    /\ UNCHANGED <<dest, base, destDir, runVars, faults, invoked, undisturbed>>

(* External: the operator deletes a snapshot.  A subvolume that is being   *)
(* sent cannot be deleted.                                                 *)
Prune(s) ==
    /\ source[s] = "present"
    /\ \A r \in Runs : pc[r] = "receive" => s \notin {Current(r).name, Current(r).parent}
    /\ source' = [source EXCEPT ![s] = "pruned"]
    /\ undisturbed' = [r \in Runs |-> FALSE]
    /\ UNCHANGED <<dest, base, snapDir, destDir, runVars, faults, invoked>>

(* External: the operator deletes what an interrupted receive left behind. *)
CleanUp(s) ==
    /\ dest[s] = "partial"
    /\ \A r \in Runs : ~Receiving(r, s)
    /\ dest' = [dest EXCEPT ![s] = "absent"]
    /\ base' = [base EXCEPT ![s] = NoSnap]
    /\ UNCHANGED <<source, snapDir, destDir, runVars, faults, invoked, undisturbed>>
-----------------------------------------------------------------------------
(* The program is started; "if not path.isdir(dest)". *)
Invoke(r) ==
    /\ pc[r] = "idle"
    /\ invoked < MaxInvocations
    /\ invoked' = invoked + 1
    /\ pc' = [pc EXCEPT ![r] = IF destDir THEN "list" ELSE "askmkdir"]
    /\ undisturbed' = [undisturbed EXCEPT ![r] = FALSE]
    /\ UNCHANGED <<fsVars, listing, plan, choice, idx, faults>>

(* "should it created: y/n"; os.mkdir raises when another run was faster,  *)
(* and the program ends.                                                   *)
AnswerMkdir(r, yes) ==
    /\ pc[r] = "askmkdir"
    /\ pc' = [pc EXCEPT ![r] = IF yes /\ ~destDir THEN "list" ELSE "idle"]
    /\ destDir' = (destDir \/ yes)
    /\ UNCHANGED <<source, dest, base, snapDir, listing, plan, choice, idx,
                   faults, invoked, undisturbed>>

(* The directories have to exist; os.listdir returns the entries in an     *)
(* arbitrary order.                                                        *)
List(r) ==
    /\ pc[r] = "list"
    /\ \/ /\ ~snapDir
          /\ pc' = [pc EXCEPT ![r] = "idle"]
          /\ UNCHANGED <<listing, plan, choice, idx, undisturbed>>
       \/ /\ snapDir
          /\ \E l \in SetToSeqs(InSource) : listing' = [listing EXCEPT ![r] = l]
          /\ plan' = [plan EXCEPT ![r] = <<>>]
          /\ choice' = [choice EXCEPT ![r] = "unasked"]
          /\ idx' = [idx EXCEPT ![r] = 1]
          /\ undisturbed' = [undisturbed EXCEPT ![r] = \A s \in Snaps : dest[s] # "partial"]
          /\ pc' = [pc EXCEPT ![r] = "scan"]
    /\ UNCHANGED <<fsVars, faults, invoked>>

(* Mutant: full only when the backup is empty, as the README words it. *)
NewEntryByDest(l, i) ==
    [name   |-> l[i],
     action |-> IF dest[l[i]] # "absent" THEN "none"
                ELSE IF \A s \in Snaps : dest[s] = "absent" THEN "full" ELSE "incremental",
     parent |-> IF i = 1 THEN NoSnap ELSE l[i - 1]]

(* Mutant: one of the action strings is misspelt. *)
NewEntryMisspelt(l, i) ==
    [name   |-> l[i],
     action |-> IF dest[l[i]] # "absent" THEN "none"
                ELSE IF i = 1 THEN "full" ELSE "incr",
     parent |-> IF i = 1 THEN NoSnap ELSE l[i - 1]]

(* The entry the loop appends for the i-th name of the listing; the parent *)
(* is the previous entry, whatever happens to that one.                    *)
NewEntry(l, i) ==
    [name   |-> l[i],
     action |-> IF dest[l[i]] # "absent" THEN "none"
                ELSE IF i = 1 THEN "full" ELSE "incremental",
     parent |-> IF i = 1 THEN NoSnap ELSE l[i - 1]]

(* One iteration of the planning loop: path.isdir(snap_dest) is asked once *)
(* per entry, other runs may be receiving meanwhile.                       *)
PlanEntry(r) ==
    /\ pc[r] = "scan"
    /\ LET i == Len(plan[r]) + 1 IN
         IF i <= Len(listing[r])
           THEN /\ plan' = [plan EXCEPT ![r] = Append(@, NewEntry(listing[r], i))]
                /\ UNCHANGED pc
           ELSE /\ pc' = [pc EXCEPT ![r] = "confirm"]
                /\ UNCHANGED plan
    /\ UNCHANGED <<fsVars, listing, choice, idx, faults, invoked, undisturbed>>

(* "Are you sure    y/n/dry". *)
Confirm(r, answer) ==
    /\ pc[r] = "confirm"
    /\ choice' = [choice EXCEPT ![r] = answer]
    /\ pc' = [pc EXCEPT ![r] = IF answer = "n" THEN "idle" ELSE "execute"]
    /\ UNCHANGED <<fsVars, listing, plan, idx, faults, invoked, undisturbed>>
-----------------------------------------------------------------------------
(* External: when btrfs send -p parent name | btrfs receive dest gets as   *)
(* far as creating the subvolume: send needs the snapshots it is given,    *)
(* receive refuses a name that exists and a parent it holds no finished    *)
(* copy of.                                                                *)
Receivable(e) ==
    /\ source[e.name] = "present"
    /\ dest[e.name] = "absent"
    /\ e.action = "incremental" => e.parent \in InSource /\ dest[e.parent] = "complete"

AtCommand(r) == pc[r] = "execute" /\ idx[r] <= Len(plan[r])

(* Mutant: break instead of continue. *)
SkipEntryBreaks(r) ==
    /\ AtCommand(r)
    /\ Current(r).action = "none" \/ choice[r] = "dry"
    /\ pc' = [pc EXCEPT ![r] = "idle"]
    /\ UNCHANGED <<fsVars, idx, listing, plan, choice, faults, invoked, undisturbed>>

(* Nothing to do for this entry, or a dry run: continue. *)
SkipEntry(r) ==
    /\ AtCommand(r)
    /\ Current(r).action = "none" \/ choice[r] = "dry"
    /\ idx' = [idx EXCEPT ![r] = @ + 1]
    /\ UNCHANGED <<fsVars, pc, listing, plan, choice, faults, invoked, undisturbed>>

RunsCommand(r) == AtCommand(r) /\ Current(r).action # "none" /\ choice[r] = "y"

(* Mutant: a failed command deletes its destination, to start afresh. *)
CommandFailsDeleting(r) ==
    /\ RunsCommand(r)
    /\ ~Receivable(Current(r))
    /\ dest' = [dest EXCEPT ![Current(r).name] = "absent"]
    /\ base' = [base EXCEPT ![Current(r).name] = NoSnap]
    /\ idx' = [idx EXCEPT ![r] = @ + 1]
    /\ UNCHANGED <<source, snapDir, destDir, pc, listing, plan, choice, faults, invoked, undisturbed>>

(* os.system(command) fails at once; its exit status is not looked at. *)
CommandFails(r) ==
    /\ RunsCommand(r)
    /\ ~Receivable(Current(r))
    /\ idx' = [idx EXCEPT ![r] = @ + 1]
    /\ UNCHANGED <<fsVars, pc, listing, plan, choice, faults, invoked, undisturbed>>

(* Mutant: the command first deletes what is in the way. *)
ReceiveBeginsReplacing(r) ==
    /\ RunsCommand(r)
    /\ LET e == Current(r) IN
         /\ e.name \in InSource
         /\ e.action = "incremental" => e.parent \in InSource /\ dest[e.parent] = "complete"
         /\ dest' = [dest EXCEPT ![e.name] = "partial"]
         /\ base' = [base EXCEPT ![e.name] = IF e.action = "full" THEN NoSnap ELSE e.parent]
    /\ pc' = [pc EXCEPT ![r] = "receive"]
    /\ undisturbed' = [q \in Runs |-> undisturbed[q] /\ q = r]
    /\ UNCHANGED <<source, snapDir, destDir, listing, plan, choice, idx, faults, invoked>>

ReceiveBegins(r) ==
    /\ RunsCommand(r)
    /\ LET e == Current(r) IN
         /\ Receivable(e)
         /\ dest' = [dest EXCEPT ![e.name] = "partial"]
         /\ base' = [base EXCEPT ![e.name] = IF e.action = "full" THEN NoSnap ELSE e.parent]
    /\ pc' = [pc EXCEPT ![r] = "receive"]
    /\ undisturbed' = [q \in Runs |-> undisturbed[q] /\ q = r]
    /\ UNCHANGED <<source, snapDir, destDir, listing, plan, choice, idx, faults, invoked>>

ReceiveEnds(r) ==
    /\ pc[r] = "receive"
    /\ dest' = [dest EXCEPT ![Current(r).name] = "complete"]
    /\ pc' = [pc EXCEPT ![r] = "execute"]
    /\ idx' = [idx EXCEPT ![r] = @ + 1]
    /\ UNCHANGED <<source, base, snapDir, destDir, listing, plan, choice, faults,
                   invoked, undisturbed>>

(* The pipeline dies (Ctrl-C goes to the pipeline only, the disk is full): *)
(* os.system returns and the loop goes on with the next entry.             *)
ReceiveInterrupted(r) ==
    /\ pc[r] = "receive"
    /\ faults < MaxFaults
    /\ faults' = faults + 1
    /\ pc' = [pc EXCEPT ![r] = "execute"]
    /\ idx' = [idx EXCEPT ![r] = @ + 1]
    /\ undisturbed' = [undisturbed EXCEPT ![r] = FALSE]
    /\ UNCHANGED <<fsVars, listing, plan, choice, invoked>>

(* The whole run dies, with its pipeline: the terminal is closed, the host *)
(* goes down.                                                              *)
Kill(r) ==
    /\ pc[r] \in Active
    /\ faults < MaxFaults
    /\ faults' = faults + 1
    /\ pc' = [pc EXCEPT ![r] = "idle"]
    /\ undisturbed' = [undisturbed EXCEPT ![r] = FALSE]
    /\ UNCHANGED <<fsVars, listing, plan, choice, idx, invoked>>

(* The loop has run through the plan. *)
Finish(r) ==
    /\ pc[r] = "execute"
    /\ idx[r] > Len(plan[r])
    /\ pc' = [pc EXCEPT ![r] = "idle"]
    /\ UNCHANGED <<fsVars, listing, plan, choice, idx, faults, invoked, undisturbed>>
-----------------------------------------------------------------------------
(* What a run does by itself once the operator has answered. *)
Execute(r) ==
    \/ SkipEntry(r) \/ CommandFails(r) \/ ReceiveBegins(r)
    \/ ReceiveEnds(r) \/ Finish(r)

RunStep(r) ==
    \/ Invoke(r) \/ (\E yes \in BOOLEAN : AnswerMkdir(r, yes))
    \/ List(r) \/ PlanEntry(r)
    \/ (\E answer \in {"y", "n", "dry"} : Confirm(r, answer))
    \/ Execute(r)
    \/ ReceiveInterrupted(r) \/ Kill(r)

Next ==
    \/ \E s \in Snaps : TakeSnapshot(s) \/ Prune(s) \/ CleanUp(s)
    \/ \E r \in Runs : RunStep(r)

Spec == Init /\ [][Next]_vars

(* A command the program has started ends, and the loop goes on. *)
FairSpec == Spec /\ \A r \in Runs : WF_vars(Execute(r))
-----------------------------------------------------------------------------
(* Every variable has its type (the state of the directories and of every  *)
(* run of btrfs_backup.py).                                                *)
TypeOK ==
    /\ source \in [Snaps -> {"absent", "present", "pruned"}]
    /\ dest \in [Snaps -> {"absent", "partial", "complete"}]
    /\ base \in [Snaps -> Snaps \union {NoSnap}]
    /\ snapDir \in BOOLEAN /\ destDir \in BOOLEAN
    /\ pc \in [Runs -> {"idle"} \union Active]
    /\ listing \in [Runs -> Seq(Snaps)]
    /\ plan \in [Runs -> Seq(Entry)]
    /\ choice \in [Runs -> {"unasked", "y", "n", "dry"}]
    /\ idx \in [Runs -> Nat \ {0}]
    /\ faults \in 0..MaxFaults /\ invoked \in 0..MaxInvocations
    /\ undisturbed \in [Runs -> BOOLEAN]

(* Two runs never write the same subvolume of the backup, although both    *)
(* may have planned and confirmed it: the plan is stale when it is         *)
(* executed, and it is the name in the directory that decides.             *)
ExclusiveReceive ==
    \A r, q \in Runs, s \in Snaps : Receiving(r, s) /\ Receiving(q, s) => r = q

(* The copies form chains: what a copy was derived from is itself finished *)
(* and stays so, whatever was interrupted, pruned or run concurrently; a   *)
(* plan that names an unfinished copy as a parent copies nothing.          *)
LineageOK ==
    \A s \in Snaps : base[s] # NoSnap => dest[s] # "absent" /\ dest[base[s]] = "complete"

(* The promise of the loop: whatever order os.listdir returned and         *)
(* whatever was already copied, a confirmed run that starts on a backup    *)
(* without debris and that nothing interferes with has copied every        *)
(* snapshot it has passed, although it never looks at an exit status.      *)
UndisturbedRunCopies ==
    \A r \in Runs :
        undisturbed[r] /\ choice[r] = "y" /\ pc[r] \in Executing =>
            \A i \in 1..Len(plan[r]) : i < idx[r] => dest[plan[r][i].name] = "complete"

(* No run ever repairs what an interrupted receive left: the directory     *)
(* exists, so every later plan says "none", until the operator deletes it. *)
DebrisNeedsOperator ==
    [][\A s \in Snaps :
          dest[s] = "partial" /\ (\A r \in Runs : ~Receiving(r, s)) =>
              \/ dest'[s] = "partial"
              \/ dest'[s] = "absent" /\ UNCHANGED runVars]_vars

(* A confirmed run that stays undisturbed finally has everything it listed *)
(* in the backup.                                                          *)
UndisturbedRunSyncs ==
    \A r \in Runs :
        (pc[r] = "execute" /\ choice[r] = "y" /\ undisturbed[r])
            ~> (~undisturbed[r] \/ \A i \in 1..Len(plan[r]) : dest[plan[r][i].name] = "complete")

(* README.md: "if the backup dir doesn't exist we do a full backup ... with *)
(* the first snapshot. Otherwise an incremenal backup is done": a backup    *)
(* that holds a finished copy receives no second full copy.                 *)
ReadmeFullOnlyWhenNew ==
    [][\A s \in Snaps :
          dest[s] = "absent" /\ dest'[s] = "partial" /\ base'[s] = NoSnap =>
              \A t \in Snaps : dest[t] # "complete"]_vars

(* The backup tool implements the store: a copy exists for the abstract    *)
(* store once its stream has ended.                                        *)
Stored == {s \in Snaps : dest[s] = "complete"}
Store == INSTANCE BackupStore
            WITH taken <- {s \in Snaps : source[s] # "absent"},
                 lineage <- [s \in Stored |-> base[s]]
StoreSpec == Store!Spec
=============================================================================
