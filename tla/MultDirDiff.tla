----------------------------- MODULE MultDirDiff -----------------------------
(***************************************************************************)
(* mult_dir_diff: several directories are walked side by side into one     *)
(* tree, in which a node is a relative path and remembers in which of the  *)
(* directories it exists; then the tree is reported line by line.  The     *)
(* directories may change while the program runs.                          *)
(***************************************************************************)
EXTENDS Integers, SequencesExt

CONSTANTS N,          \* number of directories given on the command line
          Paths,      \* relative paths that may exist, see PathsAssumption
          Files,      \* regular files, by content
          Dir,        \* a directory
          Absent,
          Size,       \* length of each file and of a directory
          Colors,     \* number of HTML_COMP_COLORS
          Exclude,    \* option exclude_same
          RootNamed,  \* FALSE if the first directory is given as "." or ".."
          NotUtf8,    \* paths with a last name, <<>> if a directory's path is not UTF-8
          MaxChanges, \* bound on changes of the directories
          MaxUnread   \* bound on directories that cannot be opened

Roots   == 1..N
NoGroup == -1
Entries == Files \union {Dir}

ASSUME PathsAssumption == \A p \in Paths : /\ p \in Seq(Range(p)) /\ p # <<>>
                                           /\ Len(p) > 1 => Front(p) \in Paths
ASSUME SizeAssumption  == (\A e \in Entries : Size[e] \in Nat) /\ Dir \notin Files /\ Absent \notin Entries
ASSUME CountAssumption == N \in Nat \ {0} /\ Colors \in Nat /\ MaxChanges \in Nat /\ MaxUnread \in Nat
                          /\ Exclude \in BOOLEAN /\ RootNamed \in BOOLEAN
ASSUME NamesAssumption == NotUtf8 \subseteq {<<>>} \union Paths

VARIABLES fs,           \* what the directories contain
          changes,
          flat_data,    \* the nodes found
          remain_dirs,  \* nodes to be listed
          curr,         \* the node being listed, 0 if none
          sib,          \* the directory in which it is listed next
          pending,      \* entries read there but not looked at
          found,        \* children found: their names, and where they exist
          unread,       \* history: where read_dir failed, <<directory, path>>
          stack,        \* state of DiffItemIterator
          groups,       \* of each node reported, the result of find_duplicates
          phase         \* "walk", "report", "write" (a line of the report), "done" or "panic"

fsVars   == <<fs, changes>>
listVars == <<curr, sib, pending, found, unread>>
vars     == <<fsVars, flat_data, remain_dirs, listVars, stack, groups, phase>>

At(i, p) == IF p = <<>> THEN Dir ELSE fs[i][p]
IsTree(t) == \A p \in Paths : t[p] # Absent /\ Len(p) > 1 => t[Front(p)] = Dir
Trees == {t \in [Paths -> Entries \union {Absent}] : IsTree(t)}

Node(parent, rel, where) == [parent |-> parent, child |-> <<>>, rel |-> rel, path |-> where]
Nodes == DOMAIN flat_data
-----------------------------------------------------------------------------
Init ==
    /\ fs \in [Roots -> Trees]
    /\ changes = 0
    /\ flat_data = << Node(0, <<>>, Roots) >>
    /\ remain_dirs = <<1>>
    /\ curr = 0 /\ sib = 1 /\ pending = {} /\ found = <<>> /\ unread = {}
    /\ stack = << >>
    /\ groups = << >>
    /\ phase = "walk"

(* Somebody creates, removes or replaces entries of one directory. *)
Change ==
    /\ changes < MaxChanges
    /\ \E i \in Roots, t \in Trees : t # fs[i] /\ fs' = [fs EXCEPT ![i] = t]
    /\ changes' = changes + 1
    /\ UNCHANGED <<flat_data, remain_dirs, listVars, stack, groups, phase>>

(* remain_dirs.pop_front() *)
PopNode ==
    /\ phase = "walk" /\ curr = 0 /\ remain_dirs # <<>>
    /\ curr' = Head(remain_dirs)
    /\ remain_dirs' = Tail(remain_dirs)
    /\ sib' = 1 /\ pending' = {} /\ found' = <<>>
    /\ UNCHANGED <<fsVars, flat_data, unread, stack, groups, phase>>

(* Mutant: a file, or what is gone, is opened again and again. *)
ReadDirAgain ==
    /\ phase = "walk" /\ curr # 0 /\ pending = {} /\ sib <= N
    /\ LET rel == flat_data[curr].rel
           isDir == sib \in flat_data[curr].path /\ At(sib, rel) = Dir
           names == {p \in Paths : Front(p) = rel /\ fs[sib][p] # Absent}
       IN  /\ pending' = IF isDir THEN names ELSE {}
           /\ sib' = IF isDir /\ names = {} THEN sib + 1 ELSE sib
    /\ UNCHANGED <<fsVars, flat_data, remain_dirs, curr, found, unread, stack, groups, phase>>

(* read_dir of the next directory; a file, or what is gone, is skipped. *)
ReadDir ==
    /\ phase = "walk" /\ curr # 0 /\ pending = {} /\ sib <= N
    /\ LET rel == flat_data[curr].rel
           isDir == sib \in flat_data[curr].path /\ At(sib, rel) = Dir
           names == {p \in Paths : Front(p) = rel /\ fs[sib][p] # Absent}
       IN  /\ pending' = IF isDir THEN names ELSE {}
           /\ sib' = IF isDir /\ names # {} THEN sib ELSE sib + 1
    /\ UNCHANGED <<fsVars, flat_data, remain_dirs, curr, found, unread, stack, groups, phase>>

(* read_dir cannot open a directory, e.g. for want of a permission: it is  *)
(* skipped as if it were empty.                                            *)
ReadDirFails ==
    LET rel == flat_data[curr].rel IN
    /\ phase = "walk" /\ curr # 0 /\ pending = {} /\ sib <= N
    /\ sib \in flat_data[curr].path /\ At(sib, rel) = Dir
    /\ Cardinality(unread) < MaxUnread
    /\ unread' = unread \union {<<sib, rel>>}
    /\ sib' = sib + 1
    /\ UNCHANGED <<fsVars, flat_data, remain_dirs, curr, pending, found, stack, groups, phase>>

(* Mutant: an entry found before starts a node of its own. *)
TakeEntryAnew(p) ==
    /\ phase = "walk" /\ p \in pending /\ fs[sib][p] # Absent
    /\ pending' = pending \ {p}
    /\ sib' = IF pending = {p} THEN sib + 1 ELSE sib
    /\ found' = Append(found, [rel |-> p, path |-> {sib}])
    /\ UNCHANGED <<fsVars, flat_data, remain_dirs, curr, unread, stack, groups, phase>>

(* One entry, whose metadata can be read. *)
TakeEntry(p) ==
    /\ phase = "walk" /\ p \in pending /\ fs[sib][p] # Absent
    /\ pending' = pending \ {p}
    /\ sib' = IF pending = {p} THEN sib + 1 ELSE sib
    /\ found' = IF \E k \in DOMAIN found : found[k].rel = p
                  THEN [k \in DOMAIN found |-> IF found[k].rel = p
                          THEN [found[k] EXCEPT !.path = @ \union {sib}] ELSE found[k]]
                  ELSE Append(found, [rel |-> p, path |-> {sib}])
    /\ UNCHANGED <<fsVars, flat_data, remain_dirs, curr, unread, stack, groups, phase>>

(* The next entry cannot be read, or its metadata cannot, because it has   *)
(* gone or for any other reason: unwrap() panics.                          *)
EntryFails ==
    /\ phase = "walk" /\ curr # 0 /\ sib <= N
    /\ pending # {} \/ (sib \in flat_data[curr].path /\ At(sib, flat_data[curr].rel) = Dir)
    /\ phase' = "panic"
    /\ UNCHANGED <<fsVars, flat_data, remain_dirs, listVars, stack, groups>>

(* Mutant: the children are numbered from the first node. *)
EndNodeFromStart ==
    LET end == Len(flat_data)
        new == [k \in DOMAIN found |-> Node(curr, found[k].rel, found[k].path)]
        ids == [k \in DOMAIN found |-> curr + k]
    IN
    /\ phase = "walk" /\ curr # 0 /\ pending = {} /\ sib > N
    /\ flat_data' = [flat_data EXCEPT ![curr].child = ids] \o new
    /\ remain_dirs' = remain_dirs \o ids
    /\ curr' = 0 /\ sib' = 1 /\ found' = <<>>
    /\ UNCHANGED <<fsVars, pending, unread, stack, groups, phase>>

(* The children are appended to the nodes and put on the queue, files too. *)
EndNode ==
    LET end == Len(flat_data)
        new == [k \in DOMAIN found |-> Node(curr, found[k].rel, found[k].path)]
        ids == [k \in DOMAIN found |-> end + k]
    IN
    /\ phase = "walk" /\ curr # 0 /\ pending = {} /\ sib > N
    /\ flat_data' = [flat_data EXCEPT ![curr].child = ids] \o new
    /\ remain_dirs' = remain_dirs \o ids
    /\ curr' = 0 /\ sib' = 1 /\ found' = <<>>
    /\ UNCHANGED <<fsVars, pending, unread, stack, groups, phase>>

(* The walk is over, the report begins with the root, after a header with  *)
(* the paths of the directories.                                           *)
StartReport ==
    /\ phase = "walk" /\ curr = 0 /\ remain_dirs = <<>>
    /\ phase' = IF <<>> \in NotUtf8 THEN "panic" ELSE "report"
    /\ stack' = << <<1>> >>
    /\ UNCHANGED <<fsVars, flat_data, remain_dirs, listVars, groups>>
-----------------------------------------------------------------------------
(* Mutant: a directory is the same as everything that exists. *)
SameAsDir(a, b) ==
    /\ a # Absent /\ b # Absent
    /\ (a = Dir \/ b = Dir) \/ Size[a] = Size[b]

(* What find_duplicates takes for the same: two directories, or two        *)
(* entries of the same length, one of them a regular file.                 *)
Same(a, b) ==
    /\ a # Absent /\ b # Absent
    /\ (a = Dir /\ b = Dir) \/ Size[a] = Size[b]

MaxOf(i, j) == IF i > j THEN i ELSE j
MinOf(i, j) == IF i > j THEN j ELSE i
Merge(g, i, j) == [g EXCEPT ![MaxOf(i, j)] = g[MinOf(i, j)]]

(* Mutant: the groups are numbered from one. *)
fresh_groups_from_one(where) ==
    [i \in Roots |-> IF i \in where THEN Cardinality({j \in where : j <= i}) ELSE NoGroup]

(* Every directory that has the node starts with a group of its own. *)
fresh_groups(where) ==
    [i \in Roots |-> IF i \in where THEN Cardinality({j \in where : j < i}) ELSE NoGroup]

(* The inner loop compares directory o with each one in order: both have   *)
(* the node, and it is the same in both.                                   *)
Compared(node, g, o, i) ==
    IF o # i /\ o \in node.path /\ i \in node.path /\ Same(At(o, node.rel), At(i, node.rel))
      THEN Merge(g, o, i) ELSE g

ComparedAll(node, g, o) ==
    LET inner[i \in 0..N] == IF i = 0 THEN g ELSE Compared(node, inner[i - 1], o, i) IN inner[N]

(* The outer loop does so for each directory in order. *)
find_duplicates(node) ==
    LET outer[o \in 0..N] == IF o = 0 THEN fresh_groups(node.path)
                                      ELSE ComparedAll(node, outer[o - 1], o)
    IN  outer[N]

AllSame(g) == \A i \in Roots : g[i] = g[1]

(* Mutant: the children are visited before the iterator leaves a node, and *)
(* the node is kept.                                                       *)
AdvancedKeeping(s) == Append(s, flat_data[Last(Last(s))].child)

(* DiffItemIterator::next: the last node on the stack is taken and its     *)
(* children are pushed.                                                    *)
Advanced(s) == Append(Append(Front(s), Front(Last(s))), flat_data[Last(Last(s))].child)

Trimmed(s) ==
    LET filled == {k \in DOMAIN s : s[k] # <<>>} IN
    IF filled = {} THEN <<>> ELSE SubSeq(s, 1, CHOOSE k \in filled : \A j \in filled : k >= j)

(* The next node is looked at.  It gets no line if it is the same          *)
(* everywhere and such nodes are excluded; unwrap() panics if the name of  *)
(* the root does not exist, or a name is not UTF-8.                        *)
Report ==
    /\ phase = "report" /\ Trimmed(stack) # <<>>
    /\ LET s == Trimmed(stack)
           n == Last(Last(s))
       IN  \E g \in {find_duplicates(flat_data[n])}, hide \in BOOLEAN :
           /\ hide = (Exclude /\ AllSame(g))
           /\ stack' = Advanced(s)
           /\ groups' = Append(groups, [node |-> n, group |-> g, hidden |-> hide])
           /\ phase' = CASE hide -> "report"
                         [] ~hide /\ (flat_data[n].rel \in NotUtf8 \/ (n = 1 /\ ~RootNamed)) -> "panic"
                         [] OTHER -> "write"
    /\ UNCHANGED <<fsVars, flat_data, remain_dirs, listVars>>

(* Its line is written: find_duplicates is called again, and a group       *)
(* without a color panics.                                                 *)
Write ==
    /\ phase = "write"
    /\ \E g \in {find_duplicates(flat_data[Last(groups).node])} :
           /\ groups' = [groups EXCEPT ![Len(groups)].group = g]
           /\ phase' = IF \E i \in Roots : g[i] >= Colors THEN "panic" ELSE "report"
    /\ UNCHANGED <<fsVars, flat_data, remain_dirs, listVars, stack>>

Finish ==
    /\ phase = "report" /\ Trimmed(stack) = <<>>
    /\ phase' = "done"
    /\ UNCHANGED <<fsVars, flat_data, remain_dirs, listVars, stack, groups>>

Run ==
    \/ PopNode \/ ReadDir \/ ReadDirFails \/ (\E p \in Paths : TakeEntry(p)) \/ EntryFails
    \/ EndNode \/ StartReport
    \/ Report \/ Write \/ Finish

Next == Change \/ Run

Spec     == Init /\ [][Next]_vars
FairSpec == Spec /\ WF_vars(Run)
-----------------------------------------------------------------------------
(* Types of the nodes, of the queue and of the report. *)
TypeOK ==
    /\ fs \in [Roots -> Trees] /\ changes \in 0..MaxChanges
    /\ \A n \in Nodes :
          /\ flat_data[n].parent \in {0} \union Nodes
          /\ Range(flat_data[n].child) \subseteq Nodes
          /\ flat_data[n].rel \in {<<>>} \union Paths
          /\ flat_data[n].path \in (SUBSET Roots) \ {{}}
    /\ Range(remain_dirs) \subseteq Nodes
    /\ curr \in {0} \union Nodes /\ sib \in 1..(N + 1) /\ pending \subseteq Paths
    /\ unread \subseteq Roots \X ({<<>>} \union Paths)
    /\ \A k \in DOMAIN groups : groups[k].node \in Nodes /\ groups[k].group \in [Roots -> {NoGroup} \union 0..(N - 1)]
    /\ phase \in {"walk", "report", "write", "done", "panic"}

(* However the directories change meanwhile, the nodes form a tree: each   *)
(* but the root is once a child of its parent, found later than it, one    *)
(* name longer, and no two nodes stand for the same path.                  *)
NodesFormTree ==
    /\ \A n \in Nodes \ {1} :
          LET p == flat_data[n].parent IN
          /\ p \in 1..(n - 1)
          /\ Cardinality({k \in DOMAIN flat_data[p].child : flat_data[p].child[k] = n}) = 1
          /\ Front(flat_data[n].rel) = flat_data[p].rel
    /\ \A n, m \in Nodes : n # m => flat_data[n].rel # flat_data[m].rel

(* A node is listed in every directory its parent was found in only: what  *)
(* exists somewhere had a parent there.                                    *)
FoundBelowParent ==
    \A n \in Nodes \ {1} : flat_data[n].path \subseteq flat_data[flat_data[n].parent].path

(* However the directories change meanwhile, the walk ends in one tree. *)
TreeOK == NodesFormTree /\ FoundBelowParent

(* p exists in directory i and every directory on the way could be read.   *)
Readable(i, p) == fs[i][p] # Absent /\ \A k \in 0..(Len(p) - 1) : <<i, SubSeq(p, 1, k)>> \notin unread

(* If nothing changed, the tree that is reported is the union of what      *)
(* could be read of the directories: what read_dir could not open lacks    *)
(* all that is below it, in that directory and in no other.                *)
DiffIsUnion ==
    phase \in {"report", "write", "done"} /\ changes = 0 =>
        /\ {flat_data[n].rel : n \in Nodes \ {1}} = {p \in Paths : \E i \in Roots : Readable(i, p)}
        /\ \A n \in Nodes \ {1} : flat_data[n].path = {i \in Roots : Readable(i, flat_data[n].rel)}

(* Every node is reported once and after its parent. *)
ReportedOnce ==
    /\ \A k, l \in DOMAIN groups : k # l => groups[k].node # groups[l].node
    /\ \A k \in DOMAIN groups : groups[k].node # 1 =>
          \E l \in 1..(k - 1) : groups[l].node = flat_data[groups[k].node].parent
    /\ phase = "done" => {groups[k].node : k \in DOMAIN groups} = Nodes

(* If nothing changed and no file is as long as a directory, two           *)
(* directories get the same group for a node exactly if it is a directory  *)
(* in both or a file of the same length in both, in whatever order the     *)
(* pairs are merged.                                                       *)
GroupsAreClasses ==
    changes = 0 =>
        \A k \in DOMAIN groups :
            LET rel == flat_data[groups[k].node].rel
                g   == groups[k].group
            IN  (\A i \in Roots : At(i, rel) \in Files => Size[At(i, rel)] # Size[Dir]) =>
                    \A i, j \in flat_data[groups[k].node].path :
                        (g[i] = g[j]) =
                            \/ At(i, rel) = Dir /\ At(j, rel) = Dir
                            \/ At(i, rel) # Dir /\ At(j, rel) # Dir /\ Size[At(i, rel)] = Size[At(j, rel)]

(* The program ends. *)
Ends == <>(phase \in {"done", "panic"})
=============================================================================
