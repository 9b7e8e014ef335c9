-------------------------- MODULE MultDirDiffProofs --------------------------
(***************************************************************************)
(* The walk of mult_dir_diff yields a tree, whatever the directories do    *)
(* meanwhile, for any number of directories and any set of paths, and the  *)
(* union of directories that stay as they are; each node of it is reported *)
(* once, after its parent; and find_duplicates yields the classes of equal *)
(* entries.                                                                *)
(***************************************************************************)
EXTENDS MultDirDiff, FiniteSetTheorems, WellFoundedInduction, TLAPS

NodeType  == [parent : Nat, child : Seq(Nat), rel : {<<>>} \union Paths, path : SUBSET Roots]
FoundType == [rel : Paths, path : SUBSET Roots]

(* Types of what the walk keeps; only the root has the empty path. *)
WalkTypes ==
    /\ flat_data \in Seq(NodeType) /\ Len(flat_data) >= 1
    /\ \A n \in Nodes : (flat_data[n].rel = <<>>) <=> (n = 1)
    /\ remain_dirs \in Seq(Nat) /\ \A k \in 1..Len(remain_dirs) : remain_dirs[k] \in Nodes
    /\ curr \in {0} \union Nodes
    /\ sib \in 1..(N + 1) /\ pending \subseteq Paths
    /\ found \in Seq(FoundType)

(* A node is put on the queue once, and has no children until it has been  *)
(* listed.                                                                 *)
Waiting ==
    /\ \A k, l \in 1..Len(remain_dirs) : remain_dirs[k] = remain_dirs[l] => k = l
    /\ \A k \in 1..Len(remain_dirs) : remain_dirs[k] # curr /\ flat_data[remain_dirs[k]].child = <<>>
    /\ curr # 0 => flat_data[curr].child = <<>>

(* What has been read of the node being listed: paths one name longer, in  *)
(* directories that have the node, each found once.                        *)
Listed ==
    /\ (pending # {} \/ found # <<>>) => curr # 0
    /\ pending # {} => sib \in flat_data[curr].path
    /\ \A p \in pending : Front(p) = flat_data[curr].rel
    /\ \A k \in 1..Len(found) :
          /\ Front(found[k].rel) = flat_data[curr].rel
          /\ found[k].path \subseteq flat_data[curr].path
    /\ \A k, l \in 1..Len(found) : found[k].rel = found[l].rel => k = l

(* n is once in the sequence s. *)
Once(s, n) == \E k \in 1..Len(s) : s[k] = n /\ \A j \in 1..Len(s) : s[j] = n => j = k

(* NodesFormTree without the cardinality, and FoundBelowParent. *)
Tree ==
    /\ \A n \in Nodes \ {1} :
          /\ flat_data[n].parent \in 1..(n - 1)
          /\ Once(flat_data[flat_data[n].parent].child, n)
          /\ Front(flat_data[n].rel) = flat_data[flat_data[n].parent].rel
          /\ flat_data[n].path \subseteq flat_data[flat_data[n].parent].path
    /\ \A n, m \in Nodes : flat_data[n].rel = flat_data[m].rel => n = m
    /\ \A p \in Nodes : \A j \in 1..Len(flat_data[p].child) :
          LET c == flat_data[p].child[j] IN c \in Nodes \ {1} /\ flat_data[c].parent = p

WalkInv == WalkTypes /\ Waiting /\ Listed /\ Tree
-----------------------------------------------------------------------------
LEMMA NodesInterval == ASSUME WalkTypes PROVE Nodes = 1..Len(flat_data) /\ Len(flat_data) \in Nat
BY DEF WalkTypes, Nodes

LEMMA OnceIsOne ==
    ASSUME NEW s \in Seq(Nat), NEW n, Once(s, n)
    PROVE  Cardinality({k \in DOMAIN s : s[k] = n}) = 1
<1>1. PICK k \in 1..Len(s) : s[k] = n /\ \A j \in 1..Len(s) : s[j] = n => j = k
  BY DEF Once
<1>2. {j \in DOMAIN s : s[j] = n} = {k}
  BY <1>1
<1> QED
  BY <1>2, FS_Singleton

(* What stands where in two sequences put together. *)
LEMMA Joined ==
    ASSUME NEW S, NEW s \in Seq(S), NEW t \in Seq(S), NEW u, u = s \o t
    PROVE  /\ u \in Seq(S) /\ Len(u) = Len(s) + Len(t)
           /\ \A i \in 1..Len(s) : u[i] = s[i]
           /\ \A k \in 1..Len(t) : u[Len(s) + k] = t[k]
<1>1. Len(s) \in Nat /\ Len(t) \in Nat /\ u \in Seq(S) /\ Len(u) = Len(s) + Len(t)
  OBVIOUS
<1>2. ASSUME NEW i \in 1..Len(s) PROVE u[i] = s[i]
  BY <1>1
<1>3. ASSUME NEW k \in 1..Len(t) PROVE u[Len(s) + k] = t[k]
  <2>1. Len(s) + k \in 1..(Len(s) + Len(t)) /\ ~(Len(s) + k <= Len(s)) /\ (Len(s) + k) - Len(s) = k
    BY <1>1
  <2> QED
    BY <1>1, <2>1
<1> QED
  BY <1>1, <1>2, <1>3

(* The inductive invariant is enough. *)
LEMMA WalkInvTree == ASSUME WalkInv PROVE TreeOK
<1>0. Nodes = 1..Len(flat_data) /\ Len(flat_data) \in Nat /\ WalkTypes
  BY NodesInterval DEF WalkInv
<1>1. ASSUME NEW n \in Nodes \ {1}
      PROVE  Cardinality({k \in DOMAIN flat_data[flat_data[n].parent].child :
                            flat_data[flat_data[n].parent].child[k] = n}) = 1
  <2>1. flat_data[n].parent \in Nodes /\ Once(flat_data[flat_data[n].parent].child, n)
    BY <1>0 DEF WalkInv, Tree
  <2>2. flat_data[flat_data[n].parent] \in NodeType
    BY <1>0, <2>1 DEF WalkTypes
  <2>3. flat_data[flat_data[n].parent].child \in Seq(Nat)
    BY <2>2 DEF NodeType
  <2> QED
    BY <2>1, <2>3, OnceIsOne
<1> QED
  BY <1>1 DEF TreeOK, NodesFormTree, FoundBelowParent, WalkInv, Tree
-----------------------------------------------------------------------------
LEMMA WalkInit == Init => WalkInv
<1> SUFFICES ASSUME Init PROVE WalkInv
  OBVIOUS
<1>1. /\ flat_data = << Node(0, <<>>, Roots) >> /\ remain_dirs = <<1>>
      /\ curr = 0 /\ sib = 1 /\ pending = {} /\ found = <<>>
  BY DEF Init
<1>2. Node(0, <<>>, Roots) \in NodeType /\ Node(0, <<>>, Roots).rel = <<>>
        /\ Node(0, <<>>, Roots).child = <<>>
  BY DEF Node, NodeType
<1>3. flat_data \in Seq(NodeType) /\ Len(flat_data) = 1 /\ Nodes = {1}
        /\ flat_data[1] = Node(0, <<>>, Roots)
  BY <1>1, <1>2 DEF Nodes
<1>4. remain_dirs \in Seq(Nat) /\ Len(remain_dirs) = 1 /\ remain_dirs[1] = 1
  BY <1>1
<1>5. WalkTypes
  BY <1>1, <1>2, <1>3, <1>4, CountAssumption DEF WalkTypes
<1> QED
  BY <1>1, <1>2, <1>3, <1>4, <1>5 DEF WalkInv, Waiting, Listed, Tree

LEMMA PopNodeKeeps == ASSUME WalkInv, PopNode PROVE WalkInv'
<1>1. /\ flat_data' = flat_data /\ Nodes' = Nodes
      /\ curr = 0 /\ remain_dirs # <<>>
      /\ curr' = Head(remain_dirs) /\ remain_dirs' = Tail(remain_dirs)
      /\ sib' = 1 /\ pending' = {} /\ found' = <<>>
  BY DEF PopNode, Nodes
<1>2. remain_dirs \in Seq(Nat) /\ Len(remain_dirs) \in Nat /\ curr' = remain_dirs[1]
        /\ remain_dirs' \in Seq(Nat) /\ Len(remain_dirs') = Len(remain_dirs) - 1
        /\ \A k \in 1..Len(remain_dirs') : remain_dirs'[k] = remain_dirs[k + 1]
  BY <1>1 DEF WalkInv, WalkTypes
<1>3. curr' \in Nodes /\ Nodes = 1..Len(flat_data)
  BY <1>1, <1>2, NodesInterval DEF WalkInv, WalkTypes
<1>4. WalkTypes'
  BY <1>1, <1>2, <1>3, CountAssumption DEF WalkInv, WalkTypes
<1>5. Waiting'
  BY <1>1, <1>2, <1>3 DEF WalkInv, WalkTypes, Waiting
<1>6. Listed'
  BY <1>1, <1>3 DEF Listed
<1>7. Tree'
  BY <1>1 DEF WalkInv, Tree
<1> QED
  BY <1>4, <1>5, <1>6, <1>7 DEF WalkInv

LEMMA ReadDirKeeps == ASSUME WalkInv, ReadDir PROVE WalkInv'
<1> DEFINE rel == flat_data[curr].rel
           isDir == sib \in flat_data[curr].path /\ At(sib, rel) = Dir
           names == {p \in Paths : Front(p) = rel /\ fs[sib][p] # Absent}
<1>1. /\ flat_data' = flat_data /\ Nodes' = Nodes /\ curr' = curr /\ found' = found
      /\ remain_dirs' = remain_dirs
      /\ curr # 0 /\ sib <= N
      /\ pending' = (IF isDir THEN names ELSE {})
      /\ sib' = (IF isDir /\ names # {} THEN sib ELSE sib + 1)
  BY DEF ReadDir, Nodes
<1>2. pending' \subseteq Paths /\ \A p \in pending' : Front(p) = flat_data[curr].rel
  BY <1>1
<1>3. pending' # {} => sib' = sib /\ sib \in flat_data[curr].path
  BY <1>1
<1>4. sib' \in 1..(N + 1)
  BY <1>1, CountAssumption DEF WalkInv, WalkTypes
<1> QED
  BY <1>1, <1>2, <1>3, <1>4 DEF WalkInv, WalkTypes, Waiting, Listed, Tree

LEMMA ReadDirFailsKeeps == ASSUME WalkInv, ReadDirFails PROVE WalkInv'
<1>1. /\ UNCHANGED <<flat_data, remain_dirs, curr, pending, found>> /\ Nodes' = Nodes
      /\ sib <= N /\ sib' = sib + 1 /\ pending = {}
  BY DEF ReadDirFails, Nodes
<1>2. sib' \in 1..(N + 1)
  BY <1>1, CountAssumption DEF WalkInv, WalkTypes
<1> QED
  BY <1>1, <1>2 DEF WalkInv, WalkTypes, Waiting, Listed, Tree

LEMMA TakeEntryKeeps == ASSUME WalkInv, NEW p \in Paths, TakeEntry(p) PROVE WalkInv'
<1>1. /\ flat_data' = flat_data /\ Nodes' = Nodes /\ curr' = curr /\ remain_dirs' = remain_dirs
      /\ p \in pending /\ pending' = pending \ {p}
      /\ sib' = (IF pending = {p} THEN sib + 1 ELSE sib)
  BY DEF TakeEntry, Nodes
<1>2. /\ curr \in Nodes /\ sib \in flat_data[curr].path /\ Front(p) = flat_data[curr].rel
      /\ found \in Seq(FoundType) /\ Len(found) \in Nat /\ sib \in Roots
  <2>1. curr \in Nodes /\ sib \in flat_data[curr].path /\ Front(p) = flat_data[curr].rel
          /\ found \in Seq(FoundType) /\ Len(found) \in Nat
    BY <1>1 DEF WalkInv, WalkTypes, Listed
  <2>2. flat_data[curr] \in NodeType
    BY <2>1, NodesInterval DEF WalkInv, WalkTypes
  <2> QED
    BY <2>1, <2>2 DEF NodeType
<1>3. sib' \in 1..(N + 1) /\ pending' \subseteq Paths /\ (pending' # {} => sib' = sib)
  BY <1>1, <1>2, CountAssumption DEF WalkInv, WalkTypes, Roots
<1>5. CASE /\ \E k \in DOMAIN found : found[k].rel = p
           /\ found' = [k \in DOMAIN found |-> IF found[k].rel = p
                          THEN [found[k] EXCEPT !.path = @ \union {sib}] ELSE found[k]]
  <2>1. \A k \in 1..Len(found) : found[k] \in FoundType
    BY <1>2
  <2>2. DOMAIN found' = 1..Len(found)
          /\ \A k \in 1..Len(found) : found'[k] \in FoundType /\ found'[k].rel = found[k].rel
                /\ found'[k].path \subseteq found[k].path \union {sib}
    BY <1>2, <1>5, <2>1 DEF FoundType
  <2>3. found' \in Seq(FoundType) /\ Len(found') = Len(found)
    <3>1. found' = [k \in 1..Len(found) |-> found'[k]]
      BY <1>2, <1>5
    <3> QED
      BY <1>2, <2>2, <3>1
  <2>4. found # <<>>
    BY <1>2, <1>5
  <2>5. Listed'
    BY <1>1, <1>2, <1>3, <2>2, <2>3, <2>4 DEF WalkInv, WalkTypes, Listed
  <2> QED
    BY <1>1, <1>3, <2>3, <2>5 DEF WalkInv, WalkTypes, Waiting, Tree
<1>6. CASE /\ ~ \E k \in DOMAIN found : found[k].rel = p
           /\ found' = Append(found, [rel |-> p, path |-> {sib}])
  <2>1. [rel |-> p, path |-> {sib}] \in FoundType
    BY <1>2 DEF FoundType
  <2>2. /\ found' \in Seq(FoundType) /\ Len(found') = Len(found) + 1
        /\ \A k \in 1..Len(found) : found'[k] = found[k]
        /\ found'[Len(found) + 1].rel = p /\ found'[Len(found) + 1].path = {sib}
    BY <1>2, <1>6, <2>1
  <2>3. \A k \in 1..Len(found') : k = Len(found) + 1 \/ k \in 1..Len(found)
    BY <1>2, <2>2
  <2>4. \A k \in 1..Len(found) : found[k].rel # p
    BY <1>2, <1>6
  <2>5. Listed'
    <3>1. \A k \in 1..Len(found') :
            /\ Front(found'[k].rel) = flat_data[curr].rel
            /\ found'[k].path \subseteq flat_data[curr].path
      BY <1>2, <2>2, <2>3 DEF WalkInv, Listed
    <3>2. \A k, l \in 1..Len(found') : found'[k].rel = found'[l].rel => k = l
      BY <1>2, <2>2, <2>3, <2>4 DEF WalkInv, Listed
    <3>3. /\ \A q \in pending' : Front(q) = flat_data[curr].rel
          /\ pending' # {} => sib' \in flat_data[curr].path
          /\ curr # 0
      BY <1>1, <1>2, <1>3, NodesInterval DEF WalkInv, Listed
    <3> QED
      BY <1>1, <3>1, <3>2, <3>3 DEF Listed
  <2> QED
    BY <1>1, <1>3, <2>2, <2>5 DEF WalkInv, WalkTypes, Waiting, Tree
<1> QED
  BY <1>5, <1>6 DEF TakeEntry
-----------------------------------------------------------------------------
(* No node is called like an entry just found: its parent would be the     *)
(* node being listed, which has no children yet.                           *)
LEMMA FoundIsNew ==
    ASSUME WalkInv, NEW k \in 1..Len(found), NEW n \in Nodes
    PROVE  flat_data[n].rel # found[k].rel
<1> SUFFICES ASSUME flat_data[n].rel = found[k].rel PROVE FALSE
  OBVIOUS
<1>1. /\ Nodes = 1..Len(flat_data) /\ Len(flat_data) \in Nat
      /\ found[k] \in FoundType /\ Front(found[k].rel) = flat_data[curr].rel
      /\ curr \in Nodes /\ flat_data[curr].child = <<>>
  BY NodesInterval DEF WalkInv, WalkTypes, Listed, Waiting
<1>2. n # 1
  BY <1>1, PathsAssumption DEF FoundType, WalkInv, WalkTypes
<1>3. /\ flat_data[n].parent \in Nodes /\ Once(flat_data[flat_data[n].parent].child, n)
      /\ flat_data[flat_data[n].parent].rel = flat_data[curr].rel
  BY <1>1, <1>2 DEF WalkInv, Tree
<1>4. flat_data[n].parent = curr
  BY <1>1, <1>3 DEF WalkInv, Tree
<1> QED
  BY <1>1, <1>3, <1>4 DEF Once

(* What EndNode does with the nodes and the queue: end is the number of    *)
(* nodes before, ids the numbers of the children.                          *)
EndNodeStep(end, ids) ==
    /\ curr # 0 /\ pending = {} /\ pending' = {} /\ curr' = 0 /\ sib' = 1 /\ found' = <<>>
    /\ Nodes = 1..end /\ end \in Nat /\ curr \in Nodes /\ Len(found) \in Nat
    /\ \A k \in 1..Len(found) : found[k] \in FoundType
    /\ ids \in Seq(Nat) /\ Len(ids) = Len(found) /\ \A k \in 1..Len(found) : ids[k] = end + k
    /\ flat_data' \in Seq(NodeType) /\ Len(flat_data') = end + Len(found)
    /\ Nodes' = 1..(end + Len(found))
    /\ \A n \in 1..end :
          /\ flat_data'[n].rel = flat_data[n].rel /\ flat_data'[n].path = flat_data[n].path
          /\ flat_data'[n].parent = flat_data[n].parent
          /\ flat_data'[n].child = (IF n = curr THEN ids ELSE flat_data[n].child)
    /\ \A k \in 1..Len(found) :
          /\ flat_data'[end + k].rel = found[k].rel /\ flat_data'[end + k].path = found[k].path
          /\ flat_data'[end + k].parent = curr /\ flat_data'[end + k].child = <<>>
    /\ \A n \in Nodes' : n \in 1..end \/ \E k \in 1..Len(found) : n = end + k
    /\ remain_dirs' \in Seq(Nat) /\ Len(remain_dirs') = Len(remain_dirs) + Len(found)
    /\ Len(remain_dirs) \in Nat
    /\ \A k \in 1..Len(remain_dirs) : remain_dirs'[k] = remain_dirs[k] /\ remain_dirs[k] \in 1..end
    /\ \A k \in 1..Len(found) : remain_dirs'[Len(remain_dirs) + k] = end + k
    /\ \A j \in 1..Len(remain_dirs') :
          \/ j \in 1..Len(remain_dirs) /\ remain_dirs'[j] = remain_dirs[j] /\ remain_dirs[j] \in 1..end
          \/ j - Len(remain_dirs) \in 1..Len(found) /\ remain_dirs'[j] = end + (j - Len(remain_dirs))

LEMMA EndNodeFacts ==
    ASSUME WalkInv, EndNode
    PROVE  \E ids \in Seq(Nat) : EndNodeStep(Len(flat_data), ids)
<1> DEFINE end == Len(flat_data)
           new == [k \in DOMAIN found |-> Node(curr, found[k].rel, found[k].path)]
           ids == [k \in DOMAIN found |-> end + k]
           old == [flat_data EXCEPT ![curr].child = ids]
<1>1. /\ curr # 0 /\ pending = {} /\ pending' = {} /\ curr' = 0 /\ sib' = 1 /\ found' = <<>>
      /\ flat_data' = old \o new
      /\ remain_dirs' = remain_dirs \o ids
  BY DEF EndNode
<1>2. /\ Nodes = 1..end /\ end \in Nat /\ curr \in Nodes
      /\ flat_data \in Seq(NodeType) /\ \A n \in 1..end : flat_data[n] \in NodeType
      /\ found \in Seq(FoundType) /\ DOMAIN found = 1..Len(found) /\ Len(found) \in Nat
      /\ \A k \in 1..Len(found) : found[k] \in FoundType
  BY <1>1, NodesInterval DEF WalkInv, WalkTypes
<1>3. ids \in Seq(Nat) /\ Len(ids) = Len(found) /\ \A k \in 1..Len(found) : ids[k] = end + k
  <2>1. ids = [k \in 1..Len(found) |-> end + k] /\ \A k \in 1..Len(found) : end + k \in Nat
    BY <1>2
  <2> QED
    BY <1>2, <2>1
<1>4. new \in Seq(NodeType) /\ Len(new) = Len(found)
        /\ \A k \in 1..Len(found) : new[k] = Node(curr, found[k].rel, found[k].path)
  <2>1. new = [k \in 1..Len(found) |-> Node(curr, found[k].rel, found[k].path)]
          /\ \A k \in 1..Len(found) : Node(curr, found[k].rel, found[k].path) \in NodeType
    BY <1>2 DEF Node, NodeType, FoundType
  <2> QED
    BY <1>2, <2>1
<1> HIDE DEF new, ids
<1>5. old \in Seq(NodeType) /\ Len(old) = end
        /\ \A n \in 1..end : old[n] = (IF n = curr THEN [flat_data[curr] EXCEPT !.child = ids]
                                                   ELSE flat_data[n])
  <2>1. old = [n \in 1..end |-> IF n = curr THEN [flat_data[curr] EXCEPT !.child = ids]
                                            ELSE flat_data[n]]
    BY <1>2
  <2>2. [flat_data[curr] EXCEPT !.child = ids] \in NodeType
    BY <1>2, <1>3 DEF NodeType
  <2> QED
    BY <1>2, <2>1, <2>2
<1> HIDE DEF old
<1>6. /\ flat_data' \in Seq(NodeType) /\ Len(flat_data') = end + Len(found)
      /\ Nodes' = 1..(end + Len(found))
      /\ \A n \in 1..end : flat_data'[n] = old[n]
      /\ \A k \in 1..Len(found) : flat_data'[end + k] = Node(curr, found[k].rel, found[k].path)
  <2>1. old \in Seq(NodeType) /\ new \in Seq(NodeType) /\ flat_data' = old \o new
    BY <1>1, <1>4, <1>5
  <2>2. /\ flat_data' \in Seq(NodeType) /\ Len(flat_data') = Len(old) + Len(new)
        /\ \A i \in 1..Len(old) : flat_data'[i] = old[i]
        /\ \A k \in 1..Len(new) : flat_data'[Len(old) + k] = new[k]
    BY <2>1, Joined, SMTT(60)
  <2>3. /\ flat_data' \in Seq(NodeType) /\ Len(flat_data') = end + Len(found)
        /\ \A n \in 1..end : flat_data'[n] = old[n]
        /\ \A k \in 1..Len(found) : flat_data'[end + k] = Node(curr, found[k].rel, found[k].path)
    BY <1>4, <1>5, <2>2
  <2> QED
    BY <2>3 DEF Nodes
(* The nodes there were keep everything but the children of curr. *)
<1>7. \A n \in 1..end :
        /\ flat_data'[n].rel = flat_data[n].rel /\ flat_data'[n].path = flat_data[n].path
        /\ flat_data'[n].parent = flat_data[n].parent
        /\ flat_data'[n].child = (IF n = curr THEN ids ELSE flat_data[n].child)
  BY <1>2, <1>5, <1>6 DEF NodeType
<1>8. \A k \in 1..Len(found) :
        /\ flat_data'[end + k].rel = found[k].rel /\ flat_data'[end + k].path = found[k].path
        /\ flat_data'[end + k].parent = curr /\ flat_data'[end + k].child = <<>>
  <2> TAKE k \in 1..Len(found)
  <2>1. flat_data'[end + k] = Node(curr, found[k].rel, found[k].path)
    BY <1>6
  <2> QED
    BY <2>1 DEF Node
<1>9. \A n \in Nodes' : n \in 1..end \/ \E k \in 1..Len(found) : n = end + k
  <2> TAKE n \in Nodes'
  <2>1. n \in 1..end \/ (n - end \in 1..Len(found) /\ n = end + (n - end))
    BY <1>2, <1>6
  <2> QED
    BY <2>1
<1>10. /\ remain_dirs' \in Seq(Nat) /\ Len(remain_dirs') = Len(remain_dirs) + Len(found)
       /\ Len(remain_dirs) \in Nat
       /\ \A k \in 1..Len(remain_dirs) : remain_dirs'[k] = remain_dirs[k] /\ remain_dirs[k] \in 1..end
       /\ \A k \in 1..Len(found) : remain_dirs'[Len(remain_dirs) + k] = end + k
  <2>1. remain_dirs \in Seq(Nat) /\ \A k \in 1..Len(remain_dirs) : remain_dirs[k] \in 1..end
    BY <1>2 DEF WalkInv, WalkTypes
  <2>2. /\ remain_dirs' \in Seq(Nat) /\ Len(remain_dirs') = Len(remain_dirs) + Len(ids)
        /\ \A i \in 1..Len(remain_dirs) : remain_dirs'[i] = remain_dirs[i]
        /\ \A k \in 1..Len(ids) : remain_dirs'[Len(remain_dirs) + k] = ids[k]
    <3>1. remain_dirs \in Seq(Nat) /\ ids \in Seq(Nat) /\ remain_dirs' = remain_dirs \o ids
      BY <1>1, <1>3, <2>1
    <3> QED
      BY <3>1, Joined, SMTT(60)
  <2>3. Len(remain_dirs) \in Nat
    BY <2>1
  <2> QED
    BY <1>3, <2>1, <2>2, <2>3
<1>11. \A j \in 1..Len(remain_dirs') :
         \/ j \in 1..Len(remain_dirs) /\ remain_dirs'[j] = remain_dirs[j] /\ remain_dirs[j] \in 1..end
         \/ j - Len(remain_dirs) \in 1..Len(found) /\ remain_dirs'[j] = end + (j - Len(remain_dirs))
  <2> TAKE j \in 1..Len(remain_dirs')
  <2>1. j \in 1..Len(remain_dirs) \/ (j - Len(remain_dirs) \in 1..Len(found)
          /\ Len(remain_dirs) + (j - Len(remain_dirs)) = j)
    BY <1>2, <1>10
  <2> QED
    BY <1>10, <2>1
<1> HIDE DEF end
<1>12. EndNodeStep(end, ids)
  BY <1>1, <1>2, <1>3, <1>6, <1>7, <1>8, <1>9, <1>10, <1>11 DEF EndNodeStep
<1> QED
  BY <1>3, <1>12 DEF end

LEMMA EndNodeKeeps == ASSUME WalkInv, EndNode PROVE WalkInv'
<1> DEFINE end == Len(flat_data)
<1>0. PICK ids \in Seq(Nat) : EndNodeStep(end, ids)
  BY EndNodeFacts
<1>1. /\ curr # 0 /\ pending = {} /\ pending' = {} /\ curr' = 0 /\ sib' = 1 /\ found' = <<>>
  BY <1>0 DEF EndNodeStep
<1>2. /\ Nodes = 1..end /\ end \in Nat /\ curr \in Nodes
      /\ flat_data \in Seq(NodeType) /\ \A n \in 1..end : flat_data[n] \in NodeType
      /\ found \in Seq(FoundType) /\ DOMAIN found = 1..Len(found) /\ Len(found) \in Nat
      /\ \A k \in 1..Len(found) : found[k] \in FoundType
  BY <1>1, NodesInterval DEF WalkInv, WalkTypes
<1>e. end >= 1
  BY DEF WalkInv, WalkTypes
<1>3. ids \in Seq(Nat) /\ Len(ids) = Len(found) /\ \A k \in 1..Len(found) : ids[k] = end + k
  BY <1>0 DEF EndNodeStep
<1> HIDE DEF end
<1>6. /\ flat_data' \in Seq(NodeType) /\ Len(flat_data') = end + Len(found)
      /\ Nodes' = 1..(end + Len(found))
  BY <1>0, Zenon DEF EndNodeStep
<1>7. \A n \in 1..end :
        /\ flat_data'[n].rel = flat_data[n].rel /\ flat_data'[n].path = flat_data[n].path
        /\ flat_data'[n].parent = flat_data[n].parent
        /\ flat_data'[n].child = (IF n = curr THEN ids ELSE flat_data[n].child)
  BY <1>0, Zenon DEF EndNodeStep
<1>8. \A k \in 1..Len(found) :
        /\ flat_data'[end + k].rel = found[k].rel /\ flat_data'[end + k].path = found[k].path
        /\ flat_data'[end + k].parent = curr /\ flat_data'[end + k].child = <<>>
  BY <1>0, Zenon DEF EndNodeStep
<1>9. \A n \in Nodes' : n \in 1..end \/ \E k \in 1..Len(found) : n = end + k
  BY <1>0, Zenon DEF EndNodeStep
<1>10. /\ remain_dirs' \in Seq(Nat) /\ Len(remain_dirs') = Len(remain_dirs) + Len(found)
       /\ Len(remain_dirs) \in Nat
       /\ \A k \in 1..Len(remain_dirs) : remain_dirs'[k] = remain_dirs[k] /\ remain_dirs[k] \in 1..end
       /\ \A k \in 1..Len(found) : remain_dirs'[Len(remain_dirs) + k] = end + k
  BY <1>0, Zenon DEF EndNodeStep
<1>11. \A j \in 1..Len(remain_dirs') :
         \/ j \in 1..Len(remain_dirs) /\ remain_dirs'[j] = remain_dirs[j] /\ remain_dirs[j] \in 1..end
         \/ j - Len(remain_dirs) \in 1..Len(found) /\ remain_dirs'[j] = end + (j - Len(remain_dirs))
  BY <1>0, Zenon DEF EndNodeStep
<1>12. WalkTypes'
  <2>1. \A n \in Nodes' : (flat_data'[n].rel = <<>>) <=> (n = 1)
    <3>1. ASSUME NEW n \in 1..end PROVE (flat_data'[n].rel = <<>>) <=> (n = 1)
      BY <1>2, <1>7 DEF WalkInv, WalkTypes
    <3>2. ASSUME NEW k \in 1..Len(found) PROVE flat_data'[end + k].rel # <<>> /\ end + k # 1
      <4>1. found[k].rel \in Paths /\ flat_data'[end + k].rel = found[k].rel
        <5>1. found[k] \in FoundType
          BY <1>2
        <5> QED
          BY <1>8, <5>1 DEF FoundType
      <4>2. end >= 1
        BY <1>e
      <4>3. end + k # 1
        BY <1>2, <4>2
      <4>4. found[k].rel # <<>>
        BY <4>1, PathsAssumption
      <4> QED
        BY <4>1, <4>3, <4>4
    <3> QED
      BY <1>9, <3>1, <3>2
  <2>2. \A j \in 1..Len(remain_dirs') : remain_dirs'[j] \in Nodes'
    BY <1>2, <1>6, <1>11
  <2>3. Len(flat_data') >= 1 /\ 1 \in 1..(N + 1)
    BY <1>2, <1>6, CountAssumption DEF WalkInv, WalkTypes
  <2>4. curr' \in {0} /\ sib' = 1 /\ pending' \subseteq Paths /\ found' \in Seq(FoundType)
    BY <1>1
  <2> QED
    BY <1>6, <1>10, <2>1, <2>2, <2>3, <2>4 DEF WalkTypes
<1>13. Waiting'
  <2>1. \A k, l \in 1..Len(remain_dirs') : remain_dirs'[k] = remain_dirs'[l] => k = l
    <3> TAKE k, l \in 1..Len(remain_dirs')
    <3>1. \A i, j \in 1..Len(remain_dirs) : remain_dirs[i] = remain_dirs[j] => i = j
      BY DEF WalkInv, Waiting
    <3>2. \A j \in 1..Len(remain_dirs') : j \in Nat
      BY <1>10
    <3>3. CASE k \in 1..Len(remain_dirs)
      <4>1. remain_dirs'[k] \in 1..end /\ remain_dirs'[k] = remain_dirs[k]
        BY <1>10, <3>3, Zenon
      <4> QED
        BY <1>2, <1>11, <3>1, <3>3, <4>1
    <3>4. CASE k \notin 1..Len(remain_dirs)
      <4>1. remain_dirs'[k] = end + (k - Len(remain_dirs)) /\ k - Len(remain_dirs) \in 1..Len(found)
        BY <1>11, <3>4
      <4>2. ASSUME l \in 1..Len(remain_dirs) PROVE remain_dirs'[l] # remain_dirs'[k]
        <5>1. remain_dirs'[l] \in 1..end
          BY <1>10, <4>2, Zenon
        <5>2. end + (k - Len(remain_dirs)) \notin 1..end
          BY <1>2, <1>10, <4>1
        <5> QED
          BY <4>1, <5>1, <5>2
      <4>3. l \notin 1..Len(remain_dirs) => remain_dirs'[l] = end + (l - Len(remain_dirs))
        BY <1>11
      <4> QED
        BY <1>2, <1>10, <3>2, <4>1, <4>2, <4>3
    <3> QED
      BY <3>3, <3>4
  <2>2. ASSUME NEW j \in 1..Len(remain_dirs')
        PROVE  remain_dirs'[j] # 0 /\ flat_data'[remain_dirs'[j]].child = <<>>
    <3>1. CASE j \in 1..Len(remain_dirs) /\ remain_dirs'[j] = remain_dirs[j] /\ remain_dirs[j] \in 1..end
      BY <1>7, <3>1 DEF WalkInv, Waiting
    <3>2. CASE j - Len(remain_dirs) \in 1..Len(found)
               /\ remain_dirs'[j] = end + (j - Len(remain_dirs))
      BY <1>2, <1>8, <3>2
    <3> QED
      BY <1>11, <3>1, <3>2
  <2> QED
    BY <1>1, <2>1, <2>2 DEF Waiting
<1>14. Listed'
  BY <1>1 DEF Listed
<1>15. Tree'
  <2> DEFINE BelowParent(n) ==
        /\ flat_data'[n].parent \in 1..(n - 1)
        /\ Once(flat_data'[flat_data'[n].parent].child, n)
        /\ Front(flat_data'[n].rel) = flat_data'[flat_data'[n].parent].rel
        /\ flat_data'[n].path \subseteq flat_data'[flat_data'[n].parent].path
  <2>1. ASSUME NEW n \in 1..end, n # 1
        PROVE  BelowParent(n)
    <3>1. /\ flat_data[n].parent \in 1..(n - 1)
          /\ Once(flat_data[flat_data[n].parent].child, n)
          /\ Front(flat_data[n].rel) = flat_data[flat_data[n].parent].rel
          /\ flat_data[n].path \subseteq flat_data[flat_data[n].parent].path
      BY <1>2, <2>1 DEF WalkInv, Tree
    <3>2. flat_data[n].parent # curr
      BY <1>1, <3>1 DEF WalkInv, Waiting, Once
    <3>3. flat_data[n].parent \in 1..end /\ flat_data'[n].parent = flat_data[n].parent
      BY <1>2, <1>7, <3>1
    <3> QED
      BY <1>7, <3>1, <3>2, <3>3
  <2>2. ASSUME NEW k \in 1..Len(found)
        PROVE  BelowParent(end + k)
    <3>1. flat_data'[curr].child = ids /\ flat_data'[end + k].parent = curr
      BY <1>2, <1>7, <1>8
    <3>2. Once(ids, end + k)
      BY <1>2, <1>3 DEF Once
    <3>3. flat_data'[curr].rel = flat_data[curr].rel /\ flat_data'[curr].path = flat_data[curr].path
      BY <1>2, <1>7
    <3>4. Front(found[k].rel) = flat_data[curr].rel /\ found[k].path \subseteq flat_data[curr].path
      BY DEF WalkInv, Listed
    <3> QED
      BY <1>2, <1>8, <3>1, <3>2, <3>3, <3>4
  <2>3. ASSUME NEW n \in Nodes', NEW m \in Nodes', flat_data'[n].rel = flat_data'[m].rel
        PROVE  n = m
    <3>1. \A k \in 1..Len(found), i \in 1..end : flat_data'[i].rel # found[k].rel
      BY <1>2, <1>7, FoundIsNew
    <3>2. \A k, l \in 1..Len(found) : found[k].rel = found[l].rel => k = l
      BY DEF WalkInv, Listed
    <3>3. \A i, j \in 1..end : flat_data'[i].rel = flat_data'[j].rel => i = j
      BY <1>2, <1>7 DEF WalkInv, Tree
    <3>4. CASE n \in 1..end /\ m \in 1..end
      BY <2>3, <3>3, <3>4
    <3>5. ASSUME NEW k \in 1..Len(found), n = end + k PROVE n = m
      <4>1. flat_data'[m].rel = found[k].rel
        BY <1>8, <2>3, <3>5
      <4>2. PICK l \in 1..Len(found) : m = end + l
        BY <1>9, <3>1, <4>1
      <4>3. found[l].rel = found[k].rel
        BY <1>8, <4>1, <4>2
      <4> QED
        BY <3>2, <3>5, <4>2, <4>3
    <3>6. ASSUME NEW k \in 1..Len(found), m = end + k PROVE n \notin 1..end
      BY <1>8, <2>3, <3>1, <3>6
    <3> QED
      BY <1>9, <3>4, <3>5, <3>6
  <2>4. ASSUME NEW p \in 1..end, p # curr, NEW j \in 1..Len(flat_data'[p].child)
        PROVE  flat_data'[p].child[j] \in Nodes' \ {1}
                 /\ flat_data'[flat_data'[p].child[j]].parent = p
    <3>1. flat_data'[p].child = flat_data[p].child
      BY <1>7, <2>4
    <3>2. flat_data[p].child[j] \in (1..end) \ {1} /\ flat_data[flat_data[p].child[j]].parent = p
      BY <1>2, <2>4, <3>1 DEF WalkInv, Tree
    <3> QED
      BY <1>2, <1>6, <1>7, <3>1, <3>2
  <2>5. ASSUME NEW j \in 1..Len(flat_data'[curr].child)
        PROVE  flat_data'[curr].child[j] \in Nodes' \ {1}
                 /\ flat_data'[flat_data'[curr].child[j]].parent = curr
    <3>1. flat_data'[curr].child = ids
      BY <1>2, <1>7
    <3>2. j \in 1..Len(found) /\ ids[j] = end + j
      BY <1>3, <3>1
    <3>3. end + j \in Nodes' /\ end + j # 1
      BY <1>2, <1>e, <1>6, <3>2
    <3> QED
      BY <1>8, <3>1, <3>2, <3>3
  <2>6. ASSUME NEW k \in 1..Len(found) PROVE flat_data'[end + k].child = <<>>
    BY <1>8
  <2>7. \A p \in Nodes' : \A j \in 1..Len(flat_data'[p].child) :
          flat_data'[p].child[j] \in Nodes' \ {1} /\ flat_data'[flat_data'[p].child[j]].parent = p
    <3>1. ASSUME NEW k \in 1..Len(found), NEW j \in 1..Len(flat_data'[end + k].child) PROVE FALSE
      BY <2>6
    <3> QED
      BY <1>9, <2>4, <2>5, <3>1
  <2>8. \A n \in Nodes' \ {1} : BelowParent(n)
    <3> HIDE DEF BelowParent
    <3> QED
      BY <1>9, <2>1, <2>2
  <2> QED
    BY <2>3, <2>7, <2>8 DEF Tree
<1> QED
  BY <1>12, <1>13, <1>14, <1>15 DEF WalkInv

(* The reporter reads the tree and does not change it. *)
LEMMA OthersKeep ==
    ASSUME WalkInv,
           Change \/ EntryFails \/ StartReport \/ Report \/ Write \/ Finish \/ UNCHANGED vars
    PROVE  WalkInv'
<1>1. UNCHANGED <<flat_data, remain_dirs, curr, sib, pending, found>>
  BY DEF Change, EntryFails, StartReport, Report, Write, Finish, vars, listVars
<1>2. Nodes' = Nodes
  BY <1>1 DEF Nodes
<1>3. WalkTypes'
  BY <1>1, <1>2 DEF WalkInv, WalkTypes
<1>4. Waiting' /\ Listed'
  BY <1>1 DEF WalkInv, Waiting, Listed
<1>5. Tree'
  BY <1>1, <1>2 DEF WalkInv, Tree
<1> QED
  BY <1>3, <1>4, <1>5 DEF WalkInv

LEMMA WalkStep == WalkInv /\ [Next]_vars => WalkInv'
<1> SUFFICES ASSUME WalkInv, [Next]_vars PROVE WalkInv'
  OBVIOUS
<1> QED
  BY PopNodeKeeps, ReadDirKeeps, ReadDirFailsKeeps, TakeEntryKeeps, EndNodeKeeps, OthersKeep
  DEF Next, Run

(* Whatever the directories do between two calls of the walk, its nodes    *)
(* form a tree: each but the root is once a child of its parent, no two    *)
(* stand for the same path, and none is listed where its parent was not.   *)
THEOREM TreeAlwaysOK == Spec => []TreeOK
<1>1. Spec => []WalkInv
  BY WalkInit, WalkStep, PTL DEF Spec
<1> QED
  BY <1>1, WalkInvTree, PTL
-----------------------------------------------------------------------------
(* The report: s is what DiffItemIterator has open, g what was reported.   *)
OnStack(s, n)  == \E k \in 1..Len(s) : \E j \in 1..Len(s[k]) : s[k][j] = n
Reported(g, n) == \E k \in 1..Len(g) : g[k].node = n

(* Whatever find_duplicates returns: its values are of no interest here.   *)
Row(S) == [node : Nat, group : S, hidden : BOOLEAN]
IsReport(g) == \E S : g \in Seq(Row(S))

ReportTypes ==
    /\ IsReport(groups) /\ stack \in Seq(Seq(Nat))
    /\ phase = "walk" => groups = <<>>
    /\ phase = "write" => groups # <<>>

(* ReportedOnce, but that nothing is left out at the end. *)
Order ==
    /\ \A k, l \in 1..Len(groups) : groups[k].node = groups[l].node => k = l
    /\ \A k \in 1..Len(groups) :
          /\ groups[k].node \in Nodes
          /\ groups[k].node # 1 =>
                \E l \in 1..(k - 1) : groups[l].node = flat_data[groups[k].node].parent

(* Open is once each node whose parent was reported and that was not; what *)
(* is neither reported nor open has a parent not reported.                 *)
OpenOnce ==
    \A k, l \in 1..Len(stack) : \A i \in 1..Len(stack[k]), j \in 1..Len(stack[l]) :
        stack[k][i] = stack[l][j] => k = l /\ i = j

OpenNext ==
    \A k \in 1..Len(stack) : \A i \in 1..Len(stack[k]) :
        /\ stack[k][i] \in Nodes /\ ~Reported(groups, stack[k][i])
        /\ stack[k][i] # 1 => Reported(groups, flat_data[stack[k][i]].parent)

NothingLost ==
    \A n \in Nodes : \/ Reported(groups, n)
                     \/ OnStack(stack, n)
                     \/ n # 1 /\ ~Reported(groups, flat_data[n].parent)

Open ==
    /\ OpenOnce /\ OpenNext /\ NothingLost
    /\ phase = "done" => \A n \in Nodes : ~OnStack(stack, n)

ReportInv ==
    /\ ReportTypes /\ Order
    /\ phase \in {"report", "write", "done"} => Open

LEMMA Least == ASSUME NEW T, T \subseteq Nat, T # {} PROVE \E x \in T : \A y \in T : x <= y
<1>1. PICK x \in T : \A y \in T : <<y, x>> \notin OpToRel(<, Nat)
  BY WFMin, NatLessThanWellFounded, Zenon
<1>2. \A y \in T : ~(y < x)
  BY <1>1, Zenon DEF OpToRel
<1> QED
  BY <1>2

(* A set of numbers up to some bound has a greatest one. *)
LEMMA Greatest ==
    ASSUME NEW b \in Nat, NEW T, T \subseteq 1..b, T # {}
    PROVE  \E x \in T : \A y \in T : x >= y
<1> DEFINE D == {b - x : x \in T}
<1>1. D \subseteq Nat /\ D # {}
  <2>1. PICK y \in T : TRUE
    OBVIOUS
  <2>2. b - y \in D /\ \A x \in T : b - x \in Nat
    OBVIOUS
  <2> QED
    BY <2>2
<1>2. PICK d \in D : \A e \in D : d <= e
  BY <1>1, Least
<1>3. PICK x \in T : d = b - x
  OBVIOUS
<1>4. \A y \in T : b - x <= b - y
  BY <1>2, <1>3
<1> QED
  BY <1>4

(* The iterator drops the empty lists at the end, and only these. *)
LEMMA TrimmedFacts ==
    ASSUME NEW s \in Seq(Seq(Nat))
    PROVE  \/ Trimmed(s) = <<>> /\ \A k \in 1..Len(s) : s[k] = <<>>
           \/ \E m \in 1..Len(s) : /\ Trimmed(s) = SubSeq(s, 1, m) /\ s[m] # <<>>
                                   /\ \A k \in 1..Len(s) : k > m => s[k] = <<>>
<1> DEFINE filled == {k \in DOMAIN s : s[k] # <<>>}
           m == CHOOSE k \in filled : \A j \in filled : k >= j
<1>0. DOMAIN s = 1..Len(s) /\ Len(s) \in Nat
  OBVIOUS
<1>1. CASE filled = {}
  BY <1>0, <1>1 DEF Trimmed
<1>2. CASE filled # {}
  <2>1. \E k \in filled : \A j \in filled : k >= j
    BY <1>0, <1>2, Greatest
  <2>2. m \in filled /\ \A j \in filled : m >= j
    BY <2>1
  <2>3. Trimmed(s) = SubSeq(s, 1, m)
    BY <1>2 DEF Trimmed
  <2> HIDE DEF m
  <2>4. m \in 1..Len(s) /\ s[m] # <<>> /\ \A k \in 1..Len(s) : k > m => s[k] = <<>>
    <3>1. m \in 1..Len(s) /\ s[m] # <<>>
      BY <1>0, <2>2
    <3>2. ASSUME NEW k \in 1..Len(s), k > m PROVE s[k] = <<>>
      <4>1. k \notin filled
        BY <2>2, <3>1, <3>2
      <4> QED
        BY <1>0, <4>1
    <3> QED
      BY <3>1, <3>2
  <2> QED
    BY <2>3, <2>4
<1> QED
  BY <1>1, <1>2

LEMMA Prefix ==
    ASSUME NEW S, NEW s \in Seq(S), NEW n \in 0..Len(s), NEW t, t = SubSeq(s, 1, n)
    PROVE  t \in Seq(S) /\ Len(t) = n /\ \A k \in 1..n : t[k] = s[k]
<1>1. Len(s) \in Nat /\ n \in Nat /\ \A k \in 1..n : s[k] \in S
  OBVIOUS
<1> QED
  BY <1>1

LEMMA Appended ==
    ASSUME NEW S, NEW s \in Seq(S), NEW e \in S, NEW t, t = Append(s, e)
    PROVE  /\ t \in Seq(S) /\ Len(t) = Len(s) + 1
           /\ t[Len(s) + 1] = e /\ \A k \in 1..Len(s) : t[k] = s[k]
OBVIOUS

(* Advanced for the first m lists of s, c being the children. *)
Moved(s, m, c) == Append(Append(Front(SubSeq(s, 1, m)), Front(Last(SubSeq(s, 1, m)))), c)

(* u is s up to m, less the last node there, and with c on top. *)
IsMoved(u, s, m, c) ==
    /\ u \in Seq(Seq(Nat)) /\ Len(u) = m + 1
    /\ \A k \in 1..(m - 1) : u[k] = s[k]
    /\ Len(s[m]) \in Nat \ {0}
    /\ Len(u[m]) = Len(s[m]) - 1 /\ \A j \in 1..Len(u[m]) : u[m][j] = s[m][j]
    /\ u[m + 1] = c

(* The last node of a stack that does not end in an empty list makes way   *)
(* for its children.                                                       *)
LEMMA AdvancedFacts ==
    ASSUME NEW s \in Seq(Seq(Nat)), NEW m \in 1..Len(s), s[m] # <<>>,
           NEW c \in Seq(Nat), NEW u,
           u = Moved(s, m, c)
    PROVE  IsMoved(u, s, m, c)
<1> DEFINE t == SubSeq(s, 1, m)
           a == Front(t)
           b == Front(s[m])
           w == Append(a, b)
<1>0. Len(s) \in Nat /\ m \in Nat \ {0} /\ m \in 0..Len(s) /\ m - 1 \in 0..m /\ s[m] \in Seq(Nat)
  OBVIOUS
<1>1. t \in Seq(Seq(Nat)) /\ Len(t) = m /\ \A k \in 1..m : t[k] = s[k]
  BY <1>0, Prefix, SMTT(60)
<1>2. Last(t) = s[m] /\ Len(s[m]) \in Nat \ {0}
  BY <1>0, <1>1 DEF Last
<1>3. a \in Seq(Seq(Nat)) /\ Len(a) = m - 1 /\ \A k \in 1..(m - 1) : a[k] = t[k]
  <2>1. a = SubSeq(t, 1, m - 1)
    BY <1>1 DEF Front
  <2>2. m - 1 \in 0..Len(t)
    BY <1>0, <1>1
  <2> HIDE DEF a, t
  <2> QED
    BY <1>1, <2>1, <2>2, Prefix, SMTT(60)
<1>4. b \in Seq(Nat) /\ Len(b) = Len(s[m]) - 1 /\ \A j \in 1..Len(b) : b[j] = s[m][j]
  <2>1. b = SubSeq(s[m], 1, Len(s[m]) - 1) /\ Len(s[m]) - 1 \in 0..Len(s[m])
    BY <1>2 DEF Front
  <2> HIDE DEF b
  <2> QED
    BY <1>0, <2>1, Prefix, SMTT(60)
<1>5. u = Append(w, c)
  BY <1>2 DEF Moved
<1>6. w \in Seq(Seq(Nat)) /\ Len(w) = m /\ w[m] = b /\ \A k \in 1..(m - 1) : w[k] = s[k]
  <2>1. w = Append(a, b)
    OBVIOUS
  <2> HIDE DEF w, a, b, t
  <2>2. /\ w \in Seq(Seq(Nat)) /\ Len(w) = Len(a) + 1
        /\ w[Len(a) + 1] = b /\ \A k \in 1..Len(a) : w[k] = a[k]
    BY <1>3, <1>4, <2>1, Appended, SMTT(60)
  <2>3. \A k \in 1..(m - 1) : t[k] = s[k]
    BY <1>0, <1>1
  <2>4. (m - 1) + 1 = m
    BY <1>0
  <2> QED
    BY <1>3, <2>2, <2>3, <2>4
<1> HIDE DEF t, a, b, w
<1>7. /\ u \in Seq(Seq(Nat)) /\ Len(u) = Len(w) + 1
      /\ u[Len(w) + 1] = c /\ \A k \in 1..Len(w) : u[k] = w[k]
  <2>1. w \in Seq(Seq(Nat))
    BY <1>6
  <2> QED
    BY <1>5, <2>1, Appended, SMTT(60)
<1>8. m \in 1..m /\ \A k \in 1..(m - 1) : k \in 1..m
  BY <1>0
<1>9. u[m] = b /\ u[m + 1] = c /\ \A k \in 1..(m - 1) : u[k] = s[k]
  BY <1>6, <1>7, <1>8
<1>10. u \in Seq(Seq(Nat)) /\ Len(u) = m + 1
  BY <1>6, <1>7
<1>11. Len(u[m]) = Len(s[m]) - 1 /\ \A j \in 1..Len(u[m]) : u[m][j] = s[m][j]
  BY <1>4, <1>9
<1> QED
  BY <1>2, <1>9, <1>10, <1>11 DEF IsMoved

(* What one step of the report does with the stack and with the nodes      *)
(* reported.                                                               *)
LEMMA ReportLine ==
    ASSUME Report
    PROVE  LET n == Last(Last(Trimmed(stack)))
               g == find_duplicates(flat_data[n])
           IN  /\ stack' = Advanced(Trimmed(stack))
               /\ groups' = Append(groups, [node |-> n, group |-> g, hidden |-> Exclude /\ AllSame(g)])
               /\ phase' \in {"report", "write", "panic"}
<1> DEFINE s == Trimmed(stack)
           n == Last(Last(s))
<1>1. PICK g \in {find_duplicates(flat_data[n])}, hide \in BOOLEAN :
        /\ hide = (Exclude /\ AllSame(g))
        /\ stack' = Advanced(s)
        /\ groups' = Append(groups, [node |-> n, group |-> g, hidden |-> hide])
        /\ phase' = CASE hide -> "report"
                      [] ~hide /\ (flat_data[n].rel \in NotUtf8 \/ (n = 1 /\ ~RootNamed)) -> "panic"
                      [] OTHER -> "write"
  BY Zenon DEF Report
<1>2. g = find_duplicates(flat_data[n])
  BY <1>1
<1> HIDE DEF n, s
<1>3. phase' \in {"report", "write", "panic"}
  BY <1>1
<1> QED
  BY <1>1, <1>2, <1>3, Zenon DEF n, s

LEMMA ReportFacts ==
    ASSUME WalkInv, ReportInv, Report
    PROVE  \E m \in 1..Len(stack), n \in Nodes :
             /\ n = stack[m][Len(stack[m])] /\ IsMoved(stack', stack, m, flat_data[n].child)
             /\ \A k \in 1..Len(stack) : k > m => stack[k] = <<>>
             /\ IsReport(groups') /\ Len(groups) \in Nat /\ Len(groups') = Len(groups) + 1
             /\ \A k \in 1..Len(groups) : groups'[k] = groups[k]
             /\ groups'[Len(groups) + 1].node = n
             /\ phase = "report" /\ phase' \in {"report", "write", "panic"}
<1> DEFINE n == Last(Last(Trimmed(stack)))
           g == find_duplicates(flat_data[n])
           hide == Exclude /\ AllSame(g)
           e == [node |-> n, group |-> g, hidden |-> hide]
<1>1. stack \in Seq(Seq(Nat)) /\ Open /\ phase = "report" /\ Trimmed(stack) # <<>>
  BY DEF Report, ReportInv, ReportTypes
<1>2. PICK m \in 1..Len(stack) :
        /\ Trimmed(stack) = SubSeq(stack, 1, m) /\ stack[m] # <<>>
        /\ \A k \in 1..Len(stack) : k > m => stack[k] = <<>>
  BY <1>1, TrimmedFacts
<1>3. stack' = Advanced(Trimmed(stack)) /\ groups' = Append(groups, e)
        /\ phase' \in {"report", "write", "panic"}
  BY ReportLine
<1>4. stack[m] \in Seq(Nat) /\ Len(stack[m]) \in Nat \ {0}
  BY <1>1, <1>2
<1>5. n = stack[m][Len(stack[m])]
  <2>1. SubSeq(stack, 1, m)[m] = stack[m] /\ Len(SubSeq(stack, 1, m)) = m
    BY <1>1
  <2> QED
    BY <1>2, <2>1 DEF Last
<1>6. n \in Nodes
  <2>1. Len(stack[m]) \in 1..Len(stack[m])
    BY <1>4
  <2> QED
    BY <1>1, <1>5, <2>1 DEF Open, OpenNext
<1>7. flat_data[n].child \in Seq(Nat)
  <2>1. flat_data[n] \in NodeType
    BY <1>6, NodesInterval DEF WalkInv, WalkTypes
  <2> HIDE DEF n
  <2> QED
    BY <2>1 DEF NodeType
<1>8. stack' = Moved(stack, m, flat_data[n].child)
  BY <1>2, <1>3 DEF Advanced, Moved
<1> HIDE DEF n
<1>9. IsMoved(stack', stack, m, flat_data[n].child)
  <2>1. stack \in Seq(Seq(Nat)) /\ m \in 1..Len(stack) /\ stack[m] # <<>>
    BY <1>1, <1>2
  <2> QED
    BY <1>7, <1>8, <2>1, AdvancedFacts, SMTT(60)
<1>10. /\ IsReport(groups') /\ Len(groups) \in Nat /\ Len(groups') = Len(groups) + 1
       /\ \A k \in 1..Len(groups) : groups'[k] = groups[k]
       /\ groups'[Len(groups) + 1].node = n
  <2>1. PICK S : groups \in Seq(Row(S))
    BY DEF ReportInv, ReportTypes, IsReport
  <2> DEFINE T == S \union {g}
  <2>2. e \in Row(T) /\ e.node = n
    <3>1. n \in Nat /\ hide \in BOOLEAN
      BY <1>6, NodesInterval DEF WalkInv
    <3> HIDE DEF g, hide
    <3> QED
      BY <3>1 DEF Row
  <2>3. groups \in Seq(Row(T))
    <3>1. Row(S) \subseteq Row(T)
      BY DEF Row
    <3> HIDE DEF T
    <3> QED
      BY <2>1, <3>1
  <2> HIDE DEF e, T
  <2>4. /\ groups' \in Seq(Row(T)) /\ Len(groups') = Len(groups) + 1
        /\ groups'[Len(groups) + 1] = e /\ \A k \in 1..Len(groups) : groups'[k] = groups[k]
    BY <1>3, <2>2, <2>3, Appended, SMTT(60)
  <2>5. Len(groups) \in Nat
    BY <2>3
  <2> QED
    BY <2>2, <2>4, <2>5 DEF IsReport
<1> QED
  BY <1>1, <1>2, <1>3, <1>4, <1>5, <1>6, <1>9, <1>10

LEMMA ReportKeeps == ASSUME WalkInv, ReportInv, Report PROVE ReportInv'
<1>1. PICK m \in 1..Len(stack), n \in Nodes :
        /\ n = stack[m][Len(stack[m])] /\ IsMoved(stack', stack, m, flat_data[n].child)
        /\ \A k \in 1..Len(stack) : k > m => stack[k] = <<>>
        /\ IsReport(groups') /\ Len(groups) \in Nat /\ Len(groups') = Len(groups) + 1
        /\ \A k \in 1..Len(groups) : groups'[k] = groups[k]
        /\ groups'[Len(groups) + 1].node = n
        /\ phase = "report" /\ phase' \in {"report", "write", "panic"}
  BY ReportFacts
<1>2. flat_data' = flat_data /\ Nodes' = Nodes
  BY DEF Report, Nodes
<1>3. Open /\ OpenOnce /\ OpenNext /\ NothingLost /\ Order
        /\ stack \in Seq(Seq(Nat)) /\ Len(stack) \in Nat
  BY <1>1 DEF ReportInv, ReportTypes, Open
<1>s. /\ n = stack[m][Len(stack[m])] /\ stack' \in Seq(Seq(Nat)) /\ Len(stack') = m + 1
      /\ \A k \in 1..(m - 1) : stack'[k] = stack[k]
      /\ Len(stack[m]) \in Nat \ {0} /\ Len(stack'[m]) = Len(stack[m]) - 1
      /\ \A j \in 1..Len(stack'[m]) : stack'[m][j] = stack[m][j]
      /\ stack'[m + 1] = flat_data[n].child
  BY <1>1 DEF IsMoved
<1>4. m \in Nat \ {0} /\ m <= Len(stack) /\ Len(stack[m]) \in 1..Len(stack[m])
  BY <1>3, <1>s
<1>g. /\ Len(groups) \in Nat /\ Len(groups') = Len(groups) + 1
      /\ \A k \in 1..Len(groups) : groups'[k] = groups[k]
      /\ groups'[Len(groups) + 1].node = n
  BY <1>1
<1>5. ~Reported(groups, n) /\ (n # 1 => Reported(groups, flat_data[n].parent))
  <2>1. m \in 1..Len(stack) /\ Len(stack[m]) \in 1..Len(stack[m])
    BY <1>4
  <2> QED
    BY <1>3, <1>s, <2>1, Zenon DEF OpenNext
<1>6. \A x : Reported(groups', x) <=> Reported(groups, x) \/ x = n
  <2> TAKE x
  <2>1. \A k \in 1..(Len(groups) + 1) : k \in 1..Len(groups) \/ k = Len(groups) + 1
    BY <1>1
  <2>2. Len(groups) + 1 \in 1..(Len(groups) + 1) /\ \A k \in 1..Len(groups) : k \in 1..(Len(groups) + 1)
    BY <1>1
  <2> QED
    BY <1>1, <2>1, <2>2 DEF Reported
(* What is still open is what was open before, but n. *)
<1>7. \A k \in 1..m : \A j \in 1..Len(stack'[k]) :
        j \in 1..Len(stack[k]) /\ stack'[k][j] = stack[k][j] /\ stack[k][j] # n
  <2> TAKE k \in 1..m
  <2> TAKE j \in 1..Len(stack'[k])
  <2>1. j \in 1..Len(stack[k]) /\ stack'[k][j] = stack[k][j] /\ (k = m => j # Len(stack[m]))
    <3>1. CASE k = m
      <4>1. j \in 1..Len(stack'[m])
        BY <3>1
      <4>2. stack'[m][j] = stack[m][j]
        BY <1>s, <4>1
      <4> DEFINE len == Len(stack[m])
      <4>3. len \in Nat \ {0} /\ j \in 1..(len - 1)
        BY <1>s, <4>1
      <4> HIDE DEF len
      <4>4. j \in 1..len /\ j # len
        BY <4>3
      <4> QED
        BY <3>1, <4>2, <4>4 DEF len
    <3>2. CASE k # m
      <4>1. k \in 1..(m - 1)
        BY <1>4, <3>2
      <4>2. stack'[k] = stack[k]
        BY <1>s, <4>1
      <4> QED
        BY <3>2, <4>2
    <3> QED
      BY <3>1, <3>2
  <2>2. k \in 1..Len(stack) /\ m \in 1..Len(stack) /\ Len(stack[m]) \in 1..Len(stack[m])
    BY <1>3, <1>4
  <2>3. stack[k][j] = n => k = m /\ j = Len(stack[m])
    <3>1. stack[k][j] = stack[m][Len(stack[m])] => k = m /\ j = Len(stack[m])
      BY <1>3, <2>1, <2>2, Zenon DEF OpenOnce
    <3> QED
      BY <1>s, <3>1
  <2> QED
    BY <2>1, <2>3
<1>8. \A k \in 1..Len(stack') : k \in 1..m \/ k = m + 1
  BY <1>4, <1>s
(* The children of n: not reported, and not open, since n was not reported. *)
<1>9. \A j \in 1..Len(flat_data[n].child) :
        LET c == flat_data[n].child[j] IN
        /\ c \in Nodes \ {1} /\ flat_data[c].parent = n /\ c # n
        /\ ~Reported(groups, c)
        /\ \A k \in 1..Len(stack) : \A i \in 1..Len(stack[k]) : stack[k][i] # c
  <2> TAKE j \in 1..Len(flat_data[n].child)
  <2> DEFINE c == flat_data[n].child[j]
  <2>1. c \in Nodes \ {1} /\ flat_data[c].parent = n
    BY DEF WalkInv, Tree
  <2> HIDE DEF c
  <2>2. c # n
    BY <2>1, NodesInterval DEF WalkInv, Tree
  <2>3. ~Reported(groups, c)
    <3>1. ASSUME NEW k \in 1..Len(groups), groups[k].node = c PROVE FALSE
      <4>1. PICK l \in 1..(k - 1) : groups[l].node = n
        BY <1>3, <2>1, <3>1 DEF Order
      <4>2. l \in 1..Len(groups)
        BY <1>1
      <4> QED
        BY <1>5, <4>1, <4>2 DEF Reported
    <3> QED
      BY <3>1 DEF Reported
  <2>4. ASSUME NEW k \in 1..Len(stack), NEW i \in 1..Len(stack[k]), stack[k][i] = c PROVE FALSE
    BY <1>3, <1>5, <2>1, <2>4 DEF Open, OpenNext
  <2> QED
    BY <2>1, <2>2, <2>3, <2>4 DEF c
<1>10. ReportTypes'
  <2>1. groups' # <<>>
    BY <1>1
  <2> QED
    BY <1>1, <1>s, <2>1 DEF ReportTypes
<1>11. Order'
  <2>1. \A k \in 1..Len(groups') : k \in 1..Len(groups) \/ k = Len(groups) + 1
    BY <1>g
  <2>2. \A k \in 1..Len(groups) : groups[k].node # n
    BY <1>5 DEF Reported
  <2>3. \A k, l \in 1..Len(groups') : groups'[k].node = groups'[l].node => k = l
    <3>1. \A k, l \in 1..Len(groups) : groups[k].node = groups[l].node => k = l
      BY <1>3 DEF Order
    <3>2. \A k \in 1..Len(groups) : groups'[k].node = groups[k].node
      BY <1>g
    <3>3. groups'[Len(groups) + 1].node = n
      BY <1>g
    <3> QED
      BY <2>1, <2>2, <3>1, <3>2, <3>3, Zenon
  <2>4. ASSUME NEW k \in 1..Len(groups)
        PROVE  /\ groups'[k].node \in Nodes
               /\ groups'[k].node # 1 =>
                     \E l \in 1..(k - 1) : groups'[l].node = flat_data[groups'[k].node].parent
    <3>1. ASSUME NEW l \in 1..(k - 1) PROVE groups'[l] = groups[l]
      <4>1. l \in 1..Len(groups)
        BY <1>g
      <4> QED
        BY <1>g, <4>1
    <3>2. /\ groups[k].node \in Nodes
          /\ groups[k].node # 1 =>
                \E l \in 1..(k - 1) : groups[l].node = flat_data[groups[k].node].parent
      BY <1>3, Zenon DEF Order
    <3>3. groups'[k] = groups[k]
      BY <1>g
    <3> QED
      BY <3>1, <3>2, <3>3
  <2>5. n # 1 => \E l \in 1..((Len(groups) + 1) - 1) : groups'[l].node = flat_data[n].parent
    <3>1. (Len(groups) + 1) - 1 = Len(groups)
      BY <1>1
    <3> QED
      BY <1>1, <1>5, <3>1 DEF Reported
  <2> QED
    BY <1>1, <1>2, <2>1, <2>3, <2>4, <2>5 DEF Order
<1>12. OpenOnce'
  <2> SUFFICES ASSUME NEW k \in 1..Len(stack'), NEW l \in 1..Len(stack'),
                      NEW i \in 1..Len(stack'[k]), NEW j \in 1..Len(stack'[l]),
                      stack'[k][i] = stack'[l][j]
               PROVE  k = l /\ i = j
    BY DEF OpenOnce
  <2>0. \A a \in 1..m : a \in 1..Len(stack) /\ a # m + 1
    BY <1>3, <1>4
  <2>1. CASE k \in 1..m /\ l \in 1..m
    <3>1. k \in 1..Len(stack) /\ l \in 1..Len(stack)
      BY <2>0, <2>1
    <3>2. /\ i \in 1..Len(stack[k]) /\ stack'[k][i] = stack[k][i]
          /\ j \in 1..Len(stack[l]) /\ stack'[l][j] = stack[l][j]
      BY <1>7, <2>1
    <3>3. stack[k][i] = stack[l][j]
      BY <3>2
    <3>4. i \in 1..Len(stack[k]) /\ j \in 1..Len(stack[l])
      BY <3>2
    <3>5. \A a \in 1..Len(stack[k]), b \in 1..Len(stack[l]) :
            stack[k][a] = stack[l][b] => k = l /\ a = b
      BY <1>3, <3>1, Zenon DEF OpenOnce
    <3> QED
      BY <3>3, <3>4, <3>5, Zenon
  <2>2. CASE k \in 1..m /\ l = m + 1
    <3>1. k \in 1..Len(stack) /\ i \in 1..Len(stack[k]) /\ stack'[k][i] = stack[k][i]
      BY <1>7, <2>0, <2>2
    <3>2. j \in 1..Len(flat_data[n].child) /\ stack'[l][j] = flat_data[n].child[j]
      BY <1>s, <2>2
    <3> QED
      BY <1>9, <3>1, <3>2
  <2>3. CASE k = m + 1 /\ l \in 1..m
    <3>1. l \in 1..Len(stack) /\ j \in 1..Len(stack[l]) /\ stack'[l][j] = stack[l][j]
      BY <1>7, <2>0, <2>3
    <3>2. i \in 1..Len(flat_data[n].child) /\ stack'[k][i] = flat_data[n].child[i]
      BY <1>s, <2>3
    <3> QED
      BY <1>9, <3>1, <3>2
  <2>4. CASE k = m + 1 /\ l = m + 1
    <3> DEFINE c == flat_data[n].child[i]
    <3>1. c \in Nodes \ {1} /\ flat_data[c].parent = n
      BY <1>9, <1>s, <2>4
    <3>2. Once(flat_data[n].child, c)
      BY <3>1 DEF WalkInv, Tree
    <3> QED
      BY <1>s, <2>4, <3>2 DEF Once
  <2> QED
    BY <1>8, <2>1, <2>2, <2>3, <2>4
<1>13. OpenNext'
  <2> SUFFICES ASSUME NEW k \in 1..Len(stack'), NEW i \in 1..Len(stack'[k])
               PROVE  /\ stack'[k][i] \in Nodes /\ ~Reported(groups', stack'[k][i])
                      /\ stack'[k][i] # 1 => Reported(groups', flat_data[stack'[k][i]].parent)
    BY <1>2 DEF OpenNext
  <2>1. CASE k \in 1..m
    <3>1. k \in 1..Len(stack)
      BY <1>3, <1>4, <2>1
    <3>2. i \in 1..Len(stack[k]) /\ stack'[k][i] = stack[k][i] /\ stack[k][i] # n
      BY <1>7, <2>1
    <3>3. /\ stack[k][i] \in Nodes /\ ~Reported(groups, stack[k][i])
          /\ stack[k][i] # 1 => Reported(groups, flat_data[stack[k][i]].parent)
      BY <1>3, <3>1, <3>2, Zenon DEF OpenNext
    <3> QED
      BY <1>6, <3>2, <3>3
  <2>2. CASE k = m + 1
    <3>1. i \in 1..Len(flat_data[n].child) /\ stack'[k][i] = flat_data[n].child[i]
      BY <1>s, <2>2
    <3> QED
      BY <1>6, <1>9, <3>1
  <2> QED
    BY <1>8, <2>1, <2>2
<1>14. NothingLost'
  <2> SUFFICES ASSUME NEW x \in Nodes, ~Reported(groups', x)
               PROVE  OnStack(stack', x) \/ (x # 1 /\ ~Reported(groups', flat_data[x].parent))
    BY <1>2 DEF NothingLost
  <2>1. x # n /\ (OnStack(stack, x) \/ (x # 1 /\ ~Reported(groups, flat_data[x].parent)))
    BY <1>3, <1>6 DEF Open, NothingLost
  <2>2. CASE OnStack(stack, x)
    <3>1. PICK k \in 1..Len(stack) : \E j \in 1..Len(stack[k]) : stack[k][j] = x
      BY <2>2 DEF OnStack
    <3>2. PICK j \in 1..Len(stack[k]) : stack[k][j] = x
      BY <3>1
    <3>3. k \in 1..m
      <4>1. k > m => stack[k] = <<>>
        BY <1>1
      <4>2. stack[k] # <<>>
        BY <3>2
      <4> QED
        BY <1>3, <1>4, <4>1, <4>2
    <3>4. j \in 1..Len(stack'[k]) /\ stack'[k][j] = x
      <4>1. CASE k = m
        <5>1. j # Len(stack[m])
          BY <1>s, <2>1, <3>2, <4>1
        <5>2. j \in 1..Len(stack'[m])
          BY <1>s, <3>2, <4>1, <5>1
        <5> QED
          BY <1>s, <3>2, <4>1, <5>2
      <4>2. CASE k # m
        <5>1. k \in 1..(m - 1)
          BY <1>4, <3>3, <4>2
        <5> QED
          BY <1>s, <3>2, <5>1
      <4> QED
        BY <4>1, <4>2
    <3>5. k \in 1..Len(stack')
      BY <1>4, <1>s, <3>3
    <3> QED
      BY <3>4, <3>5 DEF OnStack
  <2>3. CASE x # 1 /\ ~Reported(groups, flat_data[x].parent) /\ flat_data[x].parent # n
    BY <1>6, <2>3
  <2>4. CASE x # 1 /\ flat_data[x].parent = n
    <3>1. Once(flat_data[n].child, x)
      BY <2>4 DEF WalkInv, Tree
    <3>2. PICK j \in 1..Len(flat_data[n].child) : flat_data[n].child[j] = x
      BY <3>1 DEF Once
    <3>3. m + 1 \in 1..Len(stack')
      BY <1>4, <1>s
    <3> QED
      BY <1>s, <3>2, <3>3 DEF OnStack
  <2> QED
    BY <2>1, <2>2, <2>3, <2>4
<1>15. phase' # "done"
  BY <1>1
<1> QED
  BY <1>10, <1>11, <1>12, <1>13, <1>14, <1>15 DEF ReportInv, Open

LEMMA ReportInit == Init => ReportInv
<1> SUFFICES ASSUME Init PROVE ReportInv
  OBVIOUS
<1>1. groups = <<>> /\ stack = <<>> /\ phase = "walk"
  BY DEF Init
<1>2. IsReport(groups)
  <2>1. <<>> \in Seq(Row({}))
    OBVIOUS
  <2> QED
    BY <1>1, <2>1 DEF IsReport
<1> QED
  BY <1>1, <1>2 DEF ReportInv, ReportTypes, Order

(* Before the report begins, nothing is reported. *)
LEMMA WalkKeepsReport ==
    ASSUME ReportInv,
           \/ PopNode \/ ReadDir \/ ReadDirFails \/ (\E p \in Paths : TakeEntry(p)) \/ EntryFails
           \/ EndNode
    PROVE  ReportInv'
<1>1. groups' = groups /\ stack' = stack /\ phase = "walk" /\ phase' \in {"walk", "panic"}
  BY DEF PopNode, ReadDir, ReadDirFails, TakeEntry, EntryFails, EndNode
<1>2. groups = <<>> /\ groups' = <<>>
  BY <1>1 DEF ReportInv, ReportTypes
<1>3. ReportTypes'
  BY <1>1, <1>2 DEF ReportInv, ReportTypes
<1>4. Order'
  BY <1>2 DEF Order
<1> QED
  BY <1>1, <1>3, <1>4 DEF ReportInv

LEMMA StartReportKeeps == ASSUME WalkInv, ReportInv, StartReport PROVE ReportInv'
<1>1. /\ phase = "walk" /\ phase' \in {"report", "panic"} /\ stack' = << <<1>> >>
      /\ groups' = groups /\ flat_data' = flat_data /\ Nodes' = Nodes
  BY DEF StartReport, Nodes
<1>2. groups' = <<>>
  BY <1>1 DEF ReportInv, ReportTypes
<1>3. 1 \in Nodes
  BY NodesInterval DEF WalkInv, WalkTypes
<1>4. /\ stack' \in Seq(Seq(Nat)) /\ Len(stack') = 1
      /\ stack'[1] = <<1>> /\ Len(stack'[1]) = 1 /\ stack'[1][1] = 1
  BY <1>1
<1>5. \A x : ~Reported(groups', x)
  BY <1>2 DEF Reported
<1>6. ReportTypes'
  BY <1>1, <1>4 DEF ReportInv, ReportTypes
<1>7. Order'
  BY <1>2 DEF Order
<1>8. OpenOnce' /\ OpenNext'
  BY <1>1, <1>3, <1>4, <1>5 DEF OpenOnce, OpenNext
<1>9. NothingLost'
  <2>1. OnStack(stack', 1)
    BY <1>4 DEF OnStack
  <2> QED
    BY <1>1, <1>5, <2>1 DEF NothingLost
<1> QED
  BY <1>1, <1>6, <1>7, <1>8, <1>9 DEF ReportInv, Open

(* A row changes the group of the node reported last. *)
LEMMA WriteLine ==
    ASSUME Write
    PROVE  /\ groups' = [groups EXCEPT ![Len(groups)].group =
                            find_duplicates(flat_data[Last(groups).node])]
           /\ phase' \in {"report", "panic"}
<1>1. PICK g \in {find_duplicates(flat_data[Last(groups).node])} :
        /\ groups' = [groups EXCEPT ![Len(groups)].group = g]
        /\ phase' = IF \E i \in Roots : g[i] >= Colors THEN "panic" ELSE "report"
  BY DEF Write
<1>2. g = find_duplicates(flat_data[Last(groups).node])
  BY <1>1
<1> QED
  BY <1>1, <1>2

LEMMA WriteKeeps == ASSUME ReportInv, Write PROVE ReportInv'
<1>1. /\ phase = "write" /\ phase' \in {"report", "panic"} /\ stack' = stack
      /\ flat_data' = flat_data /\ Nodes' = Nodes
      /\ groups' = [groups EXCEPT ![Len(groups)].group =
                      find_duplicates(flat_data[Last(groups).node])]
  BY WriteLine DEF Write, Nodes
<1>2. IsReport(groups') /\ Len(groups') = Len(groups) /\ Len(groups) \in Nat
        /\ \A k \in 1..Len(groups) : groups'[k].node = groups[k].node
  <2> DEFINE g == find_duplicates(flat_data[Last(groups).node])
  <2>1. PICK S : groups \in Seq(Row(S))
    BY DEF ReportInv, ReportTypes, IsReport
  <2>2. \A k \in 1..Len(groups) : groups[k] \in Row(S)
    BY <2>1
  <2> DEFINE T == S \union {g}
  <2>3. groups' = [k \in 1..Len(groups) |->
                     IF k = Len(groups) THEN [groups[k] EXCEPT !.group = g] ELSE groups[k]]
    <3>1. groups' = [groups EXCEPT ![Len(groups)].group = g]
      BY <1>1
    <3> HIDE DEF g
    <3>2. groups = [k \in 1..Len(groups) |-> groups[k]]
      BY <2>1
    <3> QED
      BY <3>1, <3>2
  <2>4. \A k \in 1..Len(groups) : groups'[k] \in Row(T) /\ groups'[k].node = groups[k].node
    BY <2>2, <2>3 DEF Row
  <2>5. Len(groups) \in Nat
    BY <2>1
  <2> HIDE DEF T, g
  <2>6. groups' \in Seq(Row(T)) /\ Len(groups') = Len(groups)
    BY <2>3, <2>4, <2>5
  <2> QED
    BY <2>4, <2>5, <2>6 DEF IsReport
<1>3. \A x : Reported(groups', x) <=> Reported(groups, x)
  BY <1>2 DEF Reported
<1>4. Open /\ Order /\ stack \in Seq(Seq(Nat)) /\ groups # <<>>
  BY <1>1 DEF ReportInv, ReportTypes
<1>5. ReportTypes'
  BY <1>1, <1>2, <1>4 DEF ReportTypes
<1>6. Order'
  <2>1. \A k, l \in 1..Len(groups') : groups'[k].node = groups'[l].node => k = l
    BY <1>2, <1>4 DEF Order
  <2>2. ASSUME NEW k \in 1..Len(groups)
        PROVE  /\ groups'[k].node \in Nodes
               /\ groups'[k].node # 1 =>
                     \E l \in 1..(k - 1) : groups'[l].node = flat_data[groups'[k].node].parent
    <3>1. \A l \in 1..(k - 1) : groups'[l].node = groups[l].node
      BY <1>2
    <3>2. /\ groups[k].node \in Nodes
          /\ groups[k].node # 1 =>
                \E l \in 1..(k - 1) : groups[l].node = flat_data[groups[k].node].parent
      BY <1>4, Zenon DEF Order
    <3>3. groups'[k].node = groups[k].node
      BY <1>2
    <3> QED
      BY <3>1, <3>2, <3>3
  <2> QED
    BY <1>1, <1>2, <2>1, <2>2 DEF Order
<1>7. Open'
  <2>1. OpenOnce' /\ phase' # "done"
    BY <1>1, <1>4 DEF Open, OpenOnce
  <2>2. OpenNext'
    BY <1>1, <1>3, <1>4 DEF Open, OpenNext
  <2>3. NothingLost'
    BY <1>1, <1>3, <1>4 DEF Open, NothingLost
  <2> QED
    BY <2>1, <2>2, <2>3 DEF Open
<1> QED
  BY <1>5, <1>6, <1>7 DEF ReportInv

LEMMA FinishKeeps == ASSUME ReportInv, Finish PROVE ReportInv'
<1>1. /\ phase = "report" /\ phase' = "done" /\ Trimmed(stack) = <<>>
      /\ flat_data' = flat_data /\ Nodes' = Nodes /\ stack' = stack /\ groups' = groups
  BY DEF Finish, Nodes
<1>2. Open /\ ReportTypes /\ Order /\ stack \in Seq(Seq(Nat))
  BY <1>1 DEF ReportInv, ReportTypes
<1>3. \A k \in 1..Len(stack) : stack[k] = <<>>
  <2>1. ASSUME NEW m \in 1..Len(stack), Trimmed(stack) = SubSeq(stack, 1, m) PROVE FALSE
    <3>1. Len(SubSeq(stack, 1, m)) = m /\ m # 0
      BY <1>2
    <3> QED
      BY <1>1, <2>1, <3>1
  <2> QED
    BY <1>2, <2>1, TrimmedFacts
<1>4. \A x : ~OnStack(stack, x)
  BY <1>3 DEF OnStack
<1> QED
  BY <1>1, <1>2, <1>4
  DEF ReportInv, ReportTypes, Order, Open, OpenOnce, OpenNext, NothingLost

LEMMA OthersKeepReport == ASSUME ReportInv, Change \/ UNCHANGED vars PROVE ReportInv'
<1>1. UNCHANGED <<flat_data, stack, groups, phase>>
  BY DEF Change, vars
<1>2. Nodes' = Nodes
  BY <1>1 DEF Nodes
<1> QED
  BY <1>1, <1>2 DEF ReportInv, ReportTypes, Order, Open, OpenOnce, OpenNext, NothingLost

LEMMA ReportStep == WalkInv /\ ReportInv /\ [Next]_vars => ReportInv'
<1> SUFFICES ASSUME WalkInv, ReportInv, [Next]_vars PROVE ReportInv'
  OBVIOUS
<1> QED
  BY WalkKeepsReport, StartReportKeeps, ReportKeeps, WriteKeeps, FinishKeeps, OthersKeepReport
  DEF Next, Run

(* The least node left out would have a parent left out. *)
LEMMA ReportInvOnce == ASSUME WalkInv, ReportInv PROVE ReportedOnce
<1>1. Order /\ DOMAIN groups = 1..Len(groups) /\ Len(groups) \in Nat
  <2>1. PICK S : groups \in Seq(Row(S))
    BY DEF ReportInv, ReportTypes, IsReport
  <2> QED
    BY <2>1 DEF ReportInv
<1>2. {groups[k].node : k \in DOMAIN groups} \subseteq Nodes
  BY <1>1 DEF Order
<1>3. ASSUME phase = "done", NEW y \in Nodes, ~Reported(groups, y) PROVE FALSE
  <2> DEFINE T == {x \in Nodes : ~Reported(groups, x)}
  <2>1. T \subseteq Nat /\ T # {}
    BY <1>3, NodesInterval DEF WalkInv
  <2>2. PICK x \in T : \A z \in T : x <= z
    BY <2>1, Least
  <2>3. Open
    BY <1>3 DEF ReportInv
  <2>4. x # 1 /\ ~Reported(groups, flat_data[x].parent)
    BY <1>3, <2>3 DEF Open, NothingLost
  <2>5. flat_data[x].parent \in 1..(x - 1) /\ x \in Nodes
    BY <2>4 DEF WalkInv, Tree
  <2>6. flat_data[x].parent \in T
    BY <2>4, <2>5, NodesInterval DEF WalkInv
  <2> QED
    BY <2>1, <2>2, <2>5, <2>6
<1>4. phase = "done" => Nodes \subseteq {groups[k].node : k \in DOMAIN groups}
  BY <1>1, <1>3 DEF Reported
<1> QED
  BY <1>1, <1>2, <1>4 DEF ReportedOnce, Order

(* However the stack of lists is taken down, DiffItemIterator visits each  *)
(* node of the tree once, no node before its parent, and none is left out  *)
(* when the report is complete.                                            *)
THEOREM EachReportedOnce == Spec => []ReportedOnce
<1>1. Spec => [](WalkInv /\ ReportInv)
  BY WalkInit, WalkStep, ReportInit, ReportStep, PTL DEF Spec
<1> QED
  BY <1>1, ReportInvOnce, PTL
-----------------------------------------------------------------------------
(* What the two loops of find_duplicates compute.  Both are recursive      *)
(* functions, which exist as functions do that apply F step by step.       *)
LEMMA Induct ==
    ASSUME NEW T, 0 \in T, \A n \in Nat : n \in T => n + 1 \in T
    PROVE  \A n \in Nat : n \in T
<1> DEFINE Missing == Nat \ T
<1> SUFFICES ASSUME Missing # {} PROVE FALSE
  OBVIOUS
<1>1. PICK n \in Missing : \A m \in Missing : n <= m
  BY Least
<1>2. n - 1 \in Nat /\ (n - 1) + 1 = n
  OBVIOUS
<1>3. n - 1 \in T
  BY <1>1, <1>2
<1> QED
  BY <1>2, <1>3

Iterates(f, F, a, n) == f[0] = a /\ \A k \in 1..n : f[k] = F[<<f[k - 1], k>>]

LEMMA IterateExists ==
    ASSUME NEW G, NEW m \in Nat, NEW F \in [G \X (1..m) -> G], NEW a \in G
    PROVE  \E f \in [0..m -> G] : Iterates(f, F, a, m)
<1> DEFINE T == {n \in Nat : n <= m => \E f \in [0..n -> G] : Iterates(f, F, a, n)}
<1>1. 0 \in T
  <2> DEFINE f == [k \in 0..0 |-> a]
  <2>1. f \in [0..0 -> G] /\ Iterates(f, F, a, 0)
    BY DEF Iterates
  <2> QED
    BY <2>1
<1>2. ASSUME NEW n \in Nat, n \in T PROVE n + 1 \in T
  <2> SUFFICES ASSUME n + 1 <= m PROVE \E f \in [0..(n + 1) -> G] : Iterates(f, F, a, n + 1)
    OBVIOUS
  <2>1. PICK f \in [0..n -> G] : Iterates(f, F, a, n)
    BY <1>2
  <2> DEFINE e == F[<<f[n], n + 1>>]
             h == [k \in 0..(n + 1) |-> IF k = n + 1 THEN e ELSE f[k]]
  <2>2. f[n] \in G /\ n + 1 \in 1..m
    OBVIOUS
  <2>3. e \in G
    BY <2>2
  <2>4. h \in [0..(n + 1) -> G]
    BY <2>3
  <2>5. \A k \in 0..n : h[k] = f[k]
    OBVIOUS
  <2>6. h[n + 1] = e /\ (n + 1) - 1 = n
    OBVIOUS
  <2>7. ASSUME NEW k \in 1..(n + 1) PROVE h[k] = F[<<h[k - 1], k>>]
    <3>1. CASE k = n + 1
      <4>1. h[n] = f[n]
        BY <2>5
      <4> QED
        BY <2>6, <3>1, <4>1
    <3>2. CASE k # n + 1
      <4>1. k \in 1..n /\ k \in 0..n /\ k - 1 \in 0..n
        BY <3>2
      <4>2. f[k] = F[<<f[k - 1], k>>]
        BY <2>1, <4>1 DEF Iterates
      <4> QED
        BY <2>5, <4>1, <4>2
    <3> QED
      BY <3>1, <3>2
  <2>8. h[0] = a
    BY <2>1, <2>5 DEF Iterates
  <2> HIDE DEF h
  <2> QED
    BY <2>4, <2>7, <2>8 DEF Iterates
<1>3. \A n \in Nat : n \in T
  <2> HIDE DEF T
  <2> QED
    BY <1>1, <1>2, Induct
<1> QED
  BY <1>3

GroupType == [Roots -> {NoGroup} \union 0..(N - 1)]

LEMMA ComparedType ==
    ASSUME NEW node, NEW g \in GroupType, NEW o \in Roots, NEW i \in Roots
    PROVE  Compared(node, g, o, i) \in GroupType
<1>1. MaxOf(o, i) \in Roots /\ MinOf(o, i) \in Roots
  BY DEF MaxOf, MinOf
<1>2. Merge(g, o, i) \in GroupType
  BY <1>1 DEF Merge, GroupType
<1> QED
  BY <1>2 DEF Compared

(* f is the inner loop: f[i] is what the groups are after directory i. *)
IsInner(f, node, g, o) ==
    f = [i \in 0..N |-> IF i = 0 THEN g ELSE Compared(node, f[i - 1], o, i)]

InnerLoop(f, node, g, o) ==
    /\ f \in [0..N -> GroupType] /\ f[0] = g
    /\ \A i \in 1..N : f[i] = Compared(node, f[i - 1], o, i)

LEMMA ComparedAllIs ==
    ASSUME NEW node, NEW g \in GroupType, NEW o \in Roots
    PROVE  \E f : InnerLoop(f, node, g, o) /\ ComparedAll(node, g, o) = f[N]
<1> DEFINE F == [p \in GroupType \X (1..N) |-> Compared(node, p[1], o, p[2])]
           f == CHOOSE h : IsInner(h, node, g, o)
<1>1. N \in Nat /\ 0 \in 0..N
  BY CountAssumption
<1>2. F \in [GroupType \X (1..N) -> GroupType]
  BY ComparedType DEF Roots
<1>3. \A h \in GroupType, i \in 1..N : F[<<h, i>>] = Compared(node, h, o, i)
  OBVIOUS
<1> HIDE DEF F
<1>4. PICK h \in [0..N -> GroupType] : Iterates(h, F, g, N)
  BY <1>1, <1>2, IterateExists
<1>5. IsInner(h, node, g, o)
  <2>1. ASSUME NEW i \in 0..N
        PROVE  h[i] = IF i = 0 THEN g ELSE Compared(node, h[i - 1], o, i)
    <3>1. i # 0 => i \in 1..N /\ i - 1 \in 0..N
      BY <1>1
    <3> QED
      BY <1>3, <1>4, <3>1 DEF Iterates
  <2>2. h = [i \in 0..N |-> h[i]]
    OBVIOUS
  <2> QED
    BY <2>1, <2>2 DEF IsInner
<1>6. IsInner(f, node, g, o)
  BY <1>5, Zenon
<1>7. ComparedAll(node, g, o) = f[N]
  BY DEF ComparedAll, IsInner
<1> HIDE DEF f
<1>8. f = [i \in 0..N |-> IF i = 0 THEN g ELSE Compared(node, f[i - 1], o, i)]
  BY <1>6 DEF IsInner
<1>9. f[0] = g /\ \A i \in 1..N : f[i] = Compared(node, f[i - 1], o, i)
  BY <1>1, <1>8
<1> DEFINE T == {k \in Nat : k <= N => f[k] \in GroupType}
<1>10. 0 \in T
  BY <1>9
<1>11. ASSUME NEW k \in Nat, k \in T PROVE k + 1 \in T
  <2> SUFFICES ASSUME k + 1 <= N PROVE f[k + 1] \in GroupType
    OBVIOUS
  <2>1. k + 1 \in 1..N /\ k + 1 \in Roots /\ (k + 1) - 1 = k /\ f[k] \in GroupType
    BY <1>1, <1>11 DEF Roots
  <2> QED
    BY <1>9, <2>1, ComparedType
<1>12. \A k \in Nat : k \in T
  <2> HIDE DEF T
  <2> QED
    BY <1>10, <1>11, Induct
<1>13. f \in [0..N -> GroupType]
  BY <1>1, <1>8, <1>12
<1> QED
  BY <1>7, <1>9, <1>13 DEF InnerLoop

(* The groups before the loops: a group of its own for each directory of W. *)
LEMMA FreshIs ==
    ASSUME NEW W \in SUBSET Roots
    PROVE  /\ fresh_groups(W) \in GroupType
           /\ \A c, d \in W : fresh_groups(W)[c] = fresh_groups(W)[d] => c = d
<1> DEFINE Below(i) == {j \in W : j < i}
<1>0. N \in Nat /\ Roots = 1..N /\ \A j \in W : j \in 1..N
  <2>1. N \in Nat /\ Roots = 1..N
    BY CountAssumption DEF Roots
  <2> QED
    BY <2>1
<1>1. ASSUME NEW i \in Roots
      PROVE  IsFiniteSet(Below(i)) /\ Cardinality(Below(i)) \in 0..(N - 1)
  <2>1. IsFiniteSet(1..(i - 1)) /\ Cardinality(1..(i - 1)) = i - 1
    BY <1>0, FS_Interval
  <2>2. ASSUME NEW j \in Below(i) PROVE j \in 1..(i - 1)
    <3>1. i \in 1..N /\ j \in 1..N /\ j < i
      BY <1>0
    <3> QED
      BY <1>0, <3>1
  <2>3. IsFiniteSet(Below(i)) /\ Cardinality(Below(i)) <= i - 1
    BY <2>1, <2>2, FS_Subset
  <2>4. Cardinality(Below(i)) \in Nat
    BY <2>3, FS_CardinalityType
  <2> HIDE DEF Below
  <2> QED
    BY <1>0, <2>3, <2>4
<1>2. ASSUME NEW c \in W, NEW d \in W, c < d
      PROVE  Cardinality(Below(c)) # Cardinality(Below(d))
  <2>1. IsFiniteSet(Below(d)) /\ Below(c) \subseteq Below(d)
    <3>1. ASSUME NEW j \in W, j < c PROVE j < d
      <4>1. j \in 1..N /\ c \in 1..N /\ d \in 1..N
        BY <1>0
      <4> QED
        BY <1>0, <1>2, <3>1, <4>1
    <3>2. d \in Roots
      OBVIOUS
    <3> QED
      BY <1>1, <3>1, <3>2
  <2>2. c \in Below(d) /\ c \notin Below(c)
    BY <1>0, <1>2
  <2> HIDE DEF Below
  <2> QED
    BY <2>1, <2>2, FS_Subset
<1>3. \A i \in W : fresh_groups(W)[i] = Cardinality(Below(i))
  BY DEF fresh_groups
<1>4. fresh_groups(W) \in GroupType
  BY <1>1 DEF fresh_groups, GroupType
<1>5. ASSUME NEW c \in W, NEW d \in W, fresh_groups(W)[c] = fresh_groups(W)[d] PROVE c = d
  <2>1. Cardinality(Below(c)) = Cardinality(Below(d))
    BY <1>3, <1>5
  <2> HIDE DEF Below
  <2> QED
    BY <1>0, <1>2, <2>1
<1> QED
  BY <1>4, <1>5

(* h is the outer loop: h[o] is what the groups are after directory o. *)
IsOuter(h, node) ==
    h = [o \in 0..N |-> IF o = 0 THEN fresh_groups(node.path) ELSE ComparedAll(node, h[o - 1], o)]

OuterLoop(h, node) ==
    /\ h \in [0..N -> GroupType] /\ h[0] = fresh_groups(node.path)
    /\ \A o \in 1..N : h[o] = ComparedAll(node, h[o - 1], o)

LEMMA ComparedAllType ==
    ASSUME NEW node, NEW g \in GroupType, NEW o \in Roots
    PROVE  ComparedAll(node, g, o) \in GroupType
<1>1. PICK f : InnerLoop(f, node, g, o) /\ ComparedAll(node, g, o) = f[N]
  BY ComparedAllIs
<1>2. N \in 0..N
  BY CountAssumption
<1> QED
  BY <1>1, <1>2 DEF InnerLoop

LEMMA FindDuplicatesIs ==
    ASSUME NEW node, node.path \in SUBSET Roots
    PROVE  \E h : OuterLoop(h, node) /\ find_duplicates(node) = h[N]
<1> DEFINE F == [p \in GroupType \X (1..N) |-> ComparedAll(node, p[1], p[2])]
           f == CHOOSE h : IsOuter(h, node)
           first == fresh_groups(node.path)
<1>1. N \in Nat /\ 0 \in 0..N /\ first \in GroupType
  BY CountAssumption, FreshIs
<1>2. F \in [GroupType \X (1..N) -> GroupType]
  BY ComparedAllType DEF Roots
<1>3. \A h \in GroupType, o \in 1..N : F[<<h, o>>] = ComparedAll(node, h, o)
  OBVIOUS
<1> HIDE DEF F, first
<1>4. PICK h \in [0..N -> GroupType] : Iterates(h, F, first, N)
  BY <1>1, <1>2, IterateExists
<1>5. IsOuter(h, node)
  <2>1. ASSUME NEW o \in 0..N
        PROVE  h[o] = IF o = 0 THEN first ELSE ComparedAll(node, h[o - 1], o)
    <3>1. o # 0 => o \in 1..N /\ o - 1 \in 0..N
      BY <1>1
    <3> QED
      BY <1>3, <1>4, <3>1 DEF Iterates
  <2>2. h = [o \in 0..N |-> h[o]]
    OBVIOUS
  <2> QED
    BY <2>1, <2>2 DEF IsOuter, first
<1>6. IsOuter(f, node)
  BY <1>5, Zenon
<1>7. find_duplicates(node) = f[N]
  BY DEF find_duplicates, IsOuter
<1> HIDE DEF f
<1>8. f = [o \in 0..N |-> IF o = 0 THEN first ELSE ComparedAll(node, f[o - 1], o)]
  BY <1>6 DEF IsOuter, first
<1>9. f[0] = first /\ \A o \in 1..N : f[o] = ComparedAll(node, f[o - 1], o)
  BY <1>1, <1>8
<1> DEFINE T == {k \in Nat : k <= N => f[k] \in GroupType}
<1>10. 0 \in T
  BY <1>1, <1>9
<1>11. ASSUME NEW k \in Nat, k \in T PROVE k + 1 \in T
  <2> SUFFICES ASSUME k + 1 <= N PROVE f[k + 1] \in GroupType
    OBVIOUS
  <2>1. k + 1 \in 1..N /\ k + 1 \in Roots /\ (k + 1) - 1 = k /\ f[k] \in GroupType
    BY <1>1, <1>11 DEF Roots
  <2> QED
    BY <1>9, <2>1, ComparedAllType
<1>12. \A k \in Nat : k \in T
  <2> HIDE DEF T
  <2> QED
    BY <1>10, <1>11, Induct
<1>13. f \in [0..N -> GroupType]
  BY <1>1, <1>8, <1>12
<1> QED
  BY <1>7, <1>9, <1>13 DEF OuterLoop, first

LEMMA FindDuplicatesType ==
    ASSUME NEW node, node.path \in SUBSET Roots PROVE find_duplicates(node) \in GroupType
<1>1. PICK h : OuterLoop(h, node) /\ find_duplicates(node) = h[N]
  BY FindDuplicatesIs
<1>2. N \in 0..N
  BY CountAssumption
<1> QED
  BY <1>1, <1>2 DEF OuterLoop

(* Where sameness is that of a key s, the groups become the classes of     *)
(* equal keys: a group always comes from a lower or equal directory of the *)
(* same key, and the outer loop settles the class of each directory that   *)
(* is the first of its class.                                              *)
SameKey(node, s) ==
    \A i, j \in node.path : Same(At(i, node.rel), At(j, node.rel)) <=> s[i] = s[j]

Merged(W, s, g) ==
    \A x \in W : \E c \in W : c <= x /\ s[c] = s[x] /\ g[x] = fresh_groups(W)[c]

FirstOf(W, s, m) == m \in W /\ \A y \in W : s[y] = s[m] => m <= y

Settled(W, s, g, m, i) == \A y \in W : y <= i /\ s[y] = s[m] => g[y] = fresh_groups(W)[m]

(* After the outer loop's first o directories, and after the inner one's i. *)
OuterInv(W, s, g, o) ==
    Merged(W, s, g) /\ \A m \in W : m <= o /\ FirstOf(W, s, m) => Settled(W, s, g, m, N)

InnerInv(W, s, g, o, i) ==
    OuterInv(W, s, g, o - 1) /\ (FirstOf(W, s, o) => Settled(W, s, g, o, i))

LEMMA FirstIsFresh ==
    ASSUME NEW W \in SUBSET Roots, NEW s, NEW g, Merged(W, s, g), NEW m, FirstOf(W, s, m)
    PROVE  g[m] = fresh_groups(W)[m]
<1>1. m \in W /\ \A y \in W : s[y] = s[m] => m <= y
  BY DEF FirstOf
<1>2. PICK c \in W : c <= m /\ s[c] = s[m] /\ g[m] = fresh_groups(W)[c]
  BY <1>1 DEF Merged
<1>3. c \in 1..N /\ m \in 1..N
  BY <1>1 DEF Roots
<1>4. c = m
  BY <1>1, <1>2, <1>3, CountAssumption
<1> QED
  BY <1>2, <1>4

LEMMA ComparedKeeps ==
    ASSUME NEW node, NEW s, NEW W, W = node.path, W \in SUBSET Roots, SameKey(node, s),
           NEW g \in GroupType, NEW o \in Roots, NEW i \in Roots, InnerInv(W, s, g, o, i - 1),
           NEW h, h = Compared(node, g, o, i)
    PROVE  InnerInv(W, s, h, o, i)
<1>0. N \in Nat /\ o \in 1..N /\ i \in 1..N /\ \A x \in W : x \in 1..N
  <2>1. N \in Nat /\ Roots = 1..N
    BY CountAssumption DEF Roots
  <2> QED
    BY <2>1
<1>1. /\ Merged(W, s, g)
      /\ \A m \in W : m <= o - 1 /\ FirstOf(W, s, m) => Settled(W, s, g, m, N)
      /\ FirstOf(W, s, o) => Settled(W, s, g, o, i - 1)
  BY DEF InnerInv, OuterInv
<1>2. CASE ~(o # i /\ o \in W /\ i \in W /\ s[o] = s[i])
  <2>1. h = g
    BY <1>2 DEF Compared, SameKey
  <2>2. ASSUME FirstOf(W, s, o), NEW y \in W, y <= i, s[y] = s[o]
        PROVE  g[y] = fresh_groups(W)[o]
    <3>1. CASE y <= i - 1
      BY <1>1, <2>2, <3>1 DEF Settled
    <3>2. CASE ~(y <= i - 1)
      <4>1. y = i /\ o \in W
        BY <1>0, <2>2, <3>2 DEF FirstOf
      <4>2. y = o
        BY <1>2, <2>2, <4>1
      <4> QED
        BY <1>1, <2>2, <4>2, FirstIsFresh
    <3> QED
      BY <3>1, <3>2
  <2>3. FirstOf(W, s, o) => Settled(W, s, g, o, i)
    BY <2>2 DEF Settled
  <2> QED
    BY <1>1, <2>1, <2>3 DEF InnerInv, OuterInv
<1>3. CASE o # i /\ o \in W /\ i \in W /\ s[o] = s[i]
  <2> DEFINE lo == MinOf(o, i)
             hi == MaxOf(o, i)
  <2>1. h = [g EXCEPT ![hi] = g[lo]]
    BY <1>3 DEF Compared, SameKey, Merge
  <2>2. /\ lo \in W /\ hi \in W /\ lo \in 1..N /\ hi \in 1..N /\ lo < hi /\ s[lo] = s[hi]
        /\ s[hi] = s[o] /\ (o < i => lo = o /\ hi = i)
    BY <1>0, <1>3 DEF MinOf, MaxOf
  <2>3. hi \in Roots
    BY <2>2
  <2> HIDE DEF lo, hi
  <2>4. h[hi] = g[lo] /\ \A x \in W : x # hi => h[x] = g[x]
    BY <2>1, <2>3 DEF GroupType
  <2>5. Merged(W, s, h)
    <3> SUFFICES ASSUME NEW x \in W
                 PROVE  \E c \in W : c <= x /\ s[c] = s[x] /\ h[x] = fresh_groups(W)[c]
      BY DEF Merged
    <3>1. CASE x = hi
      <4>1. PICK c \in W : c <= lo /\ s[c] = s[lo] /\ g[lo] = fresh_groups(W)[c]
        BY <1>1, <2>2 DEF Merged
      <4>2. c \in 1..N
        BY <1>0
      <4>3. c <= hi
        BY <1>0, <2>2, <4>1, <4>2
      <4> QED
        BY <2>2, <2>4, <3>1, <4>1, <4>3
    <3>2. CASE x # hi
      BY <1>1, <2>4, <3>2 DEF Merged
    <3> QED
      BY <3>1, <3>2
  <2>6. ASSUME NEW m \in W, m <= o - 1, FirstOf(W, s, m) PROVE Settled(W, s, h, m, N)
    <3> SUFFICES ASSUME NEW y \in W, y <= N, s[y] = s[m] PROVE h[y] = fresh_groups(W)[m]
      BY DEF Settled
    <3>1. \A z \in W : z <= N /\ s[z] = s[m] => g[z] = fresh_groups(W)[m]
      BY <1>1, <2>6 DEF Settled
    <3>2. CASE y = hi
      <4>1. lo <= N
        BY <1>0, <2>2
      <4> QED
        BY <2>2, <2>4, <3>1, <3>2, <4>1
    <3>3. CASE y # hi
      BY <2>4, <3>1, <3>3
    <3> QED
      BY <3>2, <3>3
  <2>7. ASSUME FirstOf(W, s, o), NEW y \in W, y <= i, s[y] = s[o]
        PROVE  h[y] = fresh_groups(W)[o]
    <3>1. o <= i
      BY <1>3, <2>7 DEF FirstOf
    <3>2. lo = o /\ hi = i
      BY <1>0, <1>3, <2>2, <3>1
    <3>3. CASE y = hi
      <4>1. g[o] = fresh_groups(W)[o]
        BY <1>1, <2>7, FirstIsFresh
      <4> QED
        BY <2>4, <3>2, <3>3, <4>1
    <3>4. CASE y # hi
      <4>1. y <= i - 1
        BY <1>0, <2>7, <3>2, <3>4
      <4>2. g[y] = fresh_groups(W)[o]
        BY <1>1, <2>7, <4>1 DEF Settled
      <4> QED
        BY <2>4, <3>4, <4>2
    <3> QED
      BY <3>3, <3>4
  <2>8. FirstOf(W, s, o) => Settled(W, s, h, o, i)
    BY <2>7 DEF Settled
  <2> QED
    BY <2>5, <2>6, <2>8 DEF InnerInv, OuterInv
<1> QED
  BY <1>2, <1>3

LEMMA ComparedAllKeeps ==
    ASSUME NEW node, NEW s, NEW W, W = node.path, W \in SUBSET Roots, SameKey(node, s),
           NEW g \in GroupType, NEW o \in Roots, OuterInv(W, s, g, o - 1)
    PROVE  OuterInv(W, s, ComparedAll(node, g, o), o)
<1>0. N \in Nat /\ Roots = 1..N
  BY CountAssumption DEF Roots
<1>1. PICK f : InnerLoop(f, node, g, o) /\ ComparedAll(node, g, o) = f[N]
  BY ComparedAllIs
<1>2. /\ f \in [0..N -> GroupType] /\ f[0] = g
      /\ \A i \in 1..N : f[i] = Compared(node, f[i - 1], o, i)
  BY <1>1 DEF InnerLoop
<1> DEFINE T == {k \in Nat : k <= N => InnerInv(W, s, f[k], o, k)}
<1>3. 0 \in T
  <2>1. ~ \E y \in W : y <= 0
    BY <1>0
  <2>2. Settled(W, s, g, o, 0)
    BY <2>1 DEF Settled
  <2> QED
    BY <1>2, <2>2 DEF InnerInv
<1>4. ASSUME NEW k \in Nat, k \in T PROVE k + 1 \in T
  <2> SUFFICES ASSUME k + 1 <= N PROVE InnerInv(W, s, f[k + 1], o, k + 1)
    OBVIOUS
  <2>1. k + 1 \in 1..N /\ (k + 1) - 1 = k /\ k \in 0..N /\ k <= N
    BY <1>0
  <2>2. f[k] \in GroupType /\ f[k + 1] = Compared(node, f[k], o, k + 1) /\ k + 1 \in Roots
    BY <1>0, <1>2, <2>1
  <2>3. InnerInv(W, s, f[k], o, (k + 1) - 1)
    BY <1>4, <2>1
  <2> HIDE DEF T
  <2> QED
    BY <2>2, <2>3, ComparedKeeps
<1>5. \A k \in Nat : k \in T
  <2> HIDE DEF T
  <2> QED
    BY <1>3, <1>4, Induct
<1>6. InnerInv(W, s, f[N], o, N)
  BY <1>0, <1>5
<1>7. ASSUME NEW m \in W, m <= o, FirstOf(W, s, m) PROVE Settled(W, s, f[N], m, N)
  <2>1. m \in 1..N /\ o \in 1..N
    BY <1>0
  <2>2. m <= o - 1 \/ m = o
    BY <1>0, <1>7, <2>1
  <2> QED
    BY <1>6, <1>7, <2>2 DEF InnerInv, OuterInv
<1> QED
  BY <1>1, <1>6, <1>7 DEF InnerInv, OuterInv

(* What find_duplicates promises, whatever the order of the pairs. *)
LEMMA FindDuplicatesClasses ==
    ASSUME NEW node, NEW s, NEW W, W = node.path, W \in SUBSET Roots, SameKey(node, s),
           NEW i \in W, NEW j \in W
    PROVE  find_duplicates(node)[i] = find_duplicates(node)[j] <=> s[i] = s[j]
<1>0. N \in Nat /\ Roots = 1..N /\ \A x \in W : x \in 1..N
  <2>1. N \in Nat /\ Roots = 1..N
    BY CountAssumption DEF Roots
  <2> QED
    BY <2>1
<1>1. PICK f : OuterLoop(f, node) /\ find_duplicates(node) = f[N]
  BY FindDuplicatesIs
<1>2. /\ f \in [0..N -> GroupType] /\ f[0] = fresh_groups(W)
      /\ \A o \in 1..N : f[o] = ComparedAll(node, f[o - 1], o)
  BY <1>1 DEF OuterLoop
<1> DEFINE T == {k \in Nat : k <= N => OuterInv(W, s, f[k], k)}
<1>3. 0 \in T
  <2>1. Merged(W, s, f[0])
    BY <1>0, <1>2 DEF Merged
  <2>2. \A m \in W : ~(m <= 0)
    BY <1>0
  <2> QED
    BY <2>1, <2>2 DEF OuterInv
<1>4. ASSUME NEW k \in Nat, k \in T PROVE k + 1 \in T
  <2> SUFFICES ASSUME k + 1 <= N PROVE OuterInv(W, s, f[k + 1], k + 1)
    OBVIOUS
  <2>1. k + 1 \in 1..N /\ (k + 1) - 1 = k /\ k \in 0..N /\ k <= N
    BY <1>0
  <2>2. f[k] \in GroupType /\ f[k + 1] = ComparedAll(node, f[k], k + 1) /\ k + 1 \in Roots
    BY <1>0, <1>2, <2>1
  <2>3. OuterInv(W, s, f[k], (k + 1) - 1)
    BY <1>4, <2>1
  <2> HIDE DEF T
  <2> QED
    BY <2>2, <2>3, ComparedAllKeeps
<1>5. \A k \in Nat : k \in T
  <2> HIDE DEF T
  <2> QED
    BY <1>3, <1>4, Induct
<1>6. OuterInv(W, s, f[N], N)
  BY <1>0, <1>5
<1>7. ASSUME s[i] = s[j] PROVE f[N][i] = f[N][j]
  <2> DEFINE C == {y \in W : s[y] = s[i]}
  <2>1. C \subseteq Nat /\ C # {}
    BY <1>0
  <2>2. PICK m \in C : \A y \in C : m <= y
    BY <2>1, Least
  <2>3. m \in W /\ s[m] = s[i] /\ FirstOf(W, s, m) /\ m <= N /\ i <= N /\ j <= N
    BY <1>0, <2>2 DEF FirstOf
  <2>4. \A y \in W : y <= N /\ s[y] = s[m] => f[N][y] = fresh_groups(W)[m]
    BY <1>6, <2>3 DEF OuterInv, Settled
  <2> QED
    BY <1>7, <2>3, <2>4
<1>8. ASSUME f[N][i] = f[N][j] PROVE s[i] = s[j]
  <2>1. PICK c \in W : c <= i /\ s[c] = s[i] /\ f[N][i] = fresh_groups(W)[c]
    BY <1>6 DEF OuterInv, Merged
  <2>2. PICK d \in W : d <= j /\ s[d] = s[j] /\ f[N][j] = fresh_groups(W)[d]
    BY <1>6 DEF OuterInv, Merged
  <2>3. c = d
    BY <1>8, <2>1, <2>2, FreshIs
  <2> QED
    BY <2>1, <2>2, <2>3
<1> QED
  BY <1>1, <1>7, <1>8
-----------------------------------------------------------------------------
(* What is left of TypeOK: the root is in every directory, what is found   *)
(* exists somewhere, and the groups are numbers of directories.            *)
RestTypes ==
    /\ fs \in [Roots -> Trees] /\ changes \in 0..MaxChanges
    /\ flat_data[1].parent = 0 /\ flat_data[1].path = Roots
    /\ \A n \in Nodes : flat_data[n].path # {}
    /\ \A k \in 1..Len(found) : found[k].path # {}
    /\ groups \in Seq(Row(GroupType))
    /\ unread \subseteq Roots \X ({<<>>} \union Paths)
    /\ phase \in {"walk", "report", "write", "done", "panic"}

LEMMA RestTypesEnough == ASSUME WalkInv, ReportInv, RestTypes PROVE TypeOK
<1>1. /\ Nodes = 1..Len(flat_data) /\ Len(flat_data) \in Nat
      /\ \A n \in Nodes : flat_data[n] \in NodeType
      /\ curr \in {0} \union Nodes /\ sib \in 1..(N + 1) /\ pending \subseteq Paths
  BY NodesInterval DEF WalkInv, WalkTypes
<1>2. ASSUME NEW n \in Nodes
      PROVE  /\ flat_data[n].parent \in {0} \union Nodes
             /\ Range(flat_data[n].child) \subseteq Nodes
             /\ flat_data[n].rel \in {<<>>} \union Paths
             /\ flat_data[n].path \in (SUBSET Roots) \ {{}}
  <2>1. /\ flat_data[n].child \in Seq(Nat) /\ flat_data[n].path \in SUBSET Roots
        /\ flat_data[n].rel \in {<<>>} \union Paths
    BY <1>1 DEF NodeType
  <2>2. flat_data[n].parent \in {0} \union Nodes
    <3>1. CASE n = 1
      BY <3>1 DEF RestTypes
    <3>2. CASE n # 1
      BY <1>1, <3>2 DEF WalkInv, Tree
    <3> QED
      BY <3>1, <3>2
  <2>3. Range(flat_data[n].child) \subseteq Nodes
    <3>1. DOMAIN flat_data[n].child = 1..Len(flat_data[n].child)
      BY <2>1
    <3>2. \A j \in 1..Len(flat_data[n].child) : flat_data[n].child[j] \in Nodes
      BY DEF WalkInv, Tree
    <3> QED
      BY <3>1, <3>2 DEF Range
  <2> QED
    BY <2>1, <2>2, <2>3 DEF RestTypes
<1>3. Range(remain_dirs) \subseteq Nodes
  <2>1. DOMAIN remain_dirs = 1..Len(remain_dirs)
          /\ \A k \in 1..Len(remain_dirs) : remain_dirs[k] \in Nodes
    BY DEF WalkInv, WalkTypes
  <2> QED
    BY <2>1 DEF Range
<1>4. \A k \in DOMAIN groups : groups[k].node \in Nodes /\ groups[k].group \in GroupType
  <2>1. DOMAIN groups = 1..Len(groups) /\ \A k \in 1..Len(groups) : groups[k] \in Row(GroupType)
    BY DEF RestTypes
  <2> QED
    BY <2>1 DEF ReportInv, Order, Row
<1> QED
  BY <1>1, <1>2, <1>3, <1>4 DEF TypeOK, RestTypes, GroupType

LEMMA RestInit == Init => RestTypes
<1> SUFFICES ASSUME Init PROVE RestTypes
  OBVIOUS
<1>1. /\ flat_data = << Node(0, <<>>, Roots) >> /\ found = <<>> /\ groups = <<>>
      /\ fs \in [Roots -> Trees] /\ changes = 0 /\ phase = "walk" /\ unread = {}
  BY DEF Init
<1>2. Nodes = {1} /\ flat_data[1].parent = 0 /\ flat_data[1].path = Roots
  BY <1>1 DEF Nodes, Node
<1>3. Roots # {}
  BY CountAssumption DEF Roots
<1> QED
  BY <1>1, <1>2, <1>3, CountAssumption DEF RestTypes

(* One entry read: it is found again, or is new. *)
TakenAgain(p) ==
    /\ fs[sib][p] # Absent /\ phase' = phase /\ Len(found') = Len(found)
    /\ \E k \in 1..Len(found) : found[k].rel = p
    /\ \A k \in 1..Len(found) :
          /\ found'[k].rel = found[k].rel
          /\ found'[k].path = IF found[k].rel = p THEN found[k].path \union {sib} ELSE found[k].path

TakenNew(p) ==
    /\ fs[sib][p] # Absent /\ phase' = phase /\ Len(found') = Len(found) + 1
    /\ \A k \in 1..Len(found) : found'[k] = found[k] /\ found[k].rel # p
    /\ found'[Len(found) + 1].rel = p /\ found'[Len(found) + 1].path = {sib}

LEMMA Taken ==
    ASSUME WalkInv, NEW p \in Paths, TakeEntry(p)
    PROVE  /\ Len(found) \in Nat
           /\ TakenAgain(p) \/ TakenNew(p)
<1>1. found \in Seq(FoundType) /\ Len(found) \in Nat /\ DOMAIN found = 1..Len(found)
        /\ \A k \in 1..Len(found) : found[k] \in FoundType
  BY DEF WalkInv, WalkTypes
<1>2. fs[sib][p] # Absent /\ phase' = phase
  BY DEF TakeEntry
<1>3. CASE \E k \in DOMAIN found : found[k].rel = p
  <2>1. found' = [k \in DOMAIN found |-> IF found[k].rel = p
                           THEN [found[k] EXCEPT !.path = @ \union {sib}] ELSE found[k]]
    BY <1>3 DEF TakeEntry
  <2>2. \A k \in 1..Len(found) :
          /\ found'[k].rel = found[k].rel
          /\ found'[k].path = IF found[k].rel = p THEN found[k].path \union {sib} ELSE found[k].path
    BY <1>1, <2>1 DEF FoundType
  <2>3. Len(found') = Len(found)
    BY <1>1, <2>1
  <2> QED
    BY <1>1, <1>2, <1>3, <2>2, <2>3 DEF TakenAgain
<1>4. CASE ~ \E k \in DOMAIN found : found[k].rel = p
  <2> DEFINE e == [rel |-> p, path |-> {sib}]
  <2>1. found' = Append(found, e)
    BY <1>4 DEF TakeEntry
  <2>2. e.rel = p /\ e.path = {sib}
    OBVIOUS
  <2> HIDE DEF e
  <2>3. Len(found') = Len(found) + 1 /\ found'[Len(found) + 1] = e
          /\ \A k \in 1..Len(found) : found'[k] = found[k]
    BY <1>1, <2>1
  <2>4. \A k \in 1..Len(found) : found[k].rel # p
    BY <1>1, <1>4
  <2> QED
    BY <1>1, <1>2, <2>2, <2>3, <2>4 DEF TakenNew
<1> QED
  BY <1>1, <1>3, <1>4

(* The node of a new line, and what find_duplicates says of it. *)
LEMMA NewLine ==
    ASSUME WalkInv, ReportInv, RestTypes, Report
    PROVE  \E n \in Nodes :
             /\ groups' \in Seq(Row(GroupType)) /\ Len(groups') = Len(groups) + 1
             /\ Len(groups) \in Nat /\ \A k \in 1..Len(groups) : groups'[k] = groups[k]
             /\ groups'[Len(groups) + 1].node = n
             /\ groups'[Len(groups) + 1].group = find_duplicates(flat_data[n])
<1> DEFINE n == Last(Last(Trimmed(stack)))
           g == find_duplicates(flat_data[n])
           e == [node |-> n, group |-> g, hidden |-> Exclude /\ AllSame(g)]
<1>1. groups' = Append(groups, e) /\ groups \in Seq(Row(GroupType)) /\ Len(groups) \in Nat
  <2>1. groups' = Append(groups, e)
    BY ReportLine
  <2> QED
    BY <2>1 DEF RestTypes
<1>2. groups'[Len(groups) + 1] = e
  BY <1>1
<1>3. n \in Nodes
  <2>1. PICK m \in Nodes : groups'[Len(groups) + 1].node = m
    BY ReportFacts
  <2>2. e.node = n
    OBVIOUS
  <2> HIDE DEF e, n
  <2> QED
    BY <1>2, <2>1, <2>2
<1>4. g \in GroupType
  <2> HIDE DEF n
  <2>1. flat_data[n] \in NodeType
    BY <1>3, NodesInterval DEF WalkInv, WalkTypes
  <2>2. flat_data[n].path \in SUBSET Roots
    BY <2>1 DEF NodeType
  <2> QED
    BY <2>2, FindDuplicatesType
<1>5. e \in Row(GroupType) /\ e.node = n /\ e.group = g
  <2>1. n \in Nat /\ (Exclude /\ AllSame(g)) \in BOOLEAN
    BY <1>3, NodesInterval DEF WalkInv
  <2> HIDE DEF n, g
  <2> QED
    BY <1>4, <2>1 DEF Row
<1> HIDE DEF e
<1>6. /\ groups' \in Seq(Row(GroupType)) /\ Len(groups') = Len(groups) + 1
      /\ groups'[Len(groups) + 1] = e /\ \A k \in 1..Len(groups) : groups'[k] = groups[k]
  BY <1>1, <1>5, Appended, SMTT(60)
<1> HIDE DEF n, g
<1>7. groups'[Len(groups) + 1].node = n /\ groups'[Len(groups) + 1].group = g
  BY <1>5, <1>6
<1> QED
  BY <1>1, <1>3, <1>6, <1>7 DEF g

(* The line written has the groups as they are then. *)
LEMMA LineWritten ==
    ASSUME WalkInv, ReportInv, RestTypes, Write
    PROVE  /\ groups' \in Seq(Row(GroupType)) /\ Len(groups') = Len(groups) /\ Len(groups) \in Nat
           /\ \A k \in 1..Len(groups) :
                 /\ groups[k].node \in Nodes /\ groups'[k].node = groups[k].node
                 /\ groups'[k].group = IF k = Len(groups) THEN find_duplicates(flat_data[groups[k].node])
                                                          ELSE groups[k].group
<1> DEFINE g == find_duplicates(flat_data[Last(groups).node])
<1>1. /\ groups \in Seq(Row(GroupType)) /\ Len(groups) \in Nat
      /\ \A k \in 1..Len(groups) : groups[k] \in Row(GroupType)
      /\ groups' = [groups EXCEPT ![Len(groups)].group = g] /\ phase = "write"
  BY WriteLine DEF Write, RestTypes
<1>2. Len(groups) \in 1..Len(groups) /\ Order /\ Last(groups) = groups[Len(groups)]
  <2>1. groups # <<>> /\ Order
    BY <1>1 DEF ReportInv, ReportTypes
  <2> QED
    BY <1>1, <2>1 DEF Last
<1>3. \A k \in 1..Len(groups) : groups[k].node \in Nodes
  BY <1>2 DEF Order
<1>4. g \in GroupType
  <2>1. flat_data[Last(groups).node] \in NodeType
    BY <1>2, <1>3, NodesInterval DEF WalkInv, WalkTypes
  <2>2. flat_data[Last(groups).node].path \in SUBSET Roots
    BY <2>1 DEF NodeType
  <2> QED
    BY <2>2, FindDuplicatesType
<1> HIDE DEF g
<1>5. groups' = [k \in 1..Len(groups) |->
                   IF k = Len(groups) THEN [groups[k] EXCEPT !.group = g] ELSE groups[k]]
  <2>1. groups = [k \in 1..Len(groups) |-> groups[k]]
    BY <1>1
  <2> QED
    BY <1>1, <2>1
<1>6. \A k \in 1..Len(groups) :
        /\ groups'[k] \in Row(GroupType) /\ groups'[k].node = groups[k].node
        /\ groups'[k].group = IF k = Len(groups) THEN g ELSE groups[k].group
  BY <1>1, <1>4, <1>5 DEF Row
<1>7. groups' \in Seq(Row(GroupType)) /\ Len(groups') = Len(groups)
  <2>1. Len(groups) \in Nat /\ \A k \in 1..Len(groups) : groups'[k] \in Row(GroupType)
    BY <1>1, <1>6
  <2> QED
    BY <1>5, <2>1
<1> QED
  BY <1>1, <1>2, <1>3, <1>6, <1>7 DEF g

LEMMA RestStep == WalkInv /\ ReportInv /\ RestTypes /\ [Next]_vars => RestTypes'
<1> SUFFICES ASSUME WalkInv, ReportInv, RestTypes, [Next]_vars PROVE RestTypes'
  OBVIOUS
<1>0. Nodes = 1..Len(flat_data) /\ 1 \in Nodes
  BY NodesInterval DEF WalkInv, WalkTypes
<1>1. ASSUME Change PROVE RestTypes'
  <2>1. PICK i \in Roots, t \in Trees : fs' = [fs EXCEPT ![i] = t]
    BY <1>1 DEF Change
  <2>2. fs' \in [Roots -> Trees] /\ changes' \in 0..MaxChanges
    BY <1>1, <2>1, CountAssumption DEF Change, RestTypes
  <2>3. UNCHANGED <<flat_data, found, unread, groups, phase>> /\ Nodes' = Nodes
    BY <1>1 DEF Change, listVars, Nodes
  <2> QED
    BY <2>2, <2>3 DEF RestTypes
<1>2. ASSUME PopNode \/ ReadDir \/ EntryFails \/ StartReport \/ Finish \/ UNCHANGED vars
      PROVE  RestTypes'
  <2>1. /\ UNCHANGED <<fs, changes, flat_data, unread, groups>> /\ Nodes' = Nodes
        /\ found' = found \/ found' = <<>>
        /\ phase' \in {phase, "report", "done", "panic"}
    BY <1>2
    DEF PopNode, ReadDir, EntryFails, StartReport, Finish, vars, fsVars, listVars, Nodes
  <2> QED
    BY <2>1 DEF RestTypes
<1>2a. ASSUME ReadDirFails PROVE RestTypes'
  <2>1. /\ UNCHANGED <<fs, changes, flat_data, found, groups, phase>> /\ Nodes' = Nodes
        /\ unread' = unread \union {<<sib, flat_data[curr].rel>>} /\ curr # 0 /\ sib <= N
    BY <1>2a DEF ReadDirFails, fsVars, Nodes
  <2>2. sib \in Roots /\ flat_data[curr] \in NodeType
    BY <1>0, <2>1, CountAssumption DEF WalkInv, WalkTypes, Roots
  <2>3. flat_data[curr].rel \in {<<>>} \union Paths
    BY <2>2 DEF NodeType
  <2> QED
    BY <2>1, <2>2, <2>3 DEF RestTypes
<1>3. ASSUME NEW p \in Paths, TakeEntry(p) PROVE RestTypes'
  <2>1. UNCHANGED <<fs, changes, flat_data, unread, groups, phase>> /\ Nodes' = Nodes
    BY <1>3 DEF TakeEntry, fsVars, Nodes
  <2>2. Len(found) \in Nat /\ (TakenAgain(p) \/ TakenNew(p))
    BY <1>3, Taken
  <2>3. \A k \in 1..Len(found') : found'[k].path # {}
    <3>2. CASE TakenAgain(p)
      BY <3>2 DEF TakenAgain, RestTypes
    <3>3. CASE TakenNew(p)
      <4>1. \A k \in 1..Len(found') : k \in 1..Len(found) \/ k = Len(found) + 1
        BY <2>2, <3>3 DEF TakenNew
      <4> QED
        BY <3>3, <4>1 DEF TakenNew, RestTypes
    <3> QED
      BY <2>2, <3>2, <3>3
  <2> QED
    BY <2>1, <2>3 DEF RestTypes
<1>4. ASSUME EndNode PROVE RestTypes'
  <2>1. UNCHANGED <<fs, changes, unread, groups, phase>> /\ found' = <<>>
    BY <1>4 DEF EndNode, fsVars
  <2>2. PICK ids : EndNodeStep(Len(flat_data), ids)
    BY <1>4, EndNodeFacts
  <2>3. flat_data'[1].parent = 0 /\ flat_data'[1].path = Roots
    BY <1>0, <2>2 DEF EndNodeStep, RestTypes
  <2>4. ASSUME NEW n \in Nodes' PROVE flat_data'[n].path # {}
    <3>1. CASE n \in 1..Len(flat_data)
      BY <1>0, <2>2, <3>1 DEF EndNodeStep, RestTypes
    <3>2. ASSUME NEW k \in 1..Len(found), n = Len(flat_data) + k PROVE flat_data'[n].path # {}
      BY <2>2, <3>2 DEF EndNodeStep, RestTypes
    <3> QED
      BY <2>2, <3>1, <3>2 DEF EndNodeStep
  <2> QED
    BY <2>1, <2>3, <2>4 DEF RestTypes
<1>5. ASSUME Report PROVE RestTypes'
  <2>1. UNCHANGED <<fs, changes, flat_data, found, unread>> /\ Nodes' = Nodes
          /\ phase' \in {"report", "write", "panic"}
    BY <1>5, ReportLine DEF Report, fsVars, listVars, Nodes
  <2>2. groups' \in Seq(Row(GroupType))
    BY <1>5, NewLine
  <2> QED
    BY <2>1, <2>2 DEF RestTypes
<1>6. ASSUME Write PROVE RestTypes'
  <2>1. UNCHANGED <<fs, changes, flat_data, found, unread>> /\ Nodes' = Nodes
          /\ phase' \in {"report", "panic"}
    BY <1>6, WriteLine DEF Write, fsVars, listVars, Nodes
  <2>2. groups' \in Seq(Row(GroupType))
    BY <1>6, LineWritten
  <2> QED
    BY <2>1, <2>2 DEF RestTypes
<1> QED
  BY <1>1, <1>2, <1>2a, <1>3, <1>4, <1>5, <1>6 DEF Next, Run

(* Whatever the directories do, nodes, queue and report stay well typed:   *)
(* every number is that of a node, each node exists somewhere, and         *)
(* find_duplicates gives every directory no group or one below N.          *)
THEOREM DiffTypeCorrect == Spec => []TypeOK
<1>1. Spec => [](WalkInv /\ ReportInv /\ RestTypes)
  BY WalkInit, WalkStep, ReportInit, ReportStep, RestInit, RestStep, PTL DEF Spec
<1> QED
  BY <1>1, RestTypesEnough, PTL
-----------------------------------------------------------------------------
(* As long as the directories stay as they are.  Directory i was looked at *)
(* for p, a child of the node being listed: s is the directory listed      *)
(* next, left what was read there and not looked at.                       *)
Seen(s, left, i, p) == i < s \/ (i = s /\ left # {} /\ p \notin left)

(* Directory i has node n, and could be read there, if it was listed. *)
CouldRead(i, n) == i \in flat_data[n].path /\ <<i, flat_data[n].rel>> \notin unread

(* Nodes and children are where the directories have them, so far as they  *)
(* were looked at and could be read.                                       *)
NodesHad == \A n \in Nodes \ {1}, i \in Roots :
    i \in flat_data[n].path <=> CouldRead(i, flat_data[n].parent) /\ fs[i][flat_data[n].rel] # Absent

PendingHad ==
    /\ pending # {} => CouldRead(sib, curr)
    /\ \A p \in pending : fs[sib][p] # Absent

FoundHad == \A k \in 1..Len(found), i \in Roots :
    i \in found[k].path <=>
        CouldRead(i, curr) /\ Seen(sib, pending, i, found[k].rel) /\ fs[i][found[k].rel] # Absent

(* Nothing is left out, of the node being listed or of one listed before. *)
AllFound == curr # 0 => \A p \in Paths, i \in Roots :
    /\ Front(p) = flat_data[curr].rel /\ CouldRead(i, curr)
    /\ Seen(sib, pending, i, p) /\ fs[i][p] # Absent
    => \E k \in 1..Len(found) : found[k].rel = p

AllNodes == \A n \in Nodes, p \in Paths, i \in Roots :
    flat_data[n].rel = Front(p) /\ CouldRead(i, n) /\ fs[i][p] # Absent =>
        \/ n = curr
        \/ \E k \in 1..Len(remain_dirs) : remain_dirs[k] = n
        \/ \E m \in Nodes : flat_data[m].rel = p

(* What could not be read was listed. *)
UnreadListed == \A i \in Roots, x \in {<<>>} \union Paths : <<i, x>> \in unread =>
    \E n \in Nodes :
        /\ flat_data[n].rel = x
        /\ \A k \in 1..Len(remain_dirs) : remain_dirs[k] # n
        /\ n = curr => i < sib

WalkOver == phase \in {"report", "write", "done"} => curr = 0 /\ remain_dirs = <<>>

Union    == NodesHad /\ PendingHad /\ FoundHad /\ AllFound /\ AllNodes /\ UnreadListed /\ WalkOver
UnionInv == changes = 0 => Union

LEMMA PathParts ==
    ASSUME NEW p \in Paths
    PROVE  /\ p # <<>> /\ Len(p) \in Nat \ {0}
           /\ Len(p) = 1 => Front(p) = <<>>
           /\ Len(p) > 1 => Front(p) \in Paths /\ Len(Front(p)) = Len(p) - 1
<1>1. p \in Seq(Range(p)) /\ p # <<>> /\ (Len(p) > 1 => Front(p) \in Paths)
  BY PathsAssumption
<1>2. Len(p) \in Nat \ {0}
  BY <1>1
<1>3. Front(p) = SubSeq(p, 1, Len(p) - 1)
  BY <1>1 DEF Front
<1>4. Len(p) = 1 => Front(p) = <<>>
  BY <1>1, <1>3
<1>5. Len(Front(p)) = Len(p) - 1
  <2> DEFINE S == Range(p)
             t == Front(p)
             n == Len(p) - 1
  <2>1. p \in Seq(S) /\ n \in 0..Len(p) /\ t = SubSeq(p, 1, n)
    BY <1>1, <1>2, <1>3
  <2> HIDE DEF S, t, n
  <2>2. Len(t) = n
    BY <2>1, Prefix, Zenon
  <2> QED
    BY <2>2 DEF t, n
<1> QED
  BY <1>1, <1>2, <1>4, <1>5

(* What has an entry below the node being listed is a directory there. *)
LEMMA DirWhereSomething ==
    ASSUME WalkInv, RestTypes, curr # 0,
           NEW i \in Roots, NEW p \in Paths, Front(p) = flat_data[curr].rel, fs[i][p] # Absent
    PROVE  At(i, flat_data[curr].rel) = Dir
<1>1. curr \in Nodes /\ ((flat_data[curr].rel = <<>>) <=> (curr = 1))
  BY DEF WalkInv, WalkTypes
<1>2. CASE flat_data[curr].rel = <<>>
  BY <1>1, <1>2 DEF RestTypes, At
<1>3. CASE flat_data[curr].rel # <<>>
  <2>1. Len(p) > 1 /\ Front(p) \in Paths
    <3>1. Len(p) \in Nat \ {0} /\ Len(p) # 1 /\ (Len(p) > 1 => Front(p) \in Paths)
      BY <1>3, PathParts
    <3>2. \A n \in Nat \ {0} : n # 1 => n > 1
      OBVIOUS
    <3> QED
      BY <3>1, <3>2, Zenon
  <2>2. IsTree(fs[i])
    BY DEF RestTypes, Trees
  <2>3. fs[i][Front(p)] = Dir
    BY <2>1, <2>2 DEF IsTree
  <2> QED
    BY <1>3, <2>3 DEF At
<1> QED
  BY <1>2, <1>3

LEMMA UnionInit == Init => UnionInv
<1> SUFFICES ASSUME Init PROVE UnionInv
  OBVIOUS
<1>1. /\ flat_data = << Node(0, <<>>, Roots) >> /\ remain_dirs = <<1>>
      /\ curr = 0 /\ sib = 1 /\ pending = {} /\ found = <<>> /\ phase = "walk" /\ unread = {}
  BY DEF Init
<1>2. Nodes = {1}
  BY <1>1 DEF Nodes
<1>3. Len(remain_dirs) = 1 /\ remain_dirs[1] = 1 /\ Len(found) = 0
  BY <1>1
<1> QED
  BY <1>1, <1>2, <1>3
  DEF UnionInv, Union, NodesHad, PendingHad, FoundHad, AllFound, AllNodes, UnreadListed, WalkOver

LEMMA PopNodeUnion == ASSUME WalkInv, Union, PopNode PROVE Union'
<1>1. /\ flat_data' = flat_data /\ Nodes' = Nodes /\ fs' = fs /\ phase' = phase /\ phase = "walk"
      /\ curr = 0 /\ remain_dirs # <<>>
      /\ curr' = Head(remain_dirs) /\ remain_dirs' = Tail(remain_dirs)
      /\ sib' = 1 /\ pending' = {} /\ found' = <<>> /\ Len(found') = 0 /\ unread' = unread
  BY DEF PopNode, fsVars, Nodes
<1>2. remain_dirs \in Seq(Nat) /\ Len(remain_dirs) \in Nat /\ curr' = remain_dirs[1]
        /\ Len(remain_dirs') = Len(remain_dirs) - 1
        /\ \A k \in 1..Len(remain_dirs') : remain_dirs'[k] = remain_dirs[k + 1]
  BY <1>1 DEF WalkInv, WalkTypes
<1>3. \A n : (\E k \in 1..Len(remain_dirs) : remain_dirs[k] = n) =>
               n = curr' \/ \E k \in 1..Len(remain_dirs') : remain_dirs'[k] = n
  <2> SUFFICES ASSUME NEW k \in 1..Len(remain_dirs)
               PROVE  \/ remain_dirs[k] = curr'
                      \/ \E j \in 1..Len(remain_dirs') : remain_dirs'[j] = remain_dirs[k]
    OBVIOUS
  <2>1. CASE k = 1
    BY <1>2, <2>1
  <2>2. CASE k # 1
    <3>1. k - 1 \in 1..Len(remain_dirs') /\ (k - 1) + 1 = k
      BY <1>2, <2>2
    <3>2. remain_dirs'[k - 1] = remain_dirs[k]
      BY <1>2, <3>1
    <3> QED
      BY <3>1, <3>2
  <2> QED
    BY <2>1, <2>2
<1>4. \A n \in Nodes : n # curr
  BY <1>1, NodesInterval DEF WalkInv
<1>5. AllNodes'
  <2> SUFFICES ASSUME NEW n \in Nodes, NEW p \in Paths, NEW i \in Roots,
                      flat_data[n].rel = Front(p), CouldRead(i, n), fs[i][p] # Absent
               PROVE  \/ n = curr'
                      \/ \E k \in 1..Len(remain_dirs') : remain_dirs'[k] = n
                      \/ \E m \in Nodes : flat_data[m].rel = p
    BY <1>1 DEF AllNodes, CouldRead
  <2>1. (\E k \in 1..Len(remain_dirs) : remain_dirs[k] = n) \/ \E m \in Nodes : flat_data[m].rel = p
    BY <1>4 DEF Union, AllNodes
  <2> QED
    BY <1>3, <2>1
<1>6. AllFound'
  <2>1. \A i \in Roots, q \in Paths : ~ Seen(1, {}, i, q)
    BY DEF Seen, Roots
  <2> QED
    BY <1>1, <2>1 DEF AllFound
<1>7. NodesHad' /\ PendingHad' /\ FoundHad' /\ WalkOver'
  BY <1>1 DEF Union, NodesHad, PendingHad, FoundHad, WalkOver, CouldRead
<1>8. UnreadListed'
  <2> SUFFICES ASSUME NEW i \in Roots, NEW x \in {<<>>} \union Paths, <<i, x>> \in unread
               PROVE  \E n \in Nodes :
                         /\ flat_data[n].rel = x
                         /\ \A k \in 1..Len(remain_dirs') : remain_dirs'[k] # n
                         /\ n = curr' => i < sib'
    BY <1>1 DEF UnreadListed
  <2>1. PICK n \in Nodes :
          flat_data[n].rel = x /\ \A k \in 1..Len(remain_dirs) : remain_dirs[k] # n
    BY DEF Union, UnreadListed
  <2>2. Len(remain_dirs) # 0
    BY <1>1, <1>2
  <2>3. n # curr'
    BY <1>2, <2>1, <2>2
  <2>4. \A k \in 1..Len(remain_dirs') : remain_dirs'[k] # n
    BY <1>2, <2>1
  <2> QED
    BY <2>1, <2>3, <2>4
<1> QED
  BY <1>5, <1>6, <1>7, <1>8 DEF Union

(* The directories in which the node is still to be listed could be read. *)
LEMMA UnreadIsBefore ==
    ASSUME WalkInv, Union, curr # 0, sib \in Roots PROVE <<sib, flat_data[curr].rel>> \notin unread
<1> SUFFICES ASSUME <<sib, flat_data[curr].rel>> \in unread PROVE FALSE
  OBVIOUS
<1>1. curr \in Nodes
  BY DEF WalkInv, WalkTypes
<1>2. flat_data[curr] \in NodeType
  BY <1>1, NodesInterval DEF WalkInv, WalkTypes
<1>3. flat_data[curr].rel \in {<<>>} \union Paths
  BY <1>2 DEF NodeType
<1>4. PICK n \in Nodes : flat_data[n].rel = flat_data[curr].rel /\ (n = curr => sib < sib)
  BY <1>3 DEF Union, UnreadListed
<1>5. n = curr
  BY <1>1, <1>4 DEF WalkInv, Tree
<1> QED
  BY <1>4, <1>5 DEF Roots

(* Nothing is left out by skipping a directory: there is nothing in it. *)
LEMMA ReadDirUnion == ASSUME WalkInv, RestTypes, Union, ReadDir PROVE Union'
<1> DEFINE rel == flat_data[curr].rel
           isDir == sib \in flat_data[curr].path /\ At(sib, rel) = Dir
           names == {p \in Paths : Front(p) = rel /\ fs[sib][p] # Absent}
<1>1. /\ flat_data' = flat_data /\ Nodes' = Nodes /\ curr' = curr /\ found' = found
      /\ remain_dirs' = remain_dirs /\ fs' = fs /\ phase' = phase /\ phase = "walk"
      /\ curr # 0 /\ sib <= N /\ pending = {} /\ unread' = unread
      /\ pending' = (IF isDir THEN names ELSE {})
      /\ sib' = (IF isDir /\ names # {} THEN sib ELSE sib + 1)
  BY DEF ReadDir, fsVars, Nodes
<1>2. sib \in Roots /\ sib \in Nat /\ \A i \in Roots : i \in Nat
  BY <1>1, CountAssumption DEF WalkInv, WalkTypes, Roots
<1>3. ASSUME NEW q \in Paths, Front(q) = rel, NEW i \in Roots, fs[i][q] # Absent, CouldRead(i, curr)
      PROVE  Seen(sib', pending', i, q) <=> Seen(sib, pending, i, q)
  <2>1. i = sib => isDir /\ q \in names
    BY <1>1, <1>3, DirWhereSomething DEF CouldRead
  <2>2. Seen(sib, pending, i, q) <=> i < sib
    BY <1>1 DEF Seen
  <2>3. CASE isDir /\ names # {}
    <3>1. sib' = sib /\ pending' = names
      BY <1>1, <2>3
    <3> HIDE DEF isDir, names
    <3>2. Seen(sib', pending', i, q) <=> i < sib \/ (i = sib /\ names # {} /\ q \notin names)
      BY <3>1 DEF Seen
    <3> QED
      BY <2>1, <2>2, <3>2
  <2>4. CASE ~(isDir /\ names # {})
    <3>1. sib' = sib + 1 /\ pending' = {} /\ i # sib
      BY <1>1, <2>1, <2>4
    <3>2. Seen(sib', pending', i, q) <=> i < sib + 1
      BY <3>1 DEF Seen
    <3> QED
      BY <1>2, <2>2, <3>1, <3>2
  <2> QED
    BY <2>3, <2>4
<1>4. PendingHad'
  <2>1. CASE isDir /\ names # {}
    <3>1. sib' = sib /\ pending' = names
      BY <1>1, <2>1
    <3>2. CouldRead(sib, curr)
      BY <1>1, <1>2, <2>1, UnreadIsBefore DEF CouldRead
    <3>3. CouldRead(sib, curr)'
      BY <1>1, <3>1, <3>2 DEF CouldRead
    <3> QED
      BY <1>1, <3>1, <3>3 DEF PendingHad
  <2>2. CASE ~(isDir /\ names # {})
    <3>1. pending' = {}
      BY <1>1, <2>2
    <3> QED
      BY <3>1 DEF PendingHad
  <2> QED
    BY <2>1, <2>2
<1> HIDE DEF names, isDir
<1>5. FoundHad'
  <2> SUFFICES ASSUME NEW k \in 1..Len(found), NEW i \in Roots
               PROVE  i \in found[k].path <=>
                         /\ CouldRead(i, curr) /\ Seen(sib', pending', i, found[k].rel)
                         /\ fs[i][found[k].rel] # Absent
    BY <1>1 DEF FoundHad, CouldRead
  <2>1. found[k] \in FoundType /\ Front(found[k].rel) = rel
    BY DEF WalkInv, WalkTypes, Listed
  <2>2. found[k].rel \in Paths
    BY <2>1 DEF FoundType
  <2> HIDE DEF rel
  <2> QED
    BY <1>3, <2>1, <2>2 DEF Union, FoundHad
<1>6. AllFound'
  <2> SUFFICES ASSUME NEW q \in Paths, NEW i \in Roots,
                      Front(q) = rel, CouldRead(i, curr), Seen(sib', pending', i, q), fs[i][q] # Absent
               PROVE  \E k \in 1..Len(found) : found[k].rel = q
    BY <1>1 DEF AllFound, CouldRead
  <2>1. Seen(sib, pending, i, q)
    BY <1>3
  <2> QED
    BY <1>1, <2>1 DEF Union, AllFound
<1>7. NodesHad' /\ AllNodes' /\ WalkOver'
  BY <1>1 DEF Union, NodesHad, AllNodes, WalkOver, CouldRead
<1>8. UnreadListed'
  <2>1. \A i \in Roots : i < sib => i < sib'
    BY <1>1, <1>2
  <2> QED
    BY <1>1, <2>1 DEF Union, UnreadListed
<1> QED
  BY <1>4, <1>5, <1>6, <1>7, <1>8 DEF Union

(* What lies below a directory that cannot be opened is not asked for, in  *)
(* that directory; no node was found there yet.                            *)
LEMMA ReadDirFailsUnion == ASSUME WalkInv, RestTypes, Union, ReadDirFails PROVE Union'
<1>1. /\ UNCHANGED <<flat_data, remain_dirs, curr, pending, found, fs, phase>> /\ Nodes' = Nodes
      /\ phase = "walk" /\ curr # 0 /\ sib <= N /\ sib' = sib + 1 /\ pending = {}
      /\ unread' = unread \union {<<sib, flat_data[curr].rel>>}
  BY DEF ReadDirFails, fsVars, Nodes
<1>2. sib \in Roots /\ sib \in Nat /\ \A i \in Roots : i \in Nat
  BY <1>1, CountAssumption DEF WalkInv, WalkTypes, Roots
<1>3. curr \in Nodes /\ \A n \in Nodes : flat_data[n].rel = flat_data[curr].rel => n = curr
  BY <1>1 DEF WalkInv, WalkTypes, Tree
<1> DEFINE Still(i, n) == i \in flat_data[n].path /\ <<i, flat_data[n].rel>> \notin unread'
<1>4. \A i \in Roots, n \in Nodes : Still(i, n) <=> CouldRead(i, n) /\ ~(n = curr /\ i = sib)
  BY <1>1, <1>3 DEF CouldRead
<1>5. \A i \in Roots, q \in Paths : i # sib => (Seen(sib', pending', i, q) <=> Seen(sib, pending, i, q))
  BY <1>1, <1>2 DEF Seen
<1>6. \A q \in Paths : ~Seen(sib, pending, sib, q)
  BY <1>1, <1>2 DEF Seen
<1>7. NodesHad'
  <2> SUFFICES ASSUME NEW n \in Nodes \ {1}, NEW i \in Roots
               PROVE  i \in flat_data[n].path <=>
                         Still(i, flat_data[n].parent) /\ fs[i][flat_data[n].rel] # Absent
    BY <1>1 DEF NodesHad, CouldRead
  <2>1. flat_data[n].parent \in Nodes /\ flat_data[n].parent # curr
    <3>1. flat_data[n].parent \in 1..(n - 1) /\ Once(flat_data[flat_data[n].parent].child, n)
      BY DEF WalkInv, Tree
    <3>2. flat_data[curr].child = <<>>
      BY <1>1 DEF WalkInv, Waiting
    <3>3. ~Once(<<>>, n)
      BY DEF Once
    <3> QED
      BY <3>1, <3>2, <3>3, NodesInterval DEF WalkInv
  <2> QED
    BY <1>4, <2>1 DEF Union, NodesHad
<1>8. FoundHad'
  <2> SUFFICES ASSUME NEW k \in 1..Len(found), NEW i \in Roots
               PROVE  i \in found[k].path <=>
                         /\ Still(i, curr) /\ Seen(sib', pending', i, found[k].rel)
                         /\ fs[i][found[k].rel] # Absent
    BY <1>1 DEF FoundHad, CouldRead
  <2>1. found[k] \in FoundType
    BY DEF WalkInv, WalkTypes
  <2>2. found[k].rel \in Paths
    BY <2>1 DEF FoundType
  <2> QED
    BY <1>3, <1>4, <1>5, <1>6, <2>2 DEF Union, FoundHad
<1>9. AllFound'
  <2> SUFFICES ASSUME NEW q \in Paths, NEW i \in Roots, Front(q) = flat_data[curr].rel,
                      Still(i, curr), Seen(sib', pending', i, q), fs[i][q] # Absent
               PROVE  \E k \in 1..Len(found) : found[k].rel = q
    BY <1>1 DEF AllFound, CouldRead
  <2> QED
    BY <1>1, <1>3, <1>4, <1>5 DEF Union, AllFound
<1>10. AllNodes'
  <2>1. ASSUME NEW n \in Nodes, NEW i \in Roots, Still(i, n) PROVE CouldRead(i, n)
    BY <1>4, <2>1
  <2> SUFFICES ASSUME NEW n \in Nodes, NEW p \in Paths, NEW i \in Roots,
                      flat_data[n].rel = Front(p), Still(i, n), fs[i][p] # Absent
               PROVE  \/ n = curr
                      \/ \E k \in 1..Len(remain_dirs) : remain_dirs[k] = n
                      \/ \E m \in Nodes : flat_data[m].rel = p
    BY <1>1 DEF AllNodes, CouldRead
  <2> QED
    BY <2>1 DEF Union, AllNodes
<1>11. UnreadListed'
  <2> SUFFICES ASSUME NEW i \in Roots, NEW x \in {<<>>} \union Paths, <<i, x>> \in unread'
               PROVE  \E n \in Nodes :
                         /\ flat_data[n].rel = x
                         /\ \A k \in 1..Len(remain_dirs) : remain_dirs[k] # n
                         /\ n = curr => i < sib + 1
    BY <1>1 DEF UnreadListed
  <2>1. CASE <<i, x>> \in unread
    <3>1. i < sib => i < sib + 1
      BY <1>2
    <3> QED
      BY <2>1, <3>1 DEF Union, UnreadListed
  <2>2. CASE i = sib /\ x = flat_data[curr].rel
    <3>1. \A k \in 1..Len(remain_dirs) : remain_dirs[k] # curr
      BY DEF WalkInv, Waiting
    <3> QED
      BY <1>2, <1>3, <2>2, <3>1
  <2> QED
    BY <1>1, <2>1, <2>2
<1>12. PendingHad' /\ WalkOver'
  BY <1>1 DEF PendingHad, WalkOver
<1> QED
  BY <1>7, <1>8, <1>9, <1>10, <1>11, <1>12 DEF Union

LEMMA TakeEntryUnion ==
    ASSUME WalkInv, RestTypes, Union, NEW p \in Paths, TakeEntry(p) PROVE Union'
<1>1. /\ flat_data' = flat_data /\ Nodes' = Nodes /\ curr' = curr
      /\ remain_dirs' = remain_dirs /\ fs' = fs /\ phase = "walk" /\ unread' = unread
      /\ p \in pending /\ pending' = pending \ {p}
      /\ sib' = (IF pending = {p} THEN sib + 1 ELSE sib)
  BY DEF TakeEntry, fsVars, Nodes
<1>2. /\ curr # 0 /\ sib \in flat_data[curr].path /\ Front(p) = flat_data[curr].rel
      /\ fs[sib][p] # Absent /\ curr \in Nodes /\ CouldRead(sib, curr)
  BY <1>1 DEF WalkInv, WalkTypes, Listed, Union, PendingHad
<1>3. sib \in Roots /\ sib \in Nat /\ \A i \in Roots : i \in Nat
  <2>1. flat_data[curr] \in NodeType
    BY <1>2, NodesInterval DEF WalkInv, WalkTypes
  <2>2. sib \in Roots
    BY <1>2, <2>1 DEF NodeType
  <2> QED
    BY <2>2 DEF Roots
<1>4. \A i \in Roots, q \in Paths :
        Seen(sib', pending', i, q) <=> Seen(sib, pending, i, q) \/ (i = sib /\ q = p)
  <2> TAKE i \in Roots, q \in Paths
  <2>1. CASE pending = {p}
    <3>1. sib' = sib + 1 /\ pending' = {}
      BY <1>1, <2>1
    <3>2. Seen(sib', pending', i, q) <=> i < sib + 1
      BY <3>1 DEF Seen
    <3>3. Seen(sib, pending, i, q) <=> i < sib \/ (i = sib /\ q # p)
      BY <2>1 DEF Seen
    <3> QED
      BY <1>3, <3>2, <3>3
  <2>2. CASE pending # {p}
    <3>1. sib' = sib /\ pending' # {}
      BY <1>1, <2>2
    <3>2. Seen(sib', pending', i, q) <=> i < sib \/ (i = sib /\ q \notin pending \ {p})
      BY <1>1, <3>1 DEF Seen
    <3>3. Seen(sib, pending, i, q) <=> i < sib \/ (i = sib /\ q \notin pending)
      BY <1>1 DEF Seen
    <3> QED
      BY <3>2, <3>3
  <2> QED
    BY <2>1, <2>2
<1>5. Len(found) \in Nat /\ phase' = phase /\ (TakenAgain(p) \/ TakenNew(p))
  BY Taken DEF TakenAgain, TakenNew
<1>6. PendingHad'
  <2>1. pending' # {} => sib' = sib
    BY <1>1
  <2> QED
    BY <1>1, <1>2, <2>1 DEF Union, PendingHad, CouldRead
<1>7. \A k \in 1..Len(found) : found[k].rel \in Paths
  <2>1. \A k \in 1..Len(found) : found[k] \in FoundType
    BY DEF WalkInv, WalkTypes
  <2> QED
    BY <2>1 DEF FoundType
<1>8. \A q \in Paths, i \in Roots :
        /\ Front(q) = flat_data[curr].rel /\ CouldRead(i, curr)
        /\ Seen(sib, pending, i, q) /\ fs[i][q] # Absent
        => \E k \in 1..Len(found) : found[k].rel = q
  BY <1>2 DEF Union, AllFound
<1>9. NodesHad' /\ AllNodes' /\ UnreadListed' /\ WalkOver'
  <2>1. \A i \in Roots : i < sib => i < sib'
    BY <1>1, <1>3
  <2>2. UnreadListed'
    BY <1>1, <2>1 DEF Union, UnreadListed
  <2> QED
    BY <1>1, <1>5, <2>2 DEF Union, NodesHad, AllNodes, WalkOver, CouldRead
<1>10. CASE TakenAgain(p)
  <2>1. /\ Len(found') = Len(found)
        /\ \E k \in 1..Len(found) : found[k].rel = p
        /\ \A k \in 1..Len(found) :
              /\ found'[k].rel = found[k].rel
              /\ found'[k].path = IF found[k].rel = p THEN found[k].path \union {sib} ELSE found[k].path
    BY <1>10 DEF TakenAgain
  <2>2. FoundHad'
    <3> SUFFICES ASSUME NEW k \in 1..Len(found), NEW i \in Roots
                 PROVE  i \in found'[k].path <=>
                           /\ CouldRead(i, curr) /\ Seen(sib', pending', i, found[k].rel)
                           /\ fs[i][found[k].rel] # Absent
      BY <1>1, <2>1 DEF FoundHad, CouldRead
    <3>1. i \in found[k].path <=>
            CouldRead(i, curr) /\ Seen(sib, pending, i, found[k].rel) /\ fs[i][found[k].rel] # Absent
      BY DEF Union, FoundHad
    <3>2. CASE found[k].rel = p
      <4>1. i \in found'[k].path <=> i \in found[k].path \/ i = sib
        BY <2>1, <3>2
      <4> QED
        BY <1>2, <1>4, <1>7, <3>1, <3>2, <4>1
    <3>3. CASE found[k].rel # p
      <4>1. found'[k].path = found[k].path
        BY <2>1, <3>3
      <4> QED
        BY <1>4, <1>7, <3>1, <3>3, <4>1
    <3> QED
      BY <3>2, <3>3
  <2>3. AllFound'
    <3> SUFFICES ASSUME NEW q \in Paths, NEW i \in Roots,
                        Front(q) = flat_data[curr].rel, CouldRead(i, curr),
                        Seen(sib', pending', i, q), fs[i][q] # Absent
                 PROVE  \E k \in 1..Len(found) : found'[k].rel = q
      BY <1>1, <2>1 DEF AllFound, CouldRead
    <3>1. CASE q = p
      BY <2>1, <3>1
    <3>2. CASE q # p
      BY <1>4, <1>8, <2>1, <3>2
    <3> QED
      BY <3>1, <3>2
  <2> QED
    BY <1>6, <1>9, <2>2, <2>3 DEF Union
<1>11. CASE TakenNew(p)
  <2>1. /\ Len(found') = Len(found) + 1
        /\ \A k \in 1..Len(found) : found'[k] = found[k] /\ found[k].rel # p
        /\ found'[Len(found) + 1].rel = p /\ found'[Len(found) + 1].path = {sib}
    BY <1>11 DEF TakenNew
  <2>2. \A k \in 1..Len(found') : k \in 1..Len(found) \/ k = Len(found) + 1
    BY <1>5, <2>1
  <2>3. Len(found) + 1 \in 1..Len(found') /\ \A k \in 1..Len(found) : k \in 1..Len(found')
    BY <1>5, <2>1
  <2>4. FoundHad'
    <3> SUFFICES ASSUME NEW k \in 1..Len(found'), NEW i \in Roots
                 PROVE  i \in found'[k].path <=>
                           /\ CouldRead(i, curr) /\ Seen(sib', pending', i, found'[k].rel)
                           /\ fs[i][found'[k].rel] # Absent
      BY <1>1 DEF FoundHad, CouldRead
    <3>1. CASE k \in 1..Len(found)
      <4>1. i \in found[k].path <=>
              CouldRead(i, curr) /\ Seen(sib, pending, i, found[k].rel) /\ fs[i][found[k].rel] # Absent
        BY <3>1 DEF Union, FoundHad
      <4>2. found'[k] = found[k] /\ found[k].rel # p
        BY <2>1, <3>1
      <4> QED
        BY <1>4, <1>7, <3>1, <4>1, <4>2
    <3>2. CASE k = Len(found) + 1
      <4>1. found'[k].rel = p /\ (i \in found'[k].path <=> i = sib)
        BY <2>1, <3>2
      <4>2. ~(CouldRead(i, curr) /\ Seen(sib, pending, i, p) /\ fs[i][p] # Absent)
        BY <1>2, <1>8, <2>1
      <4>3. Seen(sib', pending', i, p) <=> Seen(sib, pending, i, p) \/ i = sib
        BY <1>4
      <4> QED
        BY <1>2, <4>1, <4>2, <4>3
    <3> QED
      BY <2>2, <3>1, <3>2
  <2>5. AllFound'
    <3> SUFFICES ASSUME NEW q \in Paths, NEW i \in Roots,
                        Front(q) = flat_data[curr].rel, CouldRead(i, curr),
                        Seen(sib', pending', i, q), fs[i][q] # Absent
                 PROVE  \E k \in 1..Len(found') : found'[k].rel = q
      BY <1>1 DEF AllFound, CouldRead
    <3>1. CASE q = p
      BY <2>1, <2>3, <3>1
    <3>2. CASE q # p
      <4>1. PICK k \in 1..Len(found) : found[k].rel = q
        BY <1>4, <1>8, <3>2
      <4> QED
        BY <2>1, <2>3, <4>1
    <3> QED
      BY <3>1, <3>2
  <2> QED
    BY <1>6, <1>9, <2>4, <2>5 DEF Union
<1> QED
  BY <1>5, <1>10, <1>11

LEMMA EndNodeUnion == ASSUME WalkInv, Union, EndNode PROVE Union'
<1> DEFINE end == Len(flat_data)
<1>0. PICK ids \in Seq(Nat) : EndNodeStep(end, ids)
  BY EndNodeFacts
<1>1. fs' = fs /\ phase' = phase /\ phase = "walk" /\ sib > N /\ unread' = unread
  BY DEF EndNode, fsVars
<1> HIDE DEF end
<1>2. /\ curr # 0 /\ pending = {} /\ pending' = {} /\ curr' = 0 /\ found' = <<>>
      /\ Nodes = 1..end /\ end \in Nat /\ Len(found) \in Nat
      /\ Nodes' = 1..(end + Len(found))
  BY <1>0, Zenon DEF EndNodeStep
<1>3. \A n \in 1..end : /\ flat_data'[n].rel = flat_data[n].rel /\ flat_data'[n].path = flat_data[n].path
                        /\ flat_data'[n].parent = flat_data[n].parent
  BY <1>0, Zenon DEF EndNodeStep
<1>4. \A k \in 1..Len(found) :
        /\ flat_data'[end + k].rel = found[k].rel /\ flat_data'[end + k].path = found[k].path
        /\ flat_data'[end + k].parent = curr
  BY <1>0, Zenon DEF EndNodeStep
<1>4a. curr \in 1..end /\ \A i \in Roots, n \in 1..end : CouldRead(i, n)' <=> CouldRead(i, n)
  <2>1. curr \in Nodes
    BY <1>0, Zenon DEF EndNodeStep
  <2> QED
    BY <1>1, <1>2, <1>3, <2>1 DEF CouldRead
<1>5. \A n \in Nodes' : n \in 1..end \/ \E k \in 1..Len(found) : n = end + k
  BY <1>0, Zenon DEF EndNodeStep
<1>6. /\ Len(remain_dirs') = Len(remain_dirs) + Len(found) /\ Len(remain_dirs) \in Nat
      /\ \A k \in 1..Len(remain_dirs) : remain_dirs'[k] = remain_dirs[k]
      /\ \A k \in 1..Len(found) : remain_dirs'[Len(remain_dirs) + k] = end + k
  BY <1>0, Zenon DEF EndNodeStep
<1>7. /\ \A n \in 1..end : n \in Nodes'
      /\ \A k \in 1..Len(found) : end + k \in Nodes' /\ Len(remain_dirs) + k \in 1..Len(remain_dirs')
      /\ \A k \in 1..Len(remain_dirs) : k \in 1..Len(remain_dirs')
  BY <1>2, <1>6
<1>8. \A i \in Roots, q \in Paths : Seen(sib, pending, i, q)
  <2>1. \A i \in Roots : i < sib
    BY <1>1, CountAssumption DEF Roots, WalkInv, WalkTypes
  <2> QED
    BY <2>1 DEF Seen
<1>9. \A k \in 1..Len(found) : found[k].rel \in Paths
  <2>1. \A k \in 1..Len(found) : found[k] \in FoundType
    BY DEF WalkInv, WalkTypes
  <2> QED
    BY <2>1 DEF FoundType
<1>10. NodesHad'
  <2> SUFFICES ASSUME NEW n \in Nodes' \ {1}, NEW i \in Roots
               PROVE  i \in flat_data'[n].path <=>
                         CouldRead(i, flat_data[n].parent)' /\ fs[i][flat_data'[n].rel] # Absent
    BY <1>1 DEF NodesHad
  <2>1. CASE n \in 1..end
    <3>1. flat_data[n].parent \in 1..end /\ flat_data'[n].parent = flat_data[n].parent
      BY <1>2, <1>3, <2>1 DEF WalkInv, Tree
    <3>2. i \in flat_data[n].path <=>
            CouldRead(i, flat_data[n].parent) /\ fs[i][flat_data[n].rel] # Absent
      BY <1>2, <2>1 DEF Union, NodesHad
    <3>3. CouldRead(i, flat_data[n].parent)' <=> CouldRead(i, flat_data[n].parent)
      BY <1>4a, <3>1 DEF CouldRead
    <3> QED
      BY <1>3, <2>1, <3>1, <3>2, <3>3
  <2>2. ASSUME NEW k \in 1..Len(found), n = end + k
        PROVE  i \in flat_data'[n].path <=>
                  CouldRead(i, flat_data[n].parent)' /\ fs[i][flat_data'[n].rel] # Absent
    <3>1. i \in found[k].path <=> CouldRead(i, curr) /\ fs[i][found[k].rel] # Absent
      BY <1>8, <1>9 DEF Union, FoundHad
    <3>2. /\ flat_data'[n].rel = found[k].rel /\ flat_data'[n].path = found[k].path
          /\ flat_data'[n].parent = curr
      BY <1>4, <2>2
    <3> QED
      BY <1>4a, <3>1, <3>2
  <2> QED
    BY <1>5, <2>1, <2>2
<1>11. AllNodes'
  <2> SUFFICES ASSUME NEW n \in Nodes', NEW q \in Paths, NEW i \in Roots,
                      flat_data'[n].rel = Front(q), CouldRead(i, n)', fs[i][q] # Absent
               PROVE  \/ \E k \in 1..Len(remain_dirs') : remain_dirs'[k] = n
                      \/ \E m \in Nodes' : flat_data'[m].rel = q
    BY <1>1 DEF AllNodes
  <2>1. CASE n \in 1..end
    <3>1. n \in Nodes /\ flat_data[n].rel = Front(q) /\ CouldRead(i, n)
      BY <1>2, <1>3, <1>4a, <2>1
    <3>2. \/ n = curr
          \/ \E k \in 1..Len(remain_dirs) : remain_dirs[k] = n
          \/ \E m \in Nodes : flat_data[m].rel = q
      BY <3>1 DEF Union, AllNodes
    <3>3. CASE n = curr
      <4>1. PICK k \in 1..Len(found) : found[k].rel = q
        BY <1>2, <1>8, <3>1, <3>3 DEF Union, AllFound
      <4> QED
        BY <1>4, <1>7, <4>1
    <3>4. CASE \E k \in 1..Len(remain_dirs) : remain_dirs[k] = n
      BY <1>6, <1>7, <3>4
    <3>5. CASE \E m \in Nodes : flat_data[m].rel = q
      BY <1>2, <1>3, <1>7, <3>5
    <3> QED
      BY <3>2, <3>3, <3>4, <3>5
  <2>2. ASSUME NEW k \in 1..Len(found), n = end + k
        PROVE  \E j \in 1..Len(remain_dirs') : remain_dirs'[j] = n
    BY <1>6, <1>7, <2>2
  <2> QED
    BY <1>5, <2>1, <2>2
<1>12. PendingHad' /\ FoundHad' /\ AllFound' /\ WalkOver'
  BY <1>1, <1>2 DEF PendingHad, FoundHad, AllFound, WalkOver
<1>13. UnreadListed'
  <2> SUFFICES ASSUME NEW i \in Roots, NEW x \in {<<>>} \union Paths, <<i, x>> \in unread
               PROVE  \E n \in Nodes' :
                         /\ flat_data'[n].rel = x
                         /\ \A k \in 1..Len(remain_dirs') : remain_dirs'[k] # n
                         /\ n = curr' => i < sib'
    BY <1>1 DEF UnreadListed
  <2>1. PICK n \in Nodes :
          flat_data[n].rel = x /\ \A k \in 1..Len(remain_dirs) : remain_dirs[k] # n
    BY DEF Union, UnreadListed
  <2>2. n \in 1..end /\ n \in Nodes' /\ flat_data'[n].rel = x /\ n # curr'
    BY <1>2, <1>3, <1>7, <2>1
  <2>3. ASSUME NEW j \in 1..Len(remain_dirs') PROVE remain_dirs'[j] # n
    <3>1. \/ j \in 1..Len(remain_dirs) /\ remain_dirs'[j] = remain_dirs[j]
          \/ j - Len(remain_dirs) \in 1..Len(found) /\ remain_dirs'[j] = end + (j - Len(remain_dirs))
      BY <1>0, Zenon DEF EndNodeStep
    <3> QED
      BY <1>2, <2>1, <2>2, <3>1
  <2> QED
    BY <2>2, <2>3
<1> QED
  BY <1>10, <1>11, <1>12, <1>13 DEF Union

LEMMA ReportUnion ==
    ASSUME Union, EntryFails \/ StartReport \/ Report \/ Write \/ Finish \/ UNCHANGED vars PROVE Union'
<1>1. UNCHANGED <<fs, flat_data, remain_dirs, curr, sib, pending, found, unread>>
  BY DEF EntryFails, StartReport, Report, Write, Finish, vars, fsVars, listVars
<1>2. Nodes' = Nodes
  BY <1>1 DEF Nodes
<1>3. \/ phase = "walk" /\ curr = 0 /\ remain_dirs = <<>>
      \/ phase \in {"report", "write"}
      \/ phase' = phase \/ phase' = "panic"
  BY DEF EntryFails, StartReport, Report, Write, Finish, vars
<1>4. WalkOver'
  BY <1>1, <1>3 DEF Union, WalkOver
<1> QED
  BY <1>1, <1>2, <1>4
  DEF Union, NodesHad, PendingHad, FoundHad, AllFound, AllNodes, UnreadListed, CouldRead

LEMMA UnionStep == WalkInv /\ RestTypes /\ UnionInv /\ [Next]_vars => UnionInv'
<1> SUFFICES ASSUME WalkInv, RestTypes, UnionInv, [Next]_vars, changes' = 0 PROVE Union'
  BY DEF UnionInv
<1>1. ~Change /\ changes' = changes
  <2>1. changes \in Nat
    BY CountAssumption DEF RestTypes
  <2>2. ~Change
    BY <2>1 DEF Change
  <2> QED
    BY <2>2 DEF Next, Run, PopNode, ReadDir, ReadDirFails, TakeEntry, EntryFails, EndNode,
                StartReport, Report, Write, Finish, vars, fsVars
<1>2. Union
  BY <1>1 DEF UnionInv
<1> QED
  BY <1>1, <1>2, PopNodeUnion, ReadDirUnion, ReadDirFailsUnion, TakeEntryUnion, EndNodeUnion,
     ReportUnion
  DEF Next, Run

(* Readable, one directory on the way at a time. *)
LEMMA ReadableBelow ==
    ASSUME RestTypes, NEW p \in Paths, NEW i \in Roots
    PROVE  Readable(i, p) <=> /\ fs[i][p] # Absent /\ <<i, Front(p)>> \notin unread
                              /\ Len(p) > 1 => Readable(i, Front(p))
<1> DEFINE R(q, k) == <<i, SubSeq(q, 1, k)>> \notin unread
           f == Front(p)
           n == Len(p)
<1>1. n \in Nat \ {0} /\ p \in Seq(Range(p)) /\ f = SubSeq(p, 1, n - 1)
  BY PathParts, PathsAssumption DEF Front
<1>2. Readable(i, p) <=> fs[i][p] # Absent /\ \A k \in 0..(n - 1) : R(p, k)
  BY DEF Readable
<1>3. R(p, n - 1) <=> <<i, f>> \notin unread
  BY <1>1
<1>4. n > 1 =>
        /\ f \in Paths /\ Len(f) = n - 1
        /\ fs[i][p] # Absent => fs[i][f] # Absent
        /\ \A k \in 0..(n - 2) : SubSeq(f, 1, k) = SubSeq(p, 1, k)
  <2> SUFFICES ASSUME n > 1
               PROVE  /\ f \in Paths /\ Len(f) = n - 1
                      /\ fs[i][p] # Absent => fs[i][f] # Absent
                      /\ \A k \in 0..(n - 2) : SubSeq(f, 1, k) = SubSeq(p, 1, k)
    OBVIOUS
  <2>1. f \in Paths /\ Len(f) = n - 1
    BY PathParts
  <2>2. IsTree(fs[i]) /\ Dir # Absent
    BY SizeAssumption DEF RestTypes, Trees, Entries
  <2>3. fs[i][p] # Absent => fs[i][f] # Absent
    BY <2>2 DEF IsTree
  <2>4. ASSUME NEW k \in 0..(n - 2) PROVE SubSeq(f, 1, k) = SubSeq(p, 1, k)
    <3> DEFINE S == Range(p)
    <3>1. p \in Seq(S) /\ n = Len(p) /\ n \in Nat /\ n > 1
      BY <1>1
    <3> HIDE DEF f, n, S
    <3>2. SubSeq(SubSeq(p, 1, n - 1), 1, k) = SubSeq(p, 1, k)
      BY <3>1
    <3> QED
      BY <1>1, <3>2
  <2> QED
    BY <2>1, <2>3, <2>4
<1>5. n > 1 => (Readable(i, f) <=> fs[i][f] # Absent /\ \A k \in 0..(n - 2) : R(p, k))
  <2> SUFFICES ASSUME n > 1
               PROVE  Readable(i, f) <=> fs[i][f] # Absent /\ \A k \in 0..(n - 2) : R(p, k)
    OBVIOUS
  <2>1. Len(f) - 1 = n - 2
    BY <1>1, <1>4
  <2>2. Readable(i, f) <=> fs[i][f] # Absent /\ \A k \in 0..(n - 2) : R(f, k)
    BY <2>1 DEF Readable
  <2> HIDE DEF f, n
  <2> QED
    BY <1>4, <2>2
<1>6. \A k \in 0..(n - 1) : k = n - 1 \/ (n > 1 /\ k \in 0..(n - 2))
  BY <1>1
<1>7. n - 1 \in 0..(n - 1) /\ \A k \in 0..(n - 2) : k \in 0..(n - 1)
  BY <1>1
<1> HIDE DEF R, f, n
<1>8. (\A k \in 0..(n - 1) : R(p, k)) <=> R(p, n - 1) /\ (n > 1 => \A k \in 0..(n - 2) : R(p, k))
  BY <1>1, <1>6, <1>7
<1>9. Readable(i, p) <=> fs[i][p] # Absent /\ <<i, f>> \notin unread /\ (n > 1 => Readable(i, f))
  BY <1>2, <1>3, <1>4, <1>5, <1>8
<1> QED
  BY <1>9 DEF f, n

(* The root is a node of its own. *)
LEMMA RootAndPaths ==
    ASSUME WalkInv
    PROVE  /\ 1 \in Nodes /\ Nodes \subseteq Nat /\ flat_data[1].rel = <<>>
           /\ \A n \in Nodes : flat_data[n].path \subseteq Roots
           /\ \A n \in Nodes \ {1} : flat_data[n].rel \in Paths
<1>1. 1 \in Nodes /\ Nodes \subseteq Nat /\ \A n \in Nodes : (flat_data[n].rel = <<>>) <=> (n = 1)
  BY NodesInterval DEF WalkInv, WalkTypes
<1>2. \A n \in Nodes : flat_data[n] \in NodeType
  BY NodesInterval DEF WalkInv, WalkTypes
<1> QED
  BY <1>1, <1>2 DEF NodeType

(* A node is in the directories where its path is readable: the least node *)
(* for which it is not so would have a parent for which it is not so.      *)
LEMMA NodeWhereReadable ==
    ASSUME WalkInv, RestTypes, Union, NEW n \in Nodes \ {1}, NEW i \in Roots
    PROVE  i \in flat_data[n].path <=> Readable(i, flat_data[n].rel)
<1> DEFINE T == {m \in Nodes \ {1} : ~(i \in flat_data[m].path <=> Readable(i, flat_data[m].rel))}
<1> SUFFICES ASSUME T # {} PROVE FALSE
  OBVIOUS
<1>1. T \subseteq Nat
  BY RootAndPaths
<1>2. PICK m \in T : \A x \in T : m <= x
  BY <1>1, Least
<1>3. m \in Nodes \ {1} /\ m \in Nat /\ ~(i \in flat_data[m].path <=> Readable(i, flat_data[m].rel))
  BY <1>1, <1>2
<1> DEFINE p == flat_data[m].parent
           rel == flat_data[m].rel
<1>4. p \in 1..(m - 1) /\ p \in Nodes /\ Front(rel) = flat_data[p].rel
  BY <1>3, NodesInterval DEF WalkInv, Tree
<1>5. rel \in Paths
  BY <1>3, RootAndPaths
<1>6. i \in flat_data[m].path <=>
        i \in flat_data[p].path /\ <<i, Front(rel)>> \notin unread /\ fs[i][rel] # Absent
  BY <1>3, <1>4 DEF Union, NodesHad, CouldRead
<1>7. Readable(i, rel) <=> /\ fs[i][rel] # Absent /\ <<i, Front(rel)>> \notin unread
                           /\ Len(rel) > 1 => Readable(i, Front(rel))
  BY <1>5, ReadableBelow
<1>8. Len(rel) = 1 \/ Len(rel) > 1
  <2>1. \A k \in Nat \ {0} : k = 1 \/ k > 1
    OBVIOUS
  <2> QED
    BY <1>5, <2>1, PathParts, Zenon
<1>9. CASE p = 1
  <2>1. i \in flat_data[p].path /\ Front(rel) = <<>>
    BY <1>4, <1>9, RootAndPaths DEF RestTypes
  <2>2. <<>> \notin Paths
    BY PathsAssumption
  <2>3. ~(Len(rel) > 1)
    BY <1>5, <2>1, <2>2, PathParts
  <2> QED
    BY <1>3, <1>6, <1>7, <2>1, <2>3
<1>10. CASE p # 1
  <2>1. Front(rel) \in Paths
    BY <1>4, <1>10, RootAndPaths
  <2>2. Len(rel) > 1
    BY <1>5, <1>8, <2>1, PathParts
  <2>3. p \notin T
    BY <1>2, <1>3, <1>4
  <2>4. i \in flat_data[p].path <=> Readable(i, Front(rel))
    BY <1>4, <1>10, <2>3
  <2> QED
    BY <1>3, <1>6, <1>7, <2>2, <2>4
<1> QED
  BY <1>9, <1>10

(* The shortest path left out would have a parent left out. *)
LEMMA UnionEnough == ASSUME WalkInv, RestTypes, UnionInv PROVE DiffIsUnion
<1> SUFFICES ASSUME phase \in {"report", "write", "done"}, changes = 0
             PROVE  /\ {flat_data[n].rel : n \in Nodes \ {1}} =
                          {p \in Paths : \E i \in Roots : Readable(i, p)}
                    /\ \A n \in Nodes \ {1} :
                          flat_data[n].path = {i \in Roots : Readable(i, flat_data[n].rel)}
  BY DEF DiffIsUnion
<1>1. Union /\ curr = 0 /\ remain_dirs = <<>>
  BY DEF UnionInv, Union, WalkOver
<1>2. \A n \in Nodes \ {1}, i \in Roots : i \in flat_data[n].path <=> Readable(i, flat_data[n].rel)
  BY <1>1, NodeWhereReadable
<1>3. \A n \in Nodes \ {1} : flat_data[n].path = {i \in Roots : Readable(i, flat_data[n].rel)}
  BY <1>2, RootAndPaths
<1>4. \A n \in Nodes \ {1} : \E i \in Roots : Readable(i, flat_data[n].rel)
  BY <1>3 DEF RestTypes
<1>5. \A n \in Nodes, p \in Paths, i \in Roots :
        flat_data[n].rel = Front(p) /\ i \in flat_data[n].path /\ <<i, Front(p)>> \notin unread
        /\ fs[i][p] # Absent => \E m \in Nodes : flat_data[m].rel = p
  <2>1. 0 \notin Nodes
    BY NodesInterval DEF WalkInv
  <2> QED
    BY <1>1, <2>1 DEF Union, AllNodes, CouldRead
<1>6. ASSUME NEW p \in Paths, NEW i \in Roots, Readable(i, p)
      PROVE  \E m \in Nodes : flat_data[m].rel = p
  <2> DEFINE Lost == {q \in Paths : Readable(i, q) /\ ~ \E m \in Nodes : flat_data[m].rel = q}
             Lengths == {Len(q) : q \in Lost}
  <2> SUFFICES ASSUME Lost # {} PROVE FALSE
    BY <1>6
  <2>1. Lengths \subseteq Nat /\ Lengths # {}
    BY PathParts
  <2>2. PICK l \in Lengths : \A k \in Lengths : l <= k
    BY <2>1, Least
  <2>3. PICK q \in Lost : l = Len(q)
    BY <2>2
  <2>4. /\ q \in Paths /\ Readable(i, q) /\ Len(q) \in Nat \ {0}
        /\ ~ \E m \in Nodes : flat_data[m].rel = q
    BY <2>3, PathParts
  <2>5. /\ fs[i][q] # Absent /\ <<i, Front(q)>> \notin unread
        /\ Len(q) > 1 => Readable(i, Front(q))
    BY <2>4, ReadableBelow
  <2>6. CASE Len(q) = 1
    <3>1. Front(q) = <<>>
      BY <2>4, <2>6, PathParts
    <3>2. 1 \in Nodes /\ flat_data[1].rel = <<>> /\ i \in flat_data[1].path
      BY RootAndPaths DEF RestTypes
    <3> QED
      BY <1>5, <2>4, <2>5, <3>1, <3>2
  <2>7. CASE Len(q) > 1
    <3>1. Front(q) \in Paths /\ Len(Front(q)) = Len(q) - 1
      BY <2>4, <2>7, PathParts
    <3>2. Front(q) \notin Lost
      <4>1. ASSUME Front(q) \in Lost PROVE FALSE
        <5>1. Len(Front(q)) \in Lengths
          BY <4>1
        <5>2. Len(q) <= Len(Front(q))
          BY <2>2, <2>3, <5>1
        <5> QED
          BY <2>4, <3>1, <5>2
      <4> QED
        BY <4>1
    <3>3. PICK m \in Nodes : flat_data[m].rel = Front(q)
      BY <2>5, <2>7, <3>1, <3>2
    <3>4. m # 1
      BY <3>1, <3>3, RootAndPaths, PathsAssumption
    <3>5. i \in flat_data[m].path
      BY <1>2, <2>5, <2>7, <3>3, <3>4
    <3> QED
      BY <1>5, <2>4, <2>5, <3>3, <3>5
  <2> QED
    <3>1. \A n \in Nat \ {0} : n = 1 \/ n > 1
      OBVIOUS
    <3> QED
      BY <2>4, <2>6, <2>7, <3>1, Zenon
<1>7. ASSUME NEW p \in Paths, NEW i \in Roots, Readable(i, p)
      PROVE  \E m \in Nodes \ {1} : flat_data[m].rel = p
  <2>1. PICK m \in Nodes : flat_data[m].rel = p
    BY <1>6, <1>7
  <2>2. p # <<>>
    BY PathParts
  <2> QED
    BY <2>1, <2>2, RootAndPaths
<1> QED
  BY <1>3, <1>4, <1>7, RootAndPaths

(* If the directories stay as they are, what is found at the end is what   *)
(* exists and can be read in one of them, each node where it can: no       *)
(* directory is forgotten, none is listed that has not the node, and one   *)
(* that could not be opened lacks what is below it and nothing else.       *)
THEOREM WalkFindsUnion == Spec => []DiffIsUnion
<1>1. Spec => [](WalkInv /\ ReportInv /\ RestTypes /\ UnionInv)
  BY WalkInit, WalkStep, ReportInit, ReportStep, RestInit, RestStep, UnionInit, UnionStep, PTL
  DEF Spec
<1> QED
  BY <1>1, UnionEnough, PTL
-----------------------------------------------------------------------------
(* At, and what GroupsAreClasses says of the groups g of one node, where   *)
(* the directories contain f.                                              *)
Entry(f, i, p) == IF p = <<>> THEN Dir ELSE f[i][p]

Classed(f, node, g) ==
    (\A i \in Roots : Entry(f, i, node.rel) \in Files => Size[Entry(f, i, node.rel)] # Size[Dir]) =>
        \A i, j \in node.path :
            (g[i] = g[j]) =
                \/ Entry(f, i, node.rel) = Dir /\ Entry(f, j, node.rel) = Dir
                \/ /\ Entry(f, i, node.rel) # Dir /\ Entry(f, j, node.rel) # Dir
                   /\ Size[Entry(f, i, node.rel)] = Size[Entry(f, j, node.rel)]

LEMMA AtEntry == \A i, p : At(i, p) = Entry(fs, i, p)
BY DEF At, Entry

LEMMA NodeThere ==
    ASSUME WalkInv, RestTypes, Union, NEW n \in Nodes, NEW i \in flat_data[n].path
    PROVE  At(i, flat_data[n].rel) \in Entries /\ i \in Roots
<1>1. (flat_data[n].rel = <<>>) <=> (n = 1)
  BY DEF WalkInv, WalkTypes
<1>2. i \in Roots /\ flat_data[n].rel \in {<<>>} \union Paths
  <2>1. flat_data[n] \in NodeType
    BY NodesInterval DEF WalkInv, WalkTypes
  <2> QED
    BY <2>1 DEF NodeType
<1>3. CASE n = 1
  BY <1>1, <1>2, <1>3 DEF At, Entries
<1>4. CASE n # 1
  <2>1. fs[i][flat_data[n].rel] # Absent
    BY <1>2, <1>4 DEF Union, NodesHad
  <2>2. fs[i] \in [Paths -> Entries \union {Absent}]
    BY <1>2 DEF RestTypes, Trees
  <2> QED
    BY <1>1, <1>2, <1>4, <2>1, <2>2 DEF At
<1> QED
  BY <1>3, <1>4

LEMMA DuplicatesClassed ==
    ASSUME WalkInv, RestTypes, Union, NEW n \in Nodes
    PROVE  Classed(fs, flat_data[n], find_duplicates(flat_data[n]))
<1> DEFINE node == flat_data[n]
           rel  == node.rel
           W    == node.path
           s    == [i \in W |-> Size[At(i, rel)]]
           g    == find_duplicates(node)
<1> SUFFICES ASSUME \A i \in Roots : At(i, rel) \in Files => Size[At(i, rel)] # Size[Dir],
                    NEW i \in W, NEW j \in W
             PROVE  (g[i] = g[j]) =
                       \/ At(i, rel) = Dir /\ At(j, rel) = Dir
                       \/ At(i, rel) # Dir /\ At(j, rel) # Dir /\ Size[At(i, rel)] = Size[At(j, rel)]
  BY AtEntry DEF Classed
<1>1. \A x \in W : At(x, rel) \in Entries /\ x \in Roots
  BY NodeThere
<1>2. \A x \in W : At(x, rel) # Dir => Size[At(x, rel)] # Size[Dir]
  BY <1>1 DEF Entries
<1>3. Absent \notin Entries
  BY SizeAssumption
<1>4. \A x, y \in W : Same(At(x, rel), At(y, rel)) <=> Size[At(x, rel)] = Size[At(y, rel)]
  BY <1>1, <1>3 DEF Same
<1>5. \A x \in W : s[x] = Size[At(x, rel)]
  OBVIOUS
<1> HIDE DEF s
<1>6. SameKey(node, s)
  BY <1>4, <1>5 DEF SameKey
<1>7. W \in SUBSET Roots /\ W = node.path
  BY <1>1
<1> HIDE DEF W, node
<1>8. g[i] = g[j] <=> s[i] = s[j]
  BY <1>6, <1>7, FindDuplicatesClasses
<1>9. s[i] = s[j] <=> Size[At(i, rel)] = Size[At(j, rel)]
  BY <1>5
<1> HIDE DEF g
<1>10. Size[At(i, rel)] = Size[At(j, rel)] <=>
          \/ At(i, rel) = Dir /\ At(j, rel) = Dir
          \/ At(i, rel) # Dir /\ At(j, rel) # Dir /\ Size[At(i, rel)] = Size[At(j, rel)]
  BY <1>2
<1> QED
  BY <1>8, <1>9, <1>10

ClassesInv ==
    changes = 0 => \A k \in 1..Len(groups) : Classed(fs, flat_data[groups[k].node], groups[k].group)

LEMMA ClassesInit == Init => ClassesInv
BY DEF Init, ClassesInv

LEMMA ClassesStep ==
    WalkInv /\ ReportInv /\ RestTypes /\ UnionInv /\ ClassesInv /\ [Next]_vars => ClassesInv'
<1> SUFFICES ASSUME WalkInv, ReportInv, RestTypes, UnionInv, ClassesInv, [Next]_vars, changes' = 0
             PROVE  \A k \in 1..Len(groups') :
                       Classed(fs', flat_data'[groups'[k].node], groups'[k].group)
  BY DEF ClassesInv
<1>1. ~Change /\ changes' = changes /\ fs' = fs
  <2>1. changes \in Nat
    BY CountAssumption DEF RestTypes
  <2>2. ~Change
    BY <2>1 DEF Change
  <2> QED
    BY <2>2 DEF Next, Run, PopNode, ReadDir, ReadDirFails, TakeEntry, EntryFails, EndNode,
                StartReport, Report, Write, Finish, vars, fsVars
<1>2. Union /\ \A k \in 1..Len(groups) : Classed(fs, flat_data[groups[k].node], groups[k].group)
  BY <1>1 DEF UnionInv, ClassesInv
<1>3. CASE \/ PopNode \/ ReadDir \/ ReadDirFails \/ (\E p \in Paths : TakeEntry(p)) \/ EntryFails
           \/ EndNode
  <2>1. groups' = groups /\ phase = "walk"
    BY <1>3 DEF PopNode, ReadDir, ReadDirFails, TakeEntry, EntryFails, EndNode
  <2>2. groups' = <<>>
    BY <2>1 DEF ReportInv, ReportTypes
  <2> QED
    BY <2>2
<1>4. CASE StartReport \/ Finish \/ UNCHANGED vars
  <2>1. groups' = groups /\ flat_data' = flat_data
    BY <1>4 DEF StartReport, Finish, vars
  <2> QED
    BY <1>1, <1>2, <2>1
<1>5. CASE Report
  <2>1. PICK n \in Nodes :
          /\ Len(groups') = Len(groups) + 1 /\ Len(groups) \in Nat
          /\ \A k \in 1..Len(groups) : groups'[k] = groups[k]
          /\ groups'[Len(groups) + 1].node = n
          /\ groups'[Len(groups) + 1].group = find_duplicates(flat_data[n])
    BY <1>5, NewLine
  <2>2. flat_data' = flat_data
    BY <1>5 DEF Report
  <2>3. ASSUME NEW k \in 1..Len(groups') PROVE Classed(fs', flat_data'[groups'[k].node], groups'[k].group)
    <3>1. k \in 1..Len(groups) \/ k = Len(groups) + 1
      BY <2>1
    <3> QED
      BY <1>1, <1>2, <2>1, <2>2, <3>1, DuplicatesClassed
  <2> QED
    BY <2>3
<1>6. CASE Write
  <2>1. /\ Len(groups') = Len(groups) /\ Len(groups) \in Nat
        /\ \A k \in 1..Len(groups) :
              /\ groups[k].node \in Nodes /\ groups'[k].node = groups[k].node
              /\ groups'[k].group = IF k = Len(groups) THEN find_duplicates(flat_data[groups[k].node])
                                                       ELSE groups[k].group
    BY <1>6, LineWritten
  <2>2. flat_data' = flat_data
    BY <1>6 DEF Write
  <2>3. ASSUME NEW k \in 1..Len(groups') PROVE Classed(fs', flat_data'[groups'[k].node], groups'[k].group)
    <3>1. k \in 1..Len(groups)
      BY <2>1
    <3> QED
      BY <1>1, <1>2, <2>1, <2>2, <3>1, DuplicatesClassed
  <2> QED
    BY <2>3
<1> QED
  BY <1>1, <1>3, <1>4, <1>5, <1>6 DEF Next, Run

LEMMA ClassesEnough == ASSUME RestTypes, ClassesInv PROVE GroupsAreClasses
<1>1. DOMAIN groups = 1..Len(groups)
  BY DEF RestTypes
<1> QED
  BY <1>1 DEF ClassesInv, Classed, GroupsAreClasses, At, Entry

(* If the directories stay as they are and no file is as long as a         *)
(* directory, find_duplicates yields exactly the classes of equal entries, *)
(* in whatever order the pairs come, for any number of directories.        *)
THEOREM GroupsAlwaysClasses == Spec => []GroupsAreClasses
<1>1. Spec => [](WalkInv /\ ReportInv /\ RestTypes /\ UnionInv /\ ClassesInv)
  BY WalkInit, WalkStep, ReportInit, ReportStep, RestInit, RestStep, UnionInit, UnionStep,
     ClassesInit, ClassesStep, PTL DEF Spec
<1> QED
  BY <1>1, ClassesEnough, PTL
=============================================================================
