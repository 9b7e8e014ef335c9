------------------------ MODULE ByteGeneratorProofs ------------------------
(* Proofs about ByteGenerator, for any number of threads and files, any    *)
(* forms and any block size.                                               *)
EXTENDS ByteGenerator, TLAPS, SequenceTheorems

-----------------------------------------------------------------------------
(* What writing at an offset leaves behind. *)
LEMMA WriteAtLemma ==
  ASSUME NEW s \in Content, NEW p \in Nat, NEW d \in Content
  PROVE  /\ WriteAt(s, p, d) \in Content
         /\ Len(s) = p => Len(WriteAt(s, p, d)) = p + Len(d)
<1> DEFINE B == 0..Rnd
           n == IF Len(s) > p + Len(d) THEN Len(s) ELSE p + Len(d)
           f(i) == IF i \in (p + 1)..(p + Len(d)) THEN d[i - p]
                   ELSE IF i <= Len(s) THEN s[i] ELSE 0
<1>1. s \in Seq(B) /\ d \in Seq(B) /\ Content = Seq(B)
  BY DEF Content
<1>2. 0 \in B
  BY BoundsAssumption DEF BoundsAssumption, Rnd
<1> HIDE DEF B
<1>3. Len(s) \in Nat /\ Len(d) \in Nat /\ n \in Nat
  BY <1>1
<1>4. ASSUME NEW i \in 1..n PROVE f(i) \in B
  <2>1. CASE i \in (p + 1)..(p + Len(d))
    <3>1. i - p \in 1..Len(d)
      BY <1>3, <2>1
    <3>2. d[i - p] \in B
      BY <1>1, <3>1
    <3> QED
      BY <2>1, <3>2
  <2>2. CASE i \notin (p + 1)..(p + Len(d)) /\ i <= Len(s)
    <3>1. i \in 1..Len(s)
      BY <1>3, <2>2
    <3>2. s[i] \in B
      BY <1>1, <3>1
    <3> QED
      BY <2>2, <3>2
  <2>3. CASE i \notin (p + 1)..(p + Len(d)) /\ ~(i <= Len(s))
    BY <1>2, <2>3
  <2> QED
    BY <2>1, <2>2, <2>3
<1>5. WriteAt(s, p, d) = [i \in 1..n |-> f(i)]
  BY DEF WriteAt
<1>6. Len(s) = p => n = p + Len(d)
  BY <1>3
<1> HIDE DEF f, n
<1>7. WriteAt(s, p, d) \in Seq(B) /\ Len(WriteAt(s, p, d)) = n
  BY <1>3, <1>4, <1>5
<1> QED
  BY <1>1, <1>6, <1>7

(* Moving bytes from the file object to the file, and adding one to the    *)
(* block, in numbers.                                                      *)
LEMMA MovedOn == \A p, a, n \in Nat : (p + n) + (a - n) = p + a
OBVIOUS

LEMMA MovedBlock == \A a, b \in Nat : (a + (b + 1)) + 0 = a + b + 1
OBVIOUS

LEMMA MovedByte == \A a, b \in Nat : a + (b + 1) = a + b + 1
OBVIOUS

LEMMA MovedApart == \A p, x, y \in Nat : p + x + y = p + (x + y)
OBVIOUS

LEMMA MovedOne == \A p, a, b \in Nat : p + (a + b + 1) = (p + a + b) + 1
OBVIOUS

(* The steps that read the form. *)
Reading(j) == ReadName(j) \/ ReadGenerator(j) \/ ReadStep(j) \/ ReadStart(j) \/ ReadSize(j)

LEMMA TypeInit == Init => TypeOK
<1> SUFFICES ASSUME Init PROVE TypeOK
  OBVIOUS
<1>1. form \in Form /\ edits \in 0..MaxEdits
  BY FormsAssumption, BoundsAssumption DEF FormsAssumption, BoundsAssumption, Init
<1>2. req \in [Jobs -> Form]
  BY <1>1 DEF Init
<1>3. /\ form \in Forms /\ button \in BOOLEAN /\ window \in BOOLEAN
      /\ job \in [Jobs -> {"idle"} \union Active \union Ended]
      /\ shared \in [Jobs -> BOOLEAN]
  BY DEF Init
<1>4. /\ count \in [Jobs -> Nat] /\ value \in [Jobs -> Nat \union {-1}]
      /\ run \in [Jobs -> Nat] /\ pos \in [Jobs -> Nat]
  BY DEF Init
<1>5. <<>> \in Content
  BY DEF Content
<1>6. buff \in [Jobs -> Content] /\ pend \in [Jobs -> Content] /\ file \in [Files -> Content]
  BY <1>5 DEF Init
<1> QED
  BY <1>1, <1>2, <1>3, <1>4, <1>6 DEF TypeOK

(* The first n bytes of a sequence, and what is behind them. *)
LEMMA SplitAt ==
  ASSUME NEW S, NEW s \in Seq(S), NEW n \in 0..Len(s)
  PROVE  /\ SubSeq(s, 1, n) \in Seq(S) /\ Len(SubSeq(s, 1, n)) = n
         /\ \A i \in 1..n : SubSeq(s, 1, n)[i] = s[i]
         /\ SubSeq(s, n + 1, Len(s)) \in Seq(S) /\ Len(SubSeq(s, n + 1, Len(s))) = Len(s) - n
         /\ \A i \in 1..(Len(s) - n) : SubSeq(s, n + 1, Len(s))[i] = s[n + i]
<1>1. Len(s) \in Nat /\ n \in Nat
  OBVIOUS
<1>2. /\ 1 \in 1..(Len(s) + 1) /\ n \in (1 - 1)..Len(s) /\ n - 1 + 1 = n
      /\ \A i \in Int : 1 + i - 1 = i
  BY <1>1
<1>3. /\ SubSeq(s, 1, n) \in Seq(S) /\ Len(SubSeq(s, 1, n)) = n
      /\ \A i \in 1..n : SubSeq(s, 1, n)[i] = s[i]
  BY <1>1, <1>2, SubSeqProperties
<1>4. /\ SubSeq(s, n + 1, Len(s)) \in Seq(S) /\ Len(SubSeq(s, n + 1, Len(s))) = Len(s) - n
      /\ \A i \in 1..(Len(s) - n) : SubSeq(s, n + 1, Len(s))[i] = s[n + i]
  <2>1. PICK m \in 1..(Len(s) + 1) : m = n + 1
    BY <1>1
  <2>2. Len(s) \in (m - 1)..Len(s) /\ Len(s) - m + 1 = Len(s) - n
    BY <1>1, <2>1
  <2>3. /\ SubSeq(s, m, Len(s)) \in Seq(S) /\ Len(SubSeq(s, m, Len(s))) = Len(s) - n
        /\ \A i \in 1..(Len(s) - n) : SubSeq(s, m, Len(s))[i] = s[m + i - 1]
    BY <1>1, <2>2, SubSeqProperties
  <2>4. \A i \in Int : m + i - 1 = n + i
    BY <1>1, <2>1
  <2> QED
    BY <2>1, <2>3, <2>4
<1> QED
  BY <1>3, <1>4

(* What a thread's write-out does to its file, its offset and its buffer. *)
LEMMA WriteOutType ==
  ASSUME TypeOK, NEW j \in Jobs, NEW n \in 0..Len(pend[j]), WriteOut(j, n)
  PROVE  /\ file' \in [Files -> Content] /\ pos' \in [Jobs -> Nat] /\ pend' \in [Jobs -> Content]
         /\ \A k \in Jobs : k # j => pos'[k] = pos[k] /\ pend'[k] = pend[k]
         /\ pos'[j] = pos[j] + n /\ Len(pend'[j]) = Len(pend[j]) - n
         /\ pos'[j] + Len(pend'[j]) = pos[j] + Len(pend[j])
         /\ \A f \in Files : f # req[j].file => file'[f] = file[f]
         /\ Len(file[req[j].file]) = pos[j] => Len(file'[req[j].file]) = pos'[j]
<1> DEFINE f    == req[j].file
           out  == SubSeq(pend[j], 1, n)
           rest == SubSeq(pend[j], n + 1, Len(pend[j]))
<1>1. /\ f \in Files /\ file \in [Files -> Content] /\ pos \in [Jobs -> Nat]
      /\ pend \in [Jobs -> Content]
  BY DEF TypeOK, Form
<1>2. /\ file[f] \in Content /\ pos[j] \in Nat /\ pend[j] \in Content /\ Len(pend[j]) \in Nat
      /\ pend[j] \in Seq(0..Rnd) /\ n \in Nat /\ Content = Seq(0..Rnd)
  BY <1>1 DEF Content
<1>3. out \in Content /\ Len(out) = n /\ rest \in Content /\ Len(rest) = Len(pend[j]) - n
  <2> DEFINE p == pend[j]
             B == 0..Rnd
  <2>1. p \in Seq(B) /\ n \in 0..Len(p) /\ Content = Seq(B)
    BY <1>2
  <2> HIDE DEF p, B
  <2>2. /\ SubSeq(p, 1, n) \in Seq(B) /\ Len(SubSeq(p, 1, n)) = n
        /\ SubSeq(p, n + 1, Len(p)) \in Seq(B) /\ Len(SubSeq(p, n + 1, Len(p))) = Len(p) - n
    BY <2>1, SplitAt
  <2> QED
    BY <2>1, <2>2 DEF p
<1> DEFINE new == IF n = 0 THEN file[f] ELSE WriteAt(file[f], pos[j], out)
<1>4. /\ file' = [file EXCEPT ![f] = new]
      /\ pos' = [pos EXCEPT ![j] = @ + n]
      /\ pend' = [pend EXCEPT ![j] = rest]
  BY DEF WriteOut
<1> HIDE DEF out, rest
<1>5. new \in Content /\ (Len(file[f]) = pos[j] => Len(new) = pos[j] + n)
  <2>1. CASE n = 0
    BY <1>2, <2>1
  <2>2. CASE n # 0
    BY <1>2, <1>3, <2>2, WriteAtLemma
  <2> QED
    BY <2>1, <2>2
<1> HIDE DEF new, f
<1>7. /\ file' \in [Files -> Content]
      /\ \A g \in Files : g # f => file'[g] = file[g]
      /\ file'[f] = new
  BY <1>1, <1>4, <1>5
<1>8. /\ pos' \in [Jobs -> Nat] /\ pend' \in [Jobs -> Content]
      /\ \A k \in Jobs : k # j => pos'[k] = pos[k] /\ pend'[k] = pend[k]
      /\ pos'[j] = pos[j] + n /\ pend'[j] = rest
  BY <1>1, <1>2, <1>3, <1>4
<1>9. Len(pend'[j]) = Len(pend[j]) - n
  BY <1>3, <1>8
<1>10. pos'[j] + Len(pend'[j]) = pos[j] + Len(pend[j])
  <2>1. (pos[j] + n) + (Len(pend[j]) - n) = pos[j] + Len(pend[j])
    BY <1>2, MovedOn, Zenon
  <2> QED
    BY <1>8, <1>9, <2>1, Zenon
<1> QED
  BY <1>5, <1>7, <1>8, <1>9, <1>10 DEF f

-----------------------------------------------------------------------------
(* BytesAddUp is not inductive.  A thread must start its loop with nothing *)
(* pending, a counter that is not refused must stay a number, and two      *)
(* threads with the same file open must both know it.                      *)
BeforeOpen == {"idle", "started", "reading name", "reading generator", "reading step",
               "reading start", "reading size", "opening"}

Fresh ==
    \A j \in Jobs : job[j] \in BeforeOpen =>
        count[j] = 0 /\ pos[j] = 0 /\ Len(buff[j]) = 0 /\ Len(pend[j]) = 0

Counting ==
    \A j \in Jobs : job[j] = "generating" /\ req[j].gen = "Counter" /\ req[j].start >= 0 =>
        value[j] >= 0

Sharing ==
    \A j, k \in Jobs :
        j # k /\ job[j] \in HasOpen /\ job[k] \in HasOpen /\ req[j].file = req[k].file => shared[j]

GenInv == TypeOK /\ BytesAddUp /\ Fresh /\ Counting /\ Sharing

LEMMA GenInit == Init => GenInv
<1> SUFFICES ASSUME Init PROVE GenInv
  OBVIOUS
<1>1. \A j \in Jobs : /\ job[j] = "idle" /\ count[j] = 0 /\ pos[j] = 0
                       /\ Len(buff[j]) = 0 /\ Len(pend[j]) = 0
  BY DEF Init
<1> QED
  BY <1>1, TypeInit DEF GenInv, BytesAddUp, Fresh, Counting, Sharing, HasOpen, Raising

(* What the generator makes is a byte. *)
LEMMA NextByteIsByte ==
  ASSUME TypeOK, Counting, NEW j \in Jobs, job[j] = "generating", ~Rejected(req[j])
  PROVE  NextByte(j) \in 0..Rnd
<1>1. value[j] \in Nat \union {-1} /\ req[j] \in Form /\ MaxByte \in Nat
  BY BoundsAssumption DEF TypeOK, BoundsAssumption
<1>2. CASE req[j].gen = "Random"
  BY <1>1, <1>2 DEF NextByte, Rnd
<1>3. CASE req[j].gen = "Counter"
  <2>1. value[j] >= 0
    BY <1>1, <1>3 DEF Rejected, Form, Counting
  <2> QED
    BY <1>1, <1>3, <2>1 DEF NextByte, Rnd
<1> QED
  BY <1>1, <1>2, <1>3 DEF Form

(* One round of the loop: one byte more in the block or handed over.       *)
LEMMA GenerateLemma ==
  ASSUME TypeOK, Counting, NEW j \in Jobs, Generate(j)
  PROVE  /\ count' \in [Jobs -> Nat] /\ run' \in [Jobs -> Nat] /\ value' \in [Jobs -> Nat \union {-1}]
         /\ pend' \in [Jobs -> Content] /\ buff' \in [Jobs -> Content]
         /\ \A k \in Jobs : k # j => /\ pend'[k] = pend[k] /\ buff'[k] = buff[k]
                                     /\ count'[k] = count[k] /\ value'[k] = value[k]
         /\ count'[j] = count[j] + 1 /\ count[j] < req[j].size
         /\ Len(pend'[j]) + Len(buff'[j]) = Len(pend[j]) + Len(buff[j]) + 1
         /\ Len(buff[j]) <= BlockSize => Len(buff'[j]) <= BlockSize
         /\ req[j].gen = "Counter" => value'[j] >= 0
<1> USE BoundsAssumption DEF BoundsAssumption
<1> DEFINE block == Append(buff[j], NextByte(j))
<1>1. /\ pend \in [Jobs -> Content] /\ buff \in [Jobs -> Content]
      /\ count \in [Jobs -> Nat] /\ run \in [Jobs -> Nat] /\ value \in [Jobs -> Nat \union {-1}]
      /\ req[j] \in Form
  BY DEF TypeOK
<1>2. req[j].gen = "Counter" => value[j] >= 0
  BY <1>1 DEF Generate, Rejected, Form, Counting
<1> DEFINE B == 0..Rnd
<1>3. NextByte(j) \in B
  BY NextByteIsByte DEF Generate
<1>4. Content = Seq(B)
  BY DEF Content
<1> HIDE DEF B
<1>5. /\ count' = [count EXCEPT ![j] = @ + 1] /\ count[j] < req[j].size
      /\ WriteBlock(j, block, Len(block) > BlockSize)
  BY DEF Generate
<1>6. /\ run' \in [Jobs -> Nat] /\ value' \in [Jobs -> Nat \union {-1}]
      /\ \A k \in Jobs : k # j => value'[k] = value[k]
      /\ req[j].gen = "Counter" => value'[j] >= 0
  <2>1. CASE req[j].gen = "Counter"
    <3> DEFINE v    == IF value[j] > MaxByte THEN 0 ELSE value[j]
               full == run[j] + 1 >= req[j].step
               r    == IF full THEN 0 ELSE run[j] + 1
               w    == IF full THEN v + 1 ELSE v
    <3>1. run' = [run EXCEPT ![j] = r] /\ value' = [value EXCEPT ![j] = w]
      BY <2>1 DEF Generate, StepCounter
    <3>2. value[j] \in Nat /\ run[j] \in Nat
      BY <1>1, <1>2, <2>1
    <3> HIDE DEF full
    <3>3. r \in Nat /\ v \in Nat
      BY <3>2
    <3>4. w \in Nat
      BY <3>3
    <3> HIDE DEF r, w
    <3> QED
      BY <1>1, <3>1, <3>3, <3>4
  <2>2. CASE req[j].gen # "Counter"
    <3>1. UNCHANGED <<value, run>>
      BY <2>2 DEF Generate
    <3> QED
      BY <1>1, <2>2, <3>1
  <2> QED
    BY <2>1, <2>2
<1>7. /\ buff[j] \in Seq(B) /\ pend[j] \in Seq(B)
      /\ block \in Seq(B) /\ Len(block) = Len(buff[j]) + 1
      /\ Len(buff[j]) \in Nat /\ Len(pend[j]) \in Nat
  BY <1>1, <1>3, <1>4
<1> HIDE DEF block
<1>8. /\ pend' \in [Jobs -> Content] /\ buff' \in [Jobs -> Content]
      /\ \A k \in Jobs : k # j => pend'[k] = pend[k] /\ buff'[k] = buff[k]
      /\ Len(pend'[j]) + Len(buff'[j]) = Len(pend[j]) + Len(buff[j]) + 1
      /\ Len(buff[j]) <= BlockSize => Len(buff'[j]) <= BlockSize
  <2>1. CASE Len(block) > BlockSize
    <3> DEFINE all == pend[j] \o block
    <3>1. pend' = [pend EXCEPT ![j] = all] /\ buff' = [buff EXCEPT ![j] = <<>>]
      BY <1>5, <2>1 DEF WriteBlock
    <3>2. all \in Seq(B) /\ Len(all) = Len(pend[j]) + Len(block)
      BY <1>7, ConcatProperties
    <3>3. <<>> \in Seq(B) /\ Len(<<>>) = 0
      OBVIOUS
    <3> HIDE DEF all
    <3>4. pend'[j] = all /\ buff'[j] = <<>>
      BY <1>1, <3>1
    <3>5. pend' \in [Jobs -> Content] /\ buff' \in [Jobs -> Content]
      BY <1>1, <1>4, <3>1, <3>2, <3>3
    <3>6. \A k \in Jobs : k # j => pend'[k] = pend[k] /\ buff'[k] = buff[k]
      BY <1>1, <3>1
    <3>7. Len(pend'[j]) = Len(pend[j]) + Len(block) /\ Len(buff'[j]) = 0
      BY <3>2, <3>3, <3>4
    <3>8. Len(pend'[j]) + Len(buff'[j]) = Len(pend[j]) + Len(buff[j]) + 1
      <4>1. Len(pend'[j]) + Len(buff'[j]) = (Len(pend[j]) + (Len(buff[j]) + 1)) + 0
        BY <1>7, <3>7, Zenon
      <4> QED
        BY <1>7, <4>1, MovedBlock, Zenon
    <3>9. Len(buff'[j]) <= BlockSize
      BY <3>7
    <3> QED
      BY <3>5, <3>6, <3>8, <3>9
  <2>2. CASE ~(Len(block) > BlockSize)
    <3>1. pend' = pend /\ buff' = [buff EXCEPT ![j] = block]
      BY <1>5, <2>2 DEF WriteBlock
    <3>2. buff'[j] = block /\ \A k \in Jobs : k # j => buff'[k] = buff[k]
      BY <1>1, <3>1
    <3>3. buff' \in [Jobs -> Content]
      BY <1>1, <1>4, <1>7, <3>1
    <3>4. Len(pend'[j]) + Len(buff'[j]) = Len(pend[j]) + Len(buff[j]) + 1
      <4>1. Len(pend'[j]) + Len(buff'[j]) = Len(pend[j]) + (Len(buff[j]) + 1)
        BY <1>7, <3>1, <3>2, Zenon
      <4> QED
        BY <1>7, <4>1, MovedByte, Zenon
    <3>5. Len(buff'[j]) <= BlockSize
      <4>1. Len(buff'[j]) = Len(buff[j]) + 1 /\ ~(Len(buff[j]) + 1 > BlockSize)
        BY <1>7, <2>2, <3>2, Zenon
      <4>2. Len(buff[j]) + 1 <= BlockSize
        BY <1>7, <4>1
      <4> QED
        BY <4>1, <4>2, Zenon
    <3> QED
      BY <1>1, <3>1, <3>2, <3>3, <3>4, <3>5
  <2> QED
    BY <2>1, <2>2
<1>9. /\ count' \in [Jobs -> Nat] /\ count'[j] = count[j] + 1
      /\ \A k \in Jobs : k # j => count'[k] = count[k]
  BY <1>1, <1>5
<1> QED
  BY <1>5, <1>6, <1>8, <1>9

LEMMA GenStep == GenInv /\ [Next]_vars => GenInv'
<1> SUFFICES ASSUME GenInv, [Next]_vars PROVE GenInv'
  OBVIOUS
<1> USE BoundsAssumption, FormsAssumption DEF BoundsAssumption, FormsAssumption
<1> DEFINE Rest == BytesAddUp /\ Fresh /\ Counting /\ Sharing
<1>0. TypeOK /\ Rest
  BY DEF GenInv
<1> SUFFICES TypeOK' /\ Rest'
  BY DEF GenInv
<1>l. \A k \in Jobs : Len(pend[k]) \in Nat /\ Len(buff[k]) \in Nat /\ pos[k] \in Nat /\ count[k] \in Nat
  <2>1. \A k \in Jobs : pend[k] \in Seq(0..Rnd) /\ buff[k] \in Seq(0..Rnd)
    BY <1>0 DEF TypeOK, Content
  <2> QED
    BY <1>0, <2>1 DEF TypeOK
(* Steps before the file is opened, and the end: nothing of a thread that  *)
(* has a file open changes, and no thread gets a file.                     *)
<1>1. ASSUME UNCHANGED <<genVars, fileVars>>, TypeOK',
             \A k \in Jobs : /\ job'[k] \in BeforeOpen => job[k] \in BeforeOpen
                             /\ job'[k] \in HasOpen => /\ job[k] \in HasOpen /\ req'[k] = req[k]
                                                       /\ job'[k] = "generating" => job[k] = "generating"
                                                       /\ job[k] \in Raising => job'[k] \in Raising
      PROVE  TypeOK' /\ Rest'
  <2>1. BytesAddUp'
    BY <1>0, <1>1 DEF BytesAddUp, genVars, fileVars
  <2>2. Fresh' /\ Counting'
    BY <1>0, <1>1 DEF Fresh, Counting, genVars, fileVars, HasOpen, Raising
  <2>3. Sharing'
    BY <1>0, <1>1 DEF Sharing, fileVars
  <2> QED
    BY <1>1, <2>1, <2>2, <2>3
<1>2. CASE Edit
  <2>1. TypeOK'
    BY <1>0, <1>2 DEF TypeOK, Edit, genVars, fileVars
  <2> QED
    BY <1>1, <1>2, <2>1 DEF Edit
<1>3. CASE Quit
  <2>1. \A k \in Jobs : job'[k] = job[k] \/ job'[k] = "killed"
    BY <1>0, <1>3 DEF Quit, TypeOK
  <2>2. TypeOK'
    BY <1>0, <1>3 DEF TypeOK, Quit, Ended, genVars, fileVars
  <2> QED
    BY <1>1, <1>3, <2>1, <2>2 DEF Quit, BeforeOpen, HasOpen, Raising
<1>4. ASSUME NEW j \in Jobs, Click(j) \/ Disable(j) \/ Reading(j)
      PROVE  TypeOK' /\ Rest'
  <2>1. /\ \A k \in Jobs : k # j => job'[k] = job[k] /\ req'[k] = req[k]
        /\ job[j] \in BeforeOpen /\ job'[j] \in (BeforeOpen \ {"idle"}) \union {"refused"}
        /\ UNCHANGED <<genVars, fileVars, form, window, edits>>
        /\ button' \in {button, FALSE}
    BY <1>0, <1>4 DEF TypeOK, Click, Disable, Reading, ReadName, ReadGenerator, ReadStep, ReadStart, ReadSize,
             Goto, BeforeOpen, uiVars
  <2>2. job' \in [Jobs -> {"idle"} \union Active \union Ended]
    BY <1>0, <1>4 DEF TypeOK, Click, Disable, Reading, ReadName, ReadGenerator, ReadStep, ReadStart, ReadSize,
             Goto, Active, Ended
  <2>3. req' \in [Jobs -> Form]
    <3>1. req \in [Jobs -> Form] /\ req[j] \in Form /\ form \in Form
      BY <1>0 DEF TypeOK
    <3>2. CASE UNCHANGED req
      BY <3>1, <3>2
    <3>3. CASE ReadName(j)
      BY <3>1, <3>3 DEF ReadName, Form
    <3>4. CASE ReadGenerator(j) \/ ReadStep(j) \/ ReadStart(j)
      <4>1. ASSUME ReadGenerator(j) PROVE req' \in [Jobs -> Form]
        BY <3>1, <4>1 DEF ReadGenerator, Form
      <4>2. ASSUME ReadStep(j) PROVE req' \in [Jobs -> Form]
        BY <3>1, <4>2 DEF ReadStep, Form
      <4>3. ASSUME ReadStart(j) PROVE req' \in [Jobs -> Form]
        BY <3>1, <4>3 DEF ReadStart, Form
      <4> QED
        BY <3>4, <4>1, <4>2, <4>3
    <3>5. CASE ReadSize(j)
      BY <3>1, <3>5 DEF ReadSize, Form
    <3> QED
      <4>1. CASE Click(j) \/ Disable(j)
        BY <3>2, <4>1 DEF Click, Disable
      <4> QED
        BY <1>4, <3>3, <3>4, <3>5, <4>1 DEF Reading
  <2>4. TypeOK'
    BY <1>0, <2>1, <2>2, <2>3 DEF TypeOK, genVars, fileVars
  <2> QED
    BY <1>1, <2>1, <2>4 DEF BeforeOpen, HasOpen, Raising
<1>5. ASSUME NEW j \in Jobs, Raise(j) \/ Enable(j)
      PROVE  TypeOK' /\ Rest'
  <2>1. /\ \A k \in Jobs : k # j => job'[k] = job[k]
        /\ job[j] \in HasOpen
        /\ job'[j] = "done" \/ (job'[j] = "raising" /\ job[j] = "generating")
        /\ UNCHANGED <<genVars, fileVars, form, window, edits, req>>
        /\ button' \in {button, TRUE}
    BY <1>0, <1>5 DEF TypeOK, Raise, Enable, Goto, HasOpen, Raising, uiVars
  <2>2. TypeOK'
    BY <1>0, <1>5, <2>1 DEF TypeOK, genVars, fileVars, Active, Ended, HasOpen, Raising, Raise, Enable, Goto
  <2> QED
    BY <1>1, <2>1, <2>2 DEF BeforeOpen, HasOpen, Raising
<1>6. ASSUME NEW j \in Jobs, Open(j) PROVE TypeOK' /\ Rest'
  <2> DEFINE f == req[j].file
             others == {k \in Jobs \ {j} : job[k] \in HasOpen /\ req[k].file = f}
  <2>1. CASE f \notin Writable
    <3>1. /\ \A k \in Jobs : k # j => job'[k] = job[k]
          /\ job[j] = "opening" /\ job'[j] = "refused"
          /\ UNCHANGED <<uiVars, genVars, fileVars, req>>
      BY <1>0, <1>6, <2>1 DEF TypeOK, Open, Goto, genVars, fileVars
    <3>2. TypeOK'
      BY <1>0, <1>6, <2>1, <3>1 DEF TypeOK, uiVars, genVars, fileVars, Open, Goto, Ended
    <3> QED
      BY <1>1, <3>1, <3>2 DEF BeforeOpen, HasOpen, Raising
  <2>2. CASE f \in Writable
    <3>1. /\ \A k \in Jobs : k # j => job'[k] = job[k] /\ value'[k] = value[k]
          /\ job[j] = "opening" /\ job'[j] = "generating"
          /\ value'[j] = req[j].start
          /\ shared' = [k \in Jobs |-> CASE k = j         -> others # {}
                                          [] k \in others -> TRUE
                                          [] OTHER        -> shared[k]]
          /\ UNCHANGED <<uiVars, req, count, run, buff, pend, pos>>
      BY <1>0, <1>6, <2>2 DEF TypeOK, Open, Goto
    <3>2. file' = [file EXCEPT ![f] = <<>>]
      BY <1>6, <2>2 DEF Open
    <3>3. /\ file' \in [Files -> Content] /\ Len(file'[f]) = 0
          /\ \A g \in Files : g # f => file'[g] = file[g]
      <4>1. <<>> \in Content /\ Len(<<>>) = 0
        BY DEF Content
      <4>2. file \in [Files -> Content] /\ f \in Files
        BY <1>0 DEF TypeOK, Form
      <4> QED
        BY <3>2, <4>1, <4>2
    <3>4. /\ shared' \in [Jobs -> BOOLEAN]
          /\ shared'[j] = (others # {})
          /\ \A k \in others : shared'[k]
          /\ \A k \in Jobs \ {j} : k \notin others => shared'[k] = shared[k]
      BY <1>0, <3>1 DEF TypeOK
    <3>5. job' \in [Jobs -> {"idle"} \union Active \union Ended] /\ value' \in [Jobs -> Nat \union {-1}]
      <4>1. req[j].start \in Nat \union {-1}
        BY <1>0 DEF TypeOK, Form
      <4> QED
        BY <1>0, <1>6, <2>2, <4>1 DEF TypeOK, Open, Goto, Active, HasOpen, Raising
    <3>6. TypeOK'
      BY <1>0, <3>1, <3>3, <3>4, <3>5 DEF TypeOK, uiVars
    <3>7. BytesAddUp'
      <4> SUFFICES ASSUME NEW k \in Jobs, job'[k] \in HasOpen
                   PROVE  /\ pos'[k] + Len(pend'[k]) + Len(buff'[k]) = count'[k]
                          /\ count'[k] <= req'[k].size
                          /\ job'[k] \notin Raising => Len(buff'[k]) <= BlockSize
                          /\ ~shared'[k] => Len(file'[req'[k].file]) = pos'[k]
        BY DEF BytesAddUp
      <4>1. CASE k = j
        <5>1. count[j] = 0 /\ pos[j] = 0 /\ Len(buff[j]) = 0 /\ Len(pend[j]) = 0
          BY <1>0, <3>1 DEF Fresh, BeforeOpen
        <5>2. req[j].size \in Nat
          BY <1>0 DEF TypeOK, Form
        <5> QED
          BY <3>1, <3>3, <4>1, <5>1, <5>2
      <4>2. CASE k # j
        <5>1. job[k] \in HasOpen
          BY <3>1, <4>2
        <5>2. req[k].file \in Files
          BY <1>0 DEF TypeOK, Form
        <5>3. /\ pos[k] + Len(pend[k]) + Len(buff[k]) = count[k] /\ count[k] <= req[k].size
              /\ (job[k] \notin Raising => Len(buff[k]) <= BlockSize) /\ (~shared[k] => Len(file[req[k].file]) = pos[k])
          BY <1>0, <5>1 DEF BytesAddUp
        <5>4. ~shared'[k] => ~shared[k] /\ req[k].file # f
          BY <3>4, <4>2, <5>1
        <5> QED
          <6>1. /\ pos'[k] = pos[k] /\ pend'[k] = pend[k] /\ buff'[k] = buff[k]
                /\ count'[k] = count[k] /\ req'[k] = req[k] /\ job'[k] = job[k]
                /\ req[k].file # f => file'[req[k].file] = file[req[k].file]
            BY <3>1, <3>3, <4>2, <5>2
          <6> QED
            BY <5>3, <5>4, <6>1
      <4> QED
        BY <4>1, <4>2
    <3>8. Fresh'
      BY <1>0, <3>1 DEF Fresh, BeforeOpen
    <3>9. Counting'
      BY <1>0, <3>1 DEF Counting
    <3>10. Sharing'
      <4> SUFFICES ASSUME NEW a \in Jobs, NEW b \in Jobs, a # b, job'[a] \in HasOpen, job'[b] \in HasOpen,
                          req'[a].file = req'[b].file
                   PROVE  shared'[a]
        BY DEF Sharing
      <4>1. CASE a = j
        <5>1. b \in others
          BY <3>1, <4>1
        <5> QED
          BY <3>4, <4>1, <5>1
      <4>2. CASE b = j
        <5>1. a \in others
          BY <3>1, <4>2
        <5> QED
          BY <3>4, <5>1
      <4>3. CASE a # j /\ b # j
        <5>1. shared[a]
          BY <1>0, <3>1, <4>3 DEF Sharing
        <5> QED
          BY <3>4, <4>3, <5>1
      <4> QED
        BY <4>1, <4>2, <4>3
    <3> QED
      BY <3>6, <3>7, <3>8, <3>9, <3>10
  <2> QED
    BY <2>1, <2>2
(* A thread that has its file open works on: others are untouched unless   *)
(* they have the same file open, and then both are marked.                 *)
<1>6a. ASSUME NEW j \in Jobs, job[j] \in {"generating", "closing", "raising"},
              UNCHANGED <<req, shared>>, TypeOK',
              job'[j] \notin BeforeOpen, job'[j] = "generating" => job[j] = "generating",
              job'[j] = "generating" /\ req[j].gen = "Counter" /\ req[j].start >= 0 => value'[j] >= 0,
              \A k \in Jobs : k # j => /\ job'[k] = job[k] /\ pos'[k] = pos[k] /\ pend'[k] = pend[k]
                                      /\ buff'[k] = buff[k] /\ count'[k] = count[k] /\ value'[k] = value[k],
              \A g \in Files : g # req[j].file => file'[g] = file[g],
              Len(file[req[j].file]) = pos[j] => Len(file'[req[j].file]) = pos'[j],
              pos'[j] + Len(pend'[j]) + Len(buff'[j]) = count'[j],
              count'[j] <= req[j].size,
              job'[j] \in HasOpen \ Raising => Len(buff'[j]) <= BlockSize
       PROVE  TypeOK' /\ Rest'
  <2>0. job[j] \in HasOpen /\ job[j] \notin BeforeOpen /\ job'[j] \notin BeforeOpen
    BY <1>6a DEF HasOpen, Raising, BeforeOpen
  <2>1. BytesAddUp'
    <3> SUFFICES ASSUME NEW k \in Jobs, job'[k] \in HasOpen
                 PROVE  /\ pos'[k] + Len(pend'[k]) + Len(buff'[k]) = count'[k]
                        /\ count'[k] <= req'[k].size
                        /\ job'[k] \notin Raising => Len(buff'[k]) <= BlockSize
                        /\ ~shared'[k] => Len(file'[req'[k].file]) = pos'[k]
      BY DEF BytesAddUp
    <3>1. CASE k = j
      <4>1. ~shared[j] => Len(file[req[j].file]) = pos[j]
        BY <1>0, <2>0 DEF BytesAddUp
      <4> QED
        BY <1>6a, <3>1, <4>1
    <3>2. CASE k # j
      <4>1. job[k] \in HasOpen
        BY <1>6a, <3>2
      <4>2. /\ pos[k] + Len(pend[k]) + Len(buff[k]) = count[k] /\ count[k] <= req[k].size
            /\ (job[k] \notin Raising => Len(buff[k]) <= BlockSize) /\ (~shared[k] => Len(file[req[k].file]) = pos[k])
        BY <1>0, <4>1 DEF BytesAddUp
      <4>3. ~shared[k] => req[k].file # req[j].file
        BY <1>0, <2>0, <3>2, <4>1 DEF Sharing
      <4>4. req[k].file \in Files
        BY <1>0 DEF TypeOK, Form
      <4> QED
        BY <1>6a, <3>2, <4>2, <4>3, <4>4
    <3> QED
      BY <3>1, <3>2
  <2>2. Fresh'
    BY <1>0, <1>6a, <2>0 DEF Fresh
  <2>3. Counting'
    BY <1>0, <1>6a DEF Counting
  <2>4. Sharing'
    BY <1>0, <1>6a, <2>0 DEF Sharing
  <2> QED
    BY <1>6a, <2>1, <2>2, <2>3, <2>4
<1>7. ASSUME NEW j \in Jobs, Generate(j) PROVE TypeOK' /\ Rest'
  <2>1. job[j] = "generating" /\ UNCHANGED <<uiVars, job, req, pos, file, shared>>
    BY <1>7 DEF Generate
  <2>2. TypeOK /\ Counting
    BY <1>0
  <2>3. /\ count' \in [Jobs -> Nat] /\ run' \in [Jobs -> Nat] /\ value' \in [Jobs -> Nat \union {-1}]
        /\ pend' \in [Jobs -> Content] /\ buff' \in [Jobs -> Content]
        /\ \A k \in Jobs : k # j => /\ pend'[k] = pend[k] /\ buff'[k] = buff[k]
                                    /\ count'[k] = count[k] /\ value'[k] = value[k]
        /\ count'[j] = count[j] + 1 /\ count[j] < req[j].size
        /\ Len(pend'[j]) + Len(buff'[j]) = Len(pend[j]) + Len(buff[j]) + 1
        /\ Len(buff[j]) <= BlockSize => Len(buff'[j]) <= BlockSize
        /\ req[j].gen = "Counter" => value'[j] >= 0
    BY <1>7, <2>2, GenerateLemma
  <2>4. TypeOK'
    BY <2>1, <2>2, <2>3 DEF TypeOK, uiVars
  <2>5. /\ pos[j] + Len(pend[j]) + Len(buff[j]) = count[j] /\ Len(buff[j]) <= BlockSize
    <3>1. job[j] \in HasOpen /\ job[j] \notin Raising
      BY <2>1 DEF HasOpen, Raising
    <3> QED
      BY <1>0, <3>1 DEF BytesAddUp
  <2>6. pos'[j] + Len(pend'[j]) + Len(buff'[j]) = count'[j]
    <3>1. Len(pend'[j]) \in Nat /\ Len(buff'[j]) \in Nat
      <4>1. pend'[j] \in Seq(0..Rnd) /\ buff'[j] \in Seq(0..Rnd)
        BY <2>3 DEF Content
      <4> QED
        BY <4>1
    <3>2. pos'[j] = pos[j]
      BY <2>1
    <3>4. pos[j] \in Nat
      BY <1>l
    <3>5. Len(pend[j]) \in Nat /\ Len(buff[j]) \in Nat
      BY <1>l
    <3>6. pos[j] + Len(pend'[j]) + Len(buff'[j]) = count[j] + 1
      <4>1. pos[j] + Len(pend'[j]) + Len(buff'[j]) = (pos[j] + Len(pend[j]) + Len(buff[j])) + 1
        <5>1. Len(pend'[j]) + Len(buff'[j]) = Len(pend[j]) + Len(buff[j]) + 1
          BY <2>3, Zenon
        <5>2. pos[j] + Len(pend'[j]) + Len(buff'[j]) = pos[j] + (Len(pend'[j]) + Len(buff'[j]))
          BY <3>1, <3>4, MovedApart, Zenon
        <5>3. pos[j] + (Len(pend[j]) + Len(buff[j]) + 1) = (pos[j] + Len(pend[j]) + Len(buff[j])) + 1
          BY <3>4, <3>5, MovedOne, Zenon
        <5> QED
          BY <5>1, <5>2, <5>3, Zenon
      <4> QED
        BY <2>5, <4>1, Zenon
    <3> QED
      BY <2>3, <3>2, <3>6, Zenon
  <2>7. count'[j] <= req[j].size
    <3>1. req[j].size \in Nat
      BY <2>2 DEF TypeOK, Form
    <3> QED
      BY <1>l, <2>3, <3>1
  <2> QED
    BY <1>6a, <2>1, <2>3, <2>4, <2>5, <2>6, <2>7 DEF BeforeOpen
<1>8. ASSUME NEW j \in Jobs, LastBlock(j) PROVE TypeOK' /\ Rest'
  <2>1. /\ job[j] = "generating" /\ job'[j] = "closing"
        /\ \A k \in Jobs : k # j => job'[k] = job[k]
        /\ count[j] = req[j].size
        /\ pend' = [pend EXCEPT ![j] = @ \o buff[j]] /\ buff' = [buff EXCEPT ![j] = <<>>]
        /\ UNCHANGED <<uiVars, req, count, value, run, pos, file, shared>>
    BY <1>0, <1>8 DEF LastBlock, Goto, TypeOK
  <2>2. pend \in [Jobs -> Seq(0..Rnd)] /\ buff \in [Jobs -> Seq(0..Rnd)]
    BY <1>0 DEF TypeOK, Content
  <2>3. /\ pend[j] \o buff[j] \in Seq(0..Rnd)
        /\ Len(pend[j] \o buff[j]) = Len(pend[j]) + Len(buff[j])
        /\ <<>> \in Seq(0..Rnd) /\ Len(<<>>) = 0
    BY <2>2
  <2>4. pend' \in [Jobs -> Seq(0..Rnd)] /\ buff' \in [Jobs -> Seq(0..Rnd)]
    BY <2>1, <2>2, <2>3
  <2>5. /\ Len(pend'[j]) = Len(pend[j]) + Len(buff[j]) /\ Len(buff'[j]) = 0
        /\ \A k \in Jobs : k # j => pend'[k] = pend[k] /\ buff'[k] = buff[k]
    BY <2>1, <2>2, <2>3
  <2>6. job' \in [Jobs -> {"idle"} \union Active \union Ended]
    BY <1>0, <1>8 DEF TypeOK, LastBlock, Goto, Active, HasOpen, Raising
  <2>7. TypeOK'
    BY <1>0, <2>1, <2>4, <2>6 DEF TypeOK, uiVars, Content
  <2>8. pos[j] + Len(pend[j]) + Len(buff[j]) = count[j]
    BY <1>0, <2>1 DEF BytesAddUp, HasOpen, Raising
  <2>9. pos'[j] + Len(pend'[j]) + Len(buff'[j]) = count'[j]
    <3>1. pos'[j] = pos[j] /\ count'[j] = count[j]
      BY <2>1
    <3>2. Len(pend[j]) \in Nat /\ Len(buff[j]) \in Nat /\ pos[j] \in Nat
      BY <1>l
    <3>3. Len(pend'[j]) \in Nat /\ Len(buff'[j]) \in Nat
      <4>1. pend'[j] \in Seq(0..Rnd) /\ buff'[j] \in Seq(0..Rnd)
        BY <2>4
      <4> QED
        BY <4>1
    <3>4. pos[j] + Len(pend'[j]) + Len(buff'[j]) = pos[j] + Len(pend[j]) + Len(buff[j])
      <4> DEFINE p == pos[j]  a == Len(pend[j])  b == Len(buff[j])
                 c == Len(pend'[j])  z == Len(buff'[j])
      <4>1. p \in Nat /\ a \in Nat /\ b \in Nat /\ c = a + b /\ z = 0
        BY <2>5, <3>2
      <4> HIDE DEF p, a, b, c, z
      <4>2. p + c + z = p + a + b
        BY <4>1
      <4> QED
        BY <4>2 DEF p, a, b, c, z
    <3> QED
      BY <2>8, <3>1, <3>4, Zenon
  <2>10. req[j].size \in Nat
    BY <1>0 DEF TypeOK, Form
  <2>11. /\ count'[j] <= req[j].size /\ Len(buff'[j]) <= BlockSize
         /\ Len(file[req[j].file]) = pos[j] => Len(file'[req[j].file]) = pos'[j]
    BY <2>1, <2>5, <2>10
  <2>12. /\ \A k \in Jobs : k # j => /\ job'[k] = job[k] /\ pos'[k] = pos[k] /\ pend'[k] = pend[k]
                                    /\ buff'[k] = buff[k] /\ count'[k] = count[k] /\ value'[k] = value[k]
         /\ \A g \in Files : g # req[j].file => file'[g] = file[g]
    BY <2>1, <2>5
  <2> QED
    BY <1>6a, <2>1, <2>7, <2>9, <2>11, <2>12 DEF BeforeOpen
<1>9. ASSUME NEW j \in Jobs, Flush(j) \/ Close(j) \/ CloseRaises(j) \/ WriteFails(j)
      PROVE TypeOK' /\ Rest'
  <2>0. Len(pend[j]) \in Nat /\ Len(buff[j]) \in Nat /\ pos[j] \in Nat /\ count[j] \in Nat
    BY <1>l
  <2>1. /\ job[j] \in {"generating", "closing", "raising"}
        /\ job'[j] \in {"generating", "enabling", "raising", "raised", "broken"}
        /\ job'[j] = "generating" => job[j] = "generating"
        /\ job'[j] = "enabling" => job[j] = "closing"
        /\ \A k \in Jobs : k # j => job'[k] = job[k]
        /\ UNCHANGED <<uiVars, req, value, run, shared>>
    BY <1>0, <1>9 DEF Flush, Close, CloseRaises, WriteFails, Goto, TypeOK, genVars
  <2>2. PICK n \in 0..Len(pend[j]) : WriteOut(j, n)
    <3>1. Len(pend[j]) \in 0..Len(pend[j]) /\ 0..(Len(pend[j]) - 1) \subseteq 0..Len(pend[j])
      BY <2>0
    <3> QED
      BY <1>9, <3>1 DEF Flush, Close, CloseRaises, WriteFails
  <2>3. /\ file' \in [Files -> Content] /\ pos' \in [Jobs -> Nat] /\ pend' \in [Jobs -> Content]
        /\ \A k \in Jobs : k # j => pos'[k] = pos[k] /\ pend'[k] = pend[k]
        /\ pos'[j] + Len(pend'[j]) = pos[j] + Len(pend[j])
        /\ \A f \in Files : f # req[j].file => file'[f] = file[f]
        /\ Len(file[req[j].file]) = pos[j] => Len(file'[req[j].file]) = pos'[j]
    BY <1>0, <2>2, WriteOutType
  <2>4. /\ pos[j] + Len(pend[j]) + Len(buff[j]) = count[j] /\ count[j] <= req[j].size
        /\ job[j] \notin Raising => Len(buff[j]) <= BlockSize
    BY <1>0, <2>1 DEF BytesAddUp, HasOpen, Raising
  <2>5. job' \in [Jobs -> {"idle"} \union Active \union Ended]
    BY <1>0, <1>9 DEF TypeOK, Flush, Close, CloseRaises, WriteFails, Goto, Active, Ended, HasOpen, Raising
(* What happens to the block and the count of bytes. *)
  <2>6. CASE UNCHANGED <<count, buff>>
    <3>1. TypeOK'
      BY <1>0, <2>1, <2>3, <2>5, <2>6 DEF TypeOK, uiVars
    <3>2. pos'[j] + Len(pend'[j]) + Len(buff'[j]) = count'[j]
      BY <2>3, <2>4, <2>6, Zenon
    <3>3. job'[j] = "generating" /\ req[j].gen = "Counter" /\ req[j].start >= 0 => value'[j] >= 0
      BY <1>0, <2>1 DEF Counting
    <3>4. count'[j] <= req[j].size /\ (job'[j] \in HasOpen \ Raising => Len(buff'[j]) <= BlockSize)
      BY <2>1, <2>4, <2>6 DEF Raising, HasOpen
    <3> QED
      BY <1>6a, <2>1, <2>3, <2>6, <3>1, <3>2, <3>3, <3>4 DEF BeforeOpen
  <2>7. CASE /\ job[j] = "generating" /\ job'[j] = "raising" /\ ~Rejected(req[j])
             /\ count[j] < req[j].size
             /\ count' = [count EXCEPT ![j] = @ + 1]
             /\ buff' = [buff EXCEPT ![j] = Append(@, NextByte(j))]
    <3>1. NextByte(j) \in 0..Rnd
      BY <1>0, <2>7, NextByteIsByte
    <3>2. buff \in [Jobs -> Content] /\ buff[j] \in Seq(0..Rnd) /\ Content = Seq(0..Rnd)
      BY <1>0 DEF TypeOK, Content
    <3>3. Append(buff[j], NextByte(j)) \in Content /\ Len(Append(buff[j], NextByte(j))) = Len(buff[j]) + 1
      BY <3>1, <3>2
    <3>4. /\ buff' \in [Jobs -> Content] /\ Len(buff'[j]) = Len(buff[j]) + 1
          /\ \A k \in Jobs : k # j => buff'[k] = buff[k]
      BY <2>7, <3>2, <3>3
    <3>5. /\ count' \in [Jobs -> Nat] /\ count'[j] = count[j] + 1
          /\ \A k \in Jobs : k # j => count'[k] = count[k]
      BY <1>0, <2>0, <2>7 DEF TypeOK
    <3>6. TypeOK'
      BY <1>0, <2>1, <2>3, <2>5, <3>4, <3>5 DEF TypeOK, uiVars
    <3>7. pos'[j] + Len(pend'[j]) + Len(buff'[j]) = count'[j]
      <4>1. pos[j] + Len(pend[j]) \in Nat
        BY <2>0
      <4>2. (pos[j] + Len(pend[j])) + (Len(buff[j]) + 1) = pos[j] + Len(pend[j]) + Len(buff[j]) + 1
        BY <2>0, <4>1, MovedByte, Zenon
      <4> QED
        BY <2>3, <2>4, <3>4, <3>5, <4>2, Zenon
    <3>8. req[j].size \in Nat
      BY <1>0 DEF TypeOK, Form
    <3>9. count'[j] <= req[j].size
      BY <2>0, <2>7, <3>5, <3>8
    <3> QED
      BY <1>6a, <2>1, <2>3, <2>7, <3>4, <3>5, <3>6, <3>7, <3>9 DEF BeforeOpen, Raising
  <2> QED
    <3>1. UNCHANGED <<count, buff>> \/ WriteFails(j)
      BY <1>9 DEF Flush, Close, CloseRaises, genVars
    <3>2. CASE WriteFails(j)
      <4>1. job'[j] = "raising"
        BY <1>0, <3>2 DEF WriteFails, Goto, TypeOK
      <4> QED
        BY <3>2, <2>6, <2>7, <4>1 DEF WriteFails
    <3> QED
      BY <2>6, <3>1, <3>2
<1>10. CASE UNCHANGED vars
  <2>1. TypeOK'
    BY <1>0, <1>10 DEF TypeOK, vars, uiVars, genVars, fileVars
  <2> QED
    BY <1>1, <1>10, <2>1 DEF vars, HasOpen, Raising
<1> QED
  BY <1>2, <1>3, <1>4, <1>5, <1>6, <1>7, <1>8, <1>9, <1>10 DEF Next, Work, Reading

(* Every reachable state is well typed; in particular every byte the       *)
(* counter makes is one.                                                   *)
THEOREM GeneratorTypeCorrect == Spec => []TypeOK
<1>1. GenInv => TypeOK
  BY DEF GenInv
<1> QED
  BY <1>1, GenInit, GenStep, PTL DEF Spec

(* For any number of threads, clicks and block size no byte is lost or     *)
(* written twice, and a file a thread has for itself is as long as what it *)
(* has written out.                                                        *)
THEOREM BytesAlwaysAddUp == Spec => []BytesAddUp
<1>1. GenInv => BytesAddUp
  BY DEF GenInv
<1> QED
  BY <1>1, GenInit, GenStep, PTL DEF Spec

-----------------------------------------------------------------------------
(* Why the button comes back: while it is disabled, and nobody was refused *)
(* or failed to close its file, a thread is still there to enable it.      *)
ButtonInv ==
    /\ job \in [Jobs -> {"idle"} \union Active \union Ended]
    /\ window /\ ~button => \E j \in Jobs : job[j] \in Active \union {"refused", "broken"}

(* The button is only lost by the early returns and by a close() that      *)
(* raises, whatever else fails and however many threads overlap.           *)
THEOREM ButtonLossAlwaysExplained == Spec => []ButtonLossExplained
<1>1. Init => ButtonInv
  BY DEF Init, ButtonInv
<1>2. ButtonInv /\ [Next]_vars => ButtonInv'
  <2> SUFFICES ASSUME ButtonInv, [Next]_vars PROVE ButtonInv'
    OBVIOUS
  <2> USE DEF ButtonInv, Active, HasOpen, Raising, Ended
  <2>1. CASE Edit \/ Quit
    BY <2>1 DEF Edit, Quit
  <2>2. ASSUME NEW j \in Jobs, Click(j) \/ Disable(j) \/ Reading(j)
        PROVE  ButtonInv'
    BY <2>2 DEF Click, Disable, Reading, ReadName, ReadGenerator, ReadStep, ReadStart, ReadSize,
             Goto, uiVars
  <2>3. ASSUME NEW j \in Jobs, Open(j) PROVE ButtonInv'
    <3>1. Goto(j, "generating") \/ Goto(j, "refused")
      BY <2>3 DEF Open
    <3> QED
      BY <2>3, <3>1 DEF Open, Goto, uiVars
  <2>4. ASSUME NEW j \in Jobs, Generate(j) \/ LastBlock(j) \/ Raise(j) \/ Flush(j)
                                    \/ WriteFails(j) \/ Close(j) \/ CloseRaises(j)
        PROVE  ButtonInv'
    <3>1. CASE Generate(j) \/ LastBlock(j) \/ Raise(j) \/ Flush(j)
      BY <3>1 DEF Generate, LastBlock, Raise, Flush, Goto, uiVars
    <3>2. CASE WriteFails(j) \/ Close(j) \/ CloseRaises(j)
      BY <3>2 DEF WriteFails, Close, CloseRaises, Goto, uiVars
    <3> QED
      BY <2>4, <3>1, <3>2
  <2>5. ASSUME NEW j \in Jobs, Enable(j) PROVE ButtonInv'
    BY <2>5 DEF Enable, Goto
  <2>6. CASE UNCHANGED vars
    BY <2>6 DEF vars, uiVars
  <2> QED
    BY <2>1, <2>2, <2>3, <2>4, <2>5, <2>6 DEF Next, Work, Reading
<1>3. ButtonInv => ButtonLossExplained
  BY DEF ButtonInv, ButtonLossExplained
<1> QED
  BY <1>1, <1>2, <1>3, PTL DEF Spec
-----------------------------------------------------------------------------
(* What a file should hold, byte by byte; Expected is all of them.         *)
ByteOf(r, n) == IF r.gen = "Random" THEN Rnd ELSE CounterByte(r, n - 1)

(* s is what a thread should write from its byte p on.                     *)
Asked(s, r, p) == \A i \in 1..Len(s) : s[i] = ByteOf(r, p + i)

(* FileIsExpected is not inductive: it has to be followed through the      *)
(* block and the file object, the generator has to be at the byte its loop *)
(* has counted, and the loop has to be over when the file is closed without *)
(* an exception.                                                           *)
InOrder ==
    \A j \in Jobs : job[j] \in HasOpen =>
        /\ Asked(buff[j], req[j], pos[j] + Len(pend[j]))
        /\ Asked(pend[j], req[j], pos[j])
        /\ ~shared[j] => Asked(file[req[j].file], req[j], 0)

InStep ==
    \A j \in Jobs : job[j] = "generating" /\ req[j].gen = "Counter" /\ req[j].start >= 0 =>
        /\ run[j] = count[j] % (IF req[j].step = 0 THEN 1 ELSE req[j].step)
        /\ (IF value[j] > MaxByte THEN 0 ELSE value[j]) = CounterByte(req[j], count[j])

LoopOver ==
    \A j \in Jobs :
        /\ job[j] \in BeforeOpen => run[j] = 0
        /\ job[j] \in HasOpen /\ Rejected(req[j]) => count[j] = 0
        /\ job[j] \in {"closing", "enabling"} =>
              ~Rejected(req[j]) /\ Len(buff[j]) = 0 /\ count[j] = req[j].size
        /\ job[j] = "enabling" => Len(pend[j]) = 0

FileInv == GenInv /\ InOrder /\ InStep /\ LoopOver

LEMMA AskedNothing ==
  ASSUME NEW s, Len(s) = 0, NEW r, NEW p PROVE Asked(s, r, p)
BY DEF Asked

LEMMA AskedAppend ==
  ASSUME NEW S, NEW s \in Seq(S), NEW r, NEW p \in Nat, Asked(s, r, p),
         NEW b \in S, b = ByteOf(r, p + Len(s) + 1), NEW t, t = Append(s, b)
  PROVE  Asked(t, r, p)
<1>1. Len(t) = Len(s) + 1 /\ t[Len(s) + 1] = b /\ \A i \in 1..Len(s) : t[i] = s[i]
  BY AppendProperties
<1>2. Len(s) \in Nat
  OBVIOUS
<1>3. p + Len(s) + 1 = p + (Len(s) + 1)
  BY <1>2
<1> SUFFICES ASSUME NEW i \in 1..Len(t) PROVE t[i] = ByteOf(r, p + i)
  BY DEF Asked
<1>4. i \in 1..Len(s) \/ i = Len(s) + 1
  BY <1>1, <1>2
<1> QED
  BY <1>1, <1>3, <1>4, Zenon DEF Asked

LEMMA AskedJoined ==
  ASSUME NEW S, NEW s \in Seq(S), NEW t \in Seq(S), NEW r, NEW p \in Nat,
         Asked(s, r, p), Asked(t, r, p + Len(s)), NEW u, u = s \o t
  PROVE  Asked(u, r, p)
<1>1. /\ Len(u) = Len(s) + Len(t) /\ Len(s) \in Nat /\ Len(t) \in Nat
      /\ \A i \in 1..Len(s) : u[i] = s[i]
      /\ \A i \in (Len(s) + 1)..(Len(s) + Len(t)) : u[i] = t[i - Len(s)]
  BY ConcatProperties
<1> SUFFICES ASSUME NEW i \in 1..Len(u) PROVE u[i] = ByteOf(r, p + i)
  BY DEF Asked
<1>2. CASE i \in 1..Len(s)
  BY <1>1, <1>2 DEF Asked
<1>3. CASE i \in (Len(s) + 1)..(Len(s) + Len(t))
  <2>1. i - Len(s) \in 1..Len(t) /\ (p + Len(s)) + (i - Len(s)) = p + i
    BY <1>1, <1>3
  <2>2. t[i - Len(s)] = ByteOf(r, (p + Len(s)) + (i - Len(s)))
    BY <2>1, Zenon DEF Asked
  <2> QED
    BY <1>1, <1>3, <2>1, <2>2
<1> QED
  BY <1>1, <1>2, <1>3

LEMMA AskedWritten ==
  ASSUME NEW s \in Content, NEW d \in Content, NEW r, Asked(s, r, 0), Asked(d, r, Len(s)),
         NEW u, u = WriteAt(s, Len(s), d)
  PROVE  Asked(u, r, 0)
<1>1. Len(s) \in Nat /\ Len(d) \in Nat
  BY DEF Content
<1>2. Len(u) = Len(s) + Len(d)
  BY <1>1, WriteAtLemma
<1> SUFFICES ASSUME NEW i \in 1..Len(u) PROVE u[i] = ByteOf(r, 0 + i)
  BY DEF Asked
<1>3. CASE i \in 1..Len(s)
  <2>1. u[i] = s[i]
    BY <1>1, <1>2, <1>3 DEF WriteAt
  <2> QED
    BY <1>3, <2>1 DEF Asked
<1>4. CASE i \in (Len(s) + 1)..(Len(s) + Len(d))
  <2>1. i - Len(s) \in 1..Len(d) /\ Len(s) + (i - Len(s)) = 0 + i
    BY <1>1, <1>4
  <2>2. u[i] = d[i - Len(s)]
    BY <1>1, <1>2, <1>4 DEF WriteAt
  <2>3. d[i - Len(s)] = ByteOf(r, Len(s) + (i - Len(s)))
    BY <2>1, Zenon DEF Asked
  <2> QED
    BY <2>1, <2>2, <2>3
<1> QED
  BY <1>1, <1>2, <1>3, <1>4

LEMMA AskedAll ==
  ASSUME NEW r \in Form, NEW s \in Content, Asked(s, r, 0), Len(s) = r.size
  PROVE  s = Expected(r)
<1>1. s = [i \in 1..Len(s) |-> s[i]]
  BY DEF Content
<1>2. \A i \in 1..Len(s) : s[i] = ByteOf(r, i)
  <2> SUFFICES ASSUME NEW i \in 1..Len(s) PROVE s[i] = ByteOf(r, i)
    OBVIOUS
  <2>1. 0 + i = i
    OBVIOUS
  <2> QED
    BY <2>1 DEF Asked
<1> QED
  BY <1>1, <1>2 DEF Expected, ByteOf

(* Less than all of it is a prefix. *)
LEMMA AskedPrefix ==
  ASSUME NEW r \in Form, NEW s \in Content, Asked(s, r, 0), Len(s) <= r.size
  PROVE  IsPrefix(s, Expected(r))
<1> DEFINE e == Expected(r)
           S == {e[i] : i \in 1..r.size}
<1>1. Len(s) \in Nat /\ r.size \in Nat /\ s \in Seq(0..Rnd)
  BY DEF Content, Form
<1>2. e \in Seq(S) /\ Len(e) = r.size /\ \A i \in 1..r.size : e[i] = ByteOf(r, i)
  <2>1. e = [i \in 1..r.size |-> ByteOf(r, i)]
    BY DEF Expected, ByteOf
  <2> HIDE DEF e
  <2>2. \A i \in 1..r.size : e[i] = ByteOf(r, i)
    BY <2>1
  <2>3. \A i \in 1..r.size : e[i] \in S
    OBVIOUS
  <2>4. e = [i \in 1..r.size |-> e[i]]
    BY <2>1, <2>2
  <2> HIDE DEF S
  <2>5. e \in [1..r.size -> S]
    BY <2>3, <2>4
  <2>6. e \in Seq(S) /\ Len(e) = r.size
    BY <1>1, <2>5
  <2> QED
    BY <2>2, <2>6
<1> HIDE DEF e, S
<1>3. /\ Len(s) \in 0..Len(s) /\ Len(s) \in 0..Len(e)
  BY <1>1, <1>2
<1>4. /\ SubSeq(s, 1, Len(s)) \in Seq(0..Rnd) /\ Len(SubSeq(s, 1, Len(s))) = Len(s)
      /\ \A i \in 1..Len(s) : SubSeq(s, 1, Len(s))[i] = s[i]
  BY <1>1, <1>3, SplitAt
<1>5. /\ SubSeq(e, 1, Len(s)) \in Seq(S) /\ Len(SubSeq(e, 1, Len(s))) = Len(s)
      /\ \A i \in 1..Len(s) : SubSeq(e, 1, Len(s))[i] = e[i]
  BY <1>2, <1>3, SplitAt
<1>6. \A i \in 1..Len(s) : s[i] = e[i]
  <2> SUFFICES ASSUME NEW i \in 1..Len(s) PROVE s[i] = e[i]
    OBVIOUS
  <2>1. 0 + i = i /\ i \in 1..r.size
    BY <1>1
  <2> QED
    BY <1>2, <2>1 DEF Asked
<1>7. SubSeq(s, 1, Len(s)) = SubSeq(e, 1, Len(s))
  <2>1. \A i \in 1..Len(s) : SubSeq(s, 1, Len(s))[i] = SubSeq(e, 1, Len(s))[i]
    BY <1>4, <1>5, <1>6
  <2> QED
    BY <1>4, <1>5, <2>1, SeqEqual
<1> QED
  BY <1>2, <1>7 DEF IsPrefix, e

(* What is written out first and what is left. *)
LEMMA AskedSplit ==
  ASSUME NEW S, NEW s \in Seq(S), NEW n \in 0..Len(s), NEW r, NEW p \in Nat, Asked(s, r, p)
  PROVE  /\ Asked(SubSeq(s, 1, n), r, p)
         /\ Asked(SubSeq(s, n + 1, Len(s)), r, p + n)
<1>1. Len(s) \in Nat /\ n \in Nat
  OBVIOUS
<1>2. Asked(SubSeq(s, 1, n), r, p)
  BY <1>1, SplitAt DEF Asked
<1>3. Asked(SubSeq(s, n + 1, Len(s)), r, p + n)
  <2>1. /\ Len(SubSeq(s, n + 1, Len(s))) = Len(s) - n
        /\ \A i \in 1..(Len(s) - n) : SubSeq(s, n + 1, Len(s))[i] = s[n + i]
    BY SplitAt
  <2> SUFFICES ASSUME NEW i \in 1..(Len(s) - n)
               PROVE  SubSeq(s, n + 1, Len(s))[i] = ByteOf(r, (p + n) + i)
    BY <2>1 DEF Asked
  <2>2. n + i \in 1..Len(s) /\ p + (n + i) = (p + n) + i
    BY <1>1
  <2>3. s[n + i] = ByteOf(r, p + (n + i))
    BY <2>2, Zenon DEF Asked
  <2> QED
    BY <2>1, <2>2, <2>3
<1> QED
  BY <1>2, <1>3

(* The counter and its byte, one byte later.                               *)
LEMMA DivUnique ==
  \A n \in Nat, s \in Nat \ {0}, q \in Nat, r \in Nat :
      n = (s * q) + r /\ r < s => n \div s = q /\ n % s = r
BY SMT

LEMMA DivNext ==
  ASSUME NEW n \in Nat, NEW s \in Nat \ {0}
  PROVE  /\ n \div s \in Nat /\ n % s \in Nat /\ n % s < s
         /\ (n % s) + 1 < s => (n + 1) % s = (n % s) + 1 /\ (n + 1) \div s = n \div s
         /\ (n % s) + 1 >= s => (n + 1) % s = 0 /\ (n + 1) \div s = (n \div s) + 1
<1>1. n \div s \in Nat /\ n % s \in Nat /\ n % s < s
  BY SMT
<1>2. (n % s) + 1 < s => (n + 1) % s = (n % s) + 1 /\ (n + 1) \div s = n \div s
  BY SMT
<1>3. ASSUME (n % s) + 1 >= s PROVE (n + 1) % s = 0 /\ (n + 1) \div s = (n \div s) + 1
  <2>1. n = (s * (n \div s)) + (n % s)
    BY SMT
  <2>2. \A q \in Nat : s * (q + 1) = (s * q) + s
    BY SMT
  <2>3. n + 1 = s * ((n \div s) + 1) + 0
    BY <1>1, <1>3, <2>1, <2>2
  <2>4. n + 1 \in Nat /\ (n \div s) + 1 \in Nat /\ 0 \in Nat /\ 0 < s
    BY <1>1
  <2> QED
    BY <2>3, <2>4, DivUnique, Zenon
<1> QED
  BY <1>1, <1>2, <1>3

LEMMA WrapNext ==
  ASSUME NEW x \in Nat, NEW m \in Nat
  PROVE  (IF (x % (m + 1)) + 1 > m THEN 0 ELSE (x % (m + 1)) + 1) = (x + 1) % (m + 1)
<1>1. m + 1 \in Nat \ {0}
  OBVIOUS
<1>2. x % (m + 1) \in Nat /\ x % (m + 1) < m + 1
  BY <1>1, DivNext
<1>3. CASE (x % (m + 1)) + 1 < m + 1
  <2>1. (x + 1) % (m + 1) = (x % (m + 1)) + 1
    BY <1>1, <1>3, DivNext
  <2> QED
    BY <1>2, <1>3, <2>1
<1>4. CASE (x % (m + 1)) + 1 >= m + 1
  <2>1. (x + 1) % (m + 1) = 0
    BY <1>1, <1>4, DivNext
  <2> QED
    BY <1>2, <1>4, <2>1
<1> QED
  BY <1>2, <1>3, <1>4

(* Nothing divided, and a number below the divisor.                        *)
LEMMA DivSmall ==
  \A s \in Nat \ {0}, r \in Nat : r < s => r % s = r /\ r \div s = 0
BY SMT

(* The generator is at the byte its loop has counted, and so it is one     *)
(* byte later.                                                             *)
LEMMA CounterInStep ==
  ASSUME TypeOK, InStep, NEW j \in Jobs, Generate(j), req[j].gen = "Counter"
  PROVE  /\ NextByte(j) = CounterByte(req[j], count[j])
         /\ run'[j] = (count[j] + 1) % (IF req[j].step = 0 THEN 1 ELSE req[j].step)
         /\ (IF value'[j] > MaxByte THEN 0 ELSE value'[j]) = CounterByte(req[j], count[j] + 1)
<1> DEFINE r     == req[j]
           step  == IF r.step = 0 THEN 1 ELSE r.step
           first == IF r.start > MaxByte THEN 0 ELSE r.start
           v     == IF value[j] > MaxByte THEN 0 ELSE value[j]
           n     == count[j]
           m     == MaxByte
           full  == run[j] + 1 >= r.step
           w     == IF full THEN v + 1 ELSE v
<1>1. /\ r.step \in Nat /\ r.start \in Nat \union {-1} /\ n \in Nat /\ m \in Nat
      /\ run \in [Jobs -> Nat] /\ value \in [Jobs -> Nat \union {-1}]
  BY BoundsAssumption DEF TypeOK, Form, BoundsAssumption
<1>2. job[j] = "generating" /\ ~Rejected(r) /\ r.start >= 0
  BY <1>1 DEF Generate, Rejected
<1>3. run[j] = n % step /\ v = CounterByte(r, n)
  BY <1>2 DEF InStep
<1>4. step \in Nat \ {0} /\ first \in Nat
  BY <1>1, <1>2
<1>5. /\ run' = [run EXCEPT ![j] = IF full THEN 0 ELSE run[j] + 1]
      /\ value' = [value EXCEPT ![j] = w]
  BY DEF Generate, StepCounter
<1>6. run'[j] = (IF full THEN 0 ELSE run[j] + 1) /\ value'[j] = w
  BY <1>1, <1>5
<1>7. NextByte(j) = v
  BY DEF NextByte
<1>8. \A k \in Nat : CounterByte(r, k) = (first + (k \div step)) % (m + 1)
  BY DEF CounterByte
<1>9. run[j] \in Nat /\ (full <=> run[j] + 1 >= step)
  BY <1>1
<1>10. n \div step \in Nat
  BY <1>1, <1>4, DivNext
<1> HIDE DEF v, step, first, m, n, full, w
<1>11. CASE full
  <2>1. (n + 1) % step = 0 /\ (n + 1) \div step = (n \div step) + 1
    BY <1>1, <1>3, <1>4, <1>9, <1>11, DivNext
  <2>2. first + (n \div step) \in Nat
    BY <1>4, <1>10
  <2>3. v = (first + (n \div step)) % (m + 1)
    BY <1>1, <1>3, <1>8
  <2>4. (IF v + 1 > m THEN 0 ELSE v + 1) = ((first + (n \div step)) + 1) % (m + 1)
    BY <1>1, <2>2, <2>3, WrapNext
  <2>5. (first + (n \div step)) + 1 = first + ((n + 1) \div step)
    BY <1>4, <1>10, <2>1
  <2>6. n + 1 \in Nat
    BY <1>1
  <2>7. CounterByte(r, n + 1) = ((first + (n \div step)) + 1) % (m + 1)
    BY <1>8, <2>5, <2>6
  <2> QED
    BY <1>3, <1>6, <1>7, <1>11, <2>1, <2>4, <2>7 DEF w, m, n, step
<1>12. CASE ~full
  <2>1. (n + 1) % step = run[j] + 1 /\ (n + 1) \div step = n \div step
    BY <1>1, <1>3, <1>4, <1>9, <1>12, DivNext
  <2>2. CounterByte(r, n + 1) = CounterByte(r, n)
    BY <1>1, <1>8, <2>1
  <2>3. (IF v > m THEN 0 ELSE v) = v
    BY <1>1 DEF v, m
  <2> QED
    BY <1>3, <1>6, <1>7, <1>12, <2>1, <2>2, <2>3 DEF w, m, n, step
<1> QED
  BY <1>11, <1>12

(* The next byte is the one asked for. *)
LEMMA NextByteInOrder ==
  ASSUME TypeOK, InStep, NEW j \in Jobs, job[j] = "generating", ~Rejected(req[j])
  PROVE  NextByte(j) = ByteOf(req[j], count[j] + 1)
<1>1. req[j] \in Form /\ count[j] \in Nat
  BY DEF TypeOK
<1>2. CASE req[j].gen = "Random"
  BY <1>2 DEF NextByte, ByteOf
<1>3. CASE req[j].gen = "Counter"
  <2>1. req[j].start >= 0
    BY <1>1, <1>3 DEF Rejected, Form
  <2>2. NextByte(j) = CounterByte(req[j], count[j])
    BY <1>3, <2>1 DEF InStep, NextByte
  <2>3. (count[j] + 1) - 1 = count[j]
    BY <1>1
  <2> QED
    BY <1>3, <2>2, <2>3 DEF ByteOf
<1> QED
  BY <1>1, <1>2, <1>3 DEF Form

(* One round of the loop puts the byte asked for behind the others.        *)
LEMMA GenerateInOrder ==
  ASSUME TypeOK, Counting, BytesAddUp, InStep, InOrder, NEW j \in Jobs, Generate(j)
  PROVE  /\ Asked(buff'[j], req[j], pos[j] + Len(pend'[j]))
         /\ Asked(pend'[j], req[j], pos[j])
<1> DEFINE block == Append(buff[j], NextByte(j))
           all   == pend[j] \o block
           q     == pos[j] + Len(pend[j])
<1>1. /\ pend \in [Jobs -> Content] /\ buff \in [Jobs -> Content] /\ pos[j] \in Nat /\ count[j] \in Nat
      /\ req[j] \in Form /\ job[j] \in HasOpen
  BY DEF TypeOK, Generate, HasOpen, Raising
<1>2. /\ buff[j] \in Seq(0..Rnd) /\ pend[j] \in Seq(0..Rnd)
      /\ Len(buff[j]) \in Nat /\ Len(pend[j]) \in Nat
  BY <1>1 DEF Content
<1>3. NextByte(j) = ByteOf(req[j], count[j] + 1)
  BY NextByteInOrder DEF Generate
<1>4. NextByte(j) \in 0..Rnd
  BY NextByteIsByte DEF Generate
<1>5. q + Len(buff[j]) = count[j] /\ q \in Nat
  BY <1>1, <1>2 DEF BytesAddUp
<1>6. Asked(buff[j], req[j], q) /\ Asked(pend[j], req[j], pos[j])
  BY <1>1 DEF InOrder
<1>7. WriteBlock(j, block, Len(block) > BlockSize)
  BY DEF Generate
<1> HIDE DEF q
<1>8. Asked(block, req[j], q)
  <2>1. q + Len(buff[j]) + 1 = count[j] + 1
    BY <1>5
  <2>2. NextByte(j) = ByteOf(req[j], q + Len(buff[j]) + 1)
    BY <1>3, <2>1
  <2> QED
    BY <1>2, <1>4, <1>5, <1>6, <2>2, AskedAppend
<1>9. block \in Seq(0..Rnd)
  BY <1>2, <1>4
<1> HIDE DEF block
<1>10. Asked(all, req[j], pos[j])
  BY <1>1, <1>2, <1>6, <1>8, <1>9, AskedJoined DEF q
<1> HIDE DEF all
<1>11. CASE Len(block) > BlockSize
  <2>1. pend' = [pend EXCEPT ![j] = all] /\ buff' = [buff EXCEPT ![j] = <<>>]
    BY <1>7, <1>11 DEF WriteBlock, all
  <2>2. pend'[j] = all /\ buff'[j] = <<>> /\ Len(<<>>) = 0
    BY <1>1, <2>1
  <2> QED
    BY <1>10, <2>2, AskedNothing
<1>12. CASE ~(Len(block) > BlockSize)
  <2>1. pend' = pend /\ buff' = [buff EXCEPT ![j] = block]
    BY <1>7, <1>12 DEF WriteBlock
  <2>2. pend'[j] = pend[j] /\ buff'[j] = block
    BY <1>1, <2>1
  <2> QED
    BY <1>6, <1>8, <2>2 DEF q
<1> QED
  BY <1>11, <1>12

(* What is written out stays in order.                                     *)
LEMMA WriteOutInOrder ==
  ASSUME TypeOK, NEW j \in Jobs, NEW n \in 0..Len(pend[j]), WriteOut(j, n),
         Asked(pend[j], req[j], pos[j])
  PROVE  /\ Asked(pend'[j], req[j], pos'[j])
         /\ Asked(file[req[j].file], req[j], 0) /\ Len(file[req[j].file]) = pos[j] =>
              Asked(file'[req[j].file], req[j], 0)
<1> DEFINE f    == req[j].file
           out  == SubSeq(pend[j], 1, n)
           rest == SubSeq(pend[j], n + 1, Len(pend[j]))
           new  == WriteAt(file[f], pos[j], out)
<1>1. /\ f \in Files /\ file \in [Files -> Content] /\ file[f] \in Content
      /\ pend \in [Jobs -> Content] /\ pend[j] \in Seq(0..Rnd) /\ Content = Seq(0..Rnd)
      /\ pos \in [Jobs -> Nat] /\ pos[j] \in Nat
  BY DEF TypeOK, Form, Content
<1>2. /\ file' = [file EXCEPT ![f] = IF n = 0 THEN file[f] ELSE new]
      /\ pend' = [pend EXCEPT ![j] = rest] /\ pos' = [pos EXCEPT ![j] = @ + n]
  BY DEF WriteOut
<1>3. Asked(out, req[j], pos[j]) /\ Asked(rest, req[j], pos[j] + n) /\ out \in Content
  BY <1>1, AskedSplit, SplitAt
<1>4. Asked(file[f], req[j], 0) /\ Len(file[f]) = pos[j] => Asked(new, req[j], 0)
  BY <1>1, <1>3, AskedWritten
<1> HIDE DEF new, rest, out
<1>5. /\ file'[f] = (IF n = 0 THEN file[f] ELSE new)
      /\ pend'[j] = rest /\ pos'[j] = pos[j] + n
  BY <1>1, <1>2
<1> QED
  BY <1>3, <1>4, <1>5

LEMMA FileInit == Init => FileInv
<1> SUFFICES ASSUME Init PROVE FileInv
  OBVIOUS
<1>1. \A j \in Jobs : job[j] = "idle" /\ run[j] = 0
  BY DEF Init
<1> QED
  BY <1>1, GenInit DEF FileInv, InOrder, InStep, LoopOver, HasOpen, Raising

LEMMA FileStep == FileInv /\ [Next]_vars => FileInv'
<1> SUFFICES ASSUME FileInv, [Next]_vars PROVE FileInv'
  OBVIOUS
<1> DEFINE Rest == InOrder /\ InStep /\ LoopOver
<1>0. TypeOK /\ BytesAddUp /\ Fresh /\ Sharing /\ Rest
  BY DEF FileInv, GenInv
<1>t. GenInv' /\ TypeOK' /\ BytesAddUp'
  BY GenStep DEF FileInv, GenInv
<1> SUFFICES Rest'
  BY <1>t DEF FileInv
<1>l. \A k \in Jobs : Len(pend[k]) \in Nat /\ Len(buff[k]) \in Nat /\ pos[k] \in Nat /\ count[k] \in Nat
  <2>1. \A k \in Jobs : pend[k] \in Seq(0..Rnd) /\ buff[k] \in Seq(0..Rnd)
    BY <1>0 DEF TypeOK, Content
  <2> QED
    BY <1>0, <2>1 DEF TypeOK
(* Steps that write nothing. *)
<1>1. ASSUME UNCHANGED <<genVars, fileVars>>,
             \A k \in Jobs : /\ job'[k] \in BeforeOpen => job[k] \in BeforeOpen
                             /\ job'[k] \in HasOpen => job[k] \in HasOpen /\ req'[k] = req[k]
                             /\ job'[k] = "generating" => job[k] = "generating"
                             /\ job'[k] = "closing" => job[k] = "closing"
                             /\ job'[k] = "enabling" => job[k] = "enabling"
      PROVE  Rest'
  <2>1. InOrder'
    BY <1>0, <1>1 DEF InOrder, genVars, fileVars
  <2>2. InStep'
    BY <1>0, <1>1 DEF InStep, HasOpen, Raising, genVars, fileVars
  <2>3. LoopOver'
    <3> SUFFICES ASSUME NEW k \in Jobs
                 PROVE  /\ job'[k] \in BeforeOpen => run'[k] = 0
                        /\ job'[k] \in HasOpen /\ Rejected(req'[k]) => count'[k] = 0
                        /\ job'[k] \in {"closing", "enabling"} =>
                              ~Rejected(req'[k]) /\ Len(buff'[k]) = 0 /\ count'[k] = req'[k].size
                        /\ job'[k] = "enabling" => Len(pend'[k]) = 0
      BY DEF LoopOver, Rejected
    <3>1. UNCHANGED <<run, count, buff, pend>>
      BY <1>1 DEF genVars, fileVars
    <3> QED
      BY <1>0, <1>1, <3>1 DEF LoopOver, HasOpen
  <2> QED
    BY <2>1, <2>2, <2>3
<1>2. CASE Edit
  BY <1>1, <1>2 DEF Edit, HasOpen, Raising
<1>3. CASE Quit
  <2>1. \A k \in Jobs : job'[k] = job[k] \/ job'[k] = "killed"
    BY <1>0, <1>3 DEF Quit, TypeOK
  <2> QED
    BY <1>1, <1>3, <2>1 DEF Quit, BeforeOpen, HasOpen, Raising
<1>4. ASSUME NEW j \in Jobs, Click(j) \/ Disable(j) \/ Reading(j)
      PROVE  Rest'
  <2>1. /\ \A k \in Jobs : k # j => job'[k] = job[k] /\ req'[k] = req[k]
        /\ job[j] \in BeforeOpen /\ job'[j] \in (BeforeOpen \ {"idle"}) \union {"refused"}
        /\ UNCHANGED <<genVars, fileVars>>
    BY <1>0, <1>4 DEF TypeOK, Click, Disable, Reading, ReadName, ReadGenerator, ReadStep, ReadStart, ReadSize,
             Goto, BeforeOpen
  <2> QED
    BY <1>1, <2>1 DEF BeforeOpen, HasOpen, Raising
<1>5. ASSUME NEW j \in Jobs, Raise(j) \/ Enable(j)
      PROVE  Rest'
  <2>1. /\ \A k \in Jobs : k # j => job'[k] = job[k]
        /\ \/ job[j] = "generating" /\ job'[j] = "raising"
           \/ job[j] \in {"enabling", "raised"} /\ job'[j] = "done"
        /\ UNCHANGED <<genVars, fileVars, req>>
    BY <1>0, <1>5 DEF TypeOK, Raise, Enable, Goto
  <2> QED
    BY <1>1, <2>1 DEF BeforeOpen, HasOpen, Raising
(* A thread opens its file: empty, and nobody else may count on it.        *)
<1>6. ASSUME NEW j \in Jobs, Open(j) PROVE Rest'
  <2> DEFINE f == req[j].file
             others == {k \in Jobs \ {j} : job[k] \in HasOpen /\ req[k].file = f}
  <2>1. CASE f \notin Writable
    <3>1. /\ \A k \in Jobs : k # j => job'[k] = job[k]
          /\ job[j] = "opening" /\ job'[j] = "refused"
          /\ UNCHANGED <<genVars, fileVars, req>>
      BY <1>0, <1>6, <2>1 DEF TypeOK, Open, Goto, genVars, fileVars
    <3> QED
      BY <1>1, <3>1 DEF BeforeOpen, HasOpen, Raising
  <2>2. CASE f \in Writable
    <3>1. /\ \A k \in Jobs : k # j => job'[k] = job[k] /\ value'[k] = value[k]
          /\ job[j] = "opening" /\ job'[j] = "generating"
          /\ value'[j] = req[j].start
          /\ shared' = [k \in Jobs |-> CASE k = j         -> others # {}
                                          [] k \in others -> TRUE
                                          [] OTHER        -> shared[k]]
          /\ UNCHANGED <<req, count, run, buff, pend, pos>>
      BY <1>0, <1>6, <2>2 DEF TypeOK, Open, Goto
    <3>2. file' = [file EXCEPT ![f] = <<>>]
      BY <1>6, <2>2 DEF Open
    <3>3. Len(file'[f]) = 0 /\ \A g \in Files : g # f => file'[g] = file[g]
      <4>1. file \in [Files -> Content] /\ f \in Files
        BY <1>0 DEF TypeOK, Form
      <4> QED
        BY <3>2, <4>1
    <3>4. /\ \A k \in others : shared'[k]
          /\ \A k \in Jobs \ {j} : k \notin others => shared'[k] = shared[k]
      BY <3>1
    <3>5. count[j] = 0 /\ Len(buff[j]) = 0 /\ Len(pend[j]) = 0 /\ run[j] = 0
      BY <1>0, <3>1 DEF Fresh, LoopOver, BeforeOpen
    <3>6. InOrder'
      <4> SUFFICES ASSUME NEW k \in Jobs, job'[k] \in HasOpen
                   PROVE  /\ Asked(buff'[k], req'[k], pos'[k] + Len(pend'[k]))
                          /\ Asked(pend'[k], req'[k], pos'[k])
                          /\ ~shared'[k] => Asked(file'[req'[k].file], req'[k], 0)
        BY DEF InOrder, Asked, ByteOf, CounterByte
      <4>1. CASE k = j
        BY <3>1, <3>3, <3>5, <4>1, AskedNothing
      <4>2. CASE k # j
        <5>1. job[k] \in HasOpen /\ req[k].file \in Files
          BY <1>0, <3>1, <4>2 DEF TypeOK, Form
        <5>2. ~shared'[k] => ~shared[k] /\ req[k].file # f
          BY <3>4, <4>2, <5>1
        <5> QED
          BY <1>0, <3>1, <3>3, <5>1, <5>2 DEF InOrder
      <4> QED
        BY <4>1, <4>2
    <3>7. InStep'
      <4> SUFFICES ASSUME NEW k \in Jobs, job'[k] = "generating", req[k].gen = "Counter", req[k].start >= 0
                   PROVE  /\ run[k] = count[k] % (IF req[k].step = 0 THEN 1 ELSE req[k].step)
                          /\ (IF value'[k] > MaxByte THEN 0 ELSE value'[k]) = CounterByte(req[k], count[k])
        BY <3>1 DEF InStep, CounterByte
      <4>1. CASE k # j
        BY <1>0, <3>1, <4>1 DEF InStep
      <4>2. CASE k = j
        <5> DEFINE step  == IF req[j].step = 0 THEN 1 ELSE req[j].step
                   first == IF req[j].start > MaxByte THEN 0 ELSE req[j].start
        <5>1. /\ step \in Nat \ {0} /\ first \in Nat /\ first < MaxByte + 1 /\ MaxByte + 1 \in Nat \ {0}
          <6>1. req[j].start \in Nat \union {-1} /\ req[j].step \in Nat /\ MaxByte \in Nat
            BY <1>0, BoundsAssumption DEF TypeOK, Form, BoundsAssumption
          <6> QED
            BY <4>2, <6>1
        <5>2. CounterByte(req[j], 0) = (first + (0 \div step)) % (MaxByte + 1)
          BY DEF CounterByte
        <5>3. run[j] = count[j] % (IF req[j].step = 0 THEN 1 ELSE req[j].step) <=> run[j] = count[j] % step
          OBVIOUS
        <5>4. (IF value'[j] > MaxByte THEN 0 ELSE value'[j]) = first
          BY <3>1
        <5> HIDE DEF step, first
        <5>5. 0 % step = 0 /\ 0 \div step = 0 /\ first % (MaxByte + 1) = first
          BY <5>1, DivSmall
        <5>6. first + 0 = first
          BY <5>1
        <5> QED
          BY <3>5, <4>2, <5>2, <5>3, <5>4, <5>5, <5>6
      <4> QED
        BY <4>1, <4>2
    <3>8. LoopOver'
      <4> SUFFICES ASSUME NEW k \in Jobs
                   PROVE  /\ job'[k] \in BeforeOpen => run[k] = 0
                          /\ job'[k] \in HasOpen /\ Rejected(req[k]) => count[k] = 0
                          /\ job'[k] \in {"closing", "enabling"} =>
                                ~Rejected(req[k]) /\ Len(buff[k]) = 0 /\ count[k] = req[k].size
                          /\ job'[k] = "enabling" => Len(pend[k]) = 0
        BY <3>1 DEF LoopOver, Rejected
      <4> QED
        BY <1>0, <3>1, <3>5 DEF LoopOver
    <3> QED
      BY <3>6, <3>7, <3>8
  <2> QED
    BY <2>1, <2>2
(* A thread that has its file open works on: nobody else is concerned.     *)
<1>6a. ASSUME NEW j \in Jobs, job[j] \in {"generating", "closing", "raising"},
              UNCHANGED <<req, shared>>, job'[j] \notin BeforeOpen,
              \A k \in Jobs : k # j => /\ job'[k] = job[k] /\ pos'[k] = pos[k] /\ pend'[k] = pend[k]
                                      /\ buff'[k] = buff[k] /\ count'[k] = count[k] /\ value'[k] = value[k]
                                      /\ run'[k] = run[k],
              \A g \in Files : g # req[j].file => file'[g] = file[g],
              Asked(buff'[j], req[j], pos'[j] + Len(pend'[j])),
              Asked(pend'[j], req[j], pos'[j]),
              ~shared[j] => Asked(file'[req[j].file], req[j], 0),
              job'[j] = "generating" /\ req[j].gen = "Counter" /\ req[j].start >= 0 =>
                  /\ run'[j] = count'[j] % (IF req[j].step = 0 THEN 1 ELSE req[j].step)
                  /\ (IF value'[j] > MaxByte THEN 0 ELSE value'[j]) = CounterByte(req[j], count'[j]),
              Rejected(req[j]) => count'[j] = 0,
              job'[j] \in {"closing", "enabling"} =>
                  ~Rejected(req[j]) /\ Len(buff'[j]) = 0 /\ count'[j] = req[j].size,
              job'[j] = "enabling" => Len(pend'[j]) = 0
       PROVE  Rest'
  <2>1. InOrder'
    <3> SUFFICES ASSUME NEW k \in Jobs, job'[k] \in HasOpen
                 PROVE  /\ Asked(buff'[k], req[k], pos'[k] + Len(pend'[k]))
                        /\ Asked(pend'[k], req[k], pos'[k])
                        /\ ~shared[k] => Asked(file'[req[k].file], req[k], 0)
      BY <1>6a DEF InOrder, Asked, ByteOf, CounterByte
    <3>1. CASE k = j
      BY <1>6a, <3>1
    <3>2. CASE k # j
      <4>1. job[k] \in HasOpen /\ req[k].file \in Files
        BY <1>0, <1>6a, <3>2 DEF TypeOK, Form
      <4>2. ~shared[k] => req[k].file # req[j].file
        BY <1>0, <1>6a, <3>2, <4>1 DEF Sharing, HasOpen, Raising
      <4>3. /\ Asked(buff[k], req[k], pos[k] + Len(pend[k])) /\ Asked(pend[k], req[k], pos[k])
            /\ ~shared[k] => Asked(file[req[k].file], req[k], 0)
        BY <1>0, <4>1 DEF InOrder
      <4>4. /\ buff'[k] = buff[k] /\ pend'[k] = pend[k] /\ pos'[k] = pos[k]
            /\ ~shared[k] => file'[req[k].file] = file[req[k].file]
        BY <1>6a, <3>2, <4>1, <4>2
      <4> QED
        BY <4>3, <4>4
    <3> QED
      BY <3>1, <3>2
  <2>2. InStep'
    <3> SUFFICES ASSUME NEW k \in Jobs, job'[k] = "generating", req[k].gen = "Counter", req[k].start >= 0
                 PROVE  /\ run'[k] = count'[k] % (IF req[k].step = 0 THEN 1 ELSE req[k].step)
                        /\ (IF value'[k] > MaxByte THEN 0 ELSE value'[k]) = CounterByte(req[k], count'[k])
      BY <1>6a DEF InStep, CounterByte
    <3>1. CASE k = j
      BY <1>6a, <3>1
    <3>2. CASE k # j
      BY <1>0, <1>6a, <3>2 DEF InStep
    <3> QED
      BY <3>1, <3>2
  <2>3. LoopOver'
    <3> SUFFICES ASSUME NEW k \in Jobs
                 PROVE  /\ job'[k] \in BeforeOpen => run'[k] = 0
                        /\ job'[k] \in HasOpen /\ Rejected(req[k]) => count'[k] = 0
                        /\ job'[k] \in {"closing", "enabling"} =>
                              ~Rejected(req[k]) /\ Len(buff'[k]) = 0 /\ count'[k] = req[k].size
                        /\ job'[k] = "enabling" => Len(pend'[k]) = 0
      BY <1>6a DEF LoopOver, Rejected
    <3>1. CASE k = j
      BY <1>6a, <3>1
    <3>2. CASE k # j
      BY <1>0, <1>6a, <3>2 DEF LoopOver
    <3> QED
      BY <3>1, <3>2
  <2> QED
    BY <2>1, <2>2, <2>3
<1>7. ASSUME NEW j \in Jobs, Generate(j) PROVE Rest'
  <2>1. job[j] = "generating" /\ ~Rejected(req[j]) /\ UNCHANGED <<job, req, pos, file, shared>>
    BY <1>7 DEF Generate
  <2>2. Counting
    BY DEF FileInv, GenInv
  <2>3. /\ \A k \in Jobs : k # j => /\ pend'[k] = pend[k] /\ buff'[k] = buff[k]
                                    /\ count'[k] = count[k] /\ value'[k] = value[k]
        /\ count'[j] = count[j] + 1
    BY <1>0, <1>7, <2>2, GenerateLemma
  <2>4. \A k \in Jobs : k # j => run'[k] = run[k]
    <3>1. run' = run \/ run' = [run EXCEPT ![j] = IF run[j] + 1 >= req[j].step THEN 0 ELSE @ + 1]
      BY <1>7 DEF Generate, StepCounter
    <3> QED
      BY <1>0, <3>1 DEF TypeOK
  <2>5. /\ Asked(buff'[j], req[j], pos[j] + Len(pend'[j]))
        /\ Asked(pend'[j], req[j], pos[j])
    BY <1>0, <1>7, <2>2, GenerateInOrder
  <2>6. ~shared[j] => Asked(file'[req[j].file], req[j], 0)
    BY <1>0, <2>1 DEF InOrder, HasOpen, Raising
  <2>7. req[j].gen = "Counter" =>
           /\ run'[j] = count'[j] % (IF req[j].step = 0 THEN 1 ELSE req[j].step)
           /\ (IF value'[j] > MaxByte THEN 0 ELSE value'[j]) = CounterByte(req[j], count'[j])
    BY <1>0, <1>7, <2>3, CounterInStep
  <2> QED
    BY <1>6a, <2>1, <2>3, <2>4, <2>5, <2>6, <2>7 DEF BeforeOpen
<1>8. ASSUME NEW j \in Jobs, LastBlock(j) PROVE Rest'
  <2>1. /\ job[j] = "generating" /\ job'[j] = "closing" /\ ~Rejected(req[j])
        /\ \A k \in Jobs : k # j => job'[k] = job[k]
        /\ count[j] = req[j].size
        /\ pend' = [pend EXCEPT ![j] = @ \o buff[j]] /\ buff' = [buff EXCEPT ![j] = <<>>]
        /\ UNCHANGED <<req, count, value, run, pos, file, shared>>
    BY <1>0, <1>8 DEF LastBlock, Goto, TypeOK
  <2>2. pend \in [Jobs -> Seq(0..Rnd)] /\ buff \in [Jobs -> Seq(0..Rnd)]
    BY <1>0 DEF TypeOK, Content
  <2>3. /\ pend'[j] = pend[j] \o buff[j] /\ Len(buff'[j]) = 0
        /\ \A k \in Jobs : k # j => pend'[k] = pend[k] /\ buff'[k] = buff[k]
    BY <2>1, <2>2
  <2>4. /\ Asked(buff[j], req[j], pos[j] + Len(pend[j])) /\ Asked(pend[j], req[j], pos[j])
        /\ ~shared[j] => Asked(file[req[j].file], req[j], 0)
    BY <1>0, <2>1 DEF InOrder, HasOpen, Raising
  <2>5. Asked(pend'[j], req[j], pos[j])
    BY <1>l, <2>2, <2>3, <2>4, AskedJoined
  <2>6. Asked(buff'[j], req[j], pos[j] + Len(pend'[j]))
    BY <2>3, AskedNothing
  <2> QED
    BY <1>6a, <2>1, <2>3, <2>4, <2>5, <2>6 DEF BeforeOpen
<1>9. ASSUME NEW j \in Jobs, Flush(j) \/ Close(j) \/ CloseRaises(j) \/ WriteFails(j)
      PROVE  Rest'
  <2>0. Len(pend[j]) \in Nat /\ Len(buff[j]) \in Nat /\ pos[j] \in Nat /\ count[j] \in Nat
    BY <1>l
  <2>1. /\ job[j] \in {"generating", "closing", "raising"}
        /\ job'[j] \in {"generating", "enabling", "raising", "raised", "broken"}
        /\ job'[j] = "generating" => job[j] = "generating"
        /\ job'[j] = "enabling" => job[j] = "closing" /\ WriteOut(j, Len(pend[j]))
        /\ \A k \in Jobs : k # j => job'[k] = job[k]
        /\ UNCHANGED <<req, value, run, shared>>
    BY <1>0, <1>9 DEF Flush, Close, CloseRaises, WriteFails, Goto, TypeOK, genVars
  <2>2. PICK n \in 0..Len(pend[j]) : WriteOut(j, n) /\ (job'[j] = "enabling" => n = Len(pend[j]))
    <3>1. Len(pend[j]) \in 0..Len(pend[j]) /\ 0..(Len(pend[j]) - 1) \subseteq 0..Len(pend[j])
      BY <2>0
    <3>2. CASE job'[j] = "enabling"
      BY <2>1, <3>1, <3>2
    <3>3. CASE job'[j] # "enabling"
      BY <1>9, <3>1, <3>3 DEF Flush, Close, CloseRaises, WriteFails
    <3> QED
      BY <3>2, <3>3
  <2>3. /\ \A k \in Jobs : k # j => pos'[k] = pos[k] /\ pend'[k] = pend[k]
        /\ pos'[j] + Len(pend'[j]) = pos[j] + Len(pend[j]) /\ Len(pend'[j]) = Len(pend[j]) - n
        /\ \A f \in Files : f # req[j].file => file'[f] = file[f]
    BY <1>0, <2>2, WriteOutType
  <2>4. /\ Asked(buff[j], req[j], pos[j] + Len(pend[j])) /\ Asked(pend[j], req[j], pos[j])
        /\ ~shared[j] => Asked(file[req[j].file], req[j], 0) /\ Len(file[req[j].file]) = pos[j]
        /\ pos[j] + Len(pend[j]) + Len(buff[j]) = count[j]
    BY <1>0, <2>1 DEF InOrder, BytesAddUp, HasOpen, Raising
  <2>5. /\ Asked(pend'[j], req[j], pos'[j])
        /\ ~shared[j] => Asked(file'[req[j].file], req[j], 0)
    BY <1>0, <2>2, <2>4, WriteOutInOrder
  <2>6. job'[j] = "enabling" => Len(pend'[j]) = 0
    BY <2>0, <2>2, <2>3
  <2>7. /\ job[j] = "generating" /\ req[j].gen = "Counter" /\ req[j].start >= 0 =>
               /\ run[j] = count[j] % (IF req[j].step = 0 THEN 1 ELSE req[j].step)
               /\ (IF value[j] > MaxByte THEN 0 ELSE value[j]) = CounterByte(req[j], count[j])
        /\ Rejected(req[j]) => count[j] = 0
        /\ job[j] = "closing" => ~Rejected(req[j]) /\ Len(buff[j]) = 0 /\ count[j] = req[j].size
    BY <1>0, <2>1 DEF InStep, LoopOver, HasOpen, Raising
  <2>8. CASE UNCHANGED <<count, buff>>
    <3>1. Asked(buff'[j], req[j], pos'[j] + Len(pend'[j]))
      BY <2>3, <2>4, <2>8
    <3> QED
      BY <1>6a, <2>1, <2>3, <2>5, <2>6, <2>7, <2>8, <3>1 DEF BeforeOpen
  <2>9. CASE /\ job[j] = "generating" /\ job'[j] = "raising" /\ ~Rejected(req[j])
             /\ count' = [count EXCEPT ![j] = @ + 1]
             /\ buff' = [buff EXCEPT ![j] = Append(@, NextByte(j))]
    <3>1. NextByte(j) = ByteOf(req[j], count[j] + 1) /\ NextByte(j) \in 0..Rnd
      BY <1>0, <2>9, NextByteInOrder, NextByteIsByte DEF FileInv, GenInv
    <3>2. buff \in [Jobs -> Seq(0..Rnd)] /\ buff[j] \in Seq(0..Rnd) /\ count \in [Jobs -> Nat]
      BY <1>0 DEF TypeOK, Content
    <3>3. /\ buff'[j] = Append(buff[j], NextByte(j)) /\ count'[j] = count[j] + 1
          /\ \A k \in Jobs : k # j => buff'[k] = buff[k] /\ count'[k] = count[k]
      BY <2>9, <3>2
    <3>4. pos[j] + Len(pend[j]) \in Nat
      BY <2>0
    <3>5. (pos[j] + Len(pend[j])) + Len(buff[j]) + 1 = count[j] + 1
      BY <2>4, Zenon
    <3>6. Asked(buff'[j], req[j], pos[j] + Len(pend[j]))
      BY <2>4, <3>1, <3>2, <3>3, <3>4, <3>5, AskedAppend
    <3>7. Asked(buff'[j], req[j], pos'[j] + Len(pend'[j]))
      BY <2>3, <3>6
    <3> QED
      BY <1>6a, <2>1, <2>3, <2>5, <2>9, <3>3, <3>7 DEF BeforeOpen
  <2> QED
    <3>1. UNCHANGED <<count, buff>> \/ WriteFails(j)
      BY <1>9 DEF Flush, Close, CloseRaises, genVars
    <3>2. CASE WriteFails(j)
      <4>1. job'[j] = "raising"
        BY <1>0, <3>2 DEF WriteFails, Goto, TypeOK
      <4> QED
        BY <3>2, <2>8, <2>9, <4>1 DEF WriteFails
    <3> QED
      BY <2>8, <3>1, <3>2
<1>10. CASE UNCHANGED vars
  BY <1>1, <1>10 DEF vars, HasOpen, Raising
<1> QED
  BY <1>2, <1>3, <1>4, <1>5, <1>6, <1>7, <1>8, <1>9, <1>10 DEF Next, Work, Reading

(* A file that a thread has for itself is at any time a prefix of the      *)
(* bytes asked for, and all of them once it is closed without an           *)
(* exception: whatever the block size, the start value, the number of      *)
(* times a value is repeated, whenever the file object writes out and      *)
(* wherever that fails.                                                    *)
THEOREM FilesAreExpected == Spec => []FileIsExpected
<1>1. FileInv => FileIsExpected
  <2> SUFFICES ASSUME FileInv, NEW j \in Jobs, job[j] \in HasOpen, ~shared[j]
               PROVE  /\ IsPrefix(file[req[j].file], IF Rejected(req[j]) THEN <<>> ELSE Expected(req[j]))
                      /\ job[j] = "enabling" => file[req[j].file] = Expected(req[j])
    BY DEF FileIsExpected
  <2>1. /\ req[j] \in Form /\ file[req[j].file] \in Content /\ pos[j] \in Nat
        /\ pend[j] \in Seq(0..Rnd) /\ buff[j] \in Seq(0..Rnd) /\ count[j] \in Nat
        /\ file[req[j].file] \in Seq(0..Rnd)
    BY DEF FileInv, GenInv, TypeOK, Form, Content
  <2>2. /\ Asked(file[req[j].file], req[j], 0) /\ Len(file[req[j].file]) = pos[j]
        /\ pos[j] + Len(pend[j]) + Len(buff[j]) = count[j] /\ count[j] <= req[j].size
        /\ Rejected(req[j]) => count[j] = 0
        /\ job[j] = "enabling" => /\ Len(pend[j]) = 0 /\ Len(buff[j]) = 0
                                  /\ count[j] = req[j].size
    BY DEF FileInv, GenInv, InOrder, BytesAddUp, LoopOver
  <2>3. Len(pend[j]) \in Nat /\ Len(buff[j]) \in Nat /\ req[j].size \in Nat
    BY <2>1 DEF Form
  <2>4. pos[j] <= count[j] /\ Len(file[req[j].file]) <= req[j].size
    BY <2>1, <2>2, <2>3
  <2>5. CASE Rejected(req[j])
    <3>1. Len(file[req[j].file]) = 0
      BY <2>1, <2>2, <2>4, <2>5
    <3>2. file[req[j].file] = <<>>
      BY <2>1, <3>1, EmptySeq
    <3>3. IsPrefix(<<>>, <<>>)
      BY DEF IsPrefix
    <3>4. job[j] # "enabling"
      BY <2>5 DEF FileInv, LoopOver
    <3> QED
      BY <2>5, <3>2, <3>3, <3>4
  <2>6. CASE ~Rejected(req[j])
    <3>1. IsPrefix(file[req[j].file], Expected(req[j]))
      BY <2>1, <2>2, <2>4, AskedPrefix
    <3>2. job[j] = "enabling" => Len(file[req[j].file]) = req[j].size
      BY <2>1, <2>2
    <3> QED
      BY <2>1, <2>2, <2>6, <3>1, <3>2, AskedAll
  <2> QED
    BY <2>5, <2>6
<1> QED
  BY <1>1, FileInit, FileStep, PTL DEF Spec
=============================================================================
