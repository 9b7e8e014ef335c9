------------------------- MODULE TrainingSyncProofs -------------------------
(* Proofs about TrainingSync, for any number of entries, requests and      *)
(* losses.  The facts about the database come from TrainingDbProofs.       *)
EXTENDS TrainingSync, TrainingDbProofs

-----------------------------------------------------------------------------
(* What a request's change of state leaves alone.                          *)
LEMMA BecomesLemma ==
  ASSUME posts \in [Items -> Seq(Post)],
         NEW i \in Items, NEW k \in 1..Len(posts[i]), NEW s \in PostState, Becomes(i, k, s)
  PROVE  /\ posts' \in [Items -> Seq(Post)]
         /\ \A j \in Items : Len(posts'[j]) = Len(posts[j])
         /\ \A j \in Items : \A n \in 1..Len(posts[j]) :
              /\ posts'[j][n].value = posts[j][n].value
              /\ posts'[j][n].state = IF j = i /\ n = k THEN s ELSE posts[j][n].state
<1> DEFINE one == [posts[i][k] EXCEPT !.state = s]
           seq == [posts[i] EXCEPT ![k] = one]
<1>1. posts[i] \in Seq(Post) /\ posts[i][k] \in Post
  OBVIOUS
<1>2. one \in Post /\ one.value = posts[i][k].value /\ one.state = s
  BY <1>1 DEF Post
<1>3. posts' = [posts EXCEPT ![i] = seq]
  BY DEF Becomes
<1> HIDE DEF one
<1>4. /\ seq \in Seq(Post) /\ Len(seq) = Len(posts[i])
      /\ \A n \in 1..Len(posts[i]) : seq[n] = IF n = k THEN one ELSE posts[i][n]
  BY <1>1, <1>2
<1> HIDE DEF seq
<1>5. posts' \in [Items -> Seq(Post)]
  BY <1>3, <1>4
<1>6. \A j \in Items : posts'[j] = IF j = i THEN seq ELSE posts[j]
  BY <1>3
<1> QED
  BY <1>2, <1>4, <1>5, <1>6

(* The same for the requests of a server that is killed. *)
LEMMA DiesLemma ==
  ASSUME posts \in [Items -> Seq(Post)], NEW p \in Procs, ServerDies(p)
  PROVE  /\ posts' \in [Items -> Seq(Post)]
         /\ \A j \in Items : Len(posts'[j]) = Len(posts[j])
         /\ \A j \in Items : \A n \in 1..Len(posts[j]) :
              /\ posts'[j][n].value = posts[j][n].value
              /\ posts'[j][n].state \in {posts[j][n].state, "failed"}
              /\ posts[j][n].state \notin {"sent", "logged"} =>
                   posts'[j][n].state = posts[j][n].state
<1>1. CASE posts' = posts
  BY <1>1
<1>2. CASE posts' = [i \in Items |-> [k \in 1..Len(posts[i]) |->
                       IF k \in UnderWay(i) THEN [posts[i][k] EXCEPT !.state = "failed"]
                                           ELSE posts[i][k]]]
  <2> SUFFICES ASSUME NEW j \in Items
               PROVE  /\ posts'[j] \in Seq(Post) /\ Len(posts'[j]) = Len(posts[j])
                      /\ \A n \in 1..Len(posts[j]) :
                           /\ posts'[j][n].value = posts[j][n].value
                           /\ posts'[j][n].state \in {posts[j][n].state, "failed"}
                           /\ posts[j][n].state \notin {"sent", "logged"} =>
                                posts'[j][n].state = posts[j][n].state
    BY <1>2
  <2> DEFINE f(n) == IF n \in UnderWay(j) THEN [posts[j][n] EXCEPT !.state = "failed"]
                                          ELSE posts[j][n]
  <2>1. posts'[j] = [n \in 1..Len(posts[j]) |-> f(n)]
    BY <1>2
  <2>2. \A n \in 1..Len(posts[j]) : posts[j][n] \in Post
    OBVIOUS
  <2>3. \A n \in 1..Len(posts[j]) :
          /\ f(n) \in Post
          /\ f(n).value = posts[j][n].value
          /\ f(n).state \in {posts[j][n].state, "failed"}
          /\ posts[j][n].state \notin {"sent", "logged"} => f(n).state = posts[j][n].state
    BY <2>2 DEF Post, PostState, UnderWay
  <2> HIDE DEF f
  <2>4. posts'[j] \in Seq(Post) /\ Len(posts'[j]) = Len(posts[j])
    BY <2>1, <2>3
  <2> QED
    BY <2>1, <2>3, <2>4
<1> QED
  BY <1>1, <1>2 DEF ServerDies

(* And of a Sync. *)
LEMMA SyncLemma ==
  ASSUME posts \in [Items -> Seq(Post)], value \in [Items -> Values], Sync
  PROVE  /\ posts' \in [Items -> Seq(Post)]
         /\ \A j \in Items : Len(posts'[j]) \in {Len(posts[j]), Len(posts[j]) + 1}
         /\ \A j \in Items : Len(posts'[j]) > Len(posts[j]) =>
              j \in Shown /\ posts'[j][Len(posts'[j])].state = "sent"
         /\ \A j \in Items : \A n \in 1..Len(posts[j]) : posts'[j][n] = posts[j][n]
<1> SUFFICES ASSUME NEW j \in Items
             PROVE  /\ posts'[j] \in Seq(Post)
                    /\ Len(posts'[j]) \in {Len(posts[j]), Len(posts[j]) + 1}
                    /\ Len(posts'[j]) > Len(posts[j]) =>
                         j \in Shown /\ posts'[j][Len(posts'[j])].state = "sent"
                    /\ \A n \in 1..Len(posts[j]) : posts'[j][n] = posts[j][n]
  BY DEF Sync
<1> DEFINE new == [value |-> value[j], state |-> "sent"]
<1>1. new \in Post /\ new.state = "sent"
  BY DEF Post, PostState
<1>2. posts'[j] = IF j \in Shown THEN Append(posts[j], new) ELSE posts[j]
  BY DEF Sync
<1> HIDE DEF new
<1> QED
  BY <1>1, <1>2

-----------------------------------------------------------------------------
(* The page's part of the type invariant. *)
PageTypeOK ==
    /\ item \in [Items -> {"unused", "shown", "synced", "deleted"}]
    /\ value \in [Items -> Values]
    /\ menu \subseteq Templates
    /\ posts \in [Items -> Seq(Post)]
    /\ log \subseteq [item : Items, post : Nat, value : Values]
    /\ losses \in 0..MaxLosses

LEMMA PageTypeStep == PageTypeOK /\ [Next]_vars => PageTypeOK'
<1> SUFFICES ASSUME PageTypeOK, [Next]_vars PROVE PageTypeOK'
  OBVIOUS
<1> USE NetAssumption DEF NetAssumption
<1>1. CASE ProcNext
  <2>1. UNCHANGED <<item, value, menu, log, losses>>
    BY <1>1 DEF ProcNext, ServerDies, pageVars
  <2>2. posts' \in [Items -> Seq(Post)]
    <3>1. CASE UNCHANGED pageVars
      BY <3>1 DEF pageVars, PageTypeOK
    <3>2. ASSUME NEW p \in Procs, ServerDies(p) PROVE posts' \in [Items -> Seq(Post)]
      BY <3>2, DiesLemma DEF PageTypeOK
    <3> QED
      BY <1>1, <3>1, <3>2 DEF ProcNext
  <2> QED
    BY <2>1, <2>2 DEF PageTypeOK
<1>2. CASE LoadPage
  BY <1>2 DEF LoadPage, PageTypeOK
<1>3. CASE Sync
  <2>1. posts' \in [Items -> Seq(Post)]
    BY <1>3, SyncLemma DEF PageTypeOK
  <2> QED
    BY <1>3, <2>1 DEF Sync, PageTypeOK
<1>4. ASSUME NEW i \in Items, AddEntry(i) \/ Delete(i) PROVE PageTypeOK'
  BY <1>4 DEF AddEntry, Delete, PageTypeOK
<1>5. ASSUME NEW i \in Items, NEW v \in Values, Type(i, v) PROVE PageTypeOK'
  BY <1>5 DEF Type, PageTypeOK
<1>6. ASSUME NEW i \in Items, NEW k \in 1..MaxPosts, HandlePost(i, k) PROVE PageTypeOK'
  <2>1. k \in 1..Len(posts[i])
    BY <1>6 DEF HandlePost, PostIs
  <2>2. posts' \in [Items -> Seq(Post)]
    BY <1>6, <2>1, BecomesLemma DEF HandlePost, PageTypeOK, PostState
  <2>3. posts[i][k].value \in Values
    <3>1. posts[i][k] \in Post
      BY <2>1 DEF PageTypeOK
    <3> QED
      BY <3>1 DEF Post
  <2>4. log' \subseteq [item : Items, post : Nat, value : Values]
    BY <1>6, <2>3 DEF HandlePost, Row, PageTypeOK
  <2> QED
    BY <1>6, <2>2, <2>4 DEF HandlePost, PageTypeOK
<1>7. ASSUME NEW i \in Items, NEW k \in 1..MaxPosts, Answer(i, k) PROVE PageTypeOK'
  <2>1. k \in 1..Len(posts[i])
    BY <1>7 DEF Answer, PostIs
  <2>2. posts' \in [Items -> Seq(Post)]
    BY <1>7, <2>1, BecomesLemma DEF Answer, PageTypeOK, PostState
  <2> QED
    BY <1>7, <2>2 DEF Answer, PageTypeOK
<1>8. ASSUME NEW i \in Items, NEW k \in 1..MaxPosts, Lose(i, k) PROVE PageTypeOK'
  <2>1. k \in 1..Len(posts[i])
    BY <1>8 DEF Lose, PostIs
  <2>2. posts' \in [Items -> Seq(Post)]
    BY <1>8, <2>1, BecomesLemma DEF Lose, PageTypeOK, PostState
  <2> QED
    BY <1>8, <2>2 DEF Lose, PageTypeOK
<1>9. ASSUME UNCHANGED pageVars PROVE PageTypeOK'
  BY <1>9 DEF pageVars, PageTypeOK
<1> QED
  BY <1>1, <1>2, <1>3, <1>4, <1>5, <1>6, <1>7, <1>8, <1>9 DEF Next, PageNext, Server, vars

LEMMA DbPart == Init => DbInit
BY DEF Init

LEMMA DbPartStep == [Next]_vars => [DbNext]_dbVars
<1> SUFFICES ASSUME [Next]_vars PROVE [DbNext]_dbVars
  OBVIOUS
<1>1. CASE ProcNext
  BY <1>1 DEF ProcNext, ServerDies, DbNext
<1>2. CASE PageNext
  BY <1>2 DEF PageNext, LoadPage, Sync, AddEntry, Delete, Type, Server, HandlePost, Answer, Lose
<1>3. CASE UNCHANGED vars
  BY <1>3 DEF vars
<1>4. CASE MakeRuntime
  BY <1>4 DEF DbNext
<1> QED
  BY <1>1, <1>2, <1>3, <1>4 DEF Next

(* The page, the requests and the log are well typed in every reachable    *)
(* state, next to the database.                                            *)
THEOREM SyncTypeCorrect == Spec => []SyncTypeOK
<1>1. Init => PageTypeOK
  BY ValuesAssumption, NetAssumption
     DEF ValuesAssumption, NetAssumption, Init, PageTypeOK
<1>2. Spec => []PageTypeOK
  BY <1>1, PageTypeStep, PTL DEF Spec
<1>3. Spec => []DbTypeOK
  BY DbPart, DbPartStep, DbTypeInit, DbTypeStep, PTL DEF Spec
<1>4. PageTypeOK /\ DbTypeOK => SyncTypeOK
  BY DEF PageTypeOK, SyncTypeOK
<1> QED
  BY <1>2, <1>3, <1>4, PTL

-----------------------------------------------------------------------------
(* RemovedIsLogged is not inductive: that an answered request has its row  *)
(* must already hold when it is logged; and that Sync never posts an       *)
(* acknowledged entry follows from the page showing none.                  *)
Recorded ==
    \A i \in Items : \A k \in 1..Len(posts[i]) :
        posts[i][k].state \in {"logged", "answered"} => Row(i, k, posts[i][k].value) \in log

AnsweredIsGone ==
    \A i \in Items : \A k \in 1..Len(posts[i]) :
        posts[i][k].state = "answered" => item[i] \in {"synced", "deleted"}

UnusedIsUnposted == \A i \in Items : item[i] = "unused" => Len(posts[i]) = 0

SyncInv ==
    PageTypeOK /\ RemovedIsLogged /\ RowsWerePosted /\ Recorded /\ AnsweredIsGone /\ UnusedIsUnposted

LEMMA SyncInit == Init => SyncInv
<1> SUFFICES ASSUME Init PROVE SyncInv
  OBVIOUS
<1>1. PageTypeOK
  BY ValuesAssumption, NetAssumption
     DEF ValuesAssumption, NetAssumption, Init, PageTypeOK
<1>2. \A i \in Items : item[i] = "unused" /\ Len(posts[i]) = 0
  BY DEF Init
<1>3. log = {}
  BY DEF Init
<1> QED
  BY <1>1, <1>2, <1>3
     DEF SyncInv, RemovedIsLogged, RowsWerePosted, Recorded, AnsweredIsGone, UnusedIsUnposted

(* How requests evolve: they are only added, keep their value and never    *)
(* become sent or unanswered again.                                        *)
Grows ==
    \A j \in Items :
        /\ Len(posts[j]) \in Nat /\ Len(posts'[j]) \in Nat /\ Len(posts[j]) <= Len(posts'[j])
        /\ \A n \in 1..Len(posts[j]) :
              /\ posts'[j][n].value = posts[j][n].value
              /\ posts[j][n].state = "answered" => posts'[j][n].state = "answered"
              /\ posts[j][n].state # "sent" => posts'[j][n].state # "sent"

LEMMA KeepRemoved ==
  ASSUME Grows, RemovedIsLogged, log \subseteq log',
         NEW i \in Items, item[i] = "synced"
  PROVE  \E k \in 1..Len(posts'[i]) :
             posts'[i][k].state = "answered" /\ Row(i, k, posts'[i][k].value) \in log'
<1>1. PICK k \in 1..Len(posts[i]) :
         posts[i][k].state = "answered" /\ Row(i, k, posts[i][k].value) \in log
  BY DEF RemovedIsLogged
<1>2. /\ posts'[i][k].value = posts[i][k].value
      /\ posts'[i][k].state = "answered"
      /\ k \in 1..Len(posts'[i])
  BY <1>1 DEF Grows
<1> QED
  BY <1>1, <1>2

LEMMA KeepRows ==
  ASSUME Grows, RowsWerePosted, NEW r \in log, r.item \in Items
  PROVE  /\ r.post \in 1..Len(posts'[r.item])
         /\ posts'[r.item][r.post].value = r.value
         /\ posts'[r.item][r.post].state # "sent"
         /\ r.value \notin Refused
<1> DEFINE i == r.item
           k == r.post
<1>1. /\ k \in 1..Len(posts[i]) /\ posts[i][k].value = r.value
      /\ posts[i][k].state # "sent" /\ r.value \notin Refused
  BY DEF RowsWerePosted
<1>2. i \in Items
  OBVIOUS
<1> HIDE DEF i, k
<1>3. /\ k \in 1..Len(posts'[i]) /\ posts'[i][k].value = posts[i][k].value
      /\ posts'[i][k].state # "sent"
  BY <1>1, <1>2 DEF Grows
<1> QED
  BY <1>1, <1>3 DEF i, k

LEMMA SyncStep == SyncInv /\ [Next]_vars => SyncInv'
<1> SUFFICES ASSUME SyncInv, [Next]_vars PROVE SyncInv'
  OBVIOUS
<1>0. PageTypeOK /\ PageTypeOK'
  BY PageTypeStep DEF SyncInv
<1> DEFINE Rest == RemovedIsLogged /\ RowsWerePosted /\ Recorded /\ AnsweredIsGone /\ UnusedIsUnposted
<1> SUFFICES Rest'
  BY <1>0 DEF SyncInv
<1>d. /\ posts \in [Items -> Seq(Post)] /\ value \in [Items -> Values]
      /\ item \in [Items -> {"unused", "shown", "synced", "deleted"}]
      /\ \A r \in log : r.item \in Items
  BY <1>0 DEF PageTypeOK
<1>l. \A i \in Items : Len(posts[i]) \in Nat
  <2>1. \A i \in Items : posts[i] \in Seq(Post)
    BY <1>d
  <2> QED
    BY <2>1
<1>k. ASSUME Grows, UNCHANGED log, \A i \in Items : item'[i] = "synced" => item[i] = "synced"
      PROVE  RemovedIsLogged' /\ RowsWerePosted'
  <2>1. RemovedIsLogged'
    BY <1>k, KeepRemoved DEF SyncInv, RemovedIsLogged
  <2>2. \A r \in log : /\ r.post \in 1..Len(posts'[r.item])
                       /\ posts'[r.item][r.post].value = r.value
                       /\ posts'[r.item][r.post].state # "sent"
                       /\ r.value \notin Refused
    BY <1>k, <1>d, KeepRows DEF SyncInv
  <2> QED
    BY <1>k, <2>1, <2>2 DEF RowsWerePosted
<1>1. ASSUME NEW p \in Procs, ServerDies(p) PROVE Rest'
  <2>1. UNCHANGED <<item, log>>
    BY <1>1 DEF ServerDies
  <2>2. \A j \in Items : Len(posts'[j]) = Len(posts[j])
    BY <1>1, <1>d, DiesLemma
  <2>3. \A j \in Items : \A n \in 1..Len(posts[j]) :
          /\ posts'[j][n].value = posts[j][n].value
          /\ posts'[j][n].state \in {posts[j][n].state, "failed"}
          /\ posts[j][n].state = "answered" => posts'[j][n].state = "answered"
    BY <1>1, <1>d, DiesLemma
  <2>4. Grows
    BY <2>2, <2>3, <1>l DEF Grows
  <2>5. RemovedIsLogged' /\ RowsWerePosted'
    BY <2>1, <2>4, <1>k
  <2>6. Recorded'
    BY <2>1, <2>2, <2>3 DEF SyncInv, Recorded
  <2>7. AnsweredIsGone' /\ UnusedIsUnposted'
    BY <2>1, <2>2, <2>3 DEF SyncInv, AnsweredIsGone, UnusedIsUnposted
  <2> QED
    BY <2>5, <2>6, <2>7
<1>2. CASE UNCHANGED <<item, posts, log>>
  BY <1>2 DEF SyncInv, RemovedIsLogged, RowsWerePosted, Recorded, AnsweredIsGone, UnusedIsUnposted
<1>3. ASSUME UNCHANGED <<posts, log>>,
             \A i \in Items : item'[i] = item[i]
                               \/ (item[i] = "shown" /\ item'[i] = "deleted")
                               \/ (item[i] = "unused" /\ item'[i] = "shown")
      PROVE Rest'
  <2>1. RemovedIsLogged' /\ RowsWerePosted' /\ Recorded'
    BY <1>3 DEF SyncInv, RemovedIsLogged, RowsWerePosted, Recorded
  <2>2. AnsweredIsGone' /\ UnusedIsUnposted'
    BY <1>3, <1>l DEF SyncInv, AnsweredIsGone, UnusedIsUnposted
  <2> QED
    BY <2>1, <2>2
<1>4. CASE LoadPage
  BY <1>3, <1>4, <1>d DEF LoadPage, Shown
<1>5. ASSUME NEW i \in Items, AddEntry(i) \/ Delete(i) PROVE Rest'
  BY <1>3, <1>5, <1>d DEF AddEntry, Delete, Shown
<1>6. ASSUME NEW i \in Items, NEW v \in Values, Type(i, v) PROVE Rest'
  BY <1>2, <1>6 DEF Type
<1>7. CASE Sync
  <2>1. UNCHANGED <<item, log>>
    BY <1>7 DEF Sync
  <2>2. ASSUME NEW j \in Items
        PROVE  /\ Len(posts[j]) \in Nat
               /\ Len(posts'[j]) = Len(posts[j]) \/ Len(posts'[j]) = Len(posts[j]) + 1
               /\ Len(posts'[j]) > Len(posts[j]) =>
                    item[j] = "shown" /\ posts'[j][Len(posts'[j])].state = "sent"
               /\ \A n \in 1..Len(posts[j]) : posts'[j][n] = posts[j][n]
    BY <1>7, <1>d, <1>l, SyncLemma DEF Shown
  <2>3. ASSUME NEW j \in Items, NEW n \in 1..Len(posts'[j])
        PROVE  \/ n \in 1..Len(posts[j]) /\ posts'[j][n] = posts[j][n]
               \/ posts'[j][n].state = "sent"
    <3> DEFINE len  == Len(posts[j])
               len1 == Len(posts'[j])
    <3>1. /\ len \in Nat /\ (len1 = len \/ len1 = len + 1)
          /\ len1 > len => posts'[j][len1].state = "sent"
          /\ \A m \in 1..len : posts'[j][m] = posts[j][m]
      BY <2>2
    <3>2. n \in 1..len1
      OBVIOUS
    <3> HIDE DEF len, len1
    <3>3. n \in 1..len \/ (n = len1 /\ len1 > len)
      BY <3>1, <3>2
    <3>4. (n \in 1..len /\ posts'[j][n] = posts[j][n]) \/ posts'[j][n].state = "sent"
      BY <3>1, <3>3
    <3> QED
      BY <3>4 DEF len
  <2>4. Grows
    <3> SUFFICES ASSUME NEW j \in Items
                 PROVE  /\ Len(posts[j]) \in Nat /\ Len(posts'[j]) \in Nat
                        /\ Len(posts[j]) <= Len(posts'[j])
                        /\ \A n \in 1..Len(posts[j]) : posts'[j][n] = posts[j][n]
      BY DEF Grows
    <3> QED
      BY <2>2
  <2>5. RemovedIsLogged' /\ RowsWerePosted'
    BY <2>1, <2>4, <1>k
  <2>6. Recorded'
    BY <2>1, <2>3 DEF SyncInv, Recorded
  <2>7. AnsweredIsGone'
    BY <2>1, <2>3 DEF SyncInv, AnsweredIsGone
  <2>8. UnusedIsUnposted'
    <3> SUFFICES ASSUME NEW j \in Items, item[j] = "unused" PROVE Len(posts'[j]) = 0
      BY <2>1 DEF UnusedIsUnposted
    <3>1. Len(posts[j]) = 0
      BY DEF SyncInv, UnusedIsUnposted
    <3> QED
      BY <2>2, <3>1
  <2> QED
    BY <2>5, <2>6, <2>7, <2>8
<1>b. ASSUME NEW i \in Items, NEW k \in 1..Len(posts[i]), NEW s \in PostState, Becomes(i, k, s)
      PROVE  /\ \A j \in Items : Len(posts'[j]) = Len(posts[j])
             /\ \A j \in Items : \A n \in 1..Len(posts[j]) :
                  /\ posts'[j][n].value = posts[j][n].value
                  /\ posts'[j][n].state = IF j = i /\ n = k THEN s ELSE posts[j][n].state
  BY <1>b, <1>d, BecomesLemma
<1>g. ASSUME NEW i \in Items, NEW k \in 1..Len(posts[i]), NEW s \in PostState \ {"sent"},
             Becomes(i, k, s), posts[i][k].state # "answered"
      PROVE  Grows
  BY <1>b, <1>g, <1>l DEF Grows
<1>8. ASSUME NEW i \in Items, NEW k \in 1..MaxPosts, HandlePost(i, k) PROVE Rest'
  <2>1. k \in 1..Len(posts[i]) /\ posts[i][k].state = "sent"
    BY <1>8 DEF HandlePost, PostIs
  <2>2. UNCHANGED item
    BY <1>8 DEF HandlePost
  <2>3. CASE Becomes(i, k, "failed") /\ UNCHANGED log
    <3>1. Grows
      BY <2>1, <2>3, <1>g DEF PostState
    <3>2. RemovedIsLogged' /\ RowsWerePosted'
      BY <2>2, <2>3, <3>1, <1>k
    <3>3. /\ \A j \in Items : Len(posts'[j]) = Len(posts[j])
          /\ \A j \in Items : \A n \in 1..Len(posts[j]) :
                /\ posts'[j][n].value = posts[j][n].value
                /\ posts'[j][n].state = IF j = i /\ n = k THEN "failed" ELSE posts[j][n].state
      BY <2>1, <2>3, <1>b DEF PostState
    <3>4. Recorded'
      BY <2>3, <3>3 DEF SyncInv, Recorded
    <3>5. AnsweredIsGone' /\ UnusedIsUnposted'
      BY <2>2, <3>3 DEF SyncInv, AnsweredIsGone, UnusedIsUnposted
    <3> QED
      BY <3>2, <3>4, <3>5
  <2>4. CASE /\ Becomes(i, k, "logged")
             /\ posts[i][k].value \notin Refused
             /\ log' = log \union {Row(i, k, posts[i][k].value)}
    <3>1. Grows
      BY <2>1, <2>4, <1>g DEF PostState
    <3>2. RemovedIsLogged'
      BY <2>2, <2>4, <3>1, KeepRemoved DEF SyncInv, RemovedIsLogged
    <3>3. /\ \A j \in Items : Len(posts'[j]) = Len(posts[j])
          /\ \A j \in Items : \A n \in 1..Len(posts[j]) :
                /\ posts'[j][n].value = posts[j][n].value
                /\ posts'[j][n].state = IF j = i /\ n = k THEN "logged" ELSE posts[j][n].state
      BY <2>1, <2>4, <1>b DEF PostState
    <3>4. RowsWerePosted'
      <4> SUFFICES ASSUME NEW r \in log'
                   PROVE  /\ r.post \in 1..Len(posts'[r.item])
                          /\ posts'[r.item][r.post].value = r.value
                          /\ posts'[r.item][r.post].state # "sent"
                          /\ r.value \notin Refused
        BY DEF RowsWerePosted
      <4>1. CASE r \in log
        BY <3>1, <4>1, <1>d, KeepRows DEF SyncInv
      <4>2. CASE r = Row(i, k, posts[i][k].value)
        <5>1. r.item = i /\ r.post = k /\ r.value = posts[i][k].value
          BY <4>2 DEF Row
        <5>2. posts'[i][k].value = posts[i][k].value /\ posts'[i][k].state = "logged"
          BY <2>1, <3>3
        <5> QED
          BY <2>1, <2>4, <3>3, <5>1, <5>2
      <4> QED
        BY <2>4, <4>1, <4>2
    <3>5. Recorded'
      BY <2>1, <2>4, <3>3 DEF SyncInv, Recorded
    <3>6. AnsweredIsGone' /\ UnusedIsUnposted'
      BY <2>2, <3>3 DEF SyncInv, AnsweredIsGone, UnusedIsUnposted
    <3> QED
      BY <3>2, <3>4, <3>5, <3>6
  <2> QED
    BY <1>8, <2>3, <2>4 DEF HandlePost
<1>9. ASSUME NEW i \in Items, NEW k \in 1..MaxPosts, Answer(i, k) PROVE Rest'
  <2>1. k \in 1..Len(posts[i]) /\ posts[i][k].state = "logged" /\ Becomes(i, k, "answered")
    BY <1>9 DEF Answer, PostIs
  <2>2. /\ \A j \in Items \ {i} : item'[j] = item[j]
        /\ item'[i] = IF item[i] = "shown" THEN "synced" ELSE item[i]
        /\ UNCHANGED log
    BY <1>9, <1>d DEF Answer, Shown
  <2>3. item[i] # "unused"
    BY <2>1, <1>l DEF SyncInv, UnusedIsUnposted
  <2>4. /\ \A j \in Items : Len(posts'[j]) = Len(posts[j])
        /\ \A j \in Items : \A n \in 1..Len(posts[j]) :
              /\ posts'[j][n].value = posts[j][n].value
              /\ posts'[j][n].state = IF j = i /\ n = k THEN "answered" ELSE posts[j][n].state
    BY <2>1, <1>b DEF PostState
  <2>5. Row(i, k, posts[i][k].value) \in log
    BY <2>1 DEF SyncInv, Recorded
  <2>6. Grows
    BY <2>1, <1>g DEF PostState
  <2>7. RemovedIsLogged'
    <3> SUFFICES ASSUME NEW j \in Items, item'[j] = "synced"
                 PROVE  \E n \in 1..Len(posts'[j]) :
                          posts'[j][n].state = "answered" /\ Row(j, n, posts'[j][n].value) \in log'
      BY DEF RemovedIsLogged
    <3>1. CASE item[j] = "synced"
      BY <2>2, <2>6, <3>1, KeepRemoved DEF SyncInv
    <3>2. CASE item[j] # "synced"
      <4>1. j = i
        BY <2>2, <3>2
      <4>2. /\ k \in 1..Len(posts'[i]) /\ posts'[i][k].state = "answered"
            /\ Row(i, k, posts'[i][k].value) \in log'
        BY <2>1, <2>2, <2>4, <2>5
      <4> QED
        BY <4>1, <4>2
    <3> QED
      BY <3>1, <3>2
  <2>8. RowsWerePosted'
    <3>1. \A r \in log : /\ r.post \in 1..Len(posts'[r.item])
                         /\ posts'[r.item][r.post].value = r.value
                         /\ posts'[r.item][r.post].state # "sent"
                         /\ r.value \notin Refused
      BY <2>6, <1>d, KeepRows DEF SyncInv
    <3> QED
      BY <2>2, <3>1 DEF RowsWerePosted
  <2>9. Recorded'
    BY <2>1, <2>2, <2>4, <2>5 DEF SyncInv, Recorded
  <2>10. AnsweredIsGone' /\ UnusedIsUnposted'
    BY <2>1, <2>2, <2>3, <2>4, <1>d DEF SyncInv, AnsweredIsGone, UnusedIsUnposted
  <2> QED
    BY <2>7, <2>8, <2>9, <2>10
<1>10. ASSUME NEW i \in Items, NEW k \in 1..MaxPosts, Lose(i, k) PROVE Rest'
  <2>1. k \in 1..Len(posts[i]) /\ posts[i][k].state # "answered" /\ Becomes(i, k, "failed")
    BY <1>10 DEF Lose, PostIs
  <2>2. UNCHANGED <<item, log>>
    BY <1>10 DEF Lose
  <2>3. Grows
    BY <2>1, <1>g DEF PostState
  <2>4. /\ \A j \in Items : Len(posts'[j]) = Len(posts[j])
        /\ \A j \in Items : \A n \in 1..Len(posts[j]) :
              /\ posts'[j][n].value = posts[j][n].value
              /\ posts'[j][n].state = IF j = i /\ n = k THEN "failed" ELSE posts[j][n].state
    BY <2>1, <1>b DEF PostState
  <2>5. RemovedIsLogged' /\ RowsWerePosted'
    BY <2>2, <2>3, <1>k
  <2>6. Recorded'
    BY <2>2, <2>4 DEF SyncInv, Recorded
  <2>7. AnsweredIsGone' /\ UnusedIsUnposted'
    BY <2>2, <2>4 DEF SyncInv, AnsweredIsGone, UnusedIsUnposted
  <2> QED
    BY <2>5, <2>6, <2>7
<1>11. CASE UNCHANGED vars
  BY <1>2, <1>11 DEF vars, pageVars
<1>12. ASSUME UNCHANGED pageVars PROVE Rest'
  BY <1>2, <1>12 DEF pageVars
<1> QED
  BY <1>1, <1>4, <1>5, <1>6, <1>7, <1>8, <1>9, <1>10, <1>11, <1>12
     DEF Next, ProcNext, PageNext, Server

(* An entry that has left the page on an answer is in the log with the     *)
(* value that was posted, and the log holds only what was posted: however  *)
(* Syncs overlap, messages get lost and the server is killed.              *)
THEOREM NothingLostNothingInvented == Spec => []LogIsTrue
<1>1. SyncInv => LogIsTrue
  BY DEF SyncInv, LogIsTrue
<1> QED
  BY <1>1, SyncInit, SyncStep, PTL DEF Spec

(* What the server has acknowledged is never posted again. *)
THEOREM NoRepostAfterAnswer == Spec => AcknowledgedNotReposted
<1>1. SyncInv /\ [Next]_vars =>
        [\A i \in Items : Len(posts'[i]) > Len(posts[i]) =>
            \A k \in 1..Len(posts[i]) : posts[i][k].state # "answered"]_vars
  <2> SUFFICES ASSUME SyncInv, Next, NEW i \in Items, Len(posts'[i]) > Len(posts[i])
               PROVE  \A k \in 1..Len(posts[i]) : posts[i][k].state # "answered"
    BY DEF vars, pageVars
  <2>1. posts[i] \in Seq(Post) /\ Len(posts[i]) \in Nat
    BY DEF SyncInv, PageTypeOK
  <2>2. CASE Sync
    <3>1. i \in Shown
      BY <2>2, SyncLemma DEF SyncInv, PageTypeOK
    <3> QED
      BY <3>1 DEF SyncInv, AnsweredIsGone, Shown
  <2>3. ASSUME posts' = posts PROVE FALSE
    BY <2>1, <2>3
  <2>4. ASSUME NEW p \in Procs, ServerDies(p) PROVE FALSE
    BY <2>1, <2>4, DiesLemma DEF SyncInv, PageTypeOK
  <2>5. ASSUME NEW j \in Items, NEW k \in 1..MaxPosts,
               HandlePost(j, k) \/ Answer(j, k) \/ Lose(j, k)
        PROVE  FALSE
    <3>1. PICK s \in PostState : k \in 1..Len(posts[j]) /\ Becomes(j, k, s)
      BY <2>5 DEF HandlePost, Answer, Lose, PostIs, PostState
    <3> QED
      BY <2>1, <3>1, BecomesLemma DEF SyncInv, PageTypeOK
  <2> QED
    BY <2>2, <2>3, <2>4, <2>5
       DEF Next, ProcNext, PageNext, Server, LoadPage, AddEntry, Delete, Type, pageVars
<1> QED
  BY <1>1, SyncInit, SyncStep, PTL DEF Spec, AcknowledgedNotReposted
=============================================================================
